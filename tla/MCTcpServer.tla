------------------------------ MODULE MCTcpServer ------------------------------
EXTENDS TcpServer
=============================================================================
