----------------------- MODULE MCInProcessLoadBalancer -----------------------
EXTENDS InProcessLoadBalancer

CONSTANTS t1, t2, t3
=============================================================================
