-------------------------- MODULE MCHttpDispatcher --------------------------
EXTENDS HttpDispatcher

CONSTANTS r1, r2, r3, r4, r5, e1, e2

\* All requests go to one endpoint, so that they share a connection.
OneEndpoint == [r \in Requests |-> e1]
=============================================================================
