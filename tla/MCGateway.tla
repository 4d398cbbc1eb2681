------------------------------- MODULE MCGateway -------------------------------
EXTENDS Gateway
CONSTANTS get, post, other, e1, e2
AllMethods == {get, post, other}
OnlyGet == {get}
OnlyOther == {other}

\* The first request has an endpoint of its own; the others share one.
TwoEndpoints == [r \in 1 .. MaxRequests |-> IF r = 1 THEN e1 ELSE e2]
=============================================================================
