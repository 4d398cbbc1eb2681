----------------------------- MODULE BoundedFifo -----------------------------
(***************************************************************************)
(* What a queue stage promises the stages around it: messages leave in the *)
(* order in which they were accepted, each exactly once, and a message is  *)
(* turned away only while the queue is full.                               *)
(***************************************************************************)
EXTENDS Naturals, Sequences

CONSTANTS Messages, Capacity

VARIABLES queue,      \* accepted and not yet taken out
          taken,      \* taken out and not yet handed on: at most one message
          delivered,  \* handed to the stage downstream, in order
          refused     \* sent to the buffer-full source

vars == <<queue, taken, delivered, refused>>

Init == queue = <<>> /\ taken = <<>> /\ delivered = <<>> /\ refused = {}

Accept(m) == /\ Len(queue) < Capacity
             /\ queue' = Append(queue, m)
             /\ UNCHANGED <<taken, delivered, refused>>

Refuse(m) == /\ Len(queue) = Capacity
             /\ refused' = refused \cup {m}
             /\ UNCHANGED <<queue, taken, delivered>>

Take == /\ queue # <<>> /\ taken = <<>>
        /\ taken' = <<Head(queue)>>
        /\ queue' = Tail(queue)
        /\ UNCHANGED <<delivered, refused>>

Deliver == /\ taken # <<>>
           /\ delivered' = delivered \o taken
           /\ taken' = <<>>
           /\ UNCHANGED <<queue, refused>>

Next == (\E m \in Messages : Accept(m) \/ Refuse(m)) \/ Take \/ Deliver

Spec == Init /\ [][Next]_vars
=============================================================================
