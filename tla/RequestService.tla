----------------------------- MODULE RequestService -----------------------------
(***************************************************************************)
(* What a gateway promises the clients of its HTTP server: whoever asks is *)
(* answered with the response to its own request, or refused, once, unless *)
(* it goes away.  A client may also be disturbed, and then nothing is      *)
(* promised to it; who is, the implementation has to say.                  *)
(***************************************************************************)
CONSTANT Clients

VARIABLE phase  \* of each client: "idle", "waiting", "answered", "refused",
                \* "gone" or "disturbed"

Init == phase = [c \in Clients |-> "idle"]

\* Several clients may be disturbed at once; the others do not notice.
Disturb ==
  \E them \in SUBSET {c \in Clients : phase[c] = "waiting"} :
    phase' = [c \in Clients |-> IF c \in them THEN "disturbed" ELSE phase[c]]

Ask(c) ==
  /\ phase[c] = "idle"
  /\ \E to \in {"waiting", "disturbed"} : phase' = [phase EXCEPT ![c] = to]

Conclude(c) ==
  /\ phase[c] \in {"waiting", "disturbed"}
  /\ \E to \in {"answered", "refused", "gone"} : phase' = [phase EXCEPT ![c] = to]

Next == Disturb \/ \E c \in Clients : Ask(c) \/ Conclude(c)

\* Nobody waits for ever: a client asks once, so in the end none is waiting.
WaitingEnds == <>[](\A c \in Clients : phase[c] # "waiting")

Safety == Init /\ [][Next]_phase

Spec == Safety /\ WaitingEnds
=============================================================================
