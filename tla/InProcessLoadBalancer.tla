------------------------ MODULE InProcessLoadBalancer ------------------------
(***************************************************************************)
(* InProcessRoundRobinLoadBalancerStage::on_message, called by several     *)
(* threads.  Each of its accesses to the atomic _index is a step.          *)
(***************************************************************************)
EXTENDS Integers

CONSTANTS Threads,        \* threads that call on_message
          OutboundCount,  \* outbound_count: the number of sources
          MaxMessages     \* bound: messages handled in all

ASSUME OutboundAssumption == OutboundCount \in Nat \ {0}
ASSUME MessagesAssumption == MaxMessages \in Nat

VARIABLES
  index,      \* _index
  pc,         \* the next access of each thread
  target,     \* target_source of each thread
  emitted,    \* messages each source has emitted
  handled,    \* messages taken on so far
  astray,     \* a thread read past the end of _sources: anything may follow
  overlapped  \* history: a message was taken on while another was in the stage

inProcessVars == <<index, pc, target, emitted, handled, astray, overlapped>>

Sources == 0 .. OutboundCount - 1

InProcessTypeOK ==
  /\ index \in Nat
  /\ pc \in [Threads -> {"idle", "add", "reset", "emit"}]
  /\ target \in [Threads -> Sources]
  /\ emitted \in [Sources -> Nat]
  /\ handled \in 0 .. MaxMessages
  /\ astray \in BOOLEAN
  /\ overlapped \in BOOLEAN

InProcessInit ==
  /\ index = 0
  /\ pc = [t \in Threads |-> "idle"]
  /\ target = [t \in Threads |-> 0]
  /\ emitted = [s \in Sources |-> 0]
  /\ handled = 0
  /\ astray = FALSE
  /\ overlapped = FALSE

Goto(t, from, to) == /\ ~astray
                     /\ pc[t] = from
                     /\ pc' = [pc EXCEPT ![t] = to]

\* auto *target_source = _sources[_index.load()]
LoadIndex(t) ==
  /\ Goto(t, "idle", "add")
  /\ handled < MaxMessages
  /\ handled' = handled + 1
  /\ IF index \in Sources THEN target' = [target EXCEPT ![t] = index] /\ UNCHANGED astray
                          ELSE astray' = TRUE /\ UNCHANGED target
  /\ overlapped' = (overlapped \/ \E u \in Threads \ {t} : pc[u] # "idle")
  /\ UNCHANGED <<index, emitted>>

\* Mutant: the thread that takes the index one too far wraps it.
FetchAddLate(t) ==
  /\ Goto(t, "add", IF index = OutboundCount THEN "reset" ELSE "emit")
  /\ index' = index + 1
  /\ UNCHANGED <<target, emitted, handled, astray, overlapped>>

\* fetch_add; the previous value decides whether this thread wraps the index
FetchAdd(t) ==
  /\ Goto(t, "add", IF index = OutboundCount - 1 THEN "reset" ELSE "emit")
  /\ index' = index + 1
  /\ UNCHANGED <<target, emitted, handled, astray, overlapped>>

\* Mutants: the index wraps to the second source, or before the first.
ResetToSecond(t) ==
  /\ Goto(t, "reset", "emit")
  /\ index' = IF OutboundCount > 1 THEN 1 ELSE 0
  /\ UNCHANGED <<target, emitted, handled, astray, overlapped>>

ResetBeforeFirst(t) ==
  /\ Goto(t, "reset", "emit")
  /\ index' = -1
  /\ UNCHANGED <<target, emitted, handled, astray, overlapped>>

Reset(t) ==
  /\ Goto(t, "reset", "emit")
  /\ index' = 0
  /\ UNCHANGED <<target, emitted, handled, astray, overlapped>>

Emit(t) ==
  /\ Goto(t, "emit", "idle")
  /\ emitted' = [emitted EXCEPT ![target[t]] = @ + 1]
  /\ UNCHANGED <<index, target, handled, astray, overlapped>>

InProcessNext == \E t \in Threads : LoadIndex(t) \/ FetchAdd(t) \/ Reset(t) \/ Emit(t)

InProcessSpec == InProcessInit /\ [][InProcessNext]_inProcessVars

-----------------------------------------------------------------------------
\* No thread reads past the end of _sources: what "Thread safe - yes" means
\* for the least a caller relies on.
NeverAstray == ~astray

\* The sources differ by at most one message: a strict rotation.
Balanced == \A s1, s2 \in Sources : emitted[s1] - emitted[s2] \in -1 .. 1

\* As long as messages have passed one after the other, on whichever threads,
\* the rotation is strict and stays inside the array.
SerialRotation == ~overlapped => NeverAstray /\ Balanced

\* The index is out of range only while a thread stands between the fetch_add
\* that took it there and the store that brings it back.
OutOfRangeIsTransient == index \in Sources \/ \E t \in Threads : pc[t] = "reset"
=============================================================================
