------------------------------ MODULE Throttling ------------------------------
(***************************************************************************)
(* ThrottlingEnforcerStage and ThrottleStateBuilderStage.  The enforcer    *)
(* decides about a message with the verdicts it was last sent; the builder *)
(* sees the message afterwards, brings the throttlers up to date, and      *)
(* sends the verdicts that changed hands at the next flush.  The two run   *)
(* on threads of their own, connected by queues in both directions.        *)
(***************************************************************************)
EXTENDS SlidingLog, FiniteSets, SequencesExt

CONSTANTS
  Ids,          \* throttler ids: the values of the lookup fields
  Kinds,        \* the messages: sequences of ids, one for each lookup field
  Configured,   \* the throttlers installed before traffic, or Absent
  Absent,
  Commands,     \* the configuration messages, in the order they are sent
  Start,        \* time stamp of the first tick
  MaxTime,      \* bound: time stamp of the last tick
  MaxMessages,  \* bound: messages in all
  MaxQueue      \* bound: length of each queue between the stages

ASSUME KindsAssumption == Kinds \subseteq Seq(Ids)
ASSUME TimeAssumption  == Start \in Nat /\ MaxTime \in Nat /\ Start <= MaxTime /\ MaxTime < WordSize
ASSUME AbsentAssumption == Absent \notin Throttlers(Nat, Nat)
ASSUME ConfiguredAssumption ==
  /\ Configured \in [Ids -> Throttlers(Nat, Nat) \cup {Absent}]
  /\ \A id \in Ids : Configured[id] # Absent => Configured[id].log = <<>>
ASSUME BoundAssumption == MaxMessages \in Nat /\ MaxQueue \in Nat
ASSUME CommandAssumption ==
  Commands \in Seq([kind : {"add", "update", "other"}, id : Ids,
                    type : {"sliding_log", "sliding_window", "fixed_window", "unknown"},
                    window : Nat, allowed : Nat])

VARIABLES
  now,         \* the clock that stamps messages
  states,      \* the enforcer's _throttler_states
  toBuilder,   \* messages on their way to the builder
  throttlers,  \* the builder's _throttlers
  updates,     \* the builder's _updated_throttlers
  errors,      \* messages sent to error_out
  toEnforcer,  \* state messages on their way to the enforcer
  results,     \* how the configuration messages sent so far were answered
  history,     \* history: the messages the enforcer decided about, in order,
               \* and whether its verdicts were up to date when it did
  current      \* history: ids evaluated since they were last configured

vars == <<now, states, toBuilder, throttlers, updates, errors, toEnforcer,
          results, history, current>>

Times == Start .. MaxTime
\* Mutant: the state of a throttler is left at its default.
VerdictUnset(throttler) == IF IsAllowed(throttler) THEN "allowed" ELSE "unknown"

Verdict(throttler) == IF IsAllowed(throttler) THEN "allowed" ELSE "suppressed"
Messages == [ids : Kinds, time : Times, state : {"allowed", "suppressed"}]
Updates == Ids \X {"allowed", "suppressed"}

TypeOK ==
  /\ now \in Times
  /\ states \in [Ids -> {"unknown", "allowed", "suppressed"}]
  /\ toBuilder \in Seq(Messages)
  /\ throttlers \in [Ids -> Throttlers(Nat, Nat) \cup {Absent}]
  /\ updates \in Seq(Updates)
  /\ errors \in Nat
  /\ toEnforcer \in Seq(Seq(Updates))
  /\ results \in Seq({"completed", "failed"})
  /\ history \in Seq([msg : Messages, fresh : BOOLEAN])
  /\ current \in SUBSET Ids

Init ==
  /\ now = Start
  /\ states = [id \in Ids |-> "unknown"]
  /\ toBuilder = <<>> /\ updates = <<>> /\ toEnforcer = <<>>
  /\ throttlers = Configured
  /\ errors = 0
  /\ results = <<>> /\ history = <<>>
  /\ current = {}

Tick ==
  /\ now < MaxTime
  /\ now' = now + 1
  /\ UNCHANGED <<states, toBuilder, throttlers, updates, errors, toEnforcer,
                 results, history, current>>

-----------------------------------------------------------------------------
(* The enforcer. *)

UpToDate == toBuilder = <<>> /\ updates = <<>> /\ toEnforcer = <<>>

\* The lookup fields are tried in turn; the first throttler that does not allow
\* the message suppresses it, and an id without verdict allows it.
Enforce(ids) ==
  LET state == IF \E i \in DOMAIN ids : states[ids[i]] = "suppressed"
                 THEN "suppressed" ELSE "allowed"
      msg   == [ids |-> ids, time |-> now, state |-> state]
  IN /\ Len(toBuilder) < MaxQueue
     /\ Len(history) < MaxMessages
     /\ toBuilder' = Append(toBuilder, msg)
     /\ history' = Append(history, [msg |-> msg, fresh |-> UpToDate])
     /\ UNCHANGED <<now, states, throttlers, updates, errors, toEnforcer, results, current>>

\* Mutant: the oldest of the updates of an id wins.
TakeStatesReversed ==
  /\ toEnforcer # <<>>
  /\ states' = FoldRight(LAMBDA u, s : [s EXCEPT ![u[1]] = u[2]], Head(toEnforcer), states)
  /\ toEnforcer' = Tail(toEnforcer)
  /\ UNCHANGED <<now, toBuilder, throttlers, updates, errors, results, history, current>>

\* The updates apply in the order they were made.
Apply(verdicts, reported) ==
  FoldLeft(LAMBDA s, u : [s EXCEPT ![u[1]] = u[2]], verdicts, reported)

\* on_throttle_state_message
TakeStates ==
  /\ toEnforcer # <<>>
  /\ states' = Apply(states, Head(toEnforcer))
  /\ toEnforcer' = Tail(toEnforcer)
  /\ UNCHANGED <<now, toBuilder, throttlers, updates, errors, results, history, current>>

-----------------------------------------------------------------------------
(* The builder. *)

Evaluate(throttler, msg) ==
  IF msg.state = "allowed" THEN AddTimestamp(throttler, msg.time)
                           ELSE ReEvaluate(throttler, msg.time)

\* One lookup field of on_message; an id that is not configured is an error.
Observe(builder, id, msg) ==
  IF builder.throttlers[id] = Absent
    THEN [builder EXCEPT !.errors = @ + 1]
    ELSE LET after == Evaluate(builder.throttlers[id], msg)
         IN [builder EXCEPT !.throttlers[id] = after,
                            !.updates = Append(@, <<id, Verdict(after)>>)]

\* The lookup fields in turn.
ObserveAll(builder, msg) ==
  FoldLeft(LAMBDA b, id : Observe(b, id, msg), builder, msg.ids)

Builder == [throttlers |-> throttlers, updates |-> updates, errors |-> errors]

BuildState ==
  /\ toBuilder # <<>>
  /\ LET msg   == Head(toBuilder)
         after == ObserveAll(Builder, msg)
     IN /\ throttlers' = after.throttlers
        /\ updates' = after.updates
        /\ errors' = after.errors
        /\ current' = current \cup {id \in ToSet(msg.ids) : throttlers[id] # Absent}
  /\ toBuilder' = Tail(toBuilder)
  /\ UNCHANGED <<now, states, toEnforcer, results, history>>

\* A flush message may come at any time, with nothing to report too.
FlushUpdates ==
  /\ Len(toEnforcer) < MaxQueue
  /\ toEnforcer' = Append(toEnforcer, updates)
  /\ updates' = <<>>
  /\ UNCHANGED <<now, states, toBuilder, throttlers, errors, results, history, current>>

-----------------------------------------------------------------------------
(* on_config_message. *)

Answer(result) == results' = Append(results, result)

AddThrottler(command) ==
  /\ command.kind = "add"
  /\ \/ /\ command.type = "sliding_log"
        /\ throttlers[command.id] = Absent
        /\ throttlers' = [throttlers EXCEPT
             ![command.id] = NewThrottler(command.window, command.allowed)]
        /\ Answer("completed")
     \/ /\ \/ command.type = "sliding_log" /\ throttlers[command.id] # Absent
           \/ command.type = "fixed_window"
        /\ UNCHANGED throttlers
        /\ Answer("failed")
     \/ /\ command.type \notin {"sliding_log", "fixed_window"}
        /\ UNCHANGED throttlers
        /\ Answer("completed")

UpdateThrottler(command) ==
  /\ command.kind = "update"
  /\ \/ /\ command.type = "sliding_log"
        /\ throttlers[command.id] # Absent
        /\ throttlers' = [throttlers EXCEPT ![command.id].window = command.window,
                                            ![command.id].allowed = command.allowed]
        /\ Answer("completed")
     \/ /\ \/ command.type = "sliding_log" /\ throttlers[command.id] = Absent
           \/ command.type \in {"sliding_window", "fixed_window"}
        /\ UNCHANGED throttlers
        /\ Answer("failed")
     \/ /\ command.type = "unknown"
        /\ UNCHANGED throttlers
        /\ Answer("completed")

UnknownCommand(command) ==
  /\ command.kind = "other"
  /\ UNCHANGED throttlers
  /\ Answer("failed")

Configure ==
  /\ Len(results) < Len(Commands)
  /\ LET command == Commands[Len(results) + 1]
     IN /\ AddThrottler(command) \/ UpdateThrottler(command) \/ UnknownCommand(command)
        /\ current' = IF throttlers' = throttlers THEN current ELSE current \ {command.id}
  /\ UNCHANGED <<now, states, toBuilder, updates, errors, toEnforcer, history>>

Next == \/ Tick
        \/ \E ids \in Kinds : Enforce(ids)
        \/ TakeStates \/ BuildState \/ FlushUpdates
        \/ Configure

Spec == Init /\ [][Next]_vars

-----------------------------------------------------------------------------
\* Once everything the builder found out has been flushed and delivered, the
\* enforcer's verdict about an id is the one of its throttler, unless the
\* throttler was reconfigured since a message was last seen.
EnforcerFollowsBuilder ==
  updates = <<>> /\ toEnforcer = <<>> =>
    \A id \in current : states[id] = Verdict(throttlers[id])

\* A throttler's log is cut to exactly the time stamps of the last window, and
\* only when it holds as many as are allowed: the stamps are in order, whatever
\* was configured in between, so what is cut is the beginning.  An id that a
\* message names twice is logged twice, and a window that reaches back before
\* time 0 makes the unsigned subtraction wrap around.
LogIsWindow ==
  [][Len(toBuilder') < Len(toBuilder) =>
       LET msg == Head(toBuilder) IN
       \A id \in Ids :
         /\ \E i \in DOMAIN msg.ids : \A j \in DOMAIN msg.ids : msg.ids[j] = id <=> j = i
         /\ throttlers[id] # Absent /\ throttlers[id].window <= msg.time
         => LET known == IF msg.state = "allowed" THEN Append(throttlers[id].log, msg.time)
                                                  ELSE throttlers[id].log
            IN IF Len(known) < throttlers[id].allowed THEN throttlers'[id].log = known
               ELSE \E first \in 1 .. Len(known) + 1 :
                      /\ throttlers'[id].log = SubSeq(known, first, Len(known))
                      /\ \A i \in 1 .. Len(known) :
                           i >= first <=> msg.time - known[i] <= throttlers[id].window]_vars

\* The messages of an id that were let through in the window that ends with
\* the i-th message.
Admitted(id, i) ==
  {j \in 1 .. i : LET msg == history[j].msg
                  IN /\ msg.state = "allowed"
                     /\ id \in ToSet(msg.ids)
                     /\ history[i].msg.time - msg.time < Configured[id].window}

Reconfigured(id) == \E k \in DOMAIN results : Commands[k].id = id /\ results[k] = "completed"

\* A message that is let through on verdicts that are up to date exceeds the
\* allowed count of its window by one at most, whatever was let through on stale
\* verdicts before it.
RateBound ==
  \A i \in DOMAIN history : history[i].fresh /\ history[i].msg.state = "allowed" =>
    \A id \in ToSet(history[i].msg.ids) :
      Configured[id] # Absent /\ ~Reconfigured(id) =>
        Cardinality(Admitted(id, i)) <= Configured[id].allowed + 1
=============================================================================
