------------------------------ MODULE SlidingLog ------------------------------
(***************************************************************************)
(* SlidingLogThrottler: the time stamps of the requests let through, and   *)
(* the limit of `allowed' requests in a window of `window' ticks.          *)
(***************************************************************************)
EXTENDS Integers, Sequences

CONSTANT WordSize   \* number of values of a size_t

ASSUME WordAssumption == WordSize \in Nat \ {0}

Throttlers(Times, Limits) ==
  [window : Times, allowed : Limits, log : Seq(Times)]

NewThrottler(window, allowed) == [window |-> window, allowed |-> allowed, log |-> <<>>]

\* std::lower_bound on the log: a binary search, which is meant for a log in
\* order and finds some position in any other.  It goes on in one half of the
\* len positions from first on.
LowerBound(log, value) ==
  LET search[len \in 0 .. Len(log)] ==
        [first \in 1 .. Len(log) + 1 - len |->
           IF len = 0 THEN first
           ELSE LET half == len \div 2
                IN IF log[first + half] < value
                     THEN search[len - half - 1][first + half + 1]
                     ELSE search[half][first]]
  IN search[Len(log)][1]

\* Mutant: the window is one tick too short.
CutoffLate(throttler, time) == (time - throttler.window + 1) % WordSize

\* time_stamp - _window_duration wraps around in unsigned arithmetic.
Cutoff(throttler, time) == (time - throttler.window) % WordSize

Truncate(throttler, time) ==
  [throttler EXCEPT
     !.log = SubSeq(@, LowerBound(@, Cutoff(throttler, time)), Len(@))]

ReEvaluate(throttler, time) ==
  IF Len(throttler.log) >= throttler.allowed THEN Truncate(throttler, time)
                                             ELSE throttler

AddTimestamp(throttler, time) ==
  ReEvaluate([throttler EXCEPT !.log = Append(@, time)], time)

\* Mutant: one more request is let through.
IsAllowedLoose(throttler) == Len(throttler.log) <= throttler.allowed + 1

IsAllowed(throttler) == Len(throttler.log) <= throttler.allowed
=============================================================================
