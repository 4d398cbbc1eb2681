---------------------------- MODULE MCThrottling ----------------------------
EXTENDS Throttling

CONSTANTS app, user

\* Messages that carry one throttler's id, and messages that carry two.
BothKinds == {<<app>>, <<app, user>>}

OneThrottler == [id \in Ids |-> IF id = app THEN NewThrottler(2, 1) ELSE Absent]

Command(kind, id, type, allowed) ==
  [kind |-> kind, id |-> id, type |-> type, window |-> 2, allowed |-> allowed]

\* Commands that fail, that succeed, and two that only seem to succeed.
SomeCommands ==
  <<Command("other", user, "sliding_log", 1), Command("update", user, "sliding_log", 1),
    Command("add", app, "sliding_log", 3),    Command("add", user, "sliding_window", 1),
    Command("add", user, "sliding_log", 0),   Command("update", user, "fixed_window", 1),
    Command("update", app, "unknown", 1),     Command("update", user, "sliding_log", 1),
    Command("update", app, "sliding_log", 0)>>
=============================================================================
