--------------------------- MODULE HttpConnection ---------------------------
(***************************************************************************)
(* HTTPConnectionStateMachine together with the Connection it drives: one *)
(* keep-alive TCP stream to one HTTP server, its write queue and its read *)
(* queue.  A connection is a record; every operation of the state machine *)
(* is an operator from the record before to the record after, so that the *)
(* dispatcher can compose the operations one event-loop handler performs. *)
(*                                                                         *)
(* A request stands for the continuation (the std::function pair) that is  *)
(* passed along with it.  `sent' and `fetched' are history: the requests   *)
(* whose asynchronous write, respectively read, was ever started.          *)
(***************************************************************************)
EXTENDS Naturals, Sequences

CONSTANTS Requests,   \* the requests, each with the continuation it carries
          Garbled     \* bytes that are no request (see WriteCompleted)

ASSUME GarbledAssumption == Garbled \notin Requests

ConnStates == {"not_connected", "resolving", "resolved", "connecting",
               "connected", "writing", "reading", "writing_and_reading", "error"}

Writing == {"writing", "writing_and_reading"}   \* the stream has a writer
Reading == {"reading", "writing_and_reading"}   \* the stream has a reader

Connections ==
  [state       : ConnStates,
   resolveFor  : SUBSET Requests,  \* continuations of async_resolve
   connectFor  : SUBSET Requests,  \* continuations of async_connect
   writing     : SUBSET Requests,  \* continuations of async_write operations
   reading     : SUBSET Requests,  \* continuations of async_read operations
   write_queue : Seq(Requests),
   read_queue  : Seq(Requests),
   wire        : Seq(Requests \cup {Garbled}),  \* sent, response not yet received
   buffer      : Seq(Requests \cup {Garbled}),  \* received, not yet parsed
   sent        : SUBSET Requests,
   fetched     : SUBSET Requests]

NewConnection ==
  [state |-> "not_connected", resolveFor |-> {}, connectFor |-> {},
   writing |-> {}, reading |-> {}, write_queue |-> <<>>, read_queue |-> <<>>,
   wire |-> <<>>, buffer |-> <<>>, sent |-> {}, fetched |-> {}]

-----------------------------------------------------------------------------
(* Resolving the host and connecting the stream. *)

Resolve(c, r) ==
  IF c.state = "not_connected"
    THEN [c EXCEPT !.state = "resolving", !.resolveFor = @ \cup {r}]
    ELSE c

Connect(c, r) ==
  IF c.state = "resolved"
    THEN [c EXCEPT !.state = "connecting", !.connectFor = @ \cup {r}]
    ELSE c

OnResolve(c, r) ==
  [c EXCEPT !.resolveFor = @ \ {r},
            !.state = IF @ = "resolving" THEN "resolved" ELSE @]

OnResolveFailed(c, r) ==
  [c EXCEPT !.resolveFor = @ \ {r},
            !.state = IF @ = "resolving" THEN "error" ELSE @]

\* Mutant: the stream that failed is used again, with what is still on it.
OnConnectSameStream(c, r) ==
  [c EXCEPT !.connectFor = @ \ {r}, !.state = IF @ = "connecting" THEN "connected" ELSE @]

\* A new TCP connection carries nothing yet; the flat_buffer and the two
\* queues are members of Connection that nothing clears.
OnConnect(c, r) ==
  [c EXCEPT !.connectFor = @ \ {r},
            !.wire = <<>>,
            !.state = IF @ = "connecting" THEN "connected" ELSE @]

\* Mutant: a state that has no entry in _state_handlers.
OnConnectFailedUnhandled(c, r) == [c EXCEPT !.connectFor = @ \ {r}, !.state = "failed"]

OnConnectFailed(c, r) ==
  [c EXCEPT !.connectFor = @ \ {r},
            !.state = IF @ = "connecting" THEN "not_connected" ELSE @]

-----------------------------------------------------------------------------
(* Writing requests. *)

\* Mutant: the entry whose operation has ended stays at the front.
PopForgotten(queue) == queue

Pop(queue) == IF queue = <<>> THEN queue ELSE Tail(queue)

StartWrite(c, r) == [c EXCEPT !.writing = @ \cup {r}, !.sent = @ \cup {r}]

\* Mutant: a write that cannot start now is queued, and started all the same.
WriteTwice(c, r) ==
  [StartWrite(c, r) EXCEPT
     !.write_queue = IF c.state \in Writing THEN Append(@, r) ELSE @,
     !.state = CASE @ = "connected" -> "writing"
                 [] @ = "reading"   -> "writing_and_reading"
                 [] OTHER           -> @]

Write(c, r) ==
  CASE c.state = "connected" -> [StartWrite(c, r) EXCEPT !.state = "writing"]
    [] c.state = "reading"   -> [StartWrite(c, r) EXCEPT !.state = "writing_and_reading"]
    [] c.state \in Writing   -> [c EXCEPT !.write_queue = Append(@, r)]
    [] OTHER                 -> c

\* A write that was started from the queue refers to a request inside a copy
\* of the queue entry that dies when on_write returns: what it sends is then
\* either the request or whatever the memory holds.
BytesOf(c, r) ==
  IF c.write_queue # <<>> /\ r = Head(c.write_queue) THEN {r, Garbled} ELSE {r}

\* Asio hands the completion of r's write to the machine.
WriteCompleted(c, r, bytes) == [c EXCEPT !.writing = @ \ {r}, !.wire = Append(@, bytes)]

WriteEnded(c, r) == [c EXCEPT !.writing = @ \ {r}]

\* Mutant: a finished write does not start the next one.
OnWriteStartsNone(c) ==
  [c EXCEPT !.write_queue = Pop(@),
            !.state = CASE @ = "writing"             -> "connected"
                        [] @ = "writing_and_reading" -> "reading"
                        [] OTHER                     -> @]

\* Mutant: a finished write starts the entry that was queued last.
OnWriteStartsLast(c) ==
  LET queue == Pop(c.write_queue)
  IN IF c.state \in Writing /\ queue # <<>>
       THEN StartWrite([c EXCEPT !.write_queue = queue], queue[Len(queue)])
       ELSE OnWriteStartsNone(c)

\* The entry at the front is popped before the next write is started; the
\* entry a write is started from stays in the queue until that write ends.
OnWrite(c) ==
  LET queue  == Pop(c.write_queue)
      popped == [c EXCEPT !.write_queue = queue]
  IN CASE c.state \notin Writing       -> c
       [] c.state \in Writing /\ queue # <<>> -> StartWrite(popped, Head(queue))
       [] c.state = "writing" /\ queue = <<>> -> [popped EXCEPT !.state = "connected"]
       [] c.state = "writing_and_reading" /\ queue = <<>> ->
            [popped EXCEPT !.state = "reading"]

\* Mutant: a failed write makes the machine forget that the host is resolved.
OnWriteErrorForgets(c) ==
  IF c.state \in Writing
    THEN [c EXCEPT !.write_queue = Pop(@), !.state = "not_connected"] ELSE c

OnWriteError(c) ==
  IF c.state \in Writing
    THEN [c EXCEPT !.write_queue = Pop(@), !.state = "resolved"]
    ELSE c

-----------------------------------------------------------------------------
(* Reading responses. *)

StartRead(c, r) == [c EXCEPT !.reading = @ \cup {r}, !.fetched = @ \cup {r}]

Read(c, r) ==
  CASE c.state = "connected" -> [StartRead(c, r) EXCEPT !.state = "reading"]
    [] c.state = "writing"   -> [StartRead(c, r) EXCEPT !.state = "writing_and_reading"]
    [] c.state \in Reading   -> [c EXCEPT !.read_queue = Append(@, r)]
    [] OTHER                 -> c

\* The server answers in the order of the requests, so the response a read
\* returns is the first one buffered, else the first one on the wire.
HasResponse(c) == c.buffer \o c.wire # <<>>
NextResponse(c) == Head(c.buffer \o c.wire)

\* A read that has to go to the stream may receive the `ahead' responses that
\* follow its own, which then wait in the buffer.
ReadAhead(c) == IF c.buffer = <<>> THEN 0 .. (Len(c.wire) - 1) ELSE {0}

ReadCompleted(c, r, ahead) ==
  IF c.buffer # <<>>
    THEN [c EXCEPT !.reading = @ \ {r}, !.buffer = Tail(@)]
    ELSE [c EXCEPT !.reading = @ \ {r},
                   !.buffer = SubSeq(c.wire, 2, 1 + ahead),
                   !.wire = SubSeq(c.wire, 2 + ahead, Len(c.wire))]

ReadEnded(c, r) == [c EXCEPT !.reading = @ \ {r}]

\* Mutant: the machine believes in a reader after the last read has ended.
OnReadNeverRests(c) ==
  LET queue  == Pop(c.read_queue)
      popped == [c EXCEPT !.read_queue = queue]
  IN IF c.state \in Reading /\ queue # <<>> THEN StartRead(popped, Head(queue)) ELSE popped

OnRead(c) ==
  LET queue  == Pop(c.read_queue)
      popped == [c EXCEPT !.read_queue = queue]
  IN CASE c.state \notin Reading       -> c
       [] c.state \in Reading /\ queue # <<>> -> StartRead(popped, Head(queue))
       [] c.state = "reading" /\ queue = <<>> -> [popped EXCEPT !.state = "connected"]
       [] c.state = "writing_and_reading" /\ queue = <<>> ->
            [popped EXCEPT !.state = "writing"]

\* Mutant: a failed read leaves the stream in use.
OnReadErrorStaysUp(c) ==
  IF c.state \in Reading THEN [c EXCEPT !.read_queue = Pop(@), !.state = "connected"] ELSE c

OnReadError(c) ==
  IF c.state \in Reading
    THEN [c EXCEPT !.read_queue = Pop(@), !.state = "resolved"]
    ELSE c

-----------------------------------------------------------------------------
\* The state agrees with the operations under way: for every operation the
\* state waits for there is exactly one, and a state from which an operation
\* may be started has none of that kind.
StateAgrees(c) ==
  /\ c.state = "resolving"  <=> c.resolveFor # {}
  /\ c.state = "connecting" <=> c.connectFor # {}
  /\ c.state \in Writing => c.writing # {}
  /\ c.state \in Reading => c.reading # {}
  /\ c.state \in {"connected", "reading"} => c.writing = {}
  /\ c.state \in {"connected", "writing"} => c.reading = {}
  /\ c.state \in {"not_connected", "resolving", "error"} => c.writing \cup c.reading = {}
  /\ \A x, y \in c.resolveFor : x = y
  /\ \A x, y \in c.connectFor : x = y
  /\ \A x, y \in c.writing : x = y
  /\ \A x, y \in c.reading : x = y
=============================================================================
