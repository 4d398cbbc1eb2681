--------------------------- MODULE HttpDispatcher ---------------------------
(***************************************************************************)
(* HttpDispatcherStage.  Upstream stages call on_message from their own    *)
(* threads; it posts a handler to the io_context, whose single thread runs *)
(* that handler and every completion of the connections, one at a time.    *)
(* Each action below is one such handler run to its end.                   *)
(***************************************************************************)
EXTENDS HttpConnection, FiniteSets

CONSTANTS Endpoints,    \* the (host, port) keys of the connection pool
          EndpointOf,   \* the endpoint the load balancer chose for a request
          Window,       \* bound: requests upstream leaves unanswered at a time
          Faults,       \* the asynchronous operations that may fail
          None          \* no reply

ASSUME EndpointAssumption == EndpointOf \in [Requests -> Endpoints]
ASSUME FaultsAssumption   == Faults \subseteq {"resolve", "connect", "write", "read"}
ASSUME WindowAssumption   == Window \in Nat
ASSUME NoneAssumption     == None \notin Requests \cup {Garbled}

VARIABLES
  posted,   \* handlers posted to the io_context, in the order they will run
  pool,     \* the endpoints with an entry in _http_connection_pool
  conn,     \* the connection and state machine of each endpoint
  outcome,  \* what became of each request, as the sinks downstream see it
  reply,    \* the response that was emitted for a request
  aborted   \* an assertion of the I/O library stopped the process

vars == <<posted, pool, conn, outcome, reply, aborted>>

Outcomes == {"idle", "pending", "answered", "dropped"}

TypeOK ==
  /\ posted \in Seq(Requests)
  /\ pool \in SUBSET Endpoints
  /\ conn \in [Endpoints -> Connections]
  /\ outcome \in [Requests -> Outcomes]
  /\ reply \in [Requests -> Requests \cup {Garbled, None}]
  /\ aborted \in BOOLEAN

Init ==
  /\ posted = <<>>
  /\ pool = {}
  /\ conn = [e \in Endpoints |-> NewConnection]
  /\ outcome = [r \in Requests |-> "idle"]
  /\ reply = [r \in Requests |-> None]
  /\ aborted = FALSE

-----------------------------------------------------------------------------
(* Upstream calls on_message. *)

Pending == {r \in Requests : outcome[r] = "pending"}

OnMessage(r) ==
  /\ ~aborted
  /\ outcome[r] = "idle"
  /\ Cardinality(Pending) < Window
  /\ outcome' = [outcome EXCEPT ![r] = "pending"]
  /\ posted' = Append(posted, r)
  /\ UNCHANGED <<pool, conn, reply, aborted>>

-----------------------------------------------------------------------------
(* The posted handler, by what the pool holds for the request's endpoint. *)

TakeHandler(r, e) ==
  /\ ~aborted
  /\ posted # <<>>
  /\ r = Head(posted)
  /\ e = EndpointOf[r]
  /\ posted' = Tail(posted)
  /\ UNCHANGED <<outcome, reply>>

HandleNewEndpoint(r, e) ==
  /\ TakeHandler(r, e)
  /\ e \notin pool
  /\ pool' = pool \cup {e}
  /\ conn' = [conn EXCEPT ![e] = Resolve(NewConnection, r)]
  /\ UNCHANGED aborted

HandleUsable(r, e) ==
  /\ TakeHandler(r, e)
  /\ e \in pool
  /\ conn[e].state \in {"connected"} \cup Writing \cup Reading
  /\ conn' = [conn EXCEPT ![e] = Write(@, r)]
  /\ UNCHANGED <<pool, aborted>>

\* Beast asserts that no read or write is pending when async_connect is
\* called.  A build with NDEBUG goes on: the stream is closed and its pending
\* operations end before the connect does (see ConnectDone).
HandleReconnect(r, e) ==
  /\ TakeHandler(r, e)
  /\ e \in pool
  /\ conn[e].state = "resolved"
  /\ \/ /\ conn' = [conn EXCEPT ![e] = Connect(@, r)]
        /\ UNCHANGED aborted
     \/ /\ conn[e].writing \cup conn[e].reading # {}
        /\ aborted' = TRUE
        /\ UNCHANGED conn
  /\ UNCHANGED pool

\* Neither branch of the handler applies: nobody hears of the request again.
HandleUnusable(r, e) ==
  /\ TakeHandler(r, e)
  /\ e \in pool
  /\ conn[e].state \in {"not_connected", "resolving", "connecting", "error"}
  /\ UNCHANGED <<pool, conn, aborted>>

Handle(r, e) == \/ HandleNewEndpoint(r, e) \/ HandleUsable(r, e)
                \/ HandleReconnect(r, e)   \/ HandleUnusable(r, e)

-----------------------------------------------------------------------------
(* Completions of the connection's asynchronous operations, with the       *)
(* continuations that the posted handler attached to them.                 *)

Keep == UNCHANGED <<posted, pool, aborted>>
Relay(r, response) == /\ outcome' = [outcome EXCEPT ![r] = "answered"]
                      /\ reply' = [reply EXCEPT ![r] = response]
EmitDropped(r) == outcome' = [outcome EXCEPT ![r] = "dropped"] /\ UNCHANGED reply

ResolveDone(r, e) ==
  /\ ~aborted
  /\ r \in conn[e].resolveFor
  /\ conn' = [conn EXCEPT ![e] = Connect(OnResolve(@, r), r)]
  /\ UNCHANGED <<outcome, reply>>
  /\ Keep

ResolveFailed(r, e) ==
  /\ ~aborted
  /\ "resolve" \in Faults
  /\ r \in conn[e].resolveFor
  /\ conn' = [conn EXCEPT ![e] = OnResolveFailed(@, r)]
  /\ EmitDropped(r)
  /\ Keep

\* Operations of the previous connection were cancelled when async_connect
\* closed the socket, and their completions are queued ahead of this one.
DialEnds(r, e) == /\ r \in conn[e].connectFor
                  /\ conn[e].writing \cup conn[e].reading = {}

ConnectDone(r, e) ==
  /\ ~aborted
  /\ DialEnds(r, e)
  /\ conn' = [conn EXCEPT ![e] = Write(OnConnect(@, r), r)]
  /\ UNCHANGED <<outcome, reply>>
  /\ Keep

ConnectFailed(r, e) ==
  /\ ~aborted
  /\ "connect" \in Faults
  /\ DialEnds(r, e)
  /\ conn' = [conn EXCEPT ![e] = OnConnectFailed(@, r)]
  /\ EmitDropped(r)
  /\ Keep

WriteDone(r, e) ==
  /\ ~aborted
  /\ r \in conn[e].writing
  /\ \E bytes \in BytesOf(conn[e], r) :
       conn' = [conn EXCEPT ![e] = Read(OnWrite(WriteCompleted(@, r, bytes)), r)]
  /\ UNCHANGED <<outcome, reply>>
  /\ Keep

WriteFailed(r, e) ==
  /\ ~aborted
  /\ "write" \in Faults
  /\ r \in conn[e].writing
  /\ conn' = [conn EXCEPT ![e] = OnWriteError(WriteEnded(@, r))]
  /\ EmitDropped(r)
  /\ Keep

ReadDone(r, e) ==
  /\ ~aborted
  /\ r \in conn[e].reading
  /\ HasResponse(conn[e])
  /\ \E ahead \in ReadAhead(conn[e]) :
       conn' = [conn EXCEPT ![e] = OnRead(ReadCompleted(@, r, ahead))]
  /\ Relay(r, NextResponse(conn[e]))
  /\ Keep

\* A read fails with the connection, or after 30 seconds without a response.
ReadFailed(r, e) ==
  /\ ~aborted
  /\ "read" \in Faults \/ ~HasResponse(conn[e])
  /\ r \in conn[e].reading
  /\ conn' = [conn EXCEPT ![e] = OnReadError(ReadEnded(@, r))]
  /\ EmitDropped(r)
  /\ Keep

Complete(r, e) == \/ ResolveDone(r, e) \/ ResolveFailed(r, e)
                  \/ ConnectDone(r, e) \/ ConnectFailed(r, e)
                  \/ WriteDone(r, e)   \/ WriteFailed(r, e)
                  \/ ReadDone(r, e)    \/ ReadFailed(r, e)

Next == \E r \in Requests :
          \/ OnMessage(r)
          \/ \E e \in Endpoints : Handle(r, e) \/ Complete(r, e)

Spec == Init /\ [][Next]_vars

\* io_context::run takes every posted handler, and each asynchronous operation
\* completes: the stream's operations at the latest when their 30 s expire.
LoopFairness ==
  \A r \in Requests, e \in Endpoints :
    /\ WF_vars(Handle(r, e))
    /\ WF_vars(ResolveDone(r, e) \/ ResolveFailed(r, e))
    /\ WF_vars(ConnectDone(r, e) \/ ConnectFailed(r, e))
    /\ WF_vars(WriteDone(r, e) \/ WriteFailed(r, e))
    /\ WF_vars(ReadDone(r, e) \/ ReadFailed(r, e))

FairSpec == Spec /\ LoopFairness

-----------------------------------------------------------------------------
(* Safety. *)

\* Every place that holds a continuation of r which may still run, and the
\* final outcome, after which none may.  A queue entry whose operation was
\* already started is only a remnant: it is popped before anything follows it.
Owners(r) ==
  LET c == conn[EndpointOf[r]]
      At(place, queue) == {<<place, i>> : i \in {j \in DOMAIN queue : queue[j] = r}}
      In(place, set)   == {<<place, 0>> : x \in set \cap {r}}
  IN At("posted", posted)
     \cup In("resolve", c.resolveFor) \cup In("connect", c.connectFor)
     \cup In("write", c.writing) \cup In("read", c.reading)
     \cup (IF r \in c.sent THEN {} ELSE At("write_queue", c.write_queue))
     \cup (IF r \in c.fetched THEN {} ELSE At("read_queue", c.read_queue))
     \cup {<<o, 0>> : o \in {outcome[r]} \cap {"answered", "dropped"}}

\* A request has at most one owner: no handler, operation or queue entry runs
\* a continuation that another one already ran or is still to run, so that no
\* request is answered twice, or freed twice to _http_request_pool.
OneOwner == \A r \in Requests : \A o1, o2 \in Owners(r) : o1 = o2

\* The state a connection believes to be in agrees with the operations that
\* are under way: it never waits for a completion that cannot come, and never
\* starts a second operation of a kind (which Beast forbids).
StateMatchesOperations == \A e \in Endpoints : StateAgrees(conn[e])

\* No operation of the endpoint's connection has failed so far: the request of
\* one that does is dropped.
Flawless(e) == \A r \in Requests : EndpointOf[r] = e => outcome[r] # "dropped"

\* While nothing fails, a connection that returns to `connected' has emptied
\* its queues: the pop-first rule of on_write and on_read leaves nothing behind.
ConnectedMeansDrained ==
  \A e \in Endpoints : Flawless(e) /\ conn[e].state = "connected" =>
    conn[e].write_queue = <<>> /\ conn[e].read_queue = <<>>

\* While nothing fails, a write never overtakes a request that is waiting in
\* the write queue: the request whose write starts is the oldest unsent one.
NoOvertaking ==
  [][\A e \in Endpoints : Flawless(e)' =>
       \A r \in conn'[e].sent \ conn[e].sent :
         LET queue == conn'[e].write_queue
         IN \/ \A i \in DOMAIN queue : queue[i] \in conn'[e].sent
            \/ r = Head(queue)]_vars

\* What was emitted for a request is never followed by anything else.
OutcomeIsFinal ==
  [][\A r \in Requests : outcome[r] \in {"answered", "dropped"} =>
       outcome'[r] = outcome[r] /\ reply'[r] = reply[r]]_vars

\* Accepted, but no continuation is left that could answer or drop it.
Lost(r) == outcome[r] = "pending" /\ Owners(r) = {}

\* No accepted request vanishes.  This is what the class comment promises
\* ("relays the response received back") together with the comment on
\* _dropped_requests_out (whatever is dropped is forwarded there).
NoRequestLost == \A r \in Requests : ~Lost(r)

\* No request is answered with the response to another one ("relays the
\* response received back" of the class comment).
NoForeignReply == \A r \in Requests : reply[r] \in {r, Garbled, None}

-----------------------------------------------------------------------------
(* Liveness. *)

\* A connection that is busy comes to rest again.
ConnectionsComeToRest ==
  \A e \in Endpoints :
    (conn[e].state \in {"resolving", "connecting"} \cup Writing \cup Reading)
      ~> (conn[e].state \in {"not_connected", "resolved", "connected", "error"} \/ aborted)
=============================================================================
