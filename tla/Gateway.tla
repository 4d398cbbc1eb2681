-------------------------------- MODULE Gateway --------------------------------
(***************************************************************************)
(* HttpServerStage in front of HttpDispatcherStage.  http_request_out of   *)
(* the server is wired to http_request_in of the dispatcher, and           *)
(* http_response_out of the dispatcher to http_response_in of the server;  *)
(* each is a direct call, so that the caller's step and the callee's are   *)
(* one.  What comes out of dropped_requests_out is turned into a response  *)
(* with return code 500 by the application.  Clients come and go while     *)
(* their requests are queued, written, read and dropped behind their back. *)
(***************************************************************************)
EXTENDS Naturals, FiniteSets

CONSTANTS
  Configs, Gets, Unknown, Responses, MaxChunks, MaxRequests, None,  \* see HttpServer
  Endpoints, EndpointOf, Faults, Garbled                              \* see HttpDispatcher

ASSUME MethodsAssumption == Gets \subseteq Configs /\ Unknown \subseteq Configs \ Gets
ASSUME BoundAssumption == MaxChunks \in Nat \ {0} /\ MaxRequests \in Nat

Requests == 1 .. MaxRequests

ASSUME ServerAssumption == IsFiniteSet(Configs) /\ None \notin Responses

\* As HttpDispatcher assumes of its constants.
ASSUME DispatcherAssumption ==
  /\ EndpointOf \in [Requests -> Endpoints]
  /\ Faults \subseteq {"resolve", "connect", "write", "read"}
  /\ Garbled \notin Requests /\ None \notin Requests \cup {Garbled}

VARIABLES
  future, kept, routes, counter, arrived, on, keys, chunks, emitted,
  answered, client, by, status, receiving, pending, running,          \* see HttpServer
  posted, pool, conn, outcome, reply, aborted,                        \* see HttpDispatcher
  overlapped, \* history: endpoints that were sent a request while they had one
  unreachable, \* history: endpoints whose host did not resolve or connect once
  stranded    \* history: requests sent to an endpoint that was unreachable

serverVars == <<future, kept, routes, counter, arrived, on, keys, chunks, emitted,
                answered, client, by, status, receiving, pending, running>>
dispatcherVars == <<posted, pool, conn, outcome, reply, aborted>>
historyVars == <<overlapped, unreachable, stranded>>
vars == <<serverVars, dispatcherVars, historyVars>>

Server == INSTANCE HttpServer
Dispatcher == INSTANCE HttpDispatcher WITH Window <- MaxRequests

TypeOK == /\ Server!TypeOK /\ Dispatcher!TypeOK
          /\ overlapped \subseteq Endpoints /\ unreachable \subseteq Endpoints
          /\ stranded \subseteq Requests

Init == /\ Server!Init /\ Dispatcher!Init
        /\ overlapped = {} /\ unreachable = {} /\ stranded = {}

-----------------------------------------------------------------------------
(* Steps of the server's event loop. *)

ServerAlone == ~aborted /\ UNCHANGED <<dispatcherVars, historyVars>>

\* The application has the results of its routes before clients know of them.
Configure(c) == ServerAlone /\ arrived = 0 /\ (Server!AddRoute(c) \/ Server!Free(c))

Request(k, c, n) ==
  /\ ServerAlone
  /\ \A d \in Configs \ Unknown : future[d] # "none"
  /\ Server!Request(k, c, n)

Abort(k) == ServerAlone /\ Server!OnAborted(k)

\* A piece of a body that is not the last one.
Piece(k) == ServerAlone /\ Server!OnData(k) /\ UNCHANGED emitted

\* The last piece: the server calls on_message of the dispatcher.
Forward(k) ==
  LET r == receiving[k] IN
  /\ Server!OnData(k) /\ emitted' # emitted
  /\ Dispatcher!OnMessage(r)
  /\ overlapped' = overlapped \cup
       {e \in {EndpointOf[r]} : \E q \in Dispatcher!Pending : EndpointOf[q] = e}
  /\ stranded' = stranded \cup {q \in {r} : EndpointOf[q] \in unreachable}
  /\ UNCHANGED unreachable

-----------------------------------------------------------------------------
(* Steps of the dispatcher's io_context. *)

DispatcherAlone == running /\ UNCHANGED <<serverVars, historyVars>>

Handle(r)  == DispatcherAlone /\ Dispatcher!Handle(r, EndpointOf[r])
Resolve(r) == DispatcherAlone /\ Dispatcher!ResolveDone(r, EndpointOf[r])
Dial(r)    == DispatcherAlone /\ Dispatcher!ConnectDone(r, EndpointOf[r])
Write(r)   == DispatcherAlone /\ Dispatcher!WriteDone(r, EndpointOf[r])

\* The dispatcher calls on_message of the server, with return code 200.
Relay(r) ==
  /\ Dispatcher!ReadDone(r, EndpointOf[r])
  /\ Server!OnMessage(r, 200)
  /\ UNCHANGED historyVars

\* A request that is dropped is answered by the application with code 500.
Refuse(r) == Server!OnMessage(r, 500) /\ UNCHANGED <<overlapped, stranded>>
WriteFails(r) == Dispatcher!WriteFailed(r, EndpointOf[r]) /\ Refuse(r) /\ UNCHANGED unreachable
ReadFails(r)  == Dispatcher!ReadFailed(r, EndpointOf[r]) /\ Refuse(r) /\ UNCHANGED unreachable

\* The connection is left in `error' or `not_connected', for which the handler
\* of a later request has no branch.
GiveUp(r) == Refuse(r) /\ unreachable' = unreachable \cup {EndpointOf[r]}
ResolveFails(r) == Dispatcher!ResolveFailed(r, EndpointOf[r]) /\ GiveUp(r)
DialFails(r)    == Dispatcher!ConnectFailed(r, EndpointOf[r]) /\ GiveUp(r)

\* A request is in one place at a time, so at most one of these is next for it.
Serve(r) == \/ Handle(r) \/ Resolve(r) \/ ResolveFails(r) \/ Dial(r) \/ DialFails(r)
            \/ Write(r) \/ WriteFails(r) \/ Relay(r) \/ ReadFails(r)

Next ==
  \/ \E c \in Configs : Configure(c)
  \/ \E k \in Responses :
       \/ \E c \in Configs, n \in 1 .. MaxChunks : Request(k, c, n)
       \/ Piece(k) \/ Forward(k) \/ Abort(k)
  \/ \E r \in Requests : Serve(r)

Spec == Init /\ [][Next]_vars

\* A client that stays sends its whole body; the io_context takes what is
\* posted, and every operation of a connection ends, well or not.
FairSpec ==
  /\ Spec
  /\ \A k \in Responses : WF_vars(Piece(k) \/ Forward(k))
  /\ \A r \in Requests : WF_vars(Serve(r))

-----------------------------------------------------------------------------
\* See HttpServer: an answer reaches another client only where an earlier
\* client of the same connection object left during its answer, and every
\* answer that nobody waits for is one of a client that left.  Here the answers
\* are the dispatcher's.
ForeignAnswerNeedsAbort == Server!ForeignAnswerNeedsAbort
ExcessAnswersAreOfLeavers == Server!ExcessAnswersAreOfLeavers

\* The response emitted for a request is its own, unless its endpoint was ever
\* sent two requests at a time; failures and reconnects do not change that,
\* nor do clients that are gone.
AloneRepliesMatch ==
  \A r \in Requests : EndpointOf[r] \notin overlapped => reply[r] \in {r, None}

\* The program ends only over a client that left during its answer, a route of
\* an unknown method, or requests that overlapped on a connection.
EndsForCause ==
  ~running \/ aborted => \/ \E r \in Requests : Server!Left(r)
                         \/ \E c \in Unknown : future[c] # "none"
                         \/ overlapped # {}

\* Every request that is handed to the dispatcher is concluded, its client
\* gone or not and whatever writes and reads of its endpoint failed before,
\* unless requests of its endpoint overlap, the program ends, or an earlier
\* request could not resolve the endpoint or connect to it: the connection is
\* then stuck, and nobody hears of the requests it is sent again.  A request
\* is pending once, so in the end only those are.
RequestsConclude ==
  <>[](\A r \in Requests :
         outcome[r] = "pending" => \/ EndpointOf[r] \in overlapped \/ r \in stranded
                                   \/ ~running \/ aborted)

-----------------------------------------------------------------------------
(* The service the gateway implements.  A client is disturbed if its         *)
(* endpoint was sent two requests at a time, if an earlier client of the     *)
(* same connection object left during its answer, if its request was sent to *)
(* an endpoint that an earlier request could not reach, or if the program    *)
(* ends.  The one that could not reach it is refused.                        *)

Disturbed(s) ==
  \/ EndpointOf[s] \in overlapped
  \/ \E q \in Requests : q < s /\ on[q] = on[s] /\ Server!Left(q)
  \/ s \in stranded
  \/ ~running \/ aborted

\* The response that the client of s was given is that to its own request.
Own(s) == by[s] = s /\ (status[s] = 200 => reply[s] = s)

PhaseOf(s) ==
  CASE client[s] = "none"                -> "idle"
    [] client[s] = "gone"                -> "gone"
    [] client[s] = "served" /\ Own(s)    -> IF status[s] = 200 THEN "answered" ELSE "refused"
    [] client[s] = "waiting" /\ ~Disturbed(s) -> "waiting"
    [] client[s] = "waiting" /\ Disturbed(s) -> "disturbed"
    [] client[s] = "served" /\ ~Own(s) /\ Disturbed(s) -> "disturbed"
    [] OTHER                             -> "misled"

Service == INSTANCE RequestService WITH
             Clients <- Requests, phase <- [s \in Requests |-> PhaseOf(s)]

\* The gateway serves every client that is not disturbed as the service does:
\* with its own response or a refusal, once, and in the end.
ImplementsService == Service!Spec
=============================================================================
