------------------------------- MODULE HttpServer -------------------------------
(***************************************************************************)
(* HttpServerStage and its ConfiguratorSink.  All handlers run on the      *)
(* event loop of the stage, one at a time.  A request message keeps the    *)
(* uWS::HttpResponse of its connection as a bare pointer, and the response *)
(* to it is written through that pointer whenever it comes.  uWebSockets   *)
(* serves one request of a connection at a time, over the same object, and *)
(* the object of a closed connection is used again for a new one; so a     *)
(* pointer is named by its connection.  What follows the stage answers any *)
(* message it was given, at any time and at most once.                     *)
(***************************************************************************)
EXTENDS Naturals, FiniteSets

CONSTANTS
  Configs,      \* the AddRouteConfigMessages
  Gets,         \* those whose method is GET
  Unknown,      \* those whose method is none that HttpMethods names
  Responses,    \* the uWS::HttpResponse objects
  MaxChunks,    \* bound: pieces of a body
  MaxRequests,  \* bound: requests in all
  None

Requests == 1 .. MaxRequests

VARIABLES
  future,    \* what the future of each configuration message says
  kept,      \* configuration messages their sender has not freed
  routes,    \* configuration messages whose handler is installed
  counter,   \* _http_route_counter
  arrived,   \* number of requests so far
  on,        \* the uws_response of each request's message
  keys,      \* route_key_1 and route_key_2: those of a configuration, or None
  chunks,    \* pieces of the body still to come
  emitted,   \* times the message was sent to http_request_out
  answered,  \* times it was answered through http_response_in
  client,    \* what became of the client that sent the request
  by,        \* the request whose answer that client received
  status,    \* and its status line
  receiving, \* the request whose body each connection delivers
  pending,   \* the request each connection waits to be answered
  running    \* FALSE: an exception, or a write to an object not in use, ended the program

vars == <<future, kept, routes, counter, arrived, on, keys, chunks, emitted,
          answered, client, by, status, receiving, pending, running>>
configVars == <<future, kept, routes, counter>>

TypeOK ==
  /\ future \in [Configs -> {"none", "value", "exception"}]
  /\ kept \subseteq Configs /\ routes \subseteq Gets
  /\ counter \in 0 .. Cardinality(Configs)
  /\ arrived \in 0 .. MaxRequests
  /\ on \in [Requests -> Responses \cup {None}]
  /\ keys \in [Requests -> Configs \cup {None}]
  /\ chunks \in [Requests -> 0 .. MaxChunks]
  /\ emitted \in [Requests -> 0 .. 1]
  /\ answered \in [Requests -> 0 .. 1]
  /\ client \in [Requests -> {"none", "waiting", "gone", "served"}]
  /\ by \in [Requests -> Requests \cup {None}]
  /\ status \in [Requests -> {None, 200, 429}]
  /\ receiving \in [Responses -> Requests \cup {None}]
  /\ pending \in [Responses -> Requests \cup {None}]
  /\ running \in BOOLEAN

Init ==
  /\ future = [c \in Configs |-> "none"]
  /\ kept = Configs
  /\ routes = {}
  /\ counter = 0
  /\ arrived = 0
  /\ on = [r \in Requests |-> None]
  /\ keys = [r \in Requests |-> None]
  /\ chunks = [r \in Requests |-> 0]
  /\ emitted = [r \in Requests |-> 0]
  /\ answered = [r \in Requests |-> 0]
  /\ client = [r \in Requests |-> "none"]
  /\ by = [r \in Requests |-> None]
  /\ status = [r \in Requests |-> None]
  /\ receiving = [c \in Responses |-> None]
  /\ pending = [c \in Responses |-> None]
  /\ running = TRUE

-----------------------------------------------------------------------------
\* Only GET installs a handler; the functions for the other methods are empty.
Install(c)        == c \in Gets /\ routes' = routes \cup {c}
InstallNothing(c) == c \notin Gets \cup Unknown /\ UNCHANGED routes
InstallThrows(c)  == c \in Gets /\ UNCHANGED routes

Complete(c) == future' = [future EXCEPT ![c] = "value"]
Fail(c)     == future' = [future EXCEPT ![c] = "exception"]

\* Mutant: the counter moves before the method is looked at, and again after.
AddRouteCountedTwice(c) ==
  /\ running /\ future[c] = "none"
  /\ \/ (Install(c) \/ InstallNothing(c)) /\ Complete(c) /\ counter' = counter + 2 /\ UNCHANGED running
     \/ InstallThrows(c) /\ Fail(c) /\ counter' \in {counter + 1, counter + 2} /\ UNCHANGED running
     \/ c \in Unknown /\ Fail(c) /\ running' = FALSE /\ counter' = counter + 1 /\ UNCHANGED routes
  /\ UNCHANGED <<kept, arrived, on, keys, chunks, emitted, answered, client, by, status,
                 receiving, pending>>

\* Mutant: a route is completed after the handlers of exceptions, not before.
AddRouteCompletedLate(c) ==
  /\ running /\ future[c] = "none"
  /\ \/ (Install(c) \/ InstallNothing(c)) /\ Complete(c) /\ counter' = counter + 1 /\ UNCHANGED running
     \/ InstallThrows(c) /\ Fail(c) /\ counter' = counter /\ UNCHANGED running
     \/ c \in Gets \cup Unknown /\ Fail(c) /\ running' = FALSE /\ UNCHANGED <<routes, counter>>
  /\ UNCHANGED <<kept, arrived, on, keys, chunks, emitted, answered, client, by, status,
                 receiving, pending>>

\* ConfiguratorSink::on_message.  A std::exception returns before the counter;
\* anything else that is thrown is counted as a route.  An unknown method is
\* answered with an error and then completed all the same: the second result
\* of a promise throws, out of a noexcept function.
AddRoute(c) ==
  /\ running /\ future[c] = "none"
  /\ \/ (Install(c) \/ InstallNothing(c)) /\ Complete(c) /\ counter' = counter + 1 /\ UNCHANGED running
     \/ InstallThrows(c) /\ Fail(c) /\ counter' \in {counter, counter + 1} /\ UNCHANGED running
     \/ c \in Unknown /\ Fail(c) /\ running' = FALSE /\ UNCHANGED <<routes, counter>>
  /\ UNCHANGED <<kept, arrived, on, keys, chunks, emitted, answered, client, by, status,
                 receiving, pending>>

\* The sender has its result and frees the message, which matters where a
\* handler was installed: its views of the route keys dangle from then on.
Free(c) ==
  /\ running /\ c \in kept \cap routes
  /\ kept' = kept \ {c}
  /\ UNCHANGED <<future, routes, counter, arrived, on, keys, chunks, emitted, answered, client, by, status,
                 receiving, pending, running>>

-----------------------------------------------------------------------------
\* The handler of a route: the message is created and the fields are set; a
\* dangling view may yield anything (None).  The body follows in pieces, the
\* last of which may be empty.
Accept(conn, c, n) ==
  LET r == arrived + 1 IN
  /\ running /\ arrived < MaxRequests
  /\ c \in routes
  /\ arrived' = r
  /\ on' = [on EXCEPT ![r] = conn]
  /\ keys' = [keys EXCEPT ![r] = IF c \in kept THEN c ELSE None]
  /\ chunks' = [chunks EXCEPT ![r] = n]
  /\ client' = [client EXCEPT ![r] = "waiting"]
  /\ receiving' = [receiving EXCEPT ![conn] = r]
  /\ pending' = [pending EXCEPT ![conn] = r]
  /\ UNCHANGED <<configVars, emitted, answered, by, status, running>>

Request(conn, c, n) == receiving[conn] = None /\ pending[conn] = None /\ Accept(conn, c, n)

\* One piece of the body, and the message if it is sent on.
Deliver(conn, sends) ==
  LET r == receiving[conn] IN
  /\ running /\ r # None
  /\ chunks' = [chunks EXCEPT ![r] = @ - 1]
  /\ receiving' = IF chunks[r] = 1 THEN [receiving EXCEPT ![conn] = None] ELSE receiving
  /\ emitted' = IF sends THEN [emitted EXCEPT ![r] = @ + 1] ELSE emitted
  /\ UNCHANGED <<configVars, arrived, on, keys, answered, client, by, status, pending, running>>

IsLast(conn) == receiving[conn] # None /\ chunks[receiving[conn]] = 1

\* onData: the message goes on with the last piece; the pieces are dropped.
OnData(conn) == Deliver(conn, IsLast(conn))

\* onAborted: the client closes, or sends a second request too early and is
\* closed.  Nothing tells the message.
OnAborted(conn) ==
  LET r == pending[conn] IN
  /\ running /\ (r # None \/ receiving[conn] # None)
  /\ client' = IF r = None THEN client ELSE [client EXCEPT ![r] = "gone"]
  /\ receiving' = [receiving EXCEPT ![conn] = None]
  /\ pending' = [pending EXCEPT ![conn] = None]
  /\ UNCHANGED <<configVars, arrived, on, keys, chunks, emitted, answered, by, status, running>>

\* Mutant: the status line of a refusal is written, and its end is not.
OnMessageUnended(r, code) ==
  LET s == pending[on[r]] IN
  /\ running /\ answered[r] < emitted[r]
  /\ answered' = [answered EXCEPT ![r] = @ + 1]
  /\ IF s # None /\ code = 500
     THEN status' = [status EXCEPT ![s] = 429] /\ UNCHANGED <<client, by, pending>>
     ELSE IF s # None
     THEN /\ client' = [client EXCEPT ![s] = "served"]
          /\ by' = [by EXCEPT ![s] = r]
          /\ status' = [status EXCEPT ![s] = 200]
          /\ pending' = [pending EXCEPT ![on[r]] = None]
     ELSE UNCHANGED <<client, by, status, pending>>
  /\ UNCHANGED <<configVars, arrived, on, keys, chunks, emitted, receiving, running>>

\* Mutant: the stage keeps the pointer to the response of the newest request,
\* and not the message that to its own.
OnMessageToNewest(r, code) ==
  LET s == pending[on[arrived]] IN
  /\ running /\ answered[r] < emitted[r]
  /\ answered' = [answered EXCEPT ![r] = @ + 1]
  /\ IF s # None
     THEN /\ client' = [client EXCEPT ![s] = "served"]
          /\ by' = [by EXCEPT ![s] = r]
          /\ status' = [status EXCEPT ![s] = IF code = 500 THEN 429 ELSE 200]
          /\ pending' = [pending EXCEPT ![on[arrived]] = None]
     ELSE UNCHANGED <<client, by, status, pending>>
  /\ UNCHANGED <<configVars, arrived, on, keys, chunks, emitted, receiving, running>>

\* on_message: the answer is written to whatever the pointer now stands for.
\* On an object that is not in use, the write may or may not be survived.
OnMessage(r, code) ==
  LET s == pending[on[r]] IN
  /\ running /\ answered[r] < emitted[r]
  /\ answered' = [answered EXCEPT ![r] = @ + 1]
  /\ IF s # None
     THEN /\ client' = [client EXCEPT ![s] = "served"]
          /\ by' = [by EXCEPT ![s] = r]
          /\ status' = [status EXCEPT ![s] = IF code = 500 THEN 429 ELSE 200]
          /\ pending' = [pending EXCEPT ![on[r]] = None]
          /\ UNCHANGED running
     ELSE /\ running' \in BOOLEAN
          /\ UNCHANGED <<client, by, status, pending>>
  /\ UNCHANGED <<configVars, arrived, on, keys, chunks, emitted, receiving>>

Codes == {200, 500}

Next ==
  \/ \E c \in Configs : AddRoute(c) \/ Free(c)
  \/ \E conn \in Responses :
       \/ \E c \in Configs, n \in 1 .. MaxChunks : Request(conn, c, n)
       \/ OnData(conn)
       \/ OnAborted(conn)
  \/ \E r \in Requests, code \in Codes : OnMessage(r, code)

Spec == Init /\ [][Next]_vars

-----------------------------------------------------------------------------
\* The client went away after the message had been sent on.
Left(r) == client[r] = "gone" /\ emitted[r] = 1

\* A client is given the answer to another request only over a connection
\* object from which an earlier client went away while its own request was
\* being answered; from there on answers may be displaced from one request to
\* the next.
ForeignAnswerNeedsAbort ==
  \A s \in Requests : by[s] \notin {s, None} =>
    /\ by[s] < s /\ on[by[s]] = on[s]
    /\ \E q \in Requests : q <= by[s] /\ on[q] = on[s] /\ Left(q)

\* However far answers are displaced, each client that went away accounts for
\* at most one answer that is still to come and that no client of its own
\* waits for.
ExcessAnswersAreOfLeavers ==
  \A conn \in Responses :
    LET mine == {r \in Requests : on[r] = conn}
    IN Cardinality({r \in mine : emitted[r] > answered[r] /\ pending[conn] # r})
         <= Cardinality({r \in mine : Left(r)})
=============================================================================
