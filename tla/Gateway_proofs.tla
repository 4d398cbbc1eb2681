----------------------------- MODULE Gateway_proofs -----------------------------
(***************************************************************************)
(* Theorems about the gateway, for any configurations, connection objects, *)
(* endpoints and number of requests.                                       *)
(***************************************************************************)
EXTENDS Gateway, FiniteSetTheorems, TLAPS

-----------------------------------------------------------------------------
(* What is proved of the dispatcher holds of it behind the server.         *)

DP == INSTANCE HttpDispatcher_proofs WITH Window <- MaxRequests

\* The operations of the connections are the same in both instances.
LEMMA SameOperations ==
  ASSUME NEW c, NEW r, NEW bytes, NEW ahead
  PROVE  /\ Dispatcher!NewConnection = DP!NewConnection
         /\ Dispatcher!Resolve(c, r) = DP!Resolve(c, r)
         /\ Dispatcher!Connect(c, r) = DP!Connect(c, r)
         /\ Dispatcher!OnResolve(c, r) = DP!OnResolve(c, r)
         /\ Dispatcher!OnConnect(c, r) = DP!OnConnect(c, r)
         /\ Dispatcher!OnResolveFailed(c, r) = DP!OnResolveFailed(c, r)
         /\ Dispatcher!OnConnectFailed(c, r) = DP!OnConnectFailed(c, r)
         /\ Dispatcher!Write(c, r) = DP!Write(c, r)
         /\ Dispatcher!WriteCompleted(c, r, bytes) = DP!WriteCompleted(c, r, bytes)
         /\ Dispatcher!WriteEnded(c, r) = DP!WriteEnded(c, r)
         /\ Dispatcher!OnWrite(c) = DP!OnWrite(c)
         /\ Dispatcher!OnWriteError(c) = DP!OnWriteError(c)
         /\ Dispatcher!Read(c, r) = DP!Read(c, r)
         /\ Dispatcher!BytesOf(c, r) = DP!BytesOf(c, r)
         /\ Dispatcher!ReadCompleted(c, r, ahead) = DP!ReadCompleted(c, r, ahead)
         /\ Dispatcher!ReadEnded(c, r) = DP!ReadEnded(c, r)
         /\ Dispatcher!OnRead(c) = DP!OnRead(c)
         /\ Dispatcher!OnReadError(c) = DP!OnReadError(c)
         /\ Dispatcher!HasResponse(c) = DP!HasResponse(c)
         /\ Dispatcher!NextResponse(c) = DP!NextResponse(c)
         /\ Dispatcher!ReadAhead(c) = DP!ReadAhead(c)
BY DEF Dispatcher!NewConnection, DP!NewConnection, Dispatcher!Resolve, DP!Resolve,
       Dispatcher!Connect, DP!Connect, Dispatcher!OnResolve, DP!OnResolve,
       Dispatcher!OnConnect, DP!OnConnect, Dispatcher!OnResolveFailed, DP!OnResolveFailed,
       Dispatcher!OnConnectFailed, DP!OnConnectFailed, Dispatcher!Write, DP!Write,
       Dispatcher!WriteCompleted, DP!WriteCompleted, Dispatcher!WriteEnded, DP!WriteEnded,
       Dispatcher!OnWrite, DP!OnWrite, Dispatcher!OnWriteError, DP!OnWriteError,
       Dispatcher!Read, DP!Read, Dispatcher!BytesOf, DP!BytesOf,
       Dispatcher!ReadCompleted, DP!ReadCompleted, Dispatcher!ReadEnded, DP!ReadEnded,
       Dispatcher!OnRead, DP!OnRead, Dispatcher!OnReadError, DP!OnReadError,
       Dispatcher!HasResponse, DP!HasResponse, Dispatcher!NextResponse, DP!NextResponse,
       Dispatcher!ReadAhead, DP!ReadAhead, Dispatcher!StartWrite, DP!StartWrite,
       Dispatcher!StartRead, DP!StartRead, Dispatcher!Pop, DP!Pop,
       Dispatcher!Writing, DP!Writing, Dispatcher!Reading, DP!Reading

LEMMA SameInit == Dispatcher!Init => DP!Init
BY DEF Dispatcher!Init, DP!Init, Dispatcher!NewConnection, DP!NewConnection

LEMMA SameTypes == DP!TypeOK => Dispatcher!TypeOK
BY DEF Dispatcher!TypeOK, DP!TypeOK, Dispatcher!Connections, DP!Connections,
       Dispatcher!ConnStates, DP!ConnStates, Dispatcher!Outcomes, DP!Outcomes

\* So are the steps the gateway lets the dispatcher take.
LEMMA SameSteps ==
  ASSUME NEW r, NEW e
  PROVE  /\ Dispatcher!OnMessage(r) => DP!OnMessage(r)
         /\ Dispatcher!Handle(r, e) => DP!Handle(r, e)
         /\ Dispatcher!ResolveDone(r, e) => DP!ResolveDone(r, e)
         /\ Dispatcher!ConnectDone(r, e) => DP!ConnectDone(r, e)
         /\ Dispatcher!ResolveFailed(r, e) => DP!ResolveFailed(r, e)
         /\ Dispatcher!ConnectFailed(r, e) => DP!ConnectFailed(r, e)
         /\ Dispatcher!WriteDone(r, e) => DP!WriteDone(r, e)
         /\ Dispatcher!WriteFailed(r, e) => DP!WriteFailed(r, e)
         /\ Dispatcher!ReadDone(r, e) => DP!ReadDone(r, e)
         /\ Dispatcher!ReadFailed(r, e) => DP!ReadFailed(r, e)
<1> USE SameOperations
<1>1. Dispatcher!OnMessage(r) => DP!OnMessage(r)
  <2>1. \A S : Dispatcher!Cardinality(S) = DP!Cardinality(S)
    BY DEF Dispatcher!Cardinality, DP!Cardinality, Dispatcher!IsFiniteSet, DP!IsFiniteSet
  <2> QED BY <2>1 DEF Dispatcher!OnMessage, DP!OnMessage, Dispatcher!Pending, DP!Pending
<1>2. Dispatcher!Handle(r, e) => DP!Handle(r, e)
  <2> USE DEF Dispatcher!TakeHandler, DP!TakeHandler, Dispatcher!Writing, DP!Writing,
              Dispatcher!Reading, DP!Reading
  <2>1. Dispatcher!HandleNewEndpoint(r, e) => DP!HandleNewEndpoint(r, e)
    BY DEF Dispatcher!HandleNewEndpoint, DP!HandleNewEndpoint
  <2>2. Dispatcher!HandleUsable(r, e) => DP!HandleUsable(r, e)
    BY DEF Dispatcher!HandleUsable, DP!HandleUsable
  <2>3. Dispatcher!HandleReconnect(r, e) => DP!HandleReconnect(r, e)
    BY DEF Dispatcher!HandleReconnect, DP!HandleReconnect
  <2>4. Dispatcher!HandleUnusable(r, e) => DP!HandleUnusable(r, e)
    BY DEF Dispatcher!HandleUnusable, DP!HandleUnusable
  <2> QED BY <2>1, <2>2, <2>3, <2>4 DEF Dispatcher!Handle, DP!Handle
<1>3. Dispatcher!ResolveDone(r, e) => DP!ResolveDone(r, e)
  BY DEF Dispatcher!ResolveDone, DP!ResolveDone, Dispatcher!Keep, DP!Keep
<1>4. Dispatcher!ConnectDone(r, e) => DP!ConnectDone(r, e)
  BY DEF Dispatcher!ConnectDone, DP!ConnectDone, Dispatcher!DialEnds, DP!DialEnds,
         Dispatcher!Keep, DP!Keep
<1>5. Dispatcher!WriteDone(r, e) => DP!WriteDone(r, e)
  <2> SUFFICES ASSUME Dispatcher!WriteDone(r, e) PROVE DP!WriteDone(r, e)
    OBVIOUS
  <2> DEFINE d0(bytes) == Dispatcher!WriteCompleted(conn[e], r, bytes)
  <2>1. PICK bytes \in Dispatcher!BytesOf(conn[e], r) :
          conn' = [conn EXCEPT ![e] = Dispatcher!Read(Dispatcher!OnWrite(d0(bytes)), r)]
    BY DEF Dispatcher!WriteDone
  <2>2. bytes \in DP!BytesOf(conn[e], r) /\ d0(bytes) = DP!WriteCompleted(conn[e], r, bytes)
    BY <2>1
  <2>3. Dispatcher!OnWrite(d0(bytes)) = DP!OnWrite(d0(bytes))
    OBVIOUS
  <2>4. Dispatcher!Read(Dispatcher!OnWrite(d0(bytes)), r) = DP!Read(Dispatcher!OnWrite(d0(bytes)), r)
    OBVIOUS
  <2>5. conn' = [conn EXCEPT ![e] = DP!Read(DP!OnWrite(DP!WriteCompleted(conn[e], r, bytes)), r)]
    BY <2>1, <2>2, <2>3, <2>4
  <2> QED BY <2>2, <2>5 DEF Dispatcher!WriteDone, DP!WriteDone, Dispatcher!Keep, DP!Keep
<1>6. Dispatcher!WriteFailed(r, e) => DP!WriteFailed(r, e)
  BY DEF Dispatcher!WriteFailed, DP!WriteFailed, Dispatcher!Keep, DP!Keep,
         Dispatcher!EmitDropped, DP!EmitDropped
<1>7. Dispatcher!ReadDone(r, e) => DP!ReadDone(r, e)
  <2> SUFFICES ASSUME Dispatcher!ReadDone(r, e) PROVE DP!ReadDone(r, e)
    OBVIOUS
  <2> DEFINE d0(ahead) == Dispatcher!ReadCompleted(conn[e], r, ahead)
  <2>p. PICK ahead \in Dispatcher!ReadAhead(conn[e]) :
          conn' = [conn EXCEPT ![e] = Dispatcher!OnRead(d0(ahead))]
    BY DEF Dispatcher!ReadDone
  <2>a. ahead \in DP!ReadAhead(conn[e]) /\ d0(ahead) = DP!ReadCompleted(conn[e], r, ahead)
    BY <2>p
  <2>b. Dispatcher!OnRead(d0(ahead)) = DP!OnRead(d0(ahead))
    OBVIOUS
  <2>1. conn' = [conn EXCEPT ![e] = DP!OnRead(DP!ReadCompleted(conn[e], r, ahead))]
    BY <2>p, <2>a, <2>b
  <2>2. DP!HasResponse(conn[e]) /\ Dispatcher!Relay(r, DP!NextResponse(conn[e]))
    BY DEF Dispatcher!ReadDone
  <2>3. DP!Relay(r, DP!NextResponse(conn[e]))
    BY <2>2 DEF Dispatcher!Relay, DP!Relay
  <2> QED BY <2>a, <2>1, <2>2, <2>3 DEF Dispatcher!ReadDone, DP!ReadDone, Dispatcher!Keep, DP!Keep
<1>8. Dispatcher!ReadFailed(r, e) => DP!ReadFailed(r, e)
  BY DEF Dispatcher!ReadFailed, DP!ReadFailed, Dispatcher!Keep, DP!Keep,
         Dispatcher!EmitDropped, DP!EmitDropped
<1>9. Dispatcher!ResolveFailed(r, e) => DP!ResolveFailed(r, e)
  BY DEF Dispatcher!ResolveFailed, DP!ResolveFailed, Dispatcher!Keep, DP!Keep,
         Dispatcher!EmitDropped, DP!EmitDropped
<1>10. Dispatcher!ConnectFailed(r, e) => DP!ConnectFailed(r, e)
  BY DEF Dispatcher!ConnectFailed, DP!ConnectFailed, Dispatcher!DialEnds, DP!DialEnds,
         Dispatcher!Keep, DP!Keep, Dispatcher!EmitDropped, DP!EmitDropped
<1> QED BY <1>1, <1>2, <1>3, <1>4, <1>5, <1>6, <1>7, <1>8, <1>9, <1>10

-----------------------------------------------------------------------------
(* What the io_context does for a request: it answers or drops it, or lets  *)
(* the server alone.                                                       *)

Drops(r)   == WriteFails(r) \/ ReadFails(r) \/ ResolveFails(r) \/ DialFails(r)
Answers(r) == Relay(r) \/ Drops(r)

LEMMA ServeSteps ==
  ASSUME NEW r, Serve(r)
  PROVE  Handle(r) \/ Resolve(r) \/ Dial(r) \/ Write(r) \/ Answers(r)
BY DEF Serve, Answers, Drops

LEMMA AnswersAreMessages ==
  ASSUME NEW r, Answers(r)
  PROVE  /\ Relay(r) => Server!OnMessage(r, 200)
         /\ ~Relay(r) => Server!OnMessage(r, 500)
         /\ UNCHANGED <<overlapped, stranded, aborted>> /\ ~aborted
         /\ unreachable' \subseteq unreachable \cup {EndpointOf[r]}
         /\ \E o \in {"answered", "dropped"} : outcome' = [outcome EXCEPT ![r] = o]
<1>1. CASE Relay(r)
  BY <1>1 DEF Relay, historyVars, Dispatcher!ReadDone, Dispatcher!Relay, Dispatcher!Keep
<1>2. ASSUME Drops(r)
      PROVE  /\ Server!OnMessage(r, 500) /\ UNCHANGED <<overlapped, stranded, aborted>> /\ ~aborted
             /\ unreachable' \subseteq unreachable \cup {EndpointOf[r]}
             /\ outcome' = [outcome EXCEPT ![r] = "dropped"]
  BY <1>2 DEF Drops, WriteFails, ReadFails, ResolveFails, DialFails, GiveUp, Refuse,
              Dispatcher!WriteFailed, Dispatcher!ReadFailed, Dispatcher!ResolveFailed,
              Dispatcher!ConnectFailed, Dispatcher!EmitDropped, Dispatcher!Keep
<1> QED BY <1>1, <1>2 DEF Answers

-----------------------------------------------------------------------------
(* The server: who is waited for, and whose answers are still to come.     *)

\* A request whose answer is still to come, or that is still being received.
Owed(r) == emitted[r] > answered[r] \/ \E k \in Responses : receiving[k] = r

\* Of a connection object: the requests that are owed an answer though no
\* client waits for it, and those whose client left.
Adrift(k)  == {r \in Requests : on[r] = k /\ Owed(r) /\ pending[k] # r}
Leavers(k) == {r \in Requests : on[r] = k /\ Server!Left(r)}

Counted == counter <= Cardinality({c \in Configs : future[c] # "none"})
Untouched == \A r \in Requests : r > arrived =>
  /\ on[r] = None /\ client[r] = "none" /\ by[r] = None
  /\ emitted[r] = 0 /\ answered[r] = 0
Placed == \A r \in Requests : r <= arrived => on[r] \in Responses
AnswersFollow == \A r \in Requests : answered[r] <= emitted[r]
Receives == \A k \in Responses : receiving[k] # None =>
  /\ receiving[k] <= arrived /\ on[receiving[k]] = k
  /\ emitted[receiving[k]] = 0 /\ chunks[receiving[k]] > 0
\* A connection waits for the last request that came over it.
Waits == \A k \in Responses : pending[k] # None =>
  /\ pending[k] <= arrived /\ on[pending[k]] = k
  /\ client[pending[k]] = "waiting" /\ by[pending[k]] = None
  /\ \A r \in Requests : on[r] = k => r <= pending[k]
AdriftHasLeaver == \A k \in Responses : \A r \in Adrift(k) : \E q \in Leavers(k) : q <= r
FewerThanLeavers == \A k \in Responses : Cardinality(Adrift(k)) <= Cardinality(Leavers(k))
StopsForCause == ~running => \/ \E r \in Requests : Server!Left(r)
                             \/ \E c \in Unknown : future[c] # "none"

ServerBase == /\ Server!TypeOK /\ Counted /\ Untouched /\ Placed /\ AnswersFollow
              /\ Receives /\ Waits

ServerInv == /\ ServerBase /\ AdriftHasLeaver /\ FewerThanLeavers /\ StopsForCause
             /\ Server!ForeignAnswerNeedsAbort

LEMMA SameServer == Server!Requests = Requests /\ \A S : Server!Cardinality(S) = Cardinality(S)
BY DEF Server!Requests, Requests, Server!Cardinality, Cardinality, Server!IsFiniteSet, IsFiniteSet

LEMMA SomeRequests ==
  /\ \A r \in Requests : r \in Nat /\ r # None
  /\ None \notin Responses
  /\ IsFiniteSet(Requests)
BY BoundAssumption, DispatcherAssumption, ServerAssumption, FS_Interval DEF Requests

\* The invariant holds at first: nothing has arrived.
LEMMA InitServer == Server!Init => ServerInv
<1> SUFFICES ASSUME Server!Init PROVE ServerInv
  OBVIOUS
<1> USE SameServer, SomeRequests DEF Server!Init
<1>1. Cardinality({c \in Configs : future[c] # "none"}) = 0
  <2>1. {c \in Configs : future[c] # "none"} = {}
    OBVIOUS
  <2> QED BY <2>1, FS_EmptySet
<1>2. Server!TypeOK
  <2>1. 0 \in 0 .. Cardinality(Configs) /\ 0 \in 0 .. MaxRequests /\ 0 \in 0 .. MaxChunks
    BY ServerAssumption, BoundAssumption, FS_CardinalityType
  <2> QED BY <2>1 DEF Server!TypeOK
<1>3. \A k \in Responses : Adrift(k) = {} /\ Leavers(k) = {}
  BY DEF Adrift, Leavers, Owed, Server!Left
<1>4. FewerThanLeavers
  BY <1>3, FS_EmptySet DEF FewerThanLeavers
<1>5. Counted
  BY <1>1 DEF Counted
<1>6. Untouched /\ Placed /\ AnswersFollow /\ Receives /\ Waits
  BY DEF Untouched, Placed, AnswersFollow, Receives, Waits, Requests
<1>7. AdriftHasLeaver /\ StopsForCause /\ Server!ForeignAnswerNeedsAbort
  BY <1>3 DEF AdriftHasLeaver, StopsForCause, Server!ForeignAnswerNeedsAbort
<1> QED BY <1>2, <1>4, <1>5, <1>6, <1>7 DEF ServerInv, ServerBase

\* A subset of the requests is no larger when a member is exchanged for another.
LEMMA Exchange ==
  ASSUME NEW S \in SUBSET Requests, NEW T, NEW r \in S, NEW s, T \subseteq (S \ {r}) \cup {s}
  PROVE  Cardinality(T) <= Cardinality(S)
<1>1. IsFiniteSet(S) /\ IsFiniteSet(S \ {r})
  BY SomeRequests, FS_Subset
<1>2. Cardinality(S \ {r}) = Cardinality(S) - 1
  BY <1>1, FS_RemoveElement
<1>3. /\ IsFiniteSet((S \ {r}) \cup {s})
      /\ Cardinality((S \ {r}) \cup {s}) \in {Cardinality(S \ {r}), Cardinality(S \ {r}) + 1}
  BY <1>1, FS_AddElement, FS_CardinalityType
<1>4. Cardinality(T) <= Cardinality((S \ {r}) \cup {s}) /\ IsFiniteSet(T)
  BY <1>3, FS_Subset
<1> QED BY <1>1, <1>2, <1>3, <1>4, FS_CardinalityType

\* A step by which no client is given the answer to another request, no request
\* becomes adrift, and no client that left comes back.
LEMMA Steady ==
  ASSUME ServerInv,
         \A r \in Requests : r <= arrived => on'[r] = on[r],
         \A r \in Requests : Server!Left(r) => Server!Left(r)',
         \A r \in Requests : by'[r] \in {by[r], r},
         \A k \in Responses : Adrift(k)' \subseteq Adrift(k)
  PROVE  AdriftHasLeaver' /\ FewerThanLeavers' /\ Server!ForeignAnswerNeedsAbort'
<1>1. \A r \in Requests : Server!Left(r) => r <= arrived
  <2>1. arrived \in Nat
    BY DEF ServerInv, ServerBase, Server!TypeOK
  <2> QED BY <2>1, SomeRequests DEF ServerInv, ServerBase, Untouched, Server!Left
<1>2. \A k \in Responses : Leavers(k) \subseteq Leavers(k)'
  BY <1>1 DEF Leavers
<1>3. AdriftHasLeaver'
  BY <1>2 DEF ServerInv, AdriftHasLeaver
<1>4. FewerThanLeavers'
  <2> SUFFICES ASSUME NEW k \in Responses PROVE Cardinality(Adrift(k)') <= Cardinality(Leavers(k)')
    BY DEF FewerThanLeavers
  <2>1. /\ Adrift(k) \subseteq Requests /\ Adrift(k)' \subseteq Requests
        /\ Leavers(k) \subseteq Requests /\ Leavers(k)' \subseteq Requests
    BY DEF Adrift, Leavers
  <2>2. /\ IsFiniteSet(Adrift(k)) /\ IsFiniteSet(Adrift(k)')
        /\ IsFiniteSet(Leavers(k)) /\ IsFiniteSet(Leavers(k)')
    BY <2>1, SomeRequests, FS_Subset
  <2>3. /\ Cardinality(Adrift(k)') <= Cardinality(Adrift(k))
        /\ Cardinality(Leavers(k)) <= Cardinality(Leavers(k)')
    BY <1>2, <2>2, FS_Subset
  <2>4. Cardinality(Adrift(k)) <= Cardinality(Leavers(k))
    BY DEF ServerInv, FewerThanLeavers
  <2> QED BY <2>2, <2>3, <2>4, FS_CardinalityType
<1>5. Server!ForeignAnswerNeedsAbort'
  <2> SUFFICES ASSUME NEW s \in Requests, by'[s] = by[s], by[s] \notin {s, None}
               PROVE  /\ by[s] < s /\ on'[by[s]] = on'[s]
                      /\ \E q \in Requests : q <= by[s] /\ on'[q] = on'[s] /\ Server!Left(q)'
    BY SameServer DEF Server!ForeignAnswerNeedsAbort
  <2>1. /\ by[s] < s /\ on[by[s]] = on[s]
        /\ \E q \in Requests : q <= by[s] /\ on[q] = on[s] /\ Server!Left(q)
    BY SameServer DEF ServerInv, Server!ForeignAnswerNeedsAbort
  <2>2. by[s] \in Requests /\ arrived \in Nat
    BY SameServer DEF ServerInv, ServerBase, Server!TypeOK
  <2>3. s <= arrived
    BY <2>2, SomeRequests DEF ServerInv, ServerBase, Untouched
  <2>4. on'[s] = on[s] /\ on'[by[s]] = on[by[s]]
    BY <2>1, <2>2, <2>3, SomeRequests
  <2> QED BY <1>1, <2>1, <2>4
<1> QED BY <1>3, <1>4, <1>5

\* Configuring the routes moves the counter with the futures; nothing else.
LEMMA ConfigureKeeps ==
  ASSUME ServerInv, NEW c \in Configs, Server!AddRoute(c) \/ Server!Free(c)
  PROVE  ServerInv'
<1>t. Server!TypeOK
  BY DEF ServerInv, ServerBase
<1>1. UNCHANGED <<arrived, on, keys, chunks, emitted, answered, client, by, status, receiving, pending>>
  BY DEF Server!AddRoute, Server!Free
<1>2. /\ \A r \in Requests : Server!Left(r) => Server!Left(r)'
      /\ \A k \in Responses : Adrift(k)' = Adrift(k)
  BY <1>1 DEF Server!Left, Adrift, Owed
<1>3. AdriftHasLeaver' /\ FewerThanLeavers' /\ Server!ForeignAnswerNeedsAbort'
  BY <1>1, <1>2, Steady
<1>4. Untouched' /\ Placed' /\ AnswersFollow' /\ Receives' /\ Waits'
  BY <1>1 DEF ServerInv, ServerBase, Untouched, Placed, AnswersFollow, Receives, Waits
<1> DEFINE Told == {d \in Configs : future[d] # "none"}
<1>5. IsFiniteSet(Told) /\ IsFiniteSet(Told')
  BY ServerAssumption, FS_Subset
<1>6. Counted' /\ StopsForCause' /\ future' \in [Configs -> {"none", "value", "exception"}]
  <2>1. CASE Server!AddRoute(c)
    <3>1. /\ future[c] = "none" /\ counter' \in {counter, counter + 1}
          /\ \E v \in {"value", "exception"} : future' = [future EXCEPT ![c] = v]
          /\ UNCHANGED running \/ c \in Unknown
      BY <2>1 DEF Server!AddRoute, Server!Complete, Server!Fail
    <3>2. /\ \A d \in Configs : future'[d] # "none" <=> d = c \/ future[d] # "none"
          /\ future' \in [Configs -> {"none", "value", "exception"}]
      BY <3>1, <1>t DEF Server!TypeOK
    <3>3. Told' = Told \cup {c} /\ c \notin Told
      BY <3>1, <3>2
    <3>4. Cardinality(Told') = Cardinality(Told) + 1
      BY <3>3, <1>5, FS_AddElement
    <3>5. counter \in Int /\ Cardinality(Told) \in Nat /\ counter <= Cardinality(Told)
      BY <1>t, <1>5, FS_CardinalityType DEF ServerInv, ServerBase, Counted, Server!TypeOK
    <3>6. Counted'
      BY <3>1, <3>4, <3>5 DEF Counted
    <3>7. StopsForCause'
      BY <3>1, <3>2, <1>2, MethodsAssumption DEF ServerInv, StopsForCause
    <3> QED BY <3>2, <3>6, <3>7
  <2>2. CASE Server!Free(c)
    <3>1. UNCHANGED <<future, counter, running>>
      BY <2>2 DEF Server!Free
    <3> QED BY <3>1, <1>t, <1>2 DEF ServerInv, ServerBase, Counted, StopsForCause, Server!TypeOK
  <2> QED BY <2>1, <2>2
<1>7. Server!TypeOK'
  <2>1. kept' \subseteq Configs /\ routes' \subseteq Gets /\ running' \in BOOLEAN
    <3>1. routes' \subseteq routes \cup {c} /\ (c \in Gets \/ UNCHANGED routes)
      BY DEF Server!AddRoute, Server!Free, Server!Install, Server!InstallNothing, Server!InstallThrows
    <3>2. kept' \subseteq kept
      BY DEF Server!AddRoute, Server!Free
    <3>3. UNCHANGED running \/ running' = FALSE
      BY DEF Server!AddRoute, Server!Free
    <3>4. running' \in BOOLEAN
      BY <1>t, <3>3 DEF Server!TypeOK
    <3> QED BY <1>t, <3>1, <3>2, <3>4 DEF Server!TypeOK
  <2>2. counter' \in 0 .. Cardinality(Configs)
    <3>1. Cardinality(Told') <= Cardinality(Configs)
      BY ServerAssumption, FS_Subset
    <3>2. counter' \in Nat
      BY <1>t DEF Server!TypeOK, Server!AddRoute, Server!Free
    <3> QED BY <1>5, <1>6, <3>1, <3>2, ServerAssumption, FS_CardinalityType DEF Counted
  <2> QED BY <1>t, <1>1, <1>6, <2>1, <2>2, SameServer DEF Server!TypeOK
<1> QED BY <1>3, <1>4, <1>6, <1>7 DEF ServerInv, ServerBase

\* A new request is the last of its connection, which waits for nobody else.
LEMMA RequestKeeps ==
  ASSUME ServerInv, NEW k \in Responses, NEW c \in Configs, NEW n \in 1 .. MaxChunks,
         Server!Request(k, c, n)
  PROVE  ServerInv'
<1> DEFINE r == arrived + 1
<1>t. Server!TypeOK
  BY DEF ServerInv, ServerBase
<1>1. /\ running /\ arrived < MaxRequests /\ receiving[k] = None /\ pending[k] = None
      /\ arrived' = r
      /\ UNCHANGED <<future, kept, routes, counter, emitted, answered, by, status, running>>
  BY DEF Server!Request, Server!Accept, Server!configVars
<1>2. r \in Requests /\ arrived \in 0 .. MaxRequests
  BY <1>t, <1>1, BoundAssumption DEF Server!TypeOK, Requests
<1>3. /\ \A q \in Requests : /\ on'[q] = IF q = r THEN k ELSE on[q]
                             /\ chunks'[q] = IF q = r THEN n ELSE chunks[q]
                             /\ client'[q] = IF q = r THEN "waiting" ELSE client[q]
      /\ \A j \in Responses : /\ receiving'[j] = IF j = k THEN r ELSE receiving[j]
                              /\ pending'[j] = IF j = k THEN r ELSE pending[j]
  BY <1>t, <1>2, SameServer DEF Server!Request, Server!Accept, Server!TypeOK
<1>4. on[r] = None /\ client[r] = "none" /\ by[r] = None /\ emitted[r] = 0 /\ answered[r] = 0
  BY <1>2 DEF ServerInv, ServerBase, Untouched
<1>5. \A j \in Responses : receiving[j] # r /\ pending[j] # r
  BY <1>2, <1>t, SomeRequests DEF ServerInv, ServerBase, Receives, Waits, Server!TypeOK
<1>6. Server!TypeOK'
  <2>1. /\ on' \in [Requests -> Responses \cup {None}]
        /\ chunks' \in [Requests -> 0 .. MaxChunks]
        /\ client' \in [Requests -> {"none", "waiting", "gone", "served"}]
        /\ receiving' \in [Responses -> Requests \cup {None}]
        /\ pending' \in [Responses -> Requests \cup {None}]
    BY <1>t, <1>2, SameServer, BoundAssumption DEF Server!Request, Server!Accept, Server!TypeOK
  <2>2. keys' \in [Requests -> Configs \cup {None}] /\ arrived' \in 0 .. MaxRequests
    BY <1>t, <1>1, <1>2, SameServer, BoundAssumption DEF Server!Request, Server!Accept, Server!TypeOK
  <2> QED BY <1>t, <1>1, <2>1, <2>2, SameServer DEF Server!TypeOK
<1>7. Counted' /\ Untouched' /\ Placed' /\ AnswersFollow'
  <2>3. Placed'
    BY <1>1, <1>2, <1>3, SomeRequests DEF ServerInv, ServerBase, Placed
  <2>1. \A q \in Requests : q > r => q > arrived
    BY <1>2, SomeRequests
  <2>2. Untouched'
    BY <1>1, <1>3, <2>1, SomeRequests, <1>2 DEF ServerInv, ServerBase, Untouched
  <2> QED BY <1>1, <2>2, <2>3 DEF ServerInv, ServerBase, Counted, AnswersFollow
<1>8. Receives'
  <2> SUFFICES ASSUME NEW j \in Responses, receiving'[j] # None
               PROVE  /\ receiving'[j] <= r /\ on'[receiving'[j]] = j
                      /\ emitted[receiving'[j]] = 0 /\ chunks'[receiving'[j]] > 0
    BY <1>1 DEF Receives
  <2>1. CASE j = k
    BY <2>1, <1>1, <1>2, <1>3, <1>4
  <2>2. CASE j # k
    <3>1. receiving'[j] = receiving[j] /\ receiving[j] \in Requests /\ receiving[j] # r
      BY <2>2, <1>t, <1>3, <1>5, SameServer DEF Server!TypeOK
    <3> QED BY <3>1, <1>2, <1>3, SomeRequests DEF ServerInv, ServerBase, Receives
  <2> QED BY <2>1, <2>2
<1>9. Waits'
  <2> SUFFICES ASSUME NEW j \in Responses, pending'[j] # None
               PROVE  /\ pending'[j] <= r /\ on'[pending'[j]] = j
                      /\ client'[pending'[j]] = "waiting" /\ by[pending'[j]] = None
                      /\ \A q \in Requests : on'[q] = j => q <= pending'[j]
    BY <1>1 DEF Waits
  <2>1. CASE j = k
    <3>1. \A q \in Requests : on'[q] = k => q <= r
      BY <1>2, <1>3, SomeRequests DEF ServerInv, ServerBase, Untouched
    <3> QED BY <2>1, <3>1, <1>1, <1>2, <1>3, <1>4
  <2>2. CASE j # k
    <3>1. pending'[j] = pending[j] /\ pending[j] \in Requests /\ pending[j] # r
      BY <2>2, <1>t, <1>3, <1>5, SameServer DEF Server!TypeOK
    <3> QED BY <2>2, <3>1, <1>2, <1>3, SomeRequests DEF ServerInv, ServerBase, Waits
  <2> QED BY <2>1, <2>2
<1>10. /\ \A q \in Requests : Server!Left(q) => Server!Left(q)'
       /\ \A j \in Responses : Adrift(j)' \subseteq Adrift(j)
  <2>1. \A q \in Requests : Server!Left(q) => Server!Left(q)'
    BY <1>1, <1>3, <1>4 DEF Server!Left
  <2>2. ASSUME NEW j \in Responses, NEW q \in Adrift(j)' PROVE q \in Adrift(j)
    <3>1. q \in Requests /\ on'[q] = j /\ Owed(q)' /\ pending'[j] # q
      BY <2>2 DEF Adrift
    <3>2. q # r
      BY <3>1, <1>3, <1>2
    <3>3. on[q] = j /\ Owed(q)
      BY <3>1, <3>2, <1>1, <1>3 DEF Owed
    <3>4. pending[j] # q
      BY <3>1, <1>1, <1>3, SomeRequests
    <3> QED BY <3>1, <3>3, <3>4 DEF Adrift
  <2> QED BY <2>1, <2>2
<1>11. AdriftHasLeaver' /\ FewerThanLeavers' /\ Server!ForeignAnswerNeedsAbort'
  <2>1. \A q \in Requests : q <= arrived => on'[q] = on[q]
    BY <1>2, <1>3, SomeRequests
  <2> QED BY <2>1, <1>1, <1>10, Steady
<1>12. StopsForCause'
  BY <1>1 DEF StopsForCause
<1> QED BY <1>6, <1>7, <1>8, <1>9, <1>11, <1>12 DEF ServerInv, ServerBase

\* A piece of a body: the request is owed an answer before as after.
LEMMA DataKeeps ==
  ASSUME ServerInv, NEW k \in Responses, Server!OnData(k)
  PROVE  /\ ServerInv'
         /\ receiving[k] \in Requests
<1> DEFINE r == receiving[k]
<1>t. Server!TypeOK
  BY DEF ServerInv, ServerBase
<1>1. /\ running /\ r # None
      /\ UNCHANGED <<future, kept, routes, counter, arrived, on, keys, answered, client, by, status,
                     pending, running>>
  BY DEF Server!OnData, Server!Deliver, Server!configVars
<1>2. r \in Requests /\ on[r] = k /\ emitted[r] = 0 /\ chunks[r] \in 1 .. MaxChunks
  BY <1>t, <1>1, SameServer DEF ServerInv, ServerBase, Receives, Server!TypeOK
<1>3. /\ \A q \in Requests : chunks'[q] = IF q = r THEN chunks[r] - 1 ELSE chunks[q]
      /\ chunks[r] # 1 => UNCHANGED <<receiving, emitted>>
      /\ chunks[r] = 1 =>
           /\ \A q \in Requests : emitted'[q] = IF q = r THEN 1 ELSE emitted[q]
           /\ \A j \in Responses : receiving'[j] = IF j = k THEN None ELSE receiving[j]
  BY <1>t, <1>1, <1>2, SameServer DEF Server!OnData, Server!Deliver, Server!IsLast, Server!TypeOK
<1>4. answered[r] = 0
  BY <1>t, <1>2, SameServer DEF ServerInv, ServerBase, AnswersFollow, Server!TypeOK
<1>5. Server!TypeOK'
  <2>1. chunks' \in [Requests -> 0 .. MaxChunks]
    <3>1. chunks' = [chunks EXCEPT ![r] = chunks[r] - 1]
      BY DEF Server!OnData, Server!Deliver
    <3>2. chunks[r] - 1 \in 0 .. MaxChunks
      BY <1>2, BoundAssumption
    <3>3. chunks \in [Requests -> 0 .. MaxChunks]
      BY <1>t, SameServer DEF Server!TypeOK
    <3> HIDE DEF r
    <3> QED BY <3>1, <3>2, <3>3
  <2>2. emitted' \in [Requests -> 0 .. 1]
    <3>1. UNCHANGED emitted \/ emitted' = [emitted EXCEPT ![r] = emitted[r] + 1]
      BY DEF Server!OnData, Server!Deliver
    <3>2. emitted[r] + 1 \in 0 .. 1
      BY <1>2
    <3>3. emitted \in [Requests -> 0 .. 1]
      BY <1>t, SameServer DEF Server!TypeOK
    <3> HIDE DEF r
    <3> QED BY <3>1, <3>2, <3>3
  <2>3. receiving' \in [Responses -> Requests \cup {None}]
    BY <1>t, SameServer DEF Server!OnData, Server!Deliver, Server!TypeOK
  <2> QED BY <1>t, <1>1, <2>1, <2>2, <2>3, SameServer DEF Server!TypeOK
<1>6. Counted' /\ Untouched' /\ Placed' /\ AnswersFollow' /\ Waits'
  <2>1. r <= arrived
    BY <1>1 DEF ServerInv, ServerBase, Receives
  <2>2. Untouched'
    BY <1>1, <1>2, <1>3, <2>1, <1>t, SomeRequests DEF ServerInv, ServerBase, Untouched, Server!TypeOK
  <2>3. AnswersFollow'
    BY <1>1, <1>2, <1>3, <1>4 DEF ServerInv, ServerBase, AnswersFollow
  <2> QED BY <1>1, <2>2, <2>3 DEF ServerInv, ServerBase, Counted, Placed, Waits
<1>7. Receives'
  <2> SUFFICES ASSUME NEW j \in Responses, receiving'[j] # None
               PROVE  /\ receiving'[j] <= arrived /\ on[receiving'[j]] = j
                      /\ emitted'[receiving'[j]] = 0 /\ chunks'[receiving'[j]] > 0
    BY <1>1 DEF Receives
  <2>1. /\ receiving'[j] = receiving[j] /\ receiving[j] \in Requests
        /\ receiving[j] <= arrived /\ on[receiving[j]] = j
        /\ emitted[receiving[j]] = 0 /\ chunks[receiving[j]] > 0
    BY <1>t, <1>3, SameServer DEF ServerInv, ServerBase, Receives, Server!TypeOK
  <2>2. CASE chunks[r] # 1
    BY <2>1, <2>2, <1>2, <1>3
  <2>3. CASE chunks[r] = 1
    BY <2>1, <2>3, <1>2, <1>3
  <2> QED BY <2>2, <2>3
<1>8. /\ \A q \in Requests : Server!Left(q) => Server!Left(q)'
      /\ \A j \in Responses : Adrift(j)' \subseteq Adrift(j)
  <2>1. \A q \in Requests : Server!Left(q) => Server!Left(q)'
    BY <1>1, <1>2, <1>3 DEF Server!Left
  <2>2. ASSUME NEW q \in Requests, Owed(q)' PROVE Owed(q)
    <3>1. CASE q = r
      BY <3>1 DEF Owed
    <3>2. CASE q # r
      <4>1. emitted'[q] = emitted[q] /\ answered'[q] = answered[q]
        BY <3>2, <1>1, <1>3
      <4>2. \A j \in Responses : receiving'[j] = q => receiving[j] = q
        BY <1>3, SomeRequests
      <4> QED BY <2>2, <4>1, <4>2 DEF Owed
    <3> QED BY <3>1, <3>2
  <2> QED BY <2>1, <2>2, <1>1 DEF Adrift
<1>9. AdriftHasLeaver' /\ FewerThanLeavers' /\ Server!ForeignAnswerNeedsAbort'
  BY <1>1, <1>8, Steady
<1>10. StopsForCause'
  BY <1>1 DEF StopsForCause
<1> QED BY <1>2, <1>5, <1>6, <1>7, <1>9, <1>10 DEF ServerInv, ServerBase

\* A client that goes away during its answer sets one request adrift, and is
\* itself the leaver that accounts for it.
LEMMA AbortKeeps ==
  ASSUME ServerInv, NEW k \in Responses, Server!OnAborted(k)
  PROVE  ServerInv'
<1>s. PICK s : s = pending[k]
  OBVIOUS
<1>t. Server!TypeOK
  BY DEF ServerInv, ServerBase
<1>1. /\ running
      /\ UNCHANGED <<future, kept, routes, counter, arrived, on, keys, chunks, emitted, answered, by,
                     status, running>>
  BY DEF Server!OnAborted, Server!configVars
<1>2. /\ \A q \in Requests : client'[q] = IF q = s THEN "gone" ELSE client[q]
      /\ \A j \in Responses : /\ receiving'[j] = IF j = k THEN None ELSE receiving[j]
                              /\ pending'[j] = IF j = k THEN None ELSE pending[j]
      /\ s # None => s \in Requests /\ s <= arrived /\ on[s] = k /\ client[s] = "waiting"
  BY <1>s, <1>t, SameServer, SomeRequests
     DEF Server!OnAborted, Server!TypeOK, ServerInv, ServerBase, Waits
<1>3. Server!TypeOK'
  <2>1. client' \in [Requests -> {"none", "waiting", "gone", "served"}]
    BY <1>t, SameServer DEF Server!OnAborted, Server!TypeOK
  <2>2. /\ receiving' \in [Responses -> Requests \cup {None}]
        /\ pending' \in [Responses -> Requests \cup {None}]
    BY <1>t, SameServer DEF Server!OnAborted, Server!TypeOK
  <2> QED BY <1>t, <1>1, <2>1, <2>2, SameServer DEF Server!TypeOK
<1>4. Counted' /\ Untouched' /\ Placed' /\ AnswersFollow' /\ Receives'
  <2>1. Untouched'
    <3>1. s # None => ~(s > arrived)
      BY <1>2, <1>t, SomeRequests DEF Server!TypeOK
    <3> QED BY <1>1, <1>2, <3>1, SomeRequests DEF ServerInv, ServerBase, Untouched
  <2>2. Receives'
    BY <1>1, <1>2 DEF ServerInv, ServerBase, Receives
  <2> QED BY <1>1, <2>1, <2>2 DEF ServerInv, ServerBase, Counted, Placed, AnswersFollow
<1>5. Waits'
  <2> SUFFICES ASSUME NEW j \in Responses, pending'[j] # None
               PROVE  /\ pending[j] = pending'[j] /\ client'[pending[j]] = client[pending[j]]
    BY <1>1 DEF ServerInv, ServerBase, Waits
  <2>1. j # k /\ pending[j] = pending'[j] /\ pending[j] # None
    BY <1>2
  <2>2. on[pending[j]] = j /\ pending[j] \in Requests
    BY <1>t, <2>1, SameServer DEF ServerInv, ServerBase, Waits, Server!TypeOK
  <2>3. pending[j] # s
    BY <1>2, <2>1, <2>2
  <2> QED BY <1>2, <2>1, <2>2, <2>3
<1>6. \A q \in Requests : Owed(q)' => Owed(q)
  <2>1. \A q \in Requests, j \in Responses : receiving'[j] = q => receiving[j] = q
    BY <1>2, SomeRequests
  <2> QED BY <1>1, <2>1 DEF Owed
<1>7. \A q \in Requests : Server!Left(q) => Server!Left(q)'
  BY <1>1, <1>2 DEF Server!Left
<1>8. \A j \in Responses \ {k} : Adrift(j)' \subseteq Adrift(j)
  BY <1>1, <1>2, <1>6 DEF Adrift
<1>9. Adrift(k)' \subseteq Adrift(k) \cup (IF s = None THEN {} ELSE {s})
  BY <1>s, <1>1, <1>2, <1>6 DEF Adrift
<1>10. CASE Adrift(k)' \subseteq Adrift(k)
  <2>1. AdriftHasLeaver' /\ FewerThanLeavers' /\ Server!ForeignAnswerNeedsAbort'
    BY <1>1, <1>7, <1>8, <1>10, Steady
  <2>2. StopsForCause'
    BY <1>1 DEF StopsForCause
  <2> QED BY <1>3, <1>4, <1>5, <2>1, <2>2 DEF ServerInv, ServerBase
<1>11. CASE ~(Adrift(k)' \subseteq Adrift(k))
  <2>1. s # None /\ s \in Adrift(k)' /\ Adrift(k)' \subseteq Adrift(k) \cup {s}
    BY <1>9, <1>11
  <2>2. Server!Left(s)' /\ ~Server!Left(s)
    <3>1. Owed(s)' /\ s \in Requests
      BY <2>1 DEF Adrift
    <3>2. ~ \E j \in Responses : receiving'[j] = s
      <4> SUFFICES ASSUME NEW j \in Responses, receiving'[j] = s PROVE FALSE
        OBVIOUS
      <4>1. j # k /\ receiving[j] = s /\ on[s] = k
        BY <1>2, <2>1
      <4> QED BY <2>1, <4>1 DEF ServerInv, ServerBase, Receives
    <3>3. emitted[s] > answered[s]
      BY <1>1, <3>1, <3>2 DEF Owed
    <3>4. emitted[s] = 1
      BY <1>t, <3>1, <3>3, SameServer DEF Server!TypeOK
    <3> QED BY <1>1, <1>2, <2>1, <3>1, <3>4 DEF Server!Left
  <2>3. Leavers(k) \cup {s} \subseteq Leavers(k)' /\ s \notin Leavers(k)
    BY <1>1, <1>2, <1>7, <2>1, <2>2 DEF Leavers
  <2>4. \A j \in Responses : Leavers(j) \subseteq Leavers(j)'
    BY <1>1, <1>7 DEF Leavers
  <2>5. AdriftHasLeaver'
    <3> SUFFICES ASSUME NEW j \in Responses, NEW r \in Adrift(j)'
                 PROVE  \E q \in Leavers(j)' : q <= r
      BY DEF AdriftHasLeaver
    <3>1. CASE r \in Adrift(j)
      BY <2>4, <3>1 DEF ServerInv, AdriftHasLeaver
    <3>2. CASE r \notin Adrift(j)
      <4>1. j = k /\ r = s /\ s \in Nat
        BY <1>8, <2>1, <3>2, <1>2, SomeRequests
      <4> QED BY <2>3, <4>1
    <3> QED BY <3>1, <3>2
  <2>6. FewerThanLeavers'
    <3> SUFFICES ASSUME NEW j \in Responses PROVE Cardinality(Adrift(j)') <= Cardinality(Leavers(j)')
      BY DEF FewerThanLeavers
    <3>1. /\ Adrift(j) \subseteq Requests /\ Adrift(j)' \subseteq Requests
          /\ Leavers(j) \subseteq Requests /\ Leavers(j)' \subseteq Requests
      BY DEF Adrift, Leavers
    <3>2. /\ IsFiniteSet(Adrift(j)) /\ IsFiniteSet(Adrift(j)')
          /\ IsFiniteSet(Leavers(j)) /\ IsFiniteSet(Leavers(j)')
      BY <3>1, SomeRequests, FS_Subset
    <3>3. Cardinality(Adrift(j)) <= Cardinality(Leavers(j))
      BY DEF ServerInv, FewerThanLeavers
    <3>4. CASE j # k
      <4>1. /\ Cardinality(Adrift(j)') <= Cardinality(Adrift(j))
            /\ Cardinality(Leavers(j)) <= Cardinality(Leavers(j)')
        BY <1>8, <2>4, <3>2, <3>4, FS_Subset
      <4> QED BY <3>2, <3>3, <4>1, FS_CardinalityType
    <3>5. CASE j = k
      <4>1. IsFiniteSet(Leavers(j) \cup {s}) /\ IsFiniteSet(Adrift(j) \cup {s})
        BY <3>2, FS_AddElement
      <4>2. /\ Cardinality(Leavers(j) \cup {s}) = Cardinality(Leavers(j)) + 1
            /\ Cardinality(Adrift(j) \cup {s}) <= Cardinality(Adrift(j)) + 1
        <5>1. Cardinality(Leavers(j) \cup {s}) = Cardinality(Leavers(j)) + 1
          BY <2>3, <3>2, <3>5, FS_AddElement
        <5>2. /\ Cardinality(Adrift(j) \cup {s}) \in {Cardinality(Adrift(j)), Cardinality(Adrift(j)) + 1}
              /\ Cardinality(Adrift(j)) \in Nat
          BY <3>2, FS_AddElement, FS_CardinalityType
        <5> QED BY <5>1, <5>2
      <4>3. /\ Cardinality(Leavers(j) \cup {s}) <= Cardinality(Leavers(j)')
            /\ Cardinality(Adrift(j)') <= Cardinality(Adrift(j) \cup {s})
        BY <2>1, <2>3, <3>2, <3>5, <4>1, FS_Subset
      <4> QED BY <3>2, <3>3, <4>1, <4>2, <4>3, FS_CardinalityType
    <3> QED BY <3>4, <3>5
  <2>7. Server!ForeignAnswerNeedsAbort'
    BY <1>1, <1>7, SameServer DEF ServerInv, Server!ForeignAnswerNeedsAbort, Server!TypeOK
  <2>8. StopsForCause'
    BY <1>1 DEF StopsForCause
  <2> QED BY <1>3, <1>4, <1>5, <2>5, <2>6, <2>7, <2>8 DEF ServerInv, ServerBase
<1> QED BY <1>10, <1>11

\* An answer is written to the client that is waited for, if there is one; if
\* it is meant for another, that one is adrift and the client now takes its place.
LEMMA AnswerKeeps ==
  ASSUME ServerInv, NEW r \in Requests, NEW code, Server!OnMessage(r, code)
  PROVE  ServerInv'
<1>k. PICK k : k = on[r]
  OBVIOUS
<1>s. PICK s : s = pending[k]
  OBVIOUS
<1>t. Server!TypeOK
  BY DEF ServerInv, ServerBase
<1>1. /\ running /\ emitted[r] = 1 /\ answered[r] = 0
      /\ \A q \in Requests : answered'[q] = IF q = r THEN 1 ELSE answered[q]
      /\ UNCHANGED <<future, kept, routes, counter, arrived, on, keys, chunks, emitted, receiving>>
  BY <1>t, SameServer DEF Server!OnMessage, Server!configVars, Server!TypeOK
<1>2. k \in Responses /\ r <= arrived
  <2>1. r <= arrived
    BY <1>1, <1>t, SomeRequests DEF ServerInv, ServerBase, Untouched, Server!TypeOK
  <2> QED BY <2>1, <1>k DEF ServerInv, ServerBase, Placed
<1>3. s # None =>
        /\ s \in Requests /\ s <= arrived /\ on[s] = k /\ r <= s
        /\ client[s] = "waiting" /\ by[s] = None
        /\ \A q \in Requests : client'[q] = IF q = s THEN "served" ELSE client[q]
        /\ \A q \in Requests : by'[q] = IF q = s THEN r ELSE by[q]
        /\ \A j \in Responses : pending'[j] = IF j = k THEN None ELSE pending[j]
        /\ UNCHANGED running
  <2> SUFFICES ASSUME s # None
      PROVE /\ s \in Requests /\ s <= arrived /\ on[s] = k /\ r <= s
            /\ client[s] = "waiting" /\ by[s] = None
            /\ \A q \in Requests : client'[q] = IF q = s THEN "served" ELSE client[q]
            /\ \A q \in Requests : by'[q] = IF q = s THEN r ELSE by[q]
            /\ \A j \in Responses : pending'[j] = IF j = k THEN None ELSE pending[j]
            /\ UNCHANGED running
    OBVIOUS
  <2>1. s \in Requests
    BY <1>s, <1>t, <1>2, SameServer DEF Server!TypeOK
  <2>2. /\ s <= arrived /\ on[s] = k /\ r <= s /\ client[s] = "waiting" /\ by[s] = None
    BY <1>s, <1>k, <1>2 DEF ServerInv, ServerBase, Waits
  <2>3. /\ client' = [client EXCEPT ![s] = "served"] /\ by' = [by EXCEPT ![s] = r]
        /\ pending' = [pending EXCEPT ![k] = None] /\ UNCHANGED running
    BY <1>s, <1>k DEF Server!OnMessage
  <2>4. /\ \A q \in Requests : client'[q] = IF q = s THEN "served" ELSE client[q]
        /\ \A q \in Requests : by'[q] = IF q = s THEN r ELSE by[q]
        /\ \A j \in Responses : pending'[j] = IF j = k THEN None ELSE pending[j]
    BY <2>1, <2>3, <1>t, SameServer DEF Server!TypeOK
  <2> QED BY <2>1, <2>2, <2>3, <2>4
<1>4. s = None => UNCHANGED <<client, by, status, pending>> /\ running' \in BOOLEAN
  BY <1>s, <1>k DEF Server!OnMessage
<1>5. Server!TypeOK'
  <2>1. answered' \in [Requests -> 0 .. 1]
    <3>1. answered' = [answered EXCEPT ![r] = answered[r] + 1] /\ answered[r] + 1 \in 0 .. 1
      BY <1>1 DEF Server!OnMessage
    <3> QED BY <3>1, <1>t, SameServer DEF Server!TypeOK
  <2>2. CASE s = None
    BY <1>t, <1>1, <1>4, <2>1, <2>2, SameServer DEF Server!TypeOK
  <2>3. CASE s # None
    <3>1. /\ client' = [client EXCEPT ![s] = "served"] /\ by' = [by EXCEPT ![s] = r]
          /\ pending' = [pending EXCEPT ![k] = None]
          /\ status' = [status EXCEPT ![s] = IF code = 500 THEN 429 ELSE 200]
      BY <1>s, <1>k, <2>3 DEF Server!OnMessage
    <3>2. /\ client' \in [Requests -> {"none", "waiting", "gone", "served"}]
          /\ by' \in [Requests -> Requests \cup {None}]
          /\ pending' \in [Responses -> Requests \cup {None}]
          /\ status' \in [Requests -> {None, 200, 429}]
      <4>1. /\ client \in [Requests -> {"none", "waiting", "gone", "served"}]
            /\ by \in [Requests -> Requests \cup {None}]
            /\ pending \in [Responses -> Requests \cup {None}]
            /\ status \in [Requests -> {None, 200, 429}] /\ r \in Requests
        BY <1>t, SameServer DEF Server!TypeOK
      <4>2. client' \in [Requests -> {"none", "waiting", "gone", "served"}]
        BY <3>1, <4>1
      <4>3. by' \in [Requests -> Requests \cup {None}]
        BY <3>1, <4>1
      <4>4. pending' \in [Responses -> Requests \cup {None}]
        BY <3>1, <4>1
      <4>5. status' \in [Requests -> {None, 200, 429}]
        <5>1. PICK told : told = IF code = 500 THEN 429 ELSE 200
          OBVIOUS
        <5>2. status' = [status EXCEPT ![s] = told] /\ told \in {None, 200, 429}
          BY <3>1, <5>1
        <5> QED BY <4>1, <5>2
      <4> QED BY <4>2, <4>3, <4>4, <4>5
    <3> QED BY <1>t, <1>1, <1>3, <2>1, <2>3, <3>2, SameServer DEF Server!TypeOK
  <2> QED BY <2>2, <2>3
<1>6. Counted' /\ Untouched' /\ Placed' /\ AnswersFollow' /\ Receives'
  <2>1. Untouched'
    <3>1. ASSUME NEW q \in Requests, q > arrived PROVE q # r /\ q # s
      BY <3>1, <1>2, <1>3, <1>t, SomeRequests DEF Server!TypeOK
    <3>2. \A q \in Requests : q # s => client'[q] = client[q] /\ by'[q] = by[q]
      BY <1>3, <1>4
    <3> QED BY <1>1, <3>1, <3>2 DEF ServerInv, ServerBase, Untouched
  <2>2. AnswersFollow'
    BY <1>1 DEF ServerInv, ServerBase, AnswersFollow
  <2> QED BY <1>1, <2>1, <2>2 DEF ServerInv, ServerBase, Counted, Placed, Receives
<1>7. Waits'
  <2>1. CASE s = None
    BY <1>1, <1>4, <2>1 DEF ServerInv, ServerBase, Waits
  <2>2. CASE s # None
    <3> SUFFICES ASSUME NEW j \in Responses, pending'[j] # None
                 PROVE  /\ pending[j] = pending'[j] /\ client'[pending[j]] = client[pending[j]]
                        /\ by'[pending[j]] = by[pending[j]]
      BY <1>1 DEF ServerInv, ServerBase, Waits
    <3>1. j # k /\ pending[j] = pending'[j] /\ pending[j] # None
      BY <1>3, <2>2
    <3>2. on[pending[j]] = j /\ pending[j] \in Requests
      BY <1>t, <3>1, SameServer DEF ServerInv, ServerBase, Waits, Server!TypeOK
    <3>3. pending[j] # s
      BY <1>3, <2>2, <3>1, <3>2
    <3> QED BY <1>3, <2>2, <3>1, <3>2, <3>3
  <2> QED BY <2>1, <2>2
<1>8. /\ \A q \in Requests : Owed(q)' => Owed(q) /\ q # r
      /\ Owed(r)
  <2>1. Owed(r)
    BY <1>1 DEF Owed
  <2>2. \A j \in Responses : receiving[j] # r
    BY <1>1, <1>t, SomeRequests DEF ServerInv, ServerBase, Receives
  <2>3. ASSUME NEW q \in Requests, Owed(q)' PROVE Owed(q) /\ q # r
    <3>1. CASE q = r
      BY <2>2, <2>3, <3>1, <1>1 DEF Owed
    <3>2. CASE q # r
      BY <2>3, <3>2, <1>1 DEF Owed
    <3> QED BY <3>1, <3>2
  <2> QED BY <2>1, <2>3
<1>9. \A q \in Requests : Server!Left(q)' <=> Server!Left(q)
  BY <1>1, <1>3, <1>4 DEF Server!Left
<1>10. CASE s \in {None, r}
  <2>1. \A j \in Responses : Adrift(j)' \subseteq Adrift(j)
    <3> SUFFICES ASSUME NEW j \in Responses, NEW q \in Requests, on[q] = j, Owed(q)', pending'[j] # q
                 PROVE  Owed(q) /\ pending[j] # q
      BY <1>1 DEF Adrift
    <3>1. Owed(q) /\ q # r
      BY <1>8
    <3>2. \/ pending'[j] = pending[j]
          \/ s = r /\ pending[j] = s
      <4>1. CASE s = None
        BY <4>1, <1>4
      <4>2. CASE s # None
        BY <4>2, <1>10, <1>3, <1>s
      <4> QED BY <4>1, <4>2
    <3> QED BY <3>1, <3>2
  <2>2. \A q \in Requests : by'[q] \in {by[q], q}
    BY <1>10, <1>3, <1>4
  <2>3. AdriftHasLeaver' /\ FewerThanLeavers' /\ Server!ForeignAnswerNeedsAbort'
    BY <2>1, <2>2, <1>1, <1>9, Steady
  <2>4. StopsForCause'
    <3>1. CASE s = r
      BY <3>1, <1>1, <1>3, SomeRequests DEF StopsForCause
    <3>2. CASE s = None
      <4>1. r \in Adrift(k)
        BY <3>2, <1>k, <1>s, <1>8, SomeRequests DEF Adrift
      <4>2. \E q \in Requests : Server!Left(q)
        BY <4>1, <1>2 DEF ServerInv, AdriftHasLeaver, Leavers
      <4> QED BY <4>2, <1>9 DEF StopsForCause
    <3> QED BY <3>1, <3>2, <1>10
  <2> QED BY <1>5, <1>6, <1>7, <2>3, <2>4 DEF ServerInv, ServerBase
<1>11. CASE s \notin {None, r}
  <2>1. r \in Adrift(k)
    BY <1>11, <1>k, <1>s, <1>8 DEF Adrift
  <2>2. PICK l \in Leavers(k) : l <= r
    BY <2>1, <1>2 DEF ServerInv, AdriftHasLeaver
  <2>3. \A j \in Responses : Leavers(j)' = Leavers(j)
    BY <1>1, <1>9 DEF Leavers
  <2>4. /\ Adrift(k)' \subseteq (Adrift(k) \ {r}) \cup {s}
        /\ \A j \in Responses \ {k} : Adrift(j)' \subseteq Adrift(j)
    <3>1. ASSUME NEW j \in Responses, NEW q \in Adrift(j)'
          PROVE  q \in (Adrift(j) \ {r}) \cup {s} /\ (j # k => q # s)
      <4>1. q \in Requests /\ on[q] = j /\ Owed(q) /\ q # r
        BY <3>1, <1>1, <1>8 DEF Adrift
      <4>2. q # s => q \in Adrift(j)
        <5>1. CASE j = k
          BY <4>1, <5>1, <1>s DEF Adrift
        <5>2. CASE j # k
          BY <3>1, <4>1, <5>2, <1>3, <1>11 DEF Adrift
        <5> QED BY <5>1, <5>2
      <4>3. j # k => q # s
        BY <4>1, <1>3, <1>11
      <4> QED BY <4>1, <4>2, <4>3
    <3> QED BY <3>1, <1>2
  <2>5. AdriftHasLeaver'
    <3> SUFFICES ASSUME NEW j \in Responses, NEW q \in Adrift(j)'
                 PROVE  \E p \in Leavers(j) : p <= q
      BY <2>3 DEF AdriftHasLeaver
    <3>1. CASE q \in Adrift(j)
      BY <3>1 DEF ServerInv, AdriftHasLeaver
    <3>2. CASE q \notin Adrift(j)
      <4>1. j = k /\ q = s
        BY <2>4, <3>2
      <4>2. l \in Nat /\ l <= s
        BY <2>2, <1>3, <1>11, SomeRequests DEF Leavers
      <4> QED BY <2>2, <4>1, <4>2
    <3> QED BY <3>1, <3>2
  <2>6. FewerThanLeavers'
    <3> SUFFICES ASSUME NEW j \in Responses PROVE Cardinality(Adrift(j)') <= Cardinality(Leavers(j))
      BY <2>3 DEF FewerThanLeavers
    <3>1. Adrift(j) \subseteq Requests /\ Leavers(j) \subseteq Requests
      BY DEF Adrift, Leavers
    <3>2. IsFiniteSet(Adrift(j)) /\ IsFiniteSet(Leavers(j))
      BY <3>1, SomeRequests, FS_Subset
    <3>3. Cardinality(Adrift(j)') <= Cardinality(Adrift(j)) /\ IsFiniteSet(Adrift(j)')
      <4>1. CASE j = k
        <5>1. Cardinality(Adrift(k)') <= Cardinality(Adrift(k))
          BY <2>1, <2>4, <3>1, <4>1, Exchange
        <5>2. Adrift(k)' \subseteq Requests
          BY DEF Adrift
        <5> QED BY <4>1, <5>1, <5>2, SomeRequests, FS_Subset
      <4>2. CASE j # k
        BY <2>4, <3>2, <4>2, FS_Subset
      <4> QED BY <4>1, <4>2
    <3>4. Cardinality(Adrift(j)) <= Cardinality(Leavers(j))
      BY DEF ServerInv, FewerThanLeavers
    <3> QED BY <3>2, <3>3, <3>4, FS_CardinalityType
  <2>7. Server!ForeignAnswerNeedsAbort'
    <3> SUFFICES ASSUME NEW q \in Requests, by'[q] \notin {q, None}
                 PROVE  /\ by'[q] < q /\ on[by'[q]] = on[q]
                        /\ \E p \in Requests : p <= by'[q] /\ on[p] = on[q] /\ Server!Left(p)
      BY <1>1, <1>9, SameServer DEF Server!ForeignAnswerNeedsAbort
    <3>1. CASE q = s
      <4>1. by'[q] = r /\ on[q] = k /\ r <= s /\ r # s
        BY <3>1, <1>3, <1>11
      <4>2. l \in Requests /\ l <= r /\ on[l] = k /\ Server!Left(l)
        BY <2>2 DEF Leavers
      <4> QED BY <3>1, <4>1, <4>2, <1>k, SomeRequests
    <3>2. CASE q # s
      <4>1. by'[q] = by[q]
        BY <3>2, <1>3, <1>11
      <4> QED BY <4>1, SameServer DEF ServerInv, Server!ForeignAnswerNeedsAbort
    <3> QED BY <3>1, <3>2
  <2>8. StopsForCause'
    BY <1>1, <1>3, <1>11 DEF StopsForCause
  <2> QED BY <1>5, <1>6, <1>7, <2>5, <2>6, <2>7, <2>8 DEF ServerInv, ServerBase
<1> QED BY <1>10, <1>11

\* What the server does not do leaves its invariant alone.
LEMMA Isolated == ASSUME ServerInv, UNCHANGED serverVars PROVE ServerInv'
<1>1. UNCHANGED <<future, kept, routes, counter, arrived, on, keys, chunks, emitted, answered, client,
                  by, status, receiving, pending, running>>
  BY DEF serverVars
<1>2. /\ \A r \in Requests : (Owed(r)' <=> Owed(r)) /\ (Server!Left(r)' <=> Server!Left(r))
      /\ \A k \in Responses : Adrift(k)' = Adrift(k) /\ Leavers(k)' = Leavers(k)
  BY <1>1 DEF Owed, Server!Left, Adrift, Leavers
<1>3. Server!TypeOK' /\ Counted'
  BY <1>1 DEF ServerInv, ServerBase, Server!TypeOK, Counted
<1>4. Untouched' /\ Placed' /\ AnswersFollow' /\ Receives' /\ Waits'
  BY <1>1 DEF ServerInv, ServerBase, Untouched, Placed, AnswersFollow, Receives, Waits
<1>5. AdriftHasLeaver' /\ FewerThanLeavers' /\ StopsForCause' /\ Server!ForeignAnswerNeedsAbort'
  BY <1>1, <1>2, SameServer DEF ServerInv, AdriftHasLeaver, FewerThanLeavers, StopsForCause,
                                Server!ForeignAnswerNeedsAbort
<1> QED BY <1>3, <1>4, <1>5 DEF ServerInv, ServerBase

\* Every step of the gateway keeps the server's invariant.
LEMMA NextServer == ServerInv /\ [Next]_vars => ServerInv'
<1> SUFFICES ASSUME ServerInv, [Next]_vars PROVE ServerInv'
  OBVIOUS
<1>u. ASSUME UNCHANGED serverVars PROVE ServerInv'
  BY <1>u, Isolated
<1>1. ASSUME NEW c \in Configs, Configure(c) PROVE ServerInv'
  BY <1>1, ConfigureKeeps DEF Configure
<1>2. ASSUME NEW k \in Responses, NEW c \in Configs, NEW n \in 1 .. MaxChunks, Request(k, c, n)
      PROVE  ServerInv'
  BY <1>2, RequestKeeps DEF Request
<1>3. ASSUME NEW k \in Responses, Piece(k) \/ Forward(k) PROVE ServerInv'
  BY <1>3, DataKeeps DEF Piece, Forward
<1>4. ASSUME NEW k \in Responses, Abort(k) PROVE ServerInv'
  BY <1>4, AbortKeeps DEF Abort
<1>5. ASSUME NEW r \in Requests, Handle(r) \/ Resolve(r) \/ Dial(r) \/ Write(r) PROVE ServerInv'
  BY <1>5, <1>u DEF Handle, Resolve, Dial, Write, DispatcherAlone
<1>6. ASSUME NEW r \in Requests, Answers(r) PROVE ServerInv'
  BY <1>6, AnswerKeeps, AnswersAreMessages
<1>7. CASE UNCHANGED vars
  BY <1>7, <1>u DEF vars
<1> QED BY <1>1, <1>2, <1>3, <1>4, <1>5, <1>6, <1>7, ServeSteps DEF Next

-----------------------------------------------------------------------------
(* The two together.                                                       *)

\* Every step of the gateway is one of the dispatcher, or leaves it alone.
LEMMA DispatcherSteps == ServerInv /\ [Next]_vars => [DP!Next]_(DP!vars)
<1> SUFFICES ASSUME ServerInv, [Next]_vars PROVE [DP!Next]_(DP!vars)
  OBVIOUS
<1>e. \A r \in Requests : EndpointOf[r] \in Endpoints
  BY DispatcherAssumption
<1>u. UNCHANGED dispatcherVars => UNCHANGED DP!vars
  BY DEF dispatcherVars, DP!vars
<1>1. ASSUME NEW c \in Configs, Configure(c) PROVE UNCHANGED DP!vars
  BY <1>1, <1>u DEF Configure, ServerAlone
<1>2. ASSUME NEW k \in Responses, NEW c \in Configs, NEW n \in 1 .. MaxChunks, Request(k, c, n)
      PROVE  UNCHANGED DP!vars
  BY <1>2, <1>u DEF Request, ServerAlone
<1>3. ASSUME NEW k \in Responses, Piece(k) \/ Abort(k) PROVE UNCHANGED DP!vars
  BY <1>3, <1>u DEF Piece, Abort, ServerAlone
<1>4. ASSUME NEW k \in Responses, Forward(k) PROVE DP!Next
  <2>1. receiving[k] \in Requests /\ DP!OnMessage(receiving[k])
    BY <1>4, DataKeeps, SameSteps DEF Forward
  <2> QED BY <2>1 DEF DP!Next
<1>5. ASSUME NEW r \in Requests, Handle(r) PROVE DP!Next
  <2>1. DP!Handle(r, EndpointOf[r])
    BY <1>5, SameSteps DEF Handle
  <2> QED BY <2>1, <1>e DEF DP!Next
<1>6. ASSUME NEW r \in Requests,
             Resolve(r) \/ Dial(r) \/ Write(r) \/ Answers(r)
      PROVE  DP!Next
  <2>1. DP!Complete(r, EndpointOf[r])
    BY <1>6, SameSteps DEF Resolve, Dial, Write, Answers, Drops, Relay, WriteFails, ReadFails,
                           ResolveFails, DialFails, DP!Complete
  <2> QED BY <2>1, <1>e DEF DP!Next
<1>7. CASE UNCHANGED vars
  BY <1>7, <1>u DEF vars
<1> QED BY <1>1, <1>2, <1>3, <1>4, <1>5, <1>6, <1>7, ServeSteps DEF Next

\* An endpoint that never had two requests at a time has one at most; its
\* connection is lone, and its responses have reached their own requests.
Alone == \A e \in Endpoints : e \notin overlapped =>
  /\ DP!AtMostOne(e) /\ DP!Lone(conn[e])
  /\ \A r \in Requests : EndpointOf[r] = e => reply[r] \in {r, None}

GatewayInv == /\ ServerInv /\ DP!IInv /\ DP!OwnerInv /\ Alone
              /\ overlapped \subseteq Endpoints /\ unreachable \subseteq Endpoints
              /\ stranded \subseteq Requests /\ (aborted => overlapped # {})

LEMMA InitGateway == Init => GatewayInv
<1> SUFFICES ASSUME Init PROVE GatewayInv
  OBVIOUS
<1>1. ServerInv
  BY InitServer DEF Init
<1>2. DP!Init
  BY SameInit DEF Init
<1>3. DP!IInv /\ DP!OwnerInv
  BY <1>2, DP!InitIInv, DP!InitOwner, DispatcherAssumption, BoundAssumption
<1>4. \A e \in Endpoints : DP!Lone(conn[e])
  BY <1>2 DEF DP!Init, DP!Lone, DP!NewConnection, DP!Reading
<1>5. Alone
  BY <1>2, <1>4 DEF Alone, DP!Init, DP!AtMostOne, DP!Pending
<1> QED BY <1>1, <1>2, <1>3, <1>5 DEF GatewayInv, Init, DP!Init

\* Only the last piece of a body makes a request pending.
LEMMA PendingGrows ==
  ASSUME DP!TypeOK, [Next]_vars
  PROVE  \/ DP!Pending' \subseteq DP!Pending /\ overlapped' = overlapped
         \/ \E k \in Responses : Forward(k)
<1> SUFFICES ASSUME ~ \E k \in Responses : Forward(k)
             PROVE  DP!Pending' \subseteq DP!Pending /\ overlapped' = overlapped
  OBVIOUS
<1>u. UNCHANGED outcome => DP!Pending' = DP!Pending
  BY DEF DP!Pending
<1>1. \/ UNCHANGED <<outcome, overlapped>>
      \/ \E r \in Requests : Answers(r)
  BY ServeSteps
     DEF Next, Configure, Request, Piece, Abort, ServerAlone, dispatcherVars, historyVars, vars,
         Handle, Resolve, Dial, Write, DispatcherAlone,
         Dispatcher!Handle, Dispatcher!HandleNewEndpoint, Dispatcher!HandleUsable,
         Dispatcher!HandleReconnect, Dispatcher!HandleUnusable, Dispatcher!TakeHandler,
         Dispatcher!ResolveDone, Dispatcher!ConnectDone, Dispatcher!WriteDone
<1>2. ASSUME NEW r \in Requests, Answers(r)
      PROVE  DP!Pending' \subseteq DP!Pending /\ overlapped' = overlapped
  <2>1. overlapped' = overlapped /\ \E o \in {"answered", "dropped"} : outcome' = [outcome EXCEPT ![r] = o]
    BY <1>2, AnswersAreMessages
  <2> QED BY <2>1 DEF DP!Pending, DP!TypeOK
<1> QED BY <1>u, <1>1, <1>2

\* Who is stranded stays so; only the last piece of a body strands a request.
LEMMA StrandedGrows ==
  ASSUME [Next]_vars
  PROVE  /\ stranded \subseteq stranded'
         /\ UNCHANGED stranded \/ \E k \in Responses : Forward(k)
         /\ \/ UNCHANGED unreachable
            \/ \E r \in Requests : unreachable' \subseteq unreachable \cup {EndpointOf[r]}
<1>1. ASSUME NEW r \in Requests, Handle(r) \/ Resolve(r) \/ Dial(r) \/ Write(r)
      PROVE  UNCHANGED <<unreachable, stranded>>
  BY <1>1 DEF Handle, Resolve, Dial, Write, DispatcherAlone, historyVars
<1>2. ASSUME NEW r \in Requests, Answers(r)
      PROVE  UNCHANGED stranded /\ unreachable' \subseteq unreachable \cup {EndpointOf[r]}
  BY <1>2, AnswersAreMessages
<1>3. \/ UNCHANGED <<unreachable, stranded>>
      \/ \E k \in Responses : Forward(k)
      \/ \E r \in Requests : Answers(r)
  BY <1>1, ServeSteps DEF Next, Configure, Request, Piece, Abort, ServerAlone, historyVars, vars
<1>4. ASSUME NEW k \in Responses, Forward(k)
      PROVE  stranded \subseteq stranded' /\ UNCHANGED unreachable
  BY <1>4 DEF Forward
<1> QED BY <1>2, <1>3, <1>4

LEMMA NextGateway == GatewayInv /\ [Next]_vars => GatewayInv'
<1> SUFFICES ASSUME GatewayInv, [Next]_vars PROVE GatewayInv'
  OBVIOUS
<1>1. ServerInv' /\ [DP!Next]_(DP!vars)
  BY NextServer, DispatcherSteps DEF GatewayInv
<1>2. DP!TypeOK /\ DP!IInv /\ DP!OwnerInv
  BY DEF GatewayInv, DP!IInv
<1>3. DP!IInv' /\ DP!OwnerInv'
  BY <1>1, <1>2, DP!NextIInv, DP!NextOwner, DispatcherAssumption, BoundAssumption
<1>4. /\ overlapped \subseteq overlapped' /\ overlapped' \subseteq Endpoints
      /\ \A e \in Endpoints : e \notin overlapped' /\ DP!AtMostOne(e) => DP!AtMostOne(e)'
  <2>1. CASE DP!Pending' \subseteq DP!Pending /\ overlapped' = overlapped
    BY <2>1 DEF GatewayInv, DP!AtMostOne
  <2>2. ASSUME NEW k \in Responses, Forward(k)
        PROVE  /\ overlapped \subseteq overlapped' /\ overlapped' \subseteq Endpoints
               /\ \A e \in Endpoints : e \notin overlapped' /\ DP!AtMostOne(e) => DP!AtMostOne(e)'
    <3>1. PICK r \in Requests : r = receiving[k]
      BY <2>2, DataKeeps DEF Forward, GatewayInv
    <3>2. /\ overlapped' = overlapped \cup
               {e \in {EndpointOf[r]} : \E q \in DP!Pending : EndpointOf[q] = e}
          /\ outcome' = [outcome EXCEPT ![r] = "pending"]
      BY <2>2, <3>1 DEF Forward, Dispatcher!OnMessage, Dispatcher!Pending, DP!Pending
    <3>3. DP!Pending' \subseteq DP!Pending \cup {r}
      BY <3>2, <1>2 DEF DP!Pending, DP!TypeOK
    <3>4. overlapped \subseteq overlapped' /\ overlapped' \subseteq Endpoints
      BY <3>2, DispatcherAssumption DEF GatewayInv
    <3>5. ASSUME NEW e \in Endpoints, e \notin overlapped', DP!AtMostOne(e) PROVE DP!AtMostOne(e)'
      <4>1. EndpointOf[r] = e => \A q \in DP!Pending : EndpointOf[q] # e
        BY <3>2, <3>5
      <4> QED BY <3>3, <3>5, <4>1 DEF DP!AtMostOne
    <3> QED BY <3>4, <3>5
  <2> QED BY <1>2, <2>1, <2>2, PendingGrows
<1>5. Alone'
  <2> SUFFICES ASSUME NEW e \in Endpoints, e \notin overlapped'
               PROVE  /\ DP!AtMostOne(e)' /\ DP!Lone(conn'[e])
                      /\ \A r \in Requests : EndpointOf[r] = e => reply'[r] \in {r, None}
    BY DEF Alone
  <2>1. /\ DP!AtMostOne(e) /\ DP!Lone(conn[e])
        /\ \A r \in Requests : EndpointOf[r] = e => reply[r] \in {r, None}
    BY <1>4 DEF GatewayInv, Alone
  <2>2. /\ DP!Lone(conn'[e])
        /\ \A r \in Requests : EndpointOf[r] = e => reply'[r] \in {reply[r], r}
    BY <1>1, <1>2, <2>1, DP!NextLone, DispatcherAssumption, BoundAssumption
  <2> QED BY <1>4, <2>1, <2>2
<1>6. aborted' => overlapped' # {}
  <2>1. CASE aborted' = aborted
    BY <1>4, <2>1 DEF GatewayInv
  <2>2. CASE aborted' # aborted
    <3>1. \E e \in Endpoints : ~DP!AtMostOne(e)
      BY <1>1, <1>2, <2>2, DP!AbortNeedsTwo, DispatcherAssumption, BoundAssumption
    <3> QED BY <1>4, <3>1 DEF GatewayInv, Alone
  <2> QED BY <2>1, <2>2
<1>7. unreachable' \subseteq Endpoints /\ stranded' \subseteq Requests
  <2>1. unreachable' \subseteq Endpoints
    BY StrandedGrows, DispatcherAssumption DEF GatewayInv
  <2>2. ASSUME NEW k \in Responses, Forward(k) PROVE stranded' \subseteq Requests
    BY <2>2, DataKeeps DEF GatewayInv, Forward
  <2> QED BY <2>1, <2>2, StrandedGrows DEF GatewayInv
<1> QED BY <1>1, <1>3, <1>4, <1>5, <1>6, <1>7 DEF GatewayInv

LEMMA GatewayHolds == Spec => []GatewayInv
BY InitGateway, NextGateway, PTL DEF Spec

\* The state of the server and of the dispatcher behind it is well typed.
THEOREM GatewayTypeCorrect == Spec => []TypeOK
<1>1. GatewayInv => TypeOK
  BY SameTypes DEF GatewayInv, ServerInv, ServerBase, DP!IInv, TypeOK
<1> QED BY <1>1, GatewayHolds, PTL

\* For any number of clients and connection objects: a client is given the
\* answer to another request only after an earlier client of the same object
\* left while its own was being answered.
THEOREM ForeignAnswersNeedAborts == Spec => []ForeignAnswerNeedsAbort
<1>1. GatewayInv => ForeignAnswerNeedsAbort
  BY DEF GatewayInv, ServerInv, ForeignAnswerNeedsAbort
<1> QED BY <1>1, GatewayHolds, PTL

\* The answers nobody waits for are never more than the clients that left.
THEOREM ExcessAnswersHaveLeavers == Spec => []ExcessAnswersAreOfLeavers
<1>1. ASSUME GatewayInv PROVE ExcessAnswersAreOfLeavers
  <2> SUFFICES ASSUME NEW k \in Responses
               PROVE  LET mine == {r \in Requests : on[r] = k}
                      IN Cardinality({r \in mine : emitted[r] > answered[r] /\ pending[k] # r})
                           <= Cardinality({r \in mine : Server!Left(r)})
    BY SameServer DEF ExcessAnswersAreOfLeavers, Server!ExcessAnswersAreOfLeavers
  <2> DEFINE mine == {r \in Requests : on[r] = k}
             excess == {r \in mine : emitted[r] > answered[r] /\ pending[k] # r}
  <2>1. excess \subseteq Adrift(k) /\ {r \in mine : Server!Left(r)} = Leavers(k)
    BY DEF Adrift, Leavers, Owed
  <2>2. Adrift(k) \subseteq Requests /\ Leavers(k) \subseteq Requests
    BY DEF Adrift, Leavers
  <2>3. IsFiniteSet(Adrift(k)) /\ IsFiniteSet(Leavers(k))
    BY <2>2, SomeRequests, FS_Subset
  <2>4. Cardinality(excess) <= Cardinality(Adrift(k)) /\ IsFiniteSet(excess)
    BY <2>1, <2>3, FS_Subset
  <2>5. Cardinality(Adrift(k)) <= Cardinality(Leavers(k))
    BY <1>1 DEF GatewayInv, ServerInv, FewerThanLeavers
  <2> HIDE DEF excess, mine
  <2>6. Cardinality(excess) <= Cardinality(Leavers(k))
    BY <2>3, <2>4, <2>5, FS_CardinalityType
  <2> QED BY <2>1, <2>6 DEF excess, mine
<1> QED BY <1>1, GatewayHolds, PTL

\* An endpoint that is sent one request at a time answers each with its own
\* response, whatever fails and whoever leaves.
THEOREM AloneRepliesAreOwn == Spec => []AloneRepliesMatch
<1>1. GatewayInv => AloneRepliesMatch
  BY DispatcherAssumption DEF GatewayInv, Alone, AloneRepliesMatch
<1> QED BY <1>1, GatewayHolds, PTL

\* The program ends over a client that left, an unknown method or requests that
\* overlapped, and over nothing else.
THEOREM EndsOnlyForCause == Spec => []EndsForCause
<1>1. GatewayInv => EndsForCause
  BY DEF GatewayInv, ServerInv, StopsForCause, EndsForCause
<1> QED BY <1>1, GatewayHolds, PTL

-----------------------------------------------------------------------------
(* The gateway implements the safety of RequestService.                    *)

\* What the server knows of a client that was given its own response.
Served == \A s \in Requests : client[s] = "served" =>
  /\ by[s] \in Requests
  /\ by[s] = s /\ status[s] = 200 => outcome[s] = "answered" /\ reply[s] # None

FullInv == GatewayInv /\ Served

\* What a step of the gateway does to a client: a new one arrives, the last one
\* of a connection leaves or is served, or none is touched.
LEMMA ClientSteps ==
  ASSUME GatewayInv, [Next]_vars
  PROVE  \/ UNCHANGED <<client, by, status, on, arrived>>
         \/ \E k \in Responses, c \in Configs, n \in 1 .. MaxChunks : Request(k, c, n)
         \/ \E k \in Responses : Abort(k) /\ pending[k] # None
         \/ \E r \in Requests : Answers(r) /\ pending[on[r]] # None
<1>1. ASSUME NEW c \in Configs, Configure(c) PROVE UNCHANGED <<client, by, status, on, arrived>>
  BY <1>1 DEF Configure, Server!AddRoute, Server!Free
<1>2. ASSUME NEW k \in Responses, Piece(k) \/ Forward(k)
      PROVE  UNCHANGED <<client, by, status, on, arrived>>
  BY <1>2 DEF Piece, Forward, Server!OnData, Server!Deliver
<1>3. ASSUME NEW k \in Responses, Abort(k), pending[k] = None
      PROVE  UNCHANGED <<client, by, status, on, arrived>>
  BY <1>3 DEF Abort, Server!OnAborted
<1>4. ASSUME NEW r \in Requests, Handle(r) \/ Resolve(r) \/ Dial(r) \/ Write(r)
      PROVE  UNCHANGED <<client, by, status, on, arrived>>
  BY <1>4 DEF Handle, Resolve, Dial, Write, DispatcherAlone, serverVars
<1>5. ASSUME NEW r \in Requests, Answers(r), pending[on[r]] = None
      PROVE  UNCHANGED <<client, by, status, on, arrived>>
  BY <1>5, AnswersAreMessages DEF Server!OnMessage
<1>6. CASE UNCHANGED vars
  BY <1>6 DEF vars, serverVars
<1> QED BY <1>1, <1>2, <1>3, <1>4, <1>5, <1>6, ServeSteps DEF Next

\* The client that an answer serves, or that leaves, is waiting; it is the last
\* one of its connection.
LEMMA WaitingClient ==
  ASSUME GatewayInv, NEW k \in Responses, pending[k] # None
  PROVE  /\ pending[k] \in Requests /\ pending[k] <= arrived
         /\ on[pending[k]] = k /\ client[pending[k]] = "waiting"
         /\ \A q \in Requests : on[q] = k => q <= pending[k]
BY SameServer DEF GatewayInv, ServerInv, ServerBase, Waits, Server!TypeOK

\* The effect of an answer on the client that waits for it.
LEMMA AnswerServes ==
  ASSUME GatewayInv, NEW r \in Requests, Answers(r),
         pending[on[r]] # None, NEW s, s = pending[on[r]]
  PROVE  /\ s \in Requests /\ client[s] = "waiting" /\ s <= arrived
         /\ UNCHANGED <<on, arrived, emitted, running, aborted, overlapped, stranded>>
         /\ \A q \in Requests : /\ client'[q] = IF q = s THEN "served" ELSE client[q]
                                /\ by'[q] = IF q = s THEN r ELSE by[q]
                                /\ status'[q] = IF q # s THEN status[q] ELSE
                                                IF Relay(r) THEN 200 ELSE 429
         /\ Relay(r) => outcome'[r] = "answered" /\ reply'[r] # None
<1>t. Server!TypeOK /\ DP!TypeOK
  BY DEF GatewayInv, ServerInv, ServerBase, DP!IInv
<1>0. on[r] \in Responses
  <2>1. emitted[r] > 0
    BY <1>t, SameServer, AnswersAreMessages DEF Server!OnMessage, Server!TypeOK
  <2>2. r <= arrived
    BY <1>t, <2>1, SomeRequests DEF GatewayInv, ServerInv, ServerBase, Untouched, Server!TypeOK
  <2> QED BY <2>2 DEF GatewayInv, ServerInv, ServerBase, Placed
<1>1. s \in Requests /\ client[s] = "waiting" /\ s <= arrived
  BY <1>0, WaitingClient
<1>2. /\ UNCHANGED <<on, arrived, emitted, running>>
      /\ client' = [client EXCEPT ![s] = "served"] /\ by' = [by EXCEPT ![s] = r]
      /\ Relay(r) => status' = [status EXCEPT ![s] = 200]
      /\ ~Relay(r) => status' = [status EXCEPT ![s] = 429]
  BY AnswersAreMessages DEF Server!OnMessage
<1>3. UNCHANGED <<overlapped, stranded, aborted>>
  BY AnswersAreMessages
<1>4. \A q \in Requests : /\ client'[q] = IF q = s THEN "served" ELSE client[q]
                          /\ by'[q] = IF q = s THEN r ELSE by[q]
  BY <1>t, <1>1, <1>2, SameServer DEF Server!TypeOK
<1>5. \A q \in Requests : status'[q] = IF q # s THEN status[q] ELSE IF Relay(r) THEN 200 ELSE 429
  BY <1>t, <1>1, <1>2, SameServer DEF Server!TypeOK
<1>6. ASSUME Relay(r) PROVE outcome'[r] = "answered" /\ reply'[r] # None
  <2>1. DP!ReadDone(r, EndpointOf[r]) /\ EndpointOf[r] \in Endpoints
    BY <1>6, SameSteps, DispatcherAssumption DEF Relay
  <2>2. conn[EndpointOf[r]] \in DP!Connections
    BY <2>1, <1>t DEF DP!TypeOK
  <2>3. DP!NextResponse(conn[EndpointOf[r]]) \in Requests \cup {Garbled}
    BY <2>1, <2>2, DP!ReadCompletedType, DispatcherAssumption, BoundAssumption DEF DP!ReadDone
  <2> QED BY <2>1, <2>3, <1>t, DispatcherAssumption DEF DP!ReadDone, DP!Relay, DP!TypeOK
<1> QED BY <1>1, <1>2, <1>3, <1>4, <1>5, <1>6

\* The effect of a new request.
LEMMA RequestArrives ==
  ASSUME GatewayInv, NEW k \in Responses, NEW c \in Configs, NEW n \in 1 .. MaxChunks,
         Request(k, c, n), NEW s, s = arrived + 1
  PROVE  /\ s \in Requests /\ client[s] = "none"
         /\ UNCHANGED <<by, status, emitted, running, aborted, overlapped, stranded, outcome, reply>>
         /\ \A q \in Requests : /\ client'[q] = IF q = s THEN "waiting" ELSE client[q]
                                /\ on'[q] = IF q = s THEN k ELSE on[q]
<1>t. Server!TypeOK
  BY DEF GatewayInv, ServerInv, ServerBase
<1>1. arrived < MaxRequests /\ arrived \in 0 .. MaxRequests
  BY <1>t DEF Request, Server!Request, Server!Accept, Server!TypeOK
<1>2. s \in Requests /\ s > arrived
  BY <1>1, BoundAssumption DEF Requests
<1>3. client[s] = "none"
  BY <1>2 DEF GatewayInv, ServerInv, ServerBase, Untouched
<1>4. /\ client' = [client EXCEPT ![s] = "waiting"] /\ on' = [on EXCEPT ![s] = k]
      /\ UNCHANGED <<by, status, emitted, running, aborted, overlapped, stranded, outcome, reply>>
  BY DEF Request, ServerAlone, dispatcherVars, historyVars, Server!Request, Server!Accept
<1> QED BY <1>t, <1>2, <1>3, <1>4, SameServer DEF Server!TypeOK

\* The effect of a client that leaves during its request.
LEMMA AbortLeaves ==
  ASSUME GatewayInv, NEW k \in Responses, Abort(k), pending[k] # None, NEW s, s = pending[k]
  PROVE  /\ s \in Requests /\ client[s] = "waiting" /\ s <= arrived /\ on[s] = k
         /\ UNCHANGED <<by, status, on, arrived, emitted, running, aborted, overlapped, stranded,
                        outcome, reply>>
         /\ \A q \in Requests : client'[q] = IF q = s THEN "gone" ELSE client[q]
<1>t. Server!TypeOK
  BY DEF GatewayInv, ServerInv, ServerBase
<1>1. s \in Requests /\ client[s] = "waiting" /\ s <= arrived /\ on[s] = k
  BY WaitingClient
<1>2. /\ client' = [client EXCEPT ![s] = "gone"]
      /\ UNCHANGED <<by, status, on, arrived, emitted, running, aborted, overlapped, stranded,
                     outcome, reply>>
  BY DEF Abort, ServerAlone, dispatcherVars, historyVars, Server!OnAborted
<1> QED BY <1>t, <1>1, <1>2, SameServer DEF Server!TypeOK

\* A client that was served stays served by the same response.
LEMMA ServedStays ==
  ASSUME FullInv, [Next]_vars, NEW s \in Requests, client[s] = "served"
  PROVE  /\ client'[s] = "served" /\ by'[s] = by[s] /\ status'[s] = status[s]
         /\ outcome[s] = "answered" => outcome'[s] = outcome[s] /\ reply'[s] = reply[s]
<1>1. client'[s] = "served" /\ by'[s] = by[s] /\ status'[s] = status[s]
  <2>1. CASE UNCHANGED <<client, by, status, on, arrived>>
    BY <2>1
  <2>2. ASSUME NEW k \in Responses, NEW c \in Configs, NEW n \in 1 .. MaxChunks, Request(k, c, n)
        PROVE  client'[s] = "served" /\ by'[s] = by[s] /\ status'[s] = status[s]
    BY <2>2, RequestArrives DEF FullInv
  <2>3. ASSUME NEW k \in Responses, Abort(k), pending[k] # None
        PROVE  client'[s] = "served" /\ by'[s] = by[s] /\ status'[s] = status[s]
    BY <2>3, AbortLeaves DEF FullInv
  <2>4. ASSUME NEW r \in Requests, Answers(r), pending[on[r]] # None
        PROVE  client'[s] = "served" /\ by'[s] = by[s] /\ status'[s] = status[s]
    BY <2>4, AnswerServes DEF FullInv
  <2> QED BY <2>1, <2>2, <2>3, <2>4, ClientSteps DEF FullInv
<1>2. ASSUME outcome[s] = "answered" PROVE outcome'[s] = outcome[s] /\ reply'[s] = reply[s]
  <2>1. DP!TypeOK /\ [DP!Next]_(DP!vars)
    BY DispatcherSteps DEF FullInv, GatewayInv, DP!IInv
  <2>2. \A e \in Endpoints : s \notin DP!Alive(conn[e])
    BY <1>2 DEF FullInv, GatewayInv, DP!OwnerInv, DP!AliveWhilePending
  <2> QED BY <1>2, <2>1, <2>2, DP!OnlyTheLiving, DispatcherAssumption, BoundAssumption
<1> QED BY <1>1, <1>2

LEMMA InitFull == Init => FullInv
BY InitGateway, SameServer DEF FullInv, Served, Init, Server!Init

LEMMA NextFull == FullInv /\ [Next]_vars => FullInv'
<1> SUFFICES ASSUME FullInv, [Next]_vars, NEW s \in Requests, client'[s] = "served"
             PROVE  /\ by'[s] \in Requests
                    /\ by'[s] = s /\ status'[s] = 200 => outcome'[s] = "answered" /\ reply'[s] # None
  BY NextGateway DEF FullInv, Served
<1>1. CASE client[s] = "served"
  BY <1>1, ServedStays DEF FullInv, Served
<1>2. CASE client[s] # "served"
  <2>1. PICK r \in Requests : /\ Answers(r)
                              /\ pending[on[r]] # None
    BY <1>2, ClientSteps, RequestArrives, AbortLeaves DEF FullInv
  <2>2. PICK p : p = pending[on[r]]
    OBVIOUS
  <2>3. /\ \A q \in Requests : /\ client'[q] = IF q = p THEN "served" ELSE client[q]
                               /\ by'[q] = IF q = p THEN r ELSE by[q]
                               /\ status'[q] = IF q # p THEN status[q] ELSE
                                               IF Relay(r) THEN 200 ELSE 429
        /\ Relay(r) => outcome'[r] = "answered" /\ reply'[r] # None
    BY <2>1, <2>2, AnswerServes DEF FullInv
  <2>4. p = s /\ by'[s] = r /\ status'[s] = IF Relay(r) THEN 200 ELSE 429
    BY <1>2, <2>3
  <2> QED BY <2>3, <2>4
<1> QED BY <1>1, <1>2

\* A client that was given something else than its own response was disturbed.
NotMisled == \A s \in Requests : client[s] = "served" /\ ~Own(s) => Disturbed(s)

LEMMA NobodyIsMisled == FullInv => NotMisled
<1> SUFFICES ASSUME FullInv, NEW s \in Requests, client[s] = "served", ~Own(s)
             PROVE  Disturbed(s)
  BY DEF NotMisled
<1>1. by[s] \in Requests /\ by[s] # None
  BY SomeRequests DEF FullInv, Served
<1>2. CASE by[s] # s
  <2>1. /\ by[s] < s
        /\ \E q \in Requests : q <= by[s] /\ on[q] = on[s] /\ Server!Left(q)
    BY <1>1, <1>2, SameServer
       DEF FullInv, GatewayInv, ServerInv, Server!ForeignAnswerNeedsAbort
  <2>2. \A q \in Requests : q <= by[s] => q < s
    BY <1>1, <2>1, SomeRequests
  <2> QED BY <2>1, <2>2 DEF Disturbed
<1>3. CASE by[s] = s
  <2>1. status[s] = 200 /\ reply[s] \notin {s, None}
    BY <1>3 DEF FullInv, Served, Own
  <2>2. EndpointOf[s] \in overlapped
    BY <2>1, DispatcherAssumption DEF FullInv, GatewayInv, Alone
  <2> QED BY <2>2 DEF Disturbed
<1> QED BY <1>2, <1>3

\* Nothing happens after the end of the program.
LEMMA EndIsFinal == (~running \/ aborted) /\ [Next]_vars => UNCHANGED vars
<1> SUFFICES ASSUME Next PROVE running /\ ~aborted
  OBVIOUS
<1>1. ASSUME NEW c \in Configs, Configure(c) PROVE running /\ ~aborted
  BY <1>1 DEF Configure, ServerAlone, Server!AddRoute, Server!Free
<1>2. ASSUME NEW k \in Responses, NEW c \in Configs, NEW n \in 1 .. MaxChunks, Request(k, c, n)
      PROVE  running /\ ~aborted
  BY <1>2 DEF Request, ServerAlone, Server!Request, Server!Accept
<1>3. ASSUME NEW k \in Responses, Piece(k) \/ Forward(k) \/ Abort(k) PROVE running /\ ~aborted
  BY <1>3 DEF Piece, Forward, Abort, ServerAlone, Server!OnData, Server!Deliver, Server!OnAborted,
              Dispatcher!OnMessage
<1>4. ASSUME NEW r \in Requests, Handle(r) \/ Resolve(r) \/ Dial(r) \/ Write(r)
      PROVE  running /\ ~aborted
  BY <1>4 DEF Handle, Resolve, Dial, Write, DispatcherAlone, Dispatcher!ResolveDone,
              Dispatcher!ConnectDone, Dispatcher!WriteDone, Dispatcher!Handle,
              Dispatcher!HandleNewEndpoint, Dispatcher!HandleUsable, Dispatcher!HandleReconnect,
              Dispatcher!HandleUnusable, Dispatcher!TakeHandler
<1>5. ASSUME NEW r \in Requests, Answers(r) PROVE running /\ ~aborted
  BY <1>5, AnswersAreMessages DEF Server!OnMessage
<1> QED BY <1>1, <1>2, <1>3, <1>4, <1>5, ServeSteps DEF Next

\* A client that left has left.
LEMMA LeftStays ==
  ASSUME GatewayInv, [Next]_vars, NEW q \in Requests, Server!Left(q)
  PROVE  Server!Left(q)'
<1>t. Server!TypeOK /\ Server!TypeOK'
  BY NextServer DEF GatewayInv, ServerInv, ServerBase
<1>1. client'[q] = "gone"
  BY ClientSteps, RequestArrives, AbortLeaves, AnswerServes DEF Server!Left
<1>2. emitted'[q] \in {emitted[q], emitted[q] + 1}
  <2>1. \/ UNCHANGED emitted
        \/ \E k \in Responses : Server!OnData(k)
    BY ServeSteps, AnswersAreMessages
       DEF Next, Configure, Server!AddRoute, Server!Free, Request, Server!Request, Server!Accept,
           Piece, Forward, Abort, Server!OnAborted, Handle, Resolve, Dial, Write, DispatcherAlone,
           serverVars, Server!OnMessage, vars
  <2>2. ASSUME NEW k \in Responses, Server!OnData(k)
        PROVE  emitted' \in {emitted, [emitted EXCEPT ![receiving[k]] = @ + 1]}
    BY <2>2 DEF Server!OnData, Server!Deliver
  <2> QED BY <2>1, <2>2, <1>t, SameServer DEF Server!TypeOK
<1>3. emitted'[q] = 1
  BY <1>t, <1>2, SameServer DEF Server!Left, Server!TypeOK
<1> QED BY <1>1, <1>3 DEF Server!Left

\* Where a request came from is not forgotten.
LEMMA OriginStays ==
  ASSUME GatewayInv, [Next]_vars, NEW q \in Requests, q <= arrived
  PROVE  on'[q] = on[q]
<1>1. ASSUME NEW k \in Responses, NEW c \in Configs, NEW n \in 1 .. MaxChunks, Request(k, c, n)
      PROVE  on'[q] = on[q]
  <2>1. arrived + 1 # q
    BY SomeRequests DEF GatewayInv, ServerInv, ServerBase, Server!TypeOK
  <2> QED BY <1>1, <2>1, RequestArrives
<1>2. ASSUME NEW r \in Requests, Answers(r) PROVE on'[q] = on[q]
  BY <1>2, AnswersAreMessages DEF Server!OnMessage
<1> QED BY <1>1, <1>2, ClientSteps, AbortLeaves

\* A client that was disturbed stays so.
LEMMA DisturbedStays ==
  ASSUME GatewayInv, [Next]_vars, NEW s \in Requests, s <= arrived, Disturbed(s)
  PROVE  Disturbed(s)'
<1>1. CASE EndpointOf[s] \in overlapped
  <2>1. overlapped \subseteq overlapped'
    BY PendingGrows DEF GatewayInv, DP!IInv, Forward
  <2> QED BY <1>1, <2>1 DEF Disturbed
<1>2. ASSUME NEW q \in Requests, q < s, on[q] = on[s], Server!Left(q) PROVE Disturbed(s)'
  <2>1. q <= arrived
    BY <1>2, SomeRequests DEF GatewayInv, ServerInv, ServerBase, Server!TypeOK
  <2>2. on'[q] = on'[s] /\ Server!Left(q)'
    BY <1>2, <2>1, OriginStays, LeftStays
  <2> QED BY <1>2, <2>2 DEF Disturbed
<1>3. CASE s \in stranded
  <2>1. stranded \subseteq stranded'
    BY StrandedGrows
  <2> QED BY <1>3, <2>1 DEF Disturbed
<1>4. CASE ~running \/ aborted
  BY <1>4, EndIsFinal DEF vars, serverVars, dispatcherVars, Disturbed
<1> QED BY <1>1, <1>2, <1>3, <1>4 DEF Disturbed

-----------------------------------------------------------------------------
phase == [s \in Requests |-> PhaseOf(s)]

LEMMA FullStays == FullInv /\ [Next]_vars => FullInv' /\ NotMisled'
  BY NextFull, NobodyIsMisled, PTL

\* A client whose state and response a step leaves alone is in the same phase
\* after it, unless the step disturbed it.
LEMMA PhaseStays ==
  ASSUME FullInv, [Next]_vars, NEW s \in Requests, client'[s] = client[s]
  PROVE  /\ \/ PhaseOf(s)' = PhaseOf(s)
            \/ PhaseOf(s) = "waiting" /\ PhaseOf(s)' = "disturbed"
         /\ (Disturbed(s)' => Disturbed(s)) => PhaseOf(s)' = PhaseOf(s)
<1>t. client[s] \in {"none", "waiting", "gone", "served"}
  BY SameServer DEF FullInv, GatewayInv, ServerInv, ServerBase, Server!TypeOK
<1>1. CASE client[s] \in {"none", "gone"}
  BY <1>1 DEF PhaseOf
<1>2. CASE client[s] = "waiting"
  <2>1. s <= arrived
    BY <1>2, SomeRequests
       DEF FullInv, GatewayInv, ServerInv, ServerBase, Untouched, Server!TypeOK
  <2>2. Disturbed(s) => Disturbed(s)'
    BY <2>1, DisturbedStays DEF FullInv
  <2>3. PhaseOf(s) = IF Disturbed(s) THEN "disturbed" ELSE "waiting"
    BY <1>2 DEF PhaseOf
  <2>4. PhaseOf(s)' = IF Disturbed(s)' THEN "disturbed" ELSE "waiting"
    BY <1>2 DEF PhaseOf
  <2> QED BY <2>2, <2>3, <2>4
<1>3. CASE client[s] = "served"
  <2>1. /\ client'[s] = "served" /\ by'[s] = by[s] /\ status'[s] = status[s]
        /\ outcome[s] = "answered" => reply'[s] = reply[s]
    BY <1>3, ServedStays
  <2>2. by[s] = s /\ status[s] = 200 => outcome[s] = "answered"
    BY <1>3 DEF FullInv, Served
  <2>3. Own(s)' <=> Own(s)
    BY <2>1, <2>2 DEF Own
  <2>4. /\ ~Own(s) => Disturbed(s)
        /\ ~Own(s)' => Disturbed(s)'
    <3>1. ~Own(s) => Disturbed(s)
      BY <1>3, NobodyIsMisled DEF NotMisled
    <3>2. s <= arrived
      BY <1>3, SomeRequests
         DEF FullInv, GatewayInv, ServerInv, ServerBase, Untouched, Server!TypeOK
    <3> QED BY <2>3, <3>1, <3>2, DisturbedStays DEF FullInv
  <2>5. CASE Own(s)
    <3>1. PhaseOf(s) = IF status[s] = 200 THEN "answered" ELSE "refused"
      BY <1>3, <2>5 DEF PhaseOf
    <3>2. Own(s)' /\ client'[s] = "served"
      BY <2>1, <2>3, <2>5
    <3>3. PhaseOf(s)' = IF status'[s] = 200 THEN "answered" ELSE "refused"
      BY <3>2 DEF PhaseOf
    <3> QED BY <2>1, <3>1, <3>3
  <2>6. CASE ~Own(s)
    <3>1. ~Own(s)' /\ client'[s] = "served" /\ Disturbed(s) /\ Disturbed(s)'
      BY <2>1, <2>3, <2>4, <2>6
    <3>2. PhaseOf(s) = "disturbed"
      BY <1>3, <2>6, <3>1 DEF PhaseOf
    <3>3. PhaseOf(s)' = "disturbed"
      BY <3>1 DEF PhaseOf
    <3> QED BY <3>2, <3>3
  <2> QED BY <2>5, <2>6
<1> QED BY <1>t, <1>1, <1>2, <1>3

\* Which other clients are disturbed does not depend on whether a client that
\* arrives, leaves or is served is there.
LEMMA OthersStay ==
  ASSUME FullInv, [Next]_vars, NEW s \in Requests, client'[s] # client[s],
         UNCHANGED <<overlapped, stranded, running, aborted, emitted>>,
         \A q \in Requests \ {s} : client'[q] = client[q],
         \/ s = arrived + 1
         \/ /\ UNCHANGED on
            /\ client'[s] = "gone" => \A q \in Requests : on[q] = on[s] => q <= s
  PROVE  \A q \in Requests \ {s} : PhaseOf(q)' = PhaseOf(q)
<1>a. arrived \in Nat
  BY DEF FullInv, GatewayInv, ServerInv, ServerBase, Server!TypeOK
<1> SUFFICES ASSUME NEW q \in Requests \ {s} PROVE PhaseOf(q)' = PhaseOf(q)
  OBVIOUS
<1>1. CASE q <= arrived
  <2> SUFFICES ASSUME Disturbed(q)', ~Disturbed(q) PROVE FALSE
    BY PhaseStays
  <2>1. PICK p \in Requests : p < q /\ on'[p] = on'[q] /\ Server!Left(p)'
    BY DEF Disturbed
  <2>2. p <= arrived /\ on[p] = on[q]
    BY <1>1, <1>a, <2>1, SomeRequests, OriginStays DEF FullInv
  <2>3. ~Server!Left(p)
    BY <2>1, <2>2 DEF Disturbed
  <2>4. p = s /\ client'[s] = "gone"
    BY <2>1, <2>3 DEF Server!Left
  <2>5. s # arrived + 1
    BY <1>a, <2>2, <2>4, SomeRequests
  <2>6. q <= s
    BY <2>2, <2>4, <2>5
  <2> QED BY <2>1, <2>4, <2>6, SomeRequests
<1>2. CASE ~(q <= arrived)
  <2>1. client[q] = "none"
    BY <1>2, <1>a, SomeRequests DEF FullInv, GatewayInv, ServerInv, ServerBase, Untouched
  <2> QED BY <2>1 DEF PhaseOf
<1> QED BY <1>1, <1>2

\* A client that waits may be answered, refused, disturbed, or leave; nobody
\* ever gets the response to another request without having been disturbed.
LEMMA NextService == FullInv /\ [Next]_vars => [Service!Next]_phase
<1> SUFFICES ASSUME FullInv, [Next]_vars PROVE Service!Next \/ UNCHANGED phase
  OBVIOUS
<1>p. phase' = [s \in Requests |-> PhaseOf(s)']
  BY DEF phase
<1>f. GatewayInv
  BY DEF FullInv
<1>1. CASE UNCHANGED <<client, by, status, on, arrived>>
  <2> DEFINE them == {s \in Requests : PhaseOf(s)' # PhaseOf(s)}
  <2>1. \A s \in them : PhaseOf(s) = "waiting" /\ PhaseOf(s)' = "disturbed"
    BY <1>1, PhaseStays
  <2>2. them \in SUBSET {c \in Requests : phase[c] = "waiting"}
    BY <2>1 DEF phase
  <2>3. phase' = [c \in Requests |-> IF c \in them THEN "disturbed" ELSE phase[c]]
    BY <1>p, <2>1 DEF phase
  <2> QED BY <2>2, <2>3 DEF Service!Next, Service!Disturb, phase
<1>2. ASSUME NEW k \in Responses, NEW c \in Configs, NEW n \in 1 .. MaxChunks, Request(k, c, n)
      PROVE  Service!Next
  <2>1. PICK s : s = arrived + 1
    OBVIOUS
  <2>2. /\ s \in Requests /\ client[s] = "none" /\ client'[s] = "waiting"
        /\ UNCHANGED <<emitted, running, aborted, overlapped, stranded>>
        /\ \A q \in Requests \ {s} : client'[q] = client[q]
    BY <1>2, <1>f, <2>1, RequestArrives
  <2>3. \A q \in Requests \ {s} : PhaseOf(q)' = PhaseOf(q)
    BY <2>1, <2>2, OthersStay
  <2>4. PhaseOf(s) = "idle" /\ PhaseOf(s)' \in {"waiting", "disturbed"}
    BY <2>2 DEF PhaseOf
  <2>5. phase[s] = "idle" /\ phase' = [phase EXCEPT ![s] = PhaseOf(s)']
    BY <1>p, <2>2, <2>3, <2>4 DEF phase
  <2> QED BY <2>2, <2>4, <2>5 DEF Service!Next, Service!Ask, phase
<1>3. ASSUME NEW k \in Responses, Abort(k), pending[k] # None PROVE Service!Next
  <2>1. PICK s : s = pending[k]
    OBVIOUS
  <2>2. /\ s \in Requests /\ client[s] = "waiting" /\ client'[s] = "gone"
        /\ UNCHANGED <<emitted, running, aborted, overlapped, stranded, on>>
        /\ \A q \in Requests \ {s} : client'[q] = client[q]
        /\ \A q \in Requests : on[q] = on[s] => q <= s
    BY <1>3, <1>f, <2>1, AbortLeaves, WaitingClient
  <2>3. \A q \in Requests \ {s} : PhaseOf(q)' = PhaseOf(q)
    BY <2>2, OthersStay
  <2>4. PhaseOf(s) \in {"waiting", "disturbed"} /\ PhaseOf(s)' = "gone"
    BY <2>2 DEF PhaseOf
  <2>5. phase[s] \in {"waiting", "disturbed"} /\ phase' = [phase EXCEPT ![s] = "gone"]
    BY <1>p, <2>2, <2>3, <2>4 DEF phase
  <2> QED BY <2>2, <2>5 DEF Service!Next, Service!Conclude, phase
<1>4. ASSUME NEW r \in Requests, Answers(r), pending[on[r]] # None
      PROVE  Service!Next \/ UNCHANGED phase
  <2>1. PICK s : s = pending[on[r]]
    OBVIOUS
  <2>2. /\ s \in Requests /\ client[s] = "waiting" /\ client'[s] = "served" /\ s <= arrived
        /\ UNCHANGED <<emitted, running, aborted, overlapped, stranded, on>>
        /\ \A q \in Requests \ {s} : client'[q] = client[q]
    BY <1>4, <1>f, <2>1, AnswerServes
  <2>3. \A q \in Requests \ {s} : PhaseOf(q)' = PhaseOf(q)
    BY <2>2, OthersStay
  <2>4. PhaseOf(s) = IF Disturbed(s) THEN "disturbed" ELSE "waiting"
    BY <2>2 DEF PhaseOf
  <2>5. CASE Own(s)'
    <3>1. PhaseOf(s)' \in {"answered", "refused"}
      BY <2>2, <2>5 DEF PhaseOf
    <3>2. phase[s] \in {"waiting", "disturbed"} /\ phase' = [phase EXCEPT ![s] = PhaseOf(s)']
      BY <1>p, <2>2, <2>3, <2>4, <3>1 DEF phase
    <3> QED BY <2>2, <3>1, <3>2 DEF Service!Next, Service!Conclude, phase
  <2>6. CASE ~Own(s)'
    <3>1. Disturbed(s)'
      <4>1. NotMisled'
        BY FullStays
      <4> QED BY <2>2, <2>6, <4>1 DEF NotMisled
    <3>2. Disturbed(s)
      <4>1. \A q \in Requests : Server!Left(q)' => Server!Left(q)
        BY <2>2 DEF Server!Left
      <4> QED BY <2>2, <3>1, <4>1 DEF Disturbed
    <3>3. PhaseOf(s)' = "disturbed"
      BY <2>2, <2>6, <3>1 DEF PhaseOf
    <3> QED BY <1>p, <2>3, <2>4, <3>2, <3>3 DEF phase
  <2> QED BY <2>5, <2>6
<1> QED BY <1>1, <1>2, <1>3, <1>4, <1>f, ClientSteps

LEMMA InitService == Init => Service!Init
<1> SUFFICES ASSUME Init, NEW s \in Requests PROVE PhaseOf(s) = "idle"
  BY DEF Service!Init
<1>1. client[s] = "none"
  BY SameServer DEF Init, Server!Init
<1> QED BY <1>1 DEF PhaseOf

\* What the gateway promises its clients, but for liveness: a request is
\* answered with its own response or refused, once, or its client leaves or was
\* disturbed, for every number of requests, responses and endpoints.
THEOREM GatewayServesSafely == Spec => Service!Safety
  BY InitService, InitFull, NextFull, NextService, PTL DEF Spec, Service!Safety, phase
=============================================================================
