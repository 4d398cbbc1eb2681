------------------------ MODULE HttpDispatcher_proofs ------------------------
(***************************************************************************)
(* Theorems about the dispatcher, for any requests, endpoints and faults,  *)
(* on what each operation of the connection state machine preserves: the   *)
(* type of the connection, the agreement between its state and the         *)
(* asynchronous operations under way, and who holds a request's            *)
(* continuation.                                                           *)
(***************************************************************************)
EXTENDS HttpDispatcher, Functions, TLAPS

\* The two queues and the byte streams stay sequences of their elements.
LEMMA AppendType ==
  ASSUME NEW S, NEW q \in Seq(S), NEW x \in S
  PROVE  Append(q, x) \in Seq(S)
OBVIOUS

\* Popping a queue leaves a queue, and its new front is one of its elements.
LEMMA PopType ==
  ASSUME NEW S, NEW q \in Seq(S)
  PROVE  /\ Pop(q) \in Seq(S)
         /\ Pop(q) # <<>> => Head(Pop(q)) \in S
BY DEF Pop

-----------------------------------------------------------------------------
\* A fresh connection, resolving or not, is a connection.
LEMMA NewType ==
  /\ NewConnection \in Connections
  /\ \A r \in Requests : Resolve(NewConnection, r) \in Connections
<1>1. NewConnection \in Connections
  BY DEF NewConnection, Connections, ConnStates
<1> QED BY <1>1 DEF Resolve, NewConnection, Connections, ConnStates

\* Resolving and connecting keep the type.
LEMMA DialType ==
  ASSUME NEW c \in Connections, NEW r \in Requests
  PROVE  /\ Connect(c, r) \in Connections
         /\ OnResolve(c, r) \in Connections
         /\ OnResolveFailed(c, r) \in Connections
         /\ OnConnect(c, r) \in Connections
         /\ OnConnectFailed(c, r) \in Connections
<1>1. Connect(c, r) \in Connections
  BY DEF Connect, Connections, ConnStates
<1>2. OnResolve(c, r) \in Connections /\ OnResolveFailed(c, r) \in Connections
  BY DEF OnResolve, OnResolveFailed, Connections, ConnStates
<1>3. OnConnect(c, r) \in Connections
  <2>1. <<>> \in Seq(Requests \cup {Garbled})
    OBVIOUS
  <2> QED BY <2>1 DEF OnConnect, Connections, ConnStates
<1>4. OnConnectFailed(c, r) \in Connections
  BY DEF OnConnectFailed, Connections, ConnStates
<1> QED BY <1>1, <1>2, <1>3, <1>4

\* Asking for a write keeps the type.
LEMMA WriteType ==
  ASSUME NEW c \in Connections, NEW r \in Requests
  PROVE  Write(c, r) \in Connections
<1>1. CASE c.state \in {"connected", "reading"}
  BY <1>1 DEF Write, StartWrite, Connections, ConnStates, Writing
<1>2. CASE c.state \in Writing
  <2>1. Append(c.write_queue, r) \in Seq(Requests)
    BY AppendType DEF Connections
  <2>2. Write(c, r) = [c EXCEPT !.write_queue = Append(@, r)]
    BY <1>2 DEF Write, Writing
  <2> QED BY <2>1, <2>2 DEF Connections
<1>3. CASE c.state \notin {"connected", "reading"} \cup Writing
  BY <1>3 DEF Write, StartWrite, Connections, ConnStates, Writing
<1> QED BY <1>1, <1>2, <1>3

\* Asking for a read keeps the type.
LEMMA ReadType ==
  ASSUME NEW c \in Connections, NEW r \in Requests
  PROVE  Read(c, r) \in Connections
<1>1. CASE c.state \in {"connected", "writing"}
  BY <1>1 DEF Read, StartRead, Connections, ConnStates, Reading
<1>2. CASE c.state \in Reading
  <2>1. Append(c.read_queue, r) \in Seq(Requests)
    BY AppendType DEF Connections
  <2>2. Read(c, r) = [c EXCEPT !.read_queue = Append(@, r)]
    BY <1>2 DEF Read, Reading
  <2> QED BY <2>1, <2>2 DEF Connections
<1>3. CASE c.state \notin {"connected", "writing"} \cup Reading
  BY <1>3 DEF Read, StartRead, Connections, ConnStates, Reading
<1> QED BY <1>1, <1>2, <1>3

\* The end of a write keeps the type, whatever bytes it sent.
LEMMA WriteCompletedType ==
  ASSUME NEW c \in Connections, NEW r \in c.writing, NEW bytes \in BytesOf(c, r)
  PROVE  WriteCompleted(c, r, bytes) \in Connections
<1>1. bytes \in Requests \cup {Garbled}
  BY DEF BytesOf, Connections
<1>2. Append(c.wire, bytes) \in Seq(Requests \cup {Garbled})
  BY <1>1, AppendType DEF Connections
<1> QED BY <1>2 DEF WriteCompleted, Connections

\* The end of a read keeps the type, however much it received.
LEMMA ReadCompletedType ==
  ASSUME NEW c \in Connections, NEW r \in c.reading,
         HasResponse(c), NEW ahead \in ReadAhead(c)
  PROVE  /\ ReadCompleted(c, r, ahead) \in Connections
         /\ NextResponse(c) \in Requests \cup {Garbled}
<1> DEFINE Bytes == Requests \cup {Garbled}
<1>1. c.buffer \in Seq(Bytes) /\ c.wire \in Seq(Bytes)
  BY DEF Connections
<1> HIDE DEF Bytes
<1>2. NextResponse(c) \in Bytes
  <2> DEFINE all == c.buffer \o c.wire
  <2>1. all \in Seq(Bytes) /\ all # <<>>
    BY <1>1 DEF HasResponse
  <2> HIDE DEF all
  <2>2. Head(all) \in Bytes
    BY <2>1
  <2> QED BY <2>2 DEF NextResponse, all
<1>3. CASE c.buffer # <<>>
  <2>1. Tail(c.buffer) \in Seq(Bytes)
    BY <1>1, <1>3
  <2> QED BY <1>2, <1>3, <2>1 DEF ReadCompleted, Connections, Bytes
<1>4. CASE c.buffer = <<>>
  <2>1. ahead \in 0 .. (Len(c.wire) - 1) /\ Len(c.wire) \in Nat
    BY <1>1, <1>4 DEF ReadAhead
  <2>2. SubSeq(c.wire, 2, 1 + ahead) \in Seq(Bytes)
    BY <1>1, <2>1
  <2>3. SubSeq(c.wire, 2 + ahead, Len(c.wire)) \in Seq(Bytes)
    BY <1>1, <2>1
  <2>4. ReadCompleted(c, r, ahead) =
          [c EXCEPT !.reading = @ \ {r},
                    !.buffer = SubSeq(c.wire, 2, 1 + ahead),
                    !.wire = SubSeq(c.wire, 2 + ahead, Len(c.wire))]
    BY <1>4 DEF ReadCompleted
  <2> QED BY <1>2, <2>2, <2>3, <2>4 DEF Connections, Bytes
<1> QED BY <1>3, <1>4

\* The failed end of an operation keeps the type.
LEMMA EndedType ==
  ASSUME NEW c \in Connections, NEW r \in Requests
  PROVE  WriteEnded(c, r) \in Connections /\ ReadEnded(c, r) \in Connections
BY DEF WriteEnded, ReadEnded, Connections

\* What the machine does when a write ends keeps the type.
LEMMA OnWriteType ==
  ASSUME NEW c \in Connections
  PROVE  OnWrite(c) \in Connections /\ OnWriteError(c) \in Connections
<1> DEFINE queue == Pop(c.write_queue)
<1>1. queue \in Seq(Requests) /\ (queue # <<>> => Head(queue) \in Requests)
  BY PopType DEF Connections
<1> HIDE DEF queue
<1>2. OnWrite(c) \in Connections
  BY <1>1 DEF OnWrite, StartWrite, Connections, ConnStates, Writing, queue
<1>3. OnWriteError(c) \in Connections
  BY <1>1 DEF OnWriteError, Connections, ConnStates, queue
<1> QED BY <1>2, <1>3

\* What the machine does when a read ends keeps the type.
LEMMA OnReadType ==
  ASSUME NEW c \in Connections
  PROVE  OnRead(c) \in Connections /\ OnReadError(c) \in Connections
<1> DEFINE queue == Pop(c.read_queue)
<1>1. queue \in Seq(Requests) /\ (queue # <<>> => Head(queue) \in Requests)
  BY PopType DEF Connections
<1> HIDE DEF queue
<1>2. OnRead(c) \in Connections
  BY <1>1 DEF OnRead, StartRead, Connections, ConnStates, Reading, queue
<1>3. OnReadError(c) \in Connections
  BY <1>1 DEF OnReadError, Connections, ConnStates, queue
<1> QED BY <1>2, <1>3

-----------------------------------------------------------------------------
\* A fresh connection agrees, before and after the resolution is started.
LEMMA NewAgrees ==
  /\ StateAgrees(NewConnection)
  /\ \A r \in Requests : StateAgrees(Resolve(NewConnection, r))
BY DEF NewConnection, Resolve, StateAgrees, Writing, Reading

\* Starting to connect, resolving, and failing to do either keep agreement.
LEMMA DialAgrees ==
  ASSUME NEW c \in Connections, NEW r \in Requests, StateAgrees(c)
  PROVE  /\ StateAgrees(Connect(c, r))
         /\ r \in c.resolveFor => StateAgrees(OnResolve(c, r))
         /\ r \in c.resolveFor => StateAgrees(OnResolveFailed(c, r))
         /\ r \in c.connectFor /\ c.writing \cup c.reading = {}
              => StateAgrees(OnConnect(c, r)) /\ StateAgrees(OnConnectFailed(c, r))
<1> USE DEF StateAgrees, Connections, ConnStates, Writing, Reading
<1>1. StateAgrees(Connect(c, r))
  BY DEF Connect
<1>2. ASSUME r \in c.resolveFor
      PROVE  StateAgrees(OnResolve(c, r)) /\ StateAgrees(OnResolveFailed(c, r))
  BY <1>2 DEF OnResolve, OnResolveFailed
<1>3. ASSUME r \in c.connectFor, c.writing \cup c.reading = {}
      PROVE  StateAgrees(OnConnect(c, r)) /\ StateAgrees(OnConnectFailed(c, r))
  BY <1>3 DEF OnConnect, OnConnectFailed
<1> QED BY <1>1, <1>2, <1>3

\* Asking for a write keeps agreement in every state.
LEMMA WriteAgrees ==
  ASSUME NEW c \in Connections, NEW r \in Requests, StateAgrees(c)
  PROVE  StateAgrees(Write(c, r))
BY DEF Write, StartWrite, StateAgrees, Connections, ConnStates, Writing, Reading

\* Asking for a read keeps agreement in every state.
LEMMA ReadAgrees ==
  ASSUME NEW c \in Connections, NEW r \in Requests, StateAgrees(c)
  PROVE  StateAgrees(Read(c, r))
BY DEF Read, StartRead, StateAgrees, Connections, ConnStates, Writing, Reading

\* Once on_write or on_write_error has run, the write that ended is replaced by
\* the next one, or the state no longer waits for a write.
LEMMA WriteEndAgrees ==
  ASSUME NEW c \in Connections, NEW r \in c.writing, StateAgrees(c), NEW bytes
  PROVE  /\ StateAgrees(OnWrite(WriteCompleted(c, r, bytes)))
         /\ StateAgrees(OnWriteError(WriteEnded(c, r)))
<1>1. StateAgrees(OnWrite(WriteCompleted(c, r, bytes)))
  <2> DEFINE d == WriteCompleted(c, r, bytes)
             e == OnWrite(d)
             queue == Pop(c.write_queue)
  <2> SUFFICES StateAgrees(e)
    OBVIOUS
  <2>1. /\ d.state = c.state /\ d.write_queue = c.write_queue /\ d.writing = c.writing \ {r}
        /\ d.resolveFor = c.resolveFor /\ d.connectFor = c.connectFor /\ d.reading = c.reading
    BY DEF WriteCompleted, Connections
  <2>2. CASE c.state \notin Writing
    <3> HIDE DEF d
    <3>1. e = d
      BY <2>1, <2>2 DEF OnWrite, Writing
    <3> HIDE DEF e
    <3> QED BY <2>1, <2>2, <3>1 DEF StateAgrees, Writing, Reading
  <2>3. CASE c.state \in Writing /\ queue # <<>>
    <3>1. e = StartWrite([d EXCEPT !.write_queue = queue], Head(queue))
      <4> HIDE DEF d
      <4> QED BY <2>1, <2>3 DEF OnWrite
    <3>2. /\ e.state = c.state /\ e.writing = (c.writing \ {r}) \cup {Head(queue)}
          /\ e.resolveFor = c.resolveFor /\ e.connectFor = c.connectFor /\ e.reading = c.reading
      BY <3>1 DEF StartWrite, WriteCompleted, Connections
    <3> HIDE DEF e, queue
    <3> QED BY <2>3, <3>2 DEF StateAgrees, Writing, Reading
  <2>4. CASE c.state \in Writing /\ queue = <<>>
    <3>1. e = [[d EXCEPT !.write_queue = queue]
                 EXCEPT !.state = IF c.state = "writing" THEN "connected" ELSE "reading"]
      <4> HIDE DEF d
      <4> QED BY <2>1, <2>4 DEF OnWrite, Writing
    <3>2. /\ e.state = (IF c.state = "writing" THEN "connected" ELSE "reading")
          /\ e.writing = c.writing \ {r}
          /\ e.resolveFor = c.resolveFor /\ e.connectFor = c.connectFor /\ e.reading = c.reading
      BY <3>1 DEF WriteCompleted, Connections
    <3> HIDE DEF e, queue
    <3> QED BY <2>4, <3>2 DEF StateAgrees, Writing, Reading
  <2> QED BY <2>2, <2>3, <2>4
<1>2. StateAgrees(OnWriteError(WriteEnded(c, r)))
  BY DEF OnWriteError, WriteEnded, StateAgrees, Connections, ConnStates, Writing, Reading
<1> QED BY <1>1, <1>2

\* The same for the end of a read, whatever it received.
LEMMA ReadEndAgrees ==
  ASSUME NEW c \in Connections, NEW r \in c.reading, StateAgrees(c),
         HasResponse(c), NEW ahead \in ReadAhead(c)
  PROVE  StateAgrees(OnRead(ReadCompleted(c, r, ahead)))
<1> DEFINE d == ReadCompleted(c, r, ahead)
<1>1. /\ d.state = c.state /\ d.resolveFor = c.resolveFor /\ d.connectFor = c.connectFor
      /\ d.writing = c.writing /\ d.reading = c.reading \ {r}
      /\ d.read_queue = c.read_queue
  BY DEF ReadCompleted, Connections
<1>2. d \in Connections
  BY ReadCompletedType
<1> HIDE DEF d
<1>3. StateAgrees(OnRead(d))
  <2> DEFINE e == OnRead(d)
             queue == Pop(d.read_queue)
  <2> SUFFICES StateAgrees(e)
    OBVIOUS
  <2>1. CASE c.state \notin Reading
    <3>1. e = d
      BY <1>1, <2>1 DEF OnRead, Reading
    <3> HIDE DEF e
    <3> QED BY <1>1, <2>1, <3>1 DEF StateAgrees, Writing, Reading
  <2>2. CASE c.state \in Reading /\ queue # <<>>
    <3>1. e = StartRead([d EXCEPT !.read_queue = queue], Head(queue))
      BY <1>1, <2>2 DEF OnRead
    <3>2. /\ e.state = d.state /\ e.reading = d.reading \cup {Head(queue)}
          /\ e.resolveFor = d.resolveFor /\ e.connectFor = d.connectFor /\ e.writing = d.writing
      BY <1>2, <3>1 DEF StartRead, Connections
    <3> HIDE DEF e, queue
    <3> QED BY <1>1, <2>2, <3>2 DEF StateAgrees, Writing, Reading
  <2>3. CASE c.state \in Reading /\ queue = <<>>
    <3>1. e = [[d EXCEPT !.read_queue = queue]
                 EXCEPT !.state = IF d.state = "reading" THEN "connected" ELSE "writing"]
      BY <1>1, <2>3 DEF OnRead, Reading
    <3>2. /\ e.state = (IF d.state = "reading" THEN "connected" ELSE "writing")
          /\ e.reading = d.reading
          /\ e.resolveFor = d.resolveFor /\ e.connectFor = d.connectFor /\ e.writing = d.writing
      BY <1>2, <3>1 DEF Connections
    <3> HIDE DEF e, queue
    <3> QED BY <1>1, <2>3, <3>2 DEF StateAgrees, Writing, Reading
  <2> QED BY <2>1, <2>2, <2>3
<1> QED BY <1>3 DEF d

\* ... and for a read that failed.
LEMMA ReadErrorAgrees ==
  ASSUME NEW c \in Connections, NEW r \in c.reading, StateAgrees(c)
  PROVE  StateAgrees(OnReadError(ReadEnded(c, r)))
BY DEF OnReadError, ReadEnded, StateAgrees, Connections, ConnStates, Writing, Reading

-----------------------------------------------------------------------------
(* Who holds a request.                                                    *)

\* Only the entry at the front of a queue may have been started.
FreshTail(queue, started) == \A i \in DOMAIN queue : i > 1 => queue[i] \notin started

\* The requests whose continuation the connection may still run: an entry of a
\* queue counts until its operation is started.
Alive(c) == c.resolveFor \cup c.connectFor \cup c.writing \cup c.reading
            \cup (Range(c.write_queue) \ c.sent) \cup (Range(c.read_queue) \ c.fetched)

\* The requests it has, or has ever sent.
Held(c) == c.resolveFor \cup c.connectFor \cup Range(c.write_queue) \cup c.sent

\* A connection holds each continuation once: a request is unsent until its
\* write starts, and unfetched until its read does.
OrderlyDial(c) ==
  /\ (c.resolveFor \cup c.connectFor) \cap (Range(c.write_queue) \cup c.sent) = {}
  /\ c.resolveFor \cap c.connectFor = {}
OrderlyQueues(c) ==
  /\ IsInjective(c.write_queue) /\ FreshTail(c.write_queue, c.sent)
  /\ IsInjective(c.read_queue) /\ FreshTail(c.read_queue, c.fetched)
OrderlyUse(c) ==
  /\ c.fetched \subseteq c.sent /\ c.reading \subseteq c.fetched
  /\ Range(c.read_queue) \subseteq c.sent
  /\ c.writing \subseteq c.sent
  /\ c.writing \cap (c.fetched \cup Range(c.read_queue)) = {}
Orderly(c) == OrderlyDial(c) /\ OrderlyQueues(c) /\ OrderlyUse(c)

\* A request whose write has ended and whose read has not been asked for.
ReadyToRead(c, r) ==
  /\ r \in c.sent
  /\ r \notin c.fetched \cup Range(c.read_queue) \cup c.writing

\* Appending a request that is in neither the queue nor the started ones.
LEMMA AppendKeeps ==
  ASSUME NEW q \in Seq(Requests), NEW r \in Requests, NEW started,
         IsInjective(q), FreshTail(q, started), r \notin Range(q), r \notin started
  PROVE  /\ IsInjective(Append(q, r)) /\ FreshTail(Append(q, r), started)
         /\ Range(Append(q, r)) = Range(q) \cup {r}
<1> DEFINE a == Append(q, r)
<1>1. /\ Len(q) \in Nat /\ DOMAIN q = 1 .. Len(q)
      /\ DOMAIN a = 1 .. Len(q) + 1
      /\ \A i \in 1 .. Len(q) : a[i] = q[i]
      /\ a[Len(q) + 1] = r
  OBVIOUS
<1> HIDE DEF a
<1>2. Range(a) = Range(q) \cup {r}
  BY <1>1 DEF Range
<1>3. IsInjective(a)
  BY <1>1 DEF IsInjective, Range
<1>4. FreshTail(a, started)
  BY <1>1 DEF FreshTail
<1> QED BY <1>2, <1>3, <1>4 DEF a

\* Popping a queue; the entry that comes to its front has not been started, so
\* that starting it leaves fresh entries behind it.
LEMMA PopKeeps ==
  ASSUME NEW q \in Seq(Requests), NEW started, IsInjective(q), FreshTail(q, started)
  PROVE  /\ IsInjective(Pop(q)) /\ FreshTail(Pop(q), started)
         /\ Range(Pop(q)) \subseteq Range(q)
         /\ Pop(q) # <<>> => /\ Head(Pop(q)) \in Range(q) \ started
                             /\ FreshTail(Pop(q), started \cup {Head(Pop(q))})
<1>1. CASE q = <<>>
  BY <1>1 DEF Pop
<1>2. CASE q # <<>>
  <2> DEFINE t == Pop(q)
  <2>1. /\ Len(q) \in Nat \ {0} /\ DOMAIN q = 1 .. Len(q)
        /\ DOMAIN t = 1 .. Len(q) - 1
        /\ \A i \in 1 .. Len(q) - 1 : t[i] = q[i + 1]
        /\ t # <<>> => Len(q) - 1 >= 1 /\ Head(t) = t[1]
    BY <1>2 DEF Pop
  <2> HIDE DEF t
  <2>2. IsInjective(t) /\ Range(t) \subseteq Range(q)
    <3>1. \A i \in DOMAIN t : i \in Int /\ i + 1 \in DOMAIN q /\ t[i] = q[i + 1]
      BY <2>1
    <3>2. \A i, j \in DOMAIN t : t[i] = t[j] => i + 1 = j + 1
      BY <3>1 DEF IsInjective
    <3> QED BY <3>1, <3>2 DEF IsInjective, Range
  <2>3. FreshTail(t, started)
    BY <2>1 DEF FreshTail
  <2>4. ASSUME t # <<>>
        PROVE  Head(t) \in Range(q) \ started /\ FreshTail(t, started \cup {Head(t)})
    <3>1. 1 \in DOMAIN t /\ 2 \in DOMAIN q /\ Head(t) = q[2] /\ Head(t) = t[1]
      BY <2>1, <2>4
    <3>2. Head(t) \in Range(q) \ started
      BY <3>1 DEF FreshTail, Range
    <3> QED BY <3>1, <3>2, <2>2, <2>3 DEF FreshTail, IsInjective
  <2> QED BY <2>2, <2>3, <2>4 DEF t
<1> QED BY <1>1, <1>2

\* A fresh connection holds the request it resolves for, and nothing else.
LEMMA NewOwns ==
  /\ Orderly(NewConnection) /\ Held(NewConnection) = {} /\ Alive(NewConnection) = {}
  /\ \A r \in Requests : LET c == Resolve(NewConnection, r)
                         IN Orderly(c) /\ Held(c) = {r} /\ Alive(c) = {r}
<1>1. Range(<<>>) = {} /\ IsInjective(<<>>) /\ \A started : FreshTail(<<>>, started)
  BY DEF Range, IsInjective, FreshTail
<1> QED BY <1>1 DEF NewConnection, Resolve, Orderly, OrderlyDial, OrderlyQueues, OrderlyUse,
                    Held, Alive

\* Dialling: the request that is resolved or connected for is let go of, and
\* one that is not held yet is taken on.
LEMMA DialOwns ==
  ASSUME NEW c \in Connections, NEW r \in Requests, Orderly(c)
  PROVE  /\ r \notin Held(c) =>
              /\ Orderly(Connect(c, r))
              /\ Held(Connect(c, r)) \subseteq Held(c) \cup {r}
              /\ Alive(Connect(c, r)) \subseteq Alive(c) \cup {r}
         /\ r \in c.resolveFor =>
              \A d \in {OnResolve(c, r), OnResolveFailed(c, r)} :
                /\ Orderly(d) /\ Held(d) \subseteq Held(c) \ {r}
                /\ Alive(d) \subseteq Alive(c) \ {r}
         /\ r \in c.connectFor =>
              \A d \in {OnConnect(c, r), OnConnectFailed(c, r)} :
                /\ Orderly(d) /\ Held(d) \subseteq Held(c) \ {r}
                /\ Alive(d) \subseteq Alive(c) \ {r}
<1> USE DEF Orderly, OrderlyDial, OrderlyQueues, OrderlyUse, Held, Alive
<1>1. ASSUME r \notin Held(c)
      PROVE  /\ Orderly(Connect(c, r))
             /\ Held(Connect(c, r)) \subseteq Held(c) \cup {r}
             /\ Alive(Connect(c, r)) \subseteq Alive(c) \cup {r}
  BY <1>1 DEF Connect, Connections
<1>2. ASSUME r \in c.resolveFor, NEW d \in {OnResolve(c, r), OnResolveFailed(c, r)}
      PROVE  Orderly(d) /\ Held(d) \subseteq Held(c) \ {r} /\ Alive(d) \subseteq Alive(c) \ {r}
  <2>1. /\ d.resolveFor = c.resolveFor \ {r} /\ d.connectFor = c.connectFor
        /\ d.writing = c.writing /\ d.reading = c.reading
        /\ d.write_queue = c.write_queue /\ d.read_queue = c.read_queue
        /\ d.sent = c.sent /\ d.fetched = c.fetched
    BY DEF OnResolve, OnResolveFailed, Connections
  <2> QED BY <1>2, <2>1
<1>3. ASSUME r \in c.connectFor, NEW d \in {OnConnect(c, r), OnConnectFailed(c, r)}
      PROVE  Orderly(d) /\ Held(d) \subseteq Held(c) \ {r} /\ Alive(d) \subseteq Alive(c) \ {r}
  <2>1. /\ d.resolveFor = c.resolveFor /\ d.connectFor = c.connectFor \ {r}
        /\ d.writing = c.writing /\ d.reading = c.reading
        /\ d.write_queue = c.write_queue /\ d.read_queue = c.read_queue
        /\ d.sent = c.sent /\ d.fetched = c.fetched
    BY DEF OnConnect, OnConnectFailed, Connections
  <2> QED BY <1>3, <2>1
<1> QED BY <1>1, <1>2, <1>3

\* Asking for a write takes on a request that the connection does not hold.
LEMMA WriteOwns ==
  ASSUME NEW c \in Connections, NEW r \in Requests, Orderly(c), r \notin Held(c)
  PROVE  /\ Orderly(Write(c, r))
         /\ Held(Write(c, r)) \subseteq Held(c) \cup {r}
         /\ Alive(Write(c, r)) \subseteq Alive(c) \cup {r}
<1> USE DEF Orderly, OrderlyDial, OrderlyQueues, OrderlyUse, Held, Alive
<1> DEFINE d == Write(c, r)
<1>0. /\ d.resolveFor = c.resolveFor /\ d.connectFor = c.connectFor /\ d.fetched = c.fetched
      /\ d.reading = c.reading /\ d.read_queue = c.read_queue
  BY DEF Write, StartWrite, Connections, Writing
<1>1. CASE c.state \in {"connected", "reading"}
  <2>1. /\ d.writing = c.writing \cup {r} /\ d.sent = c.sent \cup {r}
        /\ d.write_queue = c.write_queue
    BY <1>1 DEF Write, StartWrite, Connections, Writing
  <2> HIDE DEF d
  <2>2. FreshTail(c.write_queue, c.sent \cup {r})
    BY DEF FreshTail, Range
  <2> QED BY <1>0, <2>1, <2>2 DEF d
<1>2. CASE c.state \in Writing
  <2>1. /\ d.writing = c.writing /\ d.sent = c.sent
        /\ d.write_queue = Append(c.write_queue, r) /\ c.write_queue \in Seq(Requests)
    BY <1>2 DEF Write, StartWrite, Connections, Writing
  <2> HIDE DEF d
  <2>2. /\ IsInjective(d.write_queue) /\ FreshTail(d.write_queue, d.sent)
        /\ Range(d.write_queue) = Range(c.write_queue) \cup {r}
    BY <2>1, AppendKeeps
  <2> QED BY <1>0, <2>1, <2>2 DEF d
<1>3. CASE c.state \notin {"connected", "reading"} \cup Writing
  <2>1. d = c
    BY <1>3 DEF Write, Connections
  <2> QED BY <2>1
<1> QED BY <1>1, <1>2, <1>3

\* The same for a read, of a request that is ready to be read for.
LEMMA ReadOwns ==
  ASSUME NEW c \in Connections, NEW r \in Requests, Orderly(c), ReadyToRead(c, r)
  PROVE  /\ Orderly(Read(c, r))
         /\ Held(Read(c, r)) \subseteq Held(c)
         /\ Alive(Read(c, r)) \subseteq Alive(c) \cup {r}
<1> USE DEF Orderly, OrderlyDial, OrderlyQueues, OrderlyUse, Held, Alive, ReadyToRead
<1> DEFINE d == Read(c, r)
<1>0. /\ d.resolveFor = c.resolveFor /\ d.connectFor = c.connectFor /\ d.sent = c.sent
      /\ d.writing = c.writing /\ d.write_queue = c.write_queue
  BY DEF Read, StartRead, Connections, Reading
<1>1. CASE c.state \in {"connected", "writing"}
  <2>1. /\ d.reading = c.reading \cup {r} /\ d.fetched = c.fetched \cup {r}
        /\ d.read_queue = c.read_queue
    BY <1>1 DEF Read, StartRead, Connections, Reading
  <2> HIDE DEF d
  <2>2. FreshTail(c.read_queue, c.fetched \cup {r})
    BY DEF FreshTail, Range
  <2> QED BY <1>0, <2>1, <2>2 DEF d
<1>2. CASE c.state \in Reading
  <2>1. /\ d.reading = c.reading /\ d.fetched = c.fetched
        /\ d.read_queue = Append(c.read_queue, r) /\ c.read_queue \in Seq(Requests)
    BY <1>2 DEF Read, StartRead, Connections, Reading
  <2> HIDE DEF d
  <2>2. /\ IsInjective(d.read_queue) /\ FreshTail(d.read_queue, d.fetched)
        /\ Range(d.read_queue) = Range(c.read_queue) \cup {r}
    BY <2>1, AppendKeeps
  <2> QED BY <1>0, <2>1, <2>2 DEF d
<1>3. CASE c.state \notin {"connected", "writing"} \cup Reading
  <2>1. d = c
    BY <1>3 DEF Read, Connections
  <2> QED BY <2>1
<1> QED BY <1>1, <1>2, <1>3

\* What the machine does when a write ends, well or not: at most it starts the
\* next entry, which it holds already.
LEMMA OnWriteOwns ==
  ASSUME NEW c \in Connections, Orderly(c), NEW d \in {OnWrite(c), OnWriteError(c)}
  PROVE  /\ Orderly(d) /\ Held(d) \subseteq Held(c) /\ Alive(d) \subseteq Alive(c)
         /\ \A r : ReadyToRead(c, r) => ReadyToRead(d, r)
<1> USE DEF Orderly, OrderlyDial, OrderlyQueues, OrderlyUse, Held, Alive, ReadyToRead
<1> DEFINE queue == Pop(c.write_queue)
<1>p. /\ IsInjective(queue) /\ FreshTail(queue, c.sent) /\ Range(queue) \subseteq Range(c.write_queue)
      /\ queue # <<>> => /\ Head(queue) \in Range(c.write_queue) \ c.sent
                         /\ FreshTail(queue, c.sent \cup {Head(queue)})
  BY PopKeeps DEF Connections
<1> HIDE DEF queue
<1>0. /\ d.resolveFor = c.resolveFor /\ d.connectFor = c.connectFor /\ d.fetched = c.fetched
      /\ d.reading = c.reading /\ d.read_queue = c.read_queue
  <2>1. CASE d = OnWrite(c)
    BY <2>1 DEF OnWrite, StartWrite, Connections, Writing
  <2>2. CASE d = OnWriteError(c)
    BY <2>2 DEF OnWriteError, Connections
  <2> QED BY <2>1, <2>2
<1>1. CASE d.write_queue = c.write_queue /\ d.writing = c.writing /\ d.sent = c.sent
  BY <1>0, <1>1
<1>2. CASE d.write_queue = queue /\ d.writing = c.writing /\ d.sent = c.sent
  BY <1>0, <1>2, <1>p
<1>3. CASE /\ queue # <<>> /\ d.write_queue = queue
           /\ d.writing = c.writing \cup {Head(queue)} /\ d.sent = c.sent \cup {Head(queue)}
  BY <1>0, <1>3, <1>p
<1>4. \/ d.write_queue = c.write_queue /\ d.writing = c.writing /\ d.sent = c.sent
      \/ d.write_queue = queue /\ d.writing = c.writing /\ d.sent = c.sent
      \/ /\ queue # <<>> /\ d.write_queue = queue
         /\ d.writing = c.writing \cup {Head(queue)} /\ d.sent = c.sent \cup {Head(queue)}
  <2>1. CASE d = OnWrite(c)
    BY <2>1 DEF OnWrite, StartWrite, Connections, Writing, queue
  <2>2. CASE d = OnWriteError(c)
    BY <2>2 DEF OnWriteError, Connections, queue
  <2> QED BY <2>1, <2>2
<1> QED BY <1>1, <1>2, <1>3, <1>4

\* The same for a read.
LEMMA OnReadOwns ==
  ASSUME NEW c \in Connections, Orderly(c), NEW d \in {OnRead(c), OnReadError(c)}
  PROVE  Orderly(d) /\ Held(d) \subseteq Held(c) /\ Alive(d) \subseteq Alive(c)
<1> USE DEF Orderly, OrderlyDial, OrderlyQueues, OrderlyUse, Held, Alive
<1> DEFINE queue == Pop(c.read_queue)
<1>p. /\ IsInjective(queue) /\ FreshTail(queue, c.fetched) /\ Range(queue) \subseteq Range(c.read_queue)
      /\ queue # <<>> => /\ Head(queue) \in Range(c.read_queue) \ c.fetched
                         /\ FreshTail(queue, c.fetched \cup {Head(queue)})
  BY PopKeeps DEF Connections
<1> HIDE DEF queue
<1>0. /\ d.resolveFor = c.resolveFor /\ d.connectFor = c.connectFor /\ d.sent = c.sent
      /\ d.writing = c.writing /\ d.write_queue = c.write_queue
  <2>1. CASE d = OnRead(c)
    BY <2>1 DEF OnRead, StartRead, Connections, Reading
  <2>2. CASE d = OnReadError(c)
    BY <2>2 DEF OnReadError, Connections
  <2> QED BY <2>1, <2>2
<1>1. CASE d.read_queue = c.read_queue /\ d.reading = c.reading /\ d.fetched = c.fetched
  BY <1>0, <1>1
<1>2. CASE d.read_queue = queue /\ d.reading = c.reading /\ d.fetched = c.fetched
  BY <1>0, <1>2, <1>p
<1>3. CASE /\ queue # <<>> /\ d.read_queue = queue
           /\ d.reading = c.reading \cup {Head(queue)} /\ d.fetched = c.fetched \cup {Head(queue)}
  BY <1>0, <1>3, <1>p
<1>4. \/ d.read_queue = c.read_queue /\ d.reading = c.reading /\ d.fetched = c.fetched
      \/ d.read_queue = queue /\ d.reading = c.reading /\ d.fetched = c.fetched
      \/ /\ queue # <<>> /\ d.read_queue = queue
         /\ d.reading = c.reading \cup {Head(queue)} /\ d.fetched = c.fetched \cup {Head(queue)}
  <2>1. CASE d = OnRead(c)
    BY <2>1 DEF OnRead, StartRead, Connections, Reading, queue
  <2>2. CASE d = OnReadError(c)
    BY <2>2 DEF OnReadError, Connections, queue
  <2> QED BY <2>1, <2>2
<1> QED BY <1>1, <1>2, <1>3, <1>4

\* A write that ends lets go of its request; if it ended well, the request is
\* ready to be read for.
LEMMA WriteEndOwns ==
  ASSUME NEW c \in Connections, Orderly(c), NEW r \in c.writing, NEW bytes,
         NEW d \in {WriteCompleted(c, r, bytes), WriteEnded(c, r)}
  PROVE  /\ Orderly(d) /\ Held(d) \subseteq Held(c) /\ Alive(d) \subseteq Alive(c) \ {r}
         /\ ReadyToRead(d, r)
<1>1. /\ d.resolveFor = c.resolveFor /\ d.connectFor = c.connectFor
      /\ d.writing = c.writing \ {r} /\ d.reading = c.reading
      /\ d.write_queue = c.write_queue /\ d.read_queue = c.read_queue
      /\ d.sent = c.sent /\ d.fetched = c.fetched
  BY DEF WriteCompleted, WriteEnded, Connections
<1> QED BY <1>1 DEF Orderly, OrderlyDial, OrderlyQueues, OrderlyUse, Held, Alive, ReadyToRead

\* A read that ends lets go of its request.
LEMMA ReadEndOwns ==
  ASSUME NEW c \in Connections, Orderly(c), NEW r \in c.reading, NEW ahead,
         NEW d \in {ReadCompleted(c, r, ahead), ReadEnded(c, r)}
  PROVE  Orderly(d) /\ Held(d) \subseteq Held(c) /\ Alive(d) \subseteq Alive(c) \ {r}
<1>1. /\ d.resolveFor = c.resolveFor /\ d.connectFor = c.connectFor
      /\ d.writing = c.writing /\ d.reading = c.reading \ {r}
      /\ d.write_queue = c.write_queue /\ d.read_queue = c.read_queue
      /\ d.sent = c.sent /\ d.fetched = c.fetched
  BY DEF ReadCompleted, ReadEnded, Connections
<1> QED BY <1>1 DEF Orderly, OrderlyDial, OrderlyQueues, OrderlyUse, Held, Alive

-----------------------------------------------------------------------------
(* A connection that carries one request at a time.                        *)

\* Nothing is queued or buffered; the wire holds the response to the request
\* that is being read and nothing else; a stream that was given up is idle.
Lone(c) ==
  /\ c.write_queue = <<>> /\ c.read_queue = <<>> /\ c.buffer = <<>>
  /\ c.state \in {"connected", "writing"} => c.wire = <<>>
  /\ c.state \in Reading => \E r \in Requests : c.reading = {r} /\ c.wire = <<r>>
  /\ c.state \in {"resolved", "connecting"} => c.writing \cup c.reading = {}

\* Resolving and connecting, up to the write that follows.
LEMMA LoneDial ==
  ASSUME NEW c \in Connections, NEW r \in Requests, Lone(c), StateAgrees(c)
  PROVE  /\ Lone(Resolve(NewConnection, r))
         /\ Lone(Connect(c, r))
         /\ r \in c.resolveFor => Lone(Connect(OnResolve(c, r), r)) /\ Lone(OnResolveFailed(c, r))
         /\ r \in c.connectFor => Lone(Write(OnConnect(c, r), r)) /\ Lone(OnConnectFailed(c, r))
<1> USE DEF Lone, StateAgrees, Connections, ConnStates, Writing, Reading
<1>1. Lone(Resolve(NewConnection, r))
  BY DEF Resolve, NewConnection
<1>2. Lone(Connect(c, r))
  BY DEF Connect
<1>3. ASSUME r \in c.resolveFor
      PROVE  Lone(Connect(OnResolve(c, r), r)) /\ Lone(OnResolveFailed(c, r))
  BY <1>3 DEF Connect, OnResolve, OnResolveFailed
<1>4. ASSUME r \in c.connectFor
      PROVE  Lone(Write(OnConnect(c, r), r)) /\ Lone(OnConnectFailed(c, r))
  BY <1>4 DEF Write, StartWrite, OnConnect, OnConnectFailed
<1> QED BY <1>1, <1>2, <1>3, <1>4

\* A write that has the connection to itself sends what it should, and its end
\* starts the read of the response.
LEMMA LoneWrite ==
  ASSUME NEW c \in Connections, NEW r \in Requests, Lone(c), StateAgrees(c)
  PROVE  /\ c.state = "connected" => Lone(Write(c, r))
         /\ c.writing = {r} /\ c.reading = {} =>
              /\ BytesOf(c, r) = {r}
              /\ Lone(Read(OnWrite(WriteCompleted(c, r, r)), r))
              /\ Lone(OnWriteError(WriteEnded(c, r)))
<1>1. ASSUME c.state = "connected" PROVE Lone(Write(c, r))
  <2> DEFINE d == Write(c, r)
  <2>1. /\ d.state = "writing" /\ d.wire = c.wire /\ d.buffer = c.buffer
        /\ d.write_queue = c.write_queue /\ d.read_queue = c.read_queue
    BY <1>1 DEF Write, StartWrite, Connections, Writing
  <2> HIDE DEF d
  <2>2. Lone(d)
    BY <1>1, <2>1 DEF Lone, Reading
  <2> QED BY <2>2 DEF d
<1>2. ASSUME c.writing = {r}, c.reading = {}
      PROVE  /\ BytesOf(c, r) = {r}
             /\ Lone(Read(OnWrite(WriteCompleted(c, r, r)), r))
             /\ Lone(OnWriteError(WriteEnded(c, r)))
  <2>1. c.state = "writing" /\ c.wire = <<>> /\ c.write_queue = <<>>
    BY <1>2 DEF Lone, StateAgrees, Connections, ConnStates, Writing, Reading
  <2>2. BytesOf(c, r) = {r}
    BY <2>1 DEF BytesOf
  <2> DEFINE d0 == WriteCompleted(c, r, r)
             d1 == OnWrite(d0)
             d2 == Read(d1, r)
  <2>3. /\ d0.state = "writing" /\ d0.wire = <<r>> /\ d0.buffer = <<>>
        /\ d0.write_queue = <<>> /\ d0.read_queue = <<>> /\ d0.reading = {}
    <3>1. Append(<<>>, r) = <<r>>
      OBVIOUS
    <3>2. d0.wire = Append(c.wire, r)
      BY DEF WriteCompleted, Connections
    <3> QED BY <1>2, <2>1, <3>1, <3>2 DEF WriteCompleted, Connections, Lone
  <2>t. d0 \in Connections
    BY <1>2, <2>2, WriteCompletedType
  <2> HIDE DEF d0
  <2>4. /\ d1.state = "connected" /\ d1.wire = <<r>> /\ d1.buffer = <<>>
        /\ d1.write_queue = <<>> /\ d1.read_queue = <<>> /\ d1.reading = {}
        /\ d1 \in Connections
    BY <2>3, <2>t, OnWriteType DEF OnWrite, Pop, Writing, Connections
  <2> HIDE DEF d1
  <2>5. /\ d2.state = "reading" /\ d2.wire = <<r>> /\ d2.buffer = <<>>
        /\ d2.write_queue = <<>> /\ d2.read_queue = <<>> /\ d2.reading = {r}
    BY <2>4 DEF Read, StartRead, Connections, Reading
  <2> HIDE DEF d2
  <2>6. Lone(d2)
    BY <2>5 DEF Lone
  <2>7. Lone(OnWriteError(WriteEnded(c, r)))
    BY <1>2, <2>1 DEF Lone, OnWriteError, WriteEnded, Pop, Connections, Writing, Reading
  <2> QED BY <2>2, <2>6, <2>7 DEF d0, d1, d2
<1> QED BY <1>1, <1>2

\* A read that has the connection to itself receives the response to its own
\* request, and leaves nothing behind.
LEMMA LoneRead ==
  ASSUME NEW c \in Connections, NEW r \in Requests, Lone(c), StateAgrees(c),
         c.reading = {r}, c.writing = {}
  PROVE  /\ NextResponse(c) = r
         /\ \A ahead \in ReadAhead(c) : Lone(OnRead(ReadCompleted(c, r, ahead)))
         /\ Lone(OnReadError(ReadEnded(c, r)))
<1>1. c.state = "reading" /\ c.wire = <<r>> /\ c.read_queue = <<>> /\ c.buffer = <<>>
  BY DEF Lone, StateAgrees, Connections, ConnStates, Writing, Reading
<1>2. NextResponse(c) = r
  <2>1. <<>> \o <<r>> = <<r>>
    OBVIOUS
  <2> QED BY <1>1, <2>1 DEF NextResponse
<1>3. ASSUME NEW ahead \in ReadAhead(c) PROVE Lone(OnRead(ReadCompleted(c, r, ahead)))
  <2>1. ahead = 0
    BY <1>1 DEF ReadAhead
  <2> DEFINE d == ReadCompleted(c, r, ahead)
  <2>2. SubSeq(<<r>>, 2, 1) = <<>>
    OBVIOUS
  <2>t. d \in Connections
    BY <1>1, <1>2, ReadCompletedType DEF HasResponse
  <2>3. /\ d.state = "reading" /\ d.wire = <<>> /\ d.buffer = <<>>
        /\ d.write_queue = <<>> /\ d.read_queue = <<>>
    <3>1. Len(<<r>>) = 1
      OBVIOUS
    <3>2. d.wire = SubSeq(<<r>>, 2, 1) /\ d.buffer = SubSeq(<<r>>, 2, 1)
      BY <1>1, <2>1, <3>1 DEF ReadCompleted, Connections
    <3> QED BY <1>1, <2>2, <3>2 DEF ReadCompleted, Connections, Lone
  <2> HIDE DEF d
  <2> DEFINE d1 == OnRead(d)
  <2>4. /\ d1.state = "connected" /\ d1.wire = <<>> /\ d1.buffer = <<>>
        /\ d1.write_queue = <<>> /\ d1.read_queue = <<>>
    BY <2>3, <2>t DEF OnRead, Pop, Reading, Connections
  <2> HIDE DEF d1
  <2>5. Lone(d1)
    BY <2>4 DEF Lone, Reading
  <2> QED BY <2>5 DEF d, d1
<1>4. Lone(OnReadError(ReadEnded(c, r)))
  BY <1>1 DEF Lone, OnReadError, ReadEnded, Pop, Connections, Reading
<1> QED BY <1>2, <1>3, <1>4

-----------------------------------------------------------------------------
(* The dispatcher. *)

\* Completing a request changes its outcome, and its reply, within their type.
LEMMA OutcomeType ==
  ASSUME TypeOK, NEW r \in Requests, NEW o \in Outcomes,
         NEW response \in Requests \cup {Garbled}
  PROVE  /\ [outcome EXCEPT ![r] = o] \in [Requests -> Outcomes]
         /\ [reply EXCEPT ![r] = response] \in [Requests -> Requests \cup {Garbled, None}]
BY DEF TypeOK

\* Taking the handler at the head of the loop's queue keeps the types of what
\* every handler leaves alone.
LEMMA TakeHandlerType ==
  ASSUME TypeOK, NEW r, NEW e, TakeHandler(r, e)
  PROVE  /\ r \in Requests /\ e \in Endpoints
         /\ posted' \in Seq(Requests)
         /\ outcome' \in [Requests -> Outcomes]
         /\ reply' \in [Requests -> Requests \cup {Garbled, None}]
<1>1. r \in Requests
  BY DEF TypeOK, TakeHandler
<1>2. e \in Endpoints
  BY <1>1, EndpointAssumption DEF TakeHandler
<1>3. posted' \in Seq(Requests)
  BY DEF TypeOK, TakeHandler
<1> QED BY <1>1, <1>2, <1>3 DEF TypeOK, TakeHandler

\* The connections of all endpoints are connections whose state agrees with
\* their operations: the inductive invariant of the dispatcher.
IInv == TypeOK /\ StateMatchesOperations

\* An action that replaces one connection by an agreeing one keeps all agreeing.
LEMMA OneConnection ==
  ASSUME IInv, NEW e \in Endpoints, NEW d \in Connections, StateAgrees(d),
         conn' = [conn EXCEPT ![e] = d]
  PROVE  conn' \in [Endpoints -> Connections] /\ StateMatchesOperations'
BY DEF IInv, TypeOK, StateMatchesOperations

\* The initial state satisfies the invariant.
LEMMA InitIInv == Init => IInv
<1> SUFFICES ASSUME Init PROVE IInv
  OBVIOUS
<1>1. conn \in [Endpoints -> Connections]
  BY NewType DEF Init
<1>2. \A e \in Endpoints : StateAgrees(conn[e])
  BY NewAgrees DEF Init
<1>3. /\ posted \in Seq(Requests)
      /\ pool \in SUBSET Endpoints
      /\ aborted \in BOOLEAN
  <2>1. posted = <<>> /\ pool = {} /\ aborted = FALSE
    BY DEF Init
  <2>2. posted \in Seq(Requests)
    BY <2>1
  <2> QED BY <2>1, <2>2
<1>4. outcome \in [Requests -> Outcomes]
  BY DEF Init, Outcomes
<1>5. reply \in [Requests -> Requests \cup {Garbled, None}]
  BY DEF Init
<1> QED BY <1>1, <1>2, <1>3, <1>4, <1>5 DEF IInv, TypeOK, StateMatchesOperations

\* Every step of the dispatcher keeps the invariant.
LEMMA NextIInv == IInv /\ [Next]_vars => IInv'
<1> SUFFICES ASSUME IInv, [Next]_vars PROVE IInv'
  OBVIOUS
<1>t. TypeOK /\ \A e \in Endpoints : conn[e] \in Connections /\ StateAgrees(conn[e])
  BY DEF IInv, TypeOK, StateMatchesOperations
<1>s. ASSUME posted' \in Seq(Requests), pool' \in SUBSET Endpoints,
             conn' \in [Endpoints -> Connections] /\ StateMatchesOperations',
             outcome' \in [Requests -> Outcomes],
             reply' \in [Requests -> Requests \cup {Garbled, None}],
             aborted' \in BOOLEAN
      PROVE  IInv'
  BY <1>s DEF IInv, TypeOK
<1>c. ASSUME UNCHANGED conn
      PROVE  conn' \in [Endpoints -> Connections] /\ StateMatchesOperations'
  BY <1>c DEF IInv, TypeOK, StateMatchesOperations
<1>k. ASSUME Keep
      PROVE  posted' \in Seq(Requests) /\ pool' \in SUBSET Endpoints /\ aborted' \in BOOLEAN
  BY <1>k, <1>t DEF Keep, TypeOK
<1>u. ASSUME UNCHANGED <<outcome, reply>>
      PROVE  /\ outcome' \in [Requests -> Outcomes]
             /\ reply' \in [Requests -> Requests \cup {Garbled, None}]
  BY <1>u, <1>t DEF TypeOK
<1>d. ASSUME NEW r \in Requests, EmitDropped(r)
      PROVE  /\ outcome' \in [Requests -> Outcomes]
             /\ reply' \in [Requests -> Requests \cup {Garbled, None}]
  BY <1>d, <1>t DEF EmitDropped, TypeOK, Outcomes
<1>1. ASSUME NEW r \in Requests, OnMessage(r) PROVE IInv'
  <2>1. posted' \in Seq(Requests)
    BY <1>1, <1>t, AppendType DEF OnMessage, TypeOK
  <2>2. outcome' \in [Requests -> Outcomes]
    BY <1>1, <1>t DEF OnMessage, TypeOK, Outcomes
  <2>3. UNCHANGED <<pool, conn, reply, aborted>>
    BY <1>1 DEF OnMessage
  <2> QED BY <2>1, <2>2, <2>3, <1>t, <1>c, <1>s DEF TypeOK
<1>2. ASSUME NEW r \in Requests, NEW e \in Endpoints, Handle(r, e) PROVE IInv'
  <2>1. CASE HandleNewEndpoint(r, e)
    <3>1. conn' = [conn EXCEPT ![e] = Resolve(NewConnection, r)]
      BY <2>1 DEF HandleNewEndpoint
    <3>2. conn' \in [Endpoints -> Connections] /\ StateMatchesOperations'
      BY <3>1, NewType, NewAgrees, OneConnection
    <3>3. pool' \in SUBSET Endpoints /\ aborted' \in BOOLEAN
      BY <2>1, <1>t DEF HandleNewEndpoint, TypeOK
    <3> QED BY <2>1, <3>2, <3>3, <1>t, <1>s, TakeHandlerType DEF HandleNewEndpoint
  <2>2. CASE HandleUsable(r, e)
    <3>1. conn' = [conn EXCEPT ![e] = Write(conn[e], r)]
      BY <2>2 DEF HandleUsable
    <3>2. conn' \in [Endpoints -> Connections] /\ StateMatchesOperations'
      BY <3>1, <1>t, WriteType, WriteAgrees, OneConnection
    <3>3. pool' \in SUBSET Endpoints /\ aborted' \in BOOLEAN
      BY <2>2, <1>t DEF HandleUsable, TypeOK
    <3> QED BY <2>2, <3>2, <3>3, <1>t, <1>s, TakeHandlerType DEF HandleUsable
  <2>3. CASE HandleReconnect(r, e)
    <3>1. conn' = [conn EXCEPT ![e] = Connect(conn[e], r)] \/ UNCHANGED conn
      BY <2>3 DEF HandleReconnect
    <3>2. conn' \in [Endpoints -> Connections] /\ StateMatchesOperations'
      BY <3>1, <1>t, <1>c, DialType, DialAgrees, OneConnection
    <3>3. pool' \in SUBSET Endpoints /\ aborted' \in BOOLEAN
      BY <2>3, <1>t DEF HandleReconnect, TypeOK
    <3> QED BY <2>3, <3>2, <3>3, <1>t, <1>s, TakeHandlerType DEF HandleReconnect
  <2>4. CASE HandleUnusable(r, e)
    <3>1. UNCHANGED <<pool, conn, aborted>>
      BY <2>4 DEF HandleUnusable
    <3> QED BY <2>4, <3>1, <1>t, <1>c, <1>s, TakeHandlerType DEF HandleUnusable, TypeOK
  <2> QED BY <1>2, <2>1, <2>2, <2>3, <2>4 DEF Handle
<1>3. ASSUME NEW r \in Requests, NEW e \in Endpoints, Complete(r, e) PROVE IInv'
  <2> DEFINE c == conn[e]
  <2>c. c \in Connections /\ StateAgrees(c)
    BY <1>t
  <2>1. CASE ResolveDone(r, e)
    <3>1. r \in c.resolveFor /\ conn' = [conn EXCEPT ![e] = Connect(OnResolve(c, r), r)]
      BY <2>1 DEF ResolveDone
    <3>2. OnResolve(c, r) \in Connections /\ StateAgrees(OnResolve(c, r))
      BY <2>c, <3>1, DialType, DialAgrees
    <3>3. conn' \in [Endpoints -> Connections] /\ StateMatchesOperations'
      BY <3>1, <3>2, DialType, DialAgrees, OneConnection
    <3> QED BY <2>1, <3>3, <1>k, <1>u, <1>s DEF ResolveDone
  <2>2. CASE ResolveFailed(r, e)
    <3>1. r \in c.resolveFor /\ conn' = [conn EXCEPT ![e] = OnResolveFailed(c, r)]
      BY <2>2 DEF ResolveFailed
    <3>2. conn' \in [Endpoints -> Connections] /\ StateMatchesOperations'
      BY <2>c, <3>1, DialType, DialAgrees, OneConnection
    <3> QED BY <2>2, <3>2, <1>k, <1>d, <1>s DEF ResolveFailed
  <2>3. CASE ConnectDone(r, e)
    <3>1. /\ r \in c.connectFor /\ c.writing \cup c.reading = {}
          /\ conn' = [conn EXCEPT ![e] = Write(OnConnect(c, r), r)]
      BY <2>3 DEF ConnectDone, DialEnds
    <3>2. OnConnect(c, r) \in Connections /\ StateAgrees(OnConnect(c, r))
      BY <2>c, <3>1, DialType, DialAgrees
    <3>3. conn' \in [Endpoints -> Connections] /\ StateMatchesOperations'
      BY <3>1, <3>2, WriteType, WriteAgrees, OneConnection
    <3> QED BY <2>3, <3>3, <1>k, <1>u, <1>s DEF ConnectDone
  <2>4. CASE ConnectFailed(r, e)
    <3>1. /\ r \in c.connectFor /\ c.writing \cup c.reading = {}
          /\ conn' = [conn EXCEPT ![e] = OnConnectFailed(c, r)]
      BY <2>4 DEF ConnectFailed, DialEnds
    <3>2. conn' \in [Endpoints -> Connections] /\ StateMatchesOperations'
      BY <2>c, <3>1, DialType, DialAgrees, OneConnection
    <3> QED BY <2>4, <3>2, <1>k, <1>d, <1>s DEF ConnectFailed
  <2>5. CASE WriteDone(r, e)
    <3>1. PICK bytes \in BytesOf(c, r) :
            conn' = [conn EXCEPT ![e] = Read(OnWrite(WriteCompleted(c, r, bytes)), r)]
      BY <2>5 DEF WriteDone
    <3>2. r \in c.writing
      BY <2>5 DEF WriteDone
    <3> DEFINE d == OnWrite(WriteCompleted(c, r, bytes))
    <3>3. d \in Connections /\ StateAgrees(d)
      BY <2>c, <3>2, WriteCompletedType, OnWriteType, WriteEndAgrees
    <3> HIDE DEF d
    <3>4. Read(d, r) \in Connections /\ StateAgrees(Read(d, r))
      BY <3>3, ReadType, ReadAgrees
    <3>5. conn' \in [Endpoints -> Connections] /\ StateMatchesOperations'
      BY <3>1, <3>4, OneConnection DEF d
    <3> QED BY <2>5, <3>5, <1>k, <1>u, <1>s DEF WriteDone
  <2>6. CASE WriteFailed(r, e)
    <3>1. r \in c.writing /\ conn' = [conn EXCEPT ![e] = OnWriteError(WriteEnded(c, r))]
      BY <2>6 DEF WriteFailed
    <3>2. conn' \in [Endpoints -> Connections] /\ StateMatchesOperations'
      BY <2>c, <3>1, EndedType, OnWriteType, WriteEndAgrees, OneConnection
    <3> QED BY <2>6, <3>2, <1>k, <1>d, <1>s DEF WriteFailed
  <2>7. CASE ReadDone(r, e)
    <3>1. PICK ahead \in ReadAhead(c) :
            conn' = [conn EXCEPT ![e] = OnRead(ReadCompleted(c, r, ahead))]
      BY <2>7 DEF ReadDone
    <3>2. r \in c.reading /\ HasResponse(c) /\ Relay(r, NextResponse(c))
      BY <2>7 DEF ReadDone
    <3>3. NextResponse(c) \in Requests \cup {Garbled}
      BY <2>c, <3>1, <3>2, ReadCompletedType
    <3>4. conn' \in [Endpoints -> Connections] /\ StateMatchesOperations'
      BY <2>c, <3>1, <3>2, ReadCompletedType, OnReadType, ReadEndAgrees, OneConnection
    <3>5. /\ outcome' \in [Requests -> Outcomes]
          /\ reply' \in [Requests -> Requests \cup {Garbled, None}]
      BY <1>t, <3>2, <3>3, OutcomeType DEF Relay, Outcomes
    <3> QED BY <2>7, <3>4, <3>5, <1>k, <1>s DEF ReadDone
  <2>8. CASE ReadFailed(r, e)
    <3>1. r \in c.reading /\ conn' = [conn EXCEPT ![e] = OnReadError(ReadEnded(c, r))]
      BY <2>8 DEF ReadFailed
    <3>2. conn' \in [Endpoints -> Connections] /\ StateMatchesOperations'
      BY <2>c, <3>1, EndedType, OnReadType, ReadErrorAgrees, OneConnection
    <3> QED BY <2>8, <3>2, <1>k, <1>d, <1>s DEF ReadFailed
  <2> QED BY <1>3, <2>1, <2>2, <2>3, <2>4, <2>5, <2>6, <2>7, <2>8 DEF Complete
<1>4. CASE UNCHANGED vars
  BY <1>4, <1>t, <1>c, <1>s DEF vars, TypeOK
<1> QED BY <1>1, <1>2, <1>3, <1>4 DEF Next

-----------------------------------------------------------------------------
\* The dispatcher's state is well typed in every reachable state.
THEOREM TypeCorrect == Spec => []TypeOK
<1>1. IInv => TypeOK
  BY DEF IInv
<1> QED BY InitIInv, NextIInv, <1>1, PTL DEF Spec

\* In every reachable state, for any number of requests and endpoints and
\* whatever operations fail, each connection's state agrees with its
\* asynchronous operations: none waits for a completion that cannot come.
THEOREM StatesMatch == Spec => []StateMatchesOperations
<1>1. IInv => StateMatchesOperations
  BY DEF IInv
<1> QED BY InitIInv, NextIInv, <1>1, PTL DEF Spec

-----------------------------------------------------------------------------
(* Ownership: each continuation has one holder until it has been run.      *)

\* A request is posted at most once, is held by its endpoint's connection only,
\* never both at once, and is alive only between its arrival and its outcome.
OwnedOnce == /\ IsInjective(posted)
             /\ \A e \in Endpoints : Range(posted) \cap Held(conn[e]) = {}

HeldAtHome == \A e \in Endpoints :
                Orderly(conn[e]) /\ \A r \in Held(conn[e]) : EndpointOf[r] = e

AliveWhilePending == \A r \in Requests :
  /\ outcome[r] = "idle" =>
       r \notin Range(posted) /\ \A e \in Endpoints : r \notin Held(conn[e])
  /\ outcome[r] \in {"answered", "dropped"} =>
       r \notin Range(posted) /\ \A e \in Endpoints : r \notin Alive(conn[e])

OwnerInv == OwnedOnce /\ HeldAtHome /\ AliveWhilePending

\* What is alive in an orderly connection is held by it.
LEMMA AliveIsHeld ==
  ASSUME NEW c, Orderly(c)
  PROVE  Alive(c) \subseteq Held(c)
BY DEF Alive, Held, Orderly, OrderlyUse

\* Nothing is posted, held or alive at first.
LEMMA InitOwner == Init => OwnerInv
<1> SUFFICES ASSUME Init PROVE OwnerInv
  OBVIOUS
<1>1. posted = <<>> /\ Range(<<>>) = {} /\ IsInjective(<<>>)
  BY DEF Init, Range, IsInjective
<1>2. \A e \in Endpoints : /\ Orderly(conn[e])
                           /\ Held(conn[e]) = {} /\ Alive(conn[e]) = {}
  BY NewOwns DEF Init
<1> QED BY <1>1, <1>2 DEF OwnerInv, OwnedOnce, HeldAtHome, AliveWhilePending

\* A handler passes its request from the loop's queue to the connection of the
\* request's endpoint, or to nobody.
LEMMA HandlerOwns ==
  ASSUME TypeOK, OwnerInv, NEW r \in Requests, NEW e \in Endpoints, TakeHandler(r, e), NEW d,
         Orderly(d), Held(d) \subseteq Held(conn[e]) \cup {r}, Alive(d) \subseteq Alive(conn[e]) \cup {r},
         conn' = [conn EXCEPT ![e] = d]
  PROVE  OwnerInv'
<1>1. /\ r \in Range(posted) /\ EndpointOf[r] = e /\ UNCHANGED outcome
      /\ IsInjective(posted') /\ Range(posted') \subseteq Range(posted) \ {r}
  <2>1. posted \in Seq(Requests) /\ posted # <<>> /\ posted' = Tail(posted) /\ r = Head(posted)
    BY DEF TypeOK, TakeHandler
  <2>2. /\ Len(posted) \in Nat \ {0} /\ DOMAIN posted = 1 .. Len(posted) /\ r = posted[1]
        /\ DOMAIN posted' = 1 .. Len(posted) - 1
        /\ \A i \in 1 .. Len(posted) - 1 : posted'[i] = posted[i + 1]
    BY <2>1
  <2>3. \A i \in DOMAIN posted' : i \in Int /\ i + 1 \in DOMAIN posted /\ i + 1 # 1
                                  /\ posted'[i] = posted[i + 1]
    BY <2>2
  <2>4. IsInjective(posted)
    BY DEF OwnerInv, OwnedOnce
  <2>5. \A i, j \in DOMAIN posted' : posted'[i] = posted'[j] => i + 1 = j + 1
    BY <2>3, <2>4 DEF IsInjective
  <2>6. IsInjective(posted')
    BY <2>3, <2>5 DEF IsInjective
  <2>7. 1 \in DOMAIN posted
    BY <2>2
  <2>8. \A i \in DOMAIN posted' : posted'[i] # r /\ posted'[i] \in Range(posted)
    BY <2>2, <2>3, <2>4, <2>7 DEF IsInjective, Range
  <2> QED BY <2>2, <2>6, <2>7, <2>8 DEF Range, TakeHandler
<1>2. \A f \in Endpoints : conn'[f] = IF f = e THEN d ELSE conn[f]
  BY DEF TypeOK
<1>3. OwnedOnce'
  BY <1>1, <1>2 DEF OwnerInv, OwnedOnce
<1>4. HeldAtHome'
  BY <1>1, <1>2 DEF OwnerInv, HeldAtHome
<1>5. AliveWhilePending'
  <2>1. outcome[r] \notin {"idle", "answered", "dropped"}
    BY <1>1 DEF OwnerInv, AliveWhilePending
  <2> QED BY <1>1, <1>2, <2>1 DEF OwnerInv, AliveWhilePending
<1> QED BY <1>3, <1>4, <1>5 DEF OwnerInv

\* A completion moves its request on, or ends it.
LEMMA CompletionOwns ==
  ASSUME TypeOK, OwnerInv, NEW r \in Requests, NEW e \in Endpoints, r \in Alive(conn[e]), NEW d,
         Orderly(d), Held(d) \subseteq Held(conn[e]), Alive(d) \subseteq Alive(conn[e]),
         conn' = [conn EXCEPT ![e] = d], UNCHANGED posted,
         \/ UNCHANGED outcome
         \/ r \notin Alive(d) /\ \E o \in {"answered", "dropped"} : outcome' = [outcome EXCEPT ![r] = o]
  PROVE  OwnerInv'
<1>1. r \in Held(conn[e]) /\ r \notin Range(posted) /\ EndpointOf[r] = e
  BY AliveIsHeld DEF OwnerInv, OwnedOnce, HeldAtHome
<1>2. \A f \in Endpoints : conn'[f] = IF f = e THEN d ELSE conn[f]
  BY DEF TypeOK
<1>3. OwnedOnce' /\ HeldAtHome'
  BY <1>1, <1>2 DEF OwnerInv, OwnedOnce, HeldAtHome
<1>4. AliveWhilePending'
  <2>1. CASE UNCHANGED outcome
    BY <2>1, <1>2 DEF OwnerInv, AliveWhilePending
  <2>2. ASSUME r \notin Alive(d), NEW o \in {"answered", "dropped"},
               outcome' = [outcome EXCEPT ![r] = o]
        PROVE  AliveWhilePending'
    <3>1. \A f \in Endpoints : r \notin Alive(conn'[f])
      BY <2>2, <1>1, <1>2, AliveIsHeld DEF OwnerInv, HeldAtHome
    <3>2. \A s \in Requests : outcome'[s] = IF s = r THEN o ELSE outcome[s]
      BY <2>2 DEF TypeOK
    <3> QED BY <3>1, <3>2, <1>1, <1>2 DEF OwnerInv, AliveWhilePending
  <2> QED BY <2>1, <2>2
<1> QED BY <1>3, <1>4 DEF OwnerInv

\* Every step keeps the ownership of every request.
LEMMA NextOwner == TypeOK /\ OwnerInv /\ [Next]_vars => OwnerInv'
<1> SUFFICES ASSUME TypeOK, OwnerInv, [Next]_vars PROVE OwnerInv'
  OBVIOUS
<1>t. \A e \in Endpoints : conn[e] \in Connections /\ Orderly(conn[e])
  BY DEF TypeOK, OwnerInv, HeldAtHome
<1>1. ASSUME NEW r \in Requests, OnMessage(r) PROVE OwnerInv'
  <2>1. /\ outcome[r] = "idle" /\ outcome' = [outcome EXCEPT ![r] = "pending"]
        /\ posted' = Append(posted, r) /\ UNCHANGED conn
    BY <1>1 DEF OnMessage
  <2>2. r \notin Range(posted) /\ \A e \in Endpoints : r \notin Held(conn[e])
    BY <2>1 DEF OwnerInv, AliveWhilePending
  <2>3. IsInjective(posted') /\ Range(posted') = Range(posted) \cup {r}
    BY <2>1, <2>2, AppendKeeps DEF OwnerInv, OwnedOnce, TypeOK, FreshTail
  <2>4. OwnedOnce' /\ HeldAtHome'
    BY <2>1, <2>2, <2>3 DEF OwnerInv, OwnedOnce, HeldAtHome
  <2>5. \A s \in Requests : outcome'[s] = IF s = r THEN "pending" ELSE outcome[s]
    BY <2>1 DEF TypeOK
  <2>6. AliveWhilePending'
    BY <2>1, <2>3, <2>5 DEF OwnerInv, AliveWhilePending
  <2> QED BY <2>4, <2>6 DEF OwnerInv
<1>2. ASSUME NEW r \in Requests, NEW e \in Endpoints, Handle(r, e) PROVE OwnerInv'
  <2>0. TakeHandler(r, e)
    BY <1>2 DEF Handle, HandleNewEndpoint, HandleUsable, HandleReconnect, HandleUnusable
  <2>r. r \notin Held(conn[e])
    <3>1. r \in Range(posted)
      <4>1. posted \in Seq(Requests) /\ posted # <<>> /\ r = Head(posted)
        BY <2>0 DEF TypeOK, TakeHandler
      <4>2. 1 \in DOMAIN posted /\ r = posted[1]
        BY <4>1
      <4> QED BY <4>2 DEF Range
    <3> QED BY <3>1 DEF OwnerInv, OwnedOnce
  <2>1. CASE HandleNewEndpoint(r, e)
    <3>1. conn' = [conn EXCEPT ![e] = Resolve(NewConnection, r)]
      BY <2>1 DEF HandleNewEndpoint
    <3> QED BY <3>1, <2>0, NewOwns, HandlerOwns
  <2>2. CASE HandleUsable(r, e)
    <3>1. conn' = [conn EXCEPT ![e] = Write(conn[e], r)]
      BY <2>2 DEF HandleUsable
    <3> QED BY <3>1, <2>0, <2>r, <1>t, WriteOwns, HandlerOwns
  <2>3. CASE conn' = [conn EXCEPT ![e] = Connect(conn[e], r)]
    <3> DEFINE d == Connect(conn[e], r)
    <3>1. /\ Orderly(d) /\ Held(d) \subseteq Held(conn[e]) \cup {r}
          /\ Alive(d) \subseteq Alive(conn[e]) \cup {r}
      BY <2>r, <1>t, DialOwns
    <3> HIDE DEF d
    <3>2. conn' = [conn EXCEPT ![e] = d]
      BY <2>3 DEF d
    <3> QED BY <3>1, <3>2, <2>0, HandlerOwns
  <2>4. CASE UNCHANGED conn
    <3>1. conn' = [conn EXCEPT ![e] = conn[e]]
      BY <2>4 DEF TypeOK
    <3> QED BY <3>1, <2>0, <1>t, HandlerOwns
  <2> QED BY <1>2, <2>1, <2>2, <2>3, <2>4 DEF Handle, HandleReconnect, HandleUnusable
<1>3. ASSUME NEW r \in Requests, NEW e \in Endpoints, Complete(r, e) PROVE OwnerInv'
  <2> DEFINE c == conn[e]
  <2>c. c \in Connections /\ Orderly(c)
    BY <1>t
  <2>d. ASSUME EmitDropped(r)
        PROVE  \E o \in {"answered", "dropped"} : outcome' = [outcome EXCEPT ![r] = o]
    BY <2>d DEF EmitDropped
  <2>1. CASE ResolveDone(r, e)
    <3> DEFINE d0 == OnResolve(c, r)
               d == Connect(d0, r)
    <3>1. /\ r \in c.resolveFor /\ conn' = [conn EXCEPT ![e] = d]
          /\ UNCHANGED <<posted, outcome>>
      BY <2>1 DEF ResolveDone, Keep
    <3>2. /\ d0 \in Connections /\ Orderly(d0) /\ Held(d0) \subseteq Held(c) \ {r}
          /\ Alive(d0) \subseteq Alive(c) \ {r}
      BY <2>c, <3>1, DialType, DialOwns
    <3> HIDE DEF d0
    <3>3. Orderly(d) /\ Held(d) \subseteq Held(c) \cup {r} /\ Alive(d) \subseteq Alive(c) \cup {r}
      BY <3>2, DialOwns
    <3>4. r \in Alive(c) /\ r \in Held(c)
      BY <3>1 DEF Alive, Held
    <3> QED BY <3>1, <3>3, <3>4, CompletionOwns
  <2>2. CASE ResolveFailed(r, e)
    <3> DEFINE d == OnResolveFailed(c, r)
    <3>1. /\ r \in c.resolveFor /\ conn' = [conn EXCEPT ![e] = d]
          /\ UNCHANGED posted /\ EmitDropped(r)
      BY <2>2 DEF ResolveFailed, Keep
    <3>2. /\ Orderly(d) /\ Held(d) \subseteq Held(c) \ {r} /\ Alive(d) \subseteq Alive(c) \ {r}
      BY <2>c, <3>1, DialOwns
    <3>3. r \in Alive(c)
      BY <3>1 DEF Alive
    <3> QED BY <3>1, <3>2, <3>3, <2>d, CompletionOwns
  <2>3. CASE ConnectDone(r, e)
    <3> DEFINE d0 == OnConnect(c, r)
               d == Write(d0, r)
    <3>1. /\ r \in c.connectFor /\ conn' = [conn EXCEPT ![e] = d]
          /\ UNCHANGED <<posted, outcome>>
      BY <2>3 DEF ConnectDone, DialEnds, Keep
    <3>2. /\ d0 \in Connections /\ Orderly(d0) /\ Held(d0) \subseteq Held(c) \ {r}
          /\ Alive(d0) \subseteq Alive(c) \ {r}
      BY <2>c, <3>1, DialType, DialOwns
    <3> HIDE DEF d0
    <3>3. Orderly(d) /\ Held(d) \subseteq Held(c) \cup {r} /\ Alive(d) \subseteq Alive(c) \cup {r}
      BY <3>2, WriteOwns
    <3>4. r \in Alive(c) /\ r \in Held(c)
      BY <3>1 DEF Alive, Held
    <3> QED BY <3>1, <3>3, <3>4, CompletionOwns
  <2>4. CASE ConnectFailed(r, e)
    <3> DEFINE d == OnConnectFailed(c, r)
    <3>1. /\ r \in c.connectFor /\ conn' = [conn EXCEPT ![e] = d]
          /\ UNCHANGED posted /\ EmitDropped(r)
      BY <2>4 DEF ConnectFailed, DialEnds, Keep
    <3>2. /\ Orderly(d) /\ Held(d) \subseteq Held(c) \ {r} /\ Alive(d) \subseteq Alive(c) \ {r}
      BY <2>c, <3>1, DialOwns
    <3>3. r \in Alive(c)
      BY <3>1 DEF Alive
    <3> QED BY <3>1, <3>2, <3>3, <2>d, CompletionOwns
  <2>5. CASE WriteDone(r, e)
    <3>1. PICK bytes \in BytesOf(c, r) :
            conn' = [conn EXCEPT ![e] = Read(OnWrite(WriteCompleted(c, r, bytes)), r)]
      BY <2>5 DEF WriteDone
    <3>2. r \in c.writing /\ UNCHANGED <<posted, outcome>>
      BY <2>5 DEF WriteDone, Keep
    <3> DEFINE d0 == WriteCompleted(c, r, bytes)
               d1 == OnWrite(d0)
               d == Read(d1, r)
    <3>3. /\ d0 \in Connections /\ Orderly(d0) /\ Held(d0) \subseteq Held(c)
          /\ Alive(d0) \subseteq Alive(c) \ {r} /\ ReadyToRead(d0, r)
      BY <2>c, <3>2, WriteCompletedType, WriteEndOwns
    <3> HIDE DEF d0
    <3>4. /\ d1 \in Connections /\ Orderly(d1) /\ Held(d1) \subseteq Held(d0)
          /\ Alive(d1) \subseteq Alive(d0) /\ ReadyToRead(d1, r)
      BY <3>3, OnWriteType, OnWriteOwns
    <3> HIDE DEF d1
    <3>5. Orderly(d) /\ Held(d) \subseteq Held(d1) /\ Alive(d) \subseteq Alive(d1) \cup {r}
      BY <3>4, ReadOwns
    <3>6. r \in Alive(c) /\ conn' = [conn EXCEPT ![e] = d]
      BY <3>1, <3>2 DEF Alive, d0, d1
    <3> HIDE DEF d
    <3>7. Held(d) \subseteq Held(c) /\ Alive(d) \subseteq Alive(c)
      BY <3>3, <3>4, <3>5, <3>6
    <3> QED BY <3>2, <3>5, <3>6, <3>7, CompletionOwns
  <2>6. CASE WriteFailed(r, e)
    <3> DEFINE d0 == WriteEnded(c, r)
               d == OnWriteError(d0)
    <3>1. /\ r \in c.writing /\ conn' = [conn EXCEPT ![e] = d]
          /\ UNCHANGED posted /\ EmitDropped(r)
      BY <2>6 DEF WriteFailed, Keep
    <3>2. /\ d0 \in Connections /\ Orderly(d0) /\ Held(d0) \subseteq Held(c)
          /\ Alive(d0) \subseteq Alive(c) \ {r}
      BY <2>c, <3>1, EndedType, WriteEndOwns
    <3> HIDE DEF d0
    <3>3. Orderly(d) /\ Held(d) \subseteq Held(d0) /\ Alive(d) \subseteq Alive(d0)
      BY <3>2, OnWriteOwns
    <3> HIDE DEF d
    <3>4. r \in Alive(c) /\ Held(d) \subseteq Held(c) /\ Alive(d) \subseteq Alive(c) \ {r}
      BY <3>1, <3>2, <3>3 DEF Alive
    <3> QED BY <3>1, <3>3, <3>4, <2>d, CompletionOwns
  <2>7. CASE ReadDone(r, e)
    <3>1. PICK ahead \in ReadAhead(c) :
            conn' = [conn EXCEPT ![e] = OnRead(ReadCompleted(c, r, ahead))]
      BY <2>7 DEF ReadDone
    <3>2. /\ r \in c.reading /\ HasResponse(c) /\ UNCHANGED posted
          /\ outcome' = [outcome EXCEPT ![r] = "answered"]
      BY <2>7 DEF ReadDone, Relay, Keep
    <3> DEFINE d0 == ReadCompleted(c, r, ahead)
               d == OnRead(d0)
    <3>3. /\ d0 \in Connections /\ Orderly(d0) /\ Held(d0) \subseteq Held(c)
          /\ Alive(d0) \subseteq Alive(c) \ {r}
      BY <2>c, <3>2, ReadCompletedType, ReadEndOwns
    <3> HIDE DEF d0
    <3>4. Orderly(d) /\ Held(d) \subseteq Held(d0) /\ Alive(d) \subseteq Alive(d0)
      BY <3>3, OnReadOwns
    <3>5. r \in Alive(c) /\ conn' = [conn EXCEPT ![e] = d]
      BY <3>1, <3>2 DEF Alive, d0
    <3> HIDE DEF d
    <3>6. Held(d) \subseteq Held(c) /\ Alive(d) \subseteq Alive(c) \ {r}
      BY <3>3, <3>4
    <3> QED BY <3>2, <3>4, <3>5, <3>6, CompletionOwns
  <2>8. CASE ReadFailed(r, e)
    <3> DEFINE d0 == ReadEnded(c, r)
               d == OnReadError(d0)
    <3>1. /\ r \in c.reading /\ conn' = [conn EXCEPT ![e] = d]
          /\ UNCHANGED posted /\ EmitDropped(r)
      BY <2>8 DEF ReadFailed, Keep
    <3>2. /\ d0 \in Connections /\ Orderly(d0) /\ Held(d0) \subseteq Held(c)
          /\ Alive(d0) \subseteq Alive(c) \ {r}
      BY <2>c, <3>1, EndedType, ReadEndOwns
    <3> HIDE DEF d0
    <3>3. Orderly(d) /\ Held(d) \subseteq Held(d0) /\ Alive(d) \subseteq Alive(d0)
      BY <3>2, OnReadOwns
    <3> HIDE DEF d
    <3>4. r \in Alive(c) /\ Held(d) \subseteq Held(c) /\ Alive(d) \subseteq Alive(c) \ {r}
      BY <3>1, <3>2, <3>3 DEF Alive
    <3> QED BY <3>1, <3>3, <3>4, <2>d, CompletionOwns
  <2> QED BY <1>3, <2>1, <2>2, <2>3, <2>4, <2>5, <2>6, <2>7, <2>8 DEF Complete
<1>4. CASE UNCHANGED vars
  BY <1>4 DEF vars, OwnerInv, OwnedOnce, HeldAtHome, AliveWhilePending
<1> QED BY <1>1, <1>2, <1>3, <1>4 DEF Next

\* What a completion may change: the outcome of a request that is alive.
LEMMA OnlyTheLiving ==
  ASSUME TypeOK, [Next]_vars, NEW r \in Requests,
         outcome[r] # "idle", <<outcome[r], reply[r]>>' # <<outcome[r], reply[r]>>
  PROVE  \E e \in Endpoints : r \in Alive(conn[e])
<1>1. ASSUME NEW s \in Requests, OnMessage(s) PROVE FALSE
  BY <1>1 DEF OnMessage, TypeOK
<1>2. ASSUME NEW s \in Requests, NEW e \in Endpoints, Handle(s, e) PROVE FALSE
  BY <1>2 DEF Handle, HandleNewEndpoint, HandleUsable, HandleReconnect, HandleUnusable, TakeHandler
<1>3. ASSUME NEW s \in Requests, NEW e \in Endpoints, Complete(s, e)
      PROVE  s = r /\ s \in Alive(conn[e])
  <2>1. s \in Alive(conn[e])
    BY <1>3 DEF Complete, ResolveDone, ResolveFailed, ConnectDone, ConnectFailed, DialEnds,
                WriteDone, WriteFailed, ReadDone, ReadFailed, Alive
  <2>2. \/ UNCHANGED <<outcome, reply>> \/ EmitDropped(s)
        \/ \E response : Relay(s, response)
    BY <1>3 DEF Complete, ResolveDone, ResolveFailed, ConnectDone, ConnectFailed,
                WriteDone, WriteFailed, ReadDone, ReadFailed
  <2>3. s = r
    BY <2>2 DEF EmitDropped, Relay, TypeOK
  <2> QED BY <2>1, <2>3
<1>4. CASE UNCHANGED vars
  BY <1>4 DEF vars
<1> QED BY <1>1, <1>2, <1>3, <1>4 DEF Next

\* A queue without duplicates holds a request at one place only.
LEMMA OnePlace ==
  ASSUME NEW q, IsInjective(q), NEW r, NEW i \in DOMAIN q, NEW j \in DOMAIN q, q[i] = r, q[j] = r
  PROVE  i = j /\ r \in Range(q)
BY DEF IsInjective, Range

\* Ownership means that a request has at most one owner.
LEMMA OwnedHasOneOwner == TypeOK /\ OwnerInv => OneOwner
<1> SUFFICES ASSUME TypeOK, OwnerInv, NEW r \in Requests, NEW o1 \in Owners(r), NEW o2 \in Owners(r)
             PROVE  o1 = o2
  BY DEF OneOwner
<1> DEFINE c == conn[EndpointOf[r]]
<1>c. c \in Connections /\ Orderly(c)
  BY EndpointAssumption DEF TypeOK, OwnerInv, HeldAtHome
<1>f. /\ r \in Range(posted) => r \notin Held(c) /\ outcome[r] \notin {"answered", "dropped"}
      /\ outcome[r] \in {"answered", "dropped"} => r \notin Alive(c)
  BY EndpointAssumption DEF OwnerInv, OwnedOnce, AliveWhilePending
<1> HIDE DEF c
<1> DEFINE At(o, place, q) == \E i \in DOMAIN q : q[i] = r /\ o = <<place, i>>
           In(o, place, set) == r \in set /\ o = <<place, 0>>
           Where(o) == \/ At(o, "posted", posted)
                       \/ In(o, "resolve", c.resolveFor) \/ In(o, "connect", c.connectFor)
                       \/ In(o, "write", c.writing) \/ In(o, "read", c.reading)
                       \/ r \notin c.sent /\ At(o, "write_queue", c.write_queue)
                       \/ r \notin c.fetched /\ At(o, "read_queue", c.read_queue)
                       \/ outcome[r] \in {"answered", "dropped"} /\ o = <<outcome[r], 0>>
<1>1. \A o \in Owners(r) : Where(o)
  <2> DEFINE AtSet(place, q) == {<<place, i>> : i \in {j \in DOMAIN q : q[j] = r}}
             InSet(place, set) == {<<place, 0>> : x \in set \cap {r}}
  <2> SUFFICES ASSUME NEW o \in Owners(r) PROVE Where(o)
    OBVIOUS
  <2>1. \/ o \in AtSet("posted", posted)
        \/ o \in InSet("resolve", c.resolveFor) \/ o \in InSet("connect", c.connectFor)
        \/ o \in InSet("write", c.writing) \/ o \in InSet("read", c.reading)
        \/ r \notin c.sent /\ o \in AtSet("write_queue", c.write_queue)
        \/ r \notin c.fetched /\ o \in AtSet("read_queue", c.read_queue)
        \/ o \in {<<x, 0>> : x \in {outcome[r]} \cap {"answered", "dropped"}}
    <3> HIDE DEF Where
    <3> QED BY DEF Owners, c
  <2>2. ASSUME NEW place, NEW q, o \in AtSet(place, q) PROVE At(o, place, q)
    BY <2>2
  <2>3. ASSUME NEW place, NEW set, o \in InSet(place, set) PROVE In(o, place, set)
    BY <2>3
  <2>4. o \in {<<x, 0>> : x \in {outcome[r]} \cap {"answered", "dropped"}} =>
          outcome[r] \in {"answered", "dropped"} /\ o = <<outcome[r], 0>>
    OBVIOUS
  <2> HIDE DEF AtSet, InSet, At, In
  <2> QED BY <2>1, <2>2, <2>3, <2>4
<1>2. ASSUME NEW place, NEW q, IsInjective(q), At(o1, place, q), At(o2, place, q) PROVE o1 = o2
  BY <1>2, OnePlace
<1>3. ASSUME NEW o, NEW place, NEW q, At(o, place, q) PROVE r \in Range(q)
  BY <1>3 DEF Range
<1>4. IsInjective(posted) /\ IsInjective(c.write_queue) /\ IsInjective(c.read_queue)
  BY <1>c DEF OwnerInv, OwnedOnce, Orderly, OrderlyQueues
<1>5. Where(o1) /\ Where(o2)
  BY <1>1
<1> HIDE DEF At
<1>6. CASE r \in Range(posted)
  <2>1. At(o1, "posted", posted) /\ At(o2, "posted", posted)
    BY <1>3, <1>5, <1>6, <1>f, <1>c DEF Held, Orderly, OrderlyUse
  <2> QED BY <2>1, <1>2, <1>4
<1>7. CASE outcome[r] \in {"answered", "dropped"}
  BY <1>3, <1>5, <1>7, <1>f, <1>c DEF Alive
<1>8. CASE r \notin Range(posted) /\ outcome[r] \notin {"answered", "dropped"}
  <2>1. CASE r \notin c.sent
    BY <2>1, <1>2, <1>3, <1>4, <1>5, <1>8, <1>c DEF Orderly, OrderlyUse, OrderlyDial
  <2>2. CASE r \in c.sent
    BY <2>2, <1>2, <1>3, <1>4, <1>5, <1>8, <1>c DEF Orderly, OrderlyUse, OrderlyDial
  <2> QED BY <2>1, <2>2
<1> QED BY <1>6, <1>7, <1>8

-----------------------------------------------------------------------------
\* In every reachable state a request has at most one owner: no continuation
\* runs twice, so that no request is answered or freed twice.
THEOREM EveryRequestHasOneOwner == Spec => []OneOwner
<1>1. Init => TypeOK /\ IInv /\ OwnerInv
  BY InitIInv, InitOwner DEF IInv
<1>2. IInv /\ OwnerInv /\ [Next]_vars => IInv' /\ OwnerInv'
  BY NextIInv, NextOwner DEF IInv
<1>3. IInv /\ OwnerInv => OneOwner
  BY OwnedHasOneOwner DEF IInv
<1> QED BY <1>1, <1>2, <1>3, PTL DEF Spec

\* A request that has been answered or dropped stays as it is.
THEOREM OutcomesAreFinal == Spec => OutcomeIsFinal
<1> DEFINE Final == \A r \in Requests : outcome[r] \in {"answered", "dropped"} =>
                      outcome'[r] = outcome[r] /\ reply'[r] = reply[r]
<1>1. Init => IInv /\ OwnerInv
  BY InitIInv, InitOwner
<1>2. IInv /\ OwnerInv /\ [Next]_vars => IInv' /\ OwnerInv'
  BY NextIInv, NextOwner DEF IInv
<1>3. IInv /\ OwnerInv /\ [Next]_vars => [Final]_vars
  <2> SUFFICES ASSUME IInv, OwnerInv, [Next]_vars, NEW r \in Requests,
                      outcome[r] \in {"answered", "dropped"}
               PROVE  outcome'[r] = outcome[r] /\ reply'[r] = reply[r]
    OBVIOUS
  <2>1. \A e \in Endpoints : r \notin Alive(conn[e])
    BY DEF OwnerInv, AliveWhilePending
  <2> QED BY <2>1, OnlyTheLiving DEF IInv
<1> QED BY <1>1, <1>2, <1>3, PTL DEF Spec, OutcomeIsFinal

-----------------------------------------------------------------------------
(* While nothing fails, the queues are empty whenever they are not in use. *)

\* The write queue is empty unless the stream has a writer, the read queue
\* unless it has a reader.
Drained(c) == /\ c.state \notin Writing => c.write_queue = <<>>
              /\ c.state \notin Reading => c.read_queue = <<>>

SmoothInv == \A e \in Endpoints : Flawless(e) => Drained(conn[e])

\* The operations that do not report a failure keep the queues drained.
LEMMA OperationsDrain ==
  ASSUME NEW c \in Connections, NEW r \in Requests
  PROVE  /\ Drained(Resolve(NewConnection, r))
         /\ Drained(c) => /\ Drained(Connect(c, r)) /\ Drained(OnResolve(c, r))
                          /\ Drained(OnConnect(c, r))
                          /\ Drained(Write(c, r)) /\ Drained(Read(c, r))
                          /\ Drained(OnWrite(c)) /\ Drained(OnRead(c))
<1> USE DEF Drained, Writing, Reading
<1>1. Drained(Resolve(NewConnection, r))
  BY DEF Resolve, NewConnection
<1>2. ASSUME Drained(c) PROVE Drained(Connect(c, r)) /\ Drained(OnResolve(c, r)) /\ Drained(OnConnect(c, r))
  BY <1>2 DEF Connect, OnResolve, OnConnect, Connections
<1>3. ASSUME Drained(c) PROVE Drained(Write(c, r)) /\ Drained(Read(c, r))
  BY <1>3 DEF Write, StartWrite, Read, StartRead, Connections
<1>4. ASSUME Drained(c) PROVE Drained(OnWrite(c)) /\ Drained(OnRead(c))
  BY <1>4 DEF OnWrite, StartWrite, OnRead, StartRead, Connections, Pop
<1> QED BY <1>1, <1>2, <1>3, <1>4

\* A step without a failure leaves the queues of every flawless connection
\* drained; a connection that was not flawless does not become so.
LEMMA NextSmooth == IInv /\ OwnerInv /\ SmoothInv /\ [Next]_vars => SmoothInv'
<1> SUFFICES ASSUME IInv, OwnerInv, SmoothInv, [Next]_vars, NEW e \in Endpoints, Flawless(e)'
             PROVE  Drained(conn'[e])
  BY DEF SmoothInv
<1>t. TypeOK /\ TypeOK'
  BY NextIInv DEF IInv
<1>f. Flawless(e)
  <2> SUFFICES ASSUME NEW r \in Requests, EndpointOf[r] = e, outcome[r] = "dropped" PROVE FALSE
    BY DEF Flawless
  <2>1. \A f \in Endpoints : r \notin Alive(conn[f])
    BY DEF OwnerInv, AliveWhilePending
  <2>2. outcome'[r] = "dropped"
    BY <2>1, <1>t, OnlyTheLiving
  <2> QED BY <2>2 DEF Flawless
<1>d. Drained(conn[e]) /\ conn[e] \in Connections
  BY <1>f, <1>t DEF SmoothInv, TypeOK
<1>x. ASSUME NEW r \in Requests, NEW f \in Endpoints, EmitDropped(r), r \in Alive(conn[f]),
             \E d : conn' = [conn EXCEPT ![f] = d]
      PROVE  UNCHANGED conn[e]
  <2>1. EndpointOf[r] = f
    BY <1>x, AliveIsHeld DEF OwnerInv, HeldAtHome
  <2>2. outcome'[r] = "dropped"
    BY <1>x, <1>t DEF EmitDropped, TypeOK
  <2>3. f # e
    BY <2>1, <2>2 DEF Flawless
  <2> QED BY <1>x, <2>3, <1>t DEF TypeOK
<1>o. ASSUME NEW f \in Endpoints, NEW d, conn' = [conn EXCEPT ![f] = d],
             f = e /\ Drained(conn[e]) => Drained(d)
      PROVE  Drained(conn'[e])
  BY <1>o, <1>d, <1>t DEF TypeOK
<1>1. ASSUME NEW r \in Requests, OnMessage(r) PROVE Drained(conn'[e])
  BY <1>1, <1>d DEF OnMessage
<1>2. ASSUME NEW r \in Requests, NEW f \in Endpoints, Handle(r, f) PROVE Drained(conn'[e])
  <2>1. CASE HandleNewEndpoint(r, f)
    BY <2>1, <1>d, <1>o, OperationsDrain DEF HandleNewEndpoint
  <2>2. CASE HandleUsable(r, f)
    BY <2>2, <1>d, <1>o, OperationsDrain DEF HandleUsable
  <2>3. CASE HandleReconnect(r, f) \/ HandleUnusable(r, f)
    BY <2>3, <1>d, <1>o, OperationsDrain DEF HandleReconnect, HandleUnusable
  <2> QED BY <1>2, <2>1, <2>2, <2>3 DEF Handle
<1>3. ASSUME NEW r \in Requests, NEW f \in Endpoints, Complete(r, f) PROVE Drained(conn'[e])
  <2>c. conn[f] \in Connections
    BY <1>t DEF TypeOK
  <2>1. CASE ResolveDone(r, f)
    BY <2>1, <2>c, <1>o, DialType, OperationsDrain DEF ResolveDone
  <2>2. CASE ConnectDone(r, f)
    BY <2>2, <2>c, <1>o, DialType, OperationsDrain DEF ConnectDone
  <2>3. CASE WriteDone(r, f)
    <3>1. PICK bytes \in BytesOf(conn[f], r) :
            conn' = [conn EXCEPT ![f] = Read(OnWrite(WriteCompleted(conn[f], r, bytes)), r)]
      BY <2>3 DEF WriteDone
    <3> DEFINE d0 == WriteCompleted(conn[f], r, bytes)
    <3>2. d0 \in Connections /\ OnWrite(d0) \in Connections
      BY <2>3, <2>c, WriteCompletedType, OnWriteType DEF WriteDone
    <3>3. Drained(conn[f]) => Drained(d0)
      BY <2>c DEF WriteCompleted, Drained, Connections
    <3>4. Drained(conn[f]) => Drained(Read(OnWrite(d0), r))
      BY <3>2, <3>3, OperationsDrain
    <3> QED BY <3>1, <3>4, <1>o
  <2>4. CASE ReadDone(r, f)
    <3>1. PICK ahead \in ReadAhead(conn[f]) :
            conn' = [conn EXCEPT ![f] = OnRead(ReadCompleted(conn[f], r, ahead))]
      BY <2>4 DEF ReadDone
    <3> DEFINE d0 == ReadCompleted(conn[f], r, ahead)
    <3>2. d0 \in Connections
      BY <2>4, <2>c, ReadCompletedType DEF ReadDone
    <3>3. Drained(conn[f]) => Drained(d0)
      BY <2>c DEF ReadCompleted, Drained, Connections
    <3>4. Drained(conn[f]) => Drained(OnRead(d0))
      BY <3>2, <3>3, OperationsDrain
    <3> QED BY <3>1, <3>4, <1>o
  <2>5. CASE ResolveFailed(r, f) \/ ConnectFailed(r, f) \/ WriteFailed(r, f) \/ ReadFailed(r, f)
    <3>1. EmitDropped(r) /\ r \in Alive(conn[f]) /\ \E d : conn' = [conn EXCEPT ![f] = d]
      BY <2>5 DEF ResolveFailed, ConnectFailed, DialEnds, WriteFailed, ReadFailed, Alive
    <3> QED BY <3>1, <1>x, <1>d
  <2> QED BY <1>3, <2>1, <2>2, <2>3, <2>4, <2>5 DEF Complete
<1>4. CASE UNCHANGED vars
  BY <1>4, <1>d DEF vars
<1> QED BY <1>1, <1>2, <1>3, <1>4 DEF Next

\* A write starts with nothing waiting, or from the front of the queue.
StartsInOrder(c, d) == \A r \in d.sent \ c.sent :
  d.write_queue = <<>> \/ r = Head(d.write_queue)

\* Which operations start a write, and how.
LEMMA OperationsStartInOrder ==
  ASSUME NEW c \in Connections, NEW r \in Requests
  PROVE  /\ Resolve(NewConnection, r).sent = {}
         /\ \A d \in {Connect(c, r), OnResolve(c, r), OnConnect(c, r), Read(c, r), OnRead(c)} :
              d.sent = c.sent /\ d.write_queue = c.write_queue
         /\ Drained(c) => StartsInOrder(c, Write(c, r))
         /\ StartsInOrder(c, OnWrite(c))
<1>1. Resolve(NewConnection, r).sent = {}
  BY DEF Resolve, NewConnection
<1>2. \A d \in {Connect(c, r), OnResolve(c, r), OnConnect(c, r), Read(c, r), OnRead(c)} :
        d.sent = c.sent /\ d.write_queue = c.write_queue
  <2>1. \A d \in {Connect(c, r), OnResolve(c, r), OnConnect(c, r)} :
          d.sent = c.sent /\ d.write_queue = c.write_queue
    BY DEF Connect, OnResolve, OnConnect, Connections
  <2>2. Read(c, r).sent = c.sent /\ Read(c, r).write_queue = c.write_queue
    BY DEF Read, StartRead, Connections, Reading
  <2>3. OnRead(c).sent = c.sent /\ OnRead(c).write_queue = c.write_queue
    BY DEF OnRead, StartRead, Connections, Reading
  <2> QED BY <2>1, <2>2, <2>3
<1>3. ASSUME Drained(c) PROVE StartsInOrder(c, Write(c, r))
  <2>1. CASE c.state \in Writing
    BY <2>1 DEF StartsInOrder, Write, StartWrite, Connections, Writing
  <2>2. CASE c.state \notin Writing
    <3>1. Write(c, r).write_queue = c.write_queue
      BY <2>2 DEF Write, StartWrite, Connections, Writing
    <3> QED BY <2>2, <3>1, <1>3 DEF StartsInOrder, Drained
  <2> QED BY <2>1, <2>2
<1>4. StartsInOrder(c, OnWrite(c))
  <2> DEFINE queue == Pop(c.write_queue)
  <2> HIDE DEF queue
  <2>1. \/ OnWrite(c).sent = c.sent
        \/ /\ OnWrite(c).sent = c.sent \cup {Head(queue)}
           /\ OnWrite(c).write_queue = queue
    BY DEF OnWrite, StartWrite, Connections, Writing, queue
  <2> QED BY <2>1 DEF StartsInOrder
<1> QED BY <1>1, <1>2, <1>3, <1>4

\* A step that fails nobody starts writes in order.
LEMMA NextStartsInOrder ==
  ASSUME IInv, SmoothInv, OwnerInv, [Next]_vars, NEW e \in Endpoints, Flawless(e)'
  PROVE  StartsInOrder(conn[e], conn'[e])
<1>t. TypeOK /\ TypeOK' /\ conn[e] \in Connections
  BY NextIInv DEF IInv, TypeOK
<1>o. ASSUME NEW f \in Endpoints, NEW d, conn' = [conn EXCEPT ![f] = d],
             f = e => StartsInOrder(conn[e], d)
      PROVE  StartsInOrder(conn[e], conn'[e])
  BY <1>o, <1>t DEF TypeOK, StartsInOrder
<1>d. Drained(conn[e])
  <2>1. \A r \in Requests : outcome[r] = "dropped" => outcome'[r] = "dropped"
    BY <1>t, OnlyTheLiving DEF OwnerInv, AliveWhilePending
  <2> QED BY <2>1 DEF SmoothInv, Flawless
<1>s. UNCHANGED conn => StartsInOrder(conn[e], conn'[e])
  BY DEF StartsInOrder
<1>k. ASSUME NEW d, d.sent = conn[e].sent PROVE StartsInOrder(conn[e], d)
  BY <1>k DEF StartsInOrder
<1>1. ASSUME NEW r \in Requests, OnMessage(r) PROVE StartsInOrder(conn[e], conn'[e])
  BY <1>1, <1>s DEF OnMessage
<1>2. ASSUME NEW r \in Requests, NEW f \in Endpoints, Handle(r, f)
      PROVE  StartsInOrder(conn[e], conn'[e])
  <2>1. CASE HandleNewEndpoint(r, f)
    BY <2>1, <1>t, <1>o, OperationsStartInOrder DEF HandleNewEndpoint, StartsInOrder
  <2>2. CASE HandleUsable(r, f)
    BY <2>2, <1>t, <1>d, <1>o, OperationsStartInOrder DEF HandleUsable
  <2>3. CASE HandleReconnect(r, f) \/ HandleUnusable(r, f)
    BY <2>3, <1>t, <1>o, <1>s, <1>k, OperationsStartInOrder DEF HandleReconnect, HandleUnusable
  <2> QED BY <1>2, <2>1, <2>2, <2>3 DEF Handle
<1>3. ASSUME NEW r \in Requests, NEW f \in Endpoints, Complete(r, f)
      PROVE  StartsInOrder(conn[e], conn'[e])
  <2>c. conn[f] \in Connections
    BY <1>t DEF TypeOK
  <2>1. CASE ResolveDone(r, f)
    <3> DEFINE d == Connect(OnResolve(conn[f], r), r)
    <3>1. conn' = [conn EXCEPT ![f] = d] /\ OnResolve(conn[f], r) \in Connections
      BY <2>1, <2>c, DialType DEF ResolveDone
    <3>2. d.sent = conn[f].sent
      BY <3>1, <2>c, OperationsStartInOrder
    <3> HIDE DEF d
    <3> QED BY <3>1, <3>2, <1>o, <1>k
  <2>2. CASE ConnectDone(r, f)
    <3> DEFINE d0 == OnConnect(conn[f], r)
               d == Write(d0, r)
    <3>1. /\ conn' = [conn EXCEPT ![f] = d] /\ d0 \in Connections
          /\ d0.sent = conn[f].sent
          /\ Drained(conn[f]) => Drained(d0)
      BY <2>2, <2>c, DialType, OperationsDrain, OperationsStartInOrder DEF ConnectDone
    <3> HIDE DEF d0
    <3>2. Drained(d0) => StartsInOrder(d0, d)
      BY <3>1, OperationsStartInOrder
    <3> HIDE DEF d
    <3>4. ASSUME f = e PROVE d0.sent = conn[e].sent /\ StartsInOrder(d0, d)
      BY <3>1, <3>2, <3>4, <1>d
    <3>3. f = e => StartsInOrder(conn[e], d)
      BY <3>4 DEF StartsInOrder
    <3> QED BY <3>1, <3>3, <1>o
  <2>3. CASE WriteDone(r, f)
    <3>1. PICK bytes \in BytesOf(conn[f], r) :
            conn' = [conn EXCEPT ![f] = Read(OnWrite(WriteCompleted(conn[f], r, bytes)), r)]
      BY <2>3 DEF WriteDone
    <3> DEFINE d0 == WriteCompleted(conn[f], r, bytes)
               d1 == OnWrite(d0)
    <3>w. d0.sent = conn[f].sent
      BY <2>c DEF WriteCompleted, Connections
    <3>2. d0 \in Connections /\ d1 \in Connections /\ d0.sent = conn[f].sent
      BY <2>3, <2>c, <3>w, WriteCompletedType, OnWriteType DEF WriteDone
    <3>3. StartsInOrder(d0, d1)
      BY <3>2, OperationsStartInOrder
    <3> HIDE DEF d0, d1
    <3>4. Read(d1, r).sent = d1.sent /\ Read(d1, r).write_queue = d1.write_queue
      BY <3>2, OperationsStartInOrder
    <3>5. StartsInOrder(conn[f], Read(d1, r))
      BY <3>2, <3>3, <3>4 DEF StartsInOrder
    <3> QED BY <3>1, <3>5, <1>o DEF d0, d1
  <2>4. CASE ReadDone(r, f)
    <3>1. PICK ahead \in ReadAhead(conn[f]) :
            conn' = [conn EXCEPT ![f] = OnRead(ReadCompleted(conn[f], r, ahead))]
      BY <2>4 DEF ReadDone
    <3> DEFINE d0 == ReadCompleted(conn[f], r, ahead)
    <3>2. d0 \in Connections /\ d0.sent = conn[f].sent
      BY <2>4, <2>c, ReadCompletedType DEF ReadDone, ReadCompleted, Connections
    <3> HIDE DEF d0
    <3>3. OnRead(d0).sent = conn[f].sent
      BY <2>4, <3>2, OperationsStartInOrder
    <3> QED BY <3>1, <3>3, <1>o, <1>k DEF d0
  <2>5. CASE ResolveFailed(r, f) \/ ConnectFailed(r, f) \/ WriteFailed(r, f) \/ ReadFailed(r, f)
    <3> DEFINE c == conn[f]
    <3>1. \E d \in {OnResolveFailed(c, r), OnConnectFailed(c, r), OnWriteError(WriteEnded(c, r)),
                    OnReadError(ReadEnded(c, r))} : conn' = [conn EXCEPT ![f] = d]
      BY <2>5 DEF ResolveFailed, ConnectFailed, WriteFailed, ReadFailed
    <3>2. \A d \in {OnResolveFailed(c, r), OnConnectFailed(c, r), OnWriteError(WriteEnded(c, r)),
                    OnReadError(ReadEnded(c, r))} : d.sent = c.sent
      BY <2>c DEF OnResolveFailed, OnConnectFailed, OnWriteError, WriteEnded, OnReadError, ReadEnded,
                  Connections
    <3> QED BY <3>1, <3>2, <1>o, <1>k
  <2> QED BY <1>3, <2>1, <2>2, <2>3, <2>4, <2>5 DEF Complete
<1>4. CASE UNCHANGED vars
  BY <1>4, <1>s DEF vars
<1> QED BY <1>1, <1>2, <1>3, <1>4 DEF Next

-----------------------------------------------------------------------------
\* The three invariants together are inductive.
SafetyInv == IInv /\ OwnerInv /\ SmoothInv

LEMMA SafetyHolds == Spec => []SafetyInv
<1>1. Init => SafetyInv
  <2>1. Init => SmoothInv
    BY DEF Init, SmoothInv, NewConnection, Drained
  <2> QED BY <2>1, InitIInv, InitOwner DEF SafetyInv
<1>2. SafetyInv /\ [Next]_vars => SafetyInv'
  BY NextIInv, NextOwner, NextSmooth DEF SafetyInv, IInv
<1> QED BY <1>1, <1>2, PTL DEF Spec

\* As long as no operation of its connection has failed, a connection that is
\* back at `connected' has nothing left in its queues: the request that is
\* popped is always the one whose operation has ended.
THEOREM RestMeansDrained == Spec => []ConnectedMeansDrained
<1>1. SafetyInv => ConnectedMeansDrained
  BY DEF SafetyInv, SmoothInv, Drained, ConnectedMeansDrained, Writing, Reading
<1> QED BY <1>1, SafetyHolds, PTL

\* As long as nothing fails, writes start in the order of the requests: no
\* write overtakes a request that waits in the write queue.
THEOREM WritesKeepOrder == Spec => NoOvertaking
<1> DEFINE Kept == \A e \in Endpoints : Flawless(e)' =>
       \A r \in conn'[e].sent \ conn[e].sent :
         LET queue == conn'[e].write_queue
         IN \/ \A i \in DOMAIN queue : queue[i] \in conn'[e].sent
            \/ r = Head(queue)
<1>1. SafetyInv /\ [Next]_vars => [Kept]_vars
  BY NextStartsInOrder DEF SafetyInv, StartsInOrder
<1> QED BY <1>1, SafetyHolds, PTL DEF Spec, NoOvertaking

-----------------------------------------------------------------------------
(* An endpoint that has one request at a time.                             *)

AtMostOne(e) == \A q, r \in Pending : EndpointOf[q] = e /\ EndpointOf[r] = e => q = r

\* Its only request is either still posted, or all that is alive.
LEMMA SoleOwner ==
  ASSUME TypeOK, OwnerInv, NEW e \in Endpoints, AtMostOne(e), NEW r \in Requests
  PROVE  /\ r \in Range(posted) /\ EndpointOf[r] = e => Alive(conn[e]) = {}
         /\ r \in Alive(conn[e]) => Alive(conn[e]) = {r} /\ EndpointOf[r] = e
<1>1. ASSUME NEW s \in Alive(conn[e]) PROVE s \in Pending /\ EndpointOf[s] = e /\ s \in Held(conn[e])
  <2>1. s \in Requests
    BY <1>1 DEF TypeOK, Connections, Alive, Range
  <2>2. s \in Held(conn[e]) /\ EndpointOf[s] = e
    BY <1>1, AliveIsHeld DEF OwnerInv, HeldAtHome
  <2> QED BY <1>1, <2>1, <2>2 DEF OwnerInv, AliveWhilePending, Pending, TypeOK, Outcomes
<1>2. ASSUME r \in Range(posted) PROVE r \in Pending /\ r \notin Held(conn[e])
  BY <1>2 DEF OwnerInv, OwnedOnce, AliveWhilePending, Pending, TypeOK, Outcomes
<1> QED BY <1>1, <1>2 DEF AtMostOne

\* The process is aborted only over two requests for one endpoint.
LEMMA AbortNeedsTwo ==
  ASSUME TypeOK, OwnerInv, [Next]_vars, aborted' # aborted
  PROVE  \E e \in Endpoints : ~AtMostOne(e)
<1>1. PICK r \in Requests, e \in Endpoints : HandleReconnect(r, e)
  BY DEF Next, OnMessage, Handle, HandleNewEndpoint, HandleUsable, HandleUnusable, Complete, Keep,
         ResolveDone, ResolveFailed, ConnectDone, ConnectFailed, WriteDone, WriteFailed,
         ReadDone, ReadFailed, vars
<1>2. conn[e].writing \cup conn[e].reading # {}
  BY <1>1 DEF HandleReconnect
<1>3. r \in Range(posted) /\ EndpointOf[r] = e
  BY <1>1 DEF HandleReconnect, TakeHandler, TypeOK, Range
<1> QED BY <1>2, <1>3, SoleOwner DEF Alive

\* While an endpoint has one request at a time its connection stays lone, and
\* what is emitted for a request is the response to it.
LEMMA NextLone ==
  ASSUME IInv, OwnerInv, [Next]_vars, NEW e \in Endpoints, AtMostOne(e), Lone(conn[e])
  PROVE  /\ Lone(conn'[e])
         /\ \A r \in Requests : EndpointOf[r] = e => reply'[r] \in {reply[r], r}
<1> DEFINE c == conn[e]
           Goal == /\ Lone(conn'[e])
                   /\ \A r \in Requests : EndpointOf[r] = e => reply'[r] \in {reply[r], r}
<1>t. TypeOK /\ c \in Connections /\ StateAgrees(c) /\ Orderly(c)
  BY DEF IInv, TypeOK, StateMatchesOperations, OwnerInv, HeldAtHome
<1>u. ASSUME UNCHANGED reply, UNCHANGED conn \/ \E d : conn' = [conn EXCEPT ![e] = d] /\ Lone(d)
      PROVE  Goal
  BY <1>u, <1>t DEF TypeOK
<1>1. ASSUME NEW r \in Requests, OnMessage(r) PROVE Goal
  BY <1>1, <1>u DEF OnMessage
<1>2. ASSUME NEW r \in Requests, NEW f \in Endpoints, Handle(r, f) PROVE Goal
  <2>1. /\ r \in Range(posted) /\ EndpointOf[r] = f /\ UNCHANGED reply
    BY <1>2, <1>t DEF Handle, HandleNewEndpoint, HandleUsable, HandleReconnect, HandleUnusable,
                      TakeHandler, TypeOK, Range
  <2>2. \E d : conn' = [conn EXCEPT ![f] = d]
    BY <1>2, <1>t DEF Handle, HandleNewEndpoint, HandleUsable, HandleReconnect, HandleUnusable, TypeOK
  <2>3. CASE f # e
    BY <2>1, <2>2, <2>3, <1>t DEF TypeOK
  <2>4. CASE f = e
    <3>1. Alive(c) = {}
      BY <2>1, <2>4, <1>t, SoleOwner
    <3>2. c.state \notin Writing \cup Reading
      BY <3>1, <1>t DEF StateAgrees, Alive
    <3>3. CASE HandleNewEndpoint(r, f)
      BY <3>3, <2>1, <2>4, <1>t, <1>u, LoneDial DEF HandleNewEndpoint
    <3>4. CASE HandleUsable(r, f)
      BY <3>4, <3>2, <2>1, <2>4, <1>t, <1>u, LoneWrite DEF HandleUsable
    <3>5. CASE HandleReconnect(r, f)
      BY <3>5, <2>1, <2>4, <1>t, <1>u, LoneDial DEF HandleReconnect
    <3>6. CASE HandleUnusable(r, f)
      BY <3>6, <2>1, <2>4, <1>t, <1>u DEF HandleUnusable
    <3> QED BY <1>2, <3>3, <3>4, <3>5, <3>6 DEF Handle
  <2> QED BY <2>3, <2>4
<1>3. ASSUME NEW r \in Requests, NEW f \in Endpoints, Complete(r, f) PROVE Goal
  <2>1. r \in Alive(conn[f]) /\ \E d : conn' = [conn EXCEPT ![f] = d]
    BY <1>3 DEF Complete, ResolveDone, ResolveFailed, ConnectDone, ConnectFailed, DialEnds,
                WriteDone, WriteFailed, ReadDone, ReadFailed, Alive
  <2>2. \A q \in Requests \ {r} : reply'[q] = reply[q]
    BY <1>3, <1>t DEF Complete, ResolveDone, ResolveFailed, ConnectDone, ConnectFailed, WriteDone,
                      WriteFailed, ReadDone, ReadFailed, EmitDropped, Relay, TypeOK
  <2>3. EndpointOf[r] = f
    BY <2>1, AliveIsHeld DEF OwnerInv, HeldAtHome
  <2>4. CASE f # e
    BY <2>1, <2>2, <2>3, <2>4, <1>t DEF TypeOK
  <2>5. CASE f = e
    <3>1. Alive(c) = {r}
      BY <2>1, <2>5, <1>t, SoleOwner
    <3>2. /\ r \in c.writing => c.writing = {r} /\ c.reading = {}
          /\ r \in c.reading => c.reading = {r} /\ c.writing = {}
      BY <3>1, <1>t DEF Alive, Orderly, OrderlyUse
    <3>3. CASE ResolveDone(r, f)
      BY <3>3, <2>5, <1>t, <1>u, LoneDial DEF ResolveDone
    <3>4. CASE ResolveFailed(r, f)
      BY <3>4, <2>5, <1>t, <1>u, LoneDial DEF ResolveFailed, EmitDropped
    <3>5. CASE ConnectDone(r, f)
      BY <3>5, <2>5, <1>t, <1>u, LoneDial DEF ConnectDone, DialEnds
    <3>6. CASE ConnectFailed(r, f)
      BY <3>6, <2>5, <1>t, <1>u, LoneDial DEF ConnectFailed, DialEnds, EmitDropped
    <3>7. CASE WriteDone(r, f)
      <4>1. BytesOf(c, r) = {r} /\ Lone(Read(OnWrite(WriteCompleted(c, r, r)), r))
        BY <3>7, <3>2, <2>5, <1>t, LoneWrite DEF WriteDone
      <4>2. conn' = [conn EXCEPT ![e] = Read(OnWrite(WriteCompleted(c, r, r)), r)]
        BY <3>7, <2>5, <4>1 DEF WriteDone
      <4> QED BY <3>7, <4>1, <4>2, <1>u DEF WriteDone
    <3>8. CASE WriteFailed(r, f)
      BY <3>8, <3>2, <2>5, <1>t, <1>u, LoneWrite DEF WriteFailed, EmitDropped
    <3>9. CASE ReadDone(r, f)
      <4>1. PICK ahead \in ReadAhead(c) : conn' = [conn EXCEPT ![e] = OnRead(ReadCompleted(c, r, ahead))]
        BY <3>9, <2>5 DEF ReadDone
      <4>2. NextResponse(c) = r /\ Lone(OnRead(ReadCompleted(c, r, ahead)))
        BY <3>9, <3>2, <2>5, <1>t, LoneRead DEF ReadDone
      <4>3. reply'[r] = r
        BY <3>9, <4>2, <2>5, <1>t DEF ReadDone, Relay, TypeOK
      <4>4. Lone(conn'[e])
        BY <4>1, <4>2, <1>t DEF TypeOK
      <4> QED BY <4>3, <4>4, <2>2
    <3>10. CASE ReadFailed(r, f)
      BY <3>10, <3>2, <2>5, <1>t, <1>u, LoneRead DEF ReadFailed, EmitDropped
    <3> QED BY <1>3, <3>3, <3>4, <3>5, <3>6, <3>7, <3>8, <3>9, <3>10 DEF Complete
  <2> QED BY <2>4, <2>5
<1>4. CASE UNCHANGED vars
  BY <1>4, <1>u DEF vars
<1> QED BY <1>1, <1>2, <1>3, <1>4 DEF Next
=============================================================================
