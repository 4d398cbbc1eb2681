------------------------------- MODULE TcpServer -------------------------------
(***************************************************************************)
(* TcpServerStage with a DelayStage behind it: requests are read off the   *)
(* sockets, wait in threads of their own, and come back as responses.      *)
(* The io_context runs one handler at a time, in the order in which the    *)
(* operations completed or were posted (`ready').  The message assembler   *)
(* and what turns a request into its response belong to the application:   *)
(* a read brings some whole requests, each request gets one response, and  *)
(* async_write sends a response in pieces, one write of the socket each.   *)
(***************************************************************************)
EXTENDS Naturals, Sequences, FiniteSets

CONSTANTS
  MaxConnections,  \* bound: clients that connect
  MaxRequests,     \* bound: requests in all
  MaxBatch,        \* bound: requests that one read brings
  Pieces,          \* bound: pieces of a response
  None

ASSUME BoundsAssumption ==
  /\ MaxConnections \in Nat \ {0} /\ MaxRequests \in Nat
  /\ MaxBatch \in Nat \ {0} /\ Pieces \in Nat \ {0}

Connections == 1 .. (MaxConnections + 1)  \* the TCPConnection objects, in the order of their creation
Requests == 1 .. MaxRequests              \* the TcpRequestMessages, likewise

ASSUME NoneAssumption == None \notin Connections

VARIABLES
  ready,      \* handlers the io_context is to run, oldest first
  accepting,  \* the connection the acceptor waits to fill, or None
  open,       \* connections whose read loop has been started
  reading,    \* those whose async_read_some waits for bytes
  broken,     \* connections the peer has closed
  socket,     \* the connection each request came from: its user data
  asked,      \* number of requests so far
  sent,       \* number of requests the clients have sent
  delayed,    \* requests in a thread of the delay stage
  writes,     \* the pieces each socket is to send, oldest first
  wire,       \* the pieces each client has received
  eager,      \* history: clients that asked before they had their last answer
  refused     \* history: an accept failed, and its handler has run

historyVars == <<eager, refused>>
vars == <<ready, accepting, open, reading, broken, socket, asked, sent, delayed, writes, wire, historyVars>>

Piece == Requests \X (1 .. Pieces)
Handlers == [run : {"accepted", "refused"}, on : Connections]
              \cup [run : {"read"}, on : Connections, brings : 0 .. MaxBatch]
              \cup [run : {"respond"}, to : Requests]
              \cup [run : {"wrote", "write_failed"}, piece : Piece]

TypeOK ==
  /\ ready \in Seq(Handlers)
  /\ accepting \in Connections \cup {None}
  /\ open \subseteq Connections /\ reading \subseteq open /\ broken \subseteq Connections
  /\ socket \in [Requests -> Connections \cup {None}]
  /\ sent \in 0 .. MaxRequests /\ asked \in 0 .. sent
  /\ delayed \subseteq 1 .. asked
  /\ writes \in [Connections -> Seq(Piece)]
  /\ wire \in [Connections -> Seq(Piece)]
  /\ eager \subseteq Connections /\ refused \in BOOLEAN

\* start: the acceptor is open, and async_accept_next has been called.
Init ==
  /\ ready = <<>>
  /\ accepting = 1
  /\ open = {} /\ reading = {} /\ broken = {}
  /\ socket = [m \in Requests |-> None]
  /\ asked = 0 /\ sent = 0
  /\ delayed = {}
  /\ writes = [c \in Connections |-> <<>>]
  /\ wire = [c \in Connections |-> <<>>]
  /\ eager = {} /\ refused = FALSE

-----------------------------------------------------------------------------
(* The peers: what completes the operations that wait. *)

ReadOf(c, n) == [run |-> "read", on |-> c, brings |-> n]

\* Requests that c's client has sent and that are not wholly answered.
Answered(m) == \E c \in Connections : \E i \in DOMAIN wire[c] : wire[c][i] = <<m, Pieces>>
Waits(c) == \/ \E m \in 1 .. asked : socket[m] = c /\ ~Answered(m)
            \/ \E i \in DOMAIN ready : ready[i].run = "read" /\ ready[i].on = c /\ ready[i].brings > 0

\* A client connects, or the accept fails.
Connect ==
  /\ accepting \in 1 .. MaxConnections
  /\ \E result \in {"accepted", "refused"} :
       ready' = Append(ready, [run |-> result, on |-> accepting])
  /\ accepting' = None
  /\ UNCHANGED <<open, reading, broken, socket, asked, sent, delayed, writes, wire, historyVars>>

\* The bytes a client sends end a read; they may hold no whole request.
Send(c, n) ==
  /\ c \in reading \ broken
  /\ sent + n <= MaxRequests
  /\ sent' = sent + n
  /\ ready' = Append(ready, ReadOf(c, n))
  /\ reading' = reading \ {c}
  /\ eager' = IF n > 1 \/ (n = 1 /\ Waits(c)) THEN eager \cup {c} ELSE eager
  /\ UNCHANGED <<accepting, open, broken, socket, asked, delayed, writes, wire, refused>>

\* A client closes or resets its connection: a waiting read fails.
Established == open \cup {ready[i].on : i \in {j \in DOMAIN ready : ready[j].run = "accepted"}}

HangUp(c) ==
  /\ c \in Established \ broken
  /\ broken' = broken \cup {c}
  /\ reading' = reading \ {c}
  /\ ready' = IF c \in reading THEN Append(ready, ReadOf(c, 0)) ELSE ready
  /\ UNCHANGED <<accepting, open, socket, asked, sent, delayed, writes, wire, historyVars>>

\* The socket takes the oldest piece; writing to a closed one fails.
SocketWrites(c) ==
  /\ writes[c] # <<>>
  /\ writes' = [writes EXCEPT ![c] = Tail(@)]
  /\ IF c \in broken
     THEN /\ ready' = Append(ready, [run |-> "write_failed", piece |-> Head(writes[c])])
          /\ UNCHANGED wire
     ELSE /\ ready' = Append(ready, [run |-> "wrote", piece |-> Head(writes[c])])
          /\ wire' = [wire EXCEPT ![c] = Append(@, Head(writes[c]))]
  /\ UNCHANGED <<accepting, open, reading, broken, socket, asked, sent, delayed, historyVars>>

-----------------------------------------------------------------------------
(* The handlers, each run to its end by the one thread of the io_context.  *)

Taken(kind) == ready # <<>> /\ Head(ready).run = kind

\* Mutant: the next read is started before the handlers that already wait.
AsyncReadFirst(c, queue) ==
  /\ ready' = IF c \in broken THEN <<ReadOf(c, 0)>> \o queue ELSE queue
  /\ reading' = IF c \in broken THEN reading ELSE reading \cup {c}

\* async_read: on a connection that is closed, the next read fails at once.
AsyncRead(c, queue) ==
  /\ ready' = IF c \in broken THEN Append(queue, ReadOf(c, 0)) ELSE queue
  /\ reading' = IF c \in broken THEN reading ELSE reading \cup {c}

\* Mutant: a connection that is closed again is given up, with the accept loop.
AcceptedUntilClosed ==
  /\ Taken("accepted")
  /\ LET c == Head(ready).on IN
       /\ open' = open \cup {c}
       /\ AsyncRead(c, Tail(ready))
       /\ accepting' = IF c \in broken THEN None ELSE c + 1
  /\ UNCHANGED <<broken, socket, asked, sent, delayed, writes, wire, historyVars>>

\* async_accept_next creates the connection that is filled next.
Accepted ==
  /\ Taken("accepted")
  /\ LET c == Head(ready).on IN
       /\ open' = open \cup {c}
       /\ AsyncRead(c, Tail(ready))
       /\ accepting' = c + 1
  /\ UNCHANGED <<broken, socket, asked, sent, delayed, writes, wire, historyVars>>

\* An accept that fails is logged, and no other one is started.
Refused ==
  /\ Taken("refused")
  /\ ready' = Tail(ready)
  /\ refused' = TRUE
  /\ UNCHANGED <<accepting, open, reading, broken, socket, asked, sent, delayed, writes, wire, eager>>

\* Mutant: a read error does not empty the byte count, and the last message
\* is assembled once more.
ReadStale ==
  /\ Taken("read")
  /\ LET c == Head(ready).on
         brings == IF c \in broken /\ asked < MaxRequests THEN 1 ELSE Head(ready).brings
         new == (asked + 1) .. (asked + brings) IN
       /\ socket' = [m \in Requests |-> IF m \in new THEN c ELSE socket[m]]
       /\ asked' = asked + brings
       /\ delayed' = delayed \cup new
       /\ AsyncRead(c, Tail(ready))
  /\ UNCHANGED <<accepting, open, broken, sent, writes, wire, historyVars>>

\* Mutant: no read is started after one that failed.
ReadUntilError ==
  /\ Taken("read")
  /\ LET c == Head(ready).on
         new == (asked + 1) .. (asked + Head(ready).brings) IN
       /\ socket' = [m \in Requests |-> IF m \in new THEN c ELSE socket[m]]
       /\ asked' = asked + Head(ready).brings
       /\ delayed' = delayed \cup new
       /\ IF c \in broken THEN ready' = Tail(ready) /\ UNCHANGED reading
          ELSE AsyncRead(c, Tail(ready))
  /\ UNCHANGED <<accepting, open, broken, sent, writes, wire, historyVars>>

\* Every message of a read is told its socket and sent downstream, into a
\* thread of the delay stage; then the next read is started, whatever the
\* outcome of this one.
Read ==
  /\ Taken("read")
  /\ LET c == Head(ready).on
         new == (asked + 1) .. (asked + Head(ready).brings) IN
       /\ socket' = [m \in Requests |-> IF m \in new THEN c ELSE socket[m]]
       /\ asked' = asked + Head(ready).brings
       /\ delayed' = delayed \cup new
       /\ AsyncRead(c, Tail(ready))
  /\ UNCHANGED <<accepting, open, broken, sent, writes, wire, historyVars>>

\* A thread of the delay stage wakes up; the response to its request comes
\* back to on_message, which posts a handler.
Wake(m) ==
  /\ m \in delayed
  /\ delayed' = delayed \ {m}
  /\ ready' = Append(ready, [run |-> "respond", to |-> m])
  /\ UNCHANGED <<accepting, open, reading, broken, socket, asked, sent, writes, wire, historyVars>>

\* async_write_some for one piece of the response to a request.
WriteSome(piece) ==
  writes' = [writes EXCEPT ![socket[piece[1]]] = Append(@, piece)]

\* Mutant: the response goes to the connection accepted last.
RespondToNewest ==
  /\ Taken("respond")
  /\ LET newest == CHOOSE c \in open : \A d \in open : d <= c IN
       writes' = [writes EXCEPT ![newest] = Append(@, <<Head(ready).to, 1>>)]
  /\ ready' = Tail(ready)
  /\ UNCHANGED <<accepting, open, reading, broken, socket, asked, sent, delayed, wire, historyVars>>

\* Mutant: the handler hands the response to async_write after it has been
\* posted again, so that it is written twice.
RespondTwice ==
  /\ Taken("respond")
  /\ WriteSome(<<Head(ready).to, 1>>)
  /\ \E again \in {<<>>, <<Head(ready)>>} : ready' = Tail(ready) \o again
  /\ UNCHANGED <<accepting, open, reading, broken, socket, asked, sent, delayed, wire, historyVars>>

Respond ==
  /\ Taken("respond")
  /\ WriteSome(<<Head(ready).to, 1>>)
  /\ ready' = Tail(ready)
  /\ UNCHANGED <<accepting, open, reading, broken, socket, asked, sent, delayed, wire, historyVars>>

\* async_write goes on with the next piece until none is left.
Wrote ==
  /\ Taken("wrote")
  /\ LET m == Head(ready).piece[1]
         k == Head(ready).piece[2]
     IN IF k < Pieces THEN WriteSome(<<m, k + 1>>) ELSE UNCHANGED writes
  /\ ready' = Tail(ready)
  /\ UNCHANGED <<accepting, open, reading, broken, socket, asked, sent, delayed, wire, historyVars>>

\* The error is logged, and the rest of the response is given up.
WriteFailed ==
  /\ Taken("write_failed")
  /\ ready' = Tail(ready)
  /\ UNCHANGED <<accepting, open, reading, broken, socket, asked, sent, delayed, writes, wire, historyVars>>

RunOne == Accepted \/ Refused \/ Read \/ Respond \/ Wrote \/ WriteFailed

Next ==
  \/ Connect
  \/ \E c \in Connections : (\E n \in 0 .. MaxBatch : Send(c, n)) \/ HangUp(c) \/ SocketWrites(c)
  \/ \E m \in Requests : Wake(m)
  \/ RunOne

Spec == Init /\ [][Next]_vars

\* The io_context's thread keeps running handlers, a sleeping thread wakes up,
\* and a client takes what is sent to it.  Nothing is assumed of clients'
\* requests, nor of the order among handlers but that of `ready'.
FairSpec ==
  /\ Spec
  /\ WF_vars(RunOne)
  /\ \A m \in Requests : WF_vars(Wake(m))
  /\ \A c \in Connections : WF_vars(SocketWrites(c))

-----------------------------------------------------------------------------
\* Of every accepted connection exactly one read is under way or about to be
\* handled (the buffer has no room for two): its loop goes on whatever the reads
\* report, and whatever other handlers run before.
EachConnectionReads ==
  \A c \in open :
    LET handlers == {i \in DOMAIN ready : ready[i].run = "read" /\ ready[i].on = c}
    IN /\ \A i, j \in handlers : i = j
       /\ c \in reading <=> handlers = {}

\* Exactly one accept is under way or about to be handled, until one has failed:
\* then there is none, now and later.  The accept that is under way is for the
\* connection after those whose read loops run.
AcceptsUntilRefused ==
  LET handlers == {i \in DOMAIN ready : ready[i].run \in {"accepted", "refused"}}
  IN /\ \A i, j \in handlers : i = j
     /\ handlers # {} => accepting = None
     /\ refused <=> accepting = None /\ handlers = {}
     /\ accepting # None => open = 1 .. (accepting - 1)

\* Each loop of the stage goes on, by one operation at a time.
LoopsGoOn == EachConnectionReads /\ AcceptsUntilRefused

\* What a client receives are pieces of responses to its own requests, each
\* piece once and those of one response in order, however responses mix.
OwnPiecesInOrder ==
  \A c \in Connections : \A i \in DOMAIN wire[c] :
    LET m == wire[c][i][1] IN
    /\ socket[m] = c
    /\ wire[c][i][2] = Cardinality({j \in 1 .. i : wire[c][j][1] = m})

\* A client that asks only when it has its last answer receives whole
\* responses in the order of its requests: the responses of others, the
\* delays, and clients that are gone do not disturb it.
PatientClientReadsInOrder ==
  \A c \in Connections \ eager : \A i \in DOMAIN wire[c], j \in DOMAIN wire[c] :
    i < j => \/ wire[c][i][1] < wire[c][j][1]
             \/ wire[c][i][1] = wire[c][j][1] /\ wire[c][i][2] < wire[c][j][2]

\* A request of a client that stays is answered in the end, even while the
\* read loops of closed connections fail over and over.
StayersAreAnswered ==
  \A m \in Requests : (socket[m] # None) ~> (socket[m] \in broken \/ Answered(m))
=============================================================================
