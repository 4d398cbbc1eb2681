---------------------------- MODULE TcpServer_proofs ----------------------------
(***************************************************************************)
(* The TCP server stage for any number of connections, requests, requests  *)
(* per read and pieces per response: its loops go on one operation at a    *)
(* time, and every client reads the pieces of its own responses in order.  *)
(***************************************************************************)
EXTENDS TcpServer, FiniteSetTheorems, TLAPS

-----------------------------------------------------------------------------
(* Sequences that are used as queues.                                      *)

Held(q) == {q[i] : i \in DOMAIN q}

\* At most one place of q holds an element of S.
Once(S, q) == \A i, j \in DOMAIN q : q[i] \in S /\ q[j] \in S => i = j

LEMMA Appended ==
  ASSUME NEW H, NEW q \in Seq(H), NEW x \in H
  PROVE  /\ Append(q, x) \in Seq(H)
         /\ Held(Append(q, x)) = Held(q) \cup {x}
         /\ \A S : Once(S, q) /\ (x \in S => Held(q) \cap S = {}) => Once(S, Append(q, x))
<1> DEFINE r == Append(q, x)
<1>1. /\ r \in Seq(H)
      /\ Len(r) = Len(q) + 1 /\ Len(q) \in Nat
      /\ DOMAIN r = 1 .. Len(r) /\ DOMAIN q = 1 .. Len(q)
      /\ r[Len(r)] = x
      /\ \A i \in 1 .. Len(q) : r[i] = q[i]
  OBVIOUS
<1> HIDE DEF r
<1>2. \A i \in DOMAIN r : i \in DOMAIN q \/ i = Len(r)
  BY <1>1
<1>3. Held(r) = Held(q) \cup {x}
  <2>1. \A y \in Held(r) : y \in Held(q) \cup {x}
    BY <1>1, <1>2 DEF Held
  <2>2. \A y \in Held(q) : y \in Held(r)
    BY <1>1 DEF Held
  <2>3. x \in Held(r)
    BY <1>1 DEF Held
  <2> QED BY <2>1, <2>2, <2>3
<1>4. ASSUME NEW S, Once(S, q), x \in S => Held(q) \cap S = {} PROVE Once(S, r)
  <2> SUFFICES ASSUME NEW i \in DOMAIN r, NEW j \in DOMAIN r, r[i] \in S, r[j] \in S, i < j
               PROVE  FALSE
    BY <1>1 DEF Once
  <2>1. i \in DOMAIN q /\ r[i] = q[i]
    BY <1>1, <1>2
  <2>2. CASE j \in DOMAIN q
    BY <1>1, <1>4, <2>1, <2>2 DEF Once
  <2>3. CASE j = Len(r)
    BY <1>1, <1>4, <2>1, <2>3 DEF Held
  <2> QED BY <1>2, <2>2, <2>3
<1> QED BY <1>1, <1>3, <1>4 DEF r

LEMMA HeadTaken ==
  ASSUME NEW H, NEW q \in Seq(H), q # <<>>
  PROVE  /\ Tail(q) \in Seq(H) /\ Head(q) \in H
         /\ Held(q) = {Head(q)} \cup Held(Tail(q))
         /\ \A S : Once(S, q) => /\ Once(S, Tail(q))
                                 /\ Head(q) \in S => Held(Tail(q)) \cap S = {}
<1> DEFINE r == Tail(q)
<1>1. /\ r \in Seq(H)
      /\ Len(q) = Len(r) + 1 /\ Len(r) \in Nat
      /\ DOMAIN r = 1 .. Len(r) /\ DOMAIN q = 1 .. Len(q)
      /\ Head(q) = q[1] /\ q[1] \in H
      /\ \A i \in 1 .. Len(r) : r[i] = q[i + 1]
  OBVIOUS
<1> HIDE DEF r
<1>2. \A i \in DOMAIN q : i = 1 \/ (i - 1 \in DOMAIN r /\ r[i - 1] = q[i])
  BY <1>1
<1>3. \A i \in DOMAIN r : i + 1 \in DOMAIN q /\ r[i] = q[i + 1]
  BY <1>1
<1>4. Held(q) = {Head(q)} \cup Held(r)
  <2>1. \A y \in Held(q) : y \in {Head(q)} \cup Held(r)
    BY <1>1, <1>2 DEF Held
  <2>2. \A y \in Held(r) : y \in Held(q)
    BY <1>3 DEF Held
  <2>3. Head(q) \in Held(q)
    BY <1>1 DEF Held
  <2> QED BY <2>1, <2>2, <2>3
<1>5. ASSUME NEW S, Once(S, q) PROVE Once(S, r)
  BY <1>1, <1>3, <1>5 DEF Once
<1>6. ASSUME NEW S, Once(S, q), Head(q) \in S PROVE Held(r) \cap S = {}
  <2> SUFFICES ASSUME NEW i \in DOMAIN r, r[i] \in S PROVE FALSE
    BY DEF Held
  <2>1. i + 1 \in DOMAIN q /\ q[i + 1] \in S /\ 1 \in DOMAIN q /\ q[1] \in S /\ i + 1 # 1
    BY <1>1, <1>3, <1>6
  <2> QED BY <1>6, <2>1 DEF Once
<1> QED BY <1>1, <1>4, <1>5, <1>6 DEF r

-----------------------------------------------------------------------------
(* Handlers.                                                               *)

Accepts == {h \in Handlers : h.run \in {"accepted", "refused"}}
ReadsOf(c) == {h \in Handlers : h.run = "read" /\ h.on = c}
\* Those that carry on with the response to m.
Bearing(m) == {h \in Handlers : \/ h.run = "respond" /\ h.to = m
                                \/ h.run \in {"wrote", "write_failed"} /\ h.piece[1] = m}

Of(m) == {p \in Piece : p[1] = m}

LEMMA Kinds ==
  ASSUME NEW h \in Handlers
  PROVE  /\ h.run \in {"accepted", "refused", "read", "respond", "wrote", "write_failed"}
         /\ h.run \in {"accepted", "refused"} => h.on \in Connections
         /\ h.run = "read" => /\ h.on \in Connections /\ h.brings \in 0 .. MaxBatch
                              /\ h = ReadOf(h.on, h.brings)
         /\ h.run = "respond" => h.to \in Requests
         /\ h.run \in {"wrote", "write_failed"} =>
              /\ h.piece \in Piece /\ h.piece[1] \in Requests /\ h.piece[2] \in 1 .. Pieces
              /\ h.piece = <<h.piece[1], h.piece[2]>>
  BY DEF Handlers, Piece, ReadOf

LEMMA Made ==
  /\ \A c \in Connections, n \in 0 .. MaxBatch :
       /\ ReadOf(c, n) \in Handlers /\ ReadOf(c, n).run = "read"
       /\ ReadOf(c, n).on = c /\ ReadOf(c, n).brings = n
  /\ \A c \in Connections, x \in {"accepted", "refused"} :
       LET h == [run |-> x, on |-> c] IN h \in Handlers /\ h.run = x /\ h.on = c
  /\ \A m \in Requests :
       LET h == [run |-> "respond", to |-> m] IN h \in Handlers /\ h.run = "respond" /\ h.to = m
  /\ \A p \in Piece, x \in {"wrote", "write_failed"} :
       LET h == [run |-> x, piece |-> p] IN h \in Handlers /\ h.run = x /\ h.piece = p
  BY DEF Handlers, ReadOf
-----------------------------------------------------------------------------
(* The inductive invariant.                                                *)

\* Of each loop one operation is under way or its handler waits, but of the accept
\* loop once it was refused; the acceptor fills the connections one after another.
Loops ==
  /\ Once(Accepts, ready)
  /\ accepting # None => /\ Held(ready) \cap Accepts = {}
                         /\ open = 1 .. (accepting - 1)
  /\ \A h \in Held(ready) \cap Accepts : /\ h.on \in 1 .. MaxConnections
                                         /\ open = 1 .. (h.on - 1)
  /\ refused <=> accepting = None /\ Held(ready) \cap Accepts = {}
  /\ \A c \in Connections :
       /\ Once(ReadsOf(c), ready)
       /\ c \in open => (c \in reading <=> Held(ready) \cap ReadsOf(c) = {})
       /\ c \notin open => Held(ready) \cap ReadsOf(c) = {}

\* The requests that are sent and not read yet are those that handlers bring.
Brought(H) == {p \in Connections \X (1 .. MaxBatch) :
                 \E h \in H \cap ReadsOf(p[1]) : p[2] <= h.brings}

Coming == Brought(Held(ready))
Counted == asked + Cardinality(Coming) = sent

\* One thread, handler or piece carries on with the response to a request.
Carried ==
  /\ \A m \in Requests :
       /\ socket[m] \in Connections <=> m <= asked
       /\ Once(Bearing(m), ready)
       /\ Held(ready) \cap Bearing(m) # {} => m <= asked /\ m \notin delayed
       /\ \A c \in Connections :
            /\ Once(Of(m), writes[c])
            /\ Held(writes[c]) \cap Of(m) # {} =>
                 /\ m <= asked /\ m \notin delayed /\ socket[m] = c
                 /\ Held(ready) \cap Bearing(m) = {}
            /\ Held(wire[c]) \cap Of(m) # {} => m <= asked /\ socket[m] = c

\* Places in w of the pieces of the response to m.
Places(w, m) == {j \in DOMAIN w : w[j][1] = m}

\* The pieces of each response are numbered in order.
Numbered(w) == \A i \in DOMAIN w : w[i][2] = Cardinality({j \in 1 .. i : w[j][1] = w[i][1]})

\* As many pieces have been received as whoever carries on believes.
Delivered ==
  \A c \in Connections :
    /\ Numbered(wire[c])
    /\ \A m \in Requests :
         /\ m \in delayed => Places(wire[c], m) = {}
         /\ \A h \in Held(ready) \cap Bearing(m) :
              /\ h.run = "respond" => Places(wire[c], m) = {}
              /\ h.run = "wrote" /\ socket[m] = c => Cardinality(Places(wire[c], m)) = h.piece[2]
         /\ \A p \in Held(writes[c]) \cap Of(m) : Cardinality(Places(wire[c], m)) = p[2] - 1

\* A client that is not eager has at most one request that is not answered, its
\* last one, and none while another is on its way.
Asks ==
  \A c \in Connections \ eager :
    /\ \A h \in Held(ready) \cap ReadsOf(c) :
         h.brings > 0 => h.brings = 1 /\ \A m \in 1 .. asked : socket[m] = c => Answered(m)
    /\ \A m, q \in 1 .. asked : m < q /\ socket[m] = c /\ socket[q] = c => Answered(m)
Patience == PatientClientReadsInOrder /\ Asks

TInv == TypeOK /\ Loops /\ Counted /\ Carried /\ Delivered /\ Patience
LEMMA InitTcp == Init => TInv
<1> SUFFICES ASSUME Init PROVE TInv
  OBVIOUS
<1>1. /\ Held(ready) = {} /\ \A S : Once(S, ready)
      /\ \A c \in Connections : /\ writes[c] = <<>> /\ wire[c] = <<>>
                                /\ Held(writes[c]) = {} /\ \A S : Once(S, writes[c])
  BY DEF Init, Held, Once
<1>2. TypeOK
  <2>1. accepting \in Connections
    BY BoundsAssumption DEF Init, Connections
  <2>2. sent \in 0 .. MaxRequests /\ asked \in 0 .. sent
    BY BoundsAssumption DEF Init
  <2>3. ready = <<>> /\ refused = FALSE
    BY DEF Init
  <2>5. ready \in Seq(Handlers)
    BY <2>3
  <2>6. refused \in BOOLEAN
    BY <2>3
  <2>4. writes \in [Connections -> Seq(Piece)] /\ wire \in [Connections -> Seq(Piece)]
    BY DEF Init
  <2> QED BY <2>1, <2>2, <2>4, <2>5, <2>6 DEF Init, TypeOK
<1>3. Loops
  <2>1. accepting = 1 /\ accepting # None /\ open = {} /\ 1 .. (1 - 1) = {} /\ ~refused
    BY BoundsAssumption, NoneAssumption DEF Init, Connections
  <2> QED BY <1>1, <2>1 DEF Loops
<1>4. Counted
  <2>1. Coming = {}
    BY <1>1 DEF Coming, Brought
  <2> QED BY <2>1, FS_EmptySet DEF Init, Counted
<1>5. Carried
  BY <1>1, NoneAssumption DEF Init, Carried, Requests, Held
<1>6. Delivered
  BY <1>1 DEF Delivered, Numbered, Places, Init, Held
<1>7. Patience
  BY <1>1 DEF Patience, PatientClientReadsInOrder, Asks, Init
<1> QED BY <1>2, <1>3, <1>4, <1>5, <1>6, <1>7 DEF TInv

-----------------------------------------------------------------------------
(* What the steps do to `ready'.                                           *)

\* The handlers of out are taken, those of new are added, the rest stay.
Shift(out, rest, new) ==
  /\ ready' \in Seq(Handlers)
  /\ Held(ready) = out \cup rest /\ Held(ready)' = rest \cup new
  /\ \A S : Once(S, ready) => out \cap S = {} \/ rest \cap S = {}
  /\ \A S : Once(S, ready) /\ (new \cap S = {} \/ rest \cap S = {}) => Once(S, ready')

LEMMA Adds ==
  ASSUME ready \in Seq(Handlers), NEW x \in Handlers, ready' = Append(ready, x)
  PROVE  Shift({}, Held(ready), {x})
  BY Appended DEF Shift, Held

LEMMA Takes ==
  ASSUME ready \in Seq(Handlers), ready # <<>>, ready' = Tail(ready)
  PROVE  Shift({Head(ready)}, Held(Tail(ready)), {})
  BY HeadTaken DEF Shift, Held

LEMMA TakesAndAdds ==
  ASSUME ready \in Seq(Handlers), ready # <<>>, NEW x \in Handlers, ready' = Append(Tail(ready), x)
  PROVE  Shift({Head(ready)}, Held(Tail(ready)), {x})
<1>1. PICK q \in Seq(Handlers) : q = Tail(ready)
  BY HeadTaken
<1>2. /\ Held(ready) = {Head(ready)} \cup Held(q)
      /\ \A S : Once(S, ready) => Once(S, q) /\ (Head(ready) \in S => Held(q) \cap S = {})
  BY <1>1, HeadTaken
<1>3. /\ Append(q, x) \in Seq(Handlers)
      /\ Held(Append(q, x)) = Held(q) \cup {x}
      /\ \A S : Once(S, q) /\ (x \in S => Held(q) \cap S = {}) => Once(S, Append(q, x))
  BY Appended
<1>4. ready' = Append(q, x) /\ Held(ready)' = Held(Append(q, x))
  BY <1>1 DEF Held
<1> QED BY <1>1, <1>2, <1>3, <1>4 DEF Shift

LEMMA Stays ==
  ASSUME ready \in Seq(Handlers), UNCHANGED ready PROVE Shift({}, Held(ready), {})
  BY DEF Shift, Held

LEMMA Steps ==
  ASSUME TypeOK
  PROVE  /\ Connect => \E h \in Accepts : h.on = accepting /\ Shift({}, Held(ready), {h})
         /\ \A c \in Connections, n \in 0 .. MaxBatch :
              Send(c, n) => Shift({}, Held(ready), {ReadOf(c, n)})
         /\ \A c \in Connections :
              HangUp(c) => Shift({}, Held(ready), IF c \in reading THEN {ReadOf(c, 0)} ELSE {})
         /\ \A c \in Connections :
              SocketWrites(c) =>
                /\ Head(writes[c]) \in Piece
                /\ \E x \in {"wrote", "write_failed"} :
                     /\ x = "wrote" <=> c \notin broken
                     /\ Shift({}, Held(ready), {[run |-> x, piece |-> Head(writes[c])]})
         /\ \A m \in Requests :
              Wake(m) => Shift({}, Held(ready), {[run |-> "respond", to |-> m]})
         /\ RunOne => ready # <<>> /\ Head(ready) \in Handlers
         /\ Refused \/ Respond \/ Wrote \/ WriteFailed =>
              Shift({Head(ready)}, Held(Tail(ready)), {})
         /\ Accepted \/ Read =>
              LET c == Head(ready).on IN
              /\ c \in Connections
              /\ Shift({Head(ready)}, Held(Tail(ready)), IF c \in broken THEN {ReadOf(c, 0)} ELSE {})
<1>t. ready \in Seq(Handlers) /\ 0 \in 0 .. MaxBatch
  BY BoundsAssumption DEF TypeOK
<1>1. ASSUME Connect PROVE \E h \in Accepts : h.on = accepting /\ Shift({}, Held(ready), {h})
  <2>1. PICK x \in {"accepted", "refused"} : ready' = Append(ready, [run |-> x, on |-> accepting])
    BY <1>1 DEF Connect
  <2>2. PICK h : h = [run |-> x, on |-> accepting]
    OBVIOUS
  <2>3. accepting \in Connections
    BY <1>1, BoundsAssumption DEF Connect, Connections
  <2>4. h \in Accepts /\ h \in Handlers /\ h.on = accepting
    BY <2>2, <2>3, Made DEF Accepts
  <2> QED BY <1>t, <2>1, <2>2, <2>4, Adds
<1>2. ASSUME NEW c \in Connections, NEW n \in 0 .. MaxBatch, Send(c, n)
      PROVE  Shift({}, Held(ready), {ReadOf(c, n)})
  BY <1>t, <1>2, Made, Adds DEF Send
<1>3. ASSUME NEW c \in Connections, HangUp(c)
      PROVE  Shift({}, Held(ready), IF c \in reading THEN {ReadOf(c, 0)} ELSE {})
  <2>1. CASE c \in reading
    BY <1>t, <1>3, <2>1, Made, Adds DEF HangUp
  <2>2. CASE c \notin reading
    BY <1>t, <1>3, <2>2, Stays DEF HangUp
  <2> QED BY <2>1, <2>2
<1>4. ASSUME NEW c \in Connections, SocketWrites(c)
      PROVE  /\ Head(writes[c]) \in Piece
             /\ \E x \in {"wrote", "write_failed"} :
                  /\ x = "wrote" <=> c \notin broken
                  /\ Shift({}, Held(ready), {[run |-> x, piece |-> Head(writes[c])]})
  <2>1. Head(writes[c]) \in Piece
    <3>1. writes[c] \in Seq(Piece) /\ writes[c] # <<>>
      BY <1>4 DEF SocketWrites, TypeOK
    <3> QED BY <3>1, HeadTaken
  <2>2. PICK x \in {"wrote", "write_failed"} :
          /\ x = "wrote" <=> c \notin broken
          /\ ready' = Append(ready, [run |-> x, piece |-> Head(writes[c])])
    BY <1>4 DEF SocketWrites
  <2> QED BY <1>t, <2>1, <2>2, Made, Adds
<1>5. ASSUME NEW m \in Requests, Wake(m)
      PROVE  Shift({}, Held(ready), {[run |-> "respond", to |-> m]})
  BY <1>t, <1>5, Made, Adds DEF Wake
<1>6. ASSUME RunOne PROVE ready # <<>> /\ Head(ready) \in Handlers
  <2>1. ready # <<>>
    BY <1>6 DEF RunOne, Accepted, Refused, Read, Respond, Wrote, WriteFailed, Taken
  <2> QED BY <1>t, <2>1, HeadTaken
<1>7. ASSUME Refused \/ Respond \/ Wrote \/ WriteFailed
      PROVE  Shift({Head(ready)}, Held(Tail(ready)), {})
  BY <1>t, <1>7, Takes DEF Refused, Respond, Wrote, WriteFailed, Taken
<1>8. ASSUME Accepted \/ Read
      PROVE  LET c == Head(ready).on IN
             /\ c \in Connections
             /\ Shift({Head(ready)}, Held(Tail(ready)), IF c \in broken THEN {ReadOf(c, 0)} ELSE {})
  <2>1. PICK c : c = Head(ready).on
    OBVIOUS
  <2>2. ready # <<>> /\ Head(ready).run \in {"accepted", "read"} /\ Head(ready) \in Handlers
    BY <1>8, <1>6 DEF RunOne, Accepted, Read, Taken
  <2>3. c \in Connections
    BY <2>1, <2>2, Kinds
  <2>4. ready' = IF c \in broken THEN Append(Tail(ready), ReadOf(c, 0)) ELSE Tail(ready)
    BY <1>8, <2>1 DEF Accepted, Read, AsyncRead
  <2>5. CASE c \in broken
    BY <1>t, <2>1, <2>2, <2>3, <2>4, <2>5, Made, TakesAndAdds
  <2>6. CASE c \notin broken
    BY <1>t, <2>1, <2>2, <2>3, <2>4, <2>6, Takes
  <2> QED BY <2>1, <2>3, <2>5, <2>6
<1> QED BY <1>1, <1>2, <1>3, <1>4, <1>5, <1>6, <1>7, <1>8

LEMMA SendAdds ==
  ASSUME TypeOK, NEW c \in Connections, NEW n \in 0 .. MaxBatch, Send(c, n)
  PROVE  Shift({}, Held(ready), {ReadOf(c, n)})
  BY Steps

LEMMA HangUpAdds ==
  ASSUME TypeOK, NEW c \in Connections, HangUp(c)
  PROVE  Shift({}, Held(ready), IF c \in reading THEN {ReadOf(c, 0)} ELSE {})
  BY Steps

-----------------------------------------------------------------------------
(* The loops.                                                              *)

LEMMA OthersKeepLoops ==
  ASSUME Loops, NEW out, NEW rest, NEW new, Shift(out, rest, new),
         UNCHANGED <<accepting, open, reading, refused>>,
         (out \cup new) \cap Accepts = {},
         \A c \in Connections : (out \cup new) \cap ReadsOf(c) = {}
  PROVE  Loops'
<1>1. Once(Accepts, ready)' /\ Held(ready)' \cap Accepts = Held(ready) \cap Accepts
  <2>1. Once(Accepts, ready')
    BY DEF Loops, Shift
  <2> QED BY <2>1 DEF Shift, Once
<1>2. ASSUME NEW c \in Connections
      PROVE  Once(ReadsOf(c), ready') /\ Held(ready)' \cap ReadsOf(c) = Held(ready) \cap ReadsOf(c)
  BY DEF Loops, Shift
<1>3. \A c \in Connections : Once(ReadsOf(c), ready)' <=> Once(ReadsOf(c), ready')
  BY DEF Once, ReadsOf
<1>4. Accepts' = Accepts /\ \A c \in Connections : ReadsOf(c)' = ReadsOf(c)
  BY DEF Accepts, ReadsOf
<1> QED BY <1>1, <1>2, <1>3, <1>4 DEF Loops

LEMMA NextLoops ==
  ASSUME TypeOK, Loops, [Next]_vars
  PROVE  Loops'
<1>s. \A h \in Handlers : /\ h \in Accepts <=> h.run \in {"accepted", "refused"}
                          /\ \A c \in Connections : h \in ReadsOf(c) <=> h.run = "read" /\ h.on = c
  BY DEF Accepts, ReadsOf
<1>0. CASE UNCHANGED vars
  BY <1>0, Stays, OthersKeepLoops DEF vars, historyVars, TypeOK
<1>1. CASE Connect
  <2>1. PICK h \in Accepts : h.on = accepting /\ Shift({}, Held(ready), {h})
    BY <1>1, Steps
  <2>2. \A c \in Connections : h \notin ReadsOf(c)
    BY DEF Accepts, ReadsOf
  <2>3. /\ accepting \in 1 .. MaxConnections /\ accepting' = None
        /\ UNCHANGED <<open, reading, refused>> /\ accepting # None
    BY <1>1, NoneAssumption, BoundsAssumption DEF Connect, historyVars, Connections
  <2>4. Held(ready) \cap Accepts = {} /\ open = 1 .. (accepting - 1) /\ ~refused
    BY <2>3 DEF Loops
  <2>5. Once(Accepts, ready') /\ Held(ready)' \cap Accepts = {h}
    BY <2>1, <2>4 DEF Loops, Shift
  <2>6. \A c \in Connections :
          Once(ReadsOf(c), ready') /\ Held(ready)' \cap ReadsOf(c) = Held(ready) \cap ReadsOf(c)
    BY <2>1, <2>2 DEF Loops, Shift
  <2> QED BY <2>1, <2>3, <2>4, <2>5, <2>6 DEF Loops, Once, Accepts, ReadsOf
<1>2. ASSUME NEW c \in Connections, NEW n \in 0 .. MaxBatch,
             \/ Send(c, n)
             \/ n = 0 /\ HangUp(c) /\ c \in reading
      PROVE  Loops'
  <2>1. /\ Shift({}, Held(ready), {ReadOf(c, n)})
        /\ c \in reading /\ reading' = reading \ {c} /\ UNCHANGED <<open, accepting, refused>>
    BY <1>2, Steps DEF Send, HangUp, historyVars
  <2>2. c \in open /\ Held(ready) \cap ReadsOf(c) = {}
    BY <2>1 DEF Loops, TypeOK
  <2>3. /\ ReadOf(c, n) \notin Accepts /\ ReadOf(c, n) \in ReadsOf(c)
        /\ \A d \in Connections \ {c} : ReadOf(c, n) \notin ReadsOf(d)
    BY Made DEF Accepts, ReadsOf
  <2>4. Once(Accepts, ready') /\ Held(ready)' \cap Accepts = Held(ready) \cap Accepts
    BY <2>1, <2>3 DEF Loops, Shift
  <2>5. \A d \in Connections :
          /\ Once(ReadsOf(d), ready')
          /\ d # c => Held(ready)' \cap ReadsOf(d) = Held(ready) \cap ReadsOf(d)
    BY <2>1, <2>2, <2>3 DEF Loops, Shift
  <2>6. Held(ready)' \cap ReadsOf(c) # {}
    BY <2>1, <2>3 DEF Shift
  <2> QED BY <2>1, <2>2, <2>4, <2>5, <2>6 DEF Loops, Once, Accepts, ReadsOf
<1>3. ASSUME NEW c \in Connections, HangUp(c), c \notin reading PROVE Loops'
  <2>1. Shift({}, Held(ready), {}) /\ UNCHANGED <<open, accepting, reading, refused>>
    BY <1>3, Steps DEF HangUp, historyVars, TypeOK
  <2> QED BY <2>1, OthersKeepLoops
<1>4. ASSUME NEW c \in Connections, SocketWrites(c) PROVE Loops'
  <2>1. PICK x \in {"wrote", "write_failed"} :
          Shift({}, Held(ready), {[run |-> x, piece |-> Head(writes[c])]})
    BY <1>4, Steps
  <2>2. PICK h : h = [run |-> x, piece |-> Head(writes[c])]
    OBVIOUS
  <2>3. h \notin Accepts /\ \A d \in Connections : h \notin ReadsOf(d)
    BY <1>4, <2>2, Steps, Made DEF Accepts, ReadsOf
  <2> QED BY <1>4, <2>1, <2>2, <2>3, OthersKeepLoops DEF SocketWrites, historyVars
<1>5. ASSUME NEW m \in Requests, Wake(m) PROVE Loops'
  <2>1. Shift({}, Held(ready), {[run |-> "respond", to |-> m]})
    BY <1>5, Steps
  <2>2. PICK h : h = [run |-> "respond", to |-> m]
    OBVIOUS
  <2>3. h \notin Accepts /\ \A d \in Connections : h \notin ReadsOf(d)
    BY <2>2, Made DEF Accepts, ReadsOf
  <2> QED BY <1>5, <2>1, <2>2, <2>3, OthersKeepLoops DEF Wake, historyVars
<1>6. CASE Accepted
  <2>1. PICK h : h = Head(ready)
    OBVIOUS
  <2>2. PICK c : c = h.on
    OBVIOUS
  <2>3. h \in Handlers /\ h.run = "accepted" /\ c \in Connections
    BY <1>6, <2>1, <2>2, Steps, Kinds DEF RunOne, Accepted, Taken
  <2>4. PICK rest, new : /\ Shift({h}, rest, new)
                         /\ new = IF c \in broken THEN {ReadOf(c, 0)} ELSE {}
    BY <1>6, <2>1, <2>2, Steps
  <2>5. h \in Accepts /\ (\A d \in Connections : h \notin ReadsOf(d)) /\ h \in Held(ready)
    BY <2>3, <2>4, <1>s DEF Shift
  <2>6. rest \cap Accepts = {} /\ accepting = None /\ ~refused
    BY <2>4, <2>5 DEF Shift, Loops
  <2>7. c \in 1 .. MaxConnections /\ open = 1 .. (c - 1) /\ c \notin open
    BY <2>2, <2>5, BoundsAssumption DEF Loops
  <2>8. rest \cap ReadsOf(c) = {} /\ c \notin reading
    BY <2>3, <2>4, <2>7 DEF Shift, Loops, TypeOK
  <2>9. /\ new \cap Accepts = {} /\ \A d \in Connections \ {c} : new \cap ReadsOf(d) = {}
        /\ new \cap ReadsOf(c) = {} <=> c \notin broken
    BY <2>3, <2>4, Made, BoundsAssumption DEF Accepts, ReadsOf
  <2>10. /\ open' = open \cup {c} /\ accepting' = c + 1
         /\ reading' = IF c \in broken THEN reading ELSE reading \cup {c}
         /\ UNCHANGED refused
    BY <1>6, <2>1, <2>2 DEF Accepted, AsyncRead, historyVars
  <2>11. Once(Accepts, ready') /\ Held(ready)' \cap Accepts = {}
    BY <2>4, <2>6, <2>9 DEF Shift, Loops
  <2>12. \A d \in Connections :
           /\ Once(ReadsOf(d), ready')
           /\ d # c => Held(ready)' \cap ReadsOf(d) = Held(ready) \cap ReadsOf(d)
    BY <2>4, <2>5, <2>8, <2>9 DEF Shift, Loops
  <2>13. Held(ready)' \cap ReadsOf(c) = {} <=> c \in reading'
    BY <2>4, <2>8, <2>9, <2>10 DEF Shift
  <2>14. open' = 1 .. (accepting' - 1) /\ accepting' # None
    <3>1. c + 1 \in Connections
      BY <2>7, BoundsAssumption DEF Connections
    <3> QED BY <3>1, <2>7, <2>10, BoundsAssumption, NoneAssumption
  <2>15. \A d \in Connections \ {c} : /\ d \in open' <=> d \in open
                                      /\ d \in reading' <=> d \in reading
    BY <2>10
  <2>16. /\ Once(Accepts, ready)'
         /\ Held(ready)' \cap Accepts' = {} /\ ~refused'
    BY <2>6, <2>10, <2>11 DEF Once, Accepts
  <2>17. ASSUME NEW d \in Connections
         PROVE  /\ Once(ReadsOf(d), ready)'
                /\ d \in open' => (d \in reading' <=> Held(ready)' \cap ReadsOf(d)' = {})
                /\ d \notin open' => Held(ready)' \cap ReadsOf(d)' = {}
    <3>1. Once(ReadsOf(d), ready)' /\ ReadsOf(d)' = ReadsOf(d)
      BY <2>12 DEF Once, ReadsOf
    <3>2. CASE d = c
      BY <2>10, <2>13, <3>1, <3>2
    <3>3. CASE d # c
      BY <2>12, <2>15, <3>1, <3>3 DEF Loops
    <3> QED BY <3>1, <3>2, <3>3
  <2> QED BY <2>14, <2>16, <2>17 DEF Loops
<1>7. CASE Read
  <2>1. PICK h : h = Head(ready)
    OBVIOUS
  <2>2. PICK c : c = h.on
    OBVIOUS
  <2>3. h \in Handlers /\ h.run = "read" /\ c \in Connections
    BY <1>7, <2>1, <2>2, Steps, Kinds DEF RunOne, Read, Taken
  <2>4. PICK rest, new : /\ Shift({h}, rest, new)
                         /\ new = IF c \in broken THEN {ReadOf(c, 0)} ELSE {}
    BY <1>7, <2>1, <2>2, Steps
  <2>5. /\ h \notin Accepts /\ h \in ReadsOf(c) /\ h \in Held(ready)
        /\ \A d \in Connections \ {c} : h \notin ReadsOf(d)
    BY <2>2, <2>3, <2>4, <1>s DEF Shift
  <2>6. c \in open /\ c \notin reading /\ rest \cap ReadsOf(c) = {}
    BY <2>3, <2>4, <2>5 DEF Shift, Loops
  <2>7. /\ new \cap Accepts = {} /\ \A d \in Connections \ {c} : new \cap ReadsOf(d) = {}
        /\ new \cap ReadsOf(c) = {} <=> c \notin broken
    BY <2>3, <2>4, Made, BoundsAssumption DEF Accepts, ReadsOf
  <2>8. /\ UNCHANGED <<open, accepting, refused>>
        /\ reading' = IF c \in broken THEN reading ELSE reading \cup {c}
    BY <1>7, <2>1, <2>2 DEF Read, AsyncRead, historyVars
  <2>9. Once(Accepts, ready') /\ Held(ready)' \cap Accepts = Held(ready) \cap Accepts
    BY <2>4, <2>5, <2>7 DEF Shift, Loops
  <2>10. \A d \in Connections :
           /\ Once(ReadsOf(d), ready')
           /\ d # c => Held(ready)' \cap ReadsOf(d) = Held(ready) \cap ReadsOf(d)
    BY <2>4, <2>5, <2>6, <2>7 DEF Shift, Loops
  <2>11. Held(ready)' \cap ReadsOf(c) = {} <=> c \in reading'
    BY <2>4, <2>6, <2>7, <2>8 DEF Shift
  <2> QED BY <2>6, <2>8, <2>9, <2>10, <2>11 DEF Loops, Once, Accepts, ReadsOf
<1>8. CASE Refused
  <2>1. PICK h : h = Head(ready)
    OBVIOUS
  <2>2. h \in Handlers /\ h.run = "refused"
    BY <1>8, <2>1, Steps DEF RunOne, Refused, Taken
  <2>3. PICK rest : Shift({h}, rest, {})
    BY <1>8, <2>1, Steps
  <2>4. h \in Accepts /\ (\A d \in Connections : h \notin ReadsOf(d)) /\ accepting = None
    BY <2>2, <2>3, <1>s DEF Shift, Loops
  <2>5. UNCHANGED <<open, reading, accepting>> /\ refused'
    BY <1>8 DEF Refused
  <2>6. Once(Accepts, ready') /\ Held(ready)' \cap Accepts = {}
    BY <2>3, <2>4 DEF Shift, Loops
  <2>7. \A d \in Connections :
           /\ Once(ReadsOf(d), ready')
           /\ Held(ready)' \cap ReadsOf(d) = Held(ready) \cap ReadsOf(d)
    BY <2>3, <2>4 DEF Shift, Loops
  <2> QED BY <2>4, <2>5, <2>6, <2>7 DEF Loops, Once, Accepts, ReadsOf
<1>9. CASE Respond \/ Wrote \/ WriteFailed
  <2>1. PICK h : h = Head(ready)
    OBVIOUS
  <2>2. h \in Handlers /\ h.run \in {"respond", "wrote", "write_failed"}
    BY <1>9, <2>1, Steps DEF RunOne, Respond, Wrote, WriteFailed, Taken
  <2>3. PICK rest : Shift({h}, rest, {})
    BY <1>9, <2>1, Steps
  <2>4. h \notin Accepts /\ (\A d \in Connections : h \notin ReadsOf(d))
    BY <2>2, <1>s
  <2>5. UNCHANGED <<open, reading, accepting, refused>>
    BY <1>9 DEF Respond, Wrote, WriteFailed, historyVars
  <2> QED BY <2>3, <2>4, <2>5, OthersKeepLoops
<1> QED BY <1>0, <1>1, <1>2, <1>3, <1>4, <1>5, <1>6, <1>7, <1>8, <1>9, BoundsAssumption
        DEF Next, RunOne
-----------------------------------------------------------------------------
(* Requests on their way.                                                  *)

Cargo(h) == IF h.run = "read" THEN h.brings ELSE 0

LEMMA BroughtFinite ==
  ASSUME NEW H PROVE IsFiniteSet(Brought(H)) /\ Cardinality(Brought(H)) \in Nat
<1>1. IsFiniteSet(Connections) /\ IsFiniteSet(1 .. MaxBatch)
  BY FS_Interval, BoundsAssumption DEF Connections
<1>2. IsFiniteSet(Connections \X (1 .. MaxBatch))
  BY <1>1, FS_Product
<1>3. Brought(H) \in SUBSET (Connections \X (1 .. MaxBatch))
  BY DEF Brought
<1> QED BY <1>2, <1>3, FS_Subset, FS_CardinalityType

LEMMA BroughtAdds ==
  ASSUME NEW H, NEW x \in Handlers, x.run = "read" => H \cap ReadsOf(x.on) = {}
  PROVE  Cardinality(Brought(H \cup {x})) = Cardinality(Brought(H)) + Cargo(x)
<1>1. CASE x.run # "read"
  <2>1. \A c : x \notin ReadsOf(c)
    BY <1>1 DEF ReadsOf
  <2>2. Brought(H \cup {x}) = Brought(H)
    BY <2>1 DEF Brought
  <2> QED BY <1>1, <2>2, BroughtFinite DEF Cargo
<1>2. CASE x.run = "read"
  <2>1. PICK c \in Connections, n \in 0 .. MaxBatch : c = x.on /\ n = x.brings /\ n = Cargo(x)
    BY <1>2, Kinds DEF Cargo
  <2> DEFINE new == {c} \X (1 .. n)
  <2>2. n \in Nat /\ MaxBatch \in Nat
    BY BoundsAssumption
  <2>3. IsFiniteSet(new) /\ Cardinality(new) = n
    <3>1. IsFiniteSet({c}) /\ Cardinality({c}) = 1
      BY FS_Singleton
    <3>2. IsFiniteSet(1 .. n) /\ Cardinality(1 .. n) = n
      BY <2>2, FS_Interval
    <3>3. IsFiniteSet(new) /\ Cardinality(new) = Cardinality({c}) * Cardinality(1 .. n)
      BY <3>1, <3>2, FS_Product, Zenon
    <3> QED BY <2>2, <3>1, <3>2, <3>3
  <2>4. \A d \in Connections : x \in ReadsOf(d) <=> d = c
    BY <1>2, <2>1 DEF ReadsOf
  <2>5. Brought(H \cup {x}) = Brought(H) \cup new
    <3>1. ASSUME NEW p \in Brought(H \cup {x}) PROVE p \in Brought(H) \cup new
      <4>1. /\ p[1] \in Connections /\ p[2] \in 1 .. MaxBatch /\ p = <<p[1], p[2]>>
            /\ p \in Connections \X (1 .. MaxBatch)
        BY DEF Brought
      <4>2. PICK h \in (H \cup {x}) \cap ReadsOf(p[1]) : p[2] <= h.brings
        BY DEF Brought
      <4>3. CASE h \in H
        BY <4>1, <4>2, <4>3 DEF Brought
      <4>4. CASE h = x
        <5> HIDE DEF new
        <5>1. p[1] = c
          BY <2>4, <4>1, <4>2, <4>4
        <5>2. p[2] \in 1 .. n
          <6>1. p[2] <= n
            BY <2>1, <4>2, <4>4
          <6> QED BY <2>2, <4>1, <6>1
        <5> QED BY <4>1, <5>1, <5>2 DEF new
      <4> QED BY <4>2, <4>3, <4>4
    <3>2. Brought(H) \subseteq Brought(H \cup {x})
      BY DEF Brought
    <3>3. ASSUME NEW k \in 1 .. n PROVE <<c, k>> \in Brought(H \cup {x})
      <4>1. <<c, k>> \in Connections \X (1 .. MaxBatch) /\ k <= x.brings
        BY <2>1, <2>2
      <4>2. x \in (H \cup {x}) \cap ReadsOf(c)
        BY <2>4
      <4> QED BY <4>1, <4>2 DEF Brought
    <3> QED BY <3>1, <3>2, <3>3
  <2>6. Brought(H) \cap new = {}
    BY <1>2, <2>1 DEF Brought
  <2> HIDE DEF new
  <2>7. Cardinality(Brought(H) \cup new)
          = Cardinality(Brought(H)) + Cardinality(new) - Cardinality(Brought(H) \cap new)
    BY <2>3, BroughtFinite, FS_Union
  <2>8. Cardinality({}) = 0
    BY FS_EmptySet
  <2>9. Cardinality(Brought(H)) \in Nat
    BY BroughtFinite
  <2>10. Cardinality(Brought(H) \cup new) = Cardinality(Brought(H)) + n
    <3>1. Cardinality(Brought(H) \cap new) = 0
      BY <2>6, <2>8
    <3>2. Cardinality(new) = n
      BY <2>3
    <3> QED BY <2>2, <2>7, <2>9, <3>1, <3>2
  <2> QED BY <2>1, <2>5, <2>10
<1> QED BY <1>1, <1>2

LEMMA NextCounted ==
  ASSUME TypeOK, Loops, Counted, [Next]_vars
  PROVE  Counted'
<1>t. asked \in Nat /\ sent \in Nat /\ 0 \in 0 .. MaxBatch
  BY BoundsAssumption DEF TypeOK
<1>c. Cardinality(Brought(Held(ready))) \in Nat /\ asked + Cardinality(Brought(Held(ready))) = sent
  BY BroughtFinite DEF Counted, Coming
<1>d. \A H : H = Held(ready)' => (Counted' <=> asked' + Cardinality(Brought(H)) = sent')
  <2> SUFFICES ASSUME NEW H, H = Held(ready)'
               PROVE  Counted' <=> asked' + Cardinality(Brought(H)) = sent'
    OBVIOUS
  <2>1. Brought(Held(ready))' = Brought(H)
    BY DEF Brought, ReadsOf
  <2> QED BY <2>1 DEF Counted, Coming
<1>0. CASE UNCHANGED vars
  <2>1. Held(ready)' = Held(ready)
    BY <1>0 DEF vars, Held
  <2> QED BY <1>0, <1>c, <1>d, <2>1 DEF vars

\* A handler is added.
<1>1. ASSUME NEW x \in Handlers, Shift({}, Held(ready), {x}),
             x.run = "read" => Held(ready) \cap ReadsOf(x.on) = {},
             asked' = asked, sent' = sent + Cargo(x)
      PROVE  Counted'
  <2>1. PICK H : H = Held(ready)'
    OBVIOUS
  <2>2. H = Held(ready) \cup {x}
    BY <1>1, <2>1 DEF Shift
  <2>3. Cardinality(Brought(H)) = Cardinality(Brought(Held(ready))) + Cargo(x)
    BY <1>1, <2>2, BroughtAdds
  <2>4. Cargo(x) \in Int
    BY <1>1, Kinds, BoundsAssumption DEF Cargo
  <2>5. asked' + Cardinality(Brought(H)) = sent'
    BY <1>1, <1>c, <1>t, <2>3, <2>4
  <2> QED BY <2>1, <2>5, <1>d

\* A handler is run.
<1>2. ASSUME NEW x \in Handlers, NEW rest, NEW new, Shift({x}, rest, new),
             new = {} \/ \E c \in Connections : new = {ReadOf(c, 0)} /\ rest \cap ReadsOf(c) = {},
             asked' = asked + Cargo(x), sent' = sent
      PROVE  Counted'
  <2>1. PICK H : H = Held(ready)'
    OBVIOUS
  <2>2. H = rest \cup new /\ Held(ready) = rest \cup {x}
    BY <1>2, <2>1 DEF Shift
  <2>3. x.run = "read" => rest \cap ReadsOf(x.on) = {}
    <3> SUFFICES ASSUME x.run = "read" PROVE rest \cap ReadsOf(x.on) = {}
      OBVIOUS
    <3>1. x.on \in Connections /\ x \in ReadsOf(x.on)
      BY Kinds DEF ReadsOf
    <3> QED BY <1>2, <3>1 DEF Shift, Loops
  <2>4. Cardinality(Brought(Held(ready))) = Cardinality(Brought(rest)) + Cargo(x)
    BY <2>2, <2>3, BroughtAdds
  <2>5. Cardinality(Brought(H)) = Cardinality(Brought(rest))
    <3>1. CASE new = {}
      BY <2>2, <3>1
    <3>2. CASE new # {}
      <4>1. PICK c \in Connections : new = {ReadOf(c, 0)} /\ rest \cap ReadsOf(c) = {}
        BY <1>2, <3>2
      <4>2. PICK y \in Handlers : y = ReadOf(c, 0) /\ y.on = c /\ Cargo(y) = 0
        BY <1>t, Made DEF Cargo
      <4> QED BY <2>2, <4>1, <4>2, BroughtAdds, BroughtFinite
    <3> QED BY <3>1, <3>2
  <2>6. Cargo(x) \in Int
    BY Kinds, BoundsAssumption DEF Cargo
  <2>7. asked' + Cardinality(Brought(H)) = sent'
    BY <1>2, <1>c, <1>t, <2>4, <2>5, <2>6, BroughtFinite
  <2> QED BY <2>1, <2>7, <1>d
<1>3. CASE Connect
  <2>1. PICK h \in Accepts : Shift({}, Held(ready), {h})
    BY <1>3, Steps
  <2>2. h \in Handlers /\ h.run # "read"
    BY DEF Accepts
  <2> QED BY <1>1, <1>3, <1>t, <2>1, <2>2 DEF Connect, Cargo
<1>4. ASSUME NEW c \in Connections, NEW n \in 0 .. MaxBatch,
             Send(c, n) \/ (n = 0 /\ HangUp(c) /\ c \in reading)
      PROVE  Counted'
  <2>1. PICK x : x = ReadOf(c, n)
    OBVIOUS
  <2>2. Shift({}, Held(ready), {x}) /\ asked' = asked /\ sent' = sent + n /\ c \in reading
    <3>1. CASE Send(c, n)
      BY <2>1, <3>1, SendAdds DEF Send
    <3>2. CASE n = 0 /\ HangUp(c) /\ c \in reading
      <4>1. Shift({}, Held(ready), {x})
        BY <2>1, <3>2, HangUpAdds
      <4>2. asked' = asked /\ sent' = sent /\ sent \in Nat
        BY <3>2 DEF HangUp, TypeOK, Requests
      <4> QED BY <3>2, <4>1, <4>2
    <3> QED BY <1>4, <3>1, <3>2
  <2>3. Held(ready) \cap ReadsOf(c) = {}
    BY <2>2 DEF Loops, TypeOK
  <2>4. x \in Handlers /\ x.run = "read" /\ x.on = c /\ Cargo(x) = n
    BY <2>1, Made DEF Cargo
  <2> QED BY <1>1, <2>2, <2>3, <2>4
<1>5. ASSUME NEW c \in Connections, HangUp(c), c \notin reading PROVE Counted'
  <2>1. Held(ready)' = Held(ready) /\ asked' = asked /\ sent' = sent
    BY <1>5 DEF HangUp, Held
  <2> QED BY <2>1, <1>c, <1>d
<1>6. ASSUME NEW c \in Connections, SocketWrites(c) PROVE Counted'
  <2>1. PICK x \in {"wrote", "write_failed"} :
          Shift({}, Held(ready), {[run |-> x, piece |-> Head(writes[c])]})
    BY <1>6, Steps
  <2>2. PICK h : h = [run |-> x, piece |-> Head(writes[c])]
    OBVIOUS
  <2>3. h \in Handlers /\ h.run # "read" /\ Cargo(h) = 0
    BY <1>6, <2>2, Steps, Made DEF Cargo
  <2>4. asked' = asked /\ sent' = sent + Cargo(h)
    BY <1>6, <1>t, <2>3 DEF SocketWrites
  <2> QED BY <1>1, <2>1, <2>2, <2>3, <2>4
<1>7. ASSUME NEW m \in Requests, Wake(m) PROVE Counted'
  <2>1. Shift({}, Held(ready), {[run |-> "respond", to |-> m]})
    BY <1>7, Steps
  <2>2. PICK h : h = [run |-> "respond", to |-> m]
    OBVIOUS
  <2>3. h \in Handlers /\ h.run # "read" /\ Cargo(h) = 0
    BY <2>2, Made DEF Cargo
  <2>4. asked' = asked /\ sent' = sent + Cargo(h)
    BY <1>7, <1>t, <2>3 DEF Wake
  <2> QED BY <1>1, <2>1, <2>2, <2>3, <2>4
<1>8. CASE Accepted \/ Read
  <2>1. PICK h : h = Head(ready)
    OBVIOUS
  <2>2. PICK c : c = h.on
    OBVIOUS
  <2>3. h \in Handlers /\ h.run \in {"accepted", "read"} /\ c \in Connections
    BY <1>8, <2>1, <2>2, Steps, Kinds DEF RunOne, Accepted, Read, Taken
  <2>4. PICK rest, new : /\ Shift({h}, rest, new)
                         /\ new = IF c \in broken THEN {ReadOf(c, 0)} ELSE {}
    BY <1>8, <2>1, <2>2, Steps
  <2>5. rest \cap ReadsOf(c) = {}
    <3>1. CASE h.run = "read"
      <4>1. h \in ReadsOf(c)
        BY <2>2, <2>3, <3>1 DEF ReadsOf
      <4> QED BY <2>3, <2>4, <4>1 DEF Shift, Loops
    <3>2. CASE h.run = "accepted"
      <4>1. h \in Accepts /\ h \in Held(ready)
        BY <2>3, <2>4, <3>2 DEF Accepts, Shift
      <4>2. c \notin open
        BY <2>2, <4>1, BoundsAssumption DEF Loops
      <4>3. Held(ready) \cap ReadsOf(c) = {}
        BY <2>3, <4>2 DEF Loops
      <4> QED BY <2>4, <4>3 DEF Shift
    <3> QED BY <2>3, <3>1, <3>2
  <2>6. asked' = asked + Cargo(h) /\ sent' = sent
    BY <1>8, <1>t, <2>1, <2>3 DEF Accepted, Read, Taken, Cargo
  <2> QED BY <1>2, <2>3, <2>4, <2>5, <2>6
<1>9. CASE Refused \/ Respond \/ Wrote \/ WriteFailed
  <2>1. PICK h : h = Head(ready)
    OBVIOUS
  <2>2. h \in Handlers /\ h.run # "read"
    BY <1>9, <2>1, Steps DEF RunOne, Refused, Respond, Wrote, WriteFailed, Taken
  <2>3. PICK rest : Shift({h}, rest, {})
    BY <1>9, <2>1, Steps
  <2>4. asked' = asked + Cargo(h) /\ sent' = sent
    BY <1>9, <1>t, <2>2 DEF Refused, Respond, Wrote, WriteFailed, Cargo
  <2> QED BY <1>2, <2>2, <2>3, <2>4
<1> QED BY <1>0, <1>3, <1>4, <1>5, <1>6, <1>7, <1>8, <1>9, <1>t DEF Next, RunOne
-----------------------------------------------------------------------------
(* Types.                                                                  *)

LEMMA NextType ==
  ASSUME TypeOK, Loops, Carried, Counted', [Next]_vars
  PROVE  TypeOK'
<1>r. ready' \in Seq(Handlers)
  <2>1. CASE UNCHANGED vars
    BY <2>1 DEF vars, historyVars, TypeOK
  <2>2. CASE Next
    BY <2>2, Steps DEF Next, RunOne, Shift
  <2> QED BY <2>1, <2>2
<1>t. asked \in Nat /\ sent \in Nat /\ asked <= sent /\ sent <= MaxRequests /\ MaxBatch \in Nat
  BY BoundsAssumption DEF TypeOK

\* A step that reads nothing off a socket and sends nothing to one.
<1>e. ASSUME UNCHANGED <<socket, asked, sent, writes, wire>>,
             accepting' \in Connections \cup {None}, delayed' \subseteq delayed,
             open' \subseteq Connections, reading' \subseteq open',
             broken' \subseteq Connections, eager' \subseteq Connections, refused' \in BOOLEAN
      PROVE  TypeOK'
  BY <1>r, <1>e DEF TypeOK
<1>0. CASE UNCHANGED vars
  BY <1>0 DEF vars, historyVars, TypeOK
<1>1. CASE Connect
  BY <1>1, <1>e DEF Connect, historyVars, TypeOK
<1>2. ASSUME NEW c \in Connections, NEW n \in 0 .. MaxBatch, Send(c, n) PROVE TypeOK'
  <2>1. sent' \in 0 .. MaxRequests /\ asked' \in 0 .. sent'
    BY <1>2, <1>t, BoundsAssumption DEF Send
  <2>2. eager' \subseteq Connections /\ refused' \in BOOLEAN
    BY <1>2 DEF Send, TypeOK
  <2>3. /\ UNCHANGED <<accepting, open, broken, socket, asked, delayed, writes, wire>>
        /\ reading' \subseteq reading
    BY <1>2 DEF Send
  <2> QED BY <1>r, <2>1, <2>2, <2>3 DEF TypeOK
<1>3. ASSUME NEW c \in Connections, HangUp(c) PROVE TypeOK'
  BY <1>3, <1>e DEF HangUp, historyVars, TypeOK
<1>4. ASSUME NEW c \in Connections, SocketWrites(c) PROVE TypeOK'
  <2>1. writes[c] \in Seq(Piece) /\ wire[c] \in Seq(Piece) /\ writes[c] # <<>>
    BY <1>4 DEF SocketWrites, TypeOK
  <2>2. Tail(writes[c]) \in Seq(Piece) /\ Append(wire[c], Head(writes[c])) \in Seq(Piece)
    BY <2>1, HeadTaken, Appended
  <2>3. writes' \in [Connections -> Seq(Piece)] /\ wire' \in [Connections -> Seq(Piece)]
    BY <1>4, <2>2 DEF SocketWrites, TypeOK
  <2> QED BY <1>r, <1>4, <2>3 DEF SocketWrites, historyVars, TypeOK
<1>5. ASSUME NEW m \in Requests, Wake(m) PROVE TypeOK'
  BY <1>5, <1>e DEF Wake, historyVars, TypeOK
<1>6. CASE Accepted
  <2>1. PICK h : h = Head(ready)
    OBVIOUS
  <2>2. h \in Handlers /\ h.run = "accepted" /\ h \in Held(ready)
    BY <1>6, <2>1, Steps DEF RunOne, Accepted, Taken, Shift
  <2>3. h.on \in 1 .. MaxConnections /\ h.on + 1 \in Connections /\ h.on \in Connections
    BY <2>2, BoundsAssumption DEF Loops, Accepts, Connections
  <2>4. /\ open' = open \cup {h.on} /\ accepting' = h.on + 1
        /\ reading' \subseteq reading \cup {h.on}
        /\ UNCHANGED <<broken, socket, asked, sent, delayed, writes, wire, eager, refused>>
    BY <1>6, <2>1 DEF Accepted, AsyncRead, historyVars
  <2> QED BY <1>e, <2>3, <2>4 DEF TypeOK
<1>7. CASE Read
  <2>1. PICK h : h = Head(ready)
    OBVIOUS
  <2>2. h \in Handlers /\ h.run = "read" /\ h \in Held(ready)
    BY <1>7, <2>1, Steps DEF RunOne, Read, Taken, Shift
  <2>3. h.on \in Connections /\ h \in ReadsOf(h.on) /\ h.brings \in 0 .. MaxBatch
    BY <2>2, Kinds DEF ReadsOf
  <2>4. h.on \in open
    BY <2>2, <2>3 DEF Loops
  <2>5. /\ socket' = [m \in Requests |-> IF m \in (asked + 1) .. (asked + h.brings)
                                         THEN h.on ELSE socket[m]]
        /\ asked' = asked + h.brings
        /\ delayed' = delayed \cup ((asked + 1) .. (asked + h.brings))
        /\ reading' \subseteq reading \cup {h.on}
        /\ UNCHANGED <<accepting, open, broken, sent, writes, wire, eager, refused>>
    BY <1>7, <2>1 DEF Read, AsyncRead, historyVars
  <2>6. asked' <= sent'
    <3>1. Cardinality(Coming)' \in Nat
      BY BroughtFinite DEF Coming
    <3>2. asked' + Cardinality(Coming)' = sent'
      BY DEF Counted
    <3>3. asked' \in Nat /\ sent' \in Nat
      BY <1>t, <2>3, <2>5
    <3> QED BY <3>1, <3>2, <3>3
  <2>7. asked' \in 0 .. sent' /\ sent' \in 0 .. MaxRequests
    BY <1>t, <2>3, <2>5, <2>6, BoundsAssumption
  <2>8. delayed' \subseteq 1 .. asked'
    <3>1. h.brings \in Nat /\ delayed \subseteq 1 .. asked
      BY <1>t, <2>3 DEF TypeOK
    <3>2. \A m \in 1 .. asked : m \in 1 .. (asked + h.brings)
      BY <1>t, <3>1
    <3>3. \A m \in (asked + 1) .. (asked + h.brings) : m \in 1 .. (asked + h.brings)
      BY <1>t, <3>1
    <3> QED BY <2>5, <3>1, <3>2, <3>3
  <2>9. socket' \in [Requests -> Connections \cup {None}]
    BY <2>3, <2>5 DEF TypeOK
  <2> QED BY <1>r, <2>4, <2>5, <2>7, <2>8, <2>9 DEF TypeOK
<1>8. CASE Respond \/ Wrote
  <2>1. PICK h : h = Head(ready)
    OBVIOUS
  <2>2. h \in Handlers /\ h \in Held(ready)
    BY <1>8, <2>1, Steps DEF RunOne, Shift
  <2>3. PICK m \in Requests :
          /\ m = IF h.run = "respond" THEN h.to ELSE h.piece[1]
          /\ h \in Bearing(m)
    BY <1>8, <2>1, <2>2, Kinds DEF Respond, Wrote, Taken, Bearing
  <2>4. socket[m] \in Connections
    BY <2>2, <2>3 DEF Carried
  <2>5. \/ UNCHANGED writes
        \/ \E k \in 1 .. Pieces : writes' = [writes EXCEPT ![socket[m]] = Append(@, <<m, k>>)]
    <3>1. CASE Respond
      <4>1. m = h.to /\ 1 \in 1 .. Pieces
        BY <2>1, <2>3, <3>1, BoundsAssumption DEF Respond, Taken
      <4>2. writes' = [writes EXCEPT ![socket[m]] = Append(@, <<m, 1>>)]
        BY <2>1, <3>1, <4>1 DEF Respond, WriteSome
      <4> QED BY <4>1, <4>2
    <3>2. CASE Wrote
      <4>1. h.run = "wrote" /\ h.piece[2] \in 1 .. Pieces
        BY <2>1, <2>2, <3>2, Kinds DEF Wrote, Taken
      <4>2. CASE h.piece[2] < Pieces
        <5>1. h.piece[2] + 1 \in 1 .. Pieces
          BY <4>1, <4>2, BoundsAssumption
        <5>2. m = h.piece[1]
          BY <2>3, <4>1
        <5>3. writes' = [writes EXCEPT ![socket[m]] = Append(@, <<m, h.piece[2] + 1>>)]
          BY <2>1, <3>2, <4>2, <5>2 DEF Wrote, WriteSome
        <5> QED BY <5>1, <5>3
      <4>3. CASE ~(h.piece[2] < Pieces)
        BY <2>1, <3>2, <4>3 DEF Wrote
      <4> QED BY <4>2, <4>3
    <3> QED BY <1>8, <3>1, <3>2
  <2>6. writes' \in [Connections -> Seq(Piece)]
    <3>1. ASSUME NEW k \in 1 .. Pieces,
                 writes' = [writes EXCEPT ![socket[m]] = Append(@, <<m, k>>)]
          PROVE  writes' \in [Connections -> Seq(Piece)]
      <4>1. <<m, k>> \in Piece /\ writes[socket[m]] \in Seq(Piece)
        BY <2>4 DEF Piece, TypeOK
      <4>2. Append(writes[socket[m]], <<m, k>>) \in Seq(Piece)
        BY <4>1, Appended
      <4> QED BY <2>4, <3>1, <4>2 DEF TypeOK
    <3> QED BY <2>5, <3>1 DEF TypeOK
  <2>7. UNCHANGED <<accepting, open, reading, broken, socket, asked, sent, delayed, wire, eager, refused>>
    BY <1>8 DEF Respond, Wrote, historyVars
  <2> QED BY <1>r, <2>6, <2>7 DEF TypeOK
<1>9. CASE Refused \/ WriteFailed
  BY <1>9, <1>e DEF Refused, WriteFailed, historyVars, TypeOK
<1> QED BY <1>0, <1>1, <1>2, <1>3, <1>4, <1>5, <1>6, <1>7, <1>8, <1>9 DEF Next, RunOne
-----------------------------------------------------------------------------
(* Responses.                                                              *)

LEMMA Bears ==
  ASSUME NEW h \in Handlers, NEW m
  PROVE  h \in Bearing(m) <=> \/ h.run = "respond" /\ h.to = m
                              \/ h.run \in {"wrote", "write_failed"} /\ h.piece[1] = m
  BY DEF Bearing

\* The socket of c takes a piece of the response to m.
SocketTook(c, m, k, x) ==
  /\ Shift({}, Held(ready), {[run |-> x, piece |-> <<m, k>>]})
  /\ <<m, k>> \in Held(writes[c])
  /\ Held(writes'[c]) \subseteq Held(writes[c])
  /\ \A S : Once(S, writes[c]) => /\ Once(S, writes'[c])
                                  /\ <<m, k>> \in S => Held(writes'[c]) \cap S = {}
  /\ wire'[c] = IF x = "wrote" THEN Append(wire[c], <<m, k>>) ELSE wire[c]
  /\ \A d \in Connections \ {c} : writes'[d] = writes[d] /\ wire'[d] = wire[d]
  /\ UNCHANGED <<socket, asked, delayed, eager>>

LEMMA SocketTakes ==
  ASSUME TypeOK, NEW c \in Connections, SocketWrites(c)
  PROVE  \E m \in Requests, k \in 1 .. Pieces, x \in {"wrote", "write_failed"} :
           SocketTook(c, m, k, x)
<1>1. PICK p \in Piece : p = Head(writes[c])
  BY Steps
<1>2. PICK m \in Requests, k \in 1 .. Pieces : p = <<m, k>>
  BY DEF Piece
<1>3. PICK x \in {"wrote", "write_failed"} :
        /\ x = "wrote" <=> c \notin broken
        /\ Shift({}, Held(ready), {[run |-> x, piece |-> <<m, k>>]})
  BY <1>1, <1>2, Steps
<1>4. writes[c] \in Seq(Piece) /\ writes[c] # <<>> /\ writes'[c] = Tail(writes[c])
  BY DEF SocketWrites, TypeOK
<1>5. /\ Held(writes[c]) = {<<m, k>>} \cup Held(writes'[c])
      /\ \A S : Once(S, writes[c]) => /\ Once(S, writes'[c])
                                      /\ <<m, k>> \in S => Held(writes'[c]) \cap S = {}
  <2>1. PICK q \in Seq(Piece) : q = writes[c]
    BY <1>4
  <2>2. /\ Held(q) = {Head(q)} \cup Held(Tail(q))
        /\ \A S : Once(S, q) => /\ Once(S, Tail(q))
                                /\ Head(q) \in S => Held(Tail(q)) \cap S = {}
    BY <1>4, <2>1, HeadTaken
  <2>3. Head(q) = <<m, k>> /\ Tail(q) = writes'[c]
    BY <1>1, <1>2, <1>4, <2>1
  <2> QED BY <2>1, <2>2, <2>3
<1>6. /\ wire'[c] = IF x = "wrote" THEN Append(wire[c], <<m, k>>) ELSE wire[c]
      /\ \A d \in Connections \ {c} : writes'[d] = writes[d] /\ wire'[d] = wire[d]
      /\ UNCHANGED <<socket, asked, delayed, eager>>
  BY <1>1, <1>2, <1>3 DEF SocketWrites, historyVars, TypeOK
<1> QED BY <1>3, <1>5, <1>6 DEF SocketTook

\* A handler carries on with the response to m, for which piece k is next.
Goes(h, rest, m, k) ==
  /\ Shift({h}, rest, {})
  /\ h \in Bearing(m)
  /\ \/ h.run = "respond" /\ k = 1
     \/ h.run = "wrote" /\ k = h.piece[2] + 1
  /\ \/ UNCHANGED writes
     \/ /\ Held(writes'[socket[m]]) = Held(writes[socket[m]]) \cup {<<m, k>>}
        /\ \A S : Once(S, writes[socket[m]]) =>
                  \/ <<m, k>> \in S /\ Held(writes[socket[m]]) \cap S # {}
                  \/ Once(S, writes'[socket[m]])
        /\ \A d \in Connections \ {socket[m]} : writes'[d] = writes[d]
  /\ UNCHANGED <<socket, asked, delayed, wire, eager>>

LEMMA ResponseGoes ==
  ASSUME TypeOK, Carried, Respond \/ Wrote
  PROVE  \E h \in Handlers, m \in Requests, k \in Nat : \E rest : Goes(h, rest, m, k)
<1>1. PICK h : h = Head(ready)
  OBVIOUS
<1>2. PICK rest : Shift({h}, rest, {})
  BY <1>1, Steps
<1>3. h \in Handlers /\ h \in Held(ready) /\ h.run \in {"respond", "wrote"}
  BY <1>1, <1>2, Steps DEF RunOne, Shift, Respond, Wrote, Taken
<1>4. PICK m \in Requests, k \in Nat :
        /\ h \in Bearing(m)
        /\ m = IF h.run = "respond" THEN h.to ELSE h.piece[1]
        /\ k = IF h.run = "respond" THEN 1 ELSE h.piece[2] + 1
  <2>1. CASE h.run = "respond"
    <3>1. h.to \in Requests /\ h \in Bearing(h.to)
      BY <1>3, <2>1, Kinds, Bears
    <3> QED BY <2>1, <3>1
  <2>2. CASE h.run = "wrote"
    <3>1. h.piece[1] \in Requests /\ h \in Bearing(h.piece[1]) /\ h.piece[2] + 1 \in Nat
      BY <1>3, <2>2, Kinds, Bears, BoundsAssumption
    <3> QED BY <2>2, <3>1
  <2> QED BY <1>3, <2>1, <2>2
<1>5. socket[m] \in Connections
  BY <1>3, <1>4 DEF Carried
<1>6. UNCHANGED writes \/ (writes' = [writes EXCEPT ![socket[m]] = Append(@, <<m, k>>)] /\ k <= Pieces)
  <2>1. CASE Respond
    <3>1. h.run = "respond" /\ h.to = m /\ k = 1
      BY <1>1, <1>4, <2>1 DEF Respond, Taken
    <3>2. writes' = [writes EXCEPT ![socket[m]] = Append(@, <<m, 1>>)]
      BY <1>1, <2>1, <3>1 DEF Respond, WriteSome
    <3> QED BY <3>1, <3>2, BoundsAssumption
  <2>2. CASE Wrote
    <3>1. h.run = "wrote" /\ h.piece[1] = m /\ k = h.piece[2] + 1 /\ h.piece[2] \in 1 .. Pieces
      BY <1>1, <1>3, <1>4, <2>2, Kinds DEF Wrote, Taken
    <3>2. \/ UNCHANGED writes
          \/ /\ h.piece[2] < Pieces
             /\ writes' = [writes EXCEPT ![socket[h.piece[1]]] = Append(@, <<h.piece[1], h.piece[2] + 1>>)]
      BY <1>1, <2>2 DEF Wrote, WriteSome
    <3>3. h.piece[2] < Pieces => k <= Pieces
      BY <3>1, BoundsAssumption
    <3> QED BY <3>1, <3>2, <3>3
  <2> QED BY <2>1, <2>2
<1>7. ASSUME writes' = [writes EXCEPT ![socket[m]] = Append(@, <<m, k>>)], k <= Pieces
      PROVE  /\ Held(writes'[socket[m]]) = Held(writes[socket[m]]) \cup {<<m, k>>}
             /\ \A S : Once(S, writes[socket[m]]) =>
                       \/ <<m, k>> \in S /\ Held(writes[socket[m]]) \cap S # {}
                       \/ Once(S, writes'[socket[m]])
             /\ \A d \in Connections \ {socket[m]} : writes'[d] = writes[d]
  <2>1. k \in 1 .. Pieces
    <3>1. h.run # "respond" => h.piece[2] \in 1 .. Pieces
      BY <1>3, Kinds
    <3>2. Pieces \in Nat /\ k \in Nat
      BY <1>4, BoundsAssumption
    <3>3. k # 0
      BY <1>4, <3>1, <3>2
    <3> QED BY <1>7, <3>2, <3>3
  <2>2. <<m, k>> \in Piece /\ writes[socket[m]] \in Seq(Piece)
    BY <1>5, <2>1 DEF Piece, TypeOK
  <2>3. writes'[socket[m]] = Append(writes[socket[m]], <<m, k>>)
    BY <1>5, <1>7 DEF TypeOK
  <2>4. PICK q \in Seq(Piece) : q = writes[socket[m]]
    BY <2>2
  <2>5. /\ Held(Append(q, <<m, k>>)) = Held(q) \cup {<<m, k>>}
        /\ \A S : Once(S, q) /\ (<<m, k>> \in S => Held(q) \cap S = {})
                  => Once(S, Append(q, <<m, k>>))
    BY <2>2, Appended
  <2>6. \A d \in Connections \ {socket[m]} : writes'[d] = writes[d]
    BY <1>7 DEF TypeOK
  <2> QED BY <2>3, <2>4, <2>5, <2>6
<1>8. UNCHANGED <<socket, asked, delayed, wire, eager>>
  BY DEF Respond, Wrote, historyVars
<1>9. \/ h.run = "respond" /\ k = 1
      \/ h.run = "wrote" /\ k = h.piece[2] + 1
  BY <1>3, <1>4
<1> QED BY <1>2, <1>3, <1>4, <1>6, <1>7, <1>8, <1>9 DEF Goes

\* The steps that carry on with no response.
Idles(out, rest, new) ==
  /\ Shift(out, rest, new)
  /\ \A m \in Requests : new \cap Bearing(m) = {}
  /\ UNCHANGED <<socket, asked, delayed, writes, wire>>

\* A read gives c the requests asked + 1 .. asked + n.
Reads(c, n, h, rest, new) ==
  /\ Shift({h}, rest, new)
  /\ h \in ReadsOf(c) /\ h.brings = n /\ n \in Nat
  /\ \A m \in Requests : (new \cup {h}) \cap Bearing(m) = {}
  /\ socket' = [m \in Requests |-> IF m \in (asked + 1) .. (asked + n) THEN c ELSE socket[m]]
  /\ asked' = asked + n
  /\ delayed' = delayed \cup ((asked + 1) .. (asked + n))
  /\ new = {} \/ new = {ReadOf(c, 0)}
  /\ UNCHANGED <<writes, wire, eager>>

LEMMA ReadReads ==
  ASSUME TypeOK, Read
  PROVE  \E c \in Connections, n \in 0 .. MaxBatch, h \in Handlers : \E rest, new : Reads(c, n, h, rest, new)
<1>1. PICK h : h = Head(ready)
  OBVIOUS
<1>2. PICK c : c = h.on
  OBVIOUS
<1>3. h \in Handlers /\ h.run = "read" /\ c \in Connections /\ 0 \in 0 .. MaxBatch
  BY <1>1, <1>2, Steps, Kinds, BoundsAssumption DEF RunOne, Read, Taken
<1>4. PICK rest, new : /\ Shift({h}, rest, new)
                       /\ new = {} \/ new = {ReadOf(c, 0)}
  BY <1>1, <1>2, Steps
<1>5. \A m \in Requests : new \cap Bearing(m) = {} /\ h \notin Bearing(m)
  <2>1. \A m \in Requests : ReadOf(c, 0) \notin Bearing(m)
    BY <1>3, Made DEF Bearing
  <2> QED BY <1>3, <1>4, <2>1, Bears
<1>6. h \in ReadsOf(c) /\ h.brings \in 0 .. MaxBatch
  BY <1>2, <1>3, Kinds DEF ReadsOf
<1>7. /\ socket' = [m \in Requests |-> IF m \in (asked + 1) .. (asked + h.brings) THEN c ELSE socket[m]]
      /\ asked' = asked + h.brings
      /\ delayed' = delayed \cup ((asked + 1) .. (asked + h.brings))
      /\ UNCHANGED <<writes, wire, eager>>
  BY <1>1, <1>2 DEF Read, historyVars
<1>8. PICK n \in 0 .. MaxBatch : n = h.brings
  BY <1>6
<1>9. n \in Nat
  BY BoundsAssumption
<1>10. Reads(c, n, h, rest, new)
  BY <1>4, <1>5, <1>6, <1>7, <1>8, <1>9 DEF Reads
<1> QED BY <1>3, <1>10

LEMMA WhatHappens ==
  ASSUME TypeOK, Carried, [Next]_vars
  PROVE  \/ \E out, rest, new : Idles(out, rest, new)
         \/ \E c \in Connections, m \in Requests, k \in 1 .. Pieces, x \in {"wrote", "write_failed"} :
              SocketTook(c, m, k, x)
         \/ \E h \in Handlers, m \in Requests, k \in Nat : \E rest : Goes(h, rest, m, k)
         \/ \E c \in Connections, n \in 0 .. MaxBatch, h \in Handlers : \E rest, new : Reads(c, n, h, rest, new)
         \/ \E m \in delayed : Wake(m)
<1>r. ready \in Seq(Handlers) /\ 0 \in 0 .. MaxBatch
  BY BoundsAssumption DEF TypeOK
<1>s. \A c \in Connections, n \in 0 .. MaxBatch, m \in Requests : ReadOf(c, n) \notin Bearing(m)
  BY Made DEF Bearing
<1>0. CASE UNCHANGED vars
  BY <1>0, <1>r, Stays DEF vars, Idles
<1>1. CASE Connect
  <2>1. PICK h \in Accepts : Shift({}, Held(ready), {h})
    BY <1>1, Steps
  <2>2. \A m \in Requests : h \notin Bearing(m)
    BY DEF Accepts, Bearing
  <2> QED BY <1>1, <2>1, <2>2 DEF Idles, Connect
<1>2. ASSUME NEW c \in Connections, NEW n \in 0 .. MaxBatch, Send(c, n)
      PROVE  Idles({}, Held(ready), {ReadOf(c, n)})
  <2>1. Shift({}, Held(ready), {ReadOf(c, n)}) /\ UNCHANGED <<socket, asked, delayed, writes, wire>>
    BY <1>2, SendAdds DEF Send
  <2> QED BY <1>s, <2>1 DEF Idles
<1>3. ASSUME NEW c \in Connections, HangUp(c)
      PROVE  \E new : Idles({}, Held(ready), new)
  <2>1. PICK new : new = IF c \in reading THEN {ReadOf(c, 0)} ELSE {}
    OBVIOUS
  <2>2. Shift({}, Held(ready), new)
    BY <1>3, <2>1, HangUpAdds
  <2>3. \A m \in Requests : new \cap Bearing(m) = {}
    BY <1>r, <1>s, <2>1
  <2> QED BY <1>3, <2>2, <2>3 DEF Idles, HangUp
<1>4. CASE Accepted
  <2>1. PICK h, rest, new : /\ h = Head(ready) /\ h.on \in Connections
                            /\ Shift({h}, rest, new)
                            /\ new = {} \/ new = {ReadOf(h.on, 0)}
    BY <1>4, Steps
  <2>2. \A m \in Requests : new \cap Bearing(m) = {}
    BY <1>r, <1>s, <2>1
  <2> QED BY <1>4, <2>1, <2>2 DEF Idles, Accepted
<1>7. CASE Read
  BY <1>7, ReadReads
<1>5. CASE Refused \/ WriteFailed
  <2>1. Shift({Head(ready)}, Held(Tail(ready)), {})
    BY <1>5, Steps
  <2>2. UNCHANGED <<socket, asked, delayed, writes, wire>>
    BY <1>5 DEF Refused, WriteFailed
  <2> QED BY <2>1, <2>2 DEF Idles
<1>6. ASSUME NEW m \in Requests, Wake(m) PROVE m \in delayed
  BY <1>6 DEF Wake
<1> QED BY <1>0, <1>1, <1>2, <1>3, <1>4, <1>5, <1>6, <1>7, SocketTakes, ResponseGoes DEF Next, RunOne

LEMMA CarriedIf ==
  ASSUME \A m \in Requests :
           /\ socket'[m] \in Connections <=> m <= asked'
           /\ Once(Bearing(m), ready')
           /\ Held(ready)' \cap Bearing(m) # {} => m <= asked' /\ m \notin delayed'
           /\ \A c \in Connections :
                /\ Once(Of(m), writes'[c])
                /\ Held(writes'[c]) \cap Of(m) # {} =>
                     /\ m <= asked' /\ m \notin delayed' /\ socket'[m] = c
                     /\ Held(ready)' \cap Bearing(m) = {}
                /\ Held(wire'[c]) \cap Of(m) # {} => m <= asked' /\ socket'[m] = c
  PROVE  Carried'
<1>1. ASSUME NEW m \in Requests
      PROVE  /\ Bearing(m)' = Bearing(m) /\ Of(m)' = Of(m)
             /\ Once(Bearing(m), ready)' <=> Once(Bearing(m), ready')
             /\ \A c \in Connections : /\ Once(Of(m), writes[c])' <=> Once(Of(m), writes'[c])
                                       /\ Held(writes[c])' = Held(writes'[c])
                                       /\ Held(wire[c])' = Held(wire'[c])
  BY DEF Bearing, Of, Once, Held
<1> QED BY <1>1 DEF Carried

LEMMA NextCarried ==
  ASSUME TypeOK, Carried, [Next]_vars
  PROVE  Carried'
<1>t. asked \in Nat /\ delayed \subseteq 1 .. asked
  BY BoundsAssumption DEF TypeOK
<1>1. ASSUME NEW out, NEW rest, NEW new, Idles(out, rest, new) PROVE Carried'
  <2>1. \A m \in Requests :
          /\ Once(Bearing(m), ready')
          /\ Held(ready)' \cap Bearing(m) \subseteq Held(ready) \cap Bearing(m)
    BY <1>1 DEF Idles, Shift, Carried
  <2>2. UNCHANGED <<socket, asked, delayed, writes, wire>>
    BY <1>1 DEF Idles
  <2> QED BY <2>1, <2>2, CarriedIf DEF Carried
<1>2. ASSUME NEW c \in Connections, NEW q \in Requests, NEW k \in 1 .. Pieces,
             NEW x \in {"wrote", "write_failed"}, SocketTook(c, q, k, x)
      PROVE  Carried'
  <2>1. PICK y : y = [run |-> x, piece |-> <<q, k>>]
    OBVIOUS
  <2>2. <<q, k>> \in Piece /\ <<q, k>> \in Of(q) /\ \A m \in Requests \ {q} : <<q, k>> \notin Of(m)
    BY DEF Piece, Of
  <2>3. y \in Bearing(q) /\ \A m \in Requests \ {q} : y \notin Bearing(m)
    <3>1. y \in Handlers /\ y.run \in {"wrote", "write_failed"} /\ y.piece = <<q, k>>
      BY <2>1, <2>2, Made
    <3>2. y.run # "respond" /\ y.piece[1] = q
      BY <3>1
    <3> QED BY <3>1, <3>2, Bears
  <2>4. /\ q <= asked /\ q \notin delayed /\ socket[q] = c
        /\ Held(ready) \cap Bearing(q) = {}
    BY <1>2, <2>2 DEF SocketTook, Carried
  <2>5. Shift({}, Held(ready), {y})
    BY <1>2, <2>1 DEF SocketTook
  <2>6. \A m \in Requests :
          /\ Once(Bearing(m), ready')
          /\ Held(ready)' \cap Bearing(m) \subseteq (Held(ready) \cap Bearing(m)) \cup {y}
          /\ m # q => Held(ready)' \cap Bearing(m) \subseteq Held(ready) \cap Bearing(m)
    BY <2>3, <2>4, <2>5 DEF Shift, Carried
  <2>7. /\ \A m \in Requests, d \in Connections :
             /\ Once(Of(m), writes'[d])
             /\ Held(writes'[d]) \cap Of(m) \subseteq Held(writes[d]) \cap Of(m)
        /\ Held(writes'[c]) \cap Of(q) = {}
    BY <1>2, <2>2 DEF SocketTook, Carried
  <2>8. \A d \in Connections \ {c} : Held(writes'[d]) \cap Of(q) = {}
    BY <2>4, <2>7 DEF Carried
  <2>9. \A m \in Requests, d \in Connections :
          Held(wire'[d]) \cap Of(m) # {} => m <= asked /\ socket[m] = d
    <3> SUFFICES ASSUME NEW m \in Requests, NEW d \in Connections, Held(wire'[d]) \cap Of(m) # {}
                 PROVE  m <= asked /\ socket[m] = d
      OBVIOUS
    <3>1. Held(wire'[d]) \subseteq Held(wire[d]) \/ (d = c /\ Held(wire'[d]) = Held(wire[d]) \cup {<<q, k>>})
      <4>1. wire[d] \in Seq(Piece)
        BY DEF TypeOK
      <4>2. wire'[d] = wire[d] \/ (d = c /\ wire'[d] = Append(wire[d], <<q, k>>))
        BY <1>2 DEF SocketTook
      <4>3. Held(Append(wire[d], <<q, k>>)) = Held(wire[d]) \cup {<<q, k>>}
        BY <2>2, <4>1, Appended
      <4> QED BY <4>2, <4>3
    <3>2. CASE Held(wire[d]) \cap Of(m) # {}
      BY <3>2 DEF Carried
    <3>3. CASE Held(wire[d]) \cap Of(m) = {}
      <4>1. d = c /\ <<q, k>> \in Of(m)
        BY <3>1, <3>3
      <4> QED BY <2>2, <2>4, <4>1
    <3> QED BY <3>2, <3>3
  <2>10. UNCHANGED <<socket, asked, delayed>>
    BY <1>2 DEF SocketTook
  <2>11. \A m \in Requests :
           /\ socket'[m] \in Connections <=> m <= asked'
           /\ Held(ready)' \cap Bearing(m) # {} => m <= asked' /\ m \notin delayed'
           /\ \A d \in Connections :
                Held(writes'[d]) \cap Of(m) # {} =>
                     /\ m <= asked' /\ m \notin delayed' /\ socket'[m] = d
                     /\ Held(ready)' \cap Bearing(m) = {}
    <3> SUFFICES ASSUME NEW m \in Requests
                 PROVE  /\ socket[m] \in Connections <=> m <= asked
                        /\ Held(ready)' \cap Bearing(m) # {} => m <= asked /\ m \notin delayed
                        /\ \A d \in Connections :
                             Held(writes'[d]) \cap Of(m) # {} =>
                               /\ m <= asked /\ m \notin delayed /\ socket[m] = d
                               /\ Held(ready)' \cap Bearing(m) = {}
      BY <2>10
    <3>1. CASE m = q
      BY <2>4, <2>7, <2>8, <3>1 DEF Carried
    <3>2. CASE m # q
      BY <2>6, <2>7, <3>2 DEF Carried
    <3> QED BY <3>1, <3>2
  <2> QED BY <2>6, <2>7, <2>9, <2>10, <2>11, CarriedIf
<1>3. ASSUME NEW h \in Handlers, NEW q \in Requests, NEW k \in Nat, NEW rest, Goes(h, rest, q, k)
      PROVE  Carried'
  <2>1. /\ \A m \in Requests :
             /\ Once(Bearing(m), ready')
             /\ Held(ready)' \cap Bearing(m) \subseteq Held(ready) \cap Bearing(m)
        /\ Held(ready)' \cap Bearing(q) = {}
    BY <1>3 DEF Goes, Shift, Carried
  <2>2. /\ q <= asked /\ q \notin delayed /\ socket[q] \in Connections
        /\ \A c \in Connections : Held(writes[c]) \cap Of(q) = {}
    BY <1>3 DEF Goes, Shift, Carried
  <2>3. UNCHANGED <<socket, asked, delayed, wire>>
    BY <1>3 DEF Goes
  <2>4. CASE UNCHANGED writes
    BY <2>1, <2>3, <2>4, CarriedIf DEF Carried
  <2>5. CASE ~UNCHANGED writes
    <3>1. /\ Held(writes'[socket[q]]) = Held(writes[socket[q]]) \cup {<<q, k>>}
          /\ \A S : Once(S, writes[socket[q]]) =>
                      \/ <<q, k>> \in S /\ Held(writes[socket[q]]) \cap S # {}
                      \/ Once(S, writes'[socket[q]])
          /\ \A d \in Connections \ {socket[q]} : writes'[d] = writes[d]
      BY <1>3, <2>5 DEF Goes
    <3>2. \A m \in Requests \ {q} : <<q, k>> \notin Of(m)
      BY DEF Of
    <3>3. \A m \in Requests, c \in Connections :
            /\ Once(Of(m), writes'[c])
            /\ Held(writes'[c]) \cap Of(m) # {} =>
                 \/ Held(writes[c]) \cap Of(m) # {}
                 \/ m = q /\ c = socket[q]
      BY <2>2, <3>1, <3>2 DEF Carried
    <3> QED BY <2>1, <2>2, <2>3, <3>3, CarriedIf DEF Carried
  <2> QED BY <2>4, <2>5
<1>4. ASSUME NEW c \in Connections, NEW n \in 0 .. MaxBatch, NEW h \in Handlers, NEW rest, NEW new,
             Reads(c, n, h, rest, new)
      PROVE  Carried'
  <2>1. \A m \in Requests :
          /\ Once(Bearing(m), ready')
          /\ Held(ready)' \cap Bearing(m) \subseteq Held(ready) \cap Bearing(m)
    BY <1>4 DEF Reads, Shift, Carried
  <2>2. /\ socket' = [m \in Requests |-> IF m \in (asked + 1) .. (asked + n) THEN c ELSE socket[m]]
        /\ asked' = asked + n /\ n \in Nat
        /\ delayed' = delayed \cup ((asked + 1) .. (asked + n))
        /\ UNCHANGED <<writes, wire>>
    BY <1>4 DEF Reads
  <2>3. \A m \in Requests : m <= asked => /\ m <= asked' /\ socket'[m] = socket[m]
                                          /\ m \in delayed' <=> m \in delayed
    BY <1>t, <2>2 DEF Requests
  <2>4. \A m \in Requests : socket'[m] \in Connections <=> m <= asked'
    BY <1>t, <2>2 DEF Requests, Carried
  <2> QED BY <2>1, <2>2, <2>3, <2>4, CarriedIf DEF Carried
<1>5. ASSUME NEW q \in delayed, Wake(q) PROVE Carried'
  <2>1. PICK y : y = [run |-> "respond", to |-> q]
    OBVIOUS
  <2>2. q \in Requests /\ q <= asked
    <3>1. asked <= MaxRequests
      BY BoundsAssumption DEF TypeOK
    <3>2. q \in 1 .. asked
      BY <1>t
    <3> QED BY <1>t, <3>1, <3>2, BoundsAssumption DEF Requests
  <2>3. y \in Bearing(q) /\ \A m \in Requests \ {q} : y \notin Bearing(m)
    BY <2>1, <2>2, Made, Bears
  <2>4. Shift({}, Held(ready), {y})
    BY <1>5, <2>1, <2>2, Steps
  <2>5. /\ Held(ready) \cap Bearing(q) = {}
        /\ \A c \in Connections : Held(writes[c]) \cap Of(q) = {}
    BY <2>2 DEF Carried
  <2>6. \A m \in Requests :
          /\ Once(Bearing(m), ready')
          /\ m # q => Held(ready)' \cap Bearing(m) \subseteq Held(ready) \cap Bearing(m)
    BY <2>3, <2>4, <2>5 DEF Shift, Carried
  <2>7. delayed' = delayed \ {q} /\ UNCHANGED <<socket, asked, writes, wire>>
    BY <1>5 DEF Wake
  <2> QED BY <2>2, <2>5, <2>6, <2>7, CarriedIf DEF Carried
<1> QED BY <1>1, <1>2, <1>3, <1>4, <1>5, WhatHappens

LEMMA PlacesFinite ==
  ASSUME NEW w \in Seq(Piece), NEW m
  PROVE  IsFiniteSet(Places(w, m)) /\ Cardinality(Places(w, m)) \in Nat
<1>1. Len(w) \in Nat /\ Places(w, m) \in SUBSET (1 .. Len(w))
  BY DEF Places
<1>2. IsFiniteSet(1 .. Len(w))
  BY <1>1, FS_Interval
<1> QED BY <1>1, <1>2, FS_Subset, FS_CardinalityType

LEMMA OneMore ==
  ASSUME NEW w \in Seq(Piece), NEW q \in Requests, NEW k \in 1 .. Pieces,
         Numbered(w), Cardinality(Places(w, q)) = k - 1
  PROVE  LET v == Append(w, <<q, k>>) IN
         /\ Numbered(v)
         /\ Cardinality(Places(v, q)) = k
         /\ \A m \in Requests \ {q} : Places(v, m) = Places(w, m)
<1> DEFINE v == Append(w, <<q, k>>)
           n == Len(w) + 1
<1>1. /\ Len(w) \in Nat /\ DOMAIN w = 1 .. Len(w) /\ DOMAIN v = 1 .. n
      /\ v[n] = <<q, k>>
      /\ \A i \in 1 .. Len(w) : v[i] = w[i]
  BY DEF Piece
<1> HIDE DEF v
<1>2. v[n][1] = q /\ v[n][2] = k
  BY <1>1
<1>3. \A m \in Requests \ {q} : Places(v, m) = Places(w, m)
  <2> SUFFICES ASSUME NEW m \in Requests \ {q}, NEW j PROVE j \in Places(v, m) <=> j \in Places(w, m)
    BY DEF Places
  <2> QED BY <1>1, <1>2 DEF Places
<1>4. Places(v, q) = Places(w, q) \cup {n} /\ n \notin Places(w, q)
  <2>1. ASSUME NEW j PROVE j \in Places(v, q) <=> j \in Places(w, q) \/ j = n
    BY <1>1, <1>2 DEF Places
  <2> QED BY <1>1, <2>1 DEF Places
<1>5. Cardinality(Places(v, q)) = k
  <2>1. Cardinality(Places(w, q) \cup {n}) = Cardinality(Places(w, q)) + 1
    BY <1>4, PlacesFinite, FS_AddElement
  <2> QED BY <1>4, <2>1, BoundsAssumption
<1>6. ASSUME NEW i \in DOMAIN v PROVE v[i][2] = Cardinality({j \in 1 .. i : v[j][1] = v[i][1]})
  <2>1. CASE i = n
    <3>1. {j \in 1 .. i : v[j][1] = v[i][1]} = Places(v, q)
      BY <1>1, <1>2, <2>1 DEF Places
    <3> QED BY <1>2, <1>5, <2>1, <3>1
  <2>2. CASE i # n
    <3>1. i \in DOMAIN w /\ v[i] = w[i] /\ \A j \in 1 .. i : v[j] = w[j]
      BY <1>1, <2>2
    <3>2. {j \in 1 .. i : v[j][1] = v[i][1]} = {j \in 1 .. i : w[j][1] = w[i][1]}
      BY <3>1
    <3> QED BY <3>1, <3>2 DEF Numbered
  <2> QED BY <2>1, <2>2
<1>7. Numbered(v)
  BY <1>6 DEF Numbered
<1> QED BY <1>3, <1>5, <1>7 DEF v

LEMMA DeliveredIf ==
  ASSUME \A c \in Connections :
           /\ Numbered(wire'[c])
           /\ \A m \in Requests :
                /\ m \in delayed' => Places(wire'[c], m) = {}
                /\ \A h \in Held(ready)' \cap Bearing(m) :
                     /\ h.run = "respond" => Places(wire'[c], m) = {}
                     /\ h.run = "wrote" /\ socket'[m] = c =>
                          Cardinality(Places(wire'[c], m)) = h.piece[2]
                /\ \A p \in Held(writes'[c]) \cap Of(m) :
                     Cardinality(Places(wire'[c], m)) = p[2] - 1
  PROVE  Delivered'
<1>1. ASSUME NEW c \in Connections, NEW m \in Requests
      PROVE  /\ Bearing(m)' = Bearing(m) /\ Of(m)' = Of(m)
             /\ Places(wire[c], m)' = Places(wire'[c], m)
             /\ Cardinality(Places(wire[c], m))' = Cardinality(Places(wire'[c], m))
             /\ Held(writes[c])' = Held(writes'[c])
  BY DEF Bearing, Of, Places, Held
<1>2. \A c \in Connections : Numbered(wire[c])' <=> Numbered(wire'[c])
  BY DEF Numbered
<1> QED BY <1>1, <1>2 DEF Delivered

LEMMA NextDelivered ==
  ASSUME TypeOK, Carried, Delivered, [Next]_vars
  PROVE  Delivered'
<1>t. asked \in Nat /\ delayed \subseteq 1 .. asked /\ asked <= MaxRequests /\ MaxRequests \in Nat
  BY BoundsAssumption DEF TypeOK
<1>1. ASSUME NEW out, NEW rest, NEW new, Idles(out, rest, new) PROVE Delivered'
  <2>1. \A m \in Requests : Held(ready)' \cap Bearing(m) \subseteq Held(ready) \cap Bearing(m)
    BY <1>1 DEF Idles, Shift
  <2>2. UNCHANGED <<socket, asked, delayed, writes, wire>>
    BY <1>1 DEF Idles
  <2> QED BY <2>1, <2>2, DeliveredIf DEF Delivered
<1>2. ASSUME NEW c \in Connections, NEW q \in Requests, NEW k \in 1 .. Pieces,
             NEW x \in {"wrote", "write_failed"}, SocketTook(c, q, k, x)
      PROVE  Delivered'
  <2>1. PICK y : y = [run |-> x, piece |-> <<q, k>>]
    OBVIOUS
  <2>2. <<q, k>> \in Piece /\ <<q, k>> \in Of(q) /\ \A m \in Requests \ {q} : <<q, k>> \notin Of(m)
    BY DEF Piece, Of
  <2>3. y.run = x /\ y.piece[2] = k /\ \A m \in Requests \ {q} : y \notin Bearing(m)
    <3>1. y \in Handlers /\ y.run = x /\ y.piece = <<q, k>>
      BY <2>1, <2>2, Made
    <3>2. y.run # "respond" /\ y.piece[1] = q
      BY <3>1
    <3> QED BY <3>1, <3>2, Bears
  <2>4. /\ q <= asked /\ q \notin delayed /\ socket[q] = c
        /\ Held(ready) \cap Bearing(q) = {}
    BY <1>2, <2>2 DEF SocketTook, Carried
  <2>5. Shift({}, Held(ready), {y})
    BY <1>2, <2>1 DEF SocketTook
  <2>6. /\ Held(ready)' \cap Bearing(q) \subseteq {y}
        /\ \A m \in Requests \ {q} : Held(ready)' \cap Bearing(m) \subseteq Held(ready) \cap Bearing(m)
    BY <2>3, <2>4, <2>5 DEF Shift
  <2>7. /\ \A m \in Requests, d \in Connections :
             Held(writes'[d]) \cap Of(m) \subseteq Held(writes[d]) \cap Of(m)
        /\ Held(writes'[c]) \cap Of(q) = {}
    BY <1>2, <2>2 DEF SocketTook, Carried
  <2>8. \A d \in Connections : Held(writes'[d]) \cap Of(q) = {}
    BY <2>4, <2>7 DEF Carried
  <2>9. wire[c] \in Seq(Piece) /\ Numbered(wire[c]) /\ Cardinality(Places(wire[c], q)) = k - 1
    BY <1>2, <2>2 DEF SocketTook, Delivered, TypeOK
  <2>10. /\ Numbered(wire'[c])
         /\ x = "wrote" => Cardinality(Places(wire'[c], q)) = k
         /\ \A m \in Requests \ {q} : Places(wire'[c], m) = Places(wire[c], m)
    BY <1>2, <2>9, OneMore DEF SocketTook
  <2>11. \A d \in Connections \ {c} : wire'[d] = wire[d]
    BY <1>2 DEF SocketTook
  <2>12. UNCHANGED <<socket, asked, delayed>>
    BY <1>2 DEF SocketTook
  <2>13. \A d \in Connections : Numbered(wire'[d])
    BY <2>10, <2>11 DEF Delivered
  <2>14. ASSUME NEW d \in Connections, NEW m \in Requests \ {q}
         PROVE  /\ m \in delayed' => Places(wire'[d], m) = {}
                /\ \A h \in Held(ready)' \cap Bearing(m) :
                     /\ h.run = "respond" => Places(wire'[d], m) = {}
                     /\ h.run = "wrote" /\ socket'[m] = d =>
                          Cardinality(Places(wire'[d], m)) = h.piece[2]
                /\ \A p \in Held(writes'[d]) \cap Of(m) :
                     Cardinality(Places(wire'[d], m)) = p[2] - 1
    <3>1. Places(wire'[d], m) = Places(wire[d], m)
      BY <2>10, <2>11
    <3> QED BY <2>6, <2>7, <2>12, <3>1 DEF Delivered
  <2>15. ASSUME NEW d \in Connections
         PROVE  /\ q \notin delayed'
                /\ \A h \in Held(ready)' \cap Bearing(q) :
                     /\ h.run # "respond"
                     /\ h.run = "wrote" /\ socket'[q] = d =>
                          Cardinality(Places(wire'[d], q)) = h.piece[2]
                /\ Held(writes'[d]) \cap Of(q) = {}
    BY <2>3, <2>4, <2>6, <2>8, <2>10, <2>12
  <2> QED BY <2>13, <2>14, <2>15, DeliveredIf
<1>3. ASSUME NEW h \in Handlers, NEW q \in Requests, NEW k \in Nat, NEW rest, Goes(h, rest, q, k)
      PROVE  Delivered'
  <2>1. /\ \A m \in Requests : Held(ready)' \cap Bearing(m) \subseteq Held(ready) \cap Bearing(m)
        /\ h \in Held(ready) \cap Bearing(q)
    BY <1>3 DEF Goes, Shift
  <2>2. socket[q] \in Connections
    BY <2>1 DEF Carried
  <2>3. UNCHANGED <<socket, asked, delayed, wire>>
    BY <1>3 DEF Goes
  <2>4. Cardinality(Places(wire[socket[q]], q)) = k - 1
    <3>1. CASE h.run = "respond" /\ k = 1
      <4>1. Places(wire[socket[q]], q) = {}
        BY <2>1, <2>2, <3>1 DEF Delivered
      <4> QED BY <3>1, <4>1, FS_EmptySet
    <3>2. CASE h.run = "wrote" /\ k = h.piece[2] + 1
      <4>1. Cardinality(Places(wire[socket[q]], q)) = h.piece[2]
        BY <2>1, <2>2, <3>2 DEF Delivered
      <4>2. h.piece[2] \in Nat
        BY <3>2, Kinds, BoundsAssumption
      <4> QED BY <3>2, <4>1, <4>2
    <3> QED BY <1>3, <3>1, <3>2 DEF Goes
  <2>5. \A m \in Requests, c \in Connections : \A p \in Held(writes'[c]) \cap Of(m) :
          Cardinality(Places(wire[c], m)) = p[2] - 1
    <3> SUFFICES ASSUME NEW m \in Requests, NEW c \in Connections,
                        NEW p \in Held(writes'[c]) \cap Of(m)
                 PROVE  Cardinality(Places(wire[c], m)) = p[2] - 1
      OBVIOUS
    <3>1. CASE p \in Held(writes[c])
      BY <3>1 DEF Delivered
    <3>2. CASE p \notin Held(writes[c])
      <4>1. c = socket[q] /\ p = <<q, k>>
        BY <1>3, <2>2, <3>2 DEF Goes
      <4>2. m = q /\ p[2] = k
        BY <4>1 DEF Of
      <4> QED BY <2>4, <4>1, <4>2
    <3> QED BY <3>1, <3>2
  <2> QED BY <2>1, <2>3, <2>5, DeliveredIf DEF Delivered
<1>4. ASSUME NEW c \in Connections, NEW n \in 0 .. MaxBatch, NEW h \in Handlers, NEW rest, NEW new,
             Reads(c, n, h, rest, new)
      PROVE  Delivered'
  <2>1. \A m \in Requests : Held(ready)' \cap Bearing(m) \subseteq Held(ready) \cap Bearing(m)
    BY <1>4 DEF Reads, Shift
  <2>2. /\ socket' = [m \in Requests |-> IF m \in (asked + 1) .. (asked + n) THEN c ELSE socket[m]]
        /\ delayed' = delayed \cup ((asked + 1) .. (asked + n))
        /\ UNCHANGED <<writes, wire>>
    BY <1>4 DEF Reads
  <2>3. \A m \in Requests : m <= asked => /\ socket'[m] = socket[m]
                                          /\ m \in delayed' <=> m \in delayed
    BY <1>t, <2>2 DEF Requests
  <2>4. \A m \in Requests, d \in Connections : ~(m <= asked) => Places(wire[d], m) = {}
    <3> SUFFICES ASSUME NEW m \in Requests, NEW d \in Connections, NEW j \in Places(wire[d], m)
                 PROVE  m <= asked
      OBVIOUS
    <3>1. wire[d] \in Seq(Piece) /\ j \in DOMAIN wire[d] /\ wire[d][j][1] = m
      BY DEF TypeOK, Places
    <3>2. wire[d][j] \in Held(wire[d]) \cap Of(m)
      BY <3>1 DEF Held, Of
    <3> QED BY <3>2 DEF Carried
  <2>5. \A m \in Requests : Held(ready) \cap Bearing(m) # {} => m <= asked
    BY DEF Carried
  <2>6. \A m \in Requests, d \in Connections : m \in delayed' => Places(wire[d], m) = {}
    BY <2>3, <2>4 DEF Delivered
  <2>7. \A m \in Requests, d \in Connections : \A g \in Held(ready)' \cap Bearing(m) :
          /\ g.run = "respond" => Places(wire[d], m) = {}
          /\ g.run = "wrote" /\ socket'[m] = d => Cardinality(Places(wire[d], m)) = g.piece[2]
    BY <2>1, <2>3, <2>5 DEF Delivered
  <2>8. \A d \in Connections : Numbered(wire'[d]) /\ wire'[d] = wire[d] /\ writes'[d] = writes[d]
    BY <2>2 DEF Delivered
  <2>9. \A m \in Requests, d \in Connections : \A p \in Held(writes'[d]) \cap Of(m) :
          Cardinality(Places(wire'[d], m)) = p[2] - 1
    BY <2>8 DEF Delivered
  <2>10. \A m \in Requests, d \in Connections : m \in delayed' => Places(wire'[d], m) = {}
    BY <2>6, <2>8
  <2>11. \A m \in Requests, d \in Connections : \A g \in Held(ready)' \cap Bearing(m) :
           /\ g.run = "respond" => Places(wire'[d], m) = {}
           /\ g.run = "wrote" /\ socket'[m] = d => Cardinality(Places(wire'[d], m)) = g.piece[2]
    BY <2>7, <2>8
  <2> QED BY <2>8, <2>9, <2>10, <2>11, DeliveredIf
<1>5. ASSUME NEW q \in delayed, Wake(q) PROVE Delivered'
  <2>1. PICK y : y = [run |-> "respond", to |-> q]
    OBVIOUS
  <2>2. q \in Requests
    <3>1. q \in 1 .. asked
      BY <1>t
    <3> QED BY <1>t, <3>1 DEF Requests
  <2>3. y.run = "respond" /\ \A m \in Requests \ {q} : y \notin Bearing(m)
    BY <2>1, <2>2, Made, Bears
  <2>4. Shift({}, Held(ready), {y})
    BY <1>5, <2>1, <2>2, Steps
  <2>5. \A m \in Requests : Held(ready)' \cap Bearing(m) \subseteq
                              (Held(ready) \cap Bearing(m)) \cup (IF m = q THEN {y} ELSE {})
    BY <2>3, <2>4 DEF Shift
  <2>6. delayed' = delayed \ {q} /\ UNCHANGED <<socket, asked, writes, wire>>
    BY <1>5 DEF Wake
  <2>7. \A c \in Connections : Places(wire[c], q) = {}
    BY <2>2 DEF Delivered
  <2>8. \A m \in Requests, c \in Connections : \A g \in Held(ready)' \cap Bearing(m) :
          /\ g.run = "respond" => Places(wire[c], m) = {}
          /\ g.run = "wrote" /\ socket[m] = c => Cardinality(Places(wire[c], m)) = g.piece[2]
    BY <2>3, <2>5, <2>7 DEF Delivered
  <2> QED BY <2>6, <2>8, DeliveredIf DEF Delivered
<1> QED BY <1>1, <1>2, <1>3, <1>4, <1>5, WhatHappens
-----------------------------------------------------------------------------
(* Clients that ask when they have their last answer.                      *)

\* What is received stays received; a piece may be added.
LEMMA WireGrows ==
  ASSUME TypeOK, Carried, [Next]_vars
  PROVE  \/ UNCHANGED wire
         \/ \E c \in Connections, q \in Requests, k \in 1 .. Pieces :
              /\ <<q, k>> \in Held(writes[c])
              /\ wire'[c] = Append(wire[c], <<q, k>>)
              /\ \A d \in Connections \ {c} : wire'[d] = wire[d]
<1>1. ASSUME NEW c \in Connections, NEW q \in Requests, NEW k \in 1 .. Pieces,
             NEW x \in {"wrote", "write_failed"}, SocketTook(c, q, k, x), SocketWrites(c)
      PROVE  \/ UNCHANGED wire
             \/ /\ <<q, k>> \in Held(writes[c])
                /\ wire'[c] = Append(wire[c], <<q, k>>)
                /\ \A d \in Connections \ {c} : wire'[d] = wire[d]
  <2>1. CASE x = "wrote"
    BY <1>1, <2>1 DEF SocketTook
  <2>2. CASE x # "wrote"
    <3>1. wire'[c] = wire[c] /\ \A d \in Connections \ {c} : wire'[d] = wire[d]
      BY <1>1, <2>2 DEF SocketTook
    <3>2. wire \in [Connections -> Seq(Piece)] /\ wire' \in [Connections -> Seq(Piece)]
      <4>1. c \in broken => UNCHANGED wire
        BY <1>1 DEF SocketWrites
      <4>2. c \notin broken => wire' = [wire EXCEPT ![c] = Append(@, Head(writes[c]))]
        BY <1>1 DEF SocketWrites
      <4>3. Append(wire[c], Head(writes[c])) \in Seq(Piece)
        BY <1>1, Steps, Appended DEF TypeOK
      <4> QED BY <4>1, <4>2, <4>3 DEF TypeOK
    <3> QED BY <3>1, <3>2
  <2> QED BY <2>1, <2>2
<1>2. CASE \E c \in Connections : SocketWrites(c)
  BY <1>1, <1>2, SocketTakes
<1>3. CASE ~\E c \in Connections : SocketWrites(c)
  BY <1>3 DEF Next, vars, Connect, Send, HangUp, Wake, RunOne, Accepted, Refused, Read, Respond,
              Wrote, WriteFailed
<1> QED BY <1>2, <1>3

LEMMA AnsweredStays ==
  ASSUME TypeOK, Carried, [Next]_vars, NEW m, Answered(m)
  PROVE  Answered(m)'
<1>1. PICK c \in Connections : \E i \in DOMAIN wire[c] : wire[c][i] = <<m, Pieces>>
  BY DEF Answered
<1>2. PICK i \in DOMAIN wire[c] : wire[c][i] = <<m, Pieces>>
  BY <1>1
<1>3. i \in DOMAIN wire'[c] /\ wire'[c][i] = wire[c][i]
  <2>1. CASE wire'[c] = wire[c]
    BY <2>1
  <2>2. CASE wire'[c] # wire[c]
    <3>1. PICK p \in Piece : wire'[c] = Append(wire[c], p)
      BY <2>2, WireGrows DEF Piece
    <3>2. wire[c] \in Seq(Piece)
      BY DEF TypeOK
    <3> QED BY <3>1, <3>2
  <2> QED BY <2>1, <2>2
<1> QED BY <1>2, <1>3 DEF Answered

LEMMA NumberedBelow ==
  ASSUME NEW w \in Seq(Piece), Numbered(w), NEW i \in DOMAIN w
  PROVE  w[i][2] <= Cardinality(Places(w, w[i][1]))
<1> DEFINE before == {j \in 1 .. i : w[j][1] = w[i][1]}
<1>1. before \in SUBSET Places(w, w[i][1])
  BY DEF Places
<1>2. w[i][2] = Cardinality(before)
  BY DEF Numbered
<1> HIDE DEF before
<1> QED BY <1>1, <1>2, PlacesFinite, FS_Subset

LEMMA NextOrder ==
  ASSUME TypeOK, Carried, Delivered, Patience, [Next]_vars
  PROVE  PatientClientReadsInOrder'
<1>e. eager \subseteq eager'
  BY DEF Next, vars, historyVars, Connect, Send, HangUp, SocketWrites, Wake, RunOne, Accepted, Refused, Read,
         Respond, Wrote, WriteFailed
<1>1. CASE UNCHANGED wire
  BY <1>e, <1>1 DEF Patience, PatientClientReadsInOrder
<1>2. ASSUME NEW c \in Connections, NEW q \in Requests, NEW k \in 1 .. Pieces,
             <<q, k>> \in Held(writes[c]),
             wire'[c] = Append(wire[c], <<q, k>>),
             \A d \in Connections \ {c} : wire'[d] = wire[d]
      PROVE  PatientClientReadsInOrder'
  <2>1. /\ <<q, k>> \in Of(q) /\ <<q, k>> \in Piece
        /\ socket[q] = c /\ q <= asked
        /\ Cardinality(Places(wire[c], q)) = k - 1
        /\ wire[c] \in Seq(Piece) /\ Numbered(wire[c])
    <3>1. <<q, k>> \in Of(q) /\ <<q, k>> \in Piece
      BY DEF Of, Piece
    <3> QED BY <1>2, <3>1 DEF Carried, Delivered, TypeOK
  <2>2. ASSUME NEW i \in DOMAIN wire[c]
        PROVE  wire[c][i][1] \in Requests /\ wire[c][i][1] <= asked /\ socket[wire[c][i][1]] = c
    <3>1. wire[c][i] \in Piece
      BY <2>1
    <3>2. wire[c][i][1] \in Requests /\ wire[c][i] \in Held(wire[c]) \cap Of(wire[c][i][1])
      BY <3>1 DEF Piece, Held, Of
    <3> QED BY <3>2 DEF Carried
  <2>3. ~Answered(q)
    <3> SUFFICES ASSUME NEW d \in Connections, NEW i \in DOMAIN wire[d], wire[d][i] = <<q, Pieces>>
                 PROVE  FALSE
      BY DEF Answered
    <3>1. d = c
      <4>1. <<q, Pieces>> \in Of(q)
        BY BoundsAssumption DEF Of, Piece
      <4>2. <<q, Pieces>> \in Held(wire[d])
        BY DEF Held
      <4> QED BY <2>1, <4>1, <4>2 DEF Carried
    <3>2. Pieces <= Cardinality(Places(wire[c], q))
      BY <2>1, <3>1, NumberedBelow
    <3> QED BY <2>1, <3>2, BoundsAssumption
  <2>4. ASSUME c \notin eager, NEW i \in DOMAIN wire[c]
        PROVE  wire[c][i][1] < q \/ (wire[c][i][1] = q /\ wire[c][i][2] < k)
    <3>1. CASE wire[c][i][1] = q
      <4>1. wire[c][i][2] <= k - 1
        BY <2>1, <3>1, NumberedBelow
      <4>2. wire[c][i][2] \in 1 .. Pieces
        BY <2>1 DEF Piece
      <4> QED BY <3>1, <4>1, <4>2, BoundsAssumption
    <3>2. CASE wire[c][i][1] > q
      <4>1. PICK m \in 1 .. asked : m = wire[c][i][1] /\ socket[m] = c
        BY <2>2, BoundsAssumption DEF Requests, TypeOK
      <4>2. q \in 1 .. asked
        BY <2>1, BoundsAssumption DEF Requests, TypeOK
      <4>3. q < m
        BY <3>2, <4>1, <4>2, BoundsAssumption DEF TypeOK
      <4>4. Answered(q)
        BY <2>1, <2>4, <4>1, <4>2, <4>3 DEF Patience, Asks
      <4> QED BY <2>3, <4>4
    <3> QED BY <2>2, <3>1, <3>2, BoundsAssumption DEF Requests
  <2>5. ASSUME c \notin eager, NEW i \in DOMAIN wire'[c], NEW j \in DOMAIN wire'[c], i < j
        PROVE  \/ wire'[c][i][1] < wire'[c][j][1]
               \/ wire'[c][i][1] = wire'[c][j][1] /\ wire'[c][i][2] < wire'[c][j][2]
    <3>1. /\ Len(wire[c]) \in Nat /\ DOMAIN wire[c] = 1 .. Len(wire[c])
          /\ DOMAIN wire'[c] = 1 .. (Len(wire[c]) + 1)
          /\ wire'[c][Len(wire[c]) + 1] = <<q, k>>
          /\ \A n \in 1 .. Len(wire[c]) : wire'[c][n] = wire[c][n]
      BY <1>2, <2>1
    <3>2. i \in DOMAIN wire[c] /\ wire'[c][i] = wire[c][i]
      BY <2>5, <3>1
    <3>3. CASE j \in DOMAIN wire[c]
      <4>1. wire'[c][j] = wire[c][j]
        BY <3>1, <3>3
      <4> QED BY <2>5, <3>2, <3>3, <4>1 DEF Patience, PatientClientReadsInOrder
    <3>4. CASE j \notin DOMAIN wire[c]
      <4>1. wire'[c][j] = <<q, k>>
        BY <3>1, <3>4
      <4> QED BY <2>4, <2>5, <3>2, <4>1
    <3> QED BY <3>3, <3>4
  <2>6. ASSUME NEW d \in Connections \ {c}
        PROVE  wire'[d] = wire[d]
    BY <1>2
  <2> QED BY <1>e, <2>5, <2>6 DEF Patience, PatientClientReadsInOrder
<1> QED BY <1>1, <1>2, WireGrows

\* A step that brings no request: what has been asked is as it was.
LEMMA Calm ==
  ASSUME Patience, UNCHANGED <<socket, asked>>, eager \subseteq eager',
         \A m \in 1 .. asked : Answered(m) => Answered(m)',
         \A c \in Connections \ eager' : \A h \in Held(ready)' \cap ReadsOf(c) :
           h.brings > 0 => \/ h \in Held(ready)
                           \/ h.brings = 1 /\ \A m \in 1 .. asked : socket[m] = c => Answered(m)
  PROVE  Asks'
<1>1. ASSUME NEW c \in Connections \ eager', NEW h \in Held(ready)' \cap ReadsOf(c), h.brings > 0
      PROVE  h.brings = 1 /\ \A m \in 1 .. asked : socket[m] = c => Answered(m)'
  BY <1>1 DEF Patience, Asks
<1>2. ASSUME NEW c \in Connections \ eager', NEW m \in 1 .. asked, NEW q \in 1 .. asked,
             m < q, socket[m] = c, socket[q] = c
      PROVE  Answered(m)'
  BY <1>2 DEF Patience, Asks
<1>3. \A c \in Connections : ReadsOf(c)' = ReadsOf(c)
  BY DEF ReadsOf
<1> QED BY <1>1, <1>2, <1>3 DEF Asks

LEMMA NextAsks ==
  ASSUME TypeOK, Loops, Carried, Delivered, Patience, [Next]_vars, TypeOK'
  PROVE  Asks'
<1>t. asked \in Nat /\ asked <= MaxRequests /\ MaxRequests \in Nat /\ 0 \in 0 .. MaxBatch
  BY BoundsAssumption DEF TypeOK
<1>a. \A m : Answered(m) => Answered(m)'
  BY AnsweredStays
<1>1. CASE ~Read /\ ~\E c \in Connections, n \in 0 .. MaxBatch : Send(c, n)
  <2>1. UNCHANGED <<socket, asked, eager>>
    BY <1>1 DEF Next, vars, historyVars, Connect, HangUp, SocketWrites, Wake, RunOne, Accepted, Refused, Respond,
                Wrote, WriteFailed
  <2>2. ASSUME NEW h \in Held(ready)', h.run = "read", h.brings > 0 PROVE h \in Held(ready)
    <3>1. CASE UNCHANGED vars
      BY <3>1 DEF vars, Held
    <3>2. CASE Connect
      BY <2>2, <3>2, Steps DEF Shift, Accepts
    <3>3. ASSUME NEW c \in Connections, HangUp(c) PROVE h \in Held(ready)
      <4>1. h \in Held(ready) \/ h = ReadOf(c, 0)
        BY <3>3, Steps DEF Shift
      <4> QED BY <1>t, <2>2, <4>1, Made
    <3>4. ASSUME NEW c \in Connections, SocketWrites(c) PROVE h \in Held(ready)
      <4>1. h \in Held(ready) \/ \E x \in {"wrote", "write_failed"} : h = [run |-> x, piece |-> Head(writes[c])]
        BY <3>4, Steps DEF Shift
      <4> QED BY <2>2, <4>1
    <3>5. ASSUME NEW m \in Requests, Wake(m) PROVE h \in Held(ready)
      <4>1. h \in Held(ready) \/ h = [run |-> "respond", to |-> m]
        BY <3>5, Steps DEF Shift
      <4> QED BY <2>2, <4>1
    <3>6. CASE Accepted
      <4>1. h \in Held(ready) \/ (Head(ready).on \in Connections /\ h = ReadOf(Head(ready).on, 0))
        BY <3>6, Steps DEF Shift
      <4> QED BY <1>t, <2>2, <4>1, Made
    <3>7. CASE Refused \/ Respond \/ Wrote \/ WriteFailed
      BY <3>7, Steps DEF Shift
    <3> QED BY <3>1, <3>2, <3>3, <3>4, <3>5, <3>6, <3>7, <1>1 DEF Next, RunOne
  <2>3. \A c \in Connections \ eager' : \A h \in Held(ready)' \cap ReadsOf(c) :
          h.brings > 0 => h \in Held(ready)
    BY <2>2 DEF ReadsOf
  <2> QED BY <1>a, <2>1, <2>3, Calm
<1>2. ASSUME NEW c \in Connections, NEW n \in 0 .. MaxBatch, Send(c, n) PROVE Asks'
  <2>1. /\ UNCHANGED <<socket, asked>> /\ Shift({}, Held(ready), {ReadOf(c, n)})
        /\ eager' = IF n > 1 \/ (n = 1 /\ Waits(c)) THEN eager \cup {c} ELSE eager
    BY <1>2, SendAdds DEF Send
  <2>2. ASSUME c \notin eager', n > 0
        PROVE  n = 1 /\ \A m \in 1 .. asked : socket[m] = c => Answered(m)
    <3>1. n = 1 /\ ~Waits(c)
      BY <2>1, <2>2
    <3> QED BY <3>1 DEF Waits
  <2>3. ASSUME NEW d \in Connections \ eager', NEW h \in Held(ready)' \cap ReadsOf(d), h.brings > 0
        PROVE  \/ h \in Held(ready)
               \/ h.brings = 1 /\ \A m \in 1 .. asked : socket[m] = d => Answered(m)
    <3>1. h \in Held(ready) \/ h = ReadOf(c, n)
      BY <2>1 DEF Shift
    <3>2. h = ReadOf(c, n) => d = c /\ h.brings = n
      BY Made DEF ReadsOf
    <3> QED BY <2>2, <2>3, <3>1, <3>2
  <2>4. eager \subseteq eager'
    BY <2>1
  <2> QED BY <1>a, <2>1, <2>3, <2>4, Calm
<1>3. CASE Read
  <2>1. PICK c \in Connections, n \in 0 .. MaxBatch, h \in Handlers :
          \E rest, new : Reads(c, n, h, rest, new)
    BY <1>3, ReadReads
  <2>2. PICK rest, new : Reads(c, n, h, rest, new)
    BY <2>1
  <2>3. /\ Shift({h}, rest, new) /\ h \in ReadsOf(c) /\ h.brings = n /\ n \in Nat
        /\ h \in Held(ready) /\ rest \cap ReadsOf(c) = {}
        /\ socket' = [m \in Requests |-> IF m \in (asked + 1) .. (asked + n) THEN c ELSE socket[m]]
        /\ asked' = asked + n
        /\ UNCHANGED eager
        /\ new = {} \/ new = {ReadOf(c, 0)}
    BY <2>2 DEF Reads, Shift, Loops
  <2>4. \A m \in 1 .. asked : m \in Requests /\ m \in 1 .. asked' /\ socket'[m] = socket[m]
    BY <1>t, <2>3 DEF Requests
  <2>5. \A m \in 1 .. asked' : m \in 1 .. asked \/ (m \in (asked + 1) .. (asked + n))
    BY <1>t, <2>3
  <2>6. \A m \in (asked + 1) .. (asked + n) : m \in Requests => socket'[m] = c
    BY <2>3
  <2>7. 1 .. asked' \subseteq Requests
    <3>1. asked' <= MaxRequests
      BY <1>t DEF TypeOK
    <3> QED BY <1>t, <2>3, <3>1 DEF Requests
  <2>8. ASSUME NEW d \in Connections \ eager', NEW g \in Held(ready)' \cap ReadsOf(d), g.brings > 0
        PROVE  g.brings = 1 /\ \A m \in 1 .. asked' : socket'[m] = d => Answered(m)'
    <3>1. g \in rest
      <4>1. g \in rest \/ g = ReadOf(c, 0)
        BY <2>3 DEF Shift
      <4> QED BY <1>t, <2>8, <4>1, Made
    <3>2. d # c /\ g \in Held(ready) \cap ReadsOf(d)
      BY <2>3, <3>1 DEF Shift
    <3>3. g.brings = 1 /\ \A m \in 1 .. asked : socket[m] = d => Answered(m)
      BY <2>3, <2>8, <3>2 DEF Patience, Asks
    <3> QED BY <1>a, <2>4, <2>5, <2>6, <2>7, <3>2, <3>3
  <2>9. ASSUME NEW d \in Connections \ eager', NEW m \in 1 .. asked', NEW q \in 1 .. asked',
               m < q, socket'[m] = d, socket'[q] = d
        PROVE  Answered(m)'
    <3>1. CASE q \in 1 .. asked
      <4>1. m \in 1 .. asked
        BY <1>t, <2>9, <3>1
      <4> QED BY <1>a, <2>3, <2>4, <2>9, <3>1, <4>1 DEF Patience, Asks
    <3>2. CASE q \notin 1 .. asked
      <4>1. q \in (asked + 1) .. (asked + n) /\ d = c /\ n > 0
        BY <1>t, <2>3, <2>5, <2>6, <2>7, <2>9, <3>2
      <4>2. n = 1 /\ \A p \in 1 .. asked : socket[p] = c => Answered(p)
        BY <2>3, <4>1 DEF Patience, Asks
      <4>3. m \in 1 .. asked
        BY <1>t, <2>5, <2>9, <4>1, <4>2
      <4> QED BY <1>a, <2>4, <2>9, <4>1, <4>2, <4>3
    <3> QED BY <3>1, <3>2
  <2>10. \A d \in Connections : ReadsOf(d)' = ReadsOf(d)
    BY DEF ReadsOf
  <2> QED BY <2>8, <2>9, <2>10 DEF Asks
<1> QED BY <1>1, <1>2, <1>3
-----------------------------------------------------------------------------
LEMMA NextTcp == TInv /\ [Next]_vars => TInv'
<1> SUFFICES ASSUME TInv, [Next]_vars PROVE TInv'
  OBVIOUS
<1>1. TypeOK /\ Loops /\ Counted /\ Carried /\ Delivered /\ Patience
  BY DEF TInv
<1>2. Loops' /\ Counted' /\ Carried' /\ Delivered'
  BY <1>1, NextLoops, NextCounted, NextCarried, NextDelivered
<1>3. TypeOK'
  BY <1>1, <1>2, NextType
<1>4. Patience'
  BY <1>1, <1>3, NextOrder, NextAsks DEF Patience
<1> QED BY <1>2, <1>3, <1>4 DEF TInv

LEMMA TcpHolds == Spec => []TInv
  BY InitTcp, NextTcp, PTL DEF Spec

\* For any number of connections, requests and pieces: every queue, handler and
\* request of the stage is well typed, and no more requests are read than sent.
THEOREM TcpTypeCorrect == Spec => []TypeOK
<1>1. TInv => TypeOK
  BY DEF TInv
<1> QED BY <1>1, TcpHolds, PTL

LEMMA HandlersHeld ==
  TypeOK => \A i \in DOMAIN ready : ready[i] \in Handlers /\ ready[i] \in Held(ready)
  BY DEF TypeOK, Held

\* Of every accepted connection one read is under way or about to be handled.
THEOREM ReadLoopsGoOn == Spec => []EachConnectionReads
<1>1. ASSUME TInv, NEW c \in open
      PROVE  LET handlers == {i \in DOMAIN ready : ready[i].run = "read" /\ ready[i].on = c}
             IN /\ \A i, j \in handlers : i = j
                /\ c \in reading <=> handlers = {}
  <2>1. /\ c \in Connections /\ Once(ReadsOf(c), ready)
        /\ c \in reading <=> Held(ready) \cap ReadsOf(c) = {}
    BY <1>1 DEF TInv, TypeOK, Loops
  <2>2. \A i \in DOMAIN ready : ready[i].run = "read" /\ ready[i].on = c <=> ready[i] \in ReadsOf(c)
    BY <1>1, HandlersHeld DEF TInv, ReadsOf
  <2> QED BY <2>1, <2>2 DEF Once, Held
<1>2. TInv => EachConnectionReads
  BY <1>1 DEF EachConnectionReads
<1> QED BY <1>2, TcpHolds, PTL

\* One accept is under way or about to be handled, for the connection after those
\* that are open, as long as none has failed; after one that failed there is no
\* other.
THEOREM AcceptLoopGoesOn == Spec => []AcceptsUntilRefused
<1>1. TInv => AcceptsUntilRefused
  <2> SUFFICES ASSUME TInv PROVE AcceptsUntilRefused
    OBVIOUS
  <2> DEFINE handlers == {i \in DOMAIN ready : ready[i].run \in {"accepted", "refused"}}
  <2>1. \A i \in DOMAIN ready : i \in handlers <=> ready[i] \in Accepts
    BY HandlersHeld DEF TInv, Accepts
  <2>2. \A i, j \in handlers : i = j
    BY <2>1 DEF TInv, Loops, Once
  <2>3. handlers = {} <=> Held(ready) \cap Accepts = {}
    BY <2>1 DEF Held
  <2>4. /\ handlers # {} => accepting = None
        /\ refused <=> accepting = None /\ handlers = {}
        /\ accepting # None => open = 1 .. (accepting - 1)
    BY <2>3 DEF TInv, Loops
  <2> QED BY <2>2, <2>4 DEF AcceptsUntilRefused
<1> QED BY <1>1, TcpHolds, PTL

\* However many clients connect, send and hang up: every connection is read from
\* and the next one accepted, until an accept fails, by one operation each.
THEOREM AllLoopsGoOn == Spec => []LoopsGoOn
BY ReadLoopsGoOn, AcceptLoopGoesOn, PTL DEF LoopsGoOn

\* Whatever is delayed, mixed or cut off: a client receives pieces of responses
\* to its own requests only, each once and those of one response in order.
THEOREM PiecesAreOwn == Spec => []OwnPiecesInOrder
<1>1. TInv => OwnPiecesInOrder
  <2> SUFFICES ASSUME TInv, NEW c \in Connections, NEW i \in DOMAIN wire[c]
               PROVE  /\ socket[wire[c][i][1]] = c
                      /\ wire[c][i][2] = Cardinality({j \in 1 .. i : wire[c][j][1] = wire[c][i][1]})
    BY DEF OwnPiecesInOrder
  <2>1. wire[c][i] \in Piece
    BY DEF TInv, TypeOK
  <2>2. wire[c][i][1] \in Requests /\ wire[c][i] \in Held(wire[c]) \cap Of(wire[c][i][1])
    BY <2>1 DEF Piece, Held, Of
  <2> QED BY <2>2 DEF TInv, Carried, Delivered, Numbered
<1> QED BY <1>1, TcpHolds, PTL

\* A client that asks only when it has its last answer reads whole responses in
\* the order of its requests, whatever the other clients do.
THEOREM PatientClientsReadInOrder == Spec => []PatientClientReadsInOrder
<1>1. TInv => PatientClientReadsInOrder
  BY DEF TInv, Patience
<1> QED BY <1>1, TcpHolds, PTL
=============================================================================
