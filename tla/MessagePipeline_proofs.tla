------------------------ MODULE MessagePipeline_proofs -------------------------
(***************************************************************************)
(* Theorems about the stages that only look at a message or add to it, for *)
(* any tokens, any requests and any pipelines as in IsPipeline.            *)
(***************************************************************************)
EXTENDS MessagePipeline, Folding, FiniteSetTheorems

-----------------------------------------------------------------------------
(* What a text says: its last mark, its ranks.                             *)

LEMMA MaxIs ==
  ASSUME NEW S \in SUBSET Int, NEW x \in S, \A y \in S : y <= x
  PROVE  Max(S) = x
<1>1. x \in S /\ \A y \in S : x >= y
  OBVIOUS
<1>2. Max(S) \in S /\ \A y \in S : Max(S) >= y
  BY <1>1 DEF Max
<1>3. Max(S) \in Int /\ x \in Int
  BY <1>2
<1> QED BY <1>1, <1>2, <1>3

LEMMA LastMarkIs ==
  ASSUME NEW text \in Seq(STRING), NEW p \in 1 .. Len(text) + 1
  PROVE  /\ LastMark(text, p) = 0 \/ (LastMark(text, p) \in Marks(text) /\ LastMark(text, p) < p)
         /\ LastMark(text, p) \in 0 .. p - 1
         /\ \A q \in Marks(text) : q < p => q <= LastMark(text, p)
<1> DEFINE S == {q \in Marks(text) : q < p}
<1>0. Len(text) \in Nat /\ p \in Nat /\ S \in SUBSET (1 .. Len(text)) /\ S \cup {0} \in SUBSET Int
  BY DEF Marks
<1>1. CASE S = {}
  <2>1. S \cup {0} = {0} /\ {0} \in SUBSET Int /\ \A y \in {0} : y <= 0
    BY <1>1
  <2>2. Max(S \cup {0}) = 0
    <3> HIDE DEF S
    <3> QED BY <2>1, MaxIs
  <2> QED BY <1>0, <1>1, <2>2 DEF LastMark
<1>2. CASE S # {}
  <2>1. Max(S) \in S /\ \A y \in S : y <= Max(S)
    <3> HIDE DEF S
    <3> QED BY <1>0, <1>2, Highest
  <2>2. Max(S) \in S \cup {0} /\ \A y \in S \cup {0} : y <= Max(S)
    <3>1. Max(S) \in Nat /\ Max(S) \in S
      BY <1>0, <2>1
    <3> HIDE DEF S
    <3> QED BY <2>1, <3>1
  <2>3. Max(S \cup {0}) = Max(S)
    <3> HIDE DEF S
    <3> QED BY <1>0, <2>2, MaxIs
  <2>4. LastMark(text, p) = Max(S)
    BY <2>3 DEF LastMark
  <2>5. Max(S) \in Marks(text) /\ Max(S) < p /\ Max(S) \in 1 .. Len(text)
    BY <1>0, <2>1
  <2>6. Max(S) \in 0 .. p - 1
    BY <1>0, <2>5
  <2>7. \A q \in Marks(text) : q < p => q <= Max(S)
    BY <2>1
  <2> QED BY <2>4, <2>5, <2>6, <2>7
<1> QED BY <1>1, <1>2

LEMMA LastMarkSteps ==
  ASSUME NEW text \in Seq(STRING)
  PROVE  /\ LastMark(text, 1) = 0 /\ ~Opened(text, 1)
         /\ \A k \in 1 .. Len(text) :
              /\ k \in Marks(text) => /\ LastMark(text, k + 1) = k
                                      /\ Opened(text, k + 1) <=> text[k] = "["
              /\ k \notin Marks(text) => /\ LastMark(text, k + 1) = LastMark(text, k)
                                         /\ Opened(text, k + 1) <=> Opened(text, k)
<1>0. Len(text) \in Nat /\ DOMAIN text = 1 .. Len(text)
  OBVIOUS
<1>1. LastMark(text, 1) = 0 /\ ~Opened(text, 1)
  BY <1>0, LastMarkIs DEF Opened
<1>2. ASSUME NEW k \in 1 .. Len(text)
      PROVE  /\ k \in Marks(text) => LastMark(text, k + 1) = k
             /\ k \notin Marks(text) => LastMark(text, k + 1) = LastMark(text, k)
  <2>1. k \in Nat /\ k \in 1 .. Len(text) + 1 /\ k + 1 \in 1 .. Len(text) + 1
    BY <1>0
  <2>2. ASSUME k \in Marks(text) PROVE LastMark(text, k + 1) = k
    <3>1. k <= LastMark(text, k + 1) /\ LastMark(text, k + 1) \in 0 .. (k + 1) - 1
      BY <2>1, <2>2, LastMarkIs
    <3> QED BY <2>1, <3>1
  <2>3. ASSUME k \notin Marks(text) PROVE LastMark(text, k + 1) = LastMark(text, k)
    <3>1. Marks(text) \in SUBSET Nat
      BY <1>0 DEF Marks
    <3>2. {q \in Marks(text) : q < k + 1} = {q \in Marks(text) : q < k}
      BY <2>1, <2>3, <3>1
    <3> QED BY <3>2 DEF LastMark
  <2> QED BY <2>2, <2>3
<1>3. ASSUME NEW k \in 1 .. Len(text), k \in Marks(text) PROVE Opened(text, k + 1) <=> text[k] = "["
  BY <1>2, <1>3 DEF Opened
<1>4. ASSUME NEW k \in 1 .. Len(text), k \notin Marks(text) PROVE Opened(text, k + 1) <=> Opened(text, k)
  BY <1>2, <1>4 DEF Opened
<1> QED BY <1>1, <1>2, <1>3, <1>4

LEMMA RankSteps ==
  ASSUME NEW text \in Seq(STRING)
  PROVE  /\ Rank(text, 0) = 0
         /\ \A k \in 0 .. Len(text) : Rank(text, k) \in Nat
         /\ \A k \in 1 .. Len(text) :
              Rank(text, k) = IF k \in Closings(text) THEN Rank(text, k - 1) + 1 ELSE Rank(text, k - 1)
<1> DEFINE Q(k) == {q \in Closings(text) : q <= k}
<1>0. Len(text) \in Nat /\ Closings(text) \in SUBSET (1 .. Len(text))
  BY DEF Closings, Marks
<1>1. ASSUME NEW k \in 0 .. Len(text) PROVE IsFiniteSet(Q(k)) /\ Cardinality(Q(k)) \in Nat
  <2>1. IsFiniteSet(1 .. Len(text)) /\ Q(k) \in SUBSET (1 .. Len(text))
    BY <1>0, FS_Interval
  <2>2. IsFiniteSet(Q(k))
    <3> HIDE DEF Q
    <3> QED BY <2>1, FS_Subset
  <2> QED BY <2>2, FS_CardinalityType
<1>2. Rank(text, 0) = 0
  <2>1. Q(0) = {}
    BY <1>0
  <2> QED BY <2>1, FS_EmptySet DEF Rank
<1>3. ASSUME NEW k \in 1 .. Len(text)
      PROVE Rank(text, k) = IF k \in Closings(text) THEN Rank(text, k - 1) + 1 ELSE Rank(text, k - 1)
  <2>1. k \in Nat /\ k - 1 \in 0 .. Len(text)
    BY <1>0
  <2>2. CASE k \in Closings(text)
    <3>1. Q(k) = Q(k - 1) \cup {k} /\ k \notin Q(k - 1)
      BY <1>0, <2>1, <2>2
    <3>2. Cardinality(Q(k - 1) \cup {k}) = Cardinality(Q(k - 1)) + 1
      <4>1. IsFiniteSet(Q(k - 1))
        BY <1>1, <2>1
      <4> HIDE DEF Q
      <4> QED BY <3>1, <4>1, FS_AddElement
    <3> QED BY <2>2, <3>1, <3>2 DEF Rank
  <2>3. CASE k \notin Closings(text)
    <3>1. Q(k) = Q(k - 1)
      BY <1>0, <2>1, <2>3
    <3> QED BY <2>3, <3>1 DEF Rank
  <2> QED BY <2>2, <2>3
<1> QED BY <1>1, <1>2, <1>3 DEF Rank

\* Ranks grow from closing to closing, and no faster than the text.
LEMMA RankOrder ==
  ASSUME NEW text \in Seq(STRING)
  PROVE  /\ \A k \in 0 .. Len(text) : Rank(text, k) <= k
         /\ \A p, q \in 0 .. Len(text) : p <= q => Rank(text, p) <= Rank(text, q)
         /\ \A p \in 0 .. Len(text), q \in Closings(text) : p < q => Rank(text, p) < Rank(text, q)
         /\ \A p, q \in Closings(text) : Rank(text, p) = Rank(text, q) => p = q
<1>0. Len(text) \in Nat /\ Closings(text) \in SUBSET (1 .. Len(text))
  BY DEF Closings, Marks
<1>a. \A k \in 0 .. Len(text) : Rank(text, k) \in Nat
  BY RankSteps
<1>b. ASSUME NEW k \in Nat, k + 1 <= Len(text)
      PROVE  Rank(text, k) <= Rank(text, k + 1) /\ Rank(text, k + 1) <= Rank(text, k) + 1
  <2>1. k + 1 \in 1 .. Len(text) /\ (k + 1) - 1 = k /\ k \in 0 .. Len(text)
    BY <1>0, <1>b
  <2>2. Rank(text, k + 1) = IF k + 1 \in Closings(text) THEN Rank(text, k) + 1 ELSE Rank(text, k)
    BY <2>1, RankSteps
  <2> QED BY <1>a, <2>1, <2>2
<1>1. ASSUME NEW k \in 0 .. Len(text) PROVE Rank(text, k) <= k
  <2> DEFINE G == {i \in Nat : i <= Len(text) => Rank(text, i) <= i}
  <2>1. 0 \in G
    BY RankSteps
  <2>2. ASSUME NEW i \in Nat, i \in G PROVE i + 1 \in G
    <3> SUFFICES ASSUME i + 1 <= Len(text) PROVE Rank(text, i + 1) <= i + 1
      OBVIOUS
    <3>1. i \in 0 .. Len(text) /\ i + 1 \in 0 .. Len(text) /\ Rank(text, i) <= i
      BY <1>0, <2>2
    <3> QED BY <1>a, <1>b, <3>1
  <2>3. \A i \in Nat : i \in G
    <3> HIDE DEF G
    <3> QED BY <2>1, <2>2, Counting
  <2> QED BY <1>0, <2>3
<1>2. ASSUME NEW p \in 0 .. Len(text), NEW q \in 0 .. Len(text), p <= q PROVE Rank(text, p) <= Rank(text, q)
  <2> DEFINE G == {i \in Nat : p + i <= Len(text) => Rank(text, p) <= Rank(text, p + i)}
  <2>1. 0 \in G
    BY <1>a
  <2>2. ASSUME NEW i \in Nat, i \in G PROVE i + 1 \in G
    <3> SUFFICES ASSUME p + (i + 1) <= Len(text) PROVE Rank(text, p) <= Rank(text, p + (i + 1))
      OBVIOUS
    <3>1. p + i \in Nat /\ (p + i) + 1 <= Len(text) /\ p + i \in 0 .. Len(text) /\ p + (i + 1) = (p + i) + 1
          /\ (p + i) + 1 \in 0 .. Len(text) /\ Rank(text, p) <= Rank(text, p + i)
      BY <1>0, <2>2
    <3>2. Rank(text, p + i) <= Rank(text, (p + i) + 1)
      BY <1>b, <3>1
    <3> QED BY <1>a, <3>1, <3>2
  <2>3. \A i \in Nat : i \in G
    <3> HIDE DEF G
    <3> QED BY <2>1, <2>2, Counting
  <2>4. q - p \in Nat /\ p + (q - p) = q
    BY <1>2
  <2> QED BY <1>0, <2>3, <2>4
<1>3. ASSUME NEW p \in 0 .. Len(text), NEW q \in Closings(text), p < q PROVE Rank(text, p) < Rank(text, q)
  <2>1. q \in 1 .. Len(text) /\ q - 1 \in 0 .. Len(text) /\ p <= q - 1 /\ q \in 0 .. Len(text)
    BY <1>0, <1>3
  <2>2. Rank(text, q) = Rank(text, q - 1) + 1
    BY <2>1, RankSteps
  <2>3. Rank(text, p) <= Rank(text, q - 1)
    BY <1>2, <2>1
  <2> QED BY <1>a, <2>1, <2>2, <2>3
<1>4. ASSUME NEW p \in Closings(text), NEW q \in Closings(text), Rank(text, p) = Rank(text, q) PROVE p = q
  <2>1. p \in 0 .. Len(text) /\ q \in 0 .. Len(text)
    BY <1>0
  <2>2. ~(p < q) /\ ~(q < p)
    BY <1>3, <1>4, <1>a, <2>1
  <2> QED BY <2>1, <2>2
<1> QED BY <1>1, <1>2, <1>3, <1>4
-----------------------------------------------------------------------------
(* What the setters and the augmentors do to a message.                    *)

Strings == [type : {"string"}, value : Seq(STRING)]
Fields(D) == UNION {[d -> Strings] : d \in SUBSET D}
Messages(D, type, typed) == [type : {type}, fields : Fields(D), typed : {typed}]

\* s is m with the string v in the field f.
Sets(m, f, v, s) ==
  /\ DOMAIN s.fields = DOMAIN m.fields \cup {f}
  /\ s.fields[f] = Str(v)
  /\ \A g \in DOMAIN m.fields : g # f => s.fields[g] = m.fields[g]

LEMMA SetFieldDoes ==
  ASSUME NEW D, NEW type, NEW typed, NEW m \in Messages(D, type, typed),
         NEW f \in D, f = <<f[1], f[2]>>, NEW v \in Seq(STRING)
  PROVE  /\ SetField(m, f[1], f[2], Str(v)) \in Messages(D, type, typed)
         /\ Sets(m, f, v, SetField(m, f[1], f[2], Str(v)))
<1> DEFINE F == Assign(m.fields, f, Str(v))
           s == SetField(m, f[1], f[2], Str(v))
<1>1. PICK d \in SUBSET D : m.fields \in [d -> Strings]
  BY DEF Messages, Fields
<1>2. F = [g \in d \cup {f} |-> IF g = f THEN Str(v) ELSE m.fields[g]]
  BY <1>1 DEF Assign
<1>3. Str(v) \in Strings
  BY DEF Str, Field, Strings
<1>4. F \in [d \cup {f} -> Strings] /\ d \cup {f} \in SUBSET D
  BY <1>1, <1>2, <1>3
<1>5. F \in Fields(D)
  BY <1>4 DEF Fields
<1>6. s = [m EXCEPT !.fields = F]
  BY DEF SetField
<1>7. s \in Messages(D, type, typed) /\ s.fields = F
  <2> HIDE DEF F
  <2> QED BY <1>5, <1>6 DEF Messages
<1> HIDE DEF F
<1>8. Sets(m, f, v, s)
  <2> HIDE DEF s
  <2> QED BY <1>1, <1>2, <1>7 DEF Sets
<1> QED BY <1>7, <1>8

\* The locals of the extractor.
Scans(D, type, typed) ==
  [running : {"yes", "break", "terminated", "undefined"}, message : Messages(D, type, typed),
   ite : Nat \ {0}, in_progress : BOOLEAN, token : Seq(STRING), n : Nat]

LEMMA TargetsAre ==
  ASSUME NEW e, IsExtractor(e)
  PROVE  /\ Len(e.target_fields) \in Nat /\ DOMAIN e.target_fields = 1 .. Len(e.target_fields)
         /\ \A i \in 1 .. Len(e.target_fields) :
              /\ e.target_fields[i] \in ToSet(e.target_fields)
              /\ e.target_fields[i] = <<e.target_fields[i][1], e.target_fields[i][2]>>
              /\ e.target_fields[i] # <<"http_info", "access_token">>
<1>1. e.target_fields \in Seq((STRING \X STRING) \ {<<"http_info", "access_token">>})
  BY DEF IsExtractor
<1>2. ASSUME NEW i \in 1 .. Len(e.target_fields)
      PROVE  e.target_fields[i] \in (STRING \X STRING) \ {<<"http_info", "access_token">>}
  BY <1>1
<1> QED BY <1>1, <1>2 DEF ToSet

\* CloseToken makes t of s.
Closed(e, s, t) ==
  LET f == e.target_fields[s.ite]
      n == (s.n + 1) % CounterSize
  IN
  /\ s.ite > Len(e.target_fields) => t = [s EXCEPT !.running = "undefined"]
  /\ s.ite <= Len(e.target_fields) =>
       t = Scan(IF n = e.n_tokens THEN "break" ELSE "yes",
                SetField(s.message, f[1], f[2], Str(s.token)), s.ite + 1, FALSE, <<>>, n)

LEMMA CloseDoes ==
  ASSUME NEW D, NEW type, NEW typed, NEW s \in Scans(D, type, typed),
         NEW e, IsExtractor(e), ToSet(e.target_fields) \subseteq D
  PROVE  CloseToken(e, s) \in Scans(D, type, typed) /\ Closed(e, s, CloseToken(e, s))
<1> DEFINE f == e.target_fields[s.ite]
           t == CloseToken(e, s)
<1>0. Len(e.target_fields) \in Nat /\ s.ite \in Nat \ {0} /\ s.n \in Nat
  BY TargetsAre DEF Scans
<1>1. CASE s.ite > Len(e.target_fields)
  <2>1. t = [s EXCEPT !.running = "undefined"]
    BY <1>1 DEF CloseToken
  <2>2. t \in Scans(D, type, typed)
    BY <2>1 DEF Scans
  <2>3. ~(s.ite <= Len(e.target_fields))
    BY <1>0, <1>1
  <2> QED BY <2>1, <2>2, <2>3, Zenon DEF Closed
<1>2. CASE ~(s.ite > Len(e.target_fields))
  <2>1. s.ite \in 1 .. Len(e.target_fields)
    BY <1>0, <1>2
  <2>2. f \in D /\ f = <<f[1], f[2]>>
    BY <2>1, TargetsAre
  <2>3. s.message \in Messages(D, type, typed) /\ s.token \in Seq(STRING)
    BY DEF Scans
  <2>4. SetField(s.message, f[1], f[2], Str(s.token)) \in Messages(D, type, typed)
    <3> HIDE DEF f
    <3> QED BY <2>2, <2>3, SetFieldDoes
  <2>5. (s.n + 1) % CounterSize \in Nat
    BY <1>0, CounterAssumption
  <2>6. t = Scan(IF (s.n + 1) % CounterSize = e.n_tokens THEN "break" ELSE "yes",
                 SetField(s.message, f[1], f[2], Str(s.token)), s.ite + 1, FALSE, <<>>, (s.n + 1) % CounterSize)
    BY <1>2 DEF CloseToken
  <2>7. <<>> \in Seq(STRING) /\ s.ite + 1 \in Nat \ {0}
    BY <1>0
  <2>8. t \in Scans(D, type, typed)
    <3> HIDE DEF f, t
    <3> QED BY <2>4, <2>5, <2>6, <2>7 DEF Scan, Scans
  <2>9. Closed(e, s, t)
    <3> HIDE DEF t
    <3> QED BY <1>2, <2>6 DEF Closed
  <2> QED BY <2>8, <2>9
<1> QED BY <1>1, <1>2

LEMMA ReadType ==
  ASSUME NEW D, NEW type, NEW typed, NEW s \in Scans(D, type, typed), NEW char \in STRING,
         NEW e, IsExtractor(e), ToSet(e.target_fields) \subseteq D
  PROVE  ReadCharacter(e, s, char) \in Scans(D, type, typed)
<1>1. CloseToken(e, s) \in Scans(D, type, typed)
  BY CloseDoes
<1>2. /\ [s EXCEPT !.running = "terminated"] \in Scans(D, type, typed)
      /\ [s EXCEPT !.in_progress = TRUE] \in Scans(D, type, typed)
      /\ s.in_progress \in BOOLEAN
  BY DEF Scans
<1>3. Append(s.token, char) \in Seq(STRING)
  BY DEF Scans
<1>4. [s EXCEPT !.token = Append(@, char)] \in Scans(D, type, typed)
  BY <1>3 DEF Scans
<1> HIDE DEF Scans
<1> QED BY <1>1, <1>2, <1>4 DEF ReadCharacter

ReadAll(e, m, text) ==
  LET Read(s, char) == ReadCharacter(e, s, char)
  IN  FoldLeft(Read, Scan("yes", m, 1, FALSE, <<>>, 0), text)

Reads(e, m, text, h) ==
  /\ h[0] = Scan("yes", m, 1, FALSE, <<>>, 0) /\ h[Len(text)] = ReadAll(e, m, text)
  /\ \A i \in 1 .. Len(text) : h[i] = ReadCharacter(e, h[i - 1], text[i])

\* Extraction goes through the text from character to character.
LEMMA ReadSteps ==
  ASSUME NEW D, NEW type, NEW typed, NEW m \in Messages(D, type, typed),
         NEW e, IsExtractor(e), ToSet(e.target_fields) \subseteq D, NEW text \in Seq(STRING)
  PROVE  \E h \in [0 .. Len(text) -> Scans(D, type, typed)] :
           Reads(e, m, text, h)
<1> DEFINE A == Scans(D, type, typed)
           P == DOMAIN text
           base == Scan("yes", m, 1, FALSE, <<>>, 0)
           F == [p \in A \X STRING |-> ReadCharacter(e, p[1], p[2])]
           Folds(g) == g = [s \in SUBSET P |-> IF s = {} THEN base
                              ELSE ReadCharacter(e, g[s \ {Max(s)}], text[Max(s)])]
<1>1. P = 1 .. Len(text)
  OBVIOUS
<1>2. ReadAll(e, m, text) = (CHOOSE g : Folds(g))[P]
  BY DEF ReadAll, FoldLeft, MapThenFoldSet
<1>3. F \in [A \X STRING -> A] /\ base \in A
  <2>1. base \in A
    BY DEF Scan, Scans
  <2>2. \A s \in A, char \in STRING : ReadCharacter(e, s, char) \in A
    BY ReadType
  <2> HIDE DEF A
  <2> QED BY <2>1, <2>2
<1>4. \A s \in A, char \in STRING : F[<<s, char>>] = ReadCharacter(e, s, char)
  <2> HIDE DEF A
  <2> QED OBVIOUS
<1>5. \A s \in SUBSET P : s # {} => text[Max(s)] \in STRING
  BY FoldElement
<1> HIDE DEF P, F, A, base
<1>6. \E g : Folds(g)
  <2>1. PICK g \in [SUBSET P -> A] : Unfolds(g, base, text, P, F)
    BY <1>1, <1>3, FoldExists
  <2>2. \A s \in SUBSET P : g[s \ {Max(s)}] \in A
    BY <2>1
  <2>3. \A s \in SUBSET P : s # {} =>
          F[<<g[s \ {Max(s)}], text[Max(s)]>>] = ReadCharacter(e, g[s \ {Max(s)}], text[Max(s)])
    BY <1>4, <1>5, <2>2
  <2>4. Folds(g)
    BY <2>1, <2>3 DEF Unfolds
  <2> QED BY <2>4
<1>7. Folds(CHOOSE g : Folds(g))
  BY <1>6, Zenon
<1>8. PICK g : Folds(g) /\ ReadAll(e, m, text) = g[P]
  <2> HIDE DEF Folds
  <2> QED BY <1>2, <1>7
<1>9. GoesOn(A, STRING, base, text, F, g) /\ g[1 .. Len(text)] = ReadAll(e, m, text)
  <2>1. \A s \in SUBSET (1 .. Len(text)) : s # {} /\ g[s \ {Max(s)}] \in A =>
          g[s] = F[<<g[s \ {Max(s)}], text[Max(s)]>>]
    BY <1>1, <1>4, <1>5, <1>8
  <2>2. g[{}] = base /\ g[1 .. Len(text)] = ReadAll(e, m, text)
    BY <1>1, <1>8
  <2> QED BY <1>3, <2>1, <2>2 DEF GoesOn
<1>10. PICK h : Trace(A, base, text, F, h) /\ h[Len(text)] = ReadAll(e, m, text)
  BY <1>9, FoldSteps
<1>11. ASSUME NEW i \in 1 .. Len(text) PROVE h[i] = ReadCharacter(e, h[i - 1], text[i])
  <2>1. h[i - 1] \in A /\ text[i] \in STRING
    <3>1. i - 1 \in 0 .. Len(text) /\ text[i] \in STRING
      OBVIOUS
    <3> QED BY <1>10, <3>1 DEF Trace
  <2> QED BY <1>4, <1>10, <2>1 DEF Trace
<1>12. h \in [0 .. Len(text) -> A] /\ h[0] = base
  BY <1>10 DEF Trace
<1> QED BY <1>10, <1>11, <1>12 DEF A, base, Reads

\* The token counter shows the wanted number at the wanted token, and not before.
LEMMA CounterStops ==
  ASSUME NEW e, e.n_tokens \in Int, NEW text, Len(text) \in Nat,
         NEW r \in Nat, r < Wanted(e, text), r < Len(text),
         NEW n \in 0 .. CounterSize - 1, r < CounterSize => n = r
  PROVE  LET next == (n + 1) % CounterSize IN
         /\ next \in 0 .. CounterSize - 1
         /\ next = e.n_tokens <=> r + 1 = Wanted(e, text)
         /\ r + 1 # Wanted(e, text) /\ r + 1 < CounterSize => next = r + 1
<1> DEFINE next == (n + 1) % CounterSize
<1>0. CounterSize \in Nat \ {0}
  BY CounterAssumption
<1>1. next = IF n + 1 = CounterSize THEN 0 ELSE n + 1
  <2>1. CASE n + 1 = CounterSize
    <3>1. CounterSize % CounterSize = 0
      BY <1>0
    <3> QED BY <2>1, <3>1
  <2>2. CASE n + 1 # CounterSize
    <3>1. n + 1 \in 0 .. CounterSize - 1
      BY <1>0, <2>2
    <3>2. \A b \in Nat \ {0} : \A a \in 0 .. b - 1 : a % b = a
      OBVIOUS
    <3> QED BY <1>0, <2>2, <3>1, <3>2
  <2> QED BY <2>1, <2>2
<1> HIDE DEF next
<1>2. next \in 0 .. CounterSize - 1
  BY <1>0, <1>1
<1>3. CASE e.n_tokens = 0
  <2>1. Wanted(e, text) = CounterSize
    BY <1>0, <1>3 DEF Wanted
  <2> QED BY <1>0, <1>1, <1>2, <1>3, <2>1 DEF next
<1>4. CASE e.n_tokens \in 1 .. CounterSize - 1
  <2>1. Wanted(e, text) = e.n_tokens
    BY <1>4 DEF Wanted
  <2> QED BY <1>0, <1>1, <1>2, <1>4, <2>1 DEF next
<1>5. CASE e.n_tokens \notin 0 .. CounterSize - 1
  <2>1. Wanted(e, text) = Len(text) + 1
    BY <1>5 DEF Wanted
  <2>2. r + 1 # Wanted(e, text) /\ next # e.n_tokens
    BY <1>2, <1>5, <2>1
  <2> QED BY <1>0, <1>1, <1>2, <2>2 DEF next
<1> QED BY <1>0, <1>3, <1>4, <1>5

LEMMA WantedType ==
  ASSUME NEW e, e.n_tokens \in Int, NEW text, Len(text) \in Nat
  PROVE  Wanted(e, text) \in Nat \ {0}
<1>1. CASE e.n_tokens = 0
  BY <1>1, CounterAssumption DEF Wanted
<1>2. CASE e.n_tokens \in 1 .. CounterSize - 1
  BY <1>2, CounterAssumption DEF Wanted
<1>3. CASE e.n_tokens \notin 0 .. CounterSize - 1
  BY <1>3, CounterAssumption DEF Wanted
<1> QED BY <1>1, <1>2, <1>3, CounterAssumption

\* The tokens that end in the first k characters are in their places in t,
\* and what else was in m still is.
Placed(e, text, m, t, k) ==
  /\ DOMAIN t.fields = DOMAIN m.fields \cup {e.target_fields[Rank(text, p)] : p \in {q \in Closings(text) : q <= k}}
  /\ \A p \in Closings(text) : p <= k => t.fields[e.target_fields[Rank(text, p)]] = Str(Word(text, p))
  /\ \A g \in DOMAIN m.fields \ ToSet(e.target_fields) : t.fields[g] = m.fields[g]

\* Where extraction stands behind k characters: it goes on, has stopped at
\* the token wanted last, has met a mark out of place, or a token too many.
GoesOnAt(e, text, m, s, k) ==
  /\ \A f \in Faults(text) : k < f
  /\ Rank(text, k) < Wanted(e, text) /\ Rank(text, k) <= Len(e.target_fields)
  /\ s.in_progress <=> Opened(text, k + 1)
  /\ s.token = IF s.in_progress THEN SubSeq(text, LastMark(text, k + 1) + 1, k) ELSE <<>>
  /\ s.ite = Rank(text, k) + 1
  /\ s.n \in 0 .. CounterSize - 1 /\ (Rank(text, k) < CounterSize => s.n = Rank(text, k))
  /\ Placed(e, text, m, s.message, k)

HasStoppedAt(e, text, m, s, j) ==
  /\ Rank(text, j) = Wanted(e, text) /\ Rank(text, j) <= Len(e.target_fields)
  /\ Placed(e, text, m, s.message, j)

MeetsFault(e, text) ==
  /\ Faults(text) # {}
  /\ Rank(text, Len(text)) < Wanted(e, text) /\ Rank(text, Len(text)) <= Len(e.target_fields)

MeetsEnd(e, text) ==
  \E p \in Closings(text) : Rank(text, p) = Len(e.target_fields) + 1 /\ Rank(text, p) <= Wanted(e, text)

ScanAt(e, text, m, s, k) ==
  /\ s.running = "yes" => GoesOnAt(e, text, m, s, k)
  /\ s.running = "break" => \E j \in 0 .. k : HasStoppedAt(e, text, m, s, j)
  /\ s.running = "terminated" => MeetsFault(e, text)
  /\ s.running = "undefined" => MeetsEnd(e, text)

\* A token that ends at q is put in its place.
LEMMA PlacesNext ==
  ASSUME NEW D, NEW type, NEW typed, NEW m \in Messages(D, type, typed), NEW t \in Messages(D, type, typed),
         NEW e, IsExtractor(e), ToSet(e.target_fields) \subseteq D, NEW text \in Seq(STRING),
         NEW q \in Closings(text), Rank(text, q) <= Len(e.target_fields), Placed(e, text, m, t, q - 1)
  PROVE  LET f == e.target_fields[Rank(text, q)]
         IN  Placed(e, text, m, SetField(t, f[1], f[2], Str(Word(text, q))), q)
<1> DEFINE f == e.target_fields[Rank(text, q)]
           s == SetField(t, f[1], f[2], Str(Word(text, q)))
<1>0. /\ Len(text) \in Nat /\ q \in 1 .. Len(text) /\ q \in Nat
      /\ \A p \in Closings(text) : p \in 1 .. Len(text) /\ p \in Nat
      /\ \A p \in Closings(text) : p <= q <=> (p = q \/ p <= q - 1)
  BY DEF Closings, Marks
<1>1. Rank(text, q) \in 1 .. Len(e.target_fields)
  <2>1. Rank(text, q) \in Nat /\ Rank(text, 0) = 0
    BY <1>0, RankSteps
  <2>2. Rank(text, 0) < Rank(text, q)
    BY <1>0, RankOrder
  <2> QED BY <2>1, <2>2, TargetsAre
<1>2. f \in D /\ f = <<f[1], f[2]>> /\ f \in ToSet(e.target_fields)
  BY <1>1, TargetsAre
<1>3. Word(text, q) \in Seq(STRING)
  <2>1. LastMark(text, q) \in 0 .. q - 1
    BY <1>0, LastMarkIs
  <2>2. \A i \in LastMark(text, q) + 1 .. q - 1 : text[i] \in STRING
    BY <1>0, <2>1
  <2>3. LastMark(text, q) + 1 \in Int /\ q - 1 \in Int
    BY <1>0, <2>1
  <2> QED BY <2>2, <2>3, SubSeqProperties DEF Word
<1>4. /\ DOMAIN s.fields = DOMAIN t.fields \cup {f}
      /\ s.fields[f] = Str(Word(text, q))
      /\ \A g \in DOMAIN t.fields : g # f => s.fields[g] = t.fields[g]
  <2> HIDE DEF f
  <2> QED BY <1>2, <1>3, SetFieldDoes DEF Sets
<1>5. ASSUME NEW p \in Closings(text), p <= q - 1 PROVE e.target_fields[Rank(text, p)] # f
  <2>1. p \in 0 .. Len(text) /\ q \in 0 .. Len(text) /\ p < q
    BY <1>0, <1>5
  <2>2. Rank(text, p) < Rank(text, q) /\ Rank(text, p) \in Nat /\ Rank(text, 0) = 0
    BY <2>1, RankOrder, RankSteps
  <2>3. Rank(text, 0) < Rank(text, p)
    BY <1>0, RankOrder
  <2>4. Rank(text, p) \in DOMAIN e.target_fields /\ Rank(text, q) \in DOMAIN e.target_fields
    BY <1>1, <2>2, <2>3, TargetsAre
  <2>5. \A k, l \in DOMAIN e.target_fields : e.target_fields[k] = e.target_fields[l] => k = l
    BY DEF IsExtractor
  <2>6. Rank(text, p) # Rank(text, q)
    BY <1>1, <2>2
  <2> QED BY <2>4, <2>5, <2>6
<1> HIDE DEF s
<1>6. DOMAIN s.fields = DOMAIN m.fields \cup {e.target_fields[Rank(text, p)] : p \in {x \in Closings(text) : x <= q}}
  BY <1>0, <1>4 DEF Placed
<1>7. ASSUME NEW p \in Closings(text), p <= q
      PROVE s.fields[e.target_fields[Rank(text, p)]] = Str(Word(text, p))
  <2>1. CASE p = q
    BY <1>4, <2>1
  <2>2. CASE p <= q - 1
    <3>1. e.target_fields[Rank(text, p)] \in DOMAIN t.fields
      BY <2>2 DEF Placed
    <3> QED BY <1>4, <1>5, <2>2, <3>1 DEF Placed
  <2> QED BY <1>0, <1>7, <2>1, <2>2
<1>8. ASSUME NEW g \in DOMAIN m.fields \ ToSet(e.target_fields) PROVE s.fields[g] = m.fields[g]
  BY <1>2, <1>4 DEF Placed
<1>9. Placed(e, text, m, s, q)
  BY <1>6, <1>7, <1>8 DEF Placed
<1> QED BY <1>9 DEF s

LEMMA ScanStep ==
  ASSUME NEW D, NEW type, NEW typed, NEW m \in Messages(D, type, typed), NEW s \in Scans(D, type, typed),
         NEW e, IsExtractor(e), ToSet(e.target_fields) \subseteq D, NEW text \in Seq(STRING),
         NEW q \in 1 .. Len(text), ScanAt(e, text, m, s, q - 1)
  PROVE  ScanAt(e, text, m, ReadCharacter(e, s, text[q]), q)
<1>t. PICK t : t = ReadCharacter(e, s, text[q])
  OBVIOUS
<1> SUFFICES ScanAt(e, text, m, t, q)
  BY <1>t
<1> DEFINE W == Wanted(e, text)
           L == Len(e.target_fields)
           r == Rank(text, q - 1)
<1>0. /\ Len(text) \in Nat /\ DOMAIN text = 1 .. Len(text) /\ q \in Nat /\ (q - 1) + 1 = q
      /\ \A j \in 0 .. q - 1 : j \in 0 .. q
      /\ q - 1 \in 0 .. Len(text) /\ q \in 0 .. Len(text) /\ q \in 1 .. Len(text) + 1
      /\ \A f \in Faults(text) : f \in Nat
      /\ \A p \in Closings(text) : p \in Nat /\ p \in 1 .. Len(text)
  BY DEF Faults, Closings, Marks
<1>a. W \in Nat \ {0} /\ L \in Nat /\ r \in Nat /\ r <= q - 1
  BY <1>0, WantedType, TargetsAre, RankSteps, RankOrder DEF IsExtractor
<1>b. e.token_start = "[" /\ e.token_end = "]"
  BY DEF IsExtractor
<1>1. CASE s.running # "yes"
  <2>1. t = s
    BY <1>t, <1>1 DEF ReadCharacter
  <2> QED BY <1>0, <1>1, <2>1 DEF ScanAt
<1>2. CASE s.running = "yes"
  <2>0. /\ GoesOnAt(e, text, m, s, q - 1) /\ s.in_progress \in BOOLEAN
        /\ s.in_progress <=> Opened(text, q)
        /\ Opened(text, q) \in BOOLEAN
    BY <1>0, <1>2 DEF ScanAt, GoesOnAt, Scans, Opened
  <2>a. (\A f \in Faults(text) : q - 1 < f) /\ r < W /\ r <= L
    BY <2>0 DEF GoesOnAt
  <2>b. q \in Faults(text) => MeetsFault(e, text)
    <3> SUFFICES ASSUME q \in Faults(text) PROVE MeetsFault(e, text)
      OBVIOUS
    <3>1. \A p \in Closings(text) : p < q
      BY DEF Closings
    <3>2. {p \in Closings(text) : p <= Len(text)} = {p \in Closings(text) : p <= q - 1}
      BY <1>0, <3>1
    <3>3. Rank(text, Len(text)) = r
      BY <3>2 DEF Rank
    <3> QED BY <2>a, <3>3 DEF MeetsFault
  <2>c. ASSUME q \notin Faults(text)
        PROVE  /\ \A f \in Faults(text) : q < f
               /\ q \in Closings(text) <=> text[q] = "]"
               /\ q \in Closings(text) => Rank(text, q) = r + 1
               /\ q \notin Closings(text) => /\ Rank(text, q) = r
                                             /\ \A u : Placed(e, text, m, u, q - 1) => Placed(e, text, m, u, q)
    <3>1. \A f \in Faults(text) : q < f
      BY <1>0, <2>a, <2>c
    <3>2. q \in Closings(text) <=> text[q] = "]"
      BY <1>0, <3>1 DEF Closings, Marks
    <3>3. /\ q \in Closings(text) => Rank(text, q) = r + 1
          /\ q \notin Closings(text) => Rank(text, q) = r
      BY RankSteps
    <3>4. ASSUME q \notin Closings(text), NEW u, Placed(e, text, m, u, q - 1) PROVE Placed(e, text, m, u, q)
      <4>1. {x \in Closings(text) : x <= q} = {x \in Closings(text) : x <= q - 1}
        BY <1>0, <3>4
      <4>2. \A p \in Closings(text) : p <= q => p <= q - 1
        BY <1>0, <3>4
      <4> QED BY <3>4, <4>1, <4>2 DEF Placed
    <3> QED BY <3>1, <3>2, <3>3, <3>4
  <2>1. CASE s.in_progress /\ text[q] = "["
    <3>1. t = [s EXCEPT !.running = "terminated"]
      BY <1>t, <1>2, <1>b, <2>1 DEF ReadCharacter
    <3>2. q \in Faults(text)
      BY <1>0, <2>0, <2>1 DEF Faults, Marks
    <3>3. t.running = "terminated"
      BY <3>1 DEF Scans
    <3> QED BY <2>b, <3>2, <3>3 DEF ScanAt
  <2>2. CASE ~s.in_progress /\ text[q] = "]"
    <3>1. t = [s EXCEPT !.running = "terminated"]
      BY <1>t, <1>2, <1>b, <2>2 DEF ReadCharacter
    <3>2. q \in Faults(text)
      BY <1>0, <2>0, <2>2 DEF Faults, Marks
    <3>3. t.running = "terminated"
      BY <3>1 DEF Scans
    <3> QED BY <2>b, <3>2, <3>3 DEF ScanAt
  <2>3. CASE s.in_progress /\ text[q] = "]"
    <3>1. t = CloseToken(e, s)
      BY <1>t, <1>2, <1>b, <2>3 DEF ReadCharacter
    <3>2. q \notin Faults(text)
      BY <2>0, <2>3 DEF Faults
    <3>3. q \in Closings(text) /\ Rank(text, q) = r + 1 /\ \A f \in Faults(text) : q < f
      BY <2>3, <2>c, <3>2
    <3>4. s.ite = r + 1 /\ s.token = Word(text, q) /\ Placed(e, text, m, s.message, q - 1)
          /\ s.message \in Messages(D, type, typed) /\ s.n \in 0 .. CounterSize - 1 /\ (r < CounterSize => s.n = r)
      BY <1>0, <2>0, <2>3 DEF GoesOnAt, Word, Scans
    <3>a. Closed(e, s, t)
      BY <3>1, CloseDoes
    <3>5. CASE r + 1 > L
      <4>1. t = [s EXCEPT !.running = "undefined"]
        BY <3>4, <3>5, <3>a DEF Closed
      <4>2. t.running = "undefined"
        BY <4>1 DEF Scans
      <4>3. Rank(text, q) = L + 1 /\ Rank(text, q) <= W
        BY <1>a, <2>a, <3>3, <3>5
      <4>4. MeetsEnd(e, text)
        BY <3>3, <4>3 DEF MeetsEnd
      <4> QED BY <4>2, <4>4 DEF ScanAt
    <3>6. CASE r + 1 <= L
      <4> DEFINE n == (s.n + 1) % CounterSize
                 f == e.target_fields[s.ite]
                 u == SetField(s.message, f[1], f[2], Str(s.token))
      <4>1. t = Scan(IF n = e.n_tokens THEN "break" ELSE "yes", u, s.ite + 1, FALSE, <<>>, n)
        BY <3>4, <3>6, <3>a DEF Closed
      <4>2. Placed(e, text, m, u, q)
        BY <3>3, <3>4, <3>6, PlacesNext
      <4>3. r < Len(text)
        BY <1>0, <1>a
      <4>4. /\ n \in 0 .. CounterSize - 1
            /\ n = e.n_tokens <=> r + 1 = W
            /\ r + 1 # W /\ r + 1 < CounterSize => n = r + 1
        <5>1. e.n_tokens \in Int
          BY DEF IsExtractor
        <5>2. PICK k : k = s.n
          OBVIOUS
        <5>3. k \in 0 .. CounterSize - 1 /\ (r < CounterSize => k = r) /\ r < Wanted(e, text)
          BY <1>a, <2>a, <3>4, <5>2
        <5>4. LET next == (k + 1) % CounterSize IN
              /\ next \in 0 .. CounterSize - 1
              /\ next = e.n_tokens <=> r + 1 = Wanted(e, text)
              /\ r + 1 # Wanted(e, text) /\ r + 1 < CounterSize => next = r + 1
          BY <1>0, <1>a, <4>3, <5>1, <5>3, CounterStops
        <5> QED BY <5>2, <5>4
      <4> HIDE DEF n, u
      <4>5. /\ t.running = IF n = e.n_tokens THEN "break" ELSE "yes"
            /\ t.message = u /\ t.ite = s.ite + 1 /\ t.in_progress = FALSE /\ t.token = <<>> /\ t.n = n
        BY <4>1 DEF Scan
      <4>6. CASE r + 1 = W
        <5>1. t.running = "break" /\ HasStoppedAt(e, text, m, t, q)
          BY <1>a, <3>3, <3>6, <4>2, <4>4, <4>5, <4>6 DEF HasStoppedAt
        <5>2. q \in 0 .. q
          BY <1>0
        <5> QED BY <5>1, <5>2 DEF ScanAt
      <4>7. CASE r + 1 # W
        <5>1. t.running = "yes"
          BY <4>4, <4>5, <4>7
        <5>2. ~Opened(text, q + 1)
          BY <1>0, <2>3, LastMarkSteps DEF Marks
        <5>3. Rank(text, q) < W /\ Rank(text, q) <= L
          BY <1>a, <2>a, <3>3, <3>6, <4>7
        <5>4. GoesOnAt(e, text, m, t, q)
          BY <3>3, <3>4, <4>2, <4>4, <4>5, <4>7, <5>2, <5>3 DEF GoesOnAt
        <5> QED BY <5>1, <5>4 DEF ScanAt
      <4> QED BY <4>6, <4>7
    <3> QED BY <1>a, <3>5, <3>6
  <2>4. CASE ~s.in_progress /\ text[q] = "["
    <3>1. t = [s EXCEPT !.in_progress = TRUE]
      BY <1>t, <1>2, <1>b, <2>4 DEF ReadCharacter
    <3>2. q \in Marks(text) /\ q \notin Faults(text)
      BY <1>0, <2>0, <2>4 DEF Faults, Marks
    <3>3. Opened(text, q + 1) /\ LastMark(text, q + 1) = q
      BY <2>4, <3>2, LastMarkSteps
    <3>4. SubSeq(text, q + 1, q) = <<>>
      BY <1>0, SubSeqEmpty
    <3>5. /\ t.running = "yes" /\ t.message = s.message /\ t.ite = s.ite /\ t.in_progress = TRUE
          /\ t.token = s.token /\ t.n = s.n
      BY <1>2, <3>1 DEF Scans
    <3>6. s.token = <<>> /\ s.ite = r + 1 /\ Placed(e, text, m, s.message, q - 1)
          /\ s.n \in 0 .. CounterSize - 1 /\ (r < CounterSize => s.n = r)
      BY <2>0, <2>4 DEF GoesOnAt
    <3>7. q \notin Closings(text)
      BY <2>4 DEF Closings
    <3>8. GoesOnAt(e, text, m, t, q)
      BY <2>a, <2>c, <3>2, <3>3, <3>4, <3>5, <3>6, <3>7 DEF GoesOnAt
    <3> QED BY <3>5, <3>8 DEF ScanAt
  <2>5. CASE text[q] \notin {"[", "]"}
    <3>1. q \notin Marks(text) /\ q \notin Faults(text) /\ q \notin Closings(text)
      BY <2>5 DEF Faults, Closings, Marks
    <3>2. LastMark(text, q + 1) = LastMark(text, q) /\ (Opened(text, q + 1) <=> Opened(text, q))
      BY <3>1, LastMarkSteps
    <3>3. s.ite = r + 1 /\ Placed(e, text, m, s.message, q - 1)
          /\ s.n \in 0 .. CounterSize - 1 /\ (r < CounterSize => s.n = r)
          /\ s.token = IF s.in_progress THEN SubSeq(text, LastMark(text, q) + 1, q - 1) ELSE <<>>
      BY <1>0, <2>0 DEF GoesOnAt
    <3>4. CASE s.in_progress
      <4>1. t = [s EXCEPT !.token = Append(@, text[q])]
        BY <1>t, <1>2, <1>b, <2>5, <3>4 DEF ReadCharacter
      <4>2. Append(s.token, text[q]) = SubSeq(text, LastMark(text, q) + 1, q)
        <5>1. LastMark(text, q) \in 0 .. q - 1
          BY <1>0, LastMarkIs
        <5>2. LastMark(text, q) + 1 \in 1 .. Len(text) /\ q \in LastMark(text, q) + 1 .. Len(text)
          BY <1>0, <5>1
        <5>3. SubSeq(text, LastMark(text, q) + 1, q) = SubSeq(text, LastMark(text, q) + 1, q - 1) \o <<text[q]>>
          BY <5>2, SubSeqRecursiveSecond
        <5>4. s.token \in Seq(STRING) /\ text[q] \in STRING
          BY DEF Scans
        <5> QED BY <3>3, <3>4, <5>3, <5>4, AppendIsConcat
      <4>3. /\ t.running = "yes" /\ t.message = s.message /\ t.ite = s.ite /\ t.in_progress = s.in_progress
            /\ t.token = Append(s.token, text[q]) /\ t.n = s.n
        BY <1>2, <4>1 DEF Scans
      <4>4. GoesOnAt(e, text, m, t, q)
        BY <2>0, <2>a, <2>c, <3>1, <3>2, <3>3, <3>4, <4>2, <4>3 DEF GoesOnAt
      <4> QED BY <4>3, <4>4 DEF ScanAt
    <3>5. CASE ~s.in_progress
      <4>1. t = s
        BY <1>t, <1>2, <1>b, <2>5, <3>5 DEF ReadCharacter
      <4>2. GoesOnAt(e, text, m, t, q)
        BY <2>0, <2>a, <2>c, <3>1, <3>2, <3>3, <3>5, <4>1 DEF GoesOnAt
      <4> QED BY <1>2, <4>1, <4>2 DEF ScanAt
    <3> QED BY <3>4, <3>5
  <2> QED BY <2>1, <2>2, <2>3, <2>4, <2>5, <2>0
<1> QED BY <1>1, <1>2

LEMMA ScanEnds ==
  ASSUME NEW D, NEW type, NEW typed, NEW m \in Messages(D, type, typed),
         NEW e, IsExtractor(e), ToSet(e.target_fields) \subseteq D, NEW text \in Seq(STRING)
  PROVE  /\ ReadAll(e, m, text) \in Scans(D, type, typed)
         /\ ScanAt(e, text, m, ReadAll(e, m, text), Len(text))
<1>1. PICK h \in [0 .. Len(text) -> Scans(D, type, typed)] :
           Reads(e, m, text, h)
  BY ReadSteps
<1>a. /\ h[0] = Scan("yes", m, 1, FALSE, <<>>, 0) /\ h[Len(text)] = ReadAll(e, m, text)
      /\ \A i \in 1 .. Len(text) : h[i] = ReadCharacter(e, h[i - 1], text[i])
  BY <1>1 DEF Reads
<1> DEFINE G == {k \in Nat : k <= Len(text) => ScanAt(e, text, m, h[k], k)}
<1>2. 0 \in G
  <2>1. /\ h[0].running = "yes" /\ h[0].message = m /\ h[0].ite = 1 /\ h[0].in_progress = FALSE
        /\ h[0].token = <<>> /\ h[0].n = 0
    BY <1>a DEF Scan
  <2>2. /\ \A f \in Faults(text) : 0 < f
        /\ \A p \in Closings(text) : ~(p <= 0)
    BY DEF Faults, Closings, Marks
  <2>3. Rank(text, 0) = 0 /\ 0 < Wanted(e, text) /\ 0 <= Len(e.target_fields) /\ 0 \in 0 .. CounterSize - 1
    <3>1. e.n_tokens \in Int
      BY DEF IsExtractor
    <3>2. 0 < Wanted(e, text)
      BY <3>1, WantedType
    <3>3. Len(e.target_fields) \in Nat
      BY TargetsAre
    <3>4. 0 \in 0 .. CounterSize - 1
      BY CounterAssumption
    <3>5. Rank(text, 0) = 0
      BY RankSteps
    <3> QED BY <3>2, <3>3, <3>4, <3>5
  <2>4. Placed(e, text, m, m, 0)
    BY <2>2 DEF Placed
  <2>5. ~Opened(text, 0 + 1)
    BY LastMarkSteps
  <2>6. GoesOnAt(e, text, m, h[0], 0)
    BY <2>1, <2>2, <2>3, <2>4, <2>5 DEF GoesOnAt
  <2> QED BY <2>1, <2>6 DEF ScanAt
<1>3. ASSUME NEW k \in Nat, k \in G PROVE k + 1 \in G
  <2> SUFFICES ASSUME k + 1 <= Len(text) PROVE ScanAt(e, text, m, h[k + 1], k + 1)
    OBVIOUS
  <2>1. /\ k + 1 \in 1 .. Len(text) /\ k \in 0 .. Len(text) /\ (k + 1) - 1 = k
        /\ ScanAt(e, text, m, h[k], k)
    BY <1>3
  <2>2. h[k] \in Scans(D, type, typed) /\ h[k + 1] = ReadCharacter(e, h[k], text[k + 1])
    BY <1>1, <1>a, <2>1
  <2>3. PICK q : q = k + 1
    OBVIOUS
  <2>4. q \in 1 .. Len(text) /\ ScanAt(e, text, m, h[k], q - 1)
    BY <2>1, <2>3
  <2>5. ScanAt(e, text, m, ReadCharacter(e, h[k], text[q]), q)
    BY <2>2, <2>4, ScanStep
  <2> QED BY <2>2, <2>3, <2>5
<1>4. \A k \in Nat : k \in G
  <2> HIDE DEF G
  <2> QED BY <1>2, <1>3, Counting
<1>5. Len(text) \in Nat /\ Len(text) \in 0 .. Len(text)
  OBVIOUS
<1> QED BY <1>1, <1>a, <1>4, <1>5

\* t is m with every token taken from the text in its place.
Extracted(e, text, m, t) ==
  /\ DOMAIN t.fields = DOMAIN m.fields \cup {e.target_fields[Rank(text, p)] : p \in Taken(e, text)}
  /\ \A p \in Taken(e, text) : t.fields[e.target_fields[Rank(text, p)]] = Str(Word(text, p))
  /\ \A g \in DOMAIN m.fields \ ToSet(e.target_fields) : t.fields[g] = m.fields[g]

\* How extraction ends, in terms of the text.
Extracts(e, text, m, x) ==
  /\ x.running \in {"yes", "terminated", "undefined"}
  /\ x.running = "yes" => ~Overruns(e, text) /\ ~Malformed(e, text) /\ Extracted(e, text, m, x.message)
  /\ x.running = "terminated" => Malformed(e, text)
  /\ x.running = "undefined" => Overruns(e, text)

LEMMA ScanTells ==
  ASSUME NEW D, NEW type, NEW typed, NEW m, NEW s \in Scans(D, type, typed),
         NEW e, IsExtractor(e), NEW text \in Seq(STRING), ScanAt(e, text, m, s, Len(text))
  PROVE  Extracts(e, text, m, Ends(IF s.running = "break" THEN "yes" ELSE s.running, s.message))
<1> DEFINE W == Wanted(e, text)
           L == Len(e.target_fields)
           n == Len(text)
<1>0. /\ n \in Nat /\ W \in Nat \ {0} /\ L \in Nat
      /\ \A k \in 0 .. n : Rank(text, k) \in Nat
      /\ \A p \in Closings(text) : p \in 1 .. n /\ p \in 0 .. n
      /\ n \in 0 .. n
  BY WantedType, TargetsAre, RankSteps DEF IsExtractor, Closings, Marks
<1>a. s.running \in {"yes", "break", "terminated", "undefined"}
  BY DEF Scans
<1>t. PICK x : x = Ends(IF s.running = "break" THEN "yes" ELSE s.running, s.message)
  OBVIOUS
<1> SUFFICES Extracts(e, text, m, x)
  BY <1>t
<1>b. x.running = (IF s.running = "break" THEN "yes" ELSE s.running) /\ x.message = s.message
  BY <1>t DEF Ends
<1>c. \A p \in Closings(text) : Rank(text, p) <= Rank(text, n) /\ Rank(text, p) \in Nat
  BY <1>0, RankOrder
<1>1. CASE s.running = "yes"
  <2>1. /\ \A f \in Faults(text) : n < f
        /\ Rank(text, n) < W /\ Rank(text, n) <= L /\ Placed(e, text, m, s.message, n)
    BY <1>1 DEF ScanAt, GoesOnAt
  <2>2. Taken(e, text) = Closings(text)
    BY <1>0, <1>c, <2>1 DEF Taken
  <2>3. ~Overruns(e, text)
    BY <1>0, <1>c, <2>1 DEF Overruns, Taken
  <2>4. ~Malformed(e, text)
    <3>1. Faults(text) = {}
      BY <1>0, <2>1 DEF Faults, Marks
    <3> QED BY <3>1 DEF Malformed
  <2>5. Extracted(e, text, m, s.message)
    <3>1. {q \in Closings(text) : q <= n} = Taken(e, text)
      BY <1>0, <2>2
    <3> QED BY <2>1, <2>2, <3>1 DEF Placed, Extracted
  <2> QED BY <1>1, <1>b, <2>3, <2>4, <2>5 DEF Extracts
<1>2. CASE s.running = "break"
  <2>1. PICK j \in 0 .. n : HasStoppedAt(e, text, m, s, j)
    BY <1>2 DEF ScanAt
  <2>2. Rank(text, j) = W /\ W <= L /\ Placed(e, text, m, s.message, j)
    BY <2>1 DEF HasStoppedAt
  <2>3. \A p \in Closings(text) : p <= j <=> Rank(text, p) <= W
    <3> SUFFICES ASSUME NEW p \in Closings(text) PROVE p <= j <=> Rank(text, p) <= W
      OBVIOUS
    <3>1. p <= j => Rank(text, p) <= Rank(text, j)
      BY <1>0, RankOrder
    <3>2. j < p => Rank(text, j) < Rank(text, p)
      BY RankOrder
    <3> QED BY <1>0, <1>c, <2>2, <3>1, <3>2
  <2>4. Taken(e, text) = {q \in Closings(text) : q <= j}
    BY <2>3 DEF Taken
  <2>5. ~Overruns(e, text)
    BY <1>0, <1>c, <2>2 DEF Overruns, Taken
  <2>6. ~Malformed(e, text)
    <3>1. Rank(text, j) <= Rank(text, n)
      BY <1>0, RankOrder
    <3> QED BY <1>0, <2>2, <3>1 DEF Malformed
  <2>7. Extracted(e, text, m, s.message)
    BY <2>2, <2>4 DEF Placed, Extracted
  <2> QED BY <1>2, <1>b, <2>5, <2>6, <2>7 DEF Extracts
<1>3. CASE s.running = "terminated"
  <2>1. MeetsFault(e, text)
    BY <1>3 DEF ScanAt
  <2>2. ~Overruns(e, text)
    BY <1>0, <1>c, <2>1 DEF MeetsFault, Overruns, Taken
  <2>3. Malformed(e, text)
    BY <2>1, <2>2 DEF MeetsFault, Malformed
  <2> QED BY <1>3, <1>b, <2>3 DEF Extracts
<1>4. CASE s.running = "undefined"
  <2>1. PICK p \in Closings(text) : Rank(text, p) = L + 1 /\ Rank(text, p) <= W
    BY <1>4 DEF ScanAt, MeetsEnd
  <2>2. p \in Taken(e, text) /\ Rank(text, p) > L
    BY <1>0, <2>1 DEF Taken
  <2>3. Overruns(e, text)
    BY <2>2 DEF Overruns
  <2> QED BY <1>4, <1>b, <2>3 DEF Extracts
<1> QED BY <1>a, <1>1, <1>2, <1>3, <1>4

LEMMA ExtractDoes ==
  ASSUME NEW D, NEW type, NEW typed, NEW m \in Messages(D, type, typed),
         NEW e, IsExtractor(e), ToSet(e.target_fields) \subseteq D, NEW text \in Seq(STRING),
         <<"http_info", "access_token">> \in DOMAIN m.fields,
         m.fields[<<"http_info", "access_token">>] = Str(text)
  PROVE  /\ ExtractTokens(e, m).message \in Messages(D, type, typed)
         /\ Extracts(e, text, m, ExtractTokens(e, m))
<1>1. PICK s : s = ReadAll(e, m, text)
  OBVIOUS
<1>2. s \in Scans(D, type, typed) /\ ScanAt(e, text, m, s, Len(text))
  BY <1>1, ScanEnds
<1>3. ExtractTokens(e, m) = Ends(IF s.running = "break" THEN "yes" ELSE s.running, s.message)
  <2>1. GetFieldReturns(m, "string", e.field[1], e.field[2]) /\ GetField(m, e.field[1], e.field[2]) = text
    BY DEF GetFieldReturns, GetField, IsExtractor, Str, Field
  <2>2. ExtractTokens(e, m) = Ends(IF ReadAll(e, m, text).running = "break" THEN "yes" ELSE ReadAll(e, m, text).running,
                                  ReadAll(e, m, text).message)
    BY <2>1 DEF ExtractTokens, ReadAll, FoldLeft, MapThenFoldSet
  <2> QED BY <1>1, <2>2
<1>4. ExtractTokens(e, m).message = s.message
  BY <1>3 DEF Ends
<1> QED BY <1>2, <1>3, <1>4, ScanTells DEF Scans

Joined(j, fields) ==
  j.prefix \o FlattenSeq([k \in DOMAIN j.field_names |-> j.separator \o fields[j.field_names[k]].value])
           \o (IF j.postfix = <<>> THEN <<>> ELSE j.separator \o j.postfix)

\* How joining ends.
Joins(j, m, x) ==
  /\ x.running \in {"yes", "terminated"}
  /\ x.running = "yes" =>
       /\ \A k \in DOMAIN j.field_names : j.field_names[k] \in DOMAIN m.fields
       /\ DOMAIN x.message.fields = DOMAIN m.fields \cup {j.target}
       /\ x.message.fields[j.target] = Str(Joined(j, m.fields))
       /\ \A g \in DOMAIN m.fields : g # j.target => x.message.fields[g] = m.fields[g]
  /\ x.running = "terminated" => \E k \in DOMAIN j.field_names : j.field_names[k] \notin DOMAIN m.fields

Body(j, m) ==
  LET Add(ss, f) == ss \o j.separator \o GetField(m, f[1], f[2])
  IN  FoldLeft(Add, j.prefix, j.field_names)

Adds(j, m, h) ==
  /\ h[0] = j.prefix /\ h[Len(j.field_names)] = Body(j, m)
  /\ \A i \in 1 .. Len(j.field_names) : h[i] = h[i - 1] \o j.separator \o m.fields[j.field_names[i]].value

\* The joined text grows from field to field.
LEMMA AddSteps ==
  ASSUME NEW j, j.prefix \in Seq(STRING), j.separator \in Seq(STRING), NEW m,
         j.field_names \in Seq({f \in DOMAIN m.fields : f = <<f[1], f[2]>> /\ m.fields[f] \in Strings})
  PROVE  \E h \in [0 .. Len(j.field_names) -> Seq(STRING)] : Adds(j, m, h)
<1> DEFINE A == Seq(STRING)
           B == {f \in DOMAIN m.fields : f = <<f[1], f[2]>> /\ m.fields[f] \in Strings}
           names == j.field_names
           P == DOMAIN names
           base == j.prefix
           Add(ss, f) == ss \o j.separator \o GetField(m, f[1], f[2])
           F == [p \in A \X B |-> Add(p[1], p[2])]
           Folds(g) == g = [s \in SUBSET P |-> IF s = {} THEN base ELSE Add(g[s \ {Max(s)}], names[Max(s)])]
<1>1. P = 1 .. Len(names) /\ Len(names) \in Nat /\ names \in Seq(B)
  OBVIOUS
<1>2. Body(j, m) = (CHOOSE g : Folds(g))[P]
  BY DEF Body, FoldLeft, MapThenFoldSet
<1>3. \A f \in B : GetField(m, f[1], f[2]) = m.fields[f].value /\ m.fields[f].value \in A
  BY DEF GetField, Strings
<1>4. F \in [A \X B -> A] /\ base \in A
  <2>1. \A ss \in A, f \in B : Add(ss, f) \in A
    BY <1>3
  <2> HIDE DEF A, B, Add
  <2> QED BY <2>1 DEF A
<1>5. \A ss \in A, f \in B : F[<<ss, f>>] = Add(ss, f)
  <2> HIDE DEF A, B, Add
  <2> QED OBVIOUS
<1>6. \A s \in SUBSET P : s # {} => names[Max(s)] \in B
  <2> HIDE DEF B
  <2> QED BY <1>1, FoldElement
<1> HIDE DEF P, F, A, B, base, Add, names
<1>7. \E g : Folds(g)
  <2>1. PICK g \in [SUBSET P -> A] : Unfolds(g, base, names, P, F)
    BY <1>1, <1>4, FoldExists
  <2>2. \A s \in SUBSET P : g[s \ {Max(s)}] \in A
    BY <2>1
  <2>3. \A s \in SUBSET P : s # {} =>
          F[<<g[s \ {Max(s)}], names[Max(s)]>>] = Add(g[s \ {Max(s)}], names[Max(s)])
    BY <1>5, <1>6, <2>2
  <2>4. Folds(g)
    BY <2>1, <2>3 DEF Unfolds
  <2> QED BY <2>4
<1>8. Folds(CHOOSE g : Folds(g))
  BY <1>7, Zenon
<1>9. PICK g : Folds(g) /\ Body(j, m) = g[P]
  <2> HIDE DEF Folds
  <2> QED BY <1>2, <1>8
<1>10. GoesOn(A, B, base, names, F, g) /\ g[1 .. Len(names)] = Body(j, m)
  <2>1. \A s \in SUBSET (1 .. Len(names)) : s # {} /\ g[s \ {Max(s)}] \in A =>
          g[s] = F[<<g[s \ {Max(s)}], names[Max(s)]>>]
    BY <1>1, <1>5, <1>6, <1>9
  <2>2. g[{}] = base /\ g[1 .. Len(names)] = Body(j, m)
    BY <1>1, <1>9
  <2> QED BY <1>1, <1>4, <2>1, <2>2 DEF GoesOn
<1>11. PICK h : Trace(A, base, names, F, h) /\ h[Len(names)] = Body(j, m)
  BY <1>10, FoldSteps
<1>12. ASSUME NEW i \in 1 .. Len(names)
       PROVE  h[i] = h[i - 1] \o j.separator \o m.fields[names[i]].value
  <2>1. h[i - 1] \in A /\ names[i] \in B
    <3>1. i - 1 \in 0 .. Len(names) /\ names[i] \in B
      BY <1>1
    <3> QED BY <1>11, <3>1 DEF Trace
  <2>2. h[i] = Add(h[i - 1], names[i])
    BY <1>5, <1>11, <2>1 DEF Trace
  <2> QED BY <1>3, <2>1, <2>2 DEF Add
<1>13. h \in [0 .. Len(names) -> A] /\ h[0] = base
  BY <1>11 DEF Trace
<1> QED BY <1>11, <1>12, <1>13 DEF A, base, names, Adds

\* Name by name, or all fields in one: the same text.
LEMMA BodyIs ==
  ASSUME NEW j, j.prefix \in Seq(STRING), j.separator \in Seq(STRING), NEW m,
         j.field_names \in Seq({f \in DOMAIN m.fields : f = <<f[1], f[2]>> /\ m.fields[f] \in Strings})
  PROVE  /\ Body(j, m) \in Seq(STRING)
         /\ Body(j, m) = j.prefix \o FlattenSeq([k \in DOMAIN j.field_names |->
                                                    j.separator \o m.fields[j.field_names[k]].value])
<1> DEFINE A == Seq(STRING)
           names == j.field_names
           n == Len(names)
           parts == [k \in DOMAIN names |-> j.separator \o m.fields[names[k]].value]
<1>0. n \in Nat /\ DOMAIN names = 1 .. n /\ n \in 0 .. n
  OBVIOUS
<1>v. \A i \in 1 .. n : m.fields[names[i]].value \in A
  <2> SUFFICES ASSUME NEW i \in 1 .. n PROVE m.fields[names[i]].value \in A
    OBVIOUS
  <2>1. m.fields[names[i]] \in Strings
    OBVIOUS
  <2> QED BY <2>1 DEF Strings
<1>1. PICK h \in [0 .. n -> A] : Adds(j, m, h)
  BY AddSteps
<1>2. h[0] = j.prefix /\ h[n] = Body(j, m) /\ Body(j, m) \in A
  BY <1>0, <1>1 DEF Adds
<1>3. ASSUME NEW i \in 1 .. n
      PROVE  parts[i] = j.separator \o m.fields[names[i]].value /\ parts[i] \in A
  <2>1. parts[i] = j.separator \o m.fields[names[i]].value
    BY <1>0
  <2>2. m.fields[names[i]].value \in Seq(STRING)
    BY <1>v
  <2>3. j.separator \o m.fields[names[i]].value \in Seq(STRING)
    BY <2>2, ConcatProperties, Zenon
  <2> QED BY <2>1, <2>3
<1>4. parts \in Seq(A) /\ Len(parts) = n
  <2>1. parts \in [1 .. n -> A]
    BY <1>0, <1>3
  <2> QED BY <1>0, <2>1
<1>5. ASSUME NEW i \in 1 .. n PROVE h[i] = h[i - 1] \o parts[i]
  <2>1. h[i - 1] \in Seq(STRING)
    <3>1. i - 1 \in 0 .. n
      BY <1>0
    <3> QED BY <3>1
  <2>2. h[i] = h[i - 1] \o j.separator \o m.fields[names[i]].value
    BY <1>1 DEF Adds
  <2>3. m.fields[names[i]].value \in Seq(STRING)
    BY <1>v
  <2>4. (h[i - 1] \o j.separator) \o m.fields[names[i]].value
          = h[i - 1] \o (j.separator \o m.fields[names[i]].value)
    <3>1. Associates(h[i - 1], j.separator, m.fields[names[i]].value)
      BY <2>1, <2>3, Association, Zenon
    <3> QED BY <3>1 DEF Associates
  <2> QED BY <1>3, <2>2, <2>4
<1>6. Body(j, m) = j.prefix \o FlattenSeq(parts)
  <2>1. Grows(j.prefix, parts, h)
    <3> HIDE DEF parts
    <3> QED BY <1>2, <1>4, <1>5 DEF Grows
  <2> HIDE DEF parts, names
  <2> QED BY <1>2, <1>4, <2>1, GrowsTo
<1> QED BY <1>2, <1>6

LEMMA JoinDoes ==
  ASSUME NEW D, NEW type, NEW typed, NEW m \in Messages(D, type, typed),
         NEW e, IsExtractor(e), NEW j, IsJoiner(j, e), j.target \in D
  PROVE  Concatenate(j, m).message \in Messages(D, type, typed) /\ Joins(j, m, Concatenate(j, m))
<1> DEFINE names == j.field_names
           All == \A k \in DOMAIN names : names[k] \in DOMAIN m.fields
           B == {f \in DOMAIN m.fields : f = <<f[1], f[2]>> /\ m.fields[f] \in Strings}
           tail == IF j.postfix = <<>> THEN <<>> ELSE j.separator \o j.postfix
           v == Body(j, m) \o tail
<1>0. /\ names \in Seq(ToSet(e.target_fields)) /\ j.prefix \in Seq(STRING) /\ j.separator \in Seq(STRING)
      /\ j.postfix \in Seq(STRING) /\ j.target \in STRING \X STRING
  BY DEF IsJoiner
<1>a. \A k \in DOMAIN names : names[k] = <<names[k][1], names[k][2]>>
  <2> SUFFICES ASSUME NEW k \in DOMAIN names PROVE names[k] = <<names[k][1], names[k][2]>>
    OBVIOUS
  <2>1. names[k] \in ToSet(e.target_fields)
    BY <1>0
  <2>2. PICK i \in DOMAIN e.target_fields : names[k] = e.target_fields[i]
    BY <2>1 DEF ToSet
  <2> QED BY <2>2, TargetsAre
<1>b. \A f \in DOMAIN m.fields : m.fields[f] \in Strings
  BY DEF Messages, Fields
<1>c. \A k \in DOMAIN names :
        GetFieldReturns(m, "string", names[k][1], names[k][2]) <=> names[k] \in DOMAIN m.fields
  BY <1>a, <1>b DEF GetFieldReturns, Strings
<1>x. PICK x : x = Concatenate(j, m)
  OBVIOUS
<1> SUFFICES x.message \in Messages(D, type, typed) /\ Joins(j, m, x)
  BY <1>x
<1>1. CASE ~All
  <2>1. x = Ends("terminated", m)
    BY <1>1, <1>c, <1>x DEF Concatenate
  <2> QED BY <1>1, <2>1 DEF Ends, Joins
<1>2. CASE All
  <2>1. names \in Seq(B)
    <3>1. names \in Seq(ToSet(names)) /\ DOMAIN names = 1 .. Len(names) /\ Len(names) \in Nat
      BY <1>0 DEF ToSet
    <3>2. \A k \in DOMAIN names : names[k] \in B
      BY <1>2, <1>a, <1>b
    <3>3. names \in [1 .. Len(names) -> B]
      BY <3>1, <3>2
    <3> QED BY <3>1, <3>3
  <2>2. Body(j, m) \in Seq(STRING) /\
        Body(j, m) = j.prefix \o FlattenSeq([k \in DOMAIN names |-> j.separator \o m.fields[names[k]].value])
    BY <1>0, <2>1, BodyIs
  <2>3. v = Joined(j, m.fields)
    BY <2>2 DEF Joined
  <2>4. v \in Seq(STRING)
    <3>1. j.separator \o j.postfix \in Seq(STRING) /\ <<>> \in Seq(STRING)
      BY <1>0, ConcatProperties
    <3>2. tail \in Seq(STRING)
      BY <3>1
    <3> HIDE DEF tail
    <3> QED BY <2>2, <3>2, ConcatProperties
  <2>5. x = Ends("yes", SetField(m, j.target[1], j.target[2], Str(v)))
    BY <1>2, <1>c, <1>x DEF Concatenate, Body
  <2> HIDE DEF v
  <2>6. PICK s : s = SetField(m, j.target[1], j.target[2], Str(v))
    OBVIOUS
  <2>7. j.target = <<j.target[1], j.target[2]>>
    BY <1>0
  <2>8. s \in Messages(D, type, typed) /\ Sets(m, j.target, v, s)
    <3>1. /\ SetField(m, j.target[1], j.target[2], Str(v)) \in Messages(D, type, typed)
          /\ Sets(m, j.target, v, SetField(m, j.target[1], j.target[2], Str(v)))
      <4> HIDE DEF names, B, All, tail
      <4> QED BY <2>4, <2>7, SetFieldDoes
    <3> QED BY <2>6, <3>1, Zenon
  <2>9. x.running = "yes" /\ x.message = s
    BY <2>5, <2>6 DEF Ends
  <2> QED BY <1>2, <2>3, <2>8, <2>9 DEF Joins, Sets
<1> QED BY <1>1, <1>2
-----------------------------------------------------------------------------
(* All augmentors, one after another.                                      *)

Credentials == <<"http_info", "access_token">>

\* The part of IsPipeline that is about the augmentors.
AreAugmentors(augs) ==
  /\ augs \in Seq(ToSet(augs)) /\ Len(augs) # 0
  /\ IsExtractor(augs[1])
  /\ \A k \in 2 .. Len(augs) : IsJoiner(augs[k], augs[1])
  /\ \A k, l \in 2 .. Len(augs) : augs[k].target = augs[l].target => augs[k] = augs[l]

JoinedTargets(augs, k) == {augs[i].target : i \in 2 .. k}
Places(augs) == {Credentials} \cup ToSet(augs[1].target_fields) \cup JoinedTargets(augs, Len(augs))

Outcomes(D, type, typed) ==
  [running : {"yes", "terminated", "undefined"}, message : Messages(D, type, typed)]

ApplyNext(a, x) == IF x.running = "yes" THEN ApplyAugmentor(a, x.message) ELSE x

LEMMA ApplyType ==
  ASSUME NEW augs, AreAugmentors(augs), NEW type, NEW typed,
         NEW x \in Outcomes(Places(augs), type, typed), NEW i \in 1 .. Len(augs)
  PROVE  ApplyNext(augs[i], x) \in Outcomes(Places(augs), type, typed)
<1> DEFINE D == Places(augs)
           m == x.message
           e == augs[1]
<1>0. m \in Messages(D, type, typed) /\ Len(augs) \in Nat
  BY DEF Outcomes, AreAugmentors
<1>1. IsExtractor(e) /\ ToSet(e.target_fields) \subseteq D
  BY DEF AreAugmentors, Places
<1>s. PICK y : y = ApplyNext(augs[i], x)
  OBVIOUS
<1> SUFFICES y \in Outcomes(D, type, typed)
  BY <1>s
<1>2. CASE x.running # "yes"
  BY <1>2, <1>s DEF ApplyNext
<1>3. CASE x.running = "yes" /\ i = 1
  <2>1. y = ExtractTokens(e, m)
    BY <1>3, <1>1, <1>s DEF ApplyNext, ApplyAugmentor, IsExtractor
  <2>2. CASE ~GetFieldReturns(m, "string", e.field[1], e.field[2])
    <3>1. y = Ends("terminated", m)
      BY <2>1, <2>2 DEF ExtractTokens
    <3> QED BY <1>0, <3>1 DEF Ends, Outcomes
  <2>3. CASE GetFieldReturns(m, "string", e.field[1], e.field[2])
    <3>1. Credentials \in DOMAIN m.fields
      BY <1>1, <2>3 DEF GetFieldReturns, IsExtractor, Credentials
    <3>2. m.fields[Credentials] \in Strings
      BY <1>0, <3>1 DEF Messages, Fields
    <3>3. PICK text \in Seq(STRING) : m.fields[Credentials] = Str(text)
      BY <3>2 DEF Strings, Str, Field
    <3>4. ExtractTokens(e, m).message \in Messages(D, type, typed) /\ Extracts(e, text, m, ExtractTokens(e, m))
      <4> HIDE DEF D, m, e
      <4> QED BY <1>0, <1>1, <3>1, <3>3, ExtractDoes DEF Credentials
    <3>5. y.message \in Messages(D, type, typed) /\ y.running \in {"yes", "terminated", "undefined"}
      BY <2>1, <3>4 DEF Extracts
    <3>6. y = [running |-> y.running, message |-> y.message]
      BY <2>1, <2>3 DEF ExtractTokens, Ends
    <3> QED BY <3>5, <3>6 DEF Outcomes
  <2> QED BY <2>2, <2>3
<1>4. CASE x.running = "yes" /\ i # 1
  <2> DEFINE j == augs[i]
  <2>1. i \in 2 .. Len(augs)
    BY <1>0, <1>4
  <2>2. IsJoiner(j, e) /\ j.target \in D
    BY <2>1 DEF AreAugmentors, Places, JoinedTargets
  <2>3. y = Concatenate(j, m)
    BY <1>4, <1>s, <2>2 DEF ApplyNext, ApplyAugmentor, IsJoiner
  <2>4. Concatenate(j, m).message \in Messages(D, type, typed) /\ Joins(j, m, Concatenate(j, m))
    <3> HIDE DEF D, m, e, j
    <3> QED BY <1>0, <1>1, <2>2, JoinDoes
  <2>5. y.message \in Messages(D, type, typed) /\ y.running \in {"yes", "terminated"}
    BY <2>3, <2>4 DEF Joins
  <2>6. y = [running |-> y.running, message |-> y.message]
    BY <2>3 DEF Concatenate, Ends
  <2> QED BY <2>5, <2>6 DEF Outcomes
<1> QED BY <1>2, <1>3, <1>4

Applies(augs, m, h) ==
  /\ h[0] = Ends("yes", m) /\ h[Len(augs)] = ApplyAll(augs, m)
  /\ \A i \in 1 .. Len(augs) : h[i] = ApplyNext(augs[i], h[i - 1])

\* The stage goes from augmentor to augmentor.
LEMMA ApplySteps ==
  ASSUME NEW augs, AreAugmentors(augs), NEW type, NEW typed, NEW m \in Messages(Places(augs), type, typed)
  PROVE  \E h \in [0 .. Len(augs) -> Outcomes(Places(augs), type, typed)] : Applies(augs, m, h)
<1> DEFINE A == Outcomes(Places(augs), type, typed)
           B == ToSet(augs)
           P == DOMAIN augs
           base == Ends("yes", m)
           F == [p \in A \X B |-> ApplyNext(p[2], p[1])]
           Folds(g) == g = [s \in SUBSET P |-> IF s = {} THEN base ELSE ApplyNext(augs[Max(s)], g[s \ {Max(s)}])]
<1>1. P = 1 .. Len(augs) /\ augs \in Seq(B)
  BY DEF AreAugmentors
<1>2. ApplyAll(augs, m) = (CHOOSE g : Folds(g))[P]
  BY DEF ApplyAll, FoldLeft, MapThenFoldSet, ApplyNext
<1>3. F \in [A \X B -> A] /\ base \in A
  <2>1. base \in A
    BY DEF Ends, Outcomes
  <2>2. \A x \in A, a \in B : ApplyNext(a, x) \in A
    <3> SUFFICES ASSUME NEW x \in A, NEW a \in B PROVE ApplyNext(a, x) \in A
      OBVIOUS
    <3>1. PICK i \in 1 .. Len(augs) : a = augs[i]
      BY <1>1 DEF ToSet
    <3> HIDE DEF A
    <3> QED BY <3>1, ApplyType DEF A
  <2> HIDE DEF A, B
  <2> QED BY <2>1, <2>2
<1>4. \A x \in A, a \in B : F[<<x, a>>] = ApplyNext(a, x)
  <2> HIDE DEF A, B
  <2> QED OBVIOUS
<1>5. \A s \in SUBSET P : s # {} => augs[Max(s)] \in B
  BY <1>1, FoldElement
<1> HIDE DEF P, F, A, B, base
<1>6. \E g : Folds(g)
  <2>1. PICK g \in [SUBSET P -> A] : Unfolds(g, base, augs, P, F)
    BY <1>1, <1>3, FoldExists
  <2>2. \A s \in SUBSET P : g[s \ {Max(s)}] \in A
    BY <2>1
  <2>3. \A s \in SUBSET P : s # {} =>
          F[<<g[s \ {Max(s)}], augs[Max(s)]>>] = ApplyNext(augs[Max(s)], g[s \ {Max(s)}])
    BY <1>4, <1>5, <2>2
  <2>4. Folds(g)
    BY <2>1, <2>3 DEF Unfolds
  <2> QED BY <2>4
<1>7. Folds(CHOOSE g : Folds(g))
  BY <1>6, Zenon
<1>8. PICK g : Folds(g) /\ ApplyAll(augs, m) = g[P]
  <2> HIDE DEF Folds
  <2> QED BY <1>2, <1>7
<1>9. GoesOn(A, B, base, augs, F, g) /\ g[1 .. Len(augs)] = ApplyAll(augs, m)
  <2>1. \A s \in SUBSET (1 .. Len(augs)) : s # {} /\ g[s \ {Max(s)}] \in A =>
          g[s] = F[<<g[s \ {Max(s)}], augs[Max(s)]>>]
    BY <1>1, <1>4, <1>5, <1>8
  <2>2. g[{}] = base /\ g[1 .. Len(augs)] = ApplyAll(augs, m)
    BY <1>1, <1>8
  <2> QED BY <1>1, <1>3, <2>1, <2>2 DEF GoesOn
<1>10. PICK h : Trace(A, base, augs, F, h) /\ h[Len(augs)] = ApplyAll(augs, m)
  BY <1>9, FoldSteps
<1>11. ASSUME NEW i \in 1 .. Len(augs) PROVE h[i] = ApplyNext(augs[i], h[i - 1])
  <2>1. h[i - 1] \in A /\ augs[i] \in B
    <3>1. i - 1 \in 0 .. Len(augs) /\ augs[i] \in B
      BY <1>1
    <3> QED BY <1>10, <3>1 DEF Trace
  <2> QED BY <1>4, <1>10, <2>1 DEF Trace
<1>12. h \in [0 .. Len(augs) -> A] /\ h[0] = base
  BY <1>10 DEF Trace
<1> QED BY <1>10, <1>11, <1>12 DEF A, base, Applies

TokenFields(e, text) == {e.target_fields[Rank(text, p)] : p \in Taken(e, text)}

\* What the fields are after the first k augmentors.
Filled(augs, text, k, fields) ==
  LET e == augs[1] IN
  /\ DOMAIN fields = {Credentials} \cup TokenFields(e, text) \cup JoinedTargets(augs, k)
  /\ \A p \in Taken(e, text) : fields[e.target_fields[Rank(text, p)]] = Str(Word(text, p))
  /\ \A i \in 2 .. k : fields[augs[i].target] = Str(Joined(augs[i], fields))

After(augs, text, k, x) ==
  /\ x.running = "yes" => /\ ~Overruns(augs[1], text) /\ ~Malformed(augs[1], text)
                          /\ \A i \in 2 .. k : ~Missing(augs[1], augs[i], text)
                          /\ Filled(augs, text, k, x.message.fields)
  /\ x.running = "terminated" =>
       \/ Malformed(augs[1], text)
       \/ ~Overruns(augs[1], text) /\ \E i \in 2 .. k : Missing(augs[1], augs[i], text)
  /\ x.running = "undefined" => Overruns(augs[1], text)

LEMMA AfterFirst ==
  ASSUME NEW augs, AreAugmentors(augs), NEW type, NEW typed, NEW m \in Messages(Places(augs), type, typed),
         NEW text \in Seq(STRING), DOMAIN m.fields = {Credentials}, m.fields[Credentials] = Str(text)
  PROVE  After(augs, text, 1, ApplyNext(augs[1], Ends("yes", m)))
<1> DEFINE D == Places(augs)
           e == augs[1]
<1>1. IsExtractor(e) /\ ToSet(e.target_fields) \subseteq D
  BY DEF AreAugmentors, Places
<1>2. PICK y : y = ExtractTokens(e, m)
  OBVIOUS
<1>3. ApplyNext(e, Ends("yes", m)) = y
  BY <1>1, <1>2 DEF ApplyNext, ApplyAugmentor, IsExtractor, Ends
<1>4. Extracts(e, text, m, y)
  <2>1. Credentials \in DOMAIN m.fields
    OBVIOUS
  <2> HIDE DEF D, e
  <2> QED BY <1>1, <1>2, <2>1, ExtractDoes DEF Credentials, D
<1>5. 2 .. 1 = {} /\ JoinedTargets(augs, 1) = {}
  BY DEF JoinedTargets
<1>6. ASSUME y.running = "yes" PROVE Filled(augs, text, 1, y.message.fields)
  <2>1. Extracted(e, text, m, y.message)
    BY <1>4, <1>6 DEF Extracts
  <2> HIDE DEF e
  <2>2. DOMAIN y.message.fields = {Credentials} \cup TokenFields(e, text) \cup JoinedTargets(augs, 1)
    BY <1>5, <2>1 DEF Extracted, TokenFields
  <2> QED BY <1>5, <2>1, <2>2 DEF Extracted, Filled, e
<1>7. After(augs, text, 1, y)
  BY <1>4, <1>5, <1>6 DEF Extracts, After
<1> QED BY <1>3, <1>7

\* Only the fields with its names matter to a joined one.
LEMMA JoinedSame ==
  ASSUME NEW j, NEW f, NEW g, \A k \in DOMAIN j.field_names : f[j.field_names[k]] = g[j.field_names[k]]
  PROVE  Joined(j, f) = Joined(j, g)
<1>1. [k \in DOMAIN j.field_names |-> j.separator \o f[j.field_names[k]].value]
        = [k \in DOMAIN j.field_names |-> j.separator \o g[j.field_names[k]].value]
  OBVIOUS
<1> QED BY <1>1 DEF Joined

LEMMA AfterNext ==
  ASSUME NEW augs, AreAugmentors(augs), NEW type, NEW typed, NEW text \in Seq(STRING),
         NEW k \in 1 .. Len(augs) - 1, NEW x \in Outcomes(Places(augs), type, typed), After(augs, text, k, x)
  PROVE  After(augs, text, k + 1, ApplyNext(augs[k + 1], x))
<1> DEFINE e == augs[1]
           j == augs[k + 1]
           m == x.message
<1>0. /\ Len(augs) \in Nat /\ k \in Nat /\ k + 1 \in 2 .. Len(augs)
      /\ 2 .. k + 1 = 2 .. k \cup {k + 1} /\ 2 .. k \subseteq 2 .. Len(augs)
  BY DEF AreAugmentors
<1>1. IsExtractor(e) /\ IsJoiner(j, e)
  BY <1>0 DEF AreAugmentors
<1>y. PICK y : y = ApplyNext(augs[k + 1], x)
  OBVIOUS
<1> SUFFICES After(augs, text, k + 1, y)
  BY <1>y
<1>2. CASE x.running # "yes"
  <2>1. y = x
    BY <1>2, <1>y DEF ApplyNext
  <2> QED BY <1>0, <1>2, <2>1 DEF After
<1>3. CASE x.running = "yes"
  <2>1. y = Concatenate(j, m)
    BY <1>1, <1>3, <1>y DEF ApplyNext, ApplyAugmentor, IsJoiner
  <2>2. Joins(j, m, y)
    <3>1. m \in Messages(Places(augs), type, typed) /\ j.target \in Places(augs)
      BY <1>0 DEF Outcomes, Places, JoinedTargets
    <3> HIDE DEF e, j, m
    <3> QED BY <1>1, <2>1, <3>1, JoinDoes
  <2>3. /\ ~Overruns(e, text) /\ ~Malformed(e, text) /\ Filled(augs, text, k, m.fields)
        /\ \A i \in 2 .. k : ~Missing(e, augs[i], text)
    BY <1>3 DEF After
  <2>4. \A i \in 2 .. k + 1 : augs[i].target \notin ToSet(e.target_fields)
    BY <1>0 DEF AreAugmentors, IsJoiner
  <2>5. \A i \in 2 .. k + 1 : \A l \in DOMAIN augs[i].field_names : augs[i].field_names[l] \in ToSet(e.target_fields)
    <3> SUFFICES ASSUME NEW i \in 2 .. k + 1, NEW l \in DOMAIN augs[i].field_names
                 PROVE augs[i].field_names[l] \in ToSet(e.target_fields)
      OBVIOUS
    <3>1. augs[i].field_names \in Seq(ToSet(e.target_fields))
      BY <1>0 DEF AreAugmentors, IsJoiner
    <3> QED BY <3>1
  <2>6. Credentials \notin ToSet(e.target_fields)
    BY <1>1, TargetsAre DEF ToSet, Credentials
  <2>7. \A f \in ToSet(e.target_fields) : f \in DOMAIN m.fields <=> f \in TokenFields(e, text)
    BY <1>0, <2>3, <2>4, <2>6 DEF Filled, JoinedTargets
  <2>8. Missing(e, j, text) <=> \E l \in DOMAIN j.field_names : j.field_names[l] \notin DOMAIN m.fields
    <3>1. \A l \in DOMAIN j.field_names :
            (\A p \in Taken(e, text) : e.target_fields[Rank(text, p)] # j.field_names[l])
              <=> j.field_names[l] \notin DOMAIN m.fields
      BY <1>0, <2>5, <2>7 DEF TokenFields
    <3> QED BY <3>1 DEF Missing
  <2>9. CASE y.running = "terminated"
    <3>1. Missing(e, j, text)
      BY <2>2, <2>8, <2>9 DEF Joins
    <3>2. \E i \in 2 .. k + 1 : Missing(e, augs[i], text)
      BY <1>0, <3>1
    <3> QED BY <2>3, <2>9, <3>2 DEF After
  <2>10. CASE y.running = "yes"
    <3>1. /\ \A l \in DOMAIN j.field_names : j.field_names[l] \in DOMAIN m.fields
          /\ DOMAIN y.message.fields = DOMAIN m.fields \cup {j.target}
          /\ y.message.fields[j.target] = Str(Joined(j, m.fields))
          /\ \A g \in DOMAIN m.fields : g # j.target => y.message.fields[g] = m.fields[g]
      BY <2>2, <2>10 DEF Joins
    <3>2. \A i \in 2 .. k + 1 : ~Missing(e, augs[i], text)
      BY <1>0, <2>3, <2>8, <3>1
    <3>3. TokenFields(e, text) \subseteq DOMAIN m.fields
      BY <2>3 DEF Filled
    <3>4. \A p \in Taken(e, text) : e.target_fields[Rank(text, p)] \in ToSet(e.target_fields)
      <4> SUFFICES ASSUME NEW p \in Taken(e, text) PROVE e.target_fields[Rank(text, p)] \in ToSet(e.target_fields)
        OBVIOUS
      <4>1. p \in Closings(text) /\ p \in 1 .. Len(text) /\ Len(text) \in Nat
        BY DEF Taken, Closings, Marks
      <4>2. Rank(text, 0) < Rank(text, p) /\ Rank(text, 0) = 0 /\ Rank(text, p) \in Nat
        BY <4>1, RankSteps, RankOrder
      <4>3. Rank(text, p) <= Len(e.target_fields)
        BY <1>1, <2>3, <4>2, TargetsAre DEF Overruns
      <4> HIDE DEF e
      <4> QED BY <1>1, <4>2, <4>3, TargetsAre
    <3>5. \A p \in Taken(e, text) : y.message.fields[e.target_fields[Rank(text, p)]] = Str(Word(text, p))
      <4> SUFFICES ASSUME NEW p \in Taken(e, text)
                   PROVE y.message.fields[e.target_fields[Rank(text, p)]] = Str(Word(text, p))
        OBVIOUS
      <4>1. e.target_fields[Rank(text, p)] \in DOMAIN m.fields
        BY <3>3 DEF TokenFields
      <4>2. e.target_fields[Rank(text, p)] # j.target
        BY <1>0, <2>4, <3>4
      <4>3. m.fields[e.target_fields[Rank(text, p)]] = Str(Word(text, p))
        BY <2>3 DEF Filled
      <4> QED BY <3>1, <4>1, <4>2, <4>3
    <3>6. \A i \in 2 .. k : \A l \in DOMAIN augs[i].field_names : augs[i].field_names[l] \in DOMAIN m.fields
      <4> SUFFICES ASSUME NEW i \in 2 .. k, NEW l \in DOMAIN augs[i].field_names
                   PROVE augs[i].field_names[l] \in DOMAIN m.fields
        OBVIOUS
      <4>1. PICK p \in Taken(e, text) : e.target_fields[Rank(text, p)] = augs[i].field_names[l]
        BY <2>3 DEF Missing
      <4> QED BY <3>3, <4>1 DEF TokenFields
    <3>7. \A i \in 2 .. k + 1 : Joined(augs[i], y.message.fields) = Joined(augs[i], m.fields)
      <4> SUFFICES ASSUME NEW i \in 2 .. k + 1
                   PROVE Joined(augs[i], y.message.fields) = Joined(augs[i], m.fields)
        OBVIOUS
      <4>1. \A l \in DOMAIN augs[i].field_names :
              augs[i].field_names[l] \in DOMAIN m.fields /\ augs[i].field_names[l] # j.target
        BY <1>0, <2>4, <2>5, <3>1, <3>6
      <4>2. \A l \in DOMAIN augs[i].field_names :
              y.message.fields[augs[i].field_names[l]] = m.fields[augs[i].field_names[l]]
        BY <3>1, <4>1
      <4> QED BY <4>2, JoinedSame
    <3>8. \A i \in 2 .. k + 1 : y.message.fields[augs[i].target] = Str(Joined(augs[i], y.message.fields))
      <4> SUFFICES ASSUME NEW i \in 2 .. k + 1
                   PROVE y.message.fields[augs[i].target] = Str(Joined(augs[i], m.fields))
        BY <3>7
      <4>1. CASE augs[i].target = j.target
        <5>1. augs[i] = j
          <6>1. i \in 2 .. Len(augs)
            BY <1>0
          <6> QED BY <1>0, <4>1, <6>1 DEF AreAugmentors
        <5> QED BY <3>1, <5>1
      <4>2. CASE augs[i].target # j.target
        <5>1. i \in 2 .. k
          BY <1>0, <4>2
        <5>2. augs[i].target \in DOMAIN m.fields /\ m.fields[augs[i].target] = Str(Joined(augs[i], m.fields))
          BY <2>3, <5>1 DEF Filled, JoinedTargets
        <5> QED BY <3>1, <4>2, <5>2
      <4> QED BY <4>1, <4>2
    <3>9. DOMAIN y.message.fields = {Credentials} \cup TokenFields(e, text) \cup JoinedTargets(augs, k + 1)
      <4>1. JoinedTargets(augs, k + 1) = JoinedTargets(augs, k) \cup {j.target}
        BY <1>0 DEF JoinedTargets
      <4>2. DOMAIN m.fields = {Credentials} \cup TokenFields(e, text) \cup JoinedTargets(augs, k)
        BY <2>3 DEF Filled
      <4> QED BY <3>1, <4>1, <4>2
    <3>10. Filled(augs, text, k + 1, y.message.fields)
      BY <3>5, <3>8, <3>9 DEF Filled
    <3> QED BY <2>3, <2>10, <3>2, <3>10 DEF After
  <2> QED BY <2>2, <2>9, <2>10 DEF Joins
<1> QED BY <1>2, <1>3

LEMMA ApplyDoes ==
  ASSUME NEW augs, AreAugmentors(augs), NEW type, NEW typed, NEW m \in Messages(Places(augs), type, typed),
         NEW text \in Seq(STRING), DOMAIN m.fields = {Credentials}, m.fields[Credentials] = Str(text)
  PROVE  /\ ApplyAll(augs, m) \in Outcomes(Places(augs), type, typed)
         /\ After(augs, text, Len(augs), ApplyAll(augs, m))
<1> DEFINE A == Outcomes(Places(augs), type, typed)
           n == Len(augs)
<1>0. n \in Nat /\ n # 0 /\ n \in 0 .. n
  BY DEF AreAugmentors
<1>1. PICK h \in [0 .. n -> A] : Applies(augs, m, h)
  BY ApplySteps
<1>2. h[0] = Ends("yes", m) /\ h[n] = ApplyAll(augs, m)
  BY <1>1 DEF Applies
<1> DEFINE G == {k \in Nat : k + 1 <= n => After(augs, text, k + 1, h[k + 1])}
<1>3. 0 \in G
  <2>1. 1 \in 1 .. n /\ 1 - 1 = 0 /\ 0 + 1 = 1
    BY <1>0
  <2>2. h[1] = ApplyNext(augs[1], Ends("yes", m))
    BY <1>1, <1>2, <2>1 DEF Applies
  <2>3. After(augs, text, 1, h[1])
    BY <2>2, AfterFirst
  <2> QED BY <2>1, <2>3
<1>4. ASSUME NEW k \in Nat, k \in G PROVE k + 1 \in G
  <2> SUFFICES ASSUME (k + 1) + 1 <= n PROVE After(augs, text, (k + 1) + 1, h[(k + 1) + 1])
    OBVIOUS
  <2>1. k + 1 <= n /\ (k + 1) + 1 \in 1 .. n /\ ((k + 1) + 1) - 1 = k + 1 /\ k + 1 \in 1 .. n - 1 /\ k + 1 \in 0 .. n
    BY <1>0
  <2>2. h[(k + 1) + 1] = ApplyNext(augs[(k + 1) + 1], h[k + 1])
    BY <1>1, <2>1 DEF Applies
  <2>3. After(augs, text, k + 1, h[k + 1]) /\ h[k + 1] \in A
    BY <1>4, <2>1
  <2> QED BY <2>1, <2>2, <2>3, AfterNext
<1>5. \A k \in Nat : k \in G
  <2> HIDE DEF G
  <2> QED BY <1>3, <1>4, Counting
<1>6. n - 1 \in Nat /\ (n - 1) + 1 = n
  BY <1>0
<1>7. After(augs, text, n, h[n])
  <2>1. n - 1 \in G
    BY <1>5, <1>6
  <2>2. (n - 1) + 1 <= n => After(augs, text, (n - 1) + 1, h[(n - 1) + 1])
    BY <2>1
  <2> QED BY <1>0, <1>6, <2>2
<1> QED BY <1>0, <1>1, <1>2, <1>7
-----------------------------------------------------------------------------
(* What comes in, and where routers send it.                               *)

Record(m) == m = [type |-> m.type, fields |-> m.fields, typed |-> m.typed]

PathOf(resource, values) ==
  LET names == ExtractPathParameters(resource)
      Put(data, k) == Assign(data, names[k], values[k])
  IN  FoldLeft(Put, <<>>, [k \in DOMAIN names |-> k])

PathData(r) == PathOf(config.resource, r.values)

\* A message as it comes to the first router.
Fresh(m, r) ==
  /\ Record(m) /\ m.type = r.type
  /\ r.type \in DynamicTypes => m.fields \in [{Credentials} -> {Str(r.text)}]
  /\ r.type \notin DynamicTypes => DOMAIN m.fields = {}

Aside(m, w) == Record(w) /\ w.type = m.type /\ w.fields = m.fields

LEMMA ParametersAside ==
  ASSUME NEW m, Record(m), NEW group, NEW data
  PROVE  Aside(m, WithParameters(m, group, data))
<1> DEFINE c == CreateTypedGroup(m, "string", group)
           F == AssignAll(c.typed[group].fields, data)
           T == [c.typed EXCEPT ![group].fields = F]
<1>1. Record(c) /\ c.type = m.type /\ c.fields = m.fields
  <2>1. CASE group \in DOMAIN m.typed
    BY <2>1 DEF CreateTypedGroup
  <2>2. CASE group \notin DOMAIN m.typed
    <3>1. c = [m EXCEPT !.typed = Assign(m.typed, group, [type |-> "string", fields |-> <<>>])]
      BY <2>2 DEF CreateTypedGroup
    <3> QED BY <3>1 DEF Record
  <2> QED BY <2>1, <2>2
<1>2. WithParameters(m, group, data) = [c EXCEPT !.typed[group].fields = F]
  BY DEF WithParameters
<1>3. PICK w : w = WithParameters(m, group, data)
  OBVIOUS
<1>4. Record(w) /\ w.type = c.type /\ w.fields = c.fields
  <2> HIDE DEF F, c
  <2> QED BY <1>1, <1>2, <1>3 DEF Record
<1>5. Aside(m, w)
  <2> HIDE DEF c
  <2> QED BY <1>1, <1>4 DEF Aside
<1> QED BY <1>3, <1>5

LEMMA ArrivesFresh ==
  ASSUME NEW r, NEW m,
         m = CASE r.type = "HttpRequestMessage" -> HandlerMessage(r)
               [] r.type = "DynamicMessage"     -> WithCredentials(r)
               [] r.type \notin DynamicTypes    -> Message(r.type)
  PROVE  Fresh(m, r)
<1> DEFINE w == WithCredentials(r)
           q == WithParameters(w, "query_parameters", ExtractQuery(r.query))
<1>1. Record(w) /\ w.type = r.type /\ w.fields \in [{Credentials} -> {Str(r.text)}]
  <2>1. w = [type |-> r.type, fields |-> Assign(<<>>, Credentials, Str(r.text)), typed |-> <<>>]
    BY DEF WithCredentials, SetField, Message, Credentials
  <2>2. Assign(<<>>, Credentials, Str(r.text)) \in [{Credentials} -> {Str(r.text)}]
    <3>1. DOMAIN <<>> = {}
      OBVIOUS
    <3> QED BY <3>1 DEF Assign
  <2> HIDE DEF w
  <2> QED BY <2>1, <2>2 DEF Record
<1>2. CASE r.type = "HttpRequestMessage"
  <2>1. PICK v : v = ExtractQuery(r.query)
    OBVIOUS
  <2>p. PICK d : d = PathData(r)
    OBVIOUS
  <2>2. m = WithParameters(WithParameters(w, "query_parameters", v), "path_parameters", d)
    BY <1>2, <2>1, <2>p DEF HandlerMessage, PathData, PathOf, FoldLeft, MapThenFoldSet, DynamicTypes
  <2>3. PICK y : y = WithParameters(w, "query_parameters", v)
    OBVIOUS
  <2> HIDE DEF w
  <2>4. Record(y) /\ y.type = w.type /\ y.fields = w.fields
    BY <1>1, <2>3, ParametersAside DEF Aside
  <2>5. Record(m) /\ m.type = y.type /\ m.fields = y.fields
    <3>1. m = WithParameters(y, "path_parameters", d)
      BY <2>2, <2>3
    <3>2. Aside(y, m)
      BY <2>4, <3>1, ParametersAside
    <3> QED BY <3>2 DEF Aside
  <2> QED BY <1>1, <1>2, <2>4, <2>5 DEF Fresh, DynamicTypes
<1>3. CASE r.type = "DynamicMessage"
  <2>1. m = w
    BY <1>3 DEF DynamicTypes
  <2> QED BY <1>1, <1>3, <2>1 DEF Fresh, DynamicTypes
<1>4. CASE r.type \notin DynamicTypes
  <2>1. m = Message(r.type)
    BY <1>4 DEF DynamicTypes
  <2>2. DOMAIN <<>> = {}
    OBVIOUS
  <2> QED BY <1>4, <2>1, <2>2 DEF Message, Fresh, Record
<1> QED BY <1>2, <1>3, <1>4 DEF DynamicTypes

LEMMA SourceIs ==
  ASSUME NEW ids \in Seq(STRING), Len(ids) \in 1 .. 3, NEW type
  PROVE  /\ SourceFor(ids, type) = "remaining_source" <=> \A i \in DOMAIN ids : ids[i] # type
         /\ SourceFor(ids, type) # "remaining_source" => IdOf(ids, SourceFor(ids, type)) = type
<1>1. CASE Len(ids) = 1
  <2>1. DOMAIN ids = {1}
    BY <1>1
  <2> QED BY <1>1, <2>1 DEF SourceFor, TwoWay, IdOf
<1>2. CASE Len(ids) = 2
  <2>1. DOMAIN ids = {1, 2}
    BY <1>2
  <2>2. SourceFor(ids, type) = ThreeWay(ids, type)
    BY <1>2 DEF SourceFor
  <2> QED BY <1>2, <2>1, <2>2 DEF ThreeWay, IdOf
<1>3. CASE Len(ids) = 3
  <2>1. DOMAIN ids = {1, 2, 3}
    BY <1>3
  <2>2. SourceFor(ids, type) = FourWay(ids, type)
    BY <1>3 DEF SourceFor
  <2> QED BY <1>3, <2>1, <2>2 DEF FourWay, IdOf
<1> QED BY <1>1, <1>2, <1>3

-----------------------------------------------------------------------------
(* What the JWT stages find and do.                                        *)

Auth == <<"auth", "token">>

\* The field the JWT stages read has the first token of the text, if there is one.
Carries(m) ==
  /\ Auth \in DOMAIN m.fields <=> HasToken
  /\ HasToken => m.fields[Auth] = Str(Word(Text, Min(Taken(Extractor, Text))))

LEMMA FirstToken ==
  ASSUME NEW e, IsExtractor(e), NEW text \in Seq(STRING), Taken(e, text) # {}
  PROVE  Min(Taken(e, text)) \in Taken(e, text) /\ Rank(text, Min(Taken(e, text))) = 1
<1> DEFINE T == Taken(e, text)
           n == Len(text)
<1>0. /\ n \in Nat /\ T \subseteq Closings(text) /\ Closings(text) \subseteq 1 .. n
      /\ Wanted(e, text) \in Nat
  BY WantedType DEF Taken, Closings, Marks, IsExtractor
<1>1. T \in SUBSET Nat /\ T # {}
  BY <1>0
<1>2. Min(T) \in T /\ \A y \in T : Min(T) <= y
  <2> HIDE DEF T
  <2> QED BY <1>1, Lowest
<1>3. PICK p : p = Min(T)
  OBVIOUS
<1>4. p \in T /\ p \in Closings(text) /\ p \in 1 .. n /\ Rank(text, p) <= Wanted(e, text) /\ \A y \in T : p <= y
  BY <1>0, <1>2, <1>3 DEF Taken
<1>5. \A k \in 0 .. n : Rank(text, k) \in Nat
  BY RankSteps
<1>6. ASSUME NEW q \in Closings(text), q <= p PROVE q = p
  <2>1. q \in 0 .. n /\ p \in 0 .. n /\ q \in Nat
    BY <1>0, <1>4
  <2>2. Rank(text, q) <= Rank(text, p)
    BY <1>6, <2>1, RankOrder
  <2>3. Rank(text, q) <= Wanted(e, text)
    BY <1>0, <1>4, <1>5, <2>1, <2>2
  <2>4. p <= q
    BY <1>4, <2>3 DEF Taken
  <2> QED BY <1>4, <1>6, <2>1, <2>4
<1>7. {q \in Closings(text) : q <= p} = {p}
  BY <1>4, <1>6
<1>8. Rank(text, p) = 1
  BY <1>7, FS_Singleton DEF Rank
<1> QED BY <1>3, <1>4, <1>8

LEMMA FilledCarries ==
  ASSUME AreAugmentors(config.augmentors), Text \in Seq(STRING), ~Overruns(Extractor, Text),
         NEW m, Filled(config.augmentors, Text, Len(config.augmentors), m.fields)
  PROVE  Carries(m)
<1> DEFINE e == Extractor
           T == Taken(e, Text)
           augs == config.augmentors
<1>0. IsExtractor(e) /\ e = augs[1]
  BY DEF Extractor, AreAugmentors
<1>1. Auth # Credentials /\ Auth \notin JoinedTargets(augs, Len(augs))
  BY DEF Auth, Credentials, JoinedTargets, AreAugmentors, IsJoiner
<1>2. Auth \in DOMAIN m.fields <=> Auth \in TokenFields(e, Text)
  BY <1>0, <1>1 DEF Filled
<1>3. CASE T = {}
  BY <1>2, <1>3 DEF TokenFields, HasToken, Carries
<1>4. CASE T # {}
  <2>1. PICK p \in T : p = Min(T) /\ Rank(Text, p) = 1
    BY <1>0, <1>4, FirstToken
  <2>2. ~(1 > Len(e.target_fields)) /\ Len(e.target_fields) \in Nat
    BY <1>0, <2>1, TargetsAre DEF Overruns
  <2>3. e.target_fields # <<>> /\ e.target_fields[1] = Auth
    BY <1>0, <2>2 DEF IsExtractor, Auth
  <2>4. m.fields[e.target_fields[Rank(Text, p)]] = Str(Word(Text, p))
    BY <1>0, <2>1 DEF Filled
  <2>5. Auth \in TokenFields(e, Text) /\ m.fields[Auth] = Str(Word(Text, p))
    BY <2>1, <2>3, <2>4 DEF TokenFields
  <2> QED BY <1>2, <1>4, <2>1, <2>3, <2>5 DEF HasToken, Carries
<1> QED BY <1>3, <1>4

\* What the JWT stages read is the token.
LEMMA ReadsToken ==
  ASSUME NEW m, Carries(m)
  PROVE  /\ GetFieldReturns(m, "string", "auth", "token") <=> HasToken
         /\ HasToken => Decoded(GetField(m, "auth", "token")) = Token
BY DEF Carries, Auth, GetFieldReturns, GetField, Str, Field, Token

LEMMA TokenIs ==
  ASSUME NEW text
  PROVE  LET t == Decoded(text) IN
         \/ t.form = "jwt" /\ t.verdict \in {"good", "signature", "token verification", "uncaught"}
         \/ t.form \in {"garbled", "no object"} /\ t.verdict = "none"
         \/ t.form = "no jwt" /\ t.verdict = "none"
<1>t. PICK t : t = Decoded(text)
  OBVIOUS
<1> SUFFICES \/ t.form = "jwt" /\ t.verdict \in {"good", "signature", "token verification", "uncaught"}
             \/ t.form \in {"garbled", "no object"} /\ t.verdict = "none"
             \/ t.form = "no jwt" /\ t.verdict = "none"
  BY <1>t
<1>1. CASE Len(text) = 1 /\ text[1] \in DOMAIN Jwt
  <2>1. t = Jwt[text[1]]
    BY <1>1, <1>t DEF Decoded
  <2>2. LET u == Jwt[text[1]] IN
        \/ u.form = "jwt" /\ u.verdict \in {"good", "signature", "token verification", "uncaught"}
        \/ u.form \in {"garbled", "no object"} /\ u.verdict = "none"
    BY <1>1, JwtAssumption, Zenon
  <2> QED BY <2>1, <2>2
<1>2. CASE ~(Len(text) = 1 /\ text[1] \in DOMAIN Jwt)
  <2>1. t = [form |-> "no jwt", header |-> <<>>, payload |-> <<>>, verdict |-> "none"]
    BY <1>2, <1>t DEF Decoded
  <2> QED BY <2>1
<1> QED BY <1>1, <1>2

\* w is m with more in one group.
Adds1(m, group, w) ==
  /\ Record(w) /\ w.type = m.type /\ w.typed = m.typed
  /\ DOMAIN m.fields \subseteq DOMAIN w.fields
  /\ \A k \in DOMAIN w.fields : k \in DOMAIN m.fields \/ k[1] = group
  /\ \A k \in DOMAIN m.fields : k[1] # group => w.fields[k] = m.fields[k]

LEMMA AddedOnce ==
  ASSUME NEW m, Record(m), NEW group, NEW entries, \A k \in DOMAIN entries : k[1] = group
  PROVE  Adds1(m, group, [m EXCEPT !.fields = AssignAll(@, entries)])
<1> DEFINE F == AssignAll(m.fields, entries)
<1>1. PICK w : w = [m EXCEPT !.fields = F]
  OBVIOUS
<1>2. Record(w) /\ w.type = m.type /\ w.typed = m.typed /\ w.fields = F
  <2> HIDE DEF F
  <2> QED BY <1>1 DEF Record
<1>3. F = [k \in DOMAIN m.fields \cup DOMAIN entries |-> IF k \in DOMAIN entries THEN entries[k] ELSE m.fields[k]]
  BY DEF AssignAll
<1>4. DOMAIN F = DOMAIN m.fields \cup DOMAIN entries
  BY <1>3
<1>5. \A k \in DOMAIN m.fields : k[1] # group => F[k] = m.fields[k]
  BY <1>3
<1> HIDE DEF F
<1>6. Adds1(m, group, w)
  BY <1>2, <1>4, <1>5 DEF Adds1
<1> QED BY <1>1, <1>6 DEF F

LEMMA AddedTwice ==
  ASSUME NEW m, NEW group, NEW w, Adds1(m, group, w), NEW x, Adds1(w, group, x)
  PROVE  Adds1(m, group, x)
BY DEF Adds1
LEMMA AddedField ==
  ASSUME NEW m, Record(m), NEW group, NEW name, NEW field
  PROVE  /\ Adds1(m, group, SetField(m, group, name, field))
         /\ <<group, name>> \in DOMAIN SetField(m, group, name, field).fields
<1> DEFINE F == Assign(m.fields, <<group, name>>, field)
<1>1. PICK w : w = SetField(m, group, name, field)
  OBVIOUS
<1>2. Record(w) /\ w.type = m.type /\ w.typed = m.typed /\ w.fields = F
  <2>1. w = [m EXCEPT !.fields = F]
    BY <1>1 DEF SetField
  <2> HIDE DEF F
  <2> QED BY <2>1 DEF Record
<1>3. /\ DOMAIN F = DOMAIN m.fields \cup {<<group, name>>}
      /\ \A k \in DOMAIN m.fields : k[1] # group => F[k] = m.fields[k]
  BY DEF Assign
<1> HIDE DEF F
<1>4. Adds1(m, group, w) /\ <<group, name>> \in DOMAIN w.fields
  BY <1>2, <1>3 DEF Adds1
<1> QED BY <1>1, <1>4

LEMMA HeaderClaims ==
  ASSUME NEW m, Record(m), NEW group, NEW t, NEW claims
  PROVE  /\ Adds1(m, group, SetHeaderClaims(m, group, t, claims))
         /\ \A c \in claims : /\ <<group, c>> \in DOMAIN SetHeaderClaims(m, group, t, claims).fields
                              /\ SetHeaderClaims(m, group, t, claims).fields[<<group, c>>] = Str(t.header[c].value)
<1> DEFINE entries == [k \in {group} \X claims |-> Str(t.header[k[2]].value)]
<1>1. \A k \in DOMAIN entries : k[1] = group
  OBVIOUS
<1>2. PICK w : w = [m EXCEPT !.fields = AssignAll(@, entries)]
  OBVIOUS
<1>3. w = SetHeaderClaims(m, group, t, claims)
  BY <1>2 DEF SetHeaderClaims
<1>4. \A c \in claims : <<group, c>> \in DOMAIN entries /\ entries[<<group, c>>] = Str(t.header[c].value)
  OBVIOUS
<1> HIDE DEF entries
<1>5. Adds1(m, group, w)
  BY <1>1, <1>2, AddedOnce
<1>6. w.fields = AssignAll(m.fields, entries)
  BY <1>2 DEF Record
<1>7. \A c \in claims : <<group, c>> \in DOMAIN w.fields /\ w.fields[<<group, c>>] = Str(t.header[c].value)
  BY <1>4, <1>6 DEF AssignAll
<1> QED BY <1>3, <1>5, <1>7

LEMMA PayloadClaims ==
  ASSUME NEW m, Record(m), NEW group, NEW t
  PROVE  /\ Adds1(m, group, SetPayloadClaims(m, group, t))
         /\ \A c \in DOMAIN t.payload : SetPayloadClaims(m, group, t).fields[<<group, c>>] = Str(t.payload[c])
         /\ \A c : c \notin DOMAIN t.payload /\ <<group, c>> \in DOMAIN m.fields =>
              SetPayloadClaims(m, group, t).fields[<<group, c>>] = m.fields[<<group, c>>]
<1> DEFINE entries == [k \in {group} \X DOMAIN t.payload |-> Str(t.payload[k[2]])]
<1>1. \A k \in DOMAIN entries : k[1] = group
  OBVIOUS
<1>2. PICK w : w = [m EXCEPT !.fields = AssignAll(@, entries)]
  OBVIOUS
<1>3. w = SetPayloadClaims(m, group, t)
  BY <1>2 DEF SetPayloadClaims
<1>4. \A c \in DOMAIN t.payload : <<group, c>> \in DOMAIN entries /\ entries[<<group, c>>] = Str(t.payload[c])
  OBVIOUS
<1>a. \A c : c \notin DOMAIN t.payload => <<group, c>> \notin DOMAIN entries
  OBVIOUS
<1> HIDE DEF entries
<1>5. Adds1(m, group, w)
  BY <1>1, <1>2, AddedOnce
<1>6. w.fields = AssignAll(m.fields, entries)
  BY <1>2 DEF Record
<1>7. \A c \in DOMAIN t.payload : w.fields[<<group, c>>] = Str(t.payload[c])
  BY <1>4, <1>6 DEF AssignAll
<1>8. \A c : c \notin DOMAIN t.payload /\ <<group, c>> \in DOMAIN m.fields =>
        w.fields[<<group, c>>] = m.fields[<<group, c>>]
  BY <1>a, <1>6 DEF AssignAll
<1> QED BY <1>3, <1>5, <1>7, <1>8

LEMMA AllClaims ==
  ASSUME NEW m, Record(m), NEW group, NEW t
  PROVE  /\ Adds1(m, group, SetAllClaims(m, group, t))
         /\ \A c \in DOMAIN t.header \cup DOMAIN t.payload :
              SetAllClaims(m, group, t).fields[<<group, c>>].value =
                IF c \in DOMAIN t.payload THEN t.payload[c] ELSE t.header[c].value
<1>1. PICK h : h = SetHeaderClaims(m, group, t, DOMAIN t.header)
  OBVIOUS
<1>2. /\ Adds1(m, group, h)
      /\ \A c \in DOMAIN t.header : <<group, c>> \in DOMAIN h.fields /\ h.fields[<<group, c>>] = Str(t.header[c].value)
  BY <1>1, HeaderClaims
<1>3. PICK w : w = SetPayloadClaims(h, group, t)
  OBVIOUS
<1>4. /\ Adds1(h, group, w)
      /\ \A c \in DOMAIN t.payload : w.fields[<<group, c>>] = Str(t.payload[c])
      /\ \A c : c \notin DOMAIN t.payload /\ <<group, c>> \in DOMAIN h.fields =>
           w.fields[<<group, c>>] = h.fields[<<group, c>>]
  <2>1. Record(h)
    BY <1>2 DEF Adds1
  <2> QED BY <1>3, <2>1, PayloadClaims
<1>5. w = SetAllClaims(m, group, t)
  BY <1>1, <1>3 DEF SetAllClaims
<1>6. Adds1(m, group, w)
  BY <1>2, <1>4, AddedTwice
<1>7. \A c \in DOMAIN t.header \cup DOMAIN t.payload :
        w.fields[<<group, c>>].value = IF c \in DOMAIN t.payload THEN t.payload[c] ELSE t.header[c].value
  <2> SUFFICES ASSUME NEW c \in DOMAIN t.header \cup DOMAIN t.payload
               PROVE  w.fields[<<group, c>>].value =
                        IF c \in DOMAIN t.payload THEN t.payload[c] ELSE t.header[c].value
    OBVIOUS
  <2>1. CASE c \in DOMAIN t.payload
    <3>1. w.fields[<<group, c>>] = Str(t.payload[c])
      BY <1>4, <2>1
    <3> QED BY <2>1, <3>1 DEF Str, Field
  <2>2. CASE c \notin DOMAIN t.payload
    <3>1. w.fields[<<group, c>>] = Str(t.header[c].value)
      BY <1>2, <1>4, <2>2
    <3> QED BY <2>2, <3>1 DEF Str, Field
  <2> QED BY <2>1, <2>2
<1> QED BY <1>5, <1>6, <1>7

DecoderTells(m, o) ==
  /\ Adds1(m, DecoderGroup, o.message)
  /\ \/ o.to = "decoded_token_out" /\ HasToken /\ Readable
     \/ /\ o.to = "error_decoding_out" /\ ~Readable
        /\ <<DecoderGroup, "jwt_decoder_error_description">> \in DOMAIN o.message.fields

LEMMA FailedTells ==
  ASSUME NEW m, Record(m), NEW h, Adds1(m, DecoderGroup, h), ~Readable
  PROVE  DecoderTells(m, DecodingFailed(h))
<1>1. PICK w : w = SetField(h, DecoderGroup, "jwt_decoder_error_description", Str(<<>>))
  OBVIOUS
<1>2. Adds1(h, DecoderGroup, w) /\ <<DecoderGroup, "jwt_decoder_error_description">> \in DOMAIN w.fields
  <2>1. Record(h)
    BY DEF Adds1
  <2> QED BY <1>1, <2>1, AddedField
<1>3. Adds1(m, DecoderGroup, w)
  BY <1>2, AddedTwice
<1>4. PICK o : o = DecodingFailed(h)
  OBVIOUS
<1>5. o.to = "error_decoding_out" /\ o.message = w
  BY <1>1, <1>4 DEF DecodingFailed, Outcome
<1>6. DecoderTells(m, o)
  BY <1>2, <1>3, <1>5 DEF DecoderTells
<1> QED BY <1>4, <1>6

LEMMA DecodeDoes ==
  ASSUME NEW m, Record(m), Carries(m), NEW o \in DecoderOutcomes(m, "token")
  PROVE  DecoderTells(m, o)
<1> DEFINE text == GetField(m, "auth", "token")
           t == Decoded(text)
           SetParts(r) == [r EXCEPT !.fields = AssignAll(@, [k \in {DecoderGroup} \X Parts |-> Str(text)])]
<1>0. GetFieldReturns(m, "string", "auth", "token") <=> HasToken
  BY ReadsToken
<1>1. Adds1(m, DecoderGroup, m)
  BY DEF Adds1
<1>2. CASE ~HasToken
  <2>1. Len(<<>>) = 0
    OBVIOUS
  <2>2. Token.form = "no jwt"
    BY <1>2, <2>1 DEF Token, Decoded
  <2>3. ~Readable
    BY <2>2 DEF Readable
  <2>4. o = DecodingFailed(m)
    BY <1>0, <1>2 DEF DecoderOutcomes
  <2> QED BY <1>1, <2>3, <2>4, FailedTells
<1>3. CASE HasToken
  <2>0. t = Token
    BY <1>3, ReadsToken
  <2>1. CASE t.form # "jwt"
    <3>1. o = DecodingFailed(m)
      BY <1>0, <1>3, <2>1 DEF DecoderOutcomes
    <3>2. ~Readable
      BY <2>0, <2>1 DEF Readable
    <3> QED BY <1>1, <3>1, <3>2, FailedTells
  <2>2. CASE t.form = "jwt" /\ StringClaims(t) = DOMAIN t.header
    <3>1. o = Outcome("decoded_token_out", SetParts(SetAllClaims(m, DecoderGroup, t)))
      BY <1>0, <1>3, <2>2 DEF DecoderOutcomes
    <3>2. PICK h : h = SetAllClaims(m, DecoderGroup, t)
      OBVIOUS
    <3>3. Adds1(m, DecoderGroup, h) /\ Record(h)
      <4> HIDE DEF t
      <4> QED BY <3>2, AllClaims DEF Adds1
    <3>4. PICK w : w = SetParts(h)
      OBVIOUS
    <3>5. Adds1(h, DecoderGroup, w)
      <4> DEFINE entries == [k \in {DecoderGroup} \X Parts |-> Str(text)]
      <4>1. \A k \in DOMAIN entries : k[1] = DecoderGroup
        OBVIOUS
      <4>2. w = [h EXCEPT !.fields = AssignAll(@, entries)]
        BY <3>4
      <4> HIDE DEF entries
      <4> QED BY <3>3, <4>1, <4>2, AddedOnce
    <3>6. Adds1(m, DecoderGroup, w)
      BY <3>3, <3>5, AddedTwice
    <3>7. Readable
      BY <2>0, <2>2 DEF Readable
    <3>8. o.to = "decoded_token_out" /\ o.message = w
      BY <3>1, <3>2, <3>4 DEF Outcome
    <3> QED BY <1>3, <3>6, <3>7, <3>8 DEF DecoderTells
  <2>3. CASE t.form = "jwt" /\ StringClaims(t) # DOMAIN t.header
    <3>1. PICK S \in SUBSET StringClaims(t) : o = DecodingFailed(SetHeaderClaims(m, DecoderGroup, t, S))
      BY <1>0, <1>3, <2>3 DEF DecoderOutcomes
    <3>2. PICK h : h = SetHeaderClaims(m, DecoderGroup, t, S)
      OBVIOUS
    <3>3. Adds1(m, DecoderGroup, h)
      <4> HIDE DEF t
      <4> QED BY <3>2, HeaderClaims
    <3>4. ~Readable
      BY <2>0, <2>3 DEF Readable
    <3> QED BY <3>1, <3>2, <3>3, <3>4, FailedTells
  <2> QED BY <2>1, <2>2, <2>3
<1> QED BY <1>2, <1>3

ClaimsIn(fields) ==
  \A c \in DOMAIN Token.header \cup DOMAIN Token.payload :
    fields[<<config.group, c>>].value = IF c \in DOMAIN Token.payload THEN Token.payload[c] ELSE Token.header[c].value

ValidationTells(m, o) ==
  \/ o.to = "terminate" /\ o.message = m /\ Unfit
  \/ /\ o.to = "valid_out" /\ Verified /\ ~Unfit
     /\ Adds1(m, config.group, o.message) /\ ClaimsIn(o.message.fields)
  \/ /\ o.message = m /\ ~Verified /\ ~Unfit
     /\ \/ o.to = "expired_out" /\ config.key_loads /\ Token.verdict = "token verification"
        \/ o.to = "non_jwt_out" /\ config.key_loads /\ Token.form = "no jwt"
        \/ o.to = "invalid_out" /\ (~config.key_loads \/ Token.form = "garbled" \/ Token.verdict = "signature")

LEMMA ValidateDoes ==
  ASSUME NEW m, Record(m), Carries(m), config.key_loads \in BOOLEAN,
         NEW o \in ValidationOutcomes(m, <<"auth", "token">>, config.group, config.key_loads)
  PROVE  ValidationTells(m, o)
<1> DEFINE t == Decoded(GetField(m, "auth", "token"))
           loads == config.key_loads
<1>0. GetFieldReturns(m, "string", "auth", "token") <=> HasToken
  BY ReadsToken
<1>1. CASE ~HasToken
  <2>1. o = Outcome("terminate", m)
    BY <1>0, <1>1 DEF ValidationOutcomes
  <2> QED BY <1>1, <2>1 DEF ValidationTells, Outcome, Unfit
<1>2. CASE HasToken
  <2>0. t = Token
    BY <1>2, ReadsToken
  <2>1. \/ /\ Token.form = "jwt"
           /\ Token.verdict \in {"good", "signature", "token verification", "uncaught"}
        \/ Token.form \in {"garbled", "no object"} /\ Token.verdict = "none"
        \/ Token.form = "no jwt" /\ Token.verdict = "none"
    <3>1. PICK text : t = Decoded(text)
      OBVIOUS
    <3> HIDE DEF t
    <3> QED BY <2>0, <3>1, TokenIs
  <2>2. PICK outcomes : outcomes = ValidationOutcomes(m, <<"auth", "token">>, config.group, loads)
    OBVIOUS
  <2>3. outcomes =
          CASE ~loads                                          -> {Outcome("invalid_out", m)}
            [] loads /\ Token.form = "no jwt"                  -> {Outcome("non_jwt_out", m)}
            [] loads /\ Token.form = "garbled"                 -> {Outcome("invalid_out", m)}
            [] loads /\ Token.form = "no object"               -> {Outcome("terminate", m)}
            [] loads /\ Token.verdict = "uncaught"             -> {Outcome("terminate", m)}
            [] loads /\ Token.verdict = "token verification"   -> {Outcome("expired_out", m)}
            [] loads /\ Token.verdict = "signature"            -> {Outcome("invalid_out", m)}
            [] OTHER -> IF StringClaims(Token) = DOMAIN Token.header
                        THEN {Outcome("valid_out", SetAllClaims(m, config.group, Token))}
                        ELSE {Outcome("terminate", m)}
    <3>1. GetFieldReturns(m, "string", <<"auth", "token">>[1], <<"auth", "token">>[2])
      BY <1>0, <1>2
    <3>2. Decoded(GetField(m, <<"auth", "token">>[1], <<"auth", "token">>[2])) = Token
      BY <2>0
    <3> QED BY <2>2, <3>1, <3>2 DEF ValidationOutcomes
  <2>4. CASE Uncaught
    <3>1. o = Outcome("terminate", m)
      BY <2>1, <2>2, <2>3, <2>4 DEF Uncaught
    <3> QED BY <2>4, <3>1 DEF ValidationTells, Outcome, Unfit
  <2>5. CASE ~Verified /\ ~Uncaught
    <3>1. /\ o.message = m
          /\ \/ o.to = "expired_out" /\ loads /\ Token.verdict = "token verification"
             \/ o.to = "non_jwt_out" /\ loads /\ Token.form = "no jwt"
             \/ o.to = "invalid_out" /\ (~loads \/ Token.form = "garbled" \/ Token.verdict = "signature")
      <4>1. CASE ~loads
        <5>1. o = Outcome("invalid_out", m)
          BY <2>2, <2>3, <4>1
        <5> QED BY <4>1, <5>1 DEF Outcome
      <4>2. CASE loads /\ Token.form = "no jwt"
        <5>1. o = Outcome("non_jwt_out", m)
          BY <2>1, <2>2, <2>3, <4>2
        <5> QED BY <4>2, <5>1 DEF Outcome
      <4>3. CASE loads /\ Token.form = "garbled"
        <5>1. o = Outcome("invalid_out", m)
          BY <2>1, <2>2, <2>3, <4>3
        <5> QED BY <4>3, <5>1 DEF Outcome
      <4>4. CASE loads /\ Token.form = "jwt" /\ Token.verdict = "token verification"
        <5>1. o = Outcome("expired_out", m)
          BY <2>2, <2>3, <4>4
        <5> QED BY <4>4, <5>1 DEF Outcome
      <4>5. CASE loads /\ Token.form = "jwt" /\ Token.verdict = "signature"
        <5>1. o = Outcome("invalid_out", m)
          BY <2>2, <2>3, <4>5
        <5> QED BY <4>5, <5>1 DEF Outcome
      <4> QED BY <2>1, <2>5, <4>1, <4>2, <4>3, <4>4, <4>5 DEF Verified, Uncaught
    <3> QED BY <1>2, <2>5, <3>1 DEF ValidationTells, Unfit
  <2>6. CASE Verified
    <3>1. outcomes = IF StringClaims(Token) = DOMAIN Token.header
                     THEN {Outcome("valid_out", SetAllClaims(m, config.group, Token))}
                     ELSE {Outcome("terminate", m)}
      BY <2>1, <2>3, <2>6 DEF Verified
    <3>2. CASE Readable
      <4>1. PICK w : w = SetAllClaims(m, config.group, Token)
        OBVIOUS
      <4>2. o.to = "valid_out" /\ o.message = w
        BY <2>2, <3>1, <3>2, <4>1 DEF Readable, Outcome
      <4>3. Adds1(m, config.group, w) /\ ClaimsIn(w.fields)
        BY <4>1, AllClaims DEF ClaimsIn
      <4>4. ~Uncaught
        BY <2>6 DEF Verified, Uncaught
      <4> QED BY <1>2, <2>6, <3>2, <4>2, <4>3, <4>4 DEF ValidationTells, Unfit
    <3>3. CASE ~Readable
      <4>1. o = Outcome("terminate", m)
        BY <2>2, <2>6, <3>1, <3>3 DEF Readable, Verified
      <4> QED BY <2>6, <3>3, <4>1 DEF ValidationTells, Outcome, Unfit
    <3> QED BY <3>2, <3>3
  <2> QED BY <2>4, <2>5, <2>6
<1> QED BY <1>1, <1>2
-----------------------------------------------------------------------------
(* The invariant: where the message is, and what is known of it there.     *)

\* The validation stage needs what the token does not have.
Lacks == "validation" \in ToSet(config.outputs) /\ Unfit

\* What the source tells that a message left by.
Tells(l) ==
  /\ l.to = "remaining_source" => ~Routed
  /\ l.to = "task_out" => Routed /\ ~Dynamic
  /\ l.to = "decoded_token_out" => HasToken /\ Readable
  /\ l.to = "error_decoding_out" =>
       ~Readable /\ <<DecoderGroup, "jwt_decoder_error_description">> \in DOMAIN l.fields
  /\ l.to = "valid_out" => HasToken /\ Verified /\ ClaimsIn(l.fields)
  /\ l.to = "expired_out" => config.key_loads /\ Token.verdict = "token verification"
  /\ l.to = "non_jwt_out" => config.key_loads /\ Token.form = "no jwt"
  /\ l.to = "invalid_out" => ~config.key_loads \/ Token.form = "garbled" \/ Token.verdict = "signature"

\* Nothing has come in.
Waiting ==
  request = Nothing /\ message = Message("none") /\ calls = <<>> /\ left = <<>> /\ running = "yes"

\* None of the first k - 1 routers has the type of the message.
PassedBy(k) == \A l \in 1 .. k - 1 : \A i \in DOMAIN config.routers[l] : config.routers[l][i] # request.type

\* Where the message is between two calls: in the cascade of routers, ...
AtRouter ==
  \E k \in DOMAIN config.routers :
    calls = <<<<"router", k>>>> /\ left = <<>> /\ Fresh(message, request) /\ PassedBy(k)

\* ... before the augmentors, as the handler made it, ...
AtAugmentors == calls = <<<<"augmentors", 1>>>> /\ left = <<>> /\ Fresh(message, request) /\ Dynamic

\* ... behind them, with every token and every joined field in its place, ...
Augmented ==
  /\ ~Overruns(Extractor, Text) /\ ~Malformed(Extractor, Text)
  /\ \A i \in 2 .. Len(config.augmentors) : ~Missing(Extractor, config.augmentors[i], Text)
  /\ Filled(config.augmentors, Text, Len(config.augmentors), message.fields)

AtBroadcast == calls = <<<<"broadcast", 1>>>> /\ left = <<>> /\ Dynamic /\ Augmented

\* What is left to call when i outputs have had the message.
OutputsFrom(i) == [k \in 1 .. Len(config.outputs) - i |-> <<config.outputs[k + i], k + i>>]

PassesValidation(i) ==
  \A k \in 1 .. i : config.outputs[k] = "validation" => ~Unfit

\* ... between two outputs, with nothing in the way of those already called, ...
AtOutputs ==
  /\ Dynamic /\ ~Overruns(Extractor, Text) /\ ~Fails /\ Carries(message)
  /\ \E i \in 0 .. Len(config.outputs) : calls = OutputsFrom(i) /\ Len(left) = i /\ PassesValidation(i)

\* ... or gone by a source of the routers.
GoneAside == calls = <<>> /\ Len(left) = 1 /\ ~Dynamic

\* It keeps its type, claims on it are verified, where it left by is where it
\* belongs, and a program that ended has had a cause to.
Underway ==
  /\ request \in Requests
  /\ Record(message) /\ message.type = request.type
  /\ (\E k \in DOMAIN message.fields : k[1] = config.group) /\ config.group # DecoderGroup => Verified
  /\ \E S : left \in Seq(S)
  /\ \A k \in DOMAIN left : Tells(left[k])
  /\ \/ running = "yes" /\ (AtRouter \/ AtAugmentors \/ AtBroadcast \/ AtOutputs \/ GoneAside)
     \/ running = "undefined" /\ ((Dynamic /\ Overruns(Extractor, Text)) \/ config.unconnected # {})
     \/ running = "terminated" /\ Dynamic /\ (Fails \/ Lacks)

PipelineInv == config \in Configs /\ (Waiting \/ Underway)

LEMMA PipelineIs ==
  ASSUME config \in Configs
  PROVE  /\ AreAugmentors(config.augmentors) /\ IsExtractor(Extractor) /\ Extractor = config.augmentors[1]
         /\ config.routers \in Seq(Seq(STRING)) /\ Len(config.routers) # 0
         /\ \A k \in DOMAIN config.routers : Len(config.routers[k]) \in 1 .. 3
         /\ config.outputs \in Seq({"decoder", "validation"})
         /\ config.key_loads \in BOOLEAN
         /\ \A f \in Places(config.augmentors) : f[1] # config.group
<1> DEFINE c == config
<1>1. IsPipeline(c)
  BY ConfigAssumption
<1>2. AreAugmentors(c.augmentors) /\ IsExtractor(Extractor) /\ Extractor = c.augmentors[1]
  <2>1. c.augmentors \in Seq(ToSet(c.augmentors)) /\ c.augmentors # <<>>
    BY <1>1 DEF IsPipeline
  <2>2. Len(c.augmentors) # 0
    BY <2>1
  <2> QED BY <1>1, <2>1, <2>2 DEF IsPipeline, AreAugmentors, Extractor
<1>3. c.routers \in Seq(Seq(STRING)) /\ Len(c.routers) # 0
  <2>1. c.routers \in Seq(Seq(STRING)) /\ c.routers # <<>>
    BY <1>1 DEF IsPipeline
  <2> QED BY <2>1
<1>4. \A f \in Places(c.augmentors) : f[1] # c.group
  <2>1. Credentials[1] # c.group
    BY <1>1 DEF IsPipeline, Credentials
  <2>2. \A f \in ToSet(c.augmentors[1].target_fields) : f[1] # c.group
    BY <1>1 DEF IsPipeline
  <2>3. \A k \in 2 .. Len(c.augmentors) : c.augmentors[k].target[1] # c.group
    BY <1>1 DEF IsPipeline
  <2> QED BY <2>1, <2>2, <2>3 DEF Places, JoinedTargets
<1> QED BY <1>1, <1>2, <1>3, <1>4 DEF IsPipeline

\* What is said of the configuration and the request stays as they do.
LEMMA SaidStays ==
  ASSUME config' = config, request' = request
  PROVE  /\ Text' = Text /\ Extractor' = Extractor /\ Token' = Token
         /\ HasToken' <=> HasToken
         /\ Readable' <=> Readable
         /\ Verified' <=> Verified
         /\ Unfit' <=> Unfit
         /\ Routed' <=> Routed
         /\ Dynamic' <=> Dynamic
         /\ Fails' <=> Fails
         /\ Lacks' <=> Lacks
<1>1. Text' = Text /\ Extractor' = Extractor /\ Joiners' = Joiners
  BY DEF Text, Extractor, Joiners
<1>2. HasToken' <=> HasToken
  BY <1>1 DEF HasToken
<1>3. Token' = Token
  BY <1>1, <1>2 DEF Token
<1>4. Readable' <=> Readable
  BY <1>3 DEF Readable
<1>5. Verified' <=> Verified
  BY <1>3 DEF Verified
<1>6. Routed' <=> Routed
  BY DEF Routed
<1>7. Dynamic' <=> Dynamic
  BY <1>6 DEF Dynamic
<1>8. Fails' <=> Fails
  BY <1>1 DEF Fails
<1>9. Unfit' <=> Unfit
  <2>1. Uncaught' <=> Uncaught
    BY <1>3 DEF Uncaught
  <2> QED BY <1>2, <1>4, <1>5, <2>1 DEF Unfit
<1>10. Lacks' <=> Lacks
  BY <1>9 DEF Lacks
<1> QED BY <1>1, <1>2, <1>3, <1>4, <1>5, <1>6, <1>7, <1>8, <1>9, <1>10

LEMMA TellsStays ==
  ASSUME config' = config, request' = request, NEW l
  PROVE  Tells(l)' <=> Tells(l)
BY SaidStays DEF Tells, ClaimsIn

\* Another message in what has left.
LEMMA OneMore ==
  ASSUME NEW S, NEW l \in Seq(S), NEW x
  PROVE  /\ \E T : Append(l, x) \in Seq(T)
         /\ Len(Append(l, x)) = Len(l) + 1
         /\ \A k \in DOMAIN Append(l, x) : (k \in DOMAIN l /\ Append(l, x)[k] = l[k]) \/ Append(l, x)[k] = x
<1>1. l \in Seq(S \cup {x}) /\ x \in S \cup {x}
  <2>1. \A k \in 1 .. Len(l) : l[k] \in S \cup {x}
    OBVIOUS
  <2> QED BY <2>1
<1>2. PICK a : a = Append(l, x)
  OBVIOUS
<1>3. a \in Seq(S \cup {x}) /\ Len(a) = Len(l) + 1
  BY <1>1, <1>2
<1>4. \A k \in DOMAIN a : (k \in DOMAIN l /\ a[k] = l[k]) \/ a[k] = x
  BY <1>1, <1>2
<1> QED BY <1>2, <1>3, <1>4

LEMMA InitHolds == Init => PipelineInv
BY DEF Init, PipelineInv, Waiting

LEMMA StutterHolds ==
  ASSUME PipelineInv, UNCHANGED vars
  PROVE  PipelineInv'
<1>0. /\ config' = config /\ request' = request /\ message' = message /\ calls' = calls
      /\ left' = left /\ running' = running
  BY DEF vars
<1>1. Waiting' <=> Waiting
  BY <1>0 DEF Waiting
<1>2. AtRouter' <=> AtRouter
  BY <1>0 DEF AtRouter, Fresh, Record, PassedBy
<1>3. AtAugmentors' <=> AtAugmentors
  BY <1>0, SaidStays DEF AtAugmentors, Fresh, Record
<1>4. AtBroadcast' <=> AtBroadcast
  BY <1>0, SaidStays DEF AtBroadcast, Augmented
<1>5. AtOutputs' <=> AtOutputs
  <2>1. Carries(message)' <=> Carries(message)
    BY <1>0, SaidStays DEF Carries
  <2>2. \A i : PassesValidation(i)' <=> PassesValidation(i)
    BY <1>0, SaidStays DEF PassesValidation
  <2>3. \A i : OutputsFrom(i)' = OutputsFrom(i)
    BY <1>0 DEF OutputsFrom
  <2> QED BY <1>0, <2>1, <2>2, <2>3, SaidStays DEF AtOutputs
<1>6. GoneAside' <=> GoneAside
  BY <1>0, SaidStays DEF GoneAside
<1>7. \A k \in DOMAIN left : Tells(left[k])' <=> Tells(left[k])
  <2>1. /\ HasToken' <=> HasToken
        /\ Readable' <=> Readable
        /\ Verified' <=> Verified
        /\ Routed' <=> Routed
        /\ Dynamic' <=> Dynamic
        /\ Token' = Token
    BY <1>0, SaidStays
  <2> SUFFICES ASSUME NEW k \in DOMAIN left PROVE Tells(left[k])' <=> Tells(left[k])
    OBVIOUS
  <2>2. PICK l : l = left[k]
    OBVIOUS
  <2>3. Tells(l)' <=> Tells(l)
    BY <1>0, TellsStays
  <2>4. left'[k] = l
    BY <1>0, <2>2
  <2>5. Tells(left[k])' <=> Tells(l)'
    BY <2>4, Zenon DEF Tells, ClaimsIn
  <2> QED BY <2>2, <2>3, <2>5
<1>8. Underway' <=> Underway
  BY <1>0, <1>2, <1>3, <1>4, <1>5, <1>6, <1>7, SaidStays DEF Underway, Record
<1> QED BY <1>0, <1>1, <1>8 DEF PipelineInv

\* The outputs still to be called.
LEMMA OutputsLeft ==
  ASSUME config \in Configs, NEW i \in 0 .. Len(config.outputs)
  PROVE  /\ OutputsFrom(i) \in Seq({"decoder", "validation"} \X Nat)
         /\ Len(OutputsFrom(i)) = Len(config.outputs) - i
         /\ OutputsFrom(0) = [k \in DOMAIN config.outputs |-> <<config.outputs[k], k>>]
         /\ OutputsFrom(Len(config.outputs)) = <<>>
         /\ i # Len(config.outputs) => /\ Head(OutputsFrom(i)) = <<config.outputs[i + 1], i + 1>>
                                       /\ Tail(OutputsFrom(i)) = OutputsFrom(i + 1)
<1> DEFINE o == config.outputs
           n == Len(o)
           T == {"decoder", "validation"} \X Nat
<1>0. o \in Seq({"decoder", "validation"}) /\ n \in Nat /\ DOMAIN o = 1 .. n /\ i \in Nat /\ n - i \in Nat
  BY PipelineIs
<1>1. ASSUME NEW j \in 0 .. n
      PROVE  OutputsFrom(j) \in Seq(T) /\ Len(OutputsFrom(j)) = n - j
  <2>1. \A k \in 1 .. n - j : <<o[k + j], k + j>> \in T
    <3> SUFFICES ASSUME NEW k \in 1 .. n - j PROVE <<o[k + j], k + j>> \in T
      OBVIOUS
    <3>1. k + j \in 1 .. n /\ k + j \in Nat
      BY <1>0
    <3>2. o[k + j] \in {"decoder", "validation"}
      BY <1>0, <3>1
    <3> QED BY <3>1, <3>2
  <2>2. n - j \in Nat
    BY <1>0
  <2>3. OutputsFrom(j) \in [1 .. n - j -> T]
    BY <2>1 DEF OutputsFrom
  <2> QED BY <2>2, <2>3
<1>2. OutputsFrom(0) = [k \in DOMAIN o |-> <<o[k], k>>]
  <2>1. n - 0 = n /\ \A k \in 1 .. n : k + 0 = k
    BY <1>0
  <2> QED BY <1>0, <2>1 DEF OutputsFrom
<1>3. OutputsFrom(n) = <<>>
  <2>1. OutputsFrom(n) \in Seq(T) /\ Len(OutputsFrom(n)) = 0
    BY <1>0, <1>1
  <2> QED BY <2>1
<1>4. ASSUME i # n PROVE Head(OutputsFrom(i)) = <<o[i + 1], i + 1>> /\ Tail(OutputsFrom(i)) = OutputsFrom(i + 1)
  <2>1. i + 1 \in 0 .. n /\ n - i # 0 /\ 1 \in 1 .. n - i /\ 1 + i = i + 1 /\ n - (i + 1) = (n - i) - 1
    BY <1>0, <1>4
  <2>2. OutputsFrom(i) \in Seq(T) /\ Len(OutputsFrom(i)) = n - i
        /\ OutputsFrom(i + 1) \in Seq(T) /\ Len(OutputsFrom(i + 1)) = (n - i) - 1
    BY <1>1, <2>1
  <2>3. \A k \in 1 .. n - i : OutputsFrom(i)[k] = <<o[k + i], k + i>>
    BY DEF OutputsFrom
  <2>4. \A k \in 1 .. (n - i) - 1 : OutputsFrom(i + 1)[k] = <<o[k + (i + 1)], k + (i + 1)>>
    BY <2>1 DEF OutputsFrom
  <2>5. PICK s : s = OutputsFrom(i)
    OBVIOUS
  <2>6. s \in Seq(T) /\ Len(s) = n - i /\ Head(s) = s[1]
        /\ Tail(s) \in Seq(T) /\ Len(Tail(s)) = (n - i) - 1 /\ \A k \in 1 .. (n - i) - 1 : Tail(s)[k] = s[k + 1]
    BY <1>0, <2>1, <2>2, <2>5
  <2>7. Head(s) = <<o[i + 1], i + 1>>
    BY <2>1, <2>3, <2>5, <2>6
  <2>8. \A k \in 1 .. (n - i) - 1 : Tail(s)[k] = OutputsFrom(i + 1)[k]
    <3> SUFFICES ASSUME NEW k \in 1 .. (n - i) - 1 PROVE Tail(s)[k] = OutputsFrom(i + 1)[k]
      OBVIOUS
    <3>1. k + 1 \in 1 .. n - i /\ (k + 1) + i = k + (i + 1)
      BY <1>0
    <3>2. s[k + 1] = <<o[(k + 1) + i], (k + 1) + i>>
      BY <2>3, <2>5, <3>1
    <3> QED BY <2>4, <2>6, <3>1, <3>2
  <2>9. Tail(s) = OutputsFrom(i + 1)
    <3>1. PICK t, u : t = OutputsFrom(i + 1) /\ u = Tail(s)
      OBVIOUS
    <3>2. t \in Seq(T) /\ u \in Seq(T) /\ Len(t) = Len(u) /\ \A k \in 1 .. Len(t) : t[k] = u[k]
      BY <2>2, <2>6, <2>8, <3>1
    <3>3. t = u
      BY <3>2, SeqEqual
    <3> QED BY <3>1, <3>3
  <2> QED BY <2>5, <2>7, <2>9
<1> QED BY <1>0, <1>1, <1>2, <1>3, <1>4

\* The stage that is called next tells where the message is.
LEMMA WhereCalled ==
  ASSUME PipelineInv, NEW stage, Calling(stage)
  PROVE  /\ Underway
         /\ stage = "router" => AtRouter
         /\ stage = "augmentors" => AtAugmentors
         /\ stage = "broadcast" => AtBroadcast
         /\ stage \in {"decoder", "validation"} => AtOutputs
<1>1. running = "yes" /\ Underway /\ config \in Configs
  BY DEF Calling, PipelineInv, Waiting
<1>2. AtRouter => stage = "router"
  BY DEF AtRouter, Calling
<1>3. AtAugmentors => stage = "augmentors"
  BY DEF AtAugmentors, Calling
<1>4. AtBroadcast => stage = "broadcast"
  BY DEF AtBroadcast, Calling
<1>5. AtOutputs => stage \in {"decoder", "validation"}
  <2> SUFFICES ASSUME AtOutputs PROVE stage \in {"decoder", "validation"}
    OBVIOUS
  <2>1. PICK i \in 0 .. Len(config.outputs) : calls = OutputsFrom(i)
    BY DEF AtOutputs
  <2>2. calls \in Seq({"decoder", "validation"} \X Nat) /\ calls # <<>>
    BY <1>1, <2>1, OutputsLeft DEF Calling
  <2>3. Head(calls) \in {"decoder", "validation"} \X Nat
    BY <2>2
  <2> QED BY <2>3 DEF Calling
<1>6. ~GoneAside
  BY DEF GoneAside, Calling
<1> QED BY <1>1, <1>2, <1>3, <1>4, <1>5, <1>6 DEF Underway

LEMMA ArriveHolds ==
  ASSUME PipelineInv, Arrive
  PROVE  PipelineInv'
<1>1. config' = config /\ running' = running /\ calls' = <<<<"router", 1>>>> /\ left' = <<>> /\ request' \in Requests
  BY DEF Arrive
<1>2. running = "yes"
  <2>1. request \notin Requests
    BY RequestAssumption DEF Arrive, Nothing
  <2> QED BY <2>1 DEF PipelineInv, Waiting, Underway
<1>3. PICK r, m : r = request' /\ m = message'
  OBVIOUS
<1>4. Fresh(m, r)
  <2>1. m = CASE r.type = "HttpRequestMessage" -> HandlerMessage(r)
              [] r.type = "DynamicMessage"     -> WithCredentials(r)
              [] r.type \notin DynamicTypes    -> Message(r.type)
    BY <1>3 DEF Arrive
  <2> QED BY <2>1, ArrivesFresh
<1>5. config \in Configs /\ Len(config.routers) # 0 /\ config.routers \in Seq(Seq(STRING))
      /\ Credentials[1] # config.group
  BY PipelineIs DEF PipelineInv, Places
<1>6. \A k \in DOMAIN m.fields : k[1] # config.group
  BY <1>4, <1>5 DEF Fresh
<1>7. AtRouter'
  <2>1. 1 \in DOMAIN config.routers
    BY <1>5
  <2>2. PassedBy(1)'
    <3>1. 1 .. 1 - 1 = {}
      OBVIOUS
    <3> QED BY <3>1 DEF PassedBy
  <2>3. Fresh(message', request')
    BY <1>3, <1>4
  <2> QED BY <1>1, <2>1, <2>2, <2>3 DEF AtRouter
<1>8. Underway'
  <2>1. Record(m) /\ m.type = r.type
    BY <1>4 DEF Fresh
  <2>2. <<>> \in Seq({}) /\ DOMAIN <<>> = {}
    OBVIOUS
  <2>3. (\E S : left \in Seq(S))'
    BY <1>1, <2>2
  <2>4. (\A k \in DOMAIN left : Tells(left[k]))'
    BY <1>1, <2>2
  <2>5. Record(message') /\ message'.type = request'.type
    BY <1>3, <2>1
  <2>6. ~(\E k \in DOMAIN message'.fields : k[1] = config'.group)
    BY <1>1, <1>3, <1>6
  <2> QED BY <1>1, <1>2, <1>7, <2>3, <2>4, <2>5, <2>6 DEF Underway
<1> QED BY <1>1, <1>5, <1>8 DEF PipelineInv

\* The call of one stage, the only one left, is replaced.
LEMMA CallIs ==
  ASSUME NEW c, calls = <<c>>, NEW S, NEW stages \in Seq(S), Call(stages)
  PROVE  calls' = stages
<1>1. Tail(calls) = <<>>
  OBVIOUS
<1>2. stages \o <<>> = stages
  BY ConcatEmptySeq
<1> QED BY <1>1, <1>2 DEF Call

\* What is said of what has left, when a message leaves.
LEMMA LeaveTells ==
  ASSUME Underway, config' = config, request' = request, NEW to, NEW m, Leave(to, m),
         Tells([to |-> to, fields |-> m.fields])
  PROVE  /\ (\E S : left \in Seq(S))'
         /\ (\A k \in DOMAIN left : Tells(left[k]))'
         /\ \/ running' = running /\ Len(left') = Len(left) + 1
            \/ running' = "undefined" /\ config.unconnected # {}
<1>1. PICK S : left \in Seq(S)
  BY DEF Underway
<1> DEFINE x == [to |-> to, fields |-> m.fields]
<1>2. CASE Connected(to) /\ left' = Append(left, x) /\ UNCHANGED running
  <2>1. PICK l, y : l = left' /\ y = x
    OBVIOUS
  <2>2. l = Append(left, y)
    BY <1>2, <2>1
  <2> HIDE DEF x
  <2>3. /\ \E T : l \in Seq(T)
        /\ Len(l) = Len(left) + 1
        /\ \A k \in DOMAIN l : (k \in DOMAIN left /\ l[k] = left[k]) \/ l[k] = y
    BY <1>1, <2>2, OneMore
  <2>4. \A k \in DOMAIN l : Tells(l[k])
    BY <2>1, <2>3 DEF Underway, x
  <2>5. (\A k \in DOMAIN left : Tells(left[k]))'
    <3>1. \A z : Tells(z)' <=> Tells(z)
      BY TellsStays
    <3> QED BY <2>1, <2>4, <3>1
  <2> QED BY <1>2, <2>1, <2>3, <2>5
<1>3. CASE ~Connected(to) /\ running' = "undefined" /\ UNCHANGED left
  <2>1. (\A k \in DOMAIN left : Tells(left[k]))'
    <3>1. \A z : Tells(z)' <=> Tells(z)
      BY TellsStays
    <3> QED BY <1>3, <3>1 DEF Underway
  <2>2. config.unconnected # {}
    BY <1>3 DEF Connected
  <2> QED BY <1>1, <1>3, <2>1, <2>2
<1> QED BY <1>2, <1>3 DEF Leave

\* The same when none does.
LEMMA StayTells ==
  ASSUME Underway, config' = config, request' = request, left' = left
  PROVE  (\E S : left \in Seq(S))' /\ (\A k \in DOMAIN left : Tells(left[k]))'
<1>1. (\E S : left \in Seq(S))'
  BY DEF Underway
<1>2. (\A k \in DOMAIN left : Tells(left[k]))'
  <2>1. \A z : Tells(z)' <=> Tells(z)
    BY TellsStays
  <2> QED BY <2>1 DEF Underway
<1> QED BY <1>1, <1>2

LEMMA RouteHolds ==
  ASSUME PipelineInv, Route
  PROVE  PipelineInv'
<1>1. config' = config /\ request' = request /\ message' = message /\ config \in Configs
  BY DEF Route, PipelineInv
<1>2. Underway /\ AtRouter /\ running = "yes"
  BY WhereCalled DEF Route, Calling
<1>3. PICK k \in DOMAIN config.routers :
        calls = <<<<"router", k>>>> /\ left = <<>> /\ Fresh(message, request) /\ PassedBy(k)
  BY <1>2 DEF AtRouter
<1> DEFINE source == SourceFor(config.routers[k], message.type)
           id == IdOf(config.routers[k], source)
           type == request.type
<1>4. /\ Len(config.routers) \in Nat /\ DOMAIN config.routers = 1 .. Len(config.routers)
      /\ config.routers[k] \in Seq(STRING) /\ Len(config.routers[k]) \in 1 .. 3 /\ k \in Nat
  BY <1>1, PipelineIs
<1>5. message.type = type /\ Head(calls)[2] = k
  BY <1>2, <1>3 DEF Underway
<1>6. /\ source = "remaining_source" <=> \A i \in DOMAIN config.routers[k] : config.routers[k][i] # type
      /\ source # "remaining_source" => id = type
  BY <1>4, <1>5, SourceIs
<1>7. source # "remaining_source" => Routed
  BY <1>6 DEF Routed
<1>8. \/ /\ source # "remaining_source" /\ id \in DynamicTypes
         /\ Call(<<<<"augmentors", 1>>>>) /\ UNCHANGED <<left, running>>
      \/ source # "remaining_source" /\ id \notin DynamicTypes /\ Call(<<>>) /\ Leave("task_out", message)
      \/ /\ source = "remaining_source" /\ k < Len(config.routers)
         /\ Call(<<<<"router", k + 1>>>>) /\ UNCHANGED <<left, running>>
      \/ source = "remaining_source" /\ k = Len(config.routers) /\ Call(<<>>) /\ Leave("remaining_source", message)
  BY <1>5 DEF Route
<1> HIDE DEF source, id
<1>9. /\ (request \in Requests)' /\ Record(message)' /\ (message.type = request.type)'
      /\ ((\E q \in DOMAIN message.fields : q[1] = config.group) /\ config.group # DecoderGroup => Verified)'
  BY <1>1, <1>2, SaidStays DEF Underway, Record
<1>n. <<>> \in Seq({}) /\ <<<<"augmentors", 1>>>> \in Seq({<<"augmentors", 1>>})
      /\ <<<<"router", k + 1>>>> \in Seq({<<"router", k + 1>>})
  OBVIOUS
<1>l. Len(left) = 0
  BY <1>3
<1>10. CASE /\ source # "remaining_source" /\ id \in DynamicTypes
            /\ Call(<<<<"augmentors", 1>>>>) /\ UNCHANGED <<left, running>>
  <2>1. calls' = <<<<"augmentors", 1>>>>
    BY <1>3, <1>10, <1>n, CallIs
  <2>2. Dynamic
    BY <1>6, <1>7, <1>10 DEF Dynamic
  <2>3. AtAugmentors'
    BY <1>1, <1>3, <1>10, <2>1, <2>2, SaidStays DEF AtAugmentors
  <2>4. (\E S : left \in Seq(S))' /\ (\A q \in DOMAIN left : Tells(left[q]))'
    BY <1>1, <1>2, <1>10, StayTells
  <2> QED BY <1>1, <1>2, <1>9, <1>10, <2>3, <2>4 DEF Underway, PipelineInv
<1>11. CASE source # "remaining_source" /\ id \notin DynamicTypes /\ Call(<<>>) /\ Leave("task_out", message)
  <2>1. calls' = <<>>
    BY <1>3, <1>11, <1>n, CallIs
  <2>2. ~Dynamic
    BY <1>6, <1>11 DEF Dynamic
  <2>3. Tells([to |-> "task_out", fields |-> message.fields])
    BY <1>7, <1>11, <2>2 DEF Tells
  <2>4. /\ (\E S : left \in Seq(S))' /\ (\A q \in DOMAIN left : Tells(left[q]))'
        /\ \/ running' = running /\ Len(left') = Len(left) + 1
           \/ running' = "undefined" /\ config.unconnected # {}
    BY <1>1, <1>2, <1>11, <2>3, LeaveTells
  <2>5. running' = running /\ Len(left') = Len(left) + 1 => GoneAside'
    BY <1>1, <1>l, <2>1, <2>2, SaidStays DEF GoneAside
  <2> QED BY <1>1, <1>2, <1>9, <2>4, <2>5 DEF Underway, PipelineInv
<1>12. CASE /\ source = "remaining_source" /\ k < Len(config.routers)
            /\ Call(<<<<"router", k + 1>>>>) /\ UNCHANGED <<left, running>>
  <2>1. calls' = <<<<"router", k + 1>>>>
    BY <1>3, <1>12, <1>n, CallIs
  <2>2. PassedBy(k + 1)
    <3> SUFFICES ASSUME NEW l \in 1 .. (k + 1) - 1, NEW i \in DOMAIN config.routers[l]
                 PROVE config.routers[l][i] # request.type
      BY DEF PassedBy
    <3>1. l \in 1 .. k - 1 \/ l = k
      BY <1>4
    <3> QED BY <1>3, <1>6, <1>12, <3>1 DEF PassedBy
  <2>3. k + 1 \in DOMAIN config.routers
    BY <1>4, <1>12
  <2>4. PassedBy(k + 1)'
    BY <1>1, <2>2 DEF PassedBy
  <2>5. AtRouter'
    BY <1>1, <1>3, <1>12, <2>1, <2>3, <2>4 DEF AtRouter
  <2>6. (\E S : left \in Seq(S))' /\ (\A q \in DOMAIN left : Tells(left[q]))'
    BY <1>1, <1>2, <1>12, StayTells
  <2> QED BY <1>1, <1>2, <1>9, <1>12, <2>5, <2>6 DEF Underway, PipelineInv
<1>13. CASE source = "remaining_source" /\ k = Len(config.routers) /\ Call(<<>>) /\ Leave("remaining_source", message)
  <2>1. calls' = <<>>
    BY <1>3, <1>13, <1>n, CallIs
  <2>2. ~Routed
    <3> SUFFICES ASSUME NEW l \in DOMAIN config.routers, NEW i \in DOMAIN config.routers[l]
                 PROVE config.routers[l][i] # request.type
      BY DEF Routed
    <3>1. l \in 1 .. k - 1 \/ l = k
      BY <1>4, <1>13
    <3> QED BY <1>3, <1>6, <1>13, <3>1 DEF PassedBy
  <2>3. ~Dynamic
    BY <2>2 DEF Dynamic
  <2>4. Tells([to |-> "remaining_source", fields |-> message.fields])
    BY <2>2 DEF Tells
  <2>5. /\ (\E S : left \in Seq(S))' /\ (\A q \in DOMAIN left : Tells(left[q]))'
        /\ \/ running' = running /\ Len(left') = Len(left) + 1
           \/ running' = "undefined" /\ config.unconnected # {}
    BY <1>1, <1>2, <1>13, <2>4, LeaveTells
  <2>6. running' = running /\ Len(left') = Len(left) + 1 => GoneAside'
    BY <1>1, <1>l, <2>1, <2>3, SaidStays DEF GoneAside
  <2> QED BY <1>1, <1>2, <1>9, <2>5, <2>6 DEF Underway, PipelineInv
<1> QED BY <1>8, <1>10, <1>11, <1>12, <1>13

LEMMA AugmentDoes ==
  ASSUME PipelineInv, Augment
  PROVE  LET augs == config.augmentors IN
         /\ AreAugmentors(augs) /\ Extractor = augs[1] /\ \A f \in Places(augs) : f[1] # config.group
         /\ \E end \in Outcomes(Places(augs), message.type, message.typed) :
              After(augs, Text, Len(augs), end) /\ message' = end.message /\ running' = end.running
<1> DEFINE augs == config.augmentors
           type == message.type
           typed == message.typed
<1>1. config' = config /\ request' = request /\ left' = left /\ Call(<<<<"broadcast", 1>>>>) /\ config \in Configs
  BY DEF Augment, PipelineInv
<1>2. Underway /\ AtAugmentors /\ running = "yes"
  BY WhereCalled DEF Augment, Calling
<1>3. calls = <<<<"augmentors", 1>>>> /\ left = <<>> /\ Fresh(message, request) /\ Dynamic
  BY <1>2 DEF AtAugmentors
<1>4. AreAugmentors(augs) /\ Extractor = augs[1] /\ \A f \in Places(augs) : f[1] # config.group
  BY <1>1, PipelineIs
<1>5. Text \in Seq(STRING) /\ Text = request.text
  BY <1>2, RequestAssumption DEF Underway, Text
<1>6. message.type = request.type /\ request.type \in DynamicTypes
  BY <1>2, <1>3 DEF Underway, Dynamic
<1>7. Record(message) /\ message.fields \in [{Credentials} -> {Str(Text)}]
  BY <1>3, <1>5, <1>6 DEF Fresh
<1>8. DOMAIN message.fields = {Credentials} /\ message.fields[Credentials] = Str(Text)
  BY <1>7
<1>9. message \in Messages(Places(augs), type, typed)
  <2>1. Str(Text) \in Strings
    BY <1>5 DEF Str, Field, Strings
  <2>2. message.fields \in [{Credentials} -> Strings] /\ {Credentials} \in SUBSET Places(augs)
    BY <1>7, <2>1 DEF Places
  <2>3. message.fields \in Fields(Places(augs))
    BY <2>2 DEF Fields
  <2> QED BY <1>7, <2>3 DEF Record, Messages
<1>10. PICK end : end = ApplyAll(augs, message)
  OBVIOUS
<1>11. end \in Outcomes(Places(augs), type, typed) /\ After(augs, Text, Len(augs), end)
  <2> HIDE DEF augs, type, typed
  <2> QED BY <1>4, <1>5, <1>8, <1>9, <1>10, ApplyDoes
<1>12. message' = end.message /\ running' = end.running
  BY <1>6, <1>10 DEF Augment
<1> QED BY <1>4, <1>11, <1>12

LEMMA AugmentHolds ==
  ASSUME PipelineInv, Augment
  PROVE  PipelineInv'
<1> DEFINE augs == config.augmentors
           type == message.type
           typed == message.typed
<1>1. config' = config /\ request' = request /\ left' = left /\ Call(<<<<"broadcast", 1>>>>) /\ config \in Configs
  BY DEF Augment, PipelineInv
<1>2. Underway /\ AtAugmentors /\ running = "yes"
  BY WhereCalled DEF Augment, Calling
<1>3. calls = <<<<"augmentors", 1>>>> /\ left = <<>> /\ Fresh(message, request) /\ Dynamic
  BY <1>2 DEF AtAugmentors
<1>4. AreAugmentors(augs) /\ Extractor = augs[1] /\ \A f \in Places(augs) : f[1] # config.group
  BY AugmentDoes
<1>6. message.type = request.type /\ request.type \in DynamicTypes
  BY <1>2, <1>3 DEF Underway, Dynamic
<1>11. PICK end \in Outcomes(Places(augs), type, typed) :
          After(augs, Text, Len(augs), end) /\ message' = end.message /\ running' = end.running
  BY AugmentDoes
<1>12. message' = end.message /\ running' = end.running
  BY <1>11
<1>13. calls' = <<<<"broadcast", 1>>>>
  <2>1. <<<<"broadcast", 1>>>> \in Seq({<<"broadcast", 1>>})
    OBVIOUS
  <2> QED BY <1>1, <1>3, <2>1, CallIs
<1>14. PICK m : m = message'
  OBVIOUS
<1>15. m \in Messages(Places(augs), type, typed) /\ end.running \in {"yes", "terminated", "undefined"} /\ m = end.message
  BY <1>11, <1>12, <1>14 DEF Outcomes
<1>16. Record(m) /\ m.type = type /\ DOMAIN m.fields \subseteq Places(augs)
  <2>1. m \in [type : {type}, fields : Fields(Places(augs)), typed : {typed}]
    BY <1>15 DEF Messages
  <2>2. m = [type |-> m.type, fields |-> m.fields, typed |-> m.typed] /\ m.type = type /\ m.fields \in Fields(Places(augs))
    BY <2>1
  <2>3. DOMAIN m.fields \subseteq Places(augs)
    BY <2>2 DEF Fields
  <2> QED BY <2>2, <2>3 DEF Record
<1>17. /\ (request \in Requests)' /\ Record(message)' /\ (message.type = request.type)'
       /\ ~(\E q \in DOMAIN message'.fields : q[1] = config'.group)
  <2>1. ~(\E q \in DOMAIN m.fields : q[1] = config.group)
    BY <1>4, <1>16
  <2>2. m.type = request.type
    BY <1>6, <1>16
  <2> QED BY <1>1, <1>2, <1>14, <1>16, <2>1, <2>2 DEF Underway
<1>18. (\E S : left \in Seq(S))' /\ (\A q \in DOMAIN left : Tells(left[q]))'
  BY <1>1, <1>2, StayTells
<1>19. CASE end.running = "yes"
  <2>1. /\ ~Overruns(Extractor, Text) /\ ~Malformed(Extractor, Text)
        /\ \A i \in 2 .. Len(augs) : ~Missing(Extractor, augs[i], Text)
        /\ Filled(augs, Text, Len(augs), m.fields)
    BY <1>4, <1>11, <1>15, <1>19 DEF After
  <2>2. Augmented'
    BY <1>1, <1>14, <2>1, SaidStays DEF Augmented
  <2>3. AtBroadcast'
    BY <1>1, <1>3, <1>13, <2>2, SaidStays DEF AtBroadcast
  <2> QED BY <1>1, <1>12, <1>17, <1>18, <1>19, <2>3 DEF Underway, PipelineInv
<1>20. CASE end.running = "terminated"
  <2>1. Malformed(Extractor, Text)
        \/ (~Overruns(Extractor, Text) /\ \E i \in 2 .. Len(augs) : Missing(Extractor, augs[i], Text))
    BY <1>4, <1>11, <1>20 DEF After
  <2>2. Fails
    BY <2>1 DEF Fails, Joiners
  <2> QED BY <1>1, <1>3, <1>12, <1>17, <1>18, <1>20, <2>2, SaidStays DEF Underway, PipelineInv
<1>21. CASE end.running = "undefined"
  <2>1. Overruns(Extractor, Text)
    BY <1>4, <1>11, <1>21 DEF After
  <2> QED BY <1>1, <1>3, <1>12, <1>17, <1>18, <1>21, <2>1, SaidStays DEF Underway, PipelineInv
<1> QED BY <1>15, <1>19, <1>20, <1>21

LEMMA BroadcastHolds ==
  ASSUME PipelineInv, Broadcast
  PROVE  PipelineInv'
<1> DEFINE stages == [k \in DOMAIN config.outputs |-> <<config.outputs[k], k>>]
<1>1. /\ config' = config /\ request' = request /\ left' = left /\ message' = message /\ running' = running
      /\ Call(stages) /\ config \in Configs
  BY DEF Broadcast, PipelineInv
<1>2. Underway /\ AtBroadcast /\ running = "yes"
  BY WhereCalled DEF Broadcast, Calling
<1>3. calls = <<<<"broadcast", 1>>>> /\ left = <<>> /\ Dynamic /\ Augmented
  BY <1>2 DEF AtBroadcast
<1>4. Len(config.outputs) \in Nat /\ 0 \in 0 .. Len(config.outputs)
  BY <1>1, PipelineIs
<1>5. stages = OutputsFrom(0) /\ OutputsFrom(0) \in Seq({"decoder", "validation"} \X Nat)
  <2> HIDE DEF stages
  <2> QED BY <1>1, <1>4, OutputsLeft DEF stages
<1>6. calls' = OutputsFrom(0)
  <2> HIDE DEF stages
  <2> QED BY <1>1, <1>3, <1>5, CallIs
<1>7. ~Fails /\ ~Overruns(Extractor, Text)
  BY <1>3 DEF Augmented, Fails, Joiners
<1>8. Carries(message)
  <2>1. Text \in Seq(STRING)
    BY <1>2, RequestAssumption DEF Underway, Text
  <2> QED BY <1>1, <1>3, <1>7, <2>1, PipelineIs, FilledCarries DEF Augmented
<1>9. AtOutputs'
  <2>1. Carries(message)'
    BY <1>1, <1>8, SaidStays DEF Carries
  <2>2. calls' = OutputsFrom(0)'
    BY <1>1, <1>6 DEF OutputsFrom
  <2>3. PassesValidation(0)'
    BY DEF PassesValidation
  <2>4. Len(left') = 0
    BY <1>1, <1>3
  <2> QED BY <1>1, <1>3, <1>4, <1>7, <2>1, <2>2, <2>3, <2>4, SaidStays DEF AtOutputs
<1>10. (\E S : left \in Seq(S))' /\ (\A q \in DOMAIN left : Tells(left[q]))'
  BY <1>1, <1>2, StayTells
<1>11. /\ (request \in Requests)' /\ Record(message)' /\ (message.type = request.type)'
       /\ ((\E q \in DOMAIN message.fields : q[1] = config.group) /\ config.group # DecoderGroup => Verified)'
  BY <1>1, <1>2, SaidStays DEF Underway, Record
<1> QED BY <1>1, <1>2, <1>9, <1>10, <1>11 DEF Underway, PipelineInv

\* An output is called, and the next one is next.
NextOutput(i) ==
  /\ i \in 0 .. Len(config.outputs) /\ i # Len(config.outputs)
  /\ calls = OutputsFrom(i) /\ Len(left) = i /\ PassesValidation(i)
  /\ config.outputs[i + 1] = Head(calls)[1] /\ i + 1 \in 0 .. Len(config.outputs)
  /\ Tail(calls) = OutputsFrom(i + 1)

LEMMA OutputCalled ==
  ASSUME config \in Configs, AtOutputs, calls # <<>>
  PROVE  \E i : NextOutput(i)
<1>1. PICK i \in 0 .. Len(config.outputs) : calls = OutputsFrom(i) /\ Len(left) = i /\ PassesValidation(i)
  BY DEF AtOutputs
<1>2. i # Len(config.outputs)
  BY <1>1, OutputsLeft
<1>3. Head(calls) = <<config.outputs[i + 1], i + 1>> /\ Tail(calls) = OutputsFrom(i + 1)
  BY <1>1, <1>2, OutputsLeft
<1>4. i + 1 \in 0 .. Len(config.outputs)
  <2>1. Len(config.outputs) \in Nat
    BY PipelineIs
  <2> QED BY <1>2, <2>1
<1>5. NextOutput(i)
  BY <1>1, <1>2, <1>3, <1>4 DEF NextOutput
<1> QED BY <1>5

LEMMA StillCarries ==
  ASSUME Carries(message), NEW group, group # "auth", NEW m, Adds1(message, group, m)
  PROVE  Carries(m)
BY DEF Carries, Adds1, Auth

\* What decoder and validation have in common.
LEMMA OutputHolds ==
  ASSUME config \in Configs, Underway, AtOutputs, running = "yes", NEW i, NextOutput(i),
         config' = config, request' = request, Call(<<>>),
         NEW m, message' = m, Record(m), m.type = message.type, Carries(m),
         (\E k \in DOMAIN m.fields : k[1] = config.group) /\ config.group # DecoderGroup => Verified,
         NEW to, Leave(to, m), Tells([to |-> to, fields |-> m.fields]),
         config.outputs[i + 1] = "validation" => ~Unfit
  PROVE  PipelineInv'
<1>1. calls' = OutputsFrom(i + 1)
  <2>1. OutputsFrom(i + 1) \in Seq({"decoder", "validation"} \X Nat)
    BY OutputsLeft DEF NextOutput
  <2>2. <<>> \o OutputsFrom(i + 1) = OutputsFrom(i + 1)
    BY <2>1, ConcatEmptySeq
  <2> QED BY <2>2 DEF NextOutput, Call
<1>2. /\ (\E S : left \in Seq(S))' /\ (\A q \in DOMAIN left : Tells(left[q]))'
      /\ \/ running' = running /\ Len(left') = Len(left) + 1
         \/ running' = "undefined" /\ config.unconnected # {}
  BY LeaveTells
<1>3. PassesValidation(i + 1)
  <2> SUFFICES ASSUME NEW k \in 1 .. i + 1, config.outputs[k] = "validation"
               PROVE  ~Unfit
    BY DEF PassesValidation
  <2>1. k \in 1 .. i \/ k = i + 1
    <3>1. i \in Nat
      BY DEF NextOutput
    <3> QED BY <3>1
  <2> QED BY <2>1 DEF NextOutput, PassesValidation
<1>4. ASSUME running' = running, Len(left') = Len(left) + 1 PROVE AtOutputs'
  <2>1. Len(left') = i + 1 /\ i + 1 \in 0 .. Len(config.outputs)
    BY <1>4 DEF NextOutput
  <2>2. calls' = OutputsFrom(i + 1)'
    BY <1>1 DEF OutputsFrom
  <2>3. PassesValidation(i + 1)'
    BY <1>3, SaidStays DEF PassesValidation
  <2>4. Carries(message)'
    BY SaidStays DEF Carries
  <2> QED BY <2>1, <2>2, <2>3, <2>4, SaidStays DEF AtOutputs
<1>5. /\ (request \in Requests)' /\ Record(message)' /\ (message.type = request.type)'
      /\ ((\E q \in DOMAIN message.fields : q[1] = config.group) /\ config.group # DecoderGroup => Verified)'
  BY SaidStays DEF Underway, Record
<1> QED BY <1>2, <1>4, <1>5 DEF Underway, PipelineInv

LEMMA DecodeHolds ==
  ASSUME PipelineInv, Decode
  PROVE  PipelineInv'
<1>1. config' = config /\ request' = request /\ Call(<<>>) /\ config \in Configs
  BY DEF Decode, PipelineInv
<1>2. Underway /\ AtOutputs /\ running = "yes" /\ calls # <<>> /\ Head(calls)[1] = "decoder"
  BY WhereCalled DEF Decode, Calling
<1>3. Record(message) /\ Carries(message)
  BY <1>2 DEF Underway, AtOutputs
<1>4. PICK o \in DecoderOutcomes(message, "token") : message' = o.message /\ Leave(o.to, o.message)
  BY DEF Decode
<1>5. DecoderTells(message, o)
  BY <1>3, DecodeDoes
<1>6. PICK i : NextOutput(i)
  BY <1>1, <1>2, OutputCalled
<1>7. PICK m, to : m = o.message /\ to = o.to
  OBVIOUS
<1>8. Adds1(message, DecoderGroup, m) /\ DecoderGroup # "auth"
  BY <1>5, <1>7 DEF DecoderTells, DecoderGroup
<1>9. Record(m) /\ m.type = message.type
  BY <1>8 DEF Adds1
<1>10. Carries(m)
  BY <1>3, <1>8, StillCarries
<1>11. (\E k \in DOMAIN m.fields : k[1] = config.group) /\ config.group # DecoderGroup => Verified
  BY <1>2, <1>8 DEF Adds1, Underway
<1>12. Tells([to |-> to, fields |-> m.fields])
  <2>1. PICK l : l = [to |-> to, fields |-> m.fields]
    OBVIOUS
  <2>2. \/ l.to = "decoded_token_out" /\ HasToken /\ Readable
        \/ /\ l.to = "error_decoding_out" /\ ~Readable
           /\ <<DecoderGroup, "jwt_decoder_error_description">> \in DOMAIN l.fields
    BY <1>5, <1>7, <2>1 DEF DecoderTells
  <2>3. Tells(l)
    BY <2>2 DEF Tells
  <2> QED BY <2>1, <2>3
<1>13. config.outputs[i + 1] # "validation"
  BY <1>2, <1>6 DEF NextOutput
<1>14. message' = m /\ Leave(to, m)
  BY <1>4, <1>7
<1> QED BY <1>1, <1>2, <1>6, <1>9, <1>10, <1>11, <1>12, <1>13, <1>14, OutputHolds

LEMMA ValidateHolds ==
  ASSUME PipelineInv, Validate
  PROVE  PipelineInv'
<1>1. config' = config /\ request' = request /\ Call(<<>>) /\ config \in Configs
  BY DEF Validate, PipelineInv
<1>2. Underway /\ AtOutputs /\ running = "yes" /\ calls # <<>> /\ Head(calls)[1] = "validation"
  BY WhereCalled DEF Validate, Calling
<1>3. Record(message) /\ Carries(message) /\ Dynamic
  BY <1>2 DEF Underway, AtOutputs
<1>4. PICK o \in ValidationOutcomes(message, <<"auth", "token">>, config.group, config.key_loads) :
        /\ message' = o.message
        /\ \/ o.to = "terminate" /\ running' = "terminated" /\ UNCHANGED left
           \/ o.to # "terminate" /\ Leave(o.to, o.message)
  BY DEF Validate
<1>5. ValidationTells(message, o)
  BY <1>1, <1>3, PipelineIs, ValidateDoes
<1>6. PICK i : NextOutput(i)
  BY <1>1, <1>2, OutputCalled
<1>7. PICK m, to : m = o.message /\ to = o.to
  OBVIOUS
<1>8. CASE to = "terminate"
  <2>1. m = message /\ Unfit
    BY <1>5, <1>7, <1>8 DEF ValidationTells
  <2>2. "validation" \in ToSet(config.outputs)
    <3>1. i + 1 \in DOMAIN config.outputs /\ config.outputs[i + 1] = "validation"
      <4>1. Len(config.outputs) \in Nat /\ DOMAIN config.outputs = 1 .. Len(config.outputs)
        BY <1>1, PipelineIs
      <4>2. config.outputs[i + 1] = "validation" /\ i \in 0 .. Len(config.outputs) /\ i # Len(config.outputs)
        BY <1>2, <1>6 DEF NextOutput
      <4> QED BY <4>1, <4>2
    <3> QED BY <3>1 DEF ToSet
  <2>3. Lacks
    BY <2>1, <2>2 DEF Lacks
  <2>4. message' = message /\ left' = left /\ running' = "terminated"
    BY <1>4, <1>7, <1>8, <2>1
  <2>5. (\E S : left \in Seq(S))' /\ (\A q \in DOMAIN left : Tells(left[q]))'
    BY <1>1, <1>2, <2>4, StayTells
  <2>6. /\ (request \in Requests)' /\ Record(message)' /\ (message.type = request.type)'
        /\ ((\E q \in DOMAIN message.fields : q[1] = config.group) /\ config.group # DecoderGroup => Verified)'
    BY <1>1, <1>2, <2>4, SaidStays DEF Underway, Record
  <2> QED BY <1>1, <1>3, <2>3, <2>4, <2>5, <2>6, SaidStays DEF Underway, PipelineInv
<1>9. CASE to # "terminate"
  <2>0. message' = m /\ Leave(to, m)
    BY <1>4, <1>7, <1>9
  <2>g. config.group # "auth"
    BY <1>1, ConfigAssumption DEF IsPipeline
  <2>1. CASE to = "valid_out"
    <3>1. HasToken /\ Verified /\ ~Unfit /\ Adds1(message, config.group, m) /\ ClaimsIn(m.fields)
      BY <1>5, <1>7, <2>1 DEF ValidationTells, Unfit
    <3>2. Record(m) /\ m.type = message.type
      BY <3>1 DEF Adds1
    <3>3. Carries(m)
      BY <1>3, <2>g, <3>1, StillCarries
    <3>4. Tells([to |-> to, fields |-> m.fields])
      <4>1. PICK l : l = [to |-> to, fields |-> m.fields]
        OBVIOUS
      <4>2. l.to = "valid_out" /\ l.fields = m.fields
        BY <2>1, <4>1
      <4>3. Tells(l)
        BY <3>1, <4>2 DEF Tells
      <4> QED BY <4>1, <4>3
    <3> QED BY <1>1, <1>2, <1>6, <2>0, <3>1, <3>2, <3>3, <3>4, OutputHolds
  <2>2. CASE to # "valid_out"
    <3>1. /\ m = message /\ ~Verified /\ ~Unfit
          /\ \/ to = "expired_out" /\ config.key_loads /\ Token.verdict = "token verification"
             \/ to = "non_jwt_out" /\ config.key_loads /\ Token.form = "no jwt"
             \/ to = "invalid_out" /\ (~config.key_loads \/ Token.form = "garbled" \/ Token.verdict = "signature")
      BY <1>5, <1>7, <1>9, <2>2 DEF ValidationTells
    <3>2. Record(m) /\ m.type = message.type /\ Carries(m)
      BY <1>3, <3>1
    <3>3. (\E k \in DOMAIN m.fields : k[1] = config.group) /\ config.group # DecoderGroup => Verified
      BY <1>2, <3>1 DEF Underway
    <3>4. Tells([to |-> to, fields |-> m.fields])
      <4>1. PICK l : l = [to |-> to, fields |-> m.fields]
        OBVIOUS
      <4>2. l.to = to
        BY <4>1
      <4>3. Tells(l)
        BY <3>1, <4>2 DEF Tells
      <4> QED BY <4>1, <4>3
    <3> QED BY <1>1, <1>2, <1>6, <2>0, <3>1, <3>2, <3>3, <3>4, OutputHolds
  <2> QED BY <2>1, <2>2
<1> QED BY <1>8, <1>9

\* The message is where the invariant says it is, always.
THEOREM PipelineInvHolds == Spec => []PipelineInv
<1>1. ASSUME PipelineInv, [Next]_vars PROVE PipelineInv'
  <2>1. CASE Arrive
    BY <1>1, <2>1, ArriveHolds
  <2>2. CASE Route
    BY <1>1, <2>2, RouteHolds
  <2>3. CASE Augment
    BY <1>1, <2>3, AugmentHolds
  <2>4. CASE Broadcast
    BY <1>1, <2>4, BroadcastHolds
  <2>5. CASE Decode
    BY <1>1, <2>5, DecodeHolds
  <2>6. CASE Validate
    BY <1>1, <2>6, ValidateHolds
  <2>7. CASE UNCHANGED vars
    BY <1>1, <2>7, StutterHolds
  <2> QED BY <1>1, <2>1, <2>2, <2>3, <2>4, <2>5, <2>6, <2>7 DEF Next
<1> QED BY <1>1, InitHolds, PTL DEF Spec

LEMMA Thorough ==
  ASSUME PipelineInv, Through
  PROVE  /\ Dynamic => /\ Len(left) = Len(config.outputs)
                       /\ ~Overruns(Extractor, Text) /\ ~Fails /\ ~Lacks
         /\ ~Dynamic => Len(left) = 1
<1>1. Underway /\ running = "yes" /\ calls = <<>> /\ config \in Configs
  BY DEF Through, PipelineInv, Waiting
<1>2. ~AtRouter /\ ~AtAugmentors /\ ~AtBroadcast
  BY <1>1 DEF AtRouter, AtAugmentors, AtBroadcast
<1>3. CASE GoneAside
  BY <1>3 DEF GoneAside
<1>4. CASE AtOutputs
  <2>1. PICK i \in 0 .. Len(config.outputs) : calls = OutputsFrom(i) /\ Len(left) = i /\ PassesValidation(i)
    BY <1>4 DEF AtOutputs
  <2>2. Len(config.outputs) \in Nat /\ Len(OutputsFrom(i)) = Len(config.outputs) - i /\ Len(calls) = 0
    <3>1. Len(config.outputs) \in Nat
      BY <1>1, PipelineIs
    <3>2. Len(OutputsFrom(i)) = Len(config.outputs) - i
      BY <1>1, OutputsLeft
    <3>3. Len(<<>>) = 0
      OBVIOUS
    <3> QED BY <1>1, <3>1, <3>2, <3>3
  <2>3. i = Len(config.outputs)
    BY <2>1, <2>2
  <2>4. ~Lacks
    <3> SUFFICES ASSUME Lacks PROVE FALSE
      OBVIOUS
    <3>1. PICK k \in DOMAIN config.outputs : config.outputs[k] = "validation"
      BY DEF Lacks, ToSet
    <3>2. DOMAIN config.outputs = 1 .. Len(config.outputs)
      BY <1>1, PipelineIs
    <3> QED BY <2>1, <2>3, <3>1, <3>2 DEF PassesValidation, Lacks
  <2> QED BY <1>4, <2>1, <2>3, <2>4 DEF AtOutputs
<1> QED BY <1>1, <1>2, <1>3, <1>4 DEF Underway

\* Whatever source a message leaves by, the source tells what its text held; and
\* a message that is through has left by every output, or by one source if it
\* is none for the augmentors.  The order in which the stages are called, and
\* that they all work on one object, never mix up what they find.
THEOREM OutputsTellTheTokenHolds == Spec => []OutputsTellTheToken
<1>1. PipelineInv => OutputsTellTheToken
  <2> SUFFICES ASSUME PipelineInv PROVE OutputsTellTheToken
    OBVIOUS
  <2>1. \A k \in DOMAIN left : Tells(left[k])
    <3>1. CASE Waiting
      BY <3>1 DEF Waiting
    <3>2. CASE Underway
      BY <3>2 DEF Underway
    <3> QED BY <3>1, <3>2 DEF PipelineInv
  <2>2. Through => Len(left) = IF Dynamic THEN Len(config.outputs) ELSE 1
    BY Thorough
  <2> HIDE DEF PipelineInv
  <2> QED BY <2>1, <2>2 DEF OutputsTellTheToken, Tells
<1> QED BY <1>1, PipelineInvHolds, PTL

\* Claims in the group of the validation stage are those of a verified token,
\* and a message that leaves as valid has them all.
THEOREM ClaimsAreVerifiedHolds == Spec => []ClaimsAreVerified
<1>1. PipelineInv => ClaimsAreVerified
  <2> SUFFICES ASSUME PipelineInv PROVE ClaimsAreVerified
    OBVIOUS
  <2>1. CASE Waiting
    <3>1. DOMAIN message.fields = {} /\ DOMAIN left = {}
      BY <2>1 DEF Waiting, Message
    <3> QED BY <3>1 DEF ClaimsAreVerified
  <2>2. CASE Underway
    BY <2>2 DEF Underway, Tells, ClaimsIn, ClaimsAreVerified
  <2> QED BY <2>1, <2>2 DEF PipelineInv
<1> QED BY <1>1, PipelineInvHolds, PTL

\* The program ends for a cause the request or the configuration gives, and a
\* message that gives one does not come through.
THEOREM StopsForCauseHolds == Spec => []StopsForCause
<1>1. PipelineInv => StopsForCause
  <2> SUFFICES ASSUME PipelineInv PROVE StopsForCause
    OBVIOUS
  <2>1. running = "undefined" => (Dynamic /\ Overruns(Extractor, Text)) \/ config.unconnected # {}
    BY DEF PipelineInv, Waiting, Underway
  <2>2. running = "terminated" => Dynamic /\ (Fails \/ Lacks)
    BY DEF PipelineInv, Waiting, Underway
  <2>3. Through => ~(Dynamic /\ (Overruns(Extractor, Text) \/ Fails \/ Lacks))
    BY Thorough
  <2> QED BY <2>1, <2>2, <2>3 DEF StopsForCause, Lacks
<1> QED BY <1>1, PipelineInvHolds, PTL

\* Behind the augmentors every token of the text is in the field configured for
\* its place, no other target is set, and joined fields are as configured.
THEOREM AugmentedAsWrittenHolds == Spec => []AugmentedAsWritten
<1>1. PipelineInv => AugmentedAsWritten
  <2> SUFFICES ASSUME PipelineInv, running = "yes", calls # <<>>, Head(calls)[1] = "broadcast"
               PROVE  AugmentedAsWritten
    BY DEF AugmentedAsWritten
  <2> DEFINE e == Extractor
             augs == config.augmentors
             place(p) == e.target_fields[Rank(Text, p)]
             F == message.fields
  <2>1. Underway /\ Augmented /\ config \in Configs
    BY WhereCalled DEF Calling, AtBroadcast, PipelineInv
  <2>2. AreAugmentors(augs) /\ IsExtractor(e) /\ e = augs[1]
    BY <2>1, PipelineIs
  <2>3. ~Overruns(e, Text) /\ Filled(augs, Text, Len(augs), F)
    BY <2>1 DEF Augmented
  <2>4. Text \in Seq(STRING)
    BY <2>1, RequestAssumption DEF Underway, Text
  <2>5. \A p \in Taken(e, Text) : Rank(Text, p) \in DOMAIN e.target_fields
    <3> SUFFICES ASSUME NEW p \in Taken(e, Text) PROVE Rank(Text, p) \in DOMAIN e.target_fields
      OBVIOUS
    <3>1. p \in Closings(Text) /\ p \in 1 .. Len(Text) /\ Len(Text) \in Nat
      BY <2>4 DEF Taken, Closings, Marks
    <3>2. Rank(Text, 0) < Rank(Text, p) /\ Rank(Text, 0) = 0 /\ Rank(Text, p) \in Nat
      BY <2>4, <3>1, RankSteps, RankOrder
    <3>3. Rank(Text, p) <= Len(e.target_fields)
      BY <2>2, <2>3, <3>2, TargetsAre DEF Overruns
    <3> HIDE DEF e
    <3> QED BY <2>2, <3>2, <3>3, TargetsAre
  <2>6. ASSUME NEW p \in Taken(e, Text) PROVE GetField(message, place(p)[1], place(p)[2]) = Word(Text, p)
    <3>1. place(p) = <<place(p)[1], place(p)[2]>>
      <4>1. Rank(Text, p) \in 1 .. Len(e.target_fields)
        BY <2>2, <2>5, TargetsAre
      <4> HIDE DEF e
      <4> QED BY <2>2, <4>1, TargetsAre
    <3>2. F[place(p)] = Str(Word(Text, p))
      BY <2>2, <2>3 DEF Filled
    <3> QED BY <3>1, <3>2 DEF GetField, Str, Field
  <2>7. ASSUME NEW k \in DOMAIN e.target_fields, \A p \in Taken(e, Text) : Rank(Text, p) # k
        PROVE  e.target_fields[k] \notin DOMAIN F
    <3>1. k \in 1 .. Len(e.target_fields)
      BY <2>2, TargetsAre
    <3>2. e.target_fields[k] \in ToSet(e.target_fields) /\ e.target_fields[k] # Credentials
      <4> HIDE DEF e
      <4> QED BY <2>2, <3>1, TargetsAre DEF Credentials
    <3>3. e.target_fields[k] \notin TokenFields(e, Text)
      BY <2>2, <2>5, <2>7 DEF TokenFields, IsExtractor
    <3>4. e.target_fields[k] \notin JoinedTargets(augs, Len(augs))
      BY <2>2, <3>2 DEF JoinedTargets, AreAugmentors, IsJoiner
    <3> QED BY <2>2, <2>3, <3>2, <3>3, <3>4 DEF Filled
  <2>8. ASSUME NEW j \in Joiners PROVE GetField(message, j.target[1], j.target[2]) = Joined(j, F)
    <3>1. PICK i \in 2 .. Len(augs) : j = augs[i]
      BY DEF Joiners
    <3>2. F[j.target] = Str(Joined(j, F))
      BY <2>3, <3>1 DEF Filled
    <3>3. j.target = <<j.target[1], j.target[2]>>
      BY <2>2, <3>1 DEF AreAugmentors, IsJoiner
    <3> QED BY <3>2, <3>3 DEF GetField, Str, Field
  <2> QED BY <2>6, <2>7, <2>8 DEF AugmentedAsWritten, Joined
<1> QED BY <1>1, PipelineInvHolds, PTL

-----------------------------------------------------------------------------
(* The parameters of a request: pieces of a string, pairs, assignments.    *)

\* Where pieces start.
Starts(s, d, from) == {p \in from .. Len(s) : p = from \/ s[p - 1] = d}

LEMMA NextIs ==
  ASSUME NEW S, NEW s \in Seq(S), NEW d, NEW from \in 1 .. Len(s) + 1
  PROVE  \/ Find(s, d, from) = 0 /\ \A e \in from .. Len(s) : s[e] # d
         \/ /\ Find(s, d, from) \in from .. Len(s) /\ s[Find(s, d, from)] = d
            /\ \A e \in from .. Len(s) : e < Find(s, d, from) => s[e] # d
<1> DEFINE I == {i \in from .. Len(s) : s[i] = d}
<1>1. CASE I = {}
  BY <1>1 DEF Find, SelectInSubSeq
<1>2. CASE I # {}
  <2>1. PICK n : n = Min(I)
    OBVIOUS
  <2>2. I \in SUBSET Nat
    OBVIOUS
  <2>3. n \in I /\ \A y \in I : n <= y
    <3> HIDE DEF I
    <3> QED BY <1>2, <2>1, <2>2, Lowest
  <2>4. Find(s, d, from) = n
    BY <1>2, <2>1 DEF Find, SelectInSubSeq
  <2>5. \A e \in from .. Len(s) : e < n => s[e] # d
    BY <2>3
  <2> QED BY <2>3, <2>4, <2>5
<1> QED BY <1>1, <1>2

LEMMA StopIs ==
  ASSUME NEW S, NEW s \in Seq(S), NEW d, NEW p \in 1 .. Len(s)
  PROVE  /\ StopAt(s, d, p) \in p .. Len(s) + 1
         /\ \A e \in p .. Len(s) : e < StopAt(s, d, p) => s[e] # d
         /\ StopAt(s, d, p) <= Len(s) => s[StopAt(s, d, p)] = d
<1> DEFINE I == {e \in p .. Len(s) : s[e] = d} \cup {Len(s) + 1}
<1>1. I \in SUBSET Nat /\ Len(s) + 1 \in I
  OBVIOUS
<1>2. PICK n : n = Min(I)
  OBVIOUS
<1>3. n \in I /\ \A y \in I : n <= y
  <2> HIDE DEF I
  <2> QED BY <1>1, <1>2, Lowest
<1>4. StopAt(s, d, p) = n
  BY <1>2 DEF StopAt
<1>5. n \in p .. Len(s) + 1 /\ (n <= Len(s) => s[n] = d)
  BY <1>3
<1>6. \A e \in p .. Len(s) : e < n => s[e] # d
  BY <1>3
<1> QED BY <1>4, <1>5, <1>6

\* What the loop does from each position on.
PieceStep(s, d, g, from) ==
  g[from] = IF from > Len(s) THEN <<>>
            ELSE IF Find(s, d, from) = 0 THEN <<SubSeq(s, from, Len(s))>>
                 ELSE <<SubSeq(s, from, Find(s, d, from) - 1)>> \o g[Find(s, d, from) + 1]

LEMMA PiecesRun ==
  ASSUME NEW S, NEW s \in Seq(S), NEW d
  PROVE  \E g : (\A from \in 1 .. Len(s) + 1 : PieceStep(s, d, g, from)) /\ Pieces(s, d) = g[1]
<1> DEFINE N == Len(s)
           at(from) == Find(s, d, from)
           Rest(g, from) ==
             IF from > N THEN <<>>
             ELSE IF at(from) = 0 THEN <<SubSeq(s, from, N)>>
                  ELSE <<SubSeq(s, from, at(from) - 1)>> \o g[at(from) + 1]
           Runs(g) == g = [from \in 1 .. N + 1 |-> Rest(g, from)]
           G == {n \in Nat : n <= N => \E g : g = [from \in (N + 1) - n .. N + 1 |-> Rest(g, from)]}
<1>0. N \in Nat /\ \A from \in 1 .. N : at(from) = 0 \/ at(from) \in from .. N
  <2> SUFFICES ASSUME NEW from \in 1 .. N PROVE at(from) = 0 \/ at(from) \in from .. N
    OBVIOUS
  <2>1. from \in 1 .. N + 1
    OBVIOUS
  <2> QED BY <2>1, NextIs
<1> HIDE DEF at, N
<1>1. 0 \in G
  <2> DEFINE g == [from \in N + 1 .. N + 1 |-> <<>>]
  <2>1. g = [from \in N + 1 .. N + 1 |-> Rest(g, from)]
    BY <1>0
  <2>2. (N + 1) - 0 = N + 1
    BY <1>0
  <2> HIDE DEF g, Rest
  <2> QED BY <2>1, <2>2
<1>2. ASSUME NEW n \in Nat, n \in G PROVE n + 1 \in G
  <2> HIDE DEF Rest
  <2> SUFFICES ASSUME n + 1 <= N
               PROVE  \E g : g = [from \in (N + 1) - (n + 1) .. N + 1 |-> Rest(g, from)]
    OBVIOUS
  <2>1. PICK f : f = [from \in (N + 1) - n .. N + 1 |-> Rest(f, from)]
    <3>1. n <= N
      BY <1>0
    <3> QED BY <1>2, <3>1
  <2> USE DEF Rest
  <2> DEFINE x == N - n
             g == [from \in x .. N + 1 |-> IF from = x THEN Rest(f, from) ELSE f[from]]
  <2>2. x \in 1 .. N /\ (N + 1) - (n + 1) = x /\ (N + 1) - n = x + 1
    BY <1>0
  <2>3. \A from \in x + 1 .. N + 1 : g[from] = f[from] /\ f[from] = Rest(f, from)
    <3>1. \A from \in x + 1 .. N + 1 : f[from] = Rest(f, from)
      <4> HIDE DEF Rest
      <4> QED BY <2>1, <2>2
    <3> HIDE DEF Rest
    <3> QED BY <1>0, <2>2, <3>1
  <2>4. ASSUME NEW from \in x .. N + 1 PROVE Rest(g, from) = Rest(f, from)
    <3>1. CASE from <= N /\ at(from) # 0
      <4>1. at(from) \in from .. N /\ at(from) + 1 \in x + 1 .. N + 1
        BY <1>0, <2>2, <3>1
      <4>2. g[at(from) + 1] = f[at(from) + 1]
        BY <2>3, <4>1
      <4> HIDE DEF g
      <4> QED BY <3>1, <4>2
    <3>2. CASE ~(from <= N /\ at(from) # 0)
      <4> HIDE DEF g
      <4> QED BY <1>0, <3>2
    <3> QED BY <3>1, <3>2
  <2>5. ASSUME NEW from \in x .. N + 1 PROVE g[from] = Rest(g, from)
    <3>1. from = x \/ from \in x + 1 .. N + 1
      BY <1>0
    <3>2. g[x] = Rest(f, x)
      <4>1. x \in x .. N + 1
        BY <1>0, <2>2
      <4> HIDE DEF Rest, x
      <4> QED BY <4>1
    <3> HIDE DEF g, Rest, x
    <3> QED BY <2>3, <2>4, <3>1, <3>2
  <2>6. g = [from \in x .. N + 1 |-> Rest(g, from)]
    <3> HIDE DEF Rest, x
    <3> QED BY <2>5
  <2> HIDE DEF g, Rest
  <2> QED BY <2>2, <2>6
<1>3. \A n \in Nat : n \in G
  <2> HIDE DEF G
  <2> QED BY <1>1, <1>2, Counting
<1>4. \E g : Runs(g)
  <2> HIDE DEF Rest
  <2>1. N \in Nat /\ N <= N /\ (N + 1) - N = 1
    BY <1>0
  <2>2. \E g : g = [from \in (N + 1) - N .. N + 1 |-> Rest(g, from)]
    <3>1. N \in G
      <4> HIDE DEF G
      <4> QED BY <1>3, <2>1
    <3> QED BY <2>1, <3>1, Zenon
  <2> HIDE DEF Rest
  <2> QED BY <2>1, <2>2
<1>5. Runs(CHOOSE g : Runs(g))
  BY <1>4, Zenon
<1>6. Pieces(s, d) = (CHOOSE g : Runs(g))[1]
  BY DEF Pieces, Find, SelectInSubSeq, at, N
<1>7. PICK g : Runs(g) /\ Pieces(s, d) = g[1]
  <2> HIDE DEF Runs
  <2> QED BY <1>5, <1>6
<1>8. \A from \in 1 .. N + 1 : g[from] = Rest(g, from)
  <2> HIDE DEF Rest
  <2> QED BY <1>7
<1>9. \A from \in 1 .. Len(s) + 1 : PieceStep(s, d, g, from)
  BY <1>8 DEF PieceStep, at, N
<1> QED BY <1>7, <1>9

\* w are the pieces from a position on, and piece i starts at st[i].
Lists(S, s, d, from, st, w) ==
  /\ w \in Seq(Seq(S)) /\ st \in [1 .. Len(w) -> from .. Len(s)]
  /\ \A i, j \in 1 .. Len(w) : i < j => st[i] < st[j]
  /\ Starts(s, d, from) = {st[i] : i \in 1 .. Len(w)}
  /\ \A i \in 1 .. Len(w) : w[i] = SubSeq(s, st[i], StopAt(s, d, st[i]) - 1)

LEMMA NoneListed ==
  ASSUME NEW S, NEW s \in Seq(S), NEW d
  PROVE  \E st : Lists(S, s, d, Len(s) + 1, st, <<>>)
<1> DEFINE st == [i \in 1 .. 0 |-> 0]
<1>1. <<>> \in Seq(Seq(S)) /\ Len(<<>>) = 0 /\ Len(s) \in Nat
  OBVIOUS
<1>2. Starts(s, d, Len(s) + 1) = {} /\ 1 .. 0 = {}
  BY <1>1 DEF Starts
<1>3. Lists(S, s, d, Len(s) + 1, st, <<>>)
  BY <1>1, <1>2 DEF Lists
<1> QED BY <1>3

LEMMA OneListed ==
  ASSUME NEW S, NEW s \in Seq(S), NEW d, NEW from \in 1 .. Len(s), Find(s, d, from) = 0
  PROVE  \E st : Lists(S, s, d, from, st, <<SubSeq(s, from, Len(s))>>)
<1> DEFINE st == [i \in 1 .. 1 |-> from]
<1>0. Len(s) \in Nat /\ from \in 1 .. Len(s) + 1
  OBVIOUS
<1>1. \A e \in from .. Len(s) : s[e] # d
  BY <1>0, NextIs
<1>2. StopAt(s, d, from) = Len(s) + 1
  <2>1. StopAt(s, d, from) \in from .. Len(s) + 1 /\
        (StopAt(s, d, from) <= Len(s) => s[StopAt(s, d, from)] = d)
    BY StopIs
  <2> QED BY <1>0, <1>1, <2>1
<1>3. PICK w : w = <<SubSeq(s, from, Len(s))>>
  OBVIOUS
<1>4. w \in Seq(Seq(S)) /\ Len(w) = 1 /\ w[1] = SubSeq(s, from, Len(s))
  <2>1. SubSeq(s, from, Len(s)) \in Seq(S)
    BY <1>0
  <2> QED BY <1>3, <2>1
<1>5. 1 .. 1 = {1} /\ st[1] = from
  OBVIOUS
<1>6. Starts(s, d, from) = {from}
  <2>1. from \in Starts(s, d, from)
    BY <1>0 DEF Starts
  <2>2. ASSUME NEW p \in Starts(s, d, from) PROVE p = from
    <3> SUFFICES ASSUME p # from PROVE FALSE
      OBVIOUS
    <3>1. p - 1 \in from .. Len(s) /\ s[p - 1] = d
      BY <1>0 DEF Starts
    <3> QED BY <1>1, <3>1
  <2> QED BY <2>1, <2>2
<1>7. (Len(s) + 1) - 1 = Len(s)
  BY <1>0
<1>8. Lists(S, s, d, from, st, w)
  <2>1. st \in [1 .. Len(w) -> from .. Len(s)]
    BY <1>0, <1>4
  <2>2. \A i \in 1 .. Len(w) : i = 1
    BY <1>4
  <2>3. {st[i] : i \in 1 .. Len(w)} = {from}
    BY <1>4, <1>5
  <2>4. w[1] = SubSeq(s, st[1], StopAt(s, d, st[1]) - 1)
    BY <1>2, <1>4, <1>5, <1>7
  <2>5. \A i, j \in 1 .. Len(w) : i < j => st[i] < st[j]
    <3>1. ~(1 < 1)
      OBVIOUS
    <3> QED BY <2>2, <3>1
  <2>6. \A i \in 1 .. Len(w) : w[i] = SubSeq(s, st[i], StopAt(s, d, st[i]) - 1)
    BY <2>2, <2>4
  <2>7. Starts(s, d, from) = {st[i] : i \in 1 .. Len(w)}
    BY <1>6, <2>3
  <2> HIDE DEF st
  <2> QED BY <1>4, <2>1, <2>5, <2>6, <2>7 DEF Lists
<1> QED BY <1>3, <1>8

LEMMA MoreListed ==
  ASSUME NEW S, NEW s \in Seq(S), NEW d, NEW from \in 1 .. Len(s), Find(s, d, from) # 0,
         NEW ts, NEW v, Lists(S, s, d, Find(s, d, from) + 1, ts, v)
  PROVE  \E st : Lists(S, s, d, from, st, <<SubSeq(s, from, Find(s, d, from) - 1)>> \o v)
<1> DEFINE st == [i \in 1 .. Len(v) + 1 |-> IF i = 1 THEN from ELSE ts[i - 1]]
<1>0. Len(s) \in Nat /\ from \in 1 .. Len(s) + 1
  OBVIOUS
<1>1. PICK e : e = Find(s, d, from)
  OBVIOUS
<1>2. e \in from .. Len(s) /\ s[e] = d /\ \A i \in from .. Len(s) : i < e => s[i] # d
  BY <1>0, <1>1, NextIs
<1>3. StopAt(s, d, from) = e
  <2>1. PICK x : x = StopAt(s, d, from)
    OBVIOUS
  <2>2. /\ x \in from .. Len(s) + 1 /\ (x <= Len(s) => s[x] = d)
        /\ \A i \in from .. Len(s) : i < x => s[i] # d
    BY <2>1, StopIs
  <2>3. ~(e < x) /\ ~(x < e)
    BY <1>0, <1>2, <2>2
  <2> QED BY <1>2, <2>1, <2>2, <2>3
<1>4. PICK u : u = SubSeq(s, from, e - 1)
  OBVIOUS
<1>5. u \in Seq(S)
  BY <1>0, <1>2, <1>4
<1>6. /\ v \in Seq(Seq(S)) /\ ts \in [1 .. Len(v) -> e + 1 .. Len(s)] /\ Len(v) \in Nat
      /\ \A i, j \in 1 .. Len(v) : i < j => ts[i] < ts[j]
      /\ Starts(s, d, e + 1) = {ts[i] : i \in 1 .. Len(v)}
      /\ \A i \in 1 .. Len(v) : v[i] = SubSeq(s, ts[i], StopAt(s, d, ts[i]) - 1)
  BY <1>1 DEF Lists
<1>7. PICK w : w = <<u>> \o v
  OBVIOUS
<1>8. /\ w \in Seq(Seq(S)) /\ Len(w) = Len(v) + 1 /\ w[1] = u
      /\ \A i \in 2 .. Len(w) : w[i] = v[i - 1]
  BY <1>5, <1>6, <1>7
<1>9. st[1] = from /\ \A i \in 2 .. Len(w) : st[i] = ts[i - 1]
  BY <1>6, <1>8
<1>10. st \in [1 .. Len(w) -> from .. Len(s)]
  <2> SUFFICES ASSUME NEW i \in 1 .. Len(w) PROVE st[i] \in from .. Len(s)
    BY <1>8
  <2>1. CASE i = 1
    BY <1>0, <1>9, <2>1
  <2>2. CASE i # 1
    <3>1. i \in 2 .. Len(w) /\ i - 1 \in 1 .. Len(v)
      BY <1>6, <1>8, <2>2
    <3>2. ts[i - 1] \in e + 1 .. Len(s)
      BY <1>6, <3>1
    <3> QED BY <1>2, <1>9, <3>1, <3>2
  <2> QED BY <2>1, <2>2
<1> HIDE DEF st
<1>11. ASSUME NEW i \in 1 .. Len(w), NEW j \in 1 .. Len(w), i < j PROVE st[i] < st[j]
  <2>1. j \in 2 .. Len(w) /\ j - 1 \in 1 .. Len(v)
    BY <1>6, <1>8, <1>11
  <2>2. st[j] = ts[j - 1] /\ ts[j - 1] \in e + 1 .. Len(s)
    BY <1>6, <1>9, <2>1
  <2>3. CASE i = 1
    BY <1>2, <1>9, <2>2, <2>3
  <2>4. CASE i # 1
    <3>1. i \in 2 .. Len(w) /\ i - 1 \in 1 .. Len(v) /\ i - 1 < j - 1
      BY <1>6, <1>8, <1>11, <2>4
    <3> QED BY <1>6, <1>9, <2>1, <2>2, <3>1
  <2> QED BY <2>3, <2>4
<1>12. Starts(s, d, from) = {from} \cup Starts(s, d, e + 1)
  <2>1. ASSUME NEW p \in Starts(s, d, from), p # from PROVE p \in Starts(s, d, e + 1)
    <3>1. p \in from .. Len(s) /\ p - 1 \in from .. Len(s) /\ s[p - 1] = d
      BY <1>0, <2>1 DEF Starts
    <3>2. p - 1 >= e
      BY <1>2, <3>1
    <3> QED BY <1>2, <3>1, <3>2 DEF Starts
  <2>2. ASSUME NEW p \in Starts(s, d, e + 1) PROVE p \in Starts(s, d, from)
    <3>1. p \in e + 1 .. Len(s) /\ (p = e + 1 \/ s[p - 1] = d)
      BY DEF Starts
    <3>2. p \in from .. Len(s)
      BY <1>2, <3>1
    <3>3. s[p - 1] = d
      <4>1. (e + 1) - 1 = e
        BY <1>2
      <4> QED BY <1>2, <3>1, <4>1
    <3> QED BY <3>2, <3>3 DEF Starts
  <2>3. from \in Starts(s, d, from)
    BY DEF Starts
  <2> QED BY <2>1, <2>2, <2>3
<1>13. {st[i] : i \in 1 .. Len(w)} = {from} \cup {ts[i] : i \in 1 .. Len(v)}
  <2>1. ASSUME NEW i \in 1 .. Len(w) PROVE st[i] \in {from} \cup {ts[k] : k \in 1 .. Len(v)}
    <3>1. CASE i = 1
      BY <1>9, <3>1
    <3>2. CASE i # 1
      <4>1. i \in 2 .. Len(w) /\ i - 1 \in 1 .. Len(v)
        BY <1>6, <1>8, <3>2
      <4> QED BY <1>9, <4>1
    <3> QED BY <3>1, <3>2
  <2>2. ASSUME NEW k \in 1 .. Len(v) PROVE ts[k] \in {st[i] : i \in 1 .. Len(w)}
    <3>1. k + 1 \in 2 .. Len(w) /\ k + 1 \in 1 .. Len(w) /\ (k + 1) - 1 = k
      BY <1>6, <1>8
    <3>2. st[k + 1] = ts[k]
      BY <1>9, <3>1
    <3> QED BY <3>1, <3>2
  <2>3. from \in {st[i] : i \in 1 .. Len(w)}
    <3>1. 1 \in 1 .. Len(w)
      BY <1>6, <1>8
    <3> QED BY <1>9, <3>1
  <2> QED BY <2>1, <2>2, <2>3
<1>14. ASSUME NEW i \in 1 .. Len(w) PROVE w[i] = SubSeq(s, st[i], StopAt(s, d, st[i]) - 1)
  <2>1. CASE i = 1
    BY <1>3, <1>4, <1>8, <1>9, <2>1
  <2>2. CASE i # 1
    <3>1. i \in 2 .. Len(w) /\ i - 1 \in 1 .. Len(v)
      BY <1>6, <1>8, <2>2
    <3>2. w[i] = v[i - 1] /\ st[i] = ts[i - 1]
      BY <1>8, <1>9, <3>1
    <3> QED BY <1>6, <3>1, <3>2
  <2> QED BY <2>1, <2>2
<1>15. Lists(S, s, d, from, st, w)
  <2>1. Starts(s, d, from) = {st[i] : i \in 1 .. Len(w)}
    BY <1>6, <1>12, <1>13
  <2> QED BY <1>8, <1>10, <1>11, <1>14, <2>1 DEF Lists
<1> QED BY <1>1, <1>4, <1>7, <1>15

LEMMA PiecesListed ==
  ASSUME NEW S, NEW s \in Seq(S), NEW d
  PROVE  \E st : Lists(S, s, d, 1, st, Pieces(s, d))
<1> DEFINE N == Len(s)
           Good(g, from) == \E st : Lists(S, s, d, from, st, g[from])
           G(g) == {n \in Nat : \A from \in 1 .. N + 1 : from + n >= N + 1 => Good(g, from)}
<1>0. N \in Nat
  OBVIOUS
<1>1. PICK g : (\A from \in 1 .. Len(s) + 1 : PieceStep(s, d, g, from)) /\ Pieces(s, d) = g[1]
  BY PiecesRun
<1> HIDE DEF N
<1>2. 0 \in G(g)
  <2> SUFFICES ASSUME NEW from \in 1 .. N + 1, from + 0 >= N + 1 PROVE Good(g, from)
    OBVIOUS
  <2>1. from = N + 1
    BY <1>0
  <2>2. g[from] = <<>>
    <3>1. PieceStep(s, d, g, from)
      BY <1>1 DEF N
    <3> QED BY <1>0, <2>1, <3>1 DEF PieceStep, N
  <2> QED BY <2>1, <2>2, NoneListed DEF N
<1>3. ASSUME NEW n \in Nat, n \in G(g) PROVE n + 1 \in G(g)
  <2> HIDE DEF Good
  <2> SUFFICES ASSUME NEW from \in 1 .. N + 1, from + (n + 1) >= N + 1 PROVE Good(g, from)
    OBVIOUS
  <2> USE DEF Good
  <2>0. \A x \in 1 .. N + 1 : x + n >= N + 1 => Good(g, x)
    <3> HIDE DEF Good
    <3> QED BY <1>3
  <2>1. CASE from = N + 1
    <3>1. from + n >= N + 1
      BY <1>0, <2>1
    <3> HIDE DEF Good
    <3> QED BY <2>0, <3>1
  <2>2. CASE from # N + 1 /\ Find(s, d, from) = 0
    <3>1. from \in 1 .. N
      BY <1>0, <2>2
    <3>s. PieceStep(s, d, g, from)
      BY <1>1 DEF N
    <3>2. g[from] = <<SubSeq(s, from, N)>>
      BY <1>0, <2>2, <3>1, <3>s DEF PieceStep, N
    <3> QED BY <2>2, <3>1, <3>2, OneListed DEF N
  <2>3. CASE from # N + 1 /\ Find(s, d, from) # 0
    <3>1. from \in 1 .. N
      BY <1>0, <2>3
    <3>2. PICK e : e = Find(s, d, from)
      OBVIOUS
    <3>3. e \in from .. N
      BY <2>3, <3>2, NextIs DEF N
    <3>s. PieceStep(s, d, g, from)
      BY <1>1 DEF N
    <3>4. g[from] = <<SubSeq(s, from, e - 1)>> \o g[e + 1]
      BY <1>0, <2>3, <3>1, <3>2, <3>s DEF PieceStep, N
    <3>5. e + 1 \in 1 .. N + 1 /\ (e + 1) + n >= N + 1
      BY <1>0, <3>1, <3>3
    <3>6. Good(g, e + 1)
      <4> HIDE DEF Good
      <4> QED BY <2>0, <3>5
    <3>7. PICK ts : Lists(S, s, d, e + 1, ts, g[e + 1])
      BY <3>6
    <3> QED BY <2>3, <3>1, <3>2, <3>4, <3>7, MoreListed DEF N
  <2> QED BY <2>1, <2>2, <2>3
<1>4. \A n \in Nat : n \in G(g)
  <2> HIDE DEF G
  <2> QED BY <1>2, <1>3, Counting
<1>5. Good(g, 1)
  <2>1. 1 \in 1 .. N + 1 /\ 1 + N >= N + 1
    BY <1>0
  <2>2. N \in G(g)
    BY <1>0, <1>4, Zenon
  <2> HIDE DEF Good
  <2> QED BY <2>1, <2>2
<1> QED BY <1>1, <1>5

\* h[i] is the map after i assignments.
Assigned(n, keys, vals, h) ==
  h[0] = <<>> /\ \A i \in 1 .. n : h[i] = Assign(h[i - 1], keys[i], vals[i])

\* The last value given to a key stays.
LastStays(n, keys, vals, m) ==
  /\ DOMAIN m = {keys[i] : i \in 1 .. n}
  /\ \A i \in 1 .. n : (\A j \in 1 .. n : j > i => keys[j] # keys[i]) => m[keys[i]] = vals[i]

LEMMA OneAssigned ==
  ASSUME NEW n \in Nat, NEW keys, NEW vals, NEW m, LastStays(n, keys, vals, m)
  PROVE  LastStays(n + 1, keys, vals, Assign(m, keys[n + 1], vals[n + 1]))
<1>1. PICK k, v : k = keys[n + 1] /\ v = vals[n + 1]
  OBVIOUS
<1>2. PICK w : w = Assign(m, k, v)
  OBVIOUS
<1>3. /\ DOMAIN w = DOMAIN m \cup {k} /\ w[k] = v
      /\ \A x \in DOMAIN m : x # k => w[x] = m[x]
  BY <1>2 DEF Assign
<1>4. \A i : i \in 1 .. n + 1 <=> (i \in 1 .. n \/ i = n + 1)
  OBVIOUS
<1>5. DOMAIN w = {keys[i] : i \in 1 .. n + 1}
  BY <1>1, <1>3, <1>4 DEF LastStays
<1>6. ASSUME NEW i \in 1 .. n + 1, \A j \in 1 .. n + 1 : j > i => keys[j] # keys[i]
      PROVE  w[keys[i]] = vals[i]
  <2>1. CASE i = n + 1
    BY <1>1, <1>3, <2>1
  <2>2. CASE i # n + 1
    <3>1. i \in 1 .. n /\ n + 1 \in 1 .. n + 1 /\ n + 1 > i
      BY <2>2
    <3>2. keys[i] # k /\ keys[i] \in DOMAIN m
      BY <1>1, <1>6, <3>1 DEF LastStays
    <3>3. \A j \in 1 .. n : j > i => keys[j] # keys[i]
      BY <1>4, <1>6
    <3>4. m[keys[i]] = vals[i]
      BY <3>1, <3>3 DEF LastStays
    <3> QED BY <1>3, <3>2, <3>4
  <2> QED BY <2>1, <2>2
<1>7. LastStays(n + 1, keys, vals, w)
  BY <1>5, <1>6 DEF LastStays
<1> QED BY <1>1, <1>2, <1>7

LEMMA AllAssigned ==
  ASSUME NEW n \in Nat, NEW keys, NEW vals, NEW h, Assigned(n, keys, vals, h)
  PROVE  LastStays(n, keys, vals, h[n])
<1> DEFINE G == {i \in Nat : i <= n => LastStays(i, keys, vals, h[i])}
<1>1. 0 \in G
  <2>1. h[0] = <<>> /\ DOMAIN <<>> = {} /\ 1 .. 0 = {}
    BY DEF Assigned
  <2> QED BY <2>1 DEF LastStays
<1>2. ASSUME NEW i \in Nat, i \in G PROVE i + 1 \in G
  <2> SUFFICES ASSUME i + 1 <= n PROVE LastStays(i + 1, keys, vals, h[i + 1])
    OBVIOUS
  <2>1. i <= n /\ i + 1 \in 1 .. n /\ (i + 1) - 1 = i
    OBVIOUS
  <2>2. h[i + 1] = Assign(h[i], keys[i + 1], vals[i + 1])
    BY <2>1 DEF Assigned
  <2>3. LastStays(i, keys, vals, h[i])
    BY <1>2, <2>1
  <2> QED BY <2>2, <2>3, OneAssigned
<1>3. \A i \in Nat : i \in G
  <2> HIDE DEF G
  <2> QED BY <1>1, <1>2, Counting
<1> QED BY <1>3

\* Maps with keys and values from these sets.
MapsOf(K, V) == UNION {[D -> V] : D \in SUBSET K}

LEMMA MapsAssign ==
  ASSUME NEW K, NEW V, NEW m \in MapsOf(K, V), NEW k \in K, NEW v \in V
  PROVE  Assign(m, k, v) \in MapsOf(K, V)
<1>1. PICK D \in SUBSET K : m \in [D -> V]
  BY DEF MapsOf
<1>2. Assign(m, k, v) \in [D \cup {k} -> V]
  BY <1>1 DEF Assign
<1>3. D \cup {k} \in SUBSET K
  OBVIOUS
<1> QED BY <1>2, <1>3 DEF MapsOf

LEMMA NoMap ==
  ASSUME NEW K, NEW V
  PROVE  <<>> \in MapsOf(K, V)
<1>1. <<>> \in [{} -> V] /\ {} \in SUBSET K
  OBVIOUS
<1> QED BY <1>1 DEF MapsOf

IsMap(m) == m = [k \in DOMAIN m |-> m[k]]

\* The parameters of a query are assigned pair by pair.
QueryRun(q, w, h) ==
  /\ Assigned(Len(w), [i \in DOMAIN w |-> KeyOf(w[i])], [i \in DOMAIN w |-> ValueOf(w[i])], h)
  /\ h[Len(w)] = ExtractQuery(q) /\ IsMap(ExtractQuery(q))

LEMMA QueryRuns ==
  ASSUME NEW S, NEW q, Pieces(q, "&") \in Seq(S)
  PROVE  \E h : QueryRun(q, Pieces(q, "&"), h)
<1>w. PICK w : w = Pieces(q, "&")
  OBVIOUS
<1> DEFINE K == {KeyOf(x) : x \in S}
           V == {ValueOf(x) : x \in S}
           A == MapsOf(K, V)
           P == DOMAIN w
           Add(data, x) == Assign(data, KeyOf(x), ValueOf(x))
           F == [p \in A \X S |-> Add(p[1], p[2])]
           Folds(g) == g = [s \in SUBSET P |-> IF s = {} THEN <<>> ELSE Add(g[s \ {Max(s)}], w[Max(s)])]
<1>1. P = 1 .. Len(w) /\ Len(w) \in Nat /\ w \in Seq(S)
  BY <1>w
<1>2. ExtractQuery(q) = (CHOOSE g : Folds(g))[P]
  BY <1>w DEF ExtractQuery, FoldLeft, MapThenFoldSet
<1>3. F \in [A \X S -> A] /\ <<>> \in A
  <2>1. \A data \in A, x \in S : Add(data, x) \in A
    <3> SUFFICES ASSUME NEW data \in A, NEW x \in S PROVE Add(data, x) \in A
      OBVIOUS
    <3>1. KeyOf(x) \in K /\ ValueOf(x) \in V
      OBVIOUS
    <3> HIDE DEF K, V
    <3> QED BY <3>1, MapsAssign
  <2>2. <<>> \in A
    BY NoMap
  <2> HIDE DEF A, Add
  <2> QED BY <2>1, <2>2
<1>5. \A data \in A, x \in S : F[<<data, x>>] = Add(data, x)
  <2> HIDE DEF A, Add
  <2> QED OBVIOUS
<1>6. \A s \in SUBSET P : s # {} => w[Max(s)] \in S
  BY <1>1, FoldElement
<1> HIDE DEF P, F, A, Add
<1>7. \E g : Folds(g)
  <2>1. PICK g \in [SUBSET P -> A] : Unfolds(g, <<>>, w, P, F)
    BY <1>1, <1>3, FoldExists
  <2>2. \A s \in SUBSET P : g[s \ {Max(s)}] \in A
    BY <2>1
  <2>3. \A s \in SUBSET P : s # {} =>
          F[<<g[s \ {Max(s)}], w[Max(s)]>>] = Add(g[s \ {Max(s)}], w[Max(s)])
    BY <1>5, <1>6, <2>2
  <2>4. Folds(g)
    BY <2>1, <2>3 DEF Unfolds
  <2> QED BY <2>4
<1>8. Folds(CHOOSE g : Folds(g))
  BY <1>7, Zenon
<1>9. PICK g : Folds(g) /\ ExtractQuery(q) = g[P]
  <2> HIDE DEF Folds
  <2> QED BY <1>2, <1>8
<1>10. GoesOn(A, S, <<>>, w, F, g) /\ g[1 .. Len(w)] = ExtractQuery(q)
  <2>1. \A s \in SUBSET (1 .. Len(w)) : s # {} /\ g[s \ {Max(s)}] \in A =>
          g[s] = F[<<g[s \ {Max(s)}], w[Max(s)]>>]
    BY <1>1, <1>5, <1>6, <1>9
  <2>2. g[{}] = <<>> /\ g[1 .. Len(w)] = ExtractQuery(q)
    BY <1>1, <1>9
  <2> QED BY <1>1, <1>3, <2>1, <2>2 DEF GoesOn
<1>11. PICK h : Trace(A, <<>>, w, F, h) /\ h[Len(w)] = ExtractQuery(q)
  BY <1>10, FoldSteps
<1>12. ASSUME NEW i \in 1 .. Len(w)
       PROVE  h[i] = Assign(h[i - 1], KeyOf(w[i]), ValueOf(w[i]))
  <2>1. h[i - 1] \in A /\ w[i] \in S
    <3>1. i - 1 \in 0 .. Len(w) /\ w[i] \in S
      BY <1>1
    <3> QED BY <1>11, <3>1 DEF Trace
  <2>2. h[i] = Add(h[i - 1], w[i])
    BY <1>5, <1>11, <2>1 DEF Trace
  <2> QED BY <2>2 DEF Add
<1>13. h[0] = <<>> /\ ExtractQuery(q) \in A
  BY <1>1, <1>11 DEF Trace
<1>14. IsMap(ExtractQuery(q))
  <2>1. PICK D : ExtractQuery(q) \in [D -> V]
    BY <1>13 DEF A, MapsOf
  <2> HIDE DEF V
  <2> QED BY <2>1 DEF IsMap
<1>15. QueryRun(q, w, h)
  <2>1. \A i \in 1 .. Len(w) : [j \in DOMAIN w |-> KeyOf(w[j])][i] = KeyOf(w[i])
                            /\ [j \in DOMAIN w |-> ValueOf(w[j])][i] = ValueOf(w[i])
    BY <1>1
  <2> QED BY <1>11, <1>12, <1>13, <1>14, <2>1 DEF QueryRun, Assigned
<1> QED BY <1>w, <1>15

LEMMA PartOfPart ==
  ASSUME NEW S, NEW s \in Seq(S), NEW p \in 1 .. Len(s) + 1, NEW q \in p - 1 .. Len(s),
         NEW i \in 1 .. (q - p) + 2, NEW j \in Int, j <= (q - p) + 1
  PROVE  SubSeq(SubSeq(s, p, q), i, j) = SubSeq(s, (p + i) - 1, (p + j) - 1)
OBVIOUS

LEMMA SplitIs ==
  ASSUME NEW S, NEW q \in Seq(S), NEW p \in 1 .. Len(q)
  PROVE  /\ SplitAt(q, p) \in p .. StopAt(q, "&", p)
         /\ \A e \in p .. SplitAt(q, p) - 1 : q[e] # "="
         /\ SplitAt(q, p) # StopAt(q, "&", p) => q[SplitAt(q, p)] = "="
<1>1. PICK stop : stop = StopAt(q, "&", p)
  OBVIOUS
<1>2. stop \in p .. Len(q) + 1
  BY <1>1, StopIs
<1> DEFINE I == {e \in p .. stop - 1 : q[e] = "="} \cup {stop}
<1>3. I \in SUBSET Nat /\ stop \in I
  BY <1>2
<1>4. PICK n : n = Min(I)
  OBVIOUS
<1>5. n \in I /\ \A y \in I : n <= y
  <2> HIDE DEF I
  <2> QED BY <1>3, <1>4, Lowest
<1>6. SplitAt(q, p) = n
  BY <1>1, <1>4 DEF SplitAt
<1>7. n \in p .. stop /\ (n # stop => q[n] = "=")
  BY <1>2, <1>5
<1>8. ASSUME NEW e \in p .. n - 1 PROVE q[e] # "="
  <2>1. e \in p .. stop - 1 /\ ~(n <= e)
    BY <1>2, <1>7
  <2> QED BY <1>5, <2>1
<1> QED BY <1>1, <1>6, <1>7, <1>8

LEMMA WordIs ==
  ASSUME NEW S, NEW q \in Seq(S), NEW p \in 1 .. Len(q)
  PROVE  /\ KeyOf(SubSeq(q, p, StopAt(q, "&", p) - 1)) = KeyAt(q, p)
         /\ ValueOf(SubSeq(q, p, StopAt(q, "&", p) - 1)) = ValueAt(q, p)
<1>0. Len(q) \in Nat
  OBVIOUS
<1>1. PICK stop, split : stop = StopAt(q, "&", p) /\ split = SplitAt(q, p)
  OBVIOUS
<1>2. stop \in p .. Len(q) + 1
  BY <1>1, StopIs
<1>3. split \in p .. stop /\ (\A e \in p .. split - 1 : q[e] # "=") /\ (split # stop => q[split] = "=")
  BY <1>1, SplitIs
<1>4. PICK w : w = SubSeq(q, p, stop - 1)
  OBVIOUS
<1>5. w \in Seq(S) /\ Len(w) = stop - p /\ \A i \in 1 .. stop - p : w[i] = q[(p + i) - 1]
  BY <1>0, <1>2, <1>4
<1>6. PICK f : f = Find(w, "=", 1)
  OBVIOUS
<1>7. \/ f = 0 /\ \A e \in 1 .. Len(w) : w[e] # "="
      \/ /\ f \in 1 .. Len(w) /\ w[f] = "="
         /\ \A e \in 1 .. Len(w) : e < f => w[e] # "="
  <2>1. 1 \in 1 .. Len(w) + 1
    BY <1>5
  <2> QED BY <1>5, <1>6, <2>1, NextIs
<1>8. CASE split = stop
  <2>1. f = 0
    <3> SUFFICES ASSUME f # 0 PROVE FALSE
      OBVIOUS
    <3>1. f \in 1 .. stop - p /\ w[f] = "="
      BY <1>5, <1>7
    <3>2. (p + f) - 1 \in p .. split - 1 /\ w[f] = q[(p + f) - 1]
      BY <1>2, <1>5, <1>8, <3>1
    <3> QED BY <1>3, <3>1, <3>2
  <2>2. KeyOf(w) = SubSeq(w, 1, Len(w)) /\ ValueOf(w) = SubSeq(w, 1, Len(w) - 1)
    BY <1>6, <2>1 DEF KeyOf, ValueOf
  <2>3. SubSeq(w, 1, Len(w)) = w
    BY <1>5
  <2>4. SubSeq(w, 1, Len(w) - 1) = SubSeq(q, p, stop - 2)
    <3>1. /\ p \in 1 .. Len(q) + 1 /\ stop - 1 \in p - 1 .. Len(q)
          /\ 1 \in 1 .. ((stop - 1) - p) + 2 /\ Len(w) - 1 \in Int /\ Len(w) - 1 <= ((stop - 1) - p) + 1
      BY <1>0, <1>2, <1>5
    <3>2. SubSeq(w, 1, Len(w) - 1) = SubSeq(q, (p + 1) - 1, (p + (Len(w) - 1)) - 1)
      BY <1>4, <3>1, PartOfPart
    <3>3. (p + 1) - 1 = p /\ (p + (Len(w) - 1)) - 1 = stop - 2
      BY <1>2, <1>5
    <3> QED BY <3>2, <3>3
  <2> QED BY <1>1, <1>4, <1>8, <2>2, <2>3, <2>4 DEF KeyAt, ValueAt
<1>9. CASE split # stop
  <2>1. f = (split - p) + 1
    <3>1. (split - p) + 1 \in 1 .. stop - p /\ (p + ((split - p) + 1)) - 1 = split
      BY <1>2, <1>3, <1>9
    <3>2. w[(split - p) + 1] = "="
      BY <1>3, <1>5, <1>9, <3>1
    <3>3. f \in 1 .. stop - p /\ w[f] = "=" /\ f <= (split - p) + 1
      BY <1>5, <1>7, <3>1, <3>2
    <3>4. (p + f) - 1 \notin p .. split - 1
      BY <1>3, <1>5, <3>3
    <3> QED BY <1>2, <1>3, <3>3, <3>4
  <2>2. f # 0
    BY <1>3, <2>1
  <2>3. KeyOf(w) = SubSeq(w, 1, f - 1) /\ ValueOf(w) = SubSeq(w, f + 1, Len(w))
    BY <1>6, <2>2 DEF KeyOf, ValueOf
  <2>4. /\ p \in 1 .. Len(q) + 1 /\ stop - 1 \in p - 1 .. Len(q)
        /\ 1 \in 1 .. ((stop - 1) - p) + 2 /\ f - 1 \in Int /\ f - 1 <= ((stop - 1) - p) + 1
        /\ f + 1 \in 1 .. ((stop - 1) - p) + 2 /\ Len(w) \in Int /\ Len(w) <= ((stop - 1) - p) + 1
    BY <1>0, <1>2, <1>3, <1>5, <1>9, <2>1
  <2>5. SubSeq(w, 1, f - 1) = SubSeq(q, (p + 1) - 1, (p + (f - 1)) - 1)
    <3>1. PICK from, to, last : from = 1 /\ to = f - 1 /\ last = stop - 1
      OBVIOUS
    <3>2. /\ last \in p - 1 .. Len(q) /\ p \in 1 .. Len(q) + 1 /\ from \in 1 .. (last - p) + 2
          /\ to \in Int /\ to <= (last - p) + 1 /\ w = SubSeq(q, p, last)
      BY <1>4, <2>4, <3>1
    <3>3. SubSeq(w, from, to) = SubSeq(q, (p + from) - 1, (p + to) - 1)
      BY <3>2, PartOfPart
    <3> QED BY <3>1, <3>3
  <2>6. SubSeq(w, f + 1, Len(w)) = SubSeq(q, (p + (f + 1)) - 1, (p + Len(w)) - 1)
    BY <1>4, <2>4, PartOfPart
  <2>7. /\ (p + 1) - 1 = p /\ (p + (f - 1)) - 1 = split - 1
        /\ (p + (f + 1)) - 1 = split + 1 /\ (p + Len(w)) - 1 = stop - 1
    BY <1>2, <1>3, <1>5, <2>1
  <2> QED BY <1>1, <1>4, <1>9, <2>3, <2>5, <2>6, <2>7 DEF KeyAt, ValueAt
<1> QED BY <1>8, <1>9

\* Each key of the query has the value of the last pair with that key.
QueryWritten(q, m) ==
  LET starts == {p \in DOMAIN q : p = 1 \/ q[p - 1] = "&"} IN
  /\ {KeyAt(q, p) : p \in starts} = DOMAIN m
  /\ \A p \in starts : (\A r \in starts : r > p => KeyAt(q, r) # KeyAt(q, p)) => m[KeyAt(q, p)] = ValueAt(q, p)

LEMMA QueryIsWritten ==
  ASSUME NEW S, NEW q \in Seq(S)
  PROVE  QueryWritten(q, ExtractQuery(q)) /\ IsMap(ExtractQuery(q))
<1> DEFINE starts == {p \in DOMAIN q : p = 1 \/ q[p - 1] = "&"}
<1>0. Len(q) \in Nat /\ DOMAIN q = 1 .. Len(q)
  OBVIOUS
<1>1. PICK w : w = Pieces(q, "&")
  OBVIOUS
<1>2. PICK st : Lists(S, q, "&", 1, st, w)
  BY <1>1, PiecesListed
<1>3. /\ w \in Seq(Seq(S)) /\ st \in [1 .. Len(w) -> 1 .. Len(q)]
      /\ \A i, j \in 1 .. Len(w) : i < j => st[i] < st[j]
      /\ Starts(q, "&", 1) = {st[i] : i \in 1 .. Len(w)}
      /\ \A i \in 1 .. Len(w) : w[i] = SubSeq(q, st[i], StopAt(q, "&", st[i]) - 1)
  BY <1>2 DEF Lists
<1>4. PICK n : n = Len(w) /\ n \in Nat
  BY <1>3
<1>5. starts = {st[i] : i \in 1 .. n}
  <2>1. starts = Starts(q, "&", 1)
    BY <1>0 DEF Starts
  <2> QED BY <1>3, <1>4, <2>1
<1>6. PICK h : QueryRun(q, w, h)
  BY <1>1, <1>3, QueryRuns
<1> DEFINE keys == [i \in DOMAIN w |-> KeyOf(w[i])]
           vals == [i \in DOMAIN w |-> ValueOf(w[i])]
<1>7. PICK m : m = ExtractQuery(q)
  OBVIOUS
<1>8. LastStays(n, keys, vals, m)
  <2>1. Assigned(n, keys, vals, h) /\ h[n] = m
    BY <1>4, <1>6, <1>7 DEF QueryRun
  <2> HIDE DEF keys, vals
  <2> QED BY <1>4, <2>1, AllAssigned
<1>9. ASSUME NEW i \in 1 .. n PROVE keys[i] = KeyAt(q, st[i]) /\ vals[i] = ValueAt(q, st[i])
  <2>1. i \in 1 .. Len(w) /\ i \in DOMAIN w /\ st[i] \in 1 .. Len(q)
    BY <1>3, <1>4
  <2>2. keys[i] = KeyOf(w[i]) /\ vals[i] = ValueOf(w[i])
    BY <2>1
  <2>3. w[i] = SubSeq(q, st[i], StopAt(q, "&", st[i]) - 1)
    BY <1>3, <2>1
  <2> QED BY <2>1, <2>2, <2>3, WordIs
<1> HIDE DEF keys, vals, starts
<1>10. {KeyAt(q, p) : p \in starts} = DOMAIN m
  BY <1>5, <1>8, <1>9 DEF LastStays
<1>11. ASSUME NEW p \in starts, \A r \in starts : r > p => KeyAt(q, r) # KeyAt(q, p)
       PROVE  m[KeyAt(q, p)] = ValueAt(q, p)
  <2>1. PICK i \in 1 .. n : p = st[i]
    BY <1>5
  <2>2. ASSUME NEW j \in 1 .. n, j > i PROVE keys[j] # keys[i]
    <3>1. st[j] > st[i]
      <4>1. i < j /\ i \in 1 .. Len(w) /\ j \in 1 .. Len(w)
        BY <1>4, <2>2
      <4>2. st[i] < st[j]
        BY <1>3, <4>1
      <4>3. st[i] \in 1 .. Len(q) /\ st[j] \in 1 .. Len(q)
        BY <1>3, <4>1
      <4> QED BY <1>0, <4>2, <4>3
    <3>2. st[j] \in starts
      BY <1>5
    <3> QED BY <1>9, <1>11, <2>1, <3>1, <3>2
  <2>3. m[keys[i]] = vals[i]
    BY <1>8, <2>2 DEF LastStays
  <2> QED BY <1>9, <2>1, <2>3
<1>12. QueryWritten(q, m)
  BY <1>10, <1>11 DEF QueryWritten, starts
<1> QED BY <1>6, <1>7, <1>12 DEF QueryRun

\* The names in a resource path are a sequence.
LEMMA NamesAre ==
  ASSUME NEW resource \in Seq(STRING)
  PROVE  \E n \in Nat : DOMAIN ExtractPathParameters(resource) = 1 .. n
<1> DEFINE Char == STRING \cup {"/"}
           S == Seq(Char)
           A == Seq(S)
           text == Append(resource, "/")
           Add(params, word) == IF word # <<>> /\ word[1] = ":" THEN Append(params, Tail(word)) ELSE params
<1>w. PICK w : w = Pieces(text, "/")
  OBVIOUS
<1>1. w \in Seq(S)
  <2>1. text \in Seq(Char)
    <3>1. resource \in Seq(Char)
      OBVIOUS
    <3> QED BY <3>1, AppendProperties
  <2>2. PICK st : Lists(Char, text, "/", 1, st, w)
    <3> HIDE DEF text, Char
    <3> QED BY <1>w, <2>1, PiecesListed
  <2> QED BY <2>2 DEF Lists
<1> DEFINE P == DOMAIN w
           F == [p \in A \X S |-> Add(p[1], p[2])]
           Folds(g) == g = [s \in SUBSET P |-> IF s = {} THEN <<>> ELSE Add(g[s \ {Max(s)}], w[Max(s)])]
<1>2. P = 1 .. Len(w) /\ Len(w) \in Nat
  BY <1>1
<1>3. ExtractPathParameters(resource) = (CHOOSE g : Folds(g))[P]
  BY <1>w DEF ExtractPathParameters, FoldLeft, MapThenFoldSet
<1>4. F \in [A \X S -> A] /\ <<>> \in A
  <2>1. \A params \in A, word \in S : Add(params, word) \in A
    <3> SUFFICES ASSUME NEW params \in A, NEW word \in S PROVE Add(params, word) \in A
      OBVIOUS
    <3>1. word # <<>> => Tail(word) \in S
      <4> HIDE DEF Char
      <4> QED OBVIOUS
    <3>2. \A x \in S : Append(params, x) \in A
      <4> HIDE DEF S
      <4> QED OBVIOUS
    <3> QED BY <3>1, <3>2
  <2>2. <<>> \in A
    OBVIOUS
  <2> HIDE DEF A, S, Add
  <2> QED BY <2>1, <2>2
<1>5. \A params \in A, word \in S : F[<<params, word>>] = Add(params, word)
  <2> HIDE DEF A, S, Add
  <2> QED OBVIOUS
<1>6. \A s \in SUBSET P : s # {} => w[Max(s)] \in S
  <2> HIDE DEF S
  <2> QED BY <1>1, FoldElement
<1> HIDE DEF P, F, Add, S, A
<1>7. \E g : Folds(g)
  <2>1. PICK g \in [SUBSET P -> A] : Unfolds(g, <<>>, w, P, F)
    BY <1>1, <1>2, <1>4, FoldExists
  <2>2. \A s \in SUBSET P : g[s \ {Max(s)}] \in A
    BY <2>1
  <2>3. \A s \in SUBSET P : s # {} =>
          F[<<g[s \ {Max(s)}], w[Max(s)]>>] = Add(g[s \ {Max(s)}], w[Max(s)])
    BY <1>5, <1>6, <2>2
  <2>4. Folds(g)
    BY <2>1, <2>3 DEF Unfolds
  <2> QED BY <2>4
<1>8. Folds(CHOOSE g : Folds(g))
  BY <1>7, Zenon
<1>9. PICK g : Folds(g) /\ ExtractPathParameters(resource) = g[P]
  <2> HIDE DEF Folds
  <2> QED BY <1>3, <1>8
<1>10. GoesOn(A, S, <<>>, w, F, g) /\ g[1 .. Len(w)] = ExtractPathParameters(resource)
  <2>1. \A s \in SUBSET (1 .. Len(w)) : s # {} /\ g[s \ {Max(s)}] \in A =>
          g[s] = F[<<g[s \ {Max(s)}], w[Max(s)]>>]
    BY <1>2, <1>5, <1>6, <1>9
  <2>2. g[{}] = <<>> /\ g[1 .. Len(w)] = ExtractPathParameters(resource)
    BY <1>2, <1>9
  <2> QED BY <1>1, <1>4, <2>1, <2>2 DEF GoesOn
<1>11. PICK h : Trace(A, <<>>, w, F, h) /\ h[Len(w)] = ExtractPathParameters(resource)
  BY <1>10, FoldSteps
<1>12. ExtractPathParameters(resource) \in A
  BY <1>2, <1>11 DEF Trace
<1>13. Len(ExtractPathParameters(resource)) \in Nat
       /\ DOMAIN ExtractPathParameters(resource) = 1 .. Len(ExtractPathParameters(resource))
  BY <1>12 DEF A
<1> QED BY <1>13

\* Each name of the path has the value of its last occurrence.
LEMMA PathIsWritten ==
  ASSUME NEW resource, NEW values, NEW n \in Nat, DOMAIN ExtractPathParameters(resource) = 1 .. n
  PROVE  /\ LastStays(n, ExtractPathParameters(resource), values, PathOf(resource, values))
         /\ IsMap(PathOf(resource, values))
<1>0. PICK names : names = ExtractPathParameters(resource)
  OBVIOUS
<1> DEFINE S == 1 .. n
           w == [k \in DOMAIN names |-> k]
           K == {names[k] : k \in S}
           V == {values[k] : k \in S}
           A == MapsOf(K, V)
           P == DOMAIN w
           Put(data, k) == Assign(data, names[k], values[k])
           F == [p \in A \X S |-> Put(p[1], p[2])]
           Folds(g) == g = [s \in SUBSET P |-> IF s = {} THEN <<>> ELSE Put(g[s \ {Max(s)}], w[Max(s)])]
<1>1. P = 1 .. Len(w) /\ Len(w) = n /\ w \in Seq(S) /\ \A i \in 1 .. n : w[i] = i
  <2>1. w = [k \in 1 .. n |-> k]
    BY <1>0
  <2>2. w \in [1 .. n -> S]
    BY <2>1
  <2> HIDE DEF w
  <2> QED BY <2>1, <2>2
<1>2. PathOf(resource, values) = (CHOOSE g : Folds(g))[P]
  BY <1>0 DEF PathOf, FoldLeft, MapThenFoldSet
<1> HIDE DEF w
<1>3. F \in [A \X S -> A] /\ <<>> \in A
  <2>1. \A data \in A, k \in S : Put(data, k) \in A
    <3> SUFFICES ASSUME NEW data \in A, NEW k \in S PROVE Put(data, k) \in A
      OBVIOUS
    <3>1. names[k] \in K /\ values[k] \in V
      OBVIOUS
    <3> HIDE DEF K, V
    <3> QED BY <3>1, MapsAssign
  <2>2. <<>> \in A
    BY NoMap
  <2> HIDE DEF A, Put, S
  <2> QED BY <2>1, <2>2
<1>5. \A data \in A, k \in S : F[<<data, k>>] = Put(data, k)
  <2> HIDE DEF A, Put, S
  <2> QED OBVIOUS
<1>6. \A s \in SUBSET P : s # {} => w[Max(s)] \in S
  <2> HIDE DEF S
  <2> QED BY <1>1, FoldElement
<1> HIDE DEF P, F, A, Put
<1>7. \E g : Folds(g)
  <2> HIDE DEF S
  <2>1. PICK g \in [SUBSET P -> A] : Unfolds(g, <<>>, w, P, F)
    BY <1>1, <1>3, FoldExists
  <2>2. \A s \in SUBSET P : g[s \ {Max(s)}] \in A
    BY <2>1
  <2>3. \A s \in SUBSET P : s # {} =>
          F[<<g[s \ {Max(s)}], w[Max(s)]>>] = Put(g[s \ {Max(s)}], w[Max(s)])
    BY <1>5, <1>6, <2>2
  <2>4. Folds(g)
    BY <2>1, <2>3 DEF Unfolds
  <2> QED BY <2>4
<1>8. Folds(CHOOSE g : Folds(g))
  BY <1>7, Zenon
<1>9. PICK g : Folds(g) /\ PathOf(resource, values) = g[P]
  <2> HIDE DEF Folds
  <2> QED BY <1>2, <1>8
<1>10. GoesOn(A, S, <<>>, w, F, g) /\ g[1 .. Len(w)] = PathOf(resource, values)
  <2> HIDE DEF S
  <2>0. \A s \in SUBSET P : s # {} => g[s] = Put(g[s \ {Max(s)}], w[Max(s)])
    BY <1>9
  <2>1. \A s \in SUBSET (1 .. Len(w)) : s # {} /\ g[s \ {Max(s)}] \in A =>
          g[s] = F[<<g[s \ {Max(s)}], w[Max(s)]>>]
    <3> HIDE DEF Folds
    <3> QED BY <1>1, <1>5, <1>6, <2>0
  <2>2. g[{}] = <<>> /\ g[1 .. Len(w)] = PathOf(resource, values)
    BY <1>1, <1>9
  <2> QED BY <1>1, <1>3, <2>1, <2>2 DEF GoesOn
<1>11. PICK h : Trace(A, <<>>, w, F, h) /\ h[Len(w)] = PathOf(resource, values)
  <2> HIDE DEF S
  <2> QED BY <1>10, FoldSteps
<1>12. ASSUME NEW i \in 1 .. n PROVE h[i] = Assign(h[i - 1], names[i], values[i])
  <2>1. h[i - 1] \in A /\ w[i] = i
    <3>1. i - 1 \in 0 .. Len(w)
      BY <1>1
    <3> QED BY <1>1, <1>11, <3>1 DEF Trace
  <2>2. h[i] = Put(h[i - 1], i)
    <3>1. h[i] = F[<<h[i - 1], w[i]>>]
      BY <1>1, <1>11 DEF Trace
    <3> QED BY <1>5, <2>1, <3>1
  <2> QED BY <2>2 DEF Put
<1>13. h[0] = <<>> /\ PathOf(resource, values) \in A
  BY <1>1, <1>11 DEF Trace
<1>14. IsMap(PathOf(resource, values))
  <2>1. PICK D : PathOf(resource, values) \in [D -> V]
    BY <1>13 DEF A, MapsOf
  <2> HIDE DEF V
  <2> QED BY <2>1 DEF IsMap
<1>15. LastStays(n, names, values, h[n])
  <2>1. Assigned(n, names, values, h)
    BY <1>12, <1>13 DEF Assigned
  <2> QED BY <2>1, AllAssigned
<1> QED BY <1>0, <1>1, <1>11, <1>14, <1>15

-----------------------------------------------------------------------------
(* Parameters are set on arrival, and no stage touches them.               *)

\* The two groups as the handler's functions fill them.
Parameters(c, r, typed) ==
  /\ typed["query_parameters"].fields = ExtractQuery(r.query)
  /\ typed["path_parameters"].fields = PathOf(c.resource, r.values)

ParametersKept == request.type = "HttpRequestMessage" => Parameters(config, request, message.typed)

\* A group of its own for the parameters.
Grouped(m, group, data, w) ==
  /\ Record(w)
  /\ DOMAIN w.typed = DOMAIN m.typed \cup {group}
  /\ w.typed[group].fields = data
  /\ \A g \in DOMAIN m.typed : w.typed[g] = m.typed[g]

LEMMA ParametersGrouped ==
  ASSUME NEW m, Record(m), NEW group, group \notin DOMAIN m.typed, NEW data, IsMap(data)
  PROVE  Grouped(m, group, data, WithParameters(m, group, data))
<1> DEFINE c == CreateTypedGroup(m, "string", group)
           T == Assign(m.typed, group, [type |-> "string", fields |-> <<>>])
<1>1. c = [m EXCEPT !.typed = T]
  BY DEF CreateTypedGroup
<1>2. c.typed = T /\ Record(c)
  <2> HIDE DEF T, c
  <2> QED BY <1>1 DEF Record
<1>3. /\ DOMAIN T = DOMAIN m.typed \cup {group}
      /\ T[group] = [type |-> "string", fields |-> <<>>]
      /\ \A g \in DOMAIN m.typed : T[g] = m.typed[g]
  BY DEF Assign
<1>4. AssignAll(T[group].fields, data) = data
  <2>1. T[group].fields = <<>> /\ DOMAIN <<>> = {}
    BY <1>3
  <2>2. AssignAll(<<>>, data) = [k \in DOMAIN data |-> data[k]]
    BY <2>1 DEF AssignAll
  <2> QED BY <2>1, <2>2 DEF IsMap
<1>5. PICK w : w = WithParameters(m, group, data)
  OBVIOUS
<1>6. w = [c EXCEPT !.typed[group].fields = AssignAll(@, data)]
  BY <1>5 DEF WithParameters
<1> HIDE DEF c, T
<1>7. Record(w) /\ w.typed = [T EXCEPT ![group].fields = AssignAll(@, data)]
  BY <1>2, <1>6 DEF Record
<1>8. /\ DOMAIN w.typed = DOMAIN T
      /\ w.typed[group] = [T[group] EXCEPT !.fields = AssignAll(T[group].fields, data)]
      /\ \A g \in DOMAIN T : g # group => w.typed[g] = T[g]
  BY <1>3, <1>7
<1>9. w.typed[group].fields = data
  BY <1>3, <1>4, <1>8
<1>10. Grouped(m, group, data, w)
  BY <1>3, <1>7, <1>8, <1>9 DEF Grouped
<1> QED BY <1>5, <1>10

LEMMA HandlerGroups ==
  ASSUME NEW c \in Configs, c = config, NEW r, r.query \in Seq(STRING)
  PROVE  Parameters(c, r, HandlerMessage(r).typed)
<1>1. PICK v, d : v = ExtractQuery(r.query) /\ d = PathOf(c.resource, r.values)
  OBVIOUS
<1>2. IsMap(v)
  BY <1>1, QueryIsWritten
<1>3. IsMap(d)
  <2>1. c.resource \in Seq(STRING)
    BY ConfigAssumption DEF IsPipeline
  <2>2. PICK n \in Nat : DOMAIN ExtractPathParameters(c.resource) = 1 .. n
    BY <2>1, NamesAre
  <2> QED BY <1>1, <2>2, PathIsWritten
<1>4. PICK w : w = WithCredentials(r)
  OBVIOUS
<1>5. Record(w) /\ DOMAIN w.typed = {}
  <2>1. w = [type |-> r.type, fields |-> Assign(<<>>, <<"http_info", "access_token">>, Str(r.text)), typed |-> <<>>]
    BY <1>4 DEF WithCredentials, SetField, Message
  <2>2. DOMAIN <<>> = {}
    OBVIOUS
  <2> QED BY <2>1, <2>2 DEF Record
<1>6. PICK y : y = WithParameters(w, "query_parameters", v)
  OBVIOUS
<1>7. Grouped(w, "query_parameters", v, y)
  BY <1>2, <1>5, <1>6, ParametersGrouped
<1>8. PICK z : z = WithParameters(y, "path_parameters", d)
  OBVIOUS
<1>9. Grouped(y, "path_parameters", d, z)
  <2>1. Record(y) /\ "path_parameters" \notin DOMAIN y.typed
    BY <1>5, <1>7 DEF Grouped
  <2> QED BY <1>3, <1>8, <2>1, ParametersGrouped
<1>10. HandlerMessage(r) = z
  <2>1. HandlerMessage(r) = WithParameters(WithParameters(w, "query_parameters", v), "path_parameters", d)
    BY <1>1, <1>4 DEF HandlerMessage, PathOf, FoldLeft, MapThenFoldSet
  <2> QED BY <1>6, <1>8, <2>1
<1>11. z.typed["query_parameters"] = y.typed["query_parameters"] /\ z.typed["path_parameters"].fields = d
  BY <1>7, <1>9 DEF Grouped
<1>12. y.typed["query_parameters"].fields = v
  BY <1>7 DEF Grouped
<1>13. Parameters(c, r, z.typed)
  BY <1>1, <1>11, <1>12 DEF Parameters
<1> QED BY <1>10, <1>13

LEMMA ArriveKeeps ==
  ASSUME PipelineInv, Arrive
  PROVE  ParametersKept'
<1>1. config' = config /\ request' \in Requests /\ config \in Configs
  BY DEF Arrive, PipelineInv
<1>2. PICK r, m, c : r = request' /\ m = message' /\ c = config
  OBVIOUS
<1>3. r.type = "HttpRequestMessage" => m = HandlerMessage(r)
  BY <1>2 DEF Arrive, DynamicTypes
<1>4. r.query \in Seq(STRING)
  BY <1>1, <1>2, RequestAssumption
<1>5. r.type = "HttpRequestMessage" => Parameters(c, r, m.typed)
  BY <1>1, <1>2, <1>3, <1>4, HandlerGroups
<1> QED BY <1>1, <1>2, <1>5 DEF ParametersKept

\* No stage touches a typed group.
LEMMA GroupsStay ==
  ASSUME PipelineInv, Route \/ Augment \/ Broadcast \/ Decode \/ Validate \/ UNCHANGED vars
  PROVE  config' = config /\ request' = request /\ message'.typed = message.typed
<1>1. CASE Route
  BY <1>1 DEF Route
<1>2. CASE Augment
  <2>1. PICK D : \E end \in Outcomes(D, message.type, message.typed) : message' = end.message
    BY <1>2, AugmentDoes
  <2>2. message' \in Messages(D, message.type, message.typed)
    BY <2>1 DEF Outcomes
  <2>3. message'.typed = message.typed
    BY <2>2 DEF Messages
  <2> QED BY <1>2, <2>3 DEF Augment
<1>3. CASE Broadcast
  BY <1>3 DEF Broadcast
<1>4. CASE Decode
  <2>1. Underway /\ AtOutputs
    BY <1>4, WhereCalled DEF Decode, Calling
  <2>2. Record(message) /\ Carries(message)
    BY <2>1 DEF Underway, AtOutputs
  <2>3. PICK o \in DecoderOutcomes(message, "token") : message' = o.message
    BY <1>4 DEF Decode
  <2>4. Adds1(message, DecoderGroup, o.message)
    BY <2>2, DecodeDoes DEF DecoderTells
  <2> QED BY <1>4, <2>3, <2>4 DEF Decode, Adds1
<1>5. CASE Validate
  <2>1. Underway /\ AtOutputs /\ config \in Configs
    BY <1>5, WhereCalled DEF Validate, Calling, PipelineInv
  <2>2. Record(message) /\ Carries(message) /\ config.key_loads \in BOOLEAN
    BY <2>1, ConfigAssumption DEF Underway, AtOutputs, IsPipeline
  <2>3. PICK o \in ValidationOutcomes(message, <<"auth", "token">>, config.group, config.key_loads) :
           message' = o.message
    BY <1>5 DEF Validate
  <2>4. o.message = message \/ Adds1(message, config.group, o.message)
    BY <2>2, ValidateDoes DEF ValidationTells
  <2> QED BY <1>5, <2>3, <2>4 DEF Validate, Adds1
<1>6. CASE UNCHANGED vars
  BY <1>6 DEF vars
<1> QED BY <1>1, <1>2, <1>3, <1>4, <1>5, <1>6

\* The body of ParametersAsWritten, for a query, names and values.
ParametersAre(q, names, values) ==
  LET starts == {p \in DOMAIN q : p = 1 \/ q[p - 1] = "&"}
  IN
  /\ {KeyAt(q, p) : p \in starts} = {d[1] : d \in GetTypedGroup(message, "query_parameters")}
  /\ \A p \in starts : (\A r \in starts : r > p => KeyAt(q, r) # KeyAt(q, p)) =>
       GetTypedField(message, "query_parameters", KeyAt(q, p)) = ValueAt(q, p)
  /\ \A k \in DOMAIN names : (\A l \in k + 1 .. Len(names) : names[l] # names[k]) =>
       GetTypedField(message, "path_parameters", names[k]) = values[k]

LEMMA KeptAsWritten ==
  ASSUME PipelineInv, ParametersKept
  PROVE  ParametersAsWritten
<1> SUFFICES ASSUME request.type = "HttpRequestMessage" PROVE ParametersAsWritten
  BY DEF ParametersAsWritten
<1>1. config \in Configs /\ request \in Requests
  BY DEF PipelineInv, Waiting, Underway, Nothing
<1>2. PICK q, values, names, data, path :
        /\ q = request.query /\ values = request.values /\ names = ExtractPathParameters(config.resource)
        /\ data = message.typed["query_parameters"].fields /\ path = message.typed["path_parameters"].fields
  OBVIOUS
<1>3. q \in Seq(STRING) /\ config.resource \in Seq(STRING)
  BY <1>1, <1>2, RequestAssumption, ConfigAssumption DEF IsPipeline
<1>4. data = ExtractQuery(q) /\ path = PathOf(config.resource, values)
  BY <1>2 DEF ParametersKept, Parameters
<1>5. QueryWritten(q, data)
  BY <1>3, <1>4, QueryIsWritten
<1>6. PICK n \in Nat : DOMAIN names = 1 .. n
  BY <1>2, <1>3, NamesAre
<1>7. LastStays(n, names, values, path)
  BY <1>2, <1>4, <1>6, PathIsWritten
<1> DEFINE starts == {p \in DOMAIN q : p = 1 \/ q[p - 1] = "&"}
<1>8. {KeyAt(q, p) : p \in starts} = {d[1] : d \in GetTypedGroup(message, "query_parameters")}
  <2>1. DOMAIN data = {d[1] : d \in GetTypedGroup(message, "query_parameters")}
    <3>1. PICK group : group = GetTypedGroup(message, "query_parameters")
      OBVIOUS
    <3>2. group = {<<f, data[f]>> : f \in DOMAIN data}
      BY <1>2, <3>1 DEF GetTypedGroup, GetTypedField
    <3>3. ASSUME NEW f \in DOMAIN data PROVE f \in {d[1] : d \in group}
      <4>1. <<f, data[f]>> \in group /\ <<f, data[f]>>[1] = f
        BY <3>2
      <4> QED BY <4>1
    <3>4. ASSUME NEW d \in group PROVE d[1] \in DOMAIN data
      BY <3>2
    <3>5. DOMAIN data = {d[1] : d \in group}
      BY <3>3, <3>4
    <3> QED BY <3>1, <3>5
  <2> QED BY <1>5, <2>1 DEF QueryWritten
<1>9. \A p \in starts : (\A r \in starts : r > p => KeyAt(q, r) # KeyAt(q, p)) =>
        GetTypedField(message, "query_parameters", KeyAt(q, p)) = ValueAt(q, p)
  BY <1>2, <1>5 DEF QueryWritten, GetTypedField
<1>10. \A k \in DOMAIN names : (\A l \in k + 1 .. Len(names) : names[l] # names[k]) =>
         GetTypedField(message, "path_parameters", names[k]) = values[k]
  <2> SUFFICES ASSUME NEW k \in 1 .. n, \A l \in k + 1 .. Len(names) : names[l] # names[k]
               PROVE  path[names[k]] = values[k]
    BY <1>2, <1>6 DEF GetTypedField
  <2>1. Len(names) = n
    BY <1>6
  <2>2. \A l \in 1 .. n : l > k => names[l] # names[k]
    BY <2>1
  <2> QED BY <1>7, <2>2 DEF LastStays
<1>11. ParametersAre(q, names, values)
  BY <1>8, <1>9, <1>10 DEF ParametersAre
<1>12. ParametersAre(request.query, ExtractPathParameters(config.resource), request.values)
  BY <1>2, <1>11
<1> QED BY <1>12, Zenon DEF ParametersAre, ParametersAsWritten

\* The parameters a request names, each with its last value, are those its
\* message has, through all stages; whatever the query and the path.
THEOREM ParametersAsWrittenHolds == Spec => []ParametersAsWritten
<1>1. Init => ParametersKept
  BY DEF Init, ParametersKept, Nothing
<1>2. PipelineInv /\ ParametersKept /\ [Next]_vars => ParametersKept'
  <2> SUFFICES ASSUME PipelineInv, ParametersKept, [Next]_vars PROVE ParametersKept'
    OBVIOUS
  <2>1. CASE Arrive
    BY <2>1, ArriveKeeps
  <2>2. CASE Route \/ Augment \/ Broadcast \/ Decode \/ Validate \/ UNCHANGED vars
    BY <2>2, GroupsStay DEF ParametersKept
  <2> QED BY <2>1, <2>2 DEF Next
<1>3. PipelineInv /\ ParametersKept => ParametersAsWritten
  BY KeptAsWritten
<1> QED BY <1>1, <1>2, <1>3, PipelineInvHolds, PTL DEF Spec
================================================================================
