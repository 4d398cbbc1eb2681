-------------------------------- MODULE Folding --------------------------------
(***************************************************************************)
(* Induction over numbers, and what it says of the folds of the community  *)
(* modules and of functions that call themselves: that they exist, and     *)
(* which steps they take.                                                  *)
(***************************************************************************)
EXTENDS SequencesExt, SequenceTheorems, WellFoundedInduction, TLAPS

\* Induction, for sets of numbers.
LEMMA Counting ==
  ASSUME NEW G, 0 \in G, \A n \in Nat : n \in G => n + 1 \in G
  PROVE  \A n \in Nat : n \in G
<1> SUFFICES ASSUME NEW n \in Nat, n \notin G PROVE FALSE
  OBVIOUS
<1> DEFINE T == {k \in Nat : k \notin G}
           R == OpToRel(<, Nat)
<1>1. IsWellFoundedOn(R, Nat)
  BY NatLessThanWellFounded
<1>2. T \subseteq Nat /\ T # {}
  OBVIOUS
<1>3. PICK x \in T : \A y \in T : <<y, x>> \notin R
  <2> HIDE DEF T, R
  <2> QED BY <1>1, <1>2, WFMin, Zenon
<1>a. x \in Nat /\ x \notin G
  OBVIOUS
<1>b. x # 0
  BY <1>a
<1>4. x - 1 \in Nat /\ x - 1 < x
  BY <1>a, <1>b
<1>5. x - 1 \notin T
  BY <1>3, <1>4 DEF OpToRel
<1>6. x - 1 \in G
  BY <1>4, <1>5
<1>7. x \in G
  BY <1>4, <1>6
<1> QED BY <1>3, <1>7

\* What sets of positions have.
LEMMA Highest ==
  \A n \in Nat : \A s \in SUBSET (1 .. n) :
    s # {} => Max(s) \in s /\ \A y \in s : y <= Max(s)
<1> DEFINE G == {n \in Nat : \A s \in SUBSET (1 .. n) : s # {} => \E x \in s : \A y \in s : y <= x}
<1>1. 0 \in G
  <2>1. 1 .. 0 = {}
    OBVIOUS
  <2> QED BY <2>1
<1>2. ASSUME NEW n \in Nat, n \in G PROVE n + 1 \in G
  <2> SUFFICES ASSUME NEW s \in SUBSET (1 .. n + 1), s # {} PROVE \E x \in s : \A y \in s : y <= x
    OBVIOUS
  <2>1. CASE n + 1 \in s
    BY <2>1
  <2>2. CASE n + 1 \notin s
    <3>1. s \in SUBSET (1 .. n)
      BY <2>2
    <3> QED BY <1>2, <3>1
  <2> QED BY <2>1, <2>2
<1>3. \A n \in Nat : n \in G
  <2> HIDE DEF G
  <2> QED BY <1>1, <1>2, Counting
<1> SUFFICES ASSUME NEW n \in Nat, NEW s \in SUBSET (1 .. n), s # {}
             PROVE  Max(s) \in s /\ \A y \in s : y <= Max(s)
  OBVIOUS
<1>4. \E x \in s : \A y \in s : x >= y
  BY <1>3
<1> QED BY <1>4 DEF Max

LEMMA Lowest ==
  \A s \in SUBSET Nat : s # {} => Min(s) \in s /\ \A y \in s : Min(s) <= y
<1> SUFFICES ASSUME NEW s \in SUBSET Nat, s # {} PROVE \E x \in s : \A y \in s : x <= y
  BY DEF Min
<1> SUFFICES ASSUME \A x \in s : \E y \in s : ~(x <= y) PROVE FALSE
  OBVIOUS
<1> DEFINE G == {i \in Nat : \A x \in s : i <= x}
<1>1. 0 \in G
  OBVIOUS
<1>2. ASSUME NEW i \in Nat, i \in G PROVE i + 1 \in G
  BY <1>2
<1>3. \A i \in Nat : i \in G
  <2> HIDE DEF G
  <2> QED BY <1>1, <1>2, Counting
<1>4. PICK x \in s : TRUE
  OBVIOUS
<1>5. x + 1 \in G /\ x \in Nat
  BY <1>3
<1> QED BY <1>5

\* One step of a fold at position i.
Unfolds(g, base, seq, D, F) ==
  g = [s \in SUBSET D |-> IF s = {} THEN base ELSE F[<<g[s \ {Max(s)}], seq[Max(s)]>>]]

LEMMA FoldExists ==
  ASSUME NEW A, NEW B, NEW base \in A, NEW seq \in Seq(B), NEW F \in [A \X B -> A]
  PROVE  \E g \in [SUBSET (1 .. Len(seq)) -> A] : Unfolds(g, base, seq, 1 .. Len(seq), F)
<1> DEFINE P(n) == \E g \in [SUBSET (1 .. n) -> A] : Unfolds(g, base, seq, 1 .. n, F)
           G == {n \in Nat : n <= Len(seq) => P(n)}
<1>1. P(0)
  <2> DEFINE g == [s \in SUBSET (1 .. 0) |-> base]
  <2>1. \A s \in SUBSET (1 .. 0) : s = {}
    OBVIOUS
  <2>2. g \in [SUBSET (1 .. 0) -> A] /\ Unfolds(g, base, seq, 1 .. 0, F)
    BY <2>1 DEF Unfolds
  <2> QED BY <2>2
<1>2. ASSUME NEW n \in Nat, n + 1 <= Len(seq), P(n) PROVE P(n + 1)
  <2>1. PICK g \in [SUBSET (1 .. n) -> A] : Unfolds(g, base, seq, 1 .. n, F)
    BY <1>2
  <2> DEFINE h == [s \in SUBSET (1 .. n + 1) |->
                     IF n + 1 \in s THEN F[<<g[s \ {n + 1}], seq[n + 1]>>] ELSE g[s]]
  <2>2. seq[n + 1] \in B
    <3>1. n + 1 \in 1 .. Len(seq)
      BY <1>2
    <3> QED BY <3>1
  <2>3. ASSUME NEW s \in SUBSET (1 .. n + 1)
        PROVE  /\ h[s] \in A
               /\ h[s] = IF s = {} THEN base ELSE F[<<h[s \ {Max(s)}], seq[Max(s)]>>]
    <3>1. CASE n + 1 \in s
      <4>1. Max(s) = n + 1
        <5>1. n + 1 \in Nat /\ s # {}
          BY <3>1
        <5>2. Max(s) \in s /\ n + 1 <= Max(s)
          BY <3>1, <5>1, Highest
        <5>3. Max(s) \in 1 .. n + 1
          BY <5>2
        <5> QED BY <5>2, <5>3
      <4>2. s \ {n + 1} \in SUBSET (1 .. n) /\ s \ {n + 1} \in SUBSET (1 .. n + 1)
        OBVIOUS
      <4>3. h[s \ {n + 1}] = g[s \ {n + 1}] /\ g[s \ {n + 1}] \in A
        BY <2>1, <4>2
      <4>4. h[s] = F[<<g[s \ {n + 1}], seq[n + 1]>>]
        BY <3>1
      <4>5. <<g[s \ {n + 1}], seq[n + 1]>> \in A \X B
        BY <2>2, <4>3
      <4> QED BY <3>1, <4>1, <4>3, <4>4, <4>5
    <3>2. CASE n + 1 \notin s
      <4>1. s \in SUBSET (1 .. n)
        BY <3>2
      <4>2. h[s] = g[s] /\ g[s] \in A
        BY <2>1, <3>2, <4>1
      <4>3. g[s] = IF s = {} THEN base ELSE F[<<g[s \ {Max(s)}], seq[Max(s)]>>]
        BY <2>1, <4>1 DEF Unfolds
      <4>4. s \ {Max(s)} \in SUBSET (1 .. n) /\ s \ {Max(s)} \in SUBSET (1 .. n + 1)
            /\ n + 1 \notin s \ {Max(s)}
        BY <3>2, <4>1
      <4>5. h[s \ {Max(s)}] = g[s \ {Max(s)}]
        BY <4>4
      <4> QED BY <4>2, <4>3, <4>5
    <3> QED BY <3>1, <3>2
  <2>4. h \in [SUBSET (1 .. n + 1) -> A]
    BY <2>3
  <2>5. h = [s \in SUBSET (1 .. n + 1) |-> IF s = {} THEN base ELSE F[<<h[s \ {Max(s)}], seq[Max(s)]>>]]
    BY <2>3
  <2>6. Unfolds(h, base, seq, 1 .. n + 1, F)
    BY <2>5 DEF Unfolds
  <2> QED BY <2>4, <2>6
<1> HIDE DEF P
<1>3. 0 \in G
  BY <1>1
<1>4. \A n \in Nat : n \in G => n + 1 \in G
  BY <1>2
<1>5. \A n \in Nat : n \in G
  <2> HIDE DEF G
  <2> QED BY <1>3, <1>4, Counting
<1>6. Len(seq) \in Nat /\ P(Len(seq))
  BY <1>5
<1> QED BY <1>6 DEF P

\* As long as its values are in A, g goes on as F does; so does the trace h,
\* from position to position.
GoesOn(A, B, base, seq, F, g) ==
  /\ base \in A /\ seq \in Seq(B) /\ F \in [A \X B -> A]
  /\ g[{}] = base
  /\ \A s \in SUBSET (1 .. Len(seq)) :
       s # {} /\ g[s \ {Max(s)}] \in A => g[s] = F[<<g[s \ {Max(s)}], seq[Max(s)]>>]

Trace(A, base, seq, F, h) ==
  /\ h \in [0 .. Len(seq) -> A]
  /\ h[0] = base
  /\ \A i \in 1 .. Len(seq) : h[i] = F[<<h[i - 1], seq[i]>>]

LEMMA FoldSteps ==
  ASSUME NEW A, NEW B, NEW base, NEW seq, NEW F, NEW g, GoesOn(A, B, base, seq, F, g)
  PROVE  \E h : Trace(A, base, seq, F, h) /\ h[Len(seq)] = g[1 .. Len(seq)]
<1>0. base \in A /\ seq \in Seq(B) /\ F \in [A \X B -> A]
  BY DEF GoesOn
<1>1. ASSUME NEW i \in 1 .. Len(seq), g[1 .. (i - 1)] \in A
      PROVE  g[1 .. i] = F[<<g[1 .. (i - 1)], seq[i]>>]
  <2>1. 1 .. i \in SUBSET (1 .. Len(seq)) /\ 1 .. i \in SUBSET (1 .. i) /\ 1 .. i # {} /\ i \in Nat
    <3>1. i \in Nat /\ Len(seq) \in Nat /\ i <= Len(seq) /\ 1 <= i
      BY <1>0
    <3>2. \A j \in 1 .. i : j \in 1 .. Len(seq)
      BY <3>1
    <3>3. i \in 1 .. i
      BY <3>1
    <3> QED BY <3>1, <3>2, <3>3
  <2>2. Max(1 .. i) = i
    <3>1. \A s \in SUBSET (1 .. i) : s # {} => Max(s) \in s /\ \A y \in s : y <= Max(s)
      BY <2>1, Highest
    <3>2. Max(1 .. i) \in 1 .. i
      BY <2>1, <3>1
    <3>3. i \in 1 .. i
      BY <2>1
    <3>4. i <= Max(1 .. i)
      BY <2>1, <3>1, <3>3
    <3> QED BY <3>2, <3>4
  <2>3. (1 .. i) \ {i} = 1 .. (i - 1)
    OBVIOUS
  <2> QED BY <1>1, <2>1, <2>2, <2>3 DEF GoesOn
<1>2. g[1 .. 0] \in A /\ g[1 .. 0] = base
  <2>1. 1 .. 0 = {}
    OBVIOUS
  <2> QED BY <2>1 DEF GoesOn
<1> DEFINE G == {i \in Nat : i <= Len(seq) => g[1 .. i] \in A}
<1>3. 0 \in G
  BY <1>2
<1>4. ASSUME NEW i \in Nat, i \in G PROVE i + 1 \in G
  <2> SUFFICES ASSUME i + 1 <= Len(seq) PROVE g[1 .. (i + 1)] \in A
    OBVIOUS
  <2>1. i + 1 \in 1 .. Len(seq) /\ (i + 1) - 1 = i /\ g[1 .. i] \in A /\ seq[i + 1] \in B
    BY <1>0, <1>4
  <2>2. g[1 .. (i + 1)] = F[<<g[1 .. i], seq[i + 1]>>]
    BY <1>1, <2>1
  <2> QED BY <1>0, <2>1, <2>2
<1>5. \A i \in Nat : i \in G
  <2> HIDE DEF G
  <2> QED BY <1>3, <1>4, Counting
<1> DEFINE h == [i \in 0 .. Len(seq) |-> g[1 .. i]]
<1>6. h \in [0 .. Len(seq) -> A] /\ h[0] = base /\ h[Len(seq)] = g[1 .. Len(seq)]
  BY <1>0, <1>2, <1>5
<1>7. ASSUME NEW i \in 1 .. Len(seq) PROVE h[i] = F[<<h[i - 1], seq[i]>>]
  <2>1. i \in 0 .. Len(seq) /\ i - 1 \in 0 .. Len(seq) /\ i - 1 \in Nat /\ i - 1 <= Len(seq)
    BY <1>0
  <2>2. g[1 .. (i - 1)] \in A
    BY <1>5, <2>1
  <2> QED BY <1>1, <2>1, <2>2
<1> HIDE DEF h
<1> QED BY <1>6, <1>7 DEF Trace

\* The element a fold takes next.
LEMMA FoldElement ==
  ASSUME NEW B, NEW seq \in Seq(B)
  PROVE  \A s \in SUBSET DOMAIN seq : s # {} => Max(s) \in 1 .. Len(seq) /\ seq[Max(s)] \in B
<1> SUFFICES ASSUME NEW s \in SUBSET DOMAIN seq, s # {}
             PROVE  Max(s) \in 1 .. Len(seq) /\ seq[Max(s)] \in B
  OBVIOUS
<1>1. Len(seq) \in Nat /\ s \in SUBSET (1 .. Len(seq))
  OBVIOUS
<1>2. Max(s) \in s
  BY <1>1, Highest
<1>3. Max(s) \in 1 .. Len(seq)
  BY <1>1, <1>2
<1> QED BY <1>3

\* There is a trace for every fold.
LEMMA TraceExists ==
  ASSUME NEW A, NEW B, NEW base \in A, NEW seq \in Seq(B), NEW F \in [A \X B -> A]
  PROVE  \E h : Trace(A, base, seq, F, h)
<1>1. PICK g \in [SUBSET (1 .. Len(seq)) -> A] : Unfolds(g, base, seq, 1 .. Len(seq), F)
  BY FoldExists
<1>2. GoesOn(A, B, base, seq, F, g)
  BY <1>1 DEF Unfolds, GoesOn
<1> QED BY <1>2, FoldSteps

\* f[i] is the concatenation of the first i sequences.
Flattens(S, seqs, f) ==
  /\ f \in [1 .. Len(seqs) -> Seq(S)]
  /\ f[1] = seqs[1]
  /\ \A i \in 2 .. Len(seqs) : f[i] = f[i - 1] \o seqs[i]

LEMMA FlattenSteps ==
  ASSUME NEW S, NEW seqs \in Seq(Seq(S)), Len(seqs) # 0
  PROVE  \E f : Flattens(S, seqs, f) /\ FlattenSeq(seqs) = f[Len(seqs)]
<1> DEFINE A == Seq(S)
           n == Len(seqs)
           F == [p \in A \X A |-> p[1] \o p[2]]
           Flat(f) == f = [i \in 1 .. n |-> IF i = 1 THEN seqs[i] ELSE f[i - 1] \o seqs[i]]
<1>0. n \in Nat /\ n # 0 /\ 1 \in 1 .. n /\ \A i \in 1 .. n : seqs[i] \in A
  OBVIOUS
<1>1. F \in [A \X A -> A] /\ <<>> \in A
  OBVIOUS
<1>2. PICK h : Trace(A, <<>>, seqs, F, h)
  <2> HIDE DEF A, F
  <2> QED BY <1>1, TraceExists DEF A
<1>3. \A i \in 1 .. n : h[i] \in A /\ i - 1 \in 0 .. n /\ h[i - 1] \in A /\ h[i] = h[i - 1] \o seqs[i]
  <2> SUFFICES ASSUME NEW i \in 1 .. n
               PROVE  h[i] \in A /\ i - 1 \in 0 .. n /\ h[i - 1] \in A /\ h[i] = h[i - 1] \o seqs[i]
    OBVIOUS
  <2>1. i \in 0 .. n /\ i - 1 \in 0 .. n
    BY <1>0
  <2>2. h[i] \in A /\ h[i - 1] \in A /\ h[i] = F[<<h[i - 1], seqs[i]>>]
    BY <1>2, <2>1 DEF Trace
  <2>3. seqs[i] \in A
    BY <1>0
  <2> QED BY <2>1, <2>2, <2>3
<1>4. h[1] = seqs[1]
  <2>1. h[0] = <<>> /\ h[1] = h[0] \o seqs[1]
    <3>1. h[0] = <<>>
      BY <1>2 DEF Trace
    <3>2. 1 - 1 = 0
      OBVIOUS
    <3> QED BY <1>0, <1>3, <3>1, <3>2
  <2>2. seqs[1] \in Seq(S)
    BY <1>0
  <2> QED BY <2>1, <2>2, ConcatEmptySeq
<1> DEFINE k == [i \in 1 .. n |-> h[i]]
<1>5. Flat(k)
  <2> SUFFICES ASSUME NEW i \in 1 .. n PROVE h[i] = IF i = 1 THEN seqs[i] ELSE k[i - 1] \o seqs[i]
    OBVIOUS
  <2>1. CASE i = 1
    BY <1>4, <2>1
  <2>2. CASE i # 1
    <3>1. i - 1 \in 1 .. n
      BY <1>0, <2>2
    <3> QED BY <1>3, <2>2, <3>1
  <2> QED BY <2>1, <2>2
<1>6. Flat(CHOOSE f : Flat(f))
  <2>1. \E f : Flat(f)
    <3> HIDE DEF k, Flat
    <3> QED BY <1>5
  <2> QED BY <2>1, Zenon
<1>7. FlattenSeq(seqs) = (CHOOSE f : Flat(f))[n]
  BY <1>0 DEF FlattenSeq
<1>8. PICK f : Flat(f) /\ FlattenSeq(seqs) = f[n]
  <2> HIDE DEF Flat
  <2> QED BY <1>6, <1>7
<1>a. \A i \in 1 .. n : f[i] = IF i = 1 THEN seqs[i] ELSE f[i - 1] \o seqs[i]
  BY <1>8
<1>9. f[1] = seqs[1] /\ \A i \in 2 .. n : f[i] = f[i - 1] \o seqs[i]
  <2>1. f[1] = seqs[1]
    BY <1>0, <1>a
  <2>2. ASSUME NEW i \in 2 .. n PROVE f[i] = f[i - 1] \o seqs[i]
    <3>1. i \in 1 .. n /\ i # 1
      BY <1>0
    <3> QED BY <1>a, <3>1
  <2> QED BY <2>1, <2>2
<1>10. f \in [1 .. n -> A]
  <2> DEFINE G == {i \in Nat : i + 1 <= n => f[i + 1] \in A}
  <2>1. 0 \in G
    BY <1>0, <1>9
  <2>2. ASSUME NEW i \in Nat, i \in G PROVE i + 1 \in G
    <3> SUFFICES ASSUME (i + 1) + 1 <= n PROVE f[(i + 1) + 1] \in A
      OBVIOUS
    <3>1. i + 1 <= n /\ f[i + 1] \in A /\ (i + 1) + 1 \in 2 .. n /\ (i + 1) + 1 \in 1 .. n /\ ((i + 1) + 1) - 1 = i + 1
      BY <1>0, <2>2
    <3>2. f[(i + 1) + 1] = f[i + 1] \o seqs[(i + 1) + 1]
      BY <1>9, <3>1
    <3> QED BY <1>0, <3>1, <3>2
  <2>3. \A i \in Nat : i \in G
    <3> HIDE DEF G
    <3> QED BY <2>1, <2>2, Counting
  <2>4. ASSUME NEW i \in 1 .. n PROVE f[i] \in A
    <3>1. i - 1 \in Nat /\ (i - 1) + 1 = i /\ i <= n
      BY <1>0
    <3> QED BY <2>3, <3>1
  <2>5. \A i \in 1 .. n : f[i] \in A
    BY <2>4
  <2>6. f = [i \in 1 .. n |-> f[i]]
    BY <1>8
  <2> HIDE DEF A
  <2> QED BY <2>5, <2>6
<1> QED BY <1>8, <1>9, <1>10 DEF Flattens

Associates(s, t, u) == (s \o t) \o u = s \o (t \o u)

LEMMA Association == \A S : \A s, t, u \in Seq(S) : Associates(s, t, u)
BY ConcatAssociative DEF Associates

\* What grows from a prefix, sequence by sequence, is the prefix and all of them.
Grows(prefix, seqs, h) ==
  /\ h[0] = prefix
  /\ \A i \in 1 .. Len(seqs) : h[i] = h[i - 1] \o seqs[i]

LEMMA GrowsTo ==
  ASSUME NEW S, NEW seqs \in Seq(Seq(S)), NEW prefix \in Seq(S), NEW h, Grows(prefix, seqs, h)
  PROVE  h[Len(seqs)] = prefix \o FlattenSeq(seqs)
<1> DEFINE A == Seq(S)
           n == Len(seqs)
<1>0. n \in Nat /\ \A i \in 1 .. n : seqs[i] \in A
  OBVIOUS
<1>1. CASE n = 0
  <2>1. FlattenSeq(seqs) = <<>>
    BY <1>1 DEF FlattenSeq
  <2> QED BY <1>1, <2>1, ConcatEmptySeq DEF Grows
<1>2. CASE n # 0
  <2>1. PICK f : Flattens(S, seqs, f) /\ FlattenSeq(seqs) = f[n]
    BY <1>2, FlattenSteps
  <2>a. \A i \in 1 .. n : f[i] \in A
    BY <2>1 DEF Flattens
  <2> DEFINE G == {i \in Nat : i + 1 <= n => h[i + 1] = prefix \o f[i + 1]}
  <2>2. 0 \in G
    <3>1. 1 \in 1 .. n /\ 1 - 1 = 0
      BY <1>0, <1>2
    <3>2. h[1] = prefix \o seqs[1]
      BY <3>1 DEF Grows
    <3>3. f[1] = seqs[1]
      BY <2>1 DEF Flattens
    <3>4. 0 \in Nat /\ 0 + 1 = 1
      OBVIOUS
    <3> QED BY <3>2, <3>3, <3>4
  <2>3. ASSUME NEW i \in Nat, i \in G PROVE i + 1 \in G
    <3> SUFFICES ASSUME (i + 1) + 1 <= n PROVE h[(i + 1) + 1] = prefix \o f[(i + 1) + 1]
      OBVIOUS
    <3>1. i + 1 <= n /\ (i + 1) + 1 \in 1 .. n /\ (i + 1) + 1 \in 2 .. n /\ ((i + 1) + 1) - 1 = i + 1
          /\ i + 1 \in 1 .. n
      BY <1>0
    <3>2. h[(i + 1) + 1] = h[i + 1] \o seqs[(i + 1) + 1]
      BY <3>1 DEF Grows
    <3>3. f[(i + 1) + 1] = f[i + 1] \o seqs[(i + 1) + 1]
      BY <2>1, <3>1 DEF Flattens
    <3>4. h[i + 1] = prefix \o f[i + 1]
      BY <2>3, <3>1
    <3>5. seqs[(i + 1) + 1] \in Seq(S) /\ f[i + 1] \in Seq(S)
      BY <1>0, <2>a, <3>1
    <3>6. (prefix \o f[i + 1]) \o seqs[(i + 1) + 1] = prefix \o (f[i + 1] \o seqs[(i + 1) + 1])
      <4>1. Associates(prefix, f[i + 1], seqs[(i + 1) + 1])
        BY <3>5, Association, Zenon
      <4> QED BY <4>1, Zenon DEF Associates
    <3> QED BY <3>2, <3>3, <3>4, <3>6
  <2>4. \A i \in Nat : i \in G
    <3> HIDE DEF G
    <3> QED BY <2>2, <2>3, Counting
  <2>5. n - 1 \in Nat /\ (n - 1) + 1 = n /\ n <= n
    BY <1>0, <1>2
  <2>6. h[n] = prefix \o f[n]
    <3>1. n - 1 \in G
      BY <2>4, <2>5
    <3>2. h[(n - 1) + 1] = prefix \o f[(n - 1) + 1]
      BY <2>5, <3>1
    <3> QED BY <2>5, <3>2
  <2> QED BY <2>1, <2>6
<1> QED BY <1>1, <1>2
================================================================================
