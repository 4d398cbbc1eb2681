-------------------------- MODULE Throttling_proofs --------------------------
(***************************************************************************)
(* Theorems about throttling, for any ids, messages and configuration.     *)
(***************************************************************************)
EXTENDS Throttling, Folding, FiniteSetTheorems

-----------------------------------------------------------------------------
(* The binary search.                                                      *)

Sorted(log) == \A i, j \in 1 .. Len(log) : i <= j => log[i] <= log[j]

\* g searches up to m positions of a log of length n.
Halves(g, m, log, n, value) ==
  g = [len \in 0 .. m |->
         [first \in 1 .. n + 1 - len |->
            IF len = 0 THEN first
            ELSE LET half == len \div 2
                 IN IF log[first + half] < value
                      THEN g[len - half - 1][first + half + 1]
                      ELSE g[half][first]]]

LEMMA Half ==
  ASSUME NEW len \in Nat \ {0}
  PROVE  len \div 2 \in Nat /\ len \div 2 < len /\ len - (len \div 2) - 1 \in 0 .. len - 1
OBVIOUS

LEMMA SearchExists ==
  ASSUME NEW log, NEW n \in Nat, NEW value
  PROVE  \E g : Halves(g, n, log, n, value)
<1> DEFINE P(m) == \E g : Halves(g, m, log, n, value)
           G == {m \in Nat : m <= n => P(m)}
<1>1. P(0)
  <2> DEFINE g == [len \in 0 .. 0 |-> [first \in 1 .. n + 1 - len |-> first]]
  <2>1. Halves(g, 0, log, n, value)
    BY DEF Halves
  <2> QED BY <2>1
<1>2. ASSUME NEW m \in Nat, m + 1 <= n, P(m) PROVE P(m + 1)
  <2>1. PICK g : Halves(g, m, log, n, value)
    BY <1>2
  <2> DEFINE Row(len, h) ==
               [first \in 1 .. n + 1 - len |->
                  IF len = 0 THEN first
                  ELSE LET half == len \div 2
                       IN IF log[first + half] < value
                            THEN h[len - half - 1][first + half + 1]
                            ELSE h[half][first]]
             h == [len \in 0 .. m + 1 |-> IF len = m + 1 THEN Row(len, g) ELSE g[len]]
  <2>2. \A len \in 0 .. m : h[len] = g[len]
    OBVIOUS
  <2>3. \A len \in 0 .. m : g[len] = Row(len, g)
    BY <2>1 DEF Halves
  <2>4. ASSUME NEW len \in 0 .. m + 1 PROVE h[len] = Row(len, h)
    <3>1. h[len] = Row(len, g)
      <4> HIDE DEF Row
      <4>1. CASE len = m + 1
        BY <4>1
      <4>2. CASE len # m + 1
        <5>1. len \in 0 .. m
          BY <4>2
        <5> QED BY <2>2, <2>3, <5>1
      <4> QED BY <4>1, <4>2
    <3>2. Row(len, g) = Row(len, h)
      <4>1. CASE len = 0
        BY <4>1
      <4>2. CASE len # 0
        <5>1. len \div 2 \in 0 .. m /\ len - (len \div 2) - 1 \in 0 .. m
          BY <4>2, Half
        <5>2. h[len \div 2] = g[len \div 2]
              /\ h[len - (len \div 2) - 1] = g[len - (len \div 2) - 1]
          BY <2>2, <5>1
        <5> HIDE DEF h
        <5> QED BY <5>2
      <4> QED BY <4>1, <4>2
    <3> QED BY <3>1, <3>2
  <2>5. h = [len \in 0 .. m + 1 |-> Row(len, h)]
    <3>1. DOMAIN h = 0 .. m + 1 /\ h = [len \in 0 .. m + 1 |-> h[len]]
      OBVIOUS
    <3> HIDE DEF h, Row
    <3> QED BY <2>4, <3>1
  <2>6. Halves(h, m + 1, log, n, value)
    <3> HIDE DEF h
    <3> QED BY <2>5 DEF Halves
  <2> QED BY <2>6
<1> HIDE DEF P
<1>3. 0 \in G
  BY <1>1
<1>4. \A m \in Nat : m \in G => m + 1 \in G
  BY <1>2
<1>5. \A m \in Nat : m \in G
  <2> HIDE DEF G
  <2> QED BY <1>3, <1>4, Counting
<1>6. P(n)
  BY <1>5
<1> QED BY <1>6 DEF P

\* A search ends in its range, and in a log in order between what is below
\* the value and what is not.
LEMMA SearchFinds ==
  ASSUME NEW log \in Seq(Nat), NEW n, n = Len(log), NEW value \in Nat,
         NEW g, Halves(g, n, log, n, value)
  PROVE  \A len \in 0 .. n : \A first \in 1 .. n + 1 - len :
           /\ g[len][first] \in first .. first + len
           /\ Sorted(log) => \A i \in first .. first + len - 1 : log[i] < value <=> i < g[len][first]
<1> DEFINE Finds(len, first) ==
             /\ g[len][first] \in first .. first + len
             /\ Sorted(log) => \A i \in first .. first + len - 1 : log[i] < value <=> i < g[len][first]
           G == {m \in Nat : \A len \in 0 .. m : len <= n => \A first \in 1 .. n + 1 - len : Finds(len, first)}
<1>0. n \in Nat /\ \A i \in 1 .. n : log[i] \in Nat
  OBVIOUS
<1>1. \A first \in 1 .. n + 1 : Finds(0, first)
  <2> SUFFICES ASSUME NEW first \in 1 .. n + 1 PROVE Finds(0, first)
    OBVIOUS
  <2>1. g[0][first] = first
    BY <1>0 DEF Halves
  <2> QED BY <1>0, <2>1
<1>2. ASSUME NEW m \in Nat, m + 1 <= n,
             \A len \in 0 .. m : \A first \in 1 .. n + 1 - len : Finds(len, first),
             NEW first \in 1 .. n + 1 - (m + 1)
      PROVE  Finds(m + 1, first)
  <2>1. PICK half : half = (m + 1) \div 2
    OBVIOUS
  <2>2. half \in Nat /\ half <= m /\ m - half \in 0 .. m /\ first \in Nat
    BY <1>0, <2>1, Half
  <2>3. g[m + 1][first] = IF log[first + half] < value THEN g[m - half][first + half + 1]
                                                       ELSE g[half][first]
    <3>1. PICK len : len = m + 1
      OBVIOUS
    <3>2. len \in 0 .. n /\ len # 0 /\ len - half - 1 = m - half
      BY <1>0, <1>2, <2>2, <3>1
    <3>3. g[len][first] = IF log[first + (len \div 2)] < value
                          THEN g[len - (len \div 2) - 1][first + (len \div 2) + 1]
                          ELSE g[len \div 2][first]
      <4>1. g[len] = [f \in 1 .. n + 1 - len |->
                        IF len = 0 THEN f
                        ELSE IF log[f + (len \div 2)] < value
                             THEN g[len - (len \div 2) - 1][f + (len \div 2) + 1]
                             ELSE g[len \div 2][f]]
        BY <3>2 DEF Halves
      <4>2. first \in 1 .. n + 1 - len
        BY <3>1
      <4> QED BY <3>2, <4>1, <4>2
    <3> QED BY <2>1, <3>1, <3>2, <3>3
  <2>4. first + half \in 1 .. n /\ first + half + 1 \in 1 .. n + 1 - (m - half) /\ first \in 1 .. n + 1 - half
    BY <1>0, <1>2, <2>2
  <2>5. Sorted(log) => \A i, j \in 1 .. n : i <= j => log[i] <= log[j]
    BY DEF Sorted
  <2>6. CASE log[first + half] < value
    <3>1. PICK p : p = g[m - half][first + half + 1]
      OBVIOUS
    <3>2. /\ p \in first + half + 1 .. first + half + 1 + (m - half)
          /\ Sorted(log) => \A i \in first + half + 1 .. first + half + 1 + (m - half) - 1 : log[i] < value <=> i < p
      BY <1>2, <2>2, <2>4, <3>1
    <3>3. p \in first .. first + (m + 1)
      BY <2>2, <3>2
    <3>4. ASSUME Sorted(log), NEW i \in first .. first + (m + 1) - 1 PROVE log[i] < value <=> i < p
      <4>1. CASE i <= first + half
        <5>1. i \in 1 .. n /\ i < p
          BY <1>0, <2>2, <2>4, <3>2, <4>1
        <5>2. log[i] <= log[first + half]
          BY <2>4, <2>5, <3>4, <4>1, <5>1
        <5>3. log[i] \in Nat /\ log[first + half] \in Nat
          BY <1>0, <2>4, <5>1
        <5> QED BY <2>6, <5>1, <5>2, <5>3
      <4>2. CASE i > first + half
        <5>1. i \in first + half + 1 .. first + half + 1 + (m - half) - 1
          BY <2>2, <4>2
        <5> QED BY <3>2, <3>4, <5>1
      <4> QED BY <2>2, <4>1, <4>2
    <3> QED BY <2>3, <2>6, <3>1, <3>3, <3>4
  <2>7. CASE ~(log[first + half] < value)
    <3>1. PICK p : p = g[half][first]
      OBVIOUS
    <3>2. /\ p \in first .. first + half
          /\ Sorted(log) => \A i \in first .. first + half - 1 : log[i] < value <=> i < p
      <4>1. half \in 0 .. m
        BY <2>2
      <4>2. Finds(half, first)
        BY <1>2, <2>4, <4>1
      <4> QED BY <3>1, <4>2
    <3>3. p \in first .. first + (m + 1)
      BY <2>2, <3>2
    <3>4. ASSUME Sorted(log), NEW i \in first .. first + (m + 1) - 1 PROVE log[i] < value <=> i < p
      <4>1. CASE i >= first + half
        <5>1. i \in 1 .. n /\ ~(i < p)
          <6>1. half \in Nat /\ first \in Nat /\ m \in Nat /\ n \in Nat /\ first + m <= n /\ 1 <= first
            BY <1>0, <1>2, <2>2
          <6>2. i \in Int /\ i >= first + half /\ i <= first + m /\ p \in Int /\ p <= first + half
            BY <3>2, <3>4, <4>1, <6>1
          <6> QED BY <6>1, <6>2
        <5>2. log[first + half] <= log[i]
          BY <2>4, <2>5, <3>4, <4>1, <5>1
        <5>3. log[i] \in Nat /\ log[first + half] \in Nat
          BY <1>0, <2>4, <5>1
        <5> QED BY <2>7, <5>1, <5>2, <5>3
      <4>2. CASE i < first + half
        <5>1. i \in first .. first + half - 1
          BY <2>2, <4>2
        <5> QED BY <3>2, <3>4, <5>1
      <4> QED BY <2>2, <4>1, <4>2
    <3> QED BY <2>3, <2>7, <3>1, <3>3, <3>4
  <2> QED BY <2>6, <2>7
<1> HIDE DEF Finds
<1>3. 0 \in G
  BY <1>1
<1>4. ASSUME NEW m \in Nat, m \in G PROVE m + 1 \in G
  <2>1. ASSUME NEW len \in 0 .. m + 1, len <= n, NEW first \in 1 .. n + 1 - len
        PROVE  Finds(len, first)
    <3>1. CASE len <= m
      <4>1. len \in 0 .. m
        BY <3>1
      <4> QED BY <1>4, <2>1, <4>1
    <3>2. CASE len = m + 1
      <4>1. \A l \in 0 .. m : l <= n
        BY <1>0, <2>1, <3>2
      <4>2. \A l \in 0 .. m : \A f \in 1 .. n + 1 - l : Finds(l, f)
        BY <1>4, <4>1
      <4> QED BY <1>2, <2>1, <3>2, <4>2
    <3> QED BY <2>1, <3>1, <3>2
  <2>2. m + 1 \in Nat
    OBVIOUS
  <2> QED BY <2>1, <2>2
<1>5. \A m \in Nat : m \in G
  <2> HIDE DEF G
  <2> QED BY <1>3, <1>4, Counting
<1>6. \A len \in 0 .. n : \A first \in 1 .. n + 1 - len : Finds(len, first)
  <2>1. n \in G
    BY <1>0, <1>5
  <2>2. \A len \in 0 .. n : len <= n
    BY <1>0
  <2> QED BY <2>1, <2>2
<1> QED BY <1>6 DEF Finds

\* std::lower_bound ends in the log or just behind it; of a log in order it
\* tells apart what is below the value and what is not.
LEMMA LowerBoundFinds ==
  ASSUME NEW log \in Seq(Nat), NEW value \in Nat
  PROVE  /\ LowerBound(log, value) \in 1 .. Len(log) + 1
         /\ Sorted(log) => \A i \in 1 .. Len(log) : log[i] < value <=> i < LowerBound(log, value)
<1> DEFINE n == Len(log)
           H(g) == g = [len \in 0 .. n |->
                          [first \in 1 .. n + 1 - len |->
                             IF len = 0 THEN first
                             ELSE LET half == len \div 2
                                  IN IF log[first + half] < value
                                       THEN g[len - half - 1][first + half + 1]
                                       ELSE g[half][first]]]
<1>1. LowerBound(log, value) = (CHOOSE g : H(g))[n][1]
  BY DEF LowerBound
<1>2. \E g : H(g)
  <2>1. n \in Nat
    OBVIOUS
  <2>2. PICK g : Halves(g, n, log, n, value)
    BY <2>1, SearchExists
  <2> QED BY <2>2 DEF Halves
<1>3. H(CHOOSE g : H(g))
  BY <1>2, Zenon
<1>4. PICK g : H(g) /\ LowerBound(log, value) = g[n][1]
  <2> HIDE DEF H
  <2> QED BY <1>1, <1>3
<1>5. Halves(g, n, log, n, value)
  BY <1>4 DEF Halves
<1>6. n \in 0 .. n /\ 1 \in 1 .. n + 1 - n
  OBVIOUS
<1> HIDE DEF H
<1>7. /\ g[n][1] \in 1 .. 1 + n
      /\ Sorted(log) => \A i \in 1 .. 1 + n - 1 : log[i] < value <=> i < g[n][1]
  BY <1>5, <1>6, SearchFinds
<1> QED BY <1>4, <1>6, <1>7
-----------------------------------------------------------------------------
(* Throttlers and their verdicts.                                          *)

Throttler == Throttlers(Nat, Nat)

LEMMA CutoffType ==
  ASSUME NEW throttler \in Throttler, NEW time \in Nat
  PROVE  /\ Cutoff(throttler, time) \in Nat
         /\ throttler.window <= time /\ time < WordSize => Cutoff(throttler, time) = time - throttler.window
<1>1. throttler.window \in Nat /\ WordSize \in Nat \ {0}
  BY WordAssumption DEF Throttler, Throttlers
<1>2. PICK d \in Int : d = time - throttler.window
  BY <1>1
<1>3. d % WordSize \in Nat
  BY <1>1
<1>4. d \in 0 .. WordSize - 1 => d % WordSize = d
  BY <1>1
<1> QED BY <1>1, <1>2, <1>3, <1>4 DEF Cutoff

\* A throttler that is evaluated keeps its window and its limit.
LEMMA TruncateType ==
  ASSUME NEW throttler \in Throttler, NEW time \in Nat
  PROVE  /\ Truncate(throttler, time) \in Throttler
         /\ Truncate(throttler, time).window = throttler.window
         /\ Truncate(throttler, time).allowed = throttler.allowed
         /\ Truncate(throttler, time).log =
              SubSeq(throttler.log, LowerBound(throttler.log, Cutoff(throttler, time)), Len(throttler.log))
<1>1. PICK cut : cut = LowerBound(throttler.log, Cutoff(throttler, time))
  OBVIOUS
<1>2. throttler.log \in Seq(Nat) /\ Cutoff(throttler, time) \in Nat
  BY CutoffType DEF Throttler, Throttlers
<1>3. cut \in 1 .. Len(throttler.log) + 1
  BY <1>1, <1>2, LowerBoundFinds
<1>4. SubSeq(throttler.log, cut, Len(throttler.log)) \in Seq(Nat)
  <2>1. PICK log, len : log = throttler.log /\ len = Len(log)
    OBVIOUS
  <2>2. log \in Seq(Nat)
    BY <1>2, <2>1
  <2>3. len \in Nat /\ cut \in 1 .. len + 1
    BY <1>3, <2>1, <2>2
  <2>4. \A i \in 1 .. len : log[i] \in Nat
    BY <2>1, <2>2
  <2>5. \A i \in cut .. len : log[i] \in Nat
    BY <2>3, <2>4
  <2>6. cut \in Int /\ len \in Int
    BY <2>3
  <2>7. SubSeq(log, cut, len) \in Seq(Nat)
    BY <2>5, <2>6, SubSeqProperties
  <2> QED BY <2>1, <2>7
<1>5. Truncate(throttler, time) = [throttler EXCEPT !.log = SubSeq(throttler.log, cut, Len(throttler.log))]
  BY <1>1 DEF Truncate, Throttler, Throttlers
<1> QED BY <1>1, <1>4, <1>5 DEF Throttler, Throttlers

LEMMA ReEvaluateType ==
  ASSUME NEW throttler \in Throttler, NEW time \in Nat
  PROVE  /\ ReEvaluate(throttler, time) \in Throttler
         /\ ReEvaluate(throttler, time).window = throttler.window
         /\ ReEvaluate(throttler, time).allowed = throttler.allowed
BY TruncateType DEF ReEvaluate

LEMMA StampAdded ==
  ASSUME NEW throttler \in Throttler, NEW time \in Nat, NEW logged,
         logged = [throttler EXCEPT !.log = Append(@, time)]
  PROVE  /\ logged \in Throttler /\ logged.log = Append(throttler.log, time)
         /\ logged.window = throttler.window /\ logged.allowed = throttler.allowed
<1>1. throttler \in [window : Nat, allowed : Nat, log : Seq(Nat)]
  BY DEF Throttler, Throttlers
<1>2. Append(throttler.log, time) \in Seq(Nat)
  BY <1>1
<1>3. logged = [throttler EXCEPT !.log = Append(throttler.log, time)]
  BY <1>1
<1> QED BY <1>1, <1>2, <1>3 DEF Throttler, Throttlers

LEMMA EvaluateType ==
  ASSUME NEW throttler \in Throttler, NEW msg \in Messages
  PROVE  /\ Evaluate(throttler, msg) \in Throttler
         /\ Evaluate(throttler, msg).window = throttler.window
         /\ Evaluate(throttler, msg).allowed = throttler.allowed
<1>1. msg.time \in Nat
  BY TimeAssumption DEF Messages, Times
<1>2. PICK logged : logged = [throttler EXCEPT !.log = Append(@, msg.time)]
  OBVIOUS
<1>3. logged \in Throttler /\ logged.window = throttler.window /\ logged.allowed = throttler.allowed
  BY <1>1, <1>2, StampAdded
<1>4. AddTimestamp(throttler, msg.time) = ReEvaluate(logged, msg.time)
  BY <1>2 DEF AddTimestamp
<1> QED BY <1>1, <1>3, <1>4, ReEvaluateType DEF Evaluate

\* The last thing us says of an id is v; it says nothing of it.
LastSays(us, id, v) ==
  \E i \in DOMAIN us : us[i] = <<id, v>> /\ \A j \in DOMAIN us : j > i => us[j][1] # id
Silent(us, id) == \A i \in DOMAIN us : us[i][1] # id

LEMMA SaysMore ==
  ASSUME NEW us \in Seq(Updates), NEW u \in Updates
  PROVE  /\ LastSays(Append(us, u), u[1], u[2])
         /\ \A id : id # u[1] =>
              /\ \A v : LastSays(us, id, v) => LastSays(Append(us, u), id, v)
              /\ Silent(us, id) => Silent(Append(us, u), id)
<1>1. PICK more, n : more = Append(us, u) /\ n = Len(us)
  OBVIOUS
<1>2. /\ n \in Nat /\ DOMAIN us = 1 .. n /\ DOMAIN more = 1 .. n + 1
      /\ more[n + 1] = u /\ \A i \in 1 .. n : more[i] = us[i]
  BY <1>1
<1>3. LastSays(more, u[1], u[2])
  <2>1. n + 1 \in DOMAIN more /\ \A j \in DOMAIN more : ~(j > n + 1)
    BY <1>2
  <2>2. u = <<u[1], u[2]>>
    BY DEF Updates
  <2> QED BY <1>2, <2>1, <2>2 DEF LastSays
<1>4. ASSUME NEW id, id # u[1], NEW v, LastSays(us, id, v) PROVE LastSays(more, id, v)
  <2>1. PICK i \in 1 .. n : us[i] = <<id, v>> /\ \A j \in 1 .. n : j > i => us[j][1] # id
    BY <1>2, <1>4 DEF LastSays
  <2>2. i \in DOMAIN more /\ more[i] = <<id, v>>
    BY <1>2, <2>1
  <2>3. \A j \in 1 .. n + 1 : j = n + 1 \/ j \in 1 .. n
    BY <1>2
  <2>4. \A j \in DOMAIN more : j > i => more[j][1] # id
    BY <1>2, <1>4, <2>1, <2>3
  <2> QED BY <2>2, <2>4 DEF LastSays
<1>5. ASSUME NEW id, id # u[1], Silent(us, id) PROVE Silent(more, id)
  <2>1. \A j \in 1 .. n + 1 : j = n + 1 \/ j \in 1 .. n
    BY <1>2
  <2> QED BY <1>2, <1>5, <2>1 DEF Silent
<1> QED BY <1>1, <1>3, <1>4, <1>5

-----------------------------------------------------------------------------
(* The folds of the two stages.                                            *)

Verdicts == {"unknown", "allowed", "suppressed"}

\* The enforcer takes one update after the other.
LEMMA ApplySteps ==
  ASSUME NEW verdicts \in [Ids -> Verdicts], NEW us \in Seq(Updates)
  PROVE  \E h \in [0 .. Len(us) -> [Ids -> Verdicts]] :
           /\ h[0] = verdicts /\ h[Len(us)] = Apply(verdicts, us)
           /\ \A i \in 1 .. Len(us) : h[i] = [h[i - 1] EXCEPT ![us[i][1]] = us[i][2]]
<1> DEFINE A == [Ids -> Verdicts]
           D == DOMAIN us
           F == [p \in A \X Updates |-> [p[1] EXCEPT ![p[2][1]] = p[2][2]]]
           Folds(g) == g = [s \in SUBSET D |-> IF s = {} THEN verdicts
                              ELSE [g[s \ {Max(s)}] EXCEPT ![us[Max(s)][1]] = us[Max(s)][2]]]
<1>1. D = 1 .. Len(us)
  OBVIOUS
<1>2. Apply(verdicts, us) = (CHOOSE g : Folds(g))[D]
  BY DEF Apply, FoldLeft, MapThenFoldSet
<1>3. F \in [A \X Updates -> A]
  BY DEF Updates, Verdicts
<1>4. \A a \in A, b \in Updates : F[<<a, b>>] = [a EXCEPT ![b[1]] = b[2]]
  OBVIOUS
<1> HIDE DEF D, F
<1>5. \A s \in SUBSET D : s # {} => us[Max(s)] \in Updates
  <2> SUFFICES ASSUME NEW s \in SUBSET D, s # {} PROVE us[Max(s)] \in Updates
    OBVIOUS
  <2>1. Max(s) \in s
    <3>1. Len(us) \in Nat /\ s \in SUBSET (1 .. Len(us))
      BY <1>1
    <3> QED BY <3>1, Highest
  <2>2. Max(s) \in 1 .. Len(us)
    BY <1>1, <2>1
  <2> QED BY <2>2
<1>6. \E g : Folds(g)
  <2>1. PICK g \in [SUBSET D -> A] : Unfolds(g, verdicts, us, D, F)
    BY <1>1, <1>3, FoldExists
  <2>2. \A s \in SUBSET D : g[s \ {Max(s)}] \in A
    BY <2>1
  <2>3. \A s \in SUBSET D : s # {} =>
          F[<<g[s \ {Max(s)}], us[Max(s)]>>] = [g[s \ {Max(s)}] EXCEPT ![us[Max(s)][1]] = us[Max(s)][2]]
    BY <1>4, <1>5, <2>2
  <2>4. Folds(g)
    BY <2>1, <2>3 DEF Unfolds
  <2> QED BY <2>4
<1>7. Folds(CHOOSE g : Folds(g))
  BY <1>6, Zenon
<1>8. PICK g : Folds(g) /\ Apply(verdicts, us) = g[D]
  <2> HIDE DEF Folds
  <2> QED BY <1>2, <1>7
<1>9. GoesOn(A, Updates, verdicts, us, F, g) /\ g[1 .. Len(us)] = Apply(verdicts, us)
  <2>1. \A s \in SUBSET (1 .. Len(us)) : s # {} /\ g[s \ {Max(s)}] \in A =>
          g[s] = F[<<g[s \ {Max(s)}], us[Max(s)]>>]
    <3> SUFFICES ASSUME NEW s \in SUBSET (1 .. Len(us)), s # {}, g[s \ {Max(s)}] \in A
                 PROVE  g[s] = F[<<g[s \ {Max(s)}], us[Max(s)]>>]
      OBVIOUS
    <3>1. PICK a, b : a = g[s \ {Max(s)}] /\ b = us[Max(s)]
      OBVIOUS
    <3>2. a \in A /\ b \in Updates
      BY <1>1, <1>5, <3>1
    <3>3. g[s] = [a EXCEPT ![b[1]] = b[2]]
      <4>1. s \in SUBSET D
        BY <1>1
      <4> QED BY <1>8, <3>1, <4>1
    <3>4. F[<<a, b>>] = [a EXCEPT ![b[1]] = b[2]]
      <4> HIDE DEF A
      <4> QED BY <1>4, <3>2
    <3> QED BY <3>1, <3>3, <3>4
  <2>2. g[{}] = verdicts /\ g[1 .. Len(us)] = Apply(verdicts, us)
    BY <1>1, <1>8
  <2> QED BY <1>3, <2>1, <2>2 DEF GoesOn
<1>10. PICK h : Trace(A, verdicts, us, F, h) /\ h[Len(us)] = Apply(verdicts, us)
  <2> HIDE DEF A
  <2> QED BY <1>9, FoldSteps
<1>11. \A i \in 1 .. Len(us) : h[i] = [h[i - 1] EXCEPT ![us[i][1]] = us[i][2]]
  <2> SUFFICES ASSUME NEW i \in 1 .. Len(us) PROVE h[i] = [h[i - 1] EXCEPT ![us[i][1]] = us[i][2]]
    OBVIOUS
  <2>1. h[i - 1] \in A /\ us[i] \in Updates
    <3>1. i - 1 \in 0 .. Len(us) /\ us[i] \in Updates
      OBVIOUS
    <3> HIDE DEF A
    <3> QED BY <1>10, <3>1 DEF Trace
  <2> QED BY <1>4, <1>10, <2>1 DEF Trace
<1> QED BY <1>10, <1>11 DEF Trace

Builders == [throttlers : [Ids -> Throttler \cup {Absent}], updates : Seq(Updates), errors : Nat]

\* What happens to an id: it is passed over, or its throttler is evaluated and
\* its verdict noted last.
PassedOver(before, after, id) ==
  /\ after.throttlers[id] = before.throttlers[id]
  /\ \A v : LastSays(before.updates, id, v) => LastSays(after.updates, id, v)
  /\ Silent(before.updates, id) => Silent(after.updates, id)

Evaluated(before, after, id) ==
  /\ before.throttlers[id] # Absent /\ after.throttlers[id] # Absent
  /\ LastSays(after.updates, id, Verdict(after.throttlers[id]))

LEMMA ObserveOnce ==
  ASSUME NEW b \in Builders, NEW id \in Ids, NEW msg \in Messages
  PROVE  /\ Observe(b, id, msg) \in Builders
         /\ b.throttlers[id] # Absent => Evaluated(b, Observe(b, id, msg), id)
         /\ b.throttlers[id] = Absent => PassedOver(b, Observe(b, id, msg), id)
         /\ \A x \in Ids : x # id => PassedOver(b, Observe(b, id, msg), x)
<1>1. PICK after : after = Observe(b, id, msg)
  OBVIOUS
<1>2. CASE b.throttlers[id] = Absent
  <2>1. after = [b EXCEPT !.errors = b.errors + 1]
    BY <1>1, <1>2 DEF Observe, Builders
  <2>2. after \in Builders /\ after.throttlers = b.throttlers /\ after.updates = b.updates
    <3>1. b.errors \in Nat /\ b.errors + 1 \in Nat
      BY DEF Builders
    <3>2. PICK n \in Nat : n = b.errors + 1
      BY <3>1
    <3> QED BY <2>1, <3>2 DEF Builders
  <2>3. \A x : PassedOver(b, after, x)
    BY <2>2 DEF PassedOver
  <2> QED BY <1>1, <1>2, <2>2, <2>3
<1>3. CASE b.throttlers[id] # Absent
  <2>1. PICK th : th = Evaluate(b.throttlers[id], msg)
    OBVIOUS
  <2>2. b.throttlers[id] \in Throttler
    BY <1>3 DEF Builders
  <2>3. th \in Throttler /\ th # Absent
    BY <2>1, <2>2, EvaluateType, AbsentAssumption DEF Throttler
  <2>4. <<id, Verdict(th)>> \in Updates
    BY DEF Updates, Verdict
  <2>5. PICK u : u = <<id, Verdict(th)>>
    OBVIOUS
  <2>6. after = [b EXCEPT !.throttlers = [b.throttlers EXCEPT ![id] = th],
                          !.updates = Append(b.updates, u)]
    BY <1>1, <1>3, <2>1, <2>5 DEF Observe, Builders
  <2>7. /\ after.throttlers = [b.throttlers EXCEPT ![id] = th]
        /\ after.updates = Append(b.updates, u)
        /\ after.errors = b.errors
    BY <2>6 DEF Builders
  <2>8. after \in Builders
    <3>1. [b.throttlers EXCEPT ![id] = th] \in [Ids -> Throttler \cup {Absent}]
      BY <2>3 DEF Builders
    <3>2. Append(b.updates, u) \in Seq(Updates)
      BY <2>4, <2>5 DEF Builders
    <3> QED BY <2>6, <3>1, <3>2 DEF Builders
  <2>9. after.throttlers[id] = th /\ \A x \in Ids : x # id => after.throttlers[x] = b.throttlers[x]
    BY <2>7 DEF Builders
  <2>10. b.updates \in Seq(Updates) /\ u \in Updates /\ u[1] = id /\ u[2] = Verdict(th)
    BY <2>4, <2>5 DEF Builders
  <2>11. LastSays(after.updates, id, Verdict(th))
    BY <2>7, <2>10, SaysMore
  <2>12. \A x \in Ids : x # id => PassedOver(b, after, x)
    <3>1. \A x : x # id => /\ \A v : LastSays(b.updates, x, v) => LastSays(Append(b.updates, u), x, v)
                           /\ Silent(b.updates, x) => Silent(Append(b.updates, u), x)
      <4>1. PICK us \in Seq(Updates) : us = b.updates
        BY <2>10
      <4> QED BY <2>10, <4>1, SaysMore
    <3> QED BY <2>7, <2>9, <3>1 DEF PassedOver
  <2> QED BY <1>1, <1>3, <2>3, <2>8, <2>9, <2>11, <2>12 DEF Evaluated
<1> QED BY <1>2, <1>3

\* The builder takes one lookup field after the other.
LEMMA ObserveSteps ==
  ASSUME NEW b \in Builders, NEW msg \in Messages, NEW ids \in Seq(Ids), ids = msg.ids
  PROVE  \E h \in [0 .. Len(ids) -> Builders] :
           /\ h[0] = b /\ h[Len(ids)] = ObserveAll(b, msg)
           /\ \A i \in 1 .. Len(ids) : h[i] = Observe(h[i - 1], ids[i], msg)
<1> DEFINE D == DOMAIN ids
           F == [p \in Builders \X Ids |-> Observe(p[1], p[2], msg)]
           Folds(g) == g = [s \in SUBSET D |-> IF s = {} THEN b
                              ELSE Observe(g[s \ {Max(s)}], ids[Max(s)], msg)]
<1>1. D = 1 .. Len(ids)
  OBVIOUS
<1>2. ObserveAll(b, msg) = (CHOOSE g : Folds(g))[D]
  BY DEF ObserveAll, FoldLeft, MapThenFoldSet
<1>3. F \in [Builders \X Ids -> Builders]
  BY ObserveOnce
<1>4. \A a \in Builders, id \in Ids : F[<<a, id>>] = Observe(a, id, msg)
  OBVIOUS
<1> HIDE DEF D, F
<1>5. \A s \in SUBSET D : s # {} => ids[Max(s)] \in Ids
  <2> SUFFICES ASSUME NEW s \in SUBSET D, s # {} PROVE ids[Max(s)] \in Ids
    OBVIOUS
  <2>1. Max(s) \in s
    <3>1. Len(ids) \in Nat /\ s \in SUBSET (1 .. Len(ids))
      BY <1>1
    <3> QED BY <3>1, Highest
  <2>2. Max(s) \in 1 .. Len(ids)
    BY <1>1, <2>1
  <2> QED BY <2>2
<1>6. \E g : Folds(g)
  <2>1. PICK g \in [SUBSET D -> Builders] : Unfolds(g, b, ids, D, F)
    BY <1>1, <1>3, FoldExists
  <2>2. \A s \in SUBSET D : g[s \ {Max(s)}] \in Builders
    BY <2>1
  <2>3. \A s \in SUBSET D : s # {} =>
          F[<<g[s \ {Max(s)}], ids[Max(s)]>>] = Observe(g[s \ {Max(s)}], ids[Max(s)], msg)
    BY <1>4, <1>5, <2>2
  <2>4. Folds(g)
    BY <2>1, <2>3 DEF Unfolds
  <2> QED BY <2>4
<1>7. Folds(CHOOSE g : Folds(g))
  BY <1>6, Zenon
<1>8. PICK g : Folds(g) /\ ObserveAll(b, msg) = g[D]
  <2> HIDE DEF Folds
  <2> QED BY <1>2, <1>7
<1>9. GoesOn(Builders, Ids, b, ids, F, g) /\ g[1 .. Len(ids)] = ObserveAll(b, msg)
  <2>1. \A s \in SUBSET (1 .. Len(ids)) : s # {} /\ g[s \ {Max(s)}] \in Builders =>
          g[s] = F[<<g[s \ {Max(s)}], ids[Max(s)]>>]
    BY <1>1, <1>4, <1>5, <1>8
  <2>2. g[{}] = b /\ g[1 .. Len(ids)] = ObserveAll(b, msg)
    BY <1>1, <1>8
  <2> QED BY <1>3, <2>1, <2>2 DEF GoesOn
<1>10. PICK h : Trace(Builders, b, ids, F, h) /\ h[Len(ids)] = ObserveAll(b, msg)
  BY <1>9, FoldSteps
<1>11. \A i \in 1 .. Len(ids) : h[i] = Observe(h[i - 1], ids[i], msg)
  <2> SUFFICES ASSUME NEW i \in 1 .. Len(ids) PROVE h[i] = Observe(h[i - 1], ids[i], msg)
    OBVIOUS
  <2>1. h[i - 1] \in Builders /\ ids[i] \in Ids
    <3>1. i - 1 \in 0 .. Len(ids) /\ ids[i] \in Ids
      OBVIOUS
    <3> QED BY <1>10, <3>1 DEF Trace
  <2> QED BY <1>4, <1>10, <2>1 DEF Trace
<1> QED BY <1>10, <1>11 DEF Trace

\* What was said last of an id counts; what was not spoken of stays.
LEMMA ApplyDoes ==
  ASSUME NEW verdicts \in [Ids -> Verdicts], NEW us \in Seq(Updates)
  PROVE  /\ Apply(verdicts, us) \in [Ids -> Verdicts]
         /\ \A id \in Ids :
              /\ \A v : LastSays(us, id, v) => Apply(verdicts, us)[id] = v
              /\ Silent(us, id) => Apply(verdicts, us)[id] = verdicts[id]
<1>1. PICK h \in [0 .. Len(us) -> [Ids -> Verdicts]] :
         /\ h[0] = verdicts /\ h[Len(us)] = Apply(verdicts, us)
         /\ \A i \in 1 .. Len(us) : h[i] = [h[i - 1] EXCEPT ![us[i][1]] = us[i][2]]
  BY ApplySteps
<1>2. PICK n : n = Len(us)
  OBVIOUS
<1>3. n \in Nat /\ DOMAIN us = 1 .. n /\ \A i \in 1 .. n : us[i] \in Updates
  BY <1>2
<1>4. ASSUME NEW i \in Nat, i + 1 <= n, NEW id \in Ids
      PROVE  /\ us[i + 1][1] = id => h[i + 1][id] = us[i + 1][2]
             /\ us[i + 1][1] # id => h[i + 1][id] = h[i][id]
  <2>1. i + 1 \in 1 .. Len(us) /\ (i + 1) - 1 = i /\ i \in 0 .. Len(us)
    BY <1>2, <1>3, <1>4
  <2>2. PICK a \in [Ids -> Verdicts] : a = h[i]
    BY <2>1
  <2>3. h[i + 1] = [a EXCEPT ![us[i + 1][1]] = us[i + 1][2]]
    BY <1>1, <2>1, <2>2
  <2> QED BY <2>2, <2>3
<1>5. ASSUME NEW id \in Ids, Silent(us, id) PROVE h[n][id] = verdicts[id]
  <2> DEFINE G == {k \in Nat : k <= n => h[k][id] = verdicts[id]}
  <2>1. 0 \in G
    BY <1>1
  <2>2. ASSUME NEW k \in Nat, k \in G PROVE k + 1 \in G
    <3> SUFFICES ASSUME k + 1 <= n PROVE h[k + 1][id] = verdicts[id]
      OBVIOUS
    <3>1. k + 1 \in 1 .. n /\ k <= n
      BY <1>3
    <3>2. us[k + 1][1] # id
      BY <1>3, <1>5, <3>1 DEF Silent
    <3> QED BY <1>4, <2>2, <3>1, <3>2
  <2>3. \A k \in Nat : k \in G
    <3> HIDE DEF G
    <3> QED BY <2>1, <2>2, Counting
  <2> QED BY <1>3, <2>3
<1>6. ASSUME NEW id \in Ids, NEW v, LastSays(us, id, v) PROVE h[n][id] = v
  <2>1. PICK i \in 1 .. n : us[i] = <<id, v>> /\ \A j \in 1 .. n : j > i => us[j][1] # id
    BY <1>3, <1>6 DEF LastSays
  <2> DEFINE G == {k \in Nat : i <= k /\ k <= n => h[k][id] = v}
  <2>2. 0 \in G
    BY <2>1
  <2>3. ASSUME NEW k \in Nat, k \in G PROVE k + 1 \in G
    <3> SUFFICES ASSUME i <= k + 1, k + 1 <= n PROVE h[k + 1][id] = v
      OBVIOUS
    <3>1. k + 1 \in 1 .. n /\ k <= n
      BY <1>3
    <3>2. CASE i = k + 1
      <4>1. us[k + 1][1] = id /\ us[k + 1][2] = v
        BY <2>1, <3>2
      <4> QED BY <1>4, <3>1, <4>1
    <3>3. CASE i # k + 1
      <4>1. i <= k /\ k + 1 > i
        BY <1>3, <2>1, <3>3
      <4>2. us[k + 1][1] # id
        BY <2>1, <3>1, <4>1
      <4>3. h[k][id] = v
        BY <2>3, <3>1, <4>1
      <4> QED BY <1>4, <3>1, <4>2, <4>3
    <3> QED BY <3>2, <3>3
  <2>4. \A k \in Nat : k \in G
    <3> HIDE DEF G
    <3> QED BY <2>2, <2>3, Counting
  <2> QED BY <1>3, <2>1, <2>4
<1>7. Apply(verdicts, us) \in [Ids -> Verdicts]
  <2>1. Len(us) \in 0 .. Len(us)
    BY <1>2, <1>3
  <2> QED BY <1>1, <2>1
<1> QED BY <1>1, <1>2, <1>5, <1>6, <1>7

\* Every id is passed over or evaluated, and those the message names are
\* evaluated if they are configured.
LEMMA ObserveAllDoes ==
  ASSUME NEW b \in Builders, NEW msg \in Messages
  PROVE  /\ ObserveAll(b, msg) \in Builders
         /\ \A id \in Ids : PassedOver(b, ObserveAll(b, msg), id) \/ Evaluated(b, ObserveAll(b, msg), id)
         /\ \A id \in ToSet(msg.ids) : b.throttlers[id] # Absent => Evaluated(b, ObserveAll(b, msg), id)
<1>1. PICK ids : ids = msg.ids
  OBVIOUS
<1>2. ids \in Seq(Ids)
  BY <1>1, KindsAssumption DEF Messages
<1>3. PICK h \in [0 .. Len(ids) -> Builders] :
         /\ h[0] = b /\ h[Len(ids)] = ObserveAll(b, msg)
         /\ \A i \in 1 .. Len(ids) : h[i] = Observe(h[i - 1], ids[i], msg)
  BY <1>1, <1>2, ObserveSteps
<1>4. PICK n : n = Len(ids)
  OBVIOUS
<1>5. n \in Nat /\ DOMAIN ids = 1 .. n /\ \A i \in 1 .. n : ids[i] \in Ids
  BY <1>2, <1>4
<1>6. ASSUME NEW i \in Nat, i + 1 <= n
      PROVE  /\ h[i] \in Builders /\ ids[i + 1] \in Ids
             /\ h[i].throttlers[ids[i + 1]] # Absent => Evaluated(h[i], h[i + 1], ids[i + 1])
             /\ h[i].throttlers[ids[i + 1]] = Absent => PassedOver(h[i], h[i + 1], ids[i + 1])
             /\ \A id \in Ids : id # ids[i + 1] => PassedOver(h[i], h[i + 1], id)
  <2>1. i + 1 \in 1 .. Len(ids) /\ (i + 1) - 1 = i /\ i \in 0 .. Len(ids)
    BY <1>4, <1>5, <1>6
  <2>2. h[i] \in Builders /\ ids[i + 1] \in Ids
    BY <1>4, <1>5, <2>1
  <2>3. h[i + 1] = Observe(h[i], ids[i + 1], msg)
    BY <1>3, <2>1
  <2> QED BY <2>2, <2>3, ObserveOnce
<1> DEFINE Done(k, id) ==
             /\ PassedOver(b, h[k], id) \/ Evaluated(b, h[k], id)
             /\ (\E i \in 1 .. k : ids[i] = id) /\ b.throttlers[id] # Absent => Evaluated(b, h[k], id)
           G == {k \in Nat : k <= n => \A id \in Ids : Done(k, id)}
<1>7. 0 \in G
  BY <1>3 DEF PassedOver
<1>8. ASSUME NEW k \in Nat, k \in G PROVE k + 1 \in G
  <2> SUFFICES ASSUME k + 1 <= n, NEW id \in Ids PROVE Done(k + 1, id)
    OBVIOUS
  <2>1. Done(k, id)
    BY <1>5, <1>8
  <2>2. PassedOver(h[k], h[k + 1], id) \/ Evaluated(h[k], h[k + 1], id)
    BY <1>6
  <2>3. ids[k + 1] = id /\ h[k].throttlers[id] # Absent => Evaluated(h[k], h[k + 1], id)
    BY <1>6
  <2>4. h[k].throttlers[id] = Absent <=> b.throttlers[id] = Absent
    BY <2>1 DEF PassedOver, Evaluated
  <2>5. CASE Evaluated(h[k], h[k + 1], id)
    BY <2>4, <2>5 DEF Evaluated
  <2>6. CASE PassedOver(h[k], h[k + 1], id)
    <3>1. Evaluated(b, h[k], id) => Evaluated(b, h[k + 1], id)
      BY <2>6 DEF Evaluated, PassedOver
    <3>2. PassedOver(b, h[k], id) => PassedOver(b, h[k + 1], id)
      BY <2>6 DEF PassedOver
    <3>3. (\E i \in 1 .. k + 1 : ids[i] = id) => (\E i \in 1 .. k : ids[i] = id) \/ ids[k + 1] = id
      OBVIOUS
    <3>4. Evaluated(h[k], h[k + 1], id) /\ b.throttlers[id] # Absent => Evaluated(b, h[k + 1], id)
      BY DEF Evaluated
    <3> QED BY <2>1, <2>3, <2>4, <3>1, <3>2, <3>3, <3>4
  <2> QED BY <2>2, <2>5, <2>6
<1> HIDE DEF Done
<1>9. \A k \in Nat : k \in G
  <2> HIDE DEF G
  <2> QED BY <1>7, <1>8, Counting
<1>10. \A id \in Ids : Done(n, id)
  BY <1>5, <1>9
<1>11. ASSUME NEW id \in ToSet(msg.ids) PROVE id \in Ids /\ \E i \in 1 .. n : ids[i] = id
  BY <1>1, <1>5, <1>11 DEF ToSet
<1>12. h[n] = ObserveAll(b, msg) /\ h[n] \in Builders
  <2>1. Len(ids) \in 0 .. Len(ids)
    BY <1>4, <1>5
  <2> QED BY <1>3, <1>4, <2>1
<1> QED BY <1>10, <1>11, <1>12 DEF Done
-----------------------------------------------------------------------------
(* Types.                                                                  *)

LEMMA Configuration ==
  ASSUME NEW k \in Nat, k < Len(Commands)
  PROVE  /\ Commands[k + 1].id \in Ids
         /\ Commands[k + 1].window \in Nat /\ Commands[k + 1].allowed \in Nat
<1>1. k + 1 \in 1 .. Len(Commands)
  BY CommandAssumption
<1>2. PICK C : C = [kind : {"add", "update", "other"}, id : Ids,
                    type : {"sliding_log", "sliding_window", "fixed_window", "unknown"},
                    window : Nat, allowed : Nat]
  OBVIOUS
<1>3. Commands \in Seq(C)
  BY <1>2, CommandAssumption
<1>4. Commands[k + 1] \in C
  BY <1>1, <1>3
<1> QED BY <1>2, <1>4

\* What a configuration message does: it leaves the throttlers as they are, or
\* installs or changes the one it names; the log of a new one is empty, and
\* that of an old one stays.
Configures(before, after, id) ==
  \/ after = before
  \/ \E th \in Throttler :
       /\ Len(th.log) = 0 \/ (before[id] # Absent /\ th.log = before[id].log)
       /\ after = [before EXCEPT ![id] = th]

LEMMA ConfigureDoes ==
  ASSUME TypeOK, Configure, NEW command, command = Commands[Len(results) + 1]
  PROVE  /\ command.id \in Ids
         /\ Configures(throttlers, throttlers', command.id)
         /\ current' = IF throttlers' = throttlers THEN current ELSE current \ {command.id}
         /\ results' \in Seq({"completed", "failed"})
         /\ throttlers' = throttlers \/ results' = Append(results, "completed")
<1>1. Len(results) \in Nat
  BY DEF TypeOK
<1>2. command.id \in Ids /\ command.window \in Nat /\ command.allowed \in Nat
  BY <1>1, Configuration DEF Configure
<1>3. \A result \in {"completed", "failed"} : Answer(result) => results' \in Seq({"completed", "failed"})
  BY DEF Answer, TypeOK
<1>4. throttlers \in [Ids -> Throttlers(Nat, Nat) \cup {Absent}]
  BY DEF TypeOK
<1>5. CASE AddThrottler(command)
  <2>1. results' \in Seq({"completed", "failed"})
    BY <1>3, <1>5 DEF AddThrottler
  <2>2. throttlers' = throttlers \/ Answer("completed")
    BY <1>5 DEF AddThrottler
  <2>3. Configures(throttlers, throttlers', command.id)
    <3>1. PICK th : th = NewThrottler(command.window, command.allowed)
      OBVIOUS
    <3>2. th \in Throttler /\ Len(th.log) = 0
      <4>1. <<>> \in Seq(Nat) /\ Len(<<>>) = 0
        OBVIOUS
      <4> QED BY <1>2, <3>1, <4>1 DEF NewThrottler, Throttler, Throttlers
    <3>3. throttlers' = throttlers \/ throttlers' = [throttlers EXCEPT ![command.id] = th]
      BY <1>5, <3>1 DEF AddThrottler
    <3>4. CASE throttlers' = throttlers
      BY <3>4 DEF Configures
    <3>5. CASE throttlers' = [throttlers EXCEPT ![command.id] = th]
      BY <3>2, <3>5 DEF Configures
    <3> QED BY <3>3, <3>4, <3>5
  <2> QED BY <1>2, <2>1, <2>2, <2>3 DEF Configure, Answer
<1>6. CASE UpdateThrottler(command)
  <2>1. results' \in Seq({"completed", "failed"})
    BY <1>3, <1>6 DEF UpdateThrottler
  <2>2. throttlers' = throttlers \/ Answer("completed")
    BY <1>6 DEF UpdateThrottler
  <2>3. Configures(throttlers, throttlers', command.id)
    <3>1. CASE throttlers' = throttlers
      BY <3>1 DEF Configures
    <3>2. CASE throttlers' # throttlers
      <4>1. PICK th : th = throttlers[command.id]
        OBVIOUS
      <4>2. th # Absent /\ throttlers' = [throttlers EXCEPT ![command.id].window = command.window,
                                                            ![command.id].allowed = command.allowed]
        BY <1>6, <3>2, <4>1 DEF UpdateThrottler
      <4>3. th \in Throttlers(Nat, Nat)
        BY <1>2, <1>4, <4>1, <4>2
      <4>4. PICK th2 : th2 = [[th EXCEPT !.window = command.window] EXCEPT !.allowed = command.allowed]
        OBVIOUS
      <4>5. th2 = [window |-> command.window, allowed |-> command.allowed, log |-> th.log]
        BY <4>3, <4>4 DEF Throttlers
      <4>6. throttlers' = [throttlers EXCEPT ![command.id] = th2]
        BY <1>2, <1>4, <4>1, <4>2, <4>4
      <4>7. th2 \in Throttler /\ th2.log = th.log
        BY <1>2, <4>3, <4>5 DEF Throttlers, Throttler
      <4> QED BY <4>1, <4>2, <4>6, <4>7 DEF Configures
    <3> QED BY <3>1, <3>2
  <2> QED BY <1>2, <2>1, <2>2, <2>3 DEF Configure, Answer
<1>7. CASE UnknownCommand(command)
  <2>1. results' \in Seq({"completed", "failed"})
    BY <1>3, <1>7 DEF UnknownCommand
  <2>2. throttlers' = throttlers /\ Configures(throttlers, throttlers', command.id)
    BY <1>7 DEF UnknownCommand, Configures
  <2> QED BY <1>2, <2>1, <2>2 DEF Configure
<1> QED BY <1>5, <1>6, <1>7 DEF Configure

LEMMA TypeHolds == Init => TypeOK
<1> SUFFICES ASSUME Init PROVE TypeOK
  OBVIOUS
<1>1. now \in Times
  BY TimeAssumption DEF Init, Times
<1>2. throttlers \in [Ids -> Throttlers(Nat, Nat) \cup {Absent}]
  BY ConfiguredAssumption DEF Init
<1> QED BY <1>1, <1>2 DEF Init, TypeOK

LEMMA EnforceDoes ==
  ASSUME TypeOK, NEW ids \in Kinds, Enforce(ids)
  PROVE  \E msg \in Messages :
           /\ msg.ids = ids /\ msg.time = now
           /\ toBuilder' = Append(toBuilder, msg)
           /\ history' = Append(history, [msg |-> msg, fresh |-> UpToDate])
<1>1. PICK state \in {"allowed", "suppressed"} :
        state = IF \E i \in DOMAIN ids : states[ids[i]] = "suppressed" THEN "suppressed" ELSE "allowed"
  OBVIOUS
<1>2. PICK msg : msg = [ids |-> ids, time |-> now, state |-> state]
  OBVIOUS
<1>3. msg \in Messages /\ msg.ids = ids /\ msg.time = now
  BY <1>1, <1>2 DEF TypeOK, Messages
<1>4. toBuilder' = Append(toBuilder, msg) /\ history' = Append(history, [msg |-> msg, fresh |-> UpToDate])
  BY <1>1, <1>2 DEF Enforce
<1> QED BY <1>3, <1>4

LEMMA BuildDoes ==
  ASSUME TypeOK, BuildState
  PROVE  /\ Builder \in Builders /\ Head(toBuilder) \in Messages
         /\ throttlers' = ObserveAll(Builder, Head(toBuilder)).throttlers
         /\ updates' = ObserveAll(Builder, Head(toBuilder)).updates
         /\ errors' = ObserveAll(Builder, Head(toBuilder)).errors
         /\ ObserveAll(Builder, Head(toBuilder)) \in Builders
<1>1. Builder \in Builders
  BY DEF Builder, Builders, TypeOK, Throttler
<1>2. Head(toBuilder) \in Messages
  BY DEF TypeOK, BuildState
<1> QED BY <1>1, <1>2, ObserveAllDoes DEF BuildState

LEMMA TypeStep == TypeOK /\ [Next]_vars => TypeOK'
<1> SUFFICES ASSUME TypeOK, [Next]_vars PROVE TypeOK'
  OBVIOUS
<1>1. CASE Tick
  <2>1. now' \in Times
    BY <1>1, TimeAssumption DEF Tick, Times, TypeOK
  <2> QED BY <1>1, <2>1 DEF Tick, TypeOK
<1>2. ASSUME NEW ids \in Kinds, Enforce(ids) PROVE TypeOK'
  <2>1. PICK msg \in Messages : /\ toBuilder' = Append(toBuilder, msg)
                                /\ history' = Append(history, [msg |-> msg, fresh |-> UpToDate])
    BY <1>2, EnforceDoes
  <2>2. PICK fresh \in BOOLEAN : fresh = UpToDate
    BY DEF UpToDate
  <2>3. toBuilder' \in Seq(Messages)
    BY <2>1 DEF TypeOK
  <2>4. history' \in Seq([msg : Messages, fresh : BOOLEAN])
    BY <2>1, <2>2 DEF TypeOK
  <2> QED BY <1>2, <2>3, <2>4 DEF Enforce, TypeOK
<1>3. CASE TakeStates
  <2>1. Head(toEnforcer) \in Seq(Updates) /\ Tail(toEnforcer) \in Seq(Seq(Updates))
    BY <1>3 DEF TakeStates, TypeOK
  <2>2. Apply(states, Head(toEnforcer)) \in [Ids -> Verdicts]
    BY <2>1, ApplyDoes DEF TypeOK, Verdicts
  <2> QED BY <1>3, <2>1, <2>2 DEF TakeStates, TypeOK, Verdicts
<1>4. CASE BuildState
  <2>1. /\ throttlers' \in [Ids -> Throttlers(Nat, Nat) \cup {Absent}]
        /\ updates' \in Seq(Updates)
        /\ errors' \in Nat
    BY <1>4, BuildDoes DEF Builders, Throttler
  <2>2. Tail(toBuilder) \in Seq(Messages)
    BY <1>4 DEF BuildState, TypeOK
  <2>3. current' \in SUBSET Ids
    <3>1. Head(toBuilder).ids \in Seq(Ids)
      BY <1>4, BuildDoes, KindsAssumption DEF Messages
    <3>2. ToSet(Head(toBuilder).ids) \subseteq Ids
      BY <3>1 DEF ToSet
    <3> QED BY <1>4, <3>2 DEF BuildState, TypeOK
  <2> QED BY <1>4, <2>1, <2>2, <2>3 DEF BuildState, TypeOK
<1>5. CASE FlushUpdates
  <2>1. Append(toEnforcer, updates) \in Seq(Seq(Updates)) /\ <<>> \in Seq(Updates)
    BY DEF TypeOK
  <2> QED BY <1>5, <2>1 DEF FlushUpdates, TypeOK
<1>6. CASE Configure
  <2>1. PICK command : command = Commands[Len(results) + 1]
    OBVIOUS
  <2>2. Configures(throttlers, throttlers', command.id) /\ command.id \in Ids
    BY <1>6, <2>1, ConfigureDoes
  <2>3. throttlers' \in [Ids -> Throttlers(Nat, Nat) \cup {Absent}]
    <3>1. throttlers \in [Ids -> Throttlers(Nat, Nat) \cup {Absent}]
      BY DEF TypeOK
    <3>2. \A th \in Throttler :
            [throttlers EXCEPT ![command.id] = th] \in [Ids -> Throttlers(Nat, Nat) \cup {Absent}]
      BY <3>1 DEF Throttler
    <3> QED BY <2>2, <3>1, <3>2 DEF Configures
  <2>4. current' \in SUBSET Ids /\ results' \in Seq({"completed", "failed"})
    BY <1>6, <2>1, ConfigureDoes DEF TypeOK
  <2> QED BY <1>6, <2>3, <2>4 DEF Configure, TypeOK
<1>7. CASE UNCHANGED vars
  BY <1>7 DEF vars, TypeOK
<1> QED BY <1>1, <1>2, <1>3, <1>4, <1>5, <1>6, <1>7 DEF Next

\* The state of the two stages and of their queues is what the code can hold:
\* every throttler is a throttler, every verdict a verdict, whatever the
\* messages and the configuration.
THEOREM ThrottlingTypeCorrect == Spec => []TypeOK
BY TypeHolds, TypeStep, PTL DEF Spec
-----------------------------------------------------------------------------
(* The enforcer's verdicts.                                                *)

\* The last message on its way to the enforcer that speaks of id says v; none
\* speaks of it.
Coming(queue, id, v) ==
  \E i \in DOMAIN queue : LastSays(queue[i], id, v)
                          /\ \A j \in DOMAIN queue : j > i => Silent(queue[j], id)

Still(queue, id) == \A i \in DOMAIN queue : Silent(queue[i], id)

\* What the enforcer has heard of id, or will hear last, is v.
Reported(us, queue, known, id, v) ==
  \/ LastSays(us, id, v)
  \/ Silent(us, id) /\ Coming(queue, id, v)
  \/ Silent(us, id) /\ Still(queue, id) /\ known[id] = v

\* The current verdict of an id is reported at last, if it is not yet known.
Follows ==
  \A id \in current : /\ throttlers[id] # Absent
                      /\ Reported(updates, toEnforcer, states, id, Verdict(throttlers[id]))

LEMMA Taken ==
  ASSUME NEW queue \in Seq(Seq(Updates)), queue # <<>>, NEW known \in [Ids -> Verdicts],
         NEW us, NEW id \in Ids, NEW v, Reported(us, queue, known, id, v)
  PROVE  Reported(us, Tail(queue), Apply(known, Head(queue)), id, v)
<1>1. PICK n : n = Len(queue)
  OBVIOUS
<1>2. PICK rest, first : rest = Tail(queue) /\ first = Head(queue)
  OBVIOUS
<1>3. /\ n \in Nat /\ n >= 1 /\ DOMAIN queue = 1 .. n /\ DOMAIN rest = 1 .. n - 1
      /\ first = queue[1] /\ \A i \in 1 .. n - 1 : rest[i] = queue[i + 1]
  BY <1>1, <1>2
<1>4. first \in Seq(Updates)
  BY <1>3
<1>5. PICK new : new = Apply(known, first)
  OBVIOUS
<1>6. (LastSays(first, id, v) => new[id] = v) /\ (Silent(first, id) => new[id] = known[id])
  BY <1>4, <1>5, ApplyDoes
<1>7. CASE Silent(us, id) /\ Coming(queue, id, v)
  <2>1. PICK i \in 1 .. n : LastSays(queue[i], id, v) /\ \A j \in 1 .. n : j > i => Silent(queue[j], id)
    BY <1>3, <1>7 DEF Coming
  <2>2. ASSUME i = 1 PROVE Still(rest, id) /\ new[id] = v
    <3>1. \A j \in 1 .. n - 1 : Silent(rest[j], id)
      <4> SUFFICES ASSUME NEW j \in 1 .. n - 1 PROVE Silent(rest[j], id)
        OBVIOUS
      <4>1. j + 1 \in 1 .. n /\ j + 1 > i
        BY <1>3, <2>2
      <4> QED BY <1>3, <2>1, <4>1
    <3> QED BY <1>3, <1>6, <2>1, <2>2, <3>1 DEF Still
  <2>3. ASSUME i # 1 PROVE Coming(rest, id, v)
    <3>1. i - 1 \in 1 .. n - 1 /\ rest[i - 1] = queue[i]
      <4>1. i - 1 \in 1 .. n - 1 /\ (i - 1) + 1 = i
        BY <1>3, <2>3
      <4> QED BY <1>3, <4>1
    <3>2. \A j \in 1 .. n - 1 : j > i - 1 => Silent(rest[j], id)
      <4> SUFFICES ASSUME NEW j \in 1 .. n - 1, j > i - 1 PROVE Silent(rest[j], id)
        OBVIOUS
      <4>1. j + 1 \in 1 .. n /\ j + 1 > i
        BY <1>3
      <4> QED BY <1>3, <2>1, <4>1
    <3>3. Coming(rest, id, v)
      BY <1>3, <2>1, <3>1, <3>2 DEF Coming
    <3> QED BY <3>3
  <2> QED BY <1>2, <1>5, <1>7, <2>2, <2>3 DEF Reported
<1>8. CASE Silent(us, id) /\ Still(queue, id) /\ known[id] = v
  <2>1. Silent(first, id)
    <3>1. 1 \in DOMAIN queue
      BY <1>3
    <3> QED BY <1>3, <1>8, <3>1 DEF Still
  <2>2. \A j \in 1 .. n - 1 : Silent(rest[j], id)
    <3> SUFFICES ASSUME NEW j \in 1 .. n - 1 PROVE Silent(rest[j], id)
      OBVIOUS
    <3>1. j + 1 \in 1 .. n
      BY <1>3
    <3> QED BY <1>3, <1>8, <3>1 DEF Still
  <2>3. Still(rest, id) /\ new[id] = v
    BY <1>3, <1>6, <1>8, <2>1, <2>2 DEF Still
  <2> QED BY <1>2, <1>5, <2>3 DEF Reported
<1>9. CASE LastSays(us, id, v)
  BY <1>9 DEF Reported
<1> QED BY <1>7, <1>8, <1>9 DEF Reported

LEMMA Flushed ==
  ASSUME NEW queue \in Seq(Seq(Updates)), NEW us \in Seq(Updates), NEW known,
         NEW id, NEW v, Reported(us, queue, known, id, v)
  PROVE  Reported(<<>>, Append(queue, us), known, id, v)
<1>1. PICK n, more : n = Len(queue) /\ more = Append(queue, us)
  OBVIOUS
<1>2. /\ n \in Nat /\ DOMAIN queue = 1 .. n /\ DOMAIN more = 1 .. n + 1
      /\ more[n + 1] = us /\ \A i \in 1 .. n : more[i] = queue[i]
  BY <1>1
<1>3. Silent(<<>>, id)
  BY DEF Silent
<1>4. \A j \in 1 .. n + 1 : j = n + 1 \/ j \in 1 .. n
  BY <1>2
<1>5. CASE LastSays(us, id, v)
  <2>1. n + 1 \in 1 .. n + 1 /\ \A j \in 1 .. n + 1 : ~(j > n + 1)
    BY <1>2
  <2>2. Coming(more, id, v)
    BY <1>2, <1>5, <2>1 DEF Coming
  <2> QED BY <1>1, <1>3, <2>2 DEF Reported
<1>6. CASE Silent(us, id) /\ Coming(queue, id, v)
  <2>1. PICK i \in 1 .. n : LastSays(queue[i], id, v) /\ \A j \in 1 .. n : j > i => Silent(queue[j], id)
    BY <1>2, <1>6 DEF Coming
  <2>2. i \in 1 .. n + 1 /\ LastSays(more[i], id, v)
    BY <1>2, <2>1
  <2>3. \A j \in 1 .. n + 1 : j > i => Silent(more[j], id)
    BY <1>2, <1>4, <1>6, <2>1
  <2>4. Coming(more, id, v)
    BY <1>2, <2>2, <2>3 DEF Coming
  <2> QED BY <1>1, <1>3, <2>4 DEF Reported
<1>7. CASE Silent(us, id) /\ Still(queue, id) /\ known[id] = v
  <2>1. Still(more, id)
    BY <1>2, <1>4, <1>7 DEF Still
  <2> QED BY <1>1, <1>3, <1>7, <2>1 DEF Reported
<1> QED BY <1>5, <1>6, <1>7 DEF Reported

LEMMA FollowsStep == TypeOK /\ Follows /\ [Next]_vars => Follows'
<1> SUFFICES ASSUME TypeOK, Follows, [Next]_vars PROVE Follows'
  OBVIOUS
<1>1. CASE Tick
  BY <1>1 DEF Tick, Follows
<1>2. ASSUME NEW ids \in Kinds, Enforce(ids) PROVE Follows'
  BY <1>2 DEF Enforce, Follows
<1>3. CASE TakeStates
  <2>1. PICK known : known = Apply(states, Head(toEnforcer))
    OBVIOUS
  <2>2. \A id \in current : Reported(updates, Tail(toEnforcer), known, id, Verdict(throttlers[id]))
    <3> SUFFICES ASSUME NEW id \in current
                 PROVE  Reported(updates, Tail(toEnforcer), known, id, Verdict(throttlers[id]))
      OBVIOUS
    <3>1. toEnforcer \in Seq(Seq(Updates)) /\ toEnforcer # <<>> /\ states \in [Ids -> Verdicts] /\ id \in Ids
      BY <1>3 DEF TakeStates, TypeOK, Verdicts
    <3>2. Reported(updates, toEnforcer, states, id, Verdict(throttlers[id]))
      BY DEF Follows
    <3> QED BY <2>1, <3>1, <3>2, Taken
  <2> QED BY <1>3, <2>1, <2>2 DEF TakeStates, Follows
<1>4. CASE BuildState
  <2>1. PICK msg, after : msg = Head(toBuilder) /\ after = ObserveAll(Builder, msg)
    OBVIOUS
  <2>2. Builder \in Builders /\ msg \in Messages /\ throttlers' = after.throttlers /\ updates' = after.updates
    BY <1>4, <2>1, BuildDoes
  <2>3. Builder.throttlers = throttlers /\ Builder.updates = updates
    BY DEF Builder
  <2>4. /\ \A id \in Ids : PassedOver(Builder, after, id) \/ Evaluated(Builder, after, id)
        /\ \A id \in ToSet(msg.ids) : throttlers[id] # Absent => Evaluated(Builder, after, id)
    BY <2>1, <2>2, <2>3, ObserveAllDoes
  <2>5. current' = current \cup {id \in ToSet(msg.ids) : throttlers[id] # Absent}
        /\ toEnforcer' = toEnforcer /\ states' = states
    BY <1>4, <2>1 DEF BuildState
  <2>6. ASSUME NEW id \in current'
        PROVE  /\ after.throttlers[id] # Absent
               /\ Reported(after.updates, toEnforcer, states, id, Verdict(after.throttlers[id]))
    <3>1. CASE Evaluated(Builder, after, id)
      BY <3>1 DEF Evaluated, Reported
    <3>2. CASE ~Evaluated(Builder, after, id)
      <4>1. id \in current
        BY <2>4, <2>5, <2>6, <3>2
      <4>2. PassedOver(Builder, after, id)
        BY <2>4, <3>2, <4>1 DEF TypeOK
      <4>3. throttlers[id] # Absent /\ Reported(updates, toEnforcer, states, id, Verdict(throttlers[id]))
        BY <4>1 DEF Follows
      <4> QED BY <2>3, <4>2, <4>3 DEF PassedOver, Reported
    <3> QED BY <3>1, <3>2
  <2> QED BY <2>2, <2>5, <2>6 DEF Follows
<1>5. CASE FlushUpdates
  <2>1. \A id \in current : Reported(<<>>, Append(toEnforcer, updates), states, id, Verdict(throttlers[id]))
    <3> SUFFICES ASSUME NEW id \in current
                 PROVE  Reported(<<>>, Append(toEnforcer, updates), states, id, Verdict(throttlers[id]))
      OBVIOUS
    <3>1. toEnforcer \in Seq(Seq(Updates)) /\ updates \in Seq(Updates)
      BY DEF TypeOK
    <3>2. Reported(updates, toEnforcer, states, id, Verdict(throttlers[id]))
      BY DEF Follows
    <3> QED BY <3>1, <3>2, Flushed
  <2> QED BY <1>5, <2>1 DEF FlushUpdates, Follows
<1>6. CASE Configure
  <2>1. PICK command : command = Commands[Len(results) + 1]
    OBVIOUS
  <2>2. /\ Configures(throttlers, throttlers', command.id)
        /\ current' = IF throttlers' = throttlers THEN current ELSE current \ {command.id}
    BY <1>6, <2>1, ConfigureDoes
  <2>3. updates' = updates /\ toEnforcer' = toEnforcer /\ states' = states
    BY <1>6 DEF Configure
  <2>4. throttlers \in [Ids -> Throttlers(Nat, Nat) \cup {Absent}] /\ current \subseteq Ids
    BY DEF TypeOK
  <2>5. \A id \in current' : id \in current /\ throttlers'[id] = throttlers[id]
    BY <2>2, <2>4 DEF Configures
  <2> QED BY <2>3, <2>5 DEF Follows
<1>7. CASE UNCHANGED vars
  BY <1>7 DEF vars, Follows
<1> QED BY <1>1, <1>2, <1>3, <1>4, <1>5, <1>6, <1>7 DEF Next

\* Once all reports have arrived, the enforcer goes by the verdict the builder
\* would give now, however updates, flushes, deliveries and commands interleave
\* (on_throttle_state_message takes the updates of a message in order).
THEOREM EnforcerFollows == Spec => []EnforcerFollowsBuilder
<1>1. Init => TypeOK /\ Follows
  BY TypeHolds DEF Init, Follows
<1>2. TypeOK /\ Follows /\ [Next]_vars => TypeOK' /\ Follows'
  BY TypeStep, FollowsStep
<1>3. TypeOK /\ Follows => EnforcerFollowsBuilder
  <2> SUFFICES ASSUME TypeOK, Follows, updates = <<>>, toEnforcer = <<>>, NEW id \in current
               PROVE  states[id] = Verdict(throttlers[id])
    BY DEF EnforcerFollowsBuilder
  <2>1. Reported(updates, toEnforcer, states, id, Verdict(throttlers[id]))
    BY DEF Follows
  <2> QED BY <2>1 DEF Reported, LastSays, Coming
<1> QED BY <1>1, <1>2, <1>3, PTL DEF Spec
-----------------------------------------------------------------------------
(* What a log knows of the messages let through.                           *)

Bounded(log, time) == \A p \in 1 .. Len(log) : log[p] <= time

\* The log has an entry of its own, with the right time, for every member of S.
Tracks(log, S, stamp) ==
  \E f \in [S -> 1 .. Len(log)] :
    /\ \A i, j \in S : f[i] = f[j] => i = j
    /\ \A j \in S : log[f[j]] = stamp[j]

Logs(log, S, stamp, time) == Sorted(log) /\ Bounded(log, time) /\ Tracks(log, S, stamp)

LEMMA LogsFewer ==
  ASSUME NEW log, NEW S, NEW stamp, NEW time, Logs(log, S, stamp, time), NEW T \in SUBSET S
  PROVE  Logs(log, T, stamp, time)
<1>1. PICK f \in [S -> 1 .. Len(log)] : /\ \A i, j \in S : f[i] = f[j] => i = j
                                        /\ \A j \in S : log[f[j]] = stamp[j]
  BY DEF Logs, Tracks
<1>2. PICK g : g = [j \in T |-> f[j]]
  OBVIOUS
<1>3. g \in [T -> 1 .. Len(log)]
  BY <1>1, <1>2
<1>4. (\A i, j \in T : g[i] = g[j] => i = j) /\ (\A j \in T : log[g[j]] = stamp[j])
  BY <1>1, <1>2
<1>5. Tracks(log, T, stamp)
  BY <1>3, <1>4 DEF Tracks
<1> QED BY <1>5 DEF Logs

LEMMA LogsOneMore ==
  ASSUME NEW log \in Seq(Nat), NEW S, NEW stamp, NEW time \in Nat, Logs(log, S, stamp, time),
         NEW n, stamp[n] = time
  PROVE  Logs(Append(log, time), S \cup {n}, stamp, time)
<1>1. PICK f \in [S -> 1 .. Len(log)] : /\ \A i, j \in S : f[i] = f[j] => i = j
                                        /\ \A j \in S : log[f[j]] = stamp[j]
  BY DEF Logs, Tracks
<1>2. PICK len, more : len = Len(log) /\ more = Append(log, time)
  OBVIOUS
<1>3. /\ len \in Nat /\ Len(more) = len + 1 /\ more[len + 1] = time
      /\ \A p \in 1 .. len : more[p] = log[p] /\ log[p] \in Nat /\ log[p] <= time
      /\ \A p \in 1 .. len + 1 : p = len + 1 \/ p \in 1 .. len
  BY <1>2 DEF Logs, Bounded
<1>4. Sorted(more)
  <2> SUFFICES ASSUME NEW i \in 1 .. len + 1, NEW j \in 1 .. len + 1, i <= j PROVE more[i] <= more[j]
    BY <1>3 DEF Sorted
  <2>1. CASE j = len + 1
    BY <1>3, <2>1
  <2>2. CASE j # len + 1
    <3>1. i \in 1 .. len /\ j \in 1 .. len
      BY <1>3, <2>2
    <3>2. log[i] <= log[j]
      BY <1>2, <3>1 DEF Logs, Sorted
    <3> QED BY <1>3, <3>1, <3>2
  <2> QED BY <2>1, <2>2
<1>5. Bounded(more, time)
  BY <1>3 DEF Bounded
<1>6. PICK g : g = [j \in S \cup {n} |-> IF j = n THEN len + 1 ELSE f[j]]
  OBVIOUS
<1>7. \A j \in S : f[j] \in 1 .. len
  BY <1>1, <1>2
<1>8. \A j \in S \cup {n} : IF j = n THEN g[j] = len + 1 ELSE j \in S /\ g[j] = f[j] /\ g[j] \in 1 .. len
  BY <1>6, <1>7
<1>9. g \in [S \cup {n} -> 1 .. len + 1]
  <2>1. len + 1 \in 1 .. len + 1 /\ \A p \in 1 .. len : p \in 1 .. len + 1 /\ p # len + 1
    BY <1>3
  <2>2. \A j \in S \cup {n} : g[j] \in 1 .. len + 1
    BY <1>8, <2>1
  <2> QED BY <1>6, <2>2
<1>10. ASSUME NEW i \in S \cup {n}, NEW j \in S \cup {n}, g[i] = g[j] PROVE i = j
  <2>1. len + 1 \notin 1 .. len
    BY <1>3
  <2> QED BY <1>1, <1>8, <1>10, <2>1
<1>11. ASSUME NEW j \in S \cup {n} PROVE more[g[j]] = stamp[j]
  <2>1. CASE j = n
    BY <1>3, <1>8, <2>1
  <2>2. CASE j # n
    BY <1>1, <1>3, <1>8, <2>2
  <2> QED BY <2>1, <2>2
<1>12. Tracks(more, S \cup {n}, stamp)
  BY <1>3, <1>9, <1>10, <1>11 DEF Tracks
<1> QED BY <1>2, <1>4, <1>5, <1>12 DEF Logs

LEMMA LogsCut ==
  ASSUME NEW log \in Seq(Nat), NEW S, NEW stamp, NEW time \in Nat, Logs(log, S, stamp, time),
         NEW bound \in Nat, \A j \in S : bound <= stamp[j]
  PROVE  Logs(SubSeq(log, LowerBound(log, bound), Len(log)), S, stamp, time)
<1>1. PICK f \in [S -> 1 .. Len(log)] : /\ \A i, j \in S : f[i] = f[j] => i = j
                                        /\ \A j \in S : log[f[j]] = stamp[j]
  BY DEF Logs, Tracks
<1>2. PICK len, cut, rest : len = Len(log) /\ cut = LowerBound(log, bound) /\ rest = SubSeq(log, cut, len)
  OBVIOUS
<1>3. cut \in 1 .. len + 1 /\ \A i \in 1 .. len : log[i] < bound <=> i < cut
  BY <1>2, LowerBoundFinds DEF Logs
<1>4. len \in Nat /\ \A p \in 1 .. len : log[p] \in Nat /\ log[p] <= time
  BY <1>2 DEF Logs, Bounded
<1>5. Len(rest) = len - cut + 1 /\ \A p \in 1 .. len - cut + 1 : rest[p] = log[cut + p - 1]
  <2>1. \A p \in cut .. len : log[p] \in Nat
    BY <1>3, <1>4
  <2>2. cut \in Int /\ len \in Int /\ cut <= len + 1
    BY <1>3, <1>4
  <2>3. /\ Len(rest) = IF cut <= len THEN len - cut + 1 ELSE 0
        /\ \A p \in 1 .. len - cut + 1 : rest[p] = log[cut + p - 1]
    <3>1. PICK a, b : a = cut /\ b = len
      OBVIOUS
    <3>2. a \in Int /\ b \in Int /\ \A i \in a .. b : log[i] \in Nat
      BY <2>1, <2>2, <3>1
    <3>3. /\ Len(SubSeq(log, a, b)) = IF a <= b THEN b - a + 1 ELSE 0
          /\ \A p \in 1 .. b - a + 1 : SubSeq(log, a, b)[p] = log[a + p - 1]
      BY <3>2, SubSeqProperties
    <3> QED BY <1>2, <3>1, <3>3
  <2>4. (IF cut <= len THEN len - cut + 1 ELSE 0) = len - cut + 1
    BY <2>2
  <2> QED BY <2>3, <2>4
<1>6. \A p \in 1 .. len - cut + 1 : cut + p - 1 \in 1 .. len
  BY <1>3, <1>4
<1>7. Sorted(rest)
  <2> SUFFICES ASSUME NEW i \in 1 .. len - cut + 1, NEW j \in 1 .. len - cut + 1, i <= j
               PROVE  rest[i] <= rest[j]
    BY <1>5 DEF Sorted
  <2>1. cut + i - 1 <= cut + j - 1
    BY <1>3
  <2>2. log[cut + i - 1] <= log[cut + j - 1]
    BY <1>2, <1>6, <2>1 DEF Logs, Sorted
  <2> QED BY <1>5, <2>2
<1>8. Bounded(rest, time)
  BY <1>4, <1>5, <1>6 DEF Bounded
<1>9. PICK g : g = [j \in S |-> f[j] - cut + 1]
  OBVIOUS
<1>10. ASSUME NEW j \in S
       PROVE  /\ f[j] \in 1 .. len /\ g[j] = f[j] - cut + 1
              /\ g[j] \in 1 .. len - cut + 1 /\ rest[g[j]] = stamp[j]
  <2>1. f[j] \in 1 .. len /\ g[j] = f[j] - cut + 1
    BY <1>1, <1>2, <1>9
  <2>3. PICK q \in 1 .. len : q = f[j]
    BY <2>1
  <2>2. ~(log[q] < bound)
    <3>1. log[q] = stamp[j] /\ bound <= stamp[j]
      BY <1>1, <2>3
    <3>2. PICK x : x = log[q]
      OBVIOUS
    <3>3. x \in Nat /\ bound <= x
      BY <1>4, <3>1, <3>2
    <3> QED BY <3>2, <3>3
  <2>4. q >= cut
    BY <1>3, <2>2, <2>3
  <2>5. q - cut + 1 \in 1 .. len - cut + 1 /\ cut + (q - cut + 1) - 1 = q
    BY <1>3, <1>4, <2>4
  <2>6. rest[q - cut + 1] = log[q]
    BY <1>5, <2>5
  <2> QED BY <1>1, <2>1, <2>3, <2>5, <2>6
<1>11. ASSUME NEW i \in S, NEW j \in S, g[i] = g[j] PROVE i = j
  <2>1. PICK p, q \in 1 .. len : p = f[i] /\ q = f[j]
    BY <1>10
  <2>2. p - cut + 1 = q - cut + 1
    BY <1>10, <1>11, <2>1
  <2>3. p = q
    BY <1>3, <2>2
  <2> QED BY <1>1, <2>1, <2>3
<1>12. g \in [S -> 1 .. Len(rest)]
  BY <1>5, <1>9, <1>10
<1>13. Tracks(rest, S, stamp)
  BY <1>10, <1>11, <1>12 DEF Tracks
<1> QED BY <1>2, <1>7, <1>8, <1>13 DEF Logs

LEMMA LogsEvaluated ==
  ASSUME NEW th \in Throttler, NEW msg \in Messages, th.window <= msg.time,
         NEW S, NEW stamp, Logs(th.log, S, stamp, msg.time),
         \A j \in S : msg.time - th.window <= stamp[j],
         NEW n, stamp[n] = msg.time
  PROVE  Logs(Evaluate(th, msg).log, IF msg.state = "allowed" THEN S \cup {n} ELSE S, stamp, msg.time)
<1>1. msg.time \in Nat /\ msg.time < WordSize /\ th.window \in Nat /\ th.log \in Seq(Nat) /\ WordSize \in Nat
  BY TimeAssumption, WordAssumption DEF Messages, Times, Throttler, Throttlers
<1>2. ASSUME NEW one \in Throttler, one.window = th.window,
             NEW T, Logs(one.log, T, stamp, msg.time), \A j \in T : msg.time - th.window <= stamp[j]
      PROVE  Logs(ReEvaluate(one, msg.time).log, T, stamp, msg.time)
  <2>1. one.log \in Seq(Nat)
    BY DEF Throttler, Throttlers
  <2>2. Cutoff(one, msg.time) = msg.time - th.window /\ Cutoff(one, msg.time) \in Nat
    BY <1>1, <1>2, CutoffType
  <2>3. Truncate(one, msg.time).log =
          SubSeq(one.log, LowerBound(one.log, Cutoff(one, msg.time)), Len(one.log))
    BY <1>1, TruncateType
  <2>4. Logs(Truncate(one, msg.time).log, T, stamp, msg.time)
    BY <1>1, <1>2, <2>1, <2>2, <2>3, LogsCut
  <2> QED BY <1>2, <2>4 DEF ReEvaluate
<1>3. CASE msg.state = "allowed"
  <2>1. PICK logged : logged = [th EXCEPT !.log = Append(@, msg.time)]
    OBVIOUS
  <2>2. logged \in Throttler /\ logged.window = th.window /\ logged.log = Append(th.log, msg.time)
    BY <1>1, <2>1, StampAdded
  <2>3. Logs(logged.log, S \cup {n}, stamp, msg.time)
    <3>1. PICK log, time : log = th.log /\ time = msg.time
      OBVIOUS
    <3>2. log \in Seq(Nat) /\ time \in Nat /\ Logs(log, S, stamp, time) /\ stamp[n] = time
      BY <1>1, <3>1
    <3>3. Logs(Append(log, time), S \cup {n}, stamp, time)
      BY <3>2, LogsOneMore
    <3> QED BY <2>2, <3>1, <3>3
  <2>4. \A j \in S \cup {n} : msg.time - th.window <= stamp[j]
    BY <1>1
  <2>5. Evaluate(th, msg) = ReEvaluate(logged, msg.time)
    BY <1>3, <2>1 DEF Evaluate, AddTimestamp
  <2> QED BY <1>2, <1>3, <2>2, <2>3, <2>4, <2>5
<1>4. CASE msg.state # "allowed"
  <2>1. Evaluate(th, msg) = ReEvaluate(th, msg.time)
    BY <1>4 DEF Evaluate
  <2> QED BY <1>2, <1>4, <2>1
<1> QED BY <1>3, <1>4

LEMMA ObserveThrottlers ==
  ASSUME NEW b \in Builders, NEW id \in Ids, NEW msg \in Messages
  PROVE  /\ b.throttlers[id] # Absent =>
              Observe(b, id, msg).throttlers[id] = Evaluate(b.throttlers[id], msg)
         /\ \A x \in Ids : x # id => Observe(b, id, msg).throttlers[x] = b.throttlers[x]
<1>1. CASE b.throttlers[id] = Absent
  BY <1>1 DEF Observe, Builders
<1>2. CASE b.throttlers[id] # Absent
  <2>1. PICK th, us : /\ th = Evaluate(b.throttlers[id], msg)
                      /\ us = Append(b.updates, <<id, Verdict(th)>>)
    OBVIOUS
  <2>2. Observe(b, id, msg) = [b EXCEPT !.throttlers = [b.throttlers EXCEPT ![id] = th], !.updates = us]
    BY <1>2, <2>1 DEF Observe, Builders
  <2>3. Observe(b, id, msg).throttlers = [b.throttlers EXCEPT ![id] = th]
    BY <2>2 DEF Builders
  <2> QED BY <2>1, <2>3 DEF Builders
<1> QED BY <1>1, <1>2

\* The throttler of an id on the way through a message.
LEMMA ThrottlerSteps ==
  ASSUME NEW b \in Builders, NEW msg \in Messages, NEW id \in Ids,
         NEW ids, ids = msg.ids, NEW len, len = Len(ids)
  PROVE  /\ len \in Nat /\ DOMAIN ids = 1 .. len
         /\ \E g : /\ g[0] = b.throttlers[id] /\ g[len] = ObserveAll(b, msg).throttlers[id]
                 /\ \A k \in Nat : k + 1 <= len =>
                      /\ ids[k + 1] # id => g[k + 1] = g[k]
                      /\ ids[k + 1] = id /\ g[k] # Absent => g[k + 1] = Evaluate(g[k], msg)
<1>1. ids \in Seq(Ids)
  BY KindsAssumption DEF Messages
<1>2. PICK h \in [0 .. Len(ids) -> Builders] :
         /\ h[0] = b /\ h[Len(ids)] = ObserveAll(b, msg)
         /\ \A i \in 1 .. Len(ids) : h[i] = Observe(h[i - 1], ids[i], msg)
  BY <1>1, ObserveSteps
<1>3. len \in Nat /\ DOMAIN ids = 1 .. len /\ \A i \in 1 .. len : ids[i] \in Ids
  BY <1>1
<1>4. PICK g : g = [k \in 0 .. len |-> h[k].throttlers[id]]
  OBVIOUS
<1>5. /\ g[0] = b.throttlers[id] /\ g[len] = ObserveAll(b, msg).throttlers[id]
      /\ \A k \in 0 .. len : g[k] = h[k].throttlers[id]
  <2>1. 0 \in 0 .. len /\ len \in 0 .. len
    BY <1>3
  <2> QED BY <1>2, <1>4, <2>1
<1>6. ASSUME NEW k \in Nat, k + 1 <= len
      PROVE  /\ ids[k + 1] # id => g[k + 1] = g[k]
             /\ ids[k + 1] = id /\ g[k] # Absent => g[k + 1] = Evaluate(g[k], msg)
  <2>1. k + 1 \in 1 .. Len(ids) /\ (k + 1) - 1 = k /\ k \in 0 .. len /\ k + 1 \in 0 .. len
    BY <1>3, <1>6
  <2>2. h[k] \in Builders /\ ids[k + 1] \in Ids
    BY <1>3, <2>1
  <2>3. h[k + 1] = Observe(h[k], ids[k + 1], msg)
    BY <1>2, <2>1
  <2> QED BY <1>5, <2>1, <2>2, <2>3, ObserveThrottlers
<1> QED BY <1>3, <1>5, <1>6

\* A message that is observed keeps what the log of an id knows, and adds the
\* message if it was let through and names the id.
Known(one, msg, w, S, stamp, n) ==
  /\ one # Absent /\ one.window = w /\ w <= msg.time
  /\ Logs(one.log, S, stamp, msg.time)
  /\ \A j \in S : msg.time - w <= stamp[j]
  /\ stamp[n] = msg.time

Learnt(one, th, msg, id, w, S, stamp, n) ==
  /\ th # Absent /\ th.window = w /\ th.allowed = one.allowed
  /\ Logs(th.log, S, stamp, msg.time)
  /\ id \in ToSet(msg.ids) /\ msg.state = "allowed" => Logs(th.log, S \cup {n}, stamp, msg.time)

LEMMA ObserveAllLogs ==
  ASSUME NEW b \in Builders, NEW msg \in Messages, NEW id \in Ids,
         NEW w, NEW S, NEW stamp, NEW n, Known(b.throttlers[id], msg, w, S, stamp, n)
  PROVE  Learnt(b.throttlers[id], ObserveAll(b, msg).throttlers[id], msg, id, w, S, stamp, n)
<1> DEFINE th == ObserveAll(b, msg).throttlers[id]
<1>0. /\ b.throttlers[id] # Absent /\ w = b.throttlers[id].window /\ w <= msg.time
      /\ Logs(b.throttlers[id].log, S, stamp, msg.time)
      /\ \A j \in S : msg.time - w <= stamp[j]
      /\ stamp[n] = msg.time
  BY DEF Known
<1>1. PICK ids, len : ids = msg.ids /\ len = Len(ids)
  OBVIOUS
<1>2. len \in Nat /\ DOMAIN ids = 1 .. len
  BY <1>1, ThrottlerSteps
<1>3. PICK g : /\ g[0] = b.throttlers[id] /\ g[len] = th
               /\ \A k \in Nat : k + 1 <= len =>
                    /\ ids[k + 1] # id => g[k + 1] = g[k]
                    /\ ids[k + 1] = id /\ g[k] # Absent => g[k + 1] = Evaluate(g[k], msg)
  BY <1>1, ThrottlerSteps
<1> DEFINE Named(k) == \E i \in 1 .. k : ids[i] = id
           Knows(k) == IF Named(k) /\ msg.state = "allowed" THEN S \cup {n} ELSE S
           Good(k) == /\ g[k] \in Throttler /\ g[k].window = w /\ g[k].allowed = g[0].allowed
                      /\ Logs(g[k].log, Knows(k), stamp, msg.time)
           G == {k \in Nat : k <= len => Good(k)}
<1>4. 0 \in G
  <2>1. g[0] \in Throttler
    BY <1>0, <1>3 DEF Builders
  <2>2. ~Named(0)
    OBVIOUS
  <2> QED BY <1>0, <1>3, <2>1, <2>2
<1>5. ASSUME NEW k \in Nat, k \in G PROVE k + 1 \in G
  <2> SUFFICES ASSUME k + 1 <= len PROVE Good(k + 1)
    OBVIOUS
  <2>1. Good(k)
    BY <1>2, <1>5
  <2>2. Named(k + 1) <=> Named(k) \/ ids[k + 1] = id
    <3>1. \A i \in 1 .. k + 1 : i = k + 1 \/ i \in 1 .. k
      OBVIOUS
    <3>2. k + 1 \in 1 .. k + 1 /\ \A i \in 1 .. k : i \in 1 .. k + 1
      OBVIOUS
    <3> QED BY <3>1, <3>2
  <2>3. CASE ids[k + 1] # id
    BY <1>3, <2>1, <2>2, <2>3
  <2>4. CASE ids[k + 1] = id
    <3>1. g[k + 1] = Evaluate(g[k], msg)
      BY <1>3, <2>1, <2>4, AbsentAssumption DEF Throttler
    <3>2. g[k + 1] \in Throttler /\ g[k + 1].window = w /\ g[k + 1].allowed = g[0].allowed
      BY <2>1, <3>1, EvaluateType
    <3>3. PICK T, one : T = Knows(k) /\ one = g[k]
      OBVIOUS
    <3>4. \A j \in T : msg.time - w <= stamp[j]
      <4>1. w \in Nat /\ msg.time \in Nat
        BY <2>1, TimeAssumption DEF Messages, Times, Throttler, Throttlers
      <4>2. msg.time - w <= msg.time
        BY <4>1
      <4> QED BY <1>0, <3>3, <4>2
    <3>5. Logs(Evaluate(one, msg).log, IF msg.state = "allowed" THEN T \cup {n} ELSE T, stamp, msg.time)
      <4>1. one \in Throttler /\ one.window = w /\ Logs(one.log, T, stamp, msg.time)
        BY <2>1, <3>3
      <4> HIDE DEF Good, Knows
      <4> QED BY <1>0, <3>4, <4>1, LogsEvaluated
    <3>6. (IF msg.state = "allowed" THEN T \cup {n} ELSE T) = Knows(k + 1)
      BY <2>2, <2>4, <3>3
    <3> QED BY <3>1, <3>2, <3>3, <3>5, <3>6
  <2> QED BY <2>3, <2>4
<1> HIDE DEF Good
<1>6. \A k \in Nat : k \in G
  <2> HIDE DEF G
  <2> QED BY <1>4, <1>5, Counting
<1>7. Good(len)
  BY <1>2, <1>6
<1>8. /\ th \in Throttler /\ th.window = w /\ th.allowed = b.throttlers[id].allowed
       /\ Logs(th.log, Knows(len), stamp, msg.time)
  BY <1>3, <1>7 DEF Good
<1>9. th # Absent
  BY <1>8, AbsentAssumption DEF Throttler
<1>10. id \in ToSet(msg.ids) => Named(len)
  BY <1>1, <1>2 DEF ToSet
<1>11. Logs(th.log, S, stamp, msg.time)
  <2>1. PICK T : T = Knows(len)
    OBVIOUS
  <2>2. S \in SUBSET T
    BY <2>1
  <2> HIDE DEF Knows
  <2> QED BY <1>8, <2>1, <2>2, LogsFewer
<1> QED BY <1>8, <1>9, <1>10, <1>11 DEF Learnt
-----------------------------------------------------------------------------
(* The messages let through and the logs.                                  *)

Entries == [msg : Messages, fresh : BOOLEAN]

\* The builder has seen all messages but those in its queue; the time stamps
\* are in order.
Ordered(hist, queue, t) ==
  /\ Len(queue) <= Len(hist)
  /\ \A k \in 1 .. Len(queue) : queue[k] = hist[Len(hist) - Len(queue) + k].msg
  /\ \A i \in 1 .. Len(hist) : hist[i].msg.time <= t
  /\ \A i, j \in 1 .. Len(hist) : i <= j => hist[i].msg.time <= hist[j].msg.time

StampsOf(hist) == [j \in DOMAIN hist |-> hist[j].msg.time]

\* The messages of id let through in the last window, of the first m.
Recent(hist, m, t, id) ==
  {j \in 1 .. m : /\ hist[j].msg.state = "allowed" /\ id \in ToSet(hist[j].msg.ids)
                  /\ t - hist[j].msg.time < Configured[id].window}

\* th is still as configured, and its log knows of all it should; if it has not
\* been evaluated, no message has named it.
KeptFor(th, hist, queue, t, cur, id) ==
  /\ th # Absent
  /\ th.window = Configured[id].window /\ th.allowed = Configured[id].allowed
  /\ Logs(th.log, Recent(hist, Len(hist) - Len(queue), t, id), StampsOf(hist), t)
  /\ \A k \in 1 .. Len(queue) : Bounded(th.log, queue[k].time)
  /\ id \in cur \/ \A j \in 1 .. Len(hist) - Len(queue) : id \notin ToSet(hist[j].msg.ids)

LEMMA EntryTypes ==
  ASSUME NEW hist \in Seq(Entries), NEW i \in 1 .. Len(hist)
  PROVE  /\ hist[i].msg \in Messages /\ hist[i].msg.time \in Nat
         /\ StampsOf(hist)[i] = hist[i].msg.time
<1>1. hist[i] \in Entries /\ i \in DOMAIN hist
  OBVIOUS
<1> QED BY <1>1, TimeAssumption DEF Entries, Messages, Times, StampsOf

LEMMA ConfiguredType ==
  ASSUME NEW id \in Ids, Configured[id] # Absent
  PROVE  Configured[id] \in Throttler /\ Configured[id].window \in Nat /\ Configured[id].allowed \in Nat
BY ConfiguredAssumption DEF Throttler, Throttlers

LEMMA LogsLater ==
  ASSUME NEW log \in Seq(Nat), NEW S, NEW stamp, NEW time \in Nat, Logs(log, S, stamp, time),
         NEW later \in Nat, time <= later
  PROVE  Logs(log, S, stamp, later)
<1>1. \A p \in 1 .. Len(log) : log[p] \in Nat
  OBVIOUS
<1> QED BY <1>1 DEF Logs, Bounded

LEMMA LogsStamps ==
  ASSUME NEW log, NEW S, NEW stamp, NEW time, Logs(log, S, stamp, time),
         NEW other, \A j \in S : other[j] = stamp[j]
  PROVE  Logs(log, S, other, time)
BY DEF Logs, Tracks

LEMMA KeptTick ==
  ASSUME NEW th \in Throttler, NEW hist \in Seq(Entries), NEW queue \in Seq(Messages),
         NEW t \in Nat, NEW cur, NEW id \in Ids, Configured[id] # Absent,
         Ordered(hist, queue, t), KeptFor(th, hist, queue, t, cur, id)
  PROVE  KeptFor(th, hist, queue, t + 1, cur, id)
<1>1. PICK m : m = Len(hist) - Len(queue)
  OBVIOUS
<1>2. m \in Nat /\ m <= Len(hist)
  BY <1>1 DEF Ordered
<1>3. ASSUME NEW j \in Recent(hist, m, t + 1, id) PROVE j \in Recent(hist, m, t, id)
  <2>1. j \in 1 .. Len(hist)
    BY <1>2 DEF Recent
  <2>2. hist[j].msg.time \in Nat /\ Configured[id].window \in Nat
    BY <2>1, EntryTypes, ConfiguredType
  <2>3. PICK x, w : x = hist[j].msg.time /\ w = Configured[id].window
    OBVIOUS
  <2>4. t - x < w
    <3>1. PICK later \in Nat : later = t + 1
      OBVIOUS
    <3>2. j \in Recent(hist, m, later, id)
      BY <3>1
    <3>3. later - hist[j].msg.time < Configured[id].window
      BY <3>2 DEF Recent
    <3>4. later - x < w /\ x \in Int /\ w \in Int
      BY <2>2, <2>3, <3>3
    <3> QED BY <3>1, <3>4
  <2>5. t - hist[j].msg.time < Configured[id].window
    BY <2>3, <2>4
  <2> QED BY <2>5 DEF Recent
<1>4. Logs(th.log, Recent(hist, m, t, id), StampsOf(hist), t)
  BY <1>1 DEF KeptFor
<1>5. PICK S, T : S = Recent(hist, m, t, id) /\ T = Recent(hist, m, t + 1, id)
  OBVIOUS
<1>6. Logs(th.log, T, StampsOf(hist), t)
  <2>1. T \in SUBSET S
    BY <1>3, <1>5
  <2> QED BY <1>4, <1>5, <2>1, LogsFewer
<1>7. Logs(th.log, T, StampsOf(hist), t + 1)
  <2>1. th.log \in Seq(Nat) /\ t + 1 \in Nat /\ t <= t + 1
    BY DEF Throttler, Throttlers
  <2> QED BY <1>6, <2>1, LogsLater
<1> QED BY <1>1, <1>5, <1>7 DEF KeptFor

LEMMA Longer ==
  ASSUME NEW hist \in Seq(Entries), NEW entry \in Entries
  PROVE  /\ Append(hist, entry) \in Seq(Entries)
         /\ Len(Append(hist, entry)) = Len(hist) + 1
         /\ Append(hist, entry)[Len(hist) + 1] = entry
         /\ \A i \in 1 .. Len(hist) : Append(hist, entry)[i] = hist[i]
         /\ \A i \in 1 .. Len(hist) + 1 : i = Len(hist) + 1 \/ i \in 1 .. Len(hist)
OBVIOUS

LEMMA OrderedEnforce ==
  ASSUME NEW hist \in Seq(Entries), NEW queue \in Seq(Messages), NEW t \in Nat,
         Ordered(hist, queue, t), NEW entry \in Entries, entry.msg.time = t
  PROVE  Ordered(Append(hist, entry), Append(queue, entry.msg), t)
<1>1. PICK more, longer, n, q : /\ more = Append(hist, entry) /\ longer = Append(queue, entry.msg)
                                /\ n = Len(hist) /\ q = Len(queue)
  OBVIOUS
<1>2. /\ n \in Nat /\ Len(more) = n + 1 /\ more[n + 1] = entry /\ \A i \in 1 .. n : more[i] = hist[i]
      /\ \A i \in 1 .. n + 1 : i = n + 1 \/ i \in 1 .. n
  BY <1>1, Longer
<1>3. entry.msg \in Messages
  BY DEF Entries
<1>4. /\ q \in Nat /\ Len(longer) = q + 1 /\ longer[q + 1] = entry.msg
      /\ \A k \in 1 .. q : longer[k] = queue[k]
      /\ \A k \in 1 .. q + 1 : k = q + 1 \/ k \in 1 .. q
  BY <1>1, <1>3
<1>5. q <= n /\ q + 1 <= n + 1
  BY <1>1, <1>2, <1>4 DEF Ordered
<1>6. \A k \in 1 .. q + 1 : longer[k] = more[(n + 1) - (q + 1) + k].msg
  <2> SUFFICES ASSUME NEW k \in 1 .. q + 1 PROVE longer[k] = more[(n + 1) - (q + 1) + k].msg
    OBVIOUS
  <2>1. CASE k = q + 1
    <3>1. (n + 1) - (q + 1) + k = n + 1
      BY <1>2, <1>4, <2>1
    <3> QED BY <1>2, <1>4, <2>1, <3>1
  <2>2. CASE k # q + 1
    <3>1. k \in 1 .. q /\ (n + 1) - (q + 1) + k = n - q + k /\ n - q + k \in 1 .. n
      BY <1>2, <1>4, <1>5, <2>2
    <3>2. queue[k] = hist[n - q + k].msg
      BY <1>1, <3>1 DEF Ordered
    <3> QED BY <1>2, <1>4, <3>1, <3>2
  <2> QED BY <2>1, <2>2
<1>7. \A i \in 1 .. n + 1 : more[i].msg.time <= t
  BY <1>1, <1>2 DEF Ordered
<1>8. ASSUME NEW i \in 1 .. n + 1, NEW j \in 1 .. n + 1, i <= j PROVE more[i].msg.time <= more[j].msg.time
  <2>1. CASE j = n + 1
    BY <1>2, <1>7, <2>1
  <2>2. CASE j # n + 1
    <3>1. i \in 1 .. n /\ j \in 1 .. n
      BY <1>2, <1>8, <2>2
    <3>2. hist[i].msg.time <= hist[j].msg.time
      BY <1>1, <1>8, <3>1 DEF Ordered
    <3> QED BY <1>2, <3>1, <3>2
  <2> QED BY <2>1, <2>2
<1>9. Ordered(more, longer, t)
  BY <1>2, <1>4, <1>5, <1>6, <1>7, <1>8 DEF Ordered
<1> QED BY <1>1, <1>9

LEMMA KeptEnforce ==
  ASSUME NEW th \in Throttler, NEW hist \in Seq(Entries), NEW queue \in Seq(Messages),
         NEW t \in Nat, NEW cur, NEW id \in Ids,
         Ordered(hist, queue, t), KeptFor(th, hist, queue, t, cur, id),
         NEW entry \in Entries, entry.msg.time = t
  PROVE  KeptFor(th, Append(hist, entry), Append(queue, entry.msg), t, cur, id)
<1>1. PICK more, longer, m : /\ more = Append(hist, entry) /\ longer = Append(queue, entry.msg)
                             /\ m = Len(hist) - Len(queue)
  OBVIOUS
<1>2. \A i \in 1 .. Len(hist) : more[i] = hist[i]
  BY <1>1, Longer
<1>3. entry.msg \in Messages
  BY DEF Entries
<1>4. /\ Len(longer) = Len(queue) + 1 /\ longer[Len(queue) + 1] = entry.msg
      /\ \A k \in 1 .. Len(queue) : longer[k] = queue[k]
      /\ \A k \in 1 .. Len(queue) + 1 : k = Len(queue) + 1 \/ k \in 1 .. Len(queue)
  BY <1>1, <1>3
<1>5. Len(more) - Len(longer) = m /\ m \in Nat /\ m <= Len(hist) /\ more \in Seq(Entries)
      /\ Len(more) = Len(hist) + 1
  <2>1. Len(more) = Len(hist) + 1 /\ more \in Seq(Entries)
    BY <1>1, Longer
  <2> QED BY <1>1, <1>4, <2>1 DEF Ordered
<1>6. \A j \in 1 .. m : j \in 1 .. Len(hist) /\ j \in 1 .. Len(more)
  BY <1>5
<1>7. PICK S : S = Recent(hist, m, t, id)
  OBVIOUS
<1>8. Recent(more, m, t, id) = S
  BY <1>2, <1>6, <1>7 DEF Recent
<1>9. \A j \in S : StampsOf(more)[j] = StampsOf(hist)[j]
  <2>1. \A j \in S : j \in 1 .. m
    BY <1>7 DEF Recent
  <2>2. \A j \in 1 .. m : StampsOf(more)[j] = more[j].msg.time /\ StampsOf(hist)[j] = hist[j].msg.time
    BY <1>5, <1>6, EntryTypes
  <2> QED BY <1>2, <1>6, <2>1, <2>2
<1>10. Logs(th.log, S, StampsOf(hist), t)
  BY <1>1, <1>7 DEF KeptFor
<1>11. Logs(th.log, S, StampsOf(more), t)
  BY <1>9, <1>10, LogsStamps
<1>12. \A k \in 1 .. Len(longer) : Bounded(th.log, longer[k].time)
  <2>1. Bounded(th.log, t)
    BY <1>10 DEF Logs
  <2> QED BY <1>4, <2>1 DEF KeptFor
<1>13. id \in cur \/ \A j \in 1 .. m : id \notin ToSet(more[j].msg.ids)
  BY <1>1, <1>2, <1>6 DEF KeptFor
<1>14. KeptFor(th, more, longer, t, cur, id)
  BY <1>5, <1>8, <1>11, <1>12, <1>13 DEF KeptFor
<1> QED BY <1>1, <1>14

LEMMA OrderedBuild ==
  ASSUME NEW hist \in Seq(Entries), NEW queue \in Seq(Messages), queue # <<>>, NEW t \in Nat,
         Ordered(hist, queue, t)
  PROVE  /\ Ordered(hist, Tail(queue), t)
         /\ Len(hist) - Len(Tail(queue)) = Len(hist) - Len(queue) + 1
         /\ Len(hist) - Len(queue) + 1 \in 1 .. Len(hist)
         /\ Head(queue) = hist[Len(hist) - Len(queue) + 1].msg
         /\ \A k \in 1 .. Len(Tail(queue)) : Head(queue).time <= Tail(queue)[k].time
<1>1. PICK rest, n, q : rest = Tail(queue) /\ n = Len(hist) /\ q = Len(queue)
  OBVIOUS
<1>2. /\ n \in Nat /\ q \in Nat /\ q >= 1 /\ q <= n /\ Len(rest) = q - 1
      /\ Head(queue) = queue[1] /\ \A k \in 1 .. q - 1 : rest[k] = queue[k + 1]
  BY <1>1 DEF Ordered
<1>3. \A k \in 1 .. q : queue[k] = hist[n - q + k].msg
  BY <1>1 DEF Ordered
<1>4. \A k \in 1 .. q - 1 : rest[k] = hist[n - (q - 1) + k].msg
  <2> SUFFICES ASSUME NEW k \in 1 .. q - 1 PROVE rest[k] = hist[n - (q - 1) + k].msg
    OBVIOUS
  <2>1. k + 1 \in 1 .. q /\ n - q + (k + 1) = n - (q - 1) + k
    BY <1>2
  <2> QED BY <1>2, <1>3, <2>1
<1>5. Ordered(hist, rest, t)
  <2>1. q - 1 <= n
    BY <1>2
  <2> QED BY <1>1, <1>2, <1>4, <2>1 DEF Ordered
<1>6. n - q + 1 \in 1 .. n /\ Head(queue) = hist[n - q + 1].msg
  <2>1. 1 \in 1 .. q /\ n - q + 1 \in 1 .. n
    BY <1>2
  <2> QED BY <1>2, <1>3, <2>1
<1>7. \A k \in 1 .. q - 1 : Head(queue).time <= rest[k].time
  <2> SUFFICES ASSUME NEW k \in 1 .. q - 1 PROVE Head(queue).time <= rest[k].time
    OBVIOUS
  <2>1. n - (q - 1) + k \in 1 .. n /\ n - q + 1 <= n - (q - 1) + k
    BY <1>2
  <2>2. PICK i, j \in 1 .. n : i = n - q + 1 /\ j = n - (q - 1) + k /\ i <= j
    BY <1>6, <2>1
  <2>3. hist[i].msg.time <= hist[j].msg.time
    BY <1>1, <2>2 DEF Ordered
  <2> QED BY <1>4, <1>6, <2>2, <2>3
<1>8. n - Len(rest) = n - q + 1
  BY <1>2
<1> QED BY <1>1, <1>2, <1>5, <1>6, <1>7, <1>8

LEMMA KeptBuild ==
  ASSUME NEW hist \in Seq(Entries), NEW queue \in Seq(Messages), queue # <<>>, NEW t \in Nat,
         NEW cur, NEW id \in Ids, Configured[id] # Absent, Configured[id].window <= Start,
         Ordered(hist, queue, t),
         NEW b \in Builders, KeptFor(b.throttlers[id], hist, queue, t, cur, id),
         NEW msg, msg = Head(queue), NEW also, id \in ToSet(msg.ids) => id \in also
  PROVE  KeptFor(ObserveAll(b, msg).throttlers[id], hist, Tail(queue), t, cur \cup also, id)
<1>1. PICK n, rest, th, w, stamp :
        /\ n = Len(hist) - Len(queue) + 1 /\ rest = Tail(queue)
        /\ th = ObserveAll(b, msg).throttlers[id] /\ w = Configured[id].window /\ stamp = StampsOf(hist)
  OBVIOUS
<1>2. /\ Ordered(hist, rest, t) /\ Len(hist) - Len(rest) = n /\ n \in 1 .. Len(hist) /\ msg = hist[n].msg
      /\ \A k \in 1 .. Len(rest) : msg.time <= rest[k].time
  BY <1>1, OrderedBuild
<1>3. msg \in Messages /\ msg.time \in Nat /\ Start <= msg.time /\ msg.time <= t /\ stamp[n] = msg.time
  <2>1. msg \in Messages /\ msg.time \in Nat /\ stamp[n] = msg.time
    BY <1>1, <1>2, EntryTypes
  <2>2. msg.time <= t
    BY <1>2 DEF Ordered
  <2>3. msg.time \in Start .. MaxTime
    BY <2>1 DEF Messages, Times
  <2> QED BY <2>1, <2>2, <2>3, TimeAssumption
<1>4. w \in Nat /\ w <= msg.time
  BY <1>1, <1>3, ConfiguredType, TimeAssumption
<1>5. PICK one, S : one = b.throttlers[id] /\ S = Recent(hist, n - 1, t, id)
  OBVIOUS
<1>6. /\ one # Absent /\ one.window = w /\ one.allowed = Configured[id].allowed
      /\ Logs(one.log, S, stamp, t)
      /\ \A k \in 1 .. Len(queue) : Bounded(one.log, queue[k].time)
      /\ id \in cur \/ \A j \in 1 .. n - 1 : id \notin ToSet(hist[j].msg.ids)
  <2>1. Len(hist) - Len(queue) = n - 1
    BY <1>1
  <2> QED BY <1>1, <1>5, <2>1 DEF KeptFor
<1>7. Logs(one.log, S, stamp, msg.time)
  <2>1. 1 \in 1 .. Len(queue) /\ msg = queue[1]
    BY <1>2
  <2> QED BY <1>6, <2>1 DEF Logs
<1>8. \A j \in 1 .. n : hist[j].msg.time \in Nat /\ stamp[j] = hist[j].msg.time
  <2>1. \A j \in 1 .. n : j \in 1 .. Len(hist)
    BY <1>2
  <2> QED BY <1>1, <2>1, EntryTypes
<1>9. \A j \in S : msg.time - w <= stamp[j]
  <2> SUFFICES ASSUME NEW j \in S PROVE msg.time - w <= stamp[j]
    OBVIOUS
  <2>1. j \in 1 .. n /\ t - hist[j].msg.time < w
    BY <1>1, <1>2, <1>5 DEF Recent
  <2>2. hist[j].msg.time \in Nat /\ stamp[j] = hist[j].msg.time
    BY <1>8, <2>1
  <2> QED BY <1>3, <1>4, <2>1, <2>2
<1>10. /\ th # Absent /\ th.window = w /\ th.allowed = one.allowed
       /\ Logs(th.log, S, stamp, msg.time)
       /\ id \in ToSet(msg.ids) /\ msg.state = "allowed" => Logs(th.log, S \cup {n}, stamp, msg.time)
  <2>1. Known(b.throttlers[id], msg, w, S, stamp, n)
    BY <1>3, <1>4, <1>5, <1>6, <1>7, <1>9 DEF Known
  <2>2. Learnt(b.throttlers[id], ObserveAll(b, msg).throttlers[id], msg, id, w, S, stamp, n)
    BY <1>3, <2>1, ObserveAllLogs
  <2> QED BY <1>1, <1>5, <2>2 DEF Learnt
<1>11. PICK T : T = Recent(hist, n, t, id)
  OBVIOUS
<1>12. T \subseteq S \cup {n} /\ (~(id \in ToSet(msg.ids) /\ msg.state = "allowed") => T \subseteq S)
  <2>1. \A j \in 1 .. n : j = n \/ j \in 1 .. n - 1
    BY <1>2
  <2> QED BY <1>2, <1>5, <1>11, <2>1 DEF Recent
<1>13. Logs(th.log, T, stamp, msg.time)
  <2>1. CASE id \in ToSet(msg.ids) /\ msg.state = "allowed"
    BY <1>10, <1>12, <2>1, LogsFewer
  <2>2. CASE ~(id \in ToSet(msg.ids) /\ msg.state = "allowed")
    BY <1>10, <1>12, <2>2, LogsFewer
  <2> QED BY <2>1, <2>2
<1>14. th.log \in Seq(Nat)
  <2>1. ObserveAll(b, msg) \in Builders
    BY <1>3, ObserveAllDoes
  <2>2. th \in Throttler
    BY <1>1, <1>10, <2>1 DEF Builders
  <2> QED BY <2>2 DEF Throttler, Throttlers
<1>15. Logs(th.log, T, stamp, t)
  BY <1>3, <1>13, <1>14, LogsLater
<1>16. \A k \in 1 .. Len(rest) : Bounded(th.log, rest[k].time)
  <2> SUFFICES ASSUME NEW k \in 1 .. Len(rest) PROVE Bounded(th.log, rest[k].time)
    OBVIOUS
  <2>1. rest[k] \in Messages
    BY <1>1
  <2>2. rest[k].time \in Nat /\ msg.time <= rest[k].time
    BY <1>2, <2>1, TimeAssumption DEF Messages, Times
  <2>3. Logs(th.log, T, stamp, rest[k].time)
    BY <1>3, <1>13, <1>14, <2>2, LogsLater
  <2> QED BY <2>3 DEF Logs
<1>17. id \in cur \cup also \/ \A j \in 1 .. n : id \notin ToSet(hist[j].msg.ids)
  <2>1. \A j \in 1 .. n : j = n \/ j \in 1 .. n - 1
    BY <1>2
  <2> QED BY <1>2, <1>6, <2>1
<1>18. KeptFor(th, hist, rest, t, cur \cup also, id)
  BY <1>1, <1>2, <1>6, <1>10, <1>11, <1>15, <1>16, <1>17 DEF KeptFor
<1> QED BY <1>1, <1>18

\* A log that tracks a set is at least as long.
LEMMA TrackedAreFew ==
  ASSUME NEW log \in Seq(Nat), NEW S, NEW stamp, NEW time, Logs(log, S, stamp, time)
  PROVE  IsFiniteSet(S) /\ Cardinality(S) <= Len(log) /\ Cardinality(S) \in Nat
<1>1. PICK f \in [S -> 1 .. Len(log)] : \A i, j \in S : f[i] = f[j] => i = j
  BY DEF Logs, Tracks
<1>2. f \in Injection(S, 1 .. Len(log))
  BY <1>1 DEF Injection, IsInjective
<1>3. IsFiniteSet(1 .. Len(log)) /\ Cardinality(1 .. Len(log)) = Len(log)
  <2>1. Len(log) \in Nat /\ 1 \in Int /\ Len(log) \in Int
    OBVIOUS
  <2>2. /\ IsFiniteSet(1 .. Len(log))
        /\ Cardinality(1 .. Len(log)) = IF 1 > Len(log) THEN 0 ELSE Len(log) - 1 + 1
    BY <2>1, FS_Interval
  <2> QED BY <2>1, <2>2
<1>4. IsFiniteSet(S) /\ Cardinality(S) <= Cardinality(1 .. Len(log))
  BY <1>2, <1>3, FS_Injection
<1> QED BY <1>3, <1>4, FS_CardinalityType

AdmittedIn(hist, id, i) ==
  {j \in 1 .. i : /\ hist[j].msg.state = "allowed" /\ id \in ToSet(hist[j].msg.ids)
                  /\ hist[i].msg.time - hist[j].msg.time < Configured[id].window}

LEMMA AdmittedSoFar == \A id, i : Admitted(id, i) = AdmittedIn(history, id, i)
BY DEF Admitted, AdmittedIn

LEMMA AdmittedThen == \A id, i : Admitted(id, i)' = AdmittedIn(history', id, i)
BY DEF Admitted, AdmittedIn

\* What is let through on verdicts that are up to date is one more than what
\* the log knows of.
LEMMA OneMoreAdmitted ==
  ASSUME NEW hist \in Seq(Entries), NEW t \in Nat, NEW cur, NEW id \in Ids, Configured[id] # Absent,
         NEW th \in Throttler, KeptFor(th, hist, <<>>, t, cur, id),
         id \in cur => Len(th.log) <= th.allowed,
         NEW entry \in Entries, entry.msg.time = t
  PROVE  Cardinality(AdmittedIn(Append(hist, entry), id, Len(hist) + 1)) <= Configured[id].allowed + 1
<1>1. PICK more, n, S, T : /\ more = Append(hist, entry) /\ n = Len(hist)
                           /\ S = Recent(hist, n, t, id) /\ T = AdmittedIn(more, id, n + 1)
  OBVIOUS
<1>2. /\ n \in Nat /\ more[n + 1] = entry /\ \A i \in 1 .. n : more[i] = hist[i]
      /\ \A i \in 1 .. n + 1 : i = n + 1 \/ i \in 1 .. n
  BY <1>1, Longer
<1>3. T \in SUBSET (S \cup {n + 1})
  BY <1>1, <1>2 DEF Recent, AdmittedIn
<1>4. n - Len(<<>>) = n
  BY <1>2
<1>5. /\ th.allowed = Configured[id].allowed /\ Logs(th.log, S, StampsOf(hist), t)
      /\ id \in cur \/ \A j \in 1 .. n : id \notin ToSet(hist[j].msg.ids)
  BY <1>1, <1>4 DEF KeptFor
<1>6. th.log \in Seq(Nat) /\ Configured[id].allowed \in Nat
  BY ConfiguredType DEF Throttler, Throttlers
<1>7. IsFiniteSet(S) /\ Cardinality(S) \in Nat /\ Cardinality(S) <= Configured[id].allowed
  <2>1. IsFiniteSet(S) /\ Cardinality(S) <= Len(th.log) /\ Cardinality(S) \in Nat
    BY <1>5, <1>6, TrackedAreFew
  <2>2. CASE id \in cur
    <3>1. Len(th.log) \in Nat
      BY <1>6
    <3> QED BY <1>5, <1>6, <2>1, <2>2, <3>1
  <2>3. CASE id \notin cur
    <3>1. S = {}
      BY <1>1, <1>5, <2>3 DEF Recent
    <3> QED BY <1>6, <3>1, FS_EmptySet
  <2> QED BY <2>2, <2>3
<1>8. IsFiniteSet(S \cup {n + 1}) /\ Cardinality(S \cup {n + 1}) <= Configured[id].allowed + 1
      /\ Cardinality(S \cup {n + 1}) \in Nat
  <2>1. /\ IsFiniteSet(S \cup {n + 1})
        /\ Cardinality(S \cup {n + 1}) = IF n + 1 \in S THEN Cardinality(S) ELSE Cardinality(S) + 1
    BY <1>7, FS_AddElement
  <2> QED BY <1>6, <1>7, <2>1
<1>9. IsFiniteSet(T) /\ Cardinality(T) <= Cardinality(S \cup {n + 1})
  BY <1>3, <1>8, FS_Subset
<1>10. Cardinality(T) \in Nat
  BY <1>9, FS_CardinalityType
<1>11. Cardinality(T) <= Configured[id].allowed + 1
  BY <1>6, <1>8, <1>9, <1>10
<1> QED BY <1>1, <1>11
-----------------------------------------------------------------------------
(* The rate bound.                                                         *)

Fixed(id) == Configured[id] # Absent /\ ~Reconfigured(id)

InOrder == Ordered(history, toBuilder, now)

Kept == \A id \in Ids : Fixed(id) =>
          KeptFor(throttlers[id], history, toBuilder, now, current, id)

\* No window reaches back before the clock began.
WindowsArePast == \A id \in Ids : Configured[id] # Absent => Configured[id].window <= Start

LEMMA FixedThrottler ==
  ASSUME TypeOK, Kept, NEW id \in Ids, Fixed(id)
  PROVE  throttlers[id] \in Throttler /\ KeptFor(throttlers[id], history, toBuilder, now, current, id)
BY DEF TypeOK, Kept, KeptFor, Throttler

LEMMA HistoryType ==
  ASSUME TypeOK
  PROVE  history \in Seq(Entries) /\ toBuilder \in Seq(Messages) /\ now \in Nat
BY TimeAssumption DEF TypeOK, Entries, Times

\* A command that was answered stays answered.
LEMMA FixedBefore ==
  ASSUME TypeOK, NEW result \in {"completed", "failed"}, results' = Append(results, result),
         NEW id, Fixed(id)'
  PROVE  /\ Fixed(id)
         /\ result = "completed" => Commands[Len(results) + 1].id # id
<1>1. PICK n, more : n = Len(results) /\ more = Append(results, result)
  OBVIOUS
<1>2. /\ n \in Nat /\ DOMAIN results = 1 .. n /\ DOMAIN more = 1 .. n + 1 /\ more[n + 1] = result
      /\ \A k \in 1 .. n : k \in 1 .. n + 1 /\ more[k] = results[k]
      /\ n + 1 \in 1 .. n + 1
  BY <1>1 DEF TypeOK
<1>3. Configured[id] # Absent /\ ~\E k \in 1 .. n + 1 : Commands[k].id = id /\ more[k] = "completed"
  BY <1>1, <1>2 DEF Fixed, Reconfigured
<1> QED BY <1>1, <1>2, <1>3 DEF Fixed, Reconfigured

LEMMA OrderStep == TypeOK /\ InOrder /\ [Next]_vars => InOrder'
<1> SUFFICES ASSUME TypeOK, InOrder, [Next]_vars PROVE InOrder'
  OBVIOUS
<1>0. history \in Seq(Entries) /\ toBuilder \in Seq(Messages) /\ now \in Nat
  BY HistoryType
<1>1. CASE Tick
  <2>1. \A i \in 1 .. Len(history) : history[i].msg.time \in Nat
    BY <1>0, EntryTypes
  <2>2. \A i \in 1 .. Len(history) : history[i].msg.time <= now + 1
    BY <1>0, <2>1 DEF InOrder, Ordered
  <2>3. Ordered(history, toBuilder, now + 1)
    BY <2>2 DEF InOrder, Ordered
  <2> QED BY <1>1, <2>3 DEF Tick, InOrder
<1>2. ASSUME NEW ids \in Kinds, Enforce(ids) PROVE InOrder'
  <2>1. PICK msg \in Messages : /\ msg.time = now /\ toBuilder' = Append(toBuilder, msg)
                                /\ history' = Append(history, [msg |-> msg, fresh |-> UpToDate])
    BY <1>2, EnforceDoes
  <2>2. PICK entry : entry = [msg |-> msg, fresh |-> UpToDate]
    OBVIOUS
  <2>3. entry \in Entries /\ entry.msg = msg
    BY <2>2 DEF Entries, UpToDate
  <2>4. Ordered(Append(history, entry), Append(toBuilder, entry.msg), now)
    BY <1>0, <2>1, <2>3, OrderedEnforce DEF InOrder
  <2> QED BY <1>2, <2>1, <2>2, <2>3, <2>4 DEF InOrder, Enforce
<1>3. CASE TakeStates
  BY <1>3 DEF TakeStates, InOrder
<1>4. CASE BuildState
  <2>1. Ordered(history, Tail(toBuilder), now)
    BY <1>0, <1>4, OrderedBuild DEF BuildState, InOrder
  <2> QED BY <1>4, <2>1 DEF BuildState, InOrder
<1>5. CASE FlushUpdates
  BY <1>5 DEF FlushUpdates, InOrder
<1>6. CASE Configure
  BY <1>6 DEF Configure, InOrder
<1>7. CASE UNCHANGED vars
  BY <1>7 DEF vars, InOrder
<1> QED BY <1>1, <1>2, <1>3, <1>4, <1>5, <1>6, <1>7 DEF Next

LEMMA KeptStep ==
  ASSUME WindowsArePast PROVE TypeOK /\ InOrder /\ Kept /\ [Next]_vars => Kept'
<1> SUFFICES ASSUME TypeOK, InOrder, Kept, [Next]_vars PROVE Kept'
  OBVIOUS
<1>0. history \in Seq(Entries) /\ toBuilder \in Seq(Messages) /\ now \in Nat
  BY HistoryType
<1>a. ASSUME results' = results, NEW id, Fixed(id)' PROVE Fixed(id)
  BY <1>a DEF Fixed, Reconfigured
<1>1. CASE Tick
  <2>1. \A id \in Ids : Fixed(id) => KeptFor(throttlers[id], history, toBuilder, now + 1, current, id)
    <3> SUFFICES ASSUME NEW id \in Ids, Fixed(id)
                 PROVE  KeptFor(throttlers[id], history, toBuilder, now + 1, current, id)
      OBVIOUS
    <3>1. Configured[id] # Absent
      BY DEF Fixed
    <3>2. throttlers[id] \in Throttler /\ KeptFor(throttlers[id], history, toBuilder, now, current, id)
      BY FixedThrottler
    <3>3. PICK th : th = throttlers[id]
      OBVIOUS
    <3> QED BY <1>0, <3>1, <3>2, <3>3, KeptTick DEF InOrder
  <2>2. /\ now' = now + 1 /\ throttlers' = throttlers /\ history' = history
        /\ toBuilder' = toBuilder /\ current' = current /\ results' = results
    BY <1>1 DEF Tick
  <2> QED BY <1>a, <2>1, <2>2 DEF Kept
<1>2. ASSUME NEW ids \in Kinds, Enforce(ids) PROVE Kept'
  <2>1. PICK msg \in Messages : /\ msg.time = now /\ toBuilder' = Append(toBuilder, msg)
                                /\ history' = Append(history, [msg |-> msg, fresh |-> UpToDate])
    BY <1>2, EnforceDoes
  <2>2. PICK entry : entry = [msg |-> msg, fresh |-> UpToDate]
    OBVIOUS
  <2>3. entry \in Entries /\ entry.msg = msg
    BY <2>2 DEF Entries, UpToDate
  <2>4. \A id \in Ids : Fixed(id) =>
          KeptFor(throttlers[id], Append(history, entry), Append(toBuilder, entry.msg), now, current, id)
    <3> SUFFICES ASSUME NEW id \in Ids, Fixed(id)
                 PROVE  KeptFor(throttlers[id], Append(history, entry), Append(toBuilder, entry.msg), now, current, id)
      OBVIOUS
    <3>1. throttlers[id] \in Throttler /\ KeptFor(throttlers[id], history, toBuilder, now, current, id)
      BY FixedThrottler
    <3>2. PICK th : th = throttlers[id]
      OBVIOUS
    <3> QED BY <1>0, <2>1, <2>3, <3>1, <3>2, KeptEnforce DEF InOrder
  <2>5. now' = now /\ throttlers' = throttlers /\ current' = current /\ results' = results
    BY <1>2 DEF Enforce
  <2> QED BY <1>a, <2>1, <2>2, <2>3, <2>4, <2>5 DEF Kept
<1>3. CASE TakeStates
  BY <1>3, <1>a DEF TakeStates, Kept
<1>4. CASE BuildState
  <2>1. PICK msg, also : /\ msg = Head(toBuilder)
                         /\ also = {id \in ToSet(msg.ids) : throttlers[id] # Absent}
    OBVIOUS
  <2>2. /\ Builder \in Builders /\ throttlers' = ObserveAll(Builder, msg).throttlers
        /\ toBuilder # <<>>
    BY <1>4, <2>1, BuildDoes DEF BuildState
  <2>3. Builder.throttlers = throttlers
    BY DEF Builder
  <2>4. \A id \in Ids : Fixed(id) =>
          KeptFor(ObserveAll(Builder, msg).throttlers[id], history, Tail(toBuilder), now, current \cup also, id)
    <3> SUFFICES ASSUME NEW id \in Ids, Fixed(id)
                 PROVE  KeptFor(ObserveAll(Builder, msg).throttlers[id], history, Tail(toBuilder), now,
                                current \cup also, id)
      OBVIOUS
    <3>1. KeptFor(Builder.throttlers[id], history, toBuilder, now, current, id)
      BY <2>3, FixedThrottler
    <3>2. Configured[id] # Absent /\ Configured[id].window <= Start
      BY DEF Fixed, WindowsArePast
    <3>3. id \in ToSet(msg.ids) => id \in also
      BY <2>1, <2>3, <3>1 DEF KeptFor
    <3>4. PICK b : b = Builder
      OBVIOUS
    <3> QED BY <1>0, <2>1, <2>2, <3>1, <3>2, <3>3, <3>4, KeptBuild DEF InOrder
  <2>5. /\ now' = now /\ history' = history /\ results' = results
        /\ toBuilder' = Tail(toBuilder) /\ current' = current \cup also
    BY <1>4, <2>1 DEF BuildState
  <2> QED BY <1>a, <2>2, <2>4, <2>5 DEF Kept
<1>5. CASE FlushUpdates
  BY <1>5, <1>a DEF FlushUpdates, Kept
<1>6. CASE Configure
  <2>1. PICK command : command = Commands[Len(results) + 1]
    OBVIOUS
  <2>2. /\ Configures(throttlers, throttlers', command.id)
        /\ current' = IF throttlers' = throttlers THEN current ELSE current \ {command.id}
        /\ throttlers' = throttlers \/ results' = Append(results, "completed")
    BY <1>6, <2>1, ConfigureDoes
  <2>3. PICK result \in {"completed", "failed"} : results' = Append(results, result)
    BY <1>6 DEF Configure, AddThrottler, UpdateThrottler, UnknownCommand, Answer
  <2>4. now' = now /\ history' = history /\ toBuilder' = toBuilder
    BY <1>6 DEF Configure
  <2>5. throttlers \in [Ids -> Throttlers(Nat, Nat) \cup {Absent}]
    BY DEF TypeOK
  <2>6. ASSUME NEW id \in Ids, Fixed(id)'
        PROVE  Fixed(id) /\ throttlers'[id] = throttlers[id] /\ (id \in current' <=> id \in current)
    <3>1. Fixed(id) /\ (result = "completed" => command.id # id)
      BY <2>1, <2>3, <2>6, FixedBefore
    <3>2. CASE throttlers' = throttlers
      BY <2>2, <3>1, <3>2
    <3>3. CASE throttlers' # throttlers
      <4>1. result = "completed"
        <5>1. Append(results, result) = Append(results, "completed")
          BY <2>2, <2>3, <3>3
        <5>2. Append(results, result)[Len(results) + 1] = result
              /\ Append(results, "completed")[Len(results) + 1] = "completed"
          BY DEF TypeOK
        <5> QED BY <5>1, <5>2
      <4> QED BY <2>2, <2>5, <3>1, <3>3, <4>1 DEF Configures
    <3> QED BY <3>2, <3>3
  <2> QED BY <2>4, <2>6 DEF Kept, KeptFor
<1>7. CASE UNCHANGED vars
  BY <1>7, <1>a DEF vars, Kept
<1> QED BY <1>1, <1>2, <1>3, <1>4, <1>5, <1>6, <1>7 DEF Next

LEMMA RateStep ==
  ASSUME WindowsArePast
  PROVE  TypeOK /\ Follows /\ InOrder /\ Kept /\ RateBound /\ [Next]_vars => RateBound'
<1> SUFFICES ASSUME TypeOK, Follows, InOrder, Kept, RateBound, [Next]_vars PROVE RateBound'
  OBVIOUS
<1>0. history \in Seq(Entries) /\ toBuilder \in Seq(Messages) /\ now \in Nat
  BY HistoryType
<1>1. ASSUME history' = history, \A id : Fixed(id)' => Fixed(id) PROVE RateBound'
  <2>1. \A id, i : Admitted(id, i)' = Admitted(id, i)
    BY <1>1, AdmittedSoFar, AdmittedThen
  <2> QED BY <1>1, <2>1 DEF RateBound, Fixed
<1>2. results' = results => \A id : Fixed(id)' => Fixed(id)
  BY DEF Fixed, Reconfigured
<1>3. CASE \E ids \in Kinds : Enforce(ids)
  <2>1. PICK ids \in Kinds : Enforce(ids)
    BY <1>3
  <2>2. PICK msg \in Messages : /\ msg.ids = ids /\ msg.time = now
                                /\ history' = Append(history, [msg |-> msg, fresh |-> UpToDate])
    BY <2>1, EnforceDoes
  <2>3. PICK entry : entry = [msg |-> msg, fresh |-> UpToDate]
    OBVIOUS
  <2>4. entry \in Entries /\ entry.msg = msg /\ entry.fresh = UpToDate
    BY <2>3 DEF Entries, UpToDate
  <2>5. PICK n, more : n = Len(history) /\ more = Append(history, entry)
    OBVIOUS
  <2>6. /\ n \in Nat /\ DOMAIN more = 1 .. n + 1 /\ DOMAIN history = 1 .. n
        /\ more[n + 1] = entry /\ \A i \in 1 .. n : more[i] = history[i]
        /\ \A i \in 1 .. n + 1 : i = n + 1 \/ i \in 1 .. n
    BY <1>0, <2>4, <2>5, Longer
  <2>7. history' = more /\ \A id : Reconfigured(id)' = Reconfigured(id)
    BY <2>1, <2>2, <2>3, <2>5 DEF Enforce, Reconfigured
  <2> SUFFICES ASSUME NEW i \in 1 .. n + 1, more[i].fresh, more[i].msg.state = "allowed",
                      NEW id \in ToSet(more[i].msg.ids), Configured[id] # Absent, ~Reconfigured(id)
               PROVE  Cardinality(AdmittedIn(more, id, i)) <= Configured[id].allowed + 1
    BY <2>6, <2>7, AdmittedThen DEF RateBound
  <2>8. CASE i = n + 1
    <3>1. more[i] = entry
      BY <2>6, <2>8
    <3>2. UpToDate /\ id \in ToSet(ids) /\ msg.state = "allowed"
      BY <2>2, <2>4, <3>1
    <3>3. ids \in Seq(Ids) /\ ToSet(ids) \subseteq Ids
      BY KindsAssumption DEF ToSet
    <3>4. KeptFor(throttlers[id], history, <<>>, now, current, id) /\ throttlers[id] \in Throttler
      BY <3>2, <3>3, FixedThrottler DEF Fixed, UpToDate
    <3>5. id \in current => Len(throttlers[id].log) <= throttlers[id].allowed
      <4> SUFFICES ASSUME id \in current PROVE IsAllowed(throttlers[id])
        BY DEF IsAllowed
      <4>1. Reported(updates, toEnforcer, states, id, Verdict(throttlers[id]))
        BY DEF Follows
      <4>2. states[id] = Verdict(throttlers[id])
        BY <3>2, <4>1 DEF UpToDate, Reported, LastSays, Coming
      <4>3. PICK k \in DOMAIN ids : ids[k] = id
        BY <3>2 DEF ToSet
      <4>4. history' = Append(history, [msg |-> [ids |-> ids, time |-> now, state |->
              IF \E j \in DOMAIN ids : states[ids[j]] = "suppressed" THEN "suppressed" ELSE "allowed"],
              fresh |-> UpToDate])
        BY <2>1 DEF Enforce
      <4>5. PICK other : other = [msg |-> [ids |-> ids, time |-> now, state |->
              IF \E j \in DOMAIN ids : states[ids[j]] = "suppressed" THEN "suppressed" ELSE "allowed"],
              fresh |-> UpToDate]
        OBVIOUS
      <4>6. entry = other
        <5>1. Append(history, entry) = Append(history, other)
          BY <2>2, <2>3, <4>4, <4>5
        <5>2. Append(history, entry)[Len(history) + 1] = entry /\ Append(history, other)[Len(history) + 1] = other
          BY <1>0
        <5> QED BY <5>1, <5>2
      <4>7. ~\E j \in DOMAIN ids : states[ids[j]] = "suppressed"
        BY <2>4, <3>2, <4>5, <4>6
      <4> QED BY <4>2, <4>3, <4>7 DEF Verdict
    <3>6. PICK th : th = throttlers[id]
      OBVIOUS
    <3> QED BY <1>0, <2>2, <2>4, <2>5, <2>8, <3>2, <3>3, <3>4, <3>5, <3>6, OneMoreAdmitted
  <2>9. CASE i # n + 1
    <3>1. i \in 1 .. n /\ more[i] = history[i]
      BY <2>6, <2>9
    <3>2. Cardinality(Admitted(id, i)) <= Configured[id].allowed + 1
      BY <2>6, <3>1 DEF RateBound
    <3>3. AdmittedIn(more, id, i) = AdmittedIn(history, id, i)
      <4>1. \A j \in 1 .. i : more[j] = history[j]
        BY <2>6, <3>1
      <4> QED BY <3>1, <4>1 DEF AdmittedIn
    <3> QED BY <3>2, <3>3, AdmittedSoFar
  <2> QED BY <2>8, <2>9
<1>4. CASE Tick
  BY <1>1, <1>2, <1>4 DEF Tick
<1>5. CASE TakeStates
  BY <1>1, <1>2, <1>5 DEF TakeStates
<1>6. CASE BuildState
  BY <1>1, <1>2, <1>6 DEF BuildState
<1>7. CASE FlushUpdates
  BY <1>1, <1>2, <1>7 DEF FlushUpdates
<1>8. CASE Configure
  <2>1. PICK result \in {"completed", "failed"} : results' = Append(results, result)
    BY <1>8 DEF Configure, AddThrottler, UpdateThrottler, UnknownCommand, Answer
  <2>2. \A id : Fixed(id)' => Fixed(id)
    BY <2>1, FixedBefore
  <2> QED BY <1>1, <1>8, <2>2 DEF Configure
<1>9. CASE UNCHANGED vars
  BY <1>1, <1>2, <1>9 DEF vars
<1> QED BY <1>3, <1>4, <1>5, <1>6, <1>7, <1>8, <1>9 DEF Next

LEMMA KeptInitially == Init => InOrder /\ Kept /\ RateBound
<1> SUFFICES ASSUME Init PROVE InOrder /\ Kept /\ RateBound
  OBVIOUS
<1>1. history = <<>> /\ toBuilder = <<>> /\ throttlers = Configured
  BY DEF Init
<1>2. InOrder
  BY <1>1 DEF InOrder, Ordered
<1>3. ASSUME NEW id \in Ids, Fixed(id)
      PROVE  KeptFor(throttlers[id], history, toBuilder, now, current, id)
  <2>1. Configured[id] # Absent /\ Configured[id].log = <<>>
    BY <1>3, ConfiguredAssumption DEF Fixed
  <2>2. PICK log : log = Configured[id].log
    OBVIOUS
  <2>3. Len(log) = 0
    BY <2>1, <2>2
  <2>4. Recent(history, Len(history) - Len(toBuilder), now, id) = {}
    BY <1>1 DEF Recent
  <2>5. Logs(log, {}, StampsOf(history), now)
    <3>1. Sorted(log) /\ Bounded(log, now)
      BY <2>3 DEF Sorted, Bounded
    <3>2. PICK f : f = [j \in {} |-> j]
      OBVIOUS
    <3>3. f \in [{} -> 1 .. Len(log)]
      BY <3>2
    <3>4. Tracks(log, {}, StampsOf(history))
      BY <3>3 DEF Tracks
    <3> QED BY <3>1, <3>4 DEF Logs
  <2> QED BY <1>1, <2>1, <2>2, <2>4, <2>5 DEF KeptFor
<1>4. RateBound
  BY <1>1 DEF RateBound
<1> QED BY <1>2, <1>3, <1>4 DEF Kept

\* A message let through on verdicts that are up to date is at most one too many
\* in its window, whatever was let through before on stale verdicts, whatever
\* other ids the messages name, and whatever is reconfigured meanwhile
\* (SlidingLogThrottler::add_timestamp).  No window may reach back before the
\* first time stamp: the cut would wrap around and empty the log.
THEOREM RateIsBounded ==
  ASSUME WindowsArePast PROVE Spec => []RateBound
<1>1. Init => TypeOK /\ Follows /\ InOrder /\ Kept /\ RateBound
  BY TypeHolds, KeptInitially DEF Init, Follows
<1>2. TypeOK /\ Follows /\ InOrder /\ Kept /\ RateBound /\ [Next]_vars
        => TypeOK' /\ Follows' /\ InOrder' /\ Kept' /\ RateBound'
  BY TypeStep, FollowsStep, OrderStep, KeptStep, RateStep
<1> QED BY <1>1, <1>2, PTL DEF Spec
-----------------------------------------------------------------------------
(* What is cut off a log.                                                  *)

\* Nothing of what comes from outside is known of the stamps of a log but that
\* they are in order and not of the future.
InTime(log, queue, t) ==
  /\ Sorted(log) /\ Bounded(log, t)
  /\ \A k \in 1 .. Len(queue) : Bounded(log, queue[k].time)

LogsInOrder == \A id \in Ids : throttlers[id] # Absent => InTime(throttlers[id].log, toBuilder, now)

LEMMA NothingTracked ==
  ASSUME NEW log, NEW stamp, NEW time
  PROVE  Logs(log, {}, stamp, time) <=> Sorted(log) /\ Bounded(log, time)
<1>1. PICK f : f = [j \in {} |-> j]
  OBVIOUS
<1>2. f \in [{} -> 1 .. Len(log)]
  BY <1>1
<1> QED BY <1>2 DEF Logs, Tracks

LEMMA OrderKept ==
  ASSUME NEW th \in Throttler, Sorted(th.log), NEW msg \in Messages, Bounded(th.log, msg.time)
  PROVE  Sorted(Evaluate(th, msg).log) /\ Bounded(Evaluate(th, msg).log, msg.time)
<1>1. PICK stamp, time : time = msg.time /\ stamp = [n \in {0} |-> time]
  OBVIOUS
<1>2. time \in Nat /\ stamp[0] = time /\ th.log \in Seq(Nat)
  BY <1>1, TimeAssumption DEF Messages, Times, Throttler, Throttlers
<1>3. ASSUME NEW one \in Throttler, Logs(one.log, {}, stamp, time)
      PROVE  Logs(ReEvaluate(one, time).log, {}, stamp, time)
  <2>1. one.log \in Seq(Nat) /\ Cutoff(one, time) \in Nat
    BY <1>2, CutoffType DEF Throttler, Throttlers
  <2>2. Truncate(one, time).log = SubSeq(one.log, LowerBound(one.log, Cutoff(one, time)), Len(one.log))
    BY <1>2, TruncateType
  <2>3. Logs(Truncate(one, time).log, {}, stamp, time)
    BY <1>2, <1>3, <2>1, <2>2, LogsCut
  <2> QED BY <1>3, <2>3 DEF ReEvaluate
<1>4. Logs(th.log, {}, stamp, time)
  BY <1>1, NothingTracked
<1>5. Logs(Evaluate(th, msg).log, {}, stamp, time)
  <2>1. CASE msg.state = "allowed"
    <3>1. PICK logged : logged = [th EXCEPT !.log = Append(@, time)]
      OBVIOUS
    <3>2. logged \in Throttler /\ logged.log = Append(th.log, time)
      BY <1>2, <3>1, StampAdded
    <3>3. Logs(logged.log, {0}, stamp, time)
      <4>1. PICK log : log = th.log
        OBVIOUS
      <4>2. Logs(Append(log, time), {} \cup {0}, stamp, time)
        BY <1>2, <1>4, <4>1, LogsOneMore
      <4> QED BY <3>2, <4>1, <4>2
    <3>4. Logs(logged.log, {}, stamp, time)
      BY <3>3, LogsFewer
    <3>5. Evaluate(th, msg) = ReEvaluate(logged, time)
      BY <1>1, <2>1, <3>1 DEF Evaluate, AddTimestamp
    <3> QED BY <1>3, <3>2, <3>4, <3>5
  <2>2. CASE msg.state # "allowed"
    BY <1>1, <1>3, <1>4, <2>2 DEF Evaluate
  <2> QED BY <2>1, <2>2
<1> QED BY <1>1, <1>5, NothingTracked

\* A message leaves the log of every id in order, and evaluates the throttler
\* of an id that it names once, once.
LEMMA ObserveAllOrder ==
  ASSUME NEW b \in Builders, NEW msg \in Messages, NEW id \in Ids, b.throttlers[id] # Absent,
         Sorted(b.throttlers[id].log), Bounded(b.throttlers[id].log, msg.time),
         NEW th, th = ObserveAll(b, msg).throttlers[id]
  PROVE  /\ th \in Throttler /\ Sorted(th.log) /\ Bounded(th.log, msg.time)
         /\ (\E i \in DOMAIN msg.ids : \A j \in DOMAIN msg.ids : msg.ids[j] = id <=> j = i)
              => th = Evaluate(b.throttlers[id], msg)
<1>1. PICK ids, len : ids = msg.ids /\ len = Len(ids)
  OBVIOUS
<1>2. len \in Nat /\ DOMAIN ids = 1 .. len
  BY <1>1, ThrottlerSteps
<1>3. PICK g : /\ g[0] = b.throttlers[id] /\ g[len] = th
               /\ \A k \in Nat : k + 1 <= len =>
                    /\ ids[k + 1] # id => g[k + 1] = g[k]
                    /\ ids[k + 1] = id /\ g[k] # Absent => g[k + 1] = Evaluate(g[k], msg)
  BY <1>1, ThrottlerSteps
<1> DEFINE Good(k) == g[k] \in Throttler /\ Sorted(g[k].log) /\ Bounded(g[k].log, msg.time)
           G == {k \in Nat : k <= len => Good(k)}
<1>4. 0 \in G
  BY <1>3 DEF Builders
<1>5. ASSUME NEW k \in Nat, k \in G PROVE k + 1 \in G
  <2> SUFFICES ASSUME k + 1 <= len PROVE Good(k + 1)
    OBVIOUS
  <2>1. Good(k)
    BY <1>2, <1>5
  <2>2. g[k + 1] = g[k] \/ g[k + 1] = Evaluate(g[k], msg)
    BY <1>3, <2>1, AbsentAssumption DEF Throttler
  <2> QED BY <2>1, <2>2, EvaluateType, OrderKept
<1> HIDE DEF Good
<1>6. \A k \in Nat : k \in G
  <2> HIDE DEF G
  <2> QED BY <1>4, <1>5, Counting
<1>7. \A k \in Nat : k <= len => g[k] \in Throttler
  BY <1>6 DEF Good
<1>8. ASSUME NEW i \in 1 .. len, \A j \in 1 .. len : ids[j] = id <=> j = i
      PROVE  th = Evaluate(g[0], msg)
  <2> DEFINE H == {k \in Nat : k <= len => g[k] = IF k < i THEN g[0] ELSE Evaluate(g[0], msg)}
  <2>1. 0 \in H
    BY <1>8
  <2>2. ASSUME NEW k \in Nat, k \in H PROVE k + 1 \in H
    <3> SUFFICES ASSUME k + 1 <= len
                 PROVE  g[k + 1] = IF k + 1 < i THEN g[0] ELSE Evaluate(g[0], msg)
      OBVIOUS
    <3>1. k + 1 \in 1 .. len /\ k <= len
      BY <1>2
    <3>2. CASE k + 1 = i
      <4>1. ids[k + 1] = id /\ k < i /\ ~(k + 1 < i)
        BY <1>8, <3>1, <3>2
      <4>2. g[k] = g[0] /\ g[k] # Absent
        BY <1>7, <2>2, <3>1, <4>1, AbsentAssumption DEF Throttler
      <4> QED BY <1>3, <4>1, <4>2
    <3>3. CASE k + 1 # i
      <4>1. ids[k + 1] # id /\ (k < i <=> k + 1 < i)
        BY <1>8, <3>1, <3>3
      <4> QED BY <1>3, <2>2, <3>1, <4>1
    <3> QED BY <3>2, <3>3
  <2>3. \A k \in Nat : k \in H
    <3> HIDE DEF H
    <3> QED BY <2>1, <2>2, Counting
  <2>4. ~(len < i)
    BY <1>2
  <2> QED BY <1>2, <1>3, <2>3, <2>4
<1>9. Good(len)
  BY <1>2, <1>6
<1>10. th \in Throttler /\ Sorted(th.log) /\ Bounded(th.log, msg.time)
  BY <1>3, <1>9 DEF Good
<1>11. ASSUME NEW i \in DOMAIN ids, \A j \in DOMAIN ids : ids[j] = id <=> j = i
       PROVE  th = Evaluate(b.throttlers[id], msg)
  <2>1. i \in 1 .. len /\ \A j \in 1 .. len : ids[j] = id <=> j = i
    BY <1>2, <1>11
  <2>2. th = Evaluate(g[0], msg)
    BY <1>8, <2>1
  <2> QED BY <1>3, <2>2
<1> QED BY <1>1, <1>10, <1>11

\* What the cut leaves of a log in order is its window.
LEMMA EvaluateCuts ==
  ASSUME NEW th \in Throttler, Sorted(th.log), NEW msg \in Messages, Bounded(th.log, msg.time),
         th.window <= msg.time,
         NEW known, known = IF msg.state = "allowed" THEN Append(th.log, msg.time) ELSE th.log
  PROVE  IF Len(known) < th.allowed THEN Evaluate(th, msg).log = known
         ELSE \E first \in 1 .. Len(known) + 1 :
                /\ Evaluate(th, msg).log = SubSeq(known, first, Len(known))
                /\ \A i \in 1 .. Len(known) : i >= first <=> msg.time - known[i] <= th.window
<1>1. PICK time, w : time = msg.time /\ w = th.window
  OBVIOUS
<1>2. time \in Nat /\ time < WordSize /\ w \in Nat /\ th.log \in Seq(Nat) /\ th.allowed \in Nat /\ w <= time
  <2>1. time \in Nat /\ time <= MaxTime
    BY <1>1, TimeAssumption DEF Messages, Times
  <2>2. time < WordSize
    BY <2>1, TimeAssumption, WordAssumption
  <2>3. w \in Nat /\ th.log \in Seq(Nat) /\ th.allowed \in Nat
    BY <1>1 DEF Throttler, Throttlers
  <2> QED BY <1>1, <2>1, <2>2, <2>3
<1>3. PICK one : /\ one \in Throttler /\ one.log = known /\ one.window = w /\ one.allowed = th.allowed
                 /\ Evaluate(th, msg) = ReEvaluate(one, time)
  <2>1. CASE msg.state = "allowed"
    <3>1. PICK logged : logged = [th EXCEPT !.log = Append(@, time)]
      OBVIOUS
    <3>2. /\ logged \in Throttler /\ logged.log = Append(th.log, time)
          /\ logged.window = th.window /\ logged.allowed = th.allowed
      BY <1>2, <3>1, StampAdded
    <3>3. Evaluate(th, msg) = ReEvaluate(logged, time)
      BY <1>1, <2>1, <3>1 DEF Evaluate, AddTimestamp
    <3> QED BY <1>1, <2>1, <3>2, <3>3
  <2>2. CASE msg.state # "allowed"
    BY <1>1, <2>2 DEF Evaluate
  <2> QED BY <2>1, <2>2
<1>4. known \in Seq(Nat) /\ Len(known) \in Nat
  BY <1>3 DEF Throttler, Throttlers
<1>5. Sorted(known)
  <2>1. CASE msg.state = "allowed"
    <3>1. PICK stamp : stamp = [n \in {0} |-> time]
      OBVIOUS
    <3>2. Logs(th.log, {}, stamp, time) /\ stamp[0] = time
      BY <1>1, <3>1, NothingTracked
    <3>3. PICK log : log = th.log
      OBVIOUS
    <3>4. Logs(Append(log, time), {} \cup {0}, stamp, time)
      BY <1>2, <3>2, <3>3, LogsOneMore
    <3> QED BY <1>1, <2>1, <3>3, <3>4 DEF Logs
  <2>2. CASE msg.state # "allowed"
    BY <2>2
  <2> QED BY <2>1, <2>2
<1>6. CASE Len(known) < th.allowed
  BY <1>2, <1>3, <1>4, <1>6 DEF ReEvaluate
<1>7. CASE ~(Len(known) < th.allowed)
  <2>1. Evaluate(th, msg) = Truncate(one, time)
    BY <1>2, <1>3, <1>4, <1>7 DEF ReEvaluate
  <2>2. PICK bound, first : bound = time - w /\ first = LowerBound(known, bound)
    OBVIOUS
  <2>3. Cutoff(one, time) = bound /\ bound \in Nat
    BY <1>2, <1>3, <2>2, CutoffType
  <2>4. Evaluate(th, msg).log = SubSeq(known, first, Len(known))
    <3>1. Truncate(one, time).log =
            SubSeq(one.log, LowerBound(one.log, Cutoff(one, time)), Len(one.log))
      BY <1>2, <1>3, TruncateType
    <3> QED BY <1>3, <2>1, <2>2, <2>3, <3>1, Zenon
  <2>5. first \in 1 .. Len(known) + 1 /\ \A i \in 1 .. Len(known) : known[i] < bound <=> i < first
    BY <1>4, <1>5, <2>2, <2>3, LowerBoundFinds
  <2>6. \A i \in 1 .. Len(known) : i >= first <=> time - known[i] <= w
    <3> SUFFICES ASSUME NEW i \in 1 .. Len(known) PROVE i >= first <=> time - known[i] <= w
      OBVIOUS
    <3>1. known[i] \in Nat /\ (known[i] < bound <=> i < first) /\ first \in Int
      BY <1>4, <2>5
    <3>2. PICK x : x = known[i]
      OBVIOUS
    <3>3. x \in Int /\ time \in Int /\ w \in Int /\ bound = time - w
      BY <1>2, <2>2, <3>1, <3>2
    <3>4. x < bound <=> ~(time - x <= w)
      BY <3>3
    <3>5. i < first <=> ~(i >= first)
      BY <3>1
    <3> QED BY <3>1, <3>2, <3>4, <3>5
  <2> QED BY <1>1, <1>7, <2>4, <2>5, <2>6
<1> QED BY <1>6, <1>7

\* The messages on their way are of some earlier time, and come in order.
LEMMA Earlier ==
  ASSUME TypeOK, InOrder, NEW k \in 1 .. Len(toBuilder)
  PROVE  toBuilder[k] \in Messages /\ toBuilder[k].time \in Nat /\ toBuilder[k].time <= now
<1>1. history \in Seq(Entries) /\ toBuilder \in Seq(Messages)
  BY HistoryType
<1>2. PICK n, q, i : n = Len(history) /\ q = Len(toBuilder) /\ i = n - q + k
  OBVIOUS
<1>3. n \in Nat /\ q \in Nat /\ q <= n
  BY <1>1, <1>2 DEF InOrder, Ordered
<1>4. i \in 1 .. n
  BY <1>2, <1>3
<1>5. toBuilder[k] = history[i].msg /\ history[i].msg.time <= now
  BY <1>2, <1>4 DEF InOrder, Ordered
<1> QED BY <1>1, <1>2, <1>4, <1>5, EntryTypes

\* What the builder does to the log of an id that is configured.
LEMMA BuildInOrder ==
  ASSUME TypeOK, LogsInOrder, BuildState, NEW id \in Ids, throttlers[id] # Absent,
         NEW msg, msg = Head(toBuilder), NEW th, th = throttlers[id], NEW later, later = throttlers'[id]
  PROVE  /\ msg \in Messages /\ th \in Throttler /\ Sorted(th.log) /\ Bounded(th.log, msg.time)
         /\ later \in Throttler /\ Sorted(later.log) /\ Bounded(later.log, msg.time)
         /\ (\E i \in DOMAIN msg.ids : \A j \in DOMAIN msg.ids : msg.ids[j] = id <=> j = i)
              => later = Evaluate(th, msg)
<1>1. Builder \in Builders /\ msg \in Messages /\ later = ObserveAll(Builder, msg).throttlers[id]
  BY BuildDoes
<1>2. 1 \in 1 .. Len(toBuilder) /\ toBuilder[1] = msg
  BY DEF TypeOK, BuildState
<1>3. Sorted(th.log) /\ Bounded(th.log, msg.time)
  BY <1>2 DEF LogsInOrder, InTime
<1>4. th \in Throttler
  BY DEF TypeOK, Throttler
<1>5. PICK b : b = Builder
  OBVIOUS
<1>6. b \in Builders /\ b.throttlers[id] = th
  BY <1>1, <1>5 DEF Builder
<1> QED BY <1>1, <1>3, <1>4, <1>5, <1>6, ObserveAllOrder

LEMMA InTimeLater ==
  ASSUME NEW log \in Seq(Nat), NEW queue \in Seq(Messages), NEW time \in Nat, NEW t \in Nat,
         Sorted(log), Bounded(log, time), time <= t, \A k \in 1 .. Len(queue) : time <= queue[k].time
  PROVE  InTime(log, queue, t)
<1>1. \A p \in 1 .. Len(log) : log[p] \in Nat
  OBVIOUS
<1>2. \A k \in 1 .. Len(queue) : queue[k].time \in Nat
  <2> SUFFICES ASSUME NEW k \in 1 .. Len(queue) PROVE queue[k].time \in Nat
    OBVIOUS
  <2>1. queue[k] \in Messages
    OBVIOUS
  <2> QED BY <2>1, TimeAssumption DEF Messages, Times
<1>3. \A p \in 1 .. Len(log) : log[p] <= time
  BY DEF Bounded
<1>4. Bounded(log, t)
  BY <1>1, <1>3 DEF Bounded
<1>5. ASSUME NEW k \in 1 .. Len(queue) PROVE Bounded(log, queue[k].time)
  <2>1. PICK x : x = queue[k].time
    OBVIOUS
  <2>2. x \in Nat /\ time <= x
    BY <1>2, <2>1
  <2>3. Bounded(log, x)
    BY <1>1, <1>3, <2>2 DEF Bounded
  <2> QED BY <2>1, <2>3
<1> QED BY <1>4, <1>5 DEF InTime

LEMMA LogsInOrderStep == TypeOK /\ InOrder /\ LogsInOrder /\ [Next]_vars => LogsInOrder'
<1> SUFFICES ASSUME TypeOK, InOrder, LogsInOrder, [Next]_vars PROVE LogsInOrder'
  OBVIOUS
<1>0. toBuilder \in Seq(Messages) /\ now \in Nat
  BY HistoryType
<1>1. \A id \in Ids : throttlers[id] # Absent => throttlers[id] \in Throttler /\ throttlers[id].log \in Seq(Nat)
  BY DEF TypeOK, Throttler, Throttlers
<1>2. CASE Tick
  <2>1. ASSUME NEW id \in Ids, throttlers[id] # Absent PROVE InTime(throttlers[id].log, toBuilder, now + 1)
    <3>1. PICK log \in Seq(Nat) : log = throttlers[id].log
      BY <1>1, <2>1
    <3>2. InTime(log, toBuilder, now) /\ \A p \in 1 .. Len(log) : log[p] \in Nat
      BY <2>1, <3>1 DEF LogsInOrder
    <3>3. Bounded(log, now + 1)
      BY <1>0, <3>2 DEF InTime, Bounded
    <3> QED BY <3>1, <3>2, <3>3 DEF InTime
  <2> QED BY <1>2, <2>1 DEF Tick, LogsInOrder
<1>3. ASSUME NEW ids \in Kinds, Enforce(ids) PROVE LogsInOrder'
  <2>1. PICK msg \in Messages : msg.time = now /\ toBuilder' = Append(toBuilder, msg)
    BY <1>3, EnforceDoes
  <2>2. PICK longer : longer = Append(toBuilder, msg)
    OBVIOUS
  <2>3. ASSUME NEW id \in Ids, throttlers[id] # Absent PROVE InTime(throttlers[id].log, longer, now)
    <3>1. InTime(throttlers[id].log, toBuilder, now)
      BY <2>3 DEF LogsInOrder
    <3>2. ASSUME NEW k \in 1 .. Len(longer) PROVE Bounded(throttlers[id].log, longer[k].time)
      <4>1. (k \in 1 .. Len(toBuilder) /\ longer[k] = toBuilder[k]) \/ longer[k] = msg
        BY <1>0, <2>2
      <4> QED BY <2>1, <3>1, <4>1 DEF InTime
    <3> QED BY <3>1, <3>2 DEF InTime
  <2> QED BY <1>3, <2>1, <2>2, <2>3 DEF Enforce, LogsInOrder
<1>4. CASE BuildState
  <2>1. PICK msg, rest : msg = Head(toBuilder) /\ rest = Tail(toBuilder)
    OBVIOUS
  <2>2. toBuilder # <<>> /\ toBuilder' = rest /\ now' = now
    BY <1>4, <2>1 DEF BuildState
  <2>3. rest \in Seq(Messages) /\ 1 \in 1 .. Len(toBuilder) /\ toBuilder[1] = msg
    BY <1>0, <2>1, <2>2
  <2>4. msg \in Messages /\ msg.time \in Nat /\ msg.time <= now
    BY <2>3, Earlier
  <2>5. \A k \in 1 .. Len(rest) : msg.time <= rest[k].time
    BY <1>0, <2>1, <2>2, HistoryType, OrderedBuild DEF InOrder
  <2>6. ASSUME NEW id \in Ids, throttlers'[id] # Absent PROVE InTime(throttlers'[id].log, rest, now)
    <3>1. throttlers[id] # Absent
      <4>1. PICK b, after : b = Builder /\ after = ObserveAll(b, msg)
        OBVIOUS
      <4>2. b \in Builders /\ throttlers' = after.throttlers /\ b.throttlers = throttlers
        BY <1>4, <2>1, <4>1, BuildDoes DEF Builder
      <4>3. PassedOver(b, after, id) \/ Evaluated(b, after, id)
        BY <2>4, <4>1, <4>2, ObserveAllDoes
      <4> QED BY <2>6, <4>2, <4>3 DEF PassedOver, Evaluated
    <3>2. PICK th, later : th = throttlers[id] /\ later = throttlers'[id]
      OBVIOUS
    <3>3. later \in Throttler /\ Sorted(later.log) /\ Bounded(later.log, msg.time)
      BY <1>4, <2>1, <3>1, <3>2, BuildInOrder
    <3>4. later.log \in Seq(Nat)
      BY <3>3 DEF Throttler, Throttlers
    <3>5. PICK log, time : log = later.log /\ time = msg.time
      OBVIOUS
    <3>6. InTime(log, rest, now)
      BY <1>0, <2>3, <2>4, <2>5, <3>3, <3>4, <3>5, InTimeLater
    <3> QED BY <3>2, <3>5, <3>6
  <2> QED BY <2>2, <2>6 DEF LogsInOrder
<1>5. CASE Configure
  <2>1. PICK command : command = Commands[Len(results) + 1]
    OBVIOUS
  <2>2. command.id \in Ids /\ Configures(throttlers, throttlers', command.id)
    BY <1>5, <2>1, ConfigureDoes
  <2>3. ASSUME NEW id \in Ids, throttlers'[id] # Absent PROVE InTime(throttlers'[id].log, toBuilder, now)
    <3>1. CASE throttlers[id] # Absent /\ throttlers'[id].log = throttlers[id].log
      BY <3>1 DEF LogsInOrder
    <3>2. CASE Len(throttlers'[id].log) = 0
      BY <3>2 DEF InTime, Sorted, Bounded
    <3>3. throttlers \in [Ids -> Throttler \cup {Absent}]
      BY DEF TypeOK, Throttler
    <3>4. CASE throttlers'[id] = throttlers[id]
      BY <2>3, <3>1, <3>4
    <3>5. CASE throttlers'[id] # throttlers[id]
      <4>1. PICK th \in Throttler :
              /\ Len(th.log) = 0 \/ (throttlers[command.id] # Absent /\ th.log = throttlers[command.id].log)
              /\ throttlers' = [throttlers EXCEPT ![command.id] = th]
        BY <2>2, <3>5 DEF Configures
      <4>2. id = command.id /\ throttlers'[id] = th
        BY <2>2, <3>3, <3>5, <4>1
      <4> QED BY <3>1, <3>2, <4>1, <4>2
    <3> QED BY <3>4, <3>5
  <2> QED BY <1>5, <2>3 DEF Configure, LogsInOrder
<1>6. CASE TakeStates
  BY <1>6 DEF TakeStates, LogsInOrder
<1>7. CASE FlushUpdates
  BY <1>7 DEF FlushUpdates, LogsInOrder
<1>8. CASE UNCHANGED vars
  BY <1>8 DEF vars, LogsInOrder
<1> QED BY <1>2, <1>3, <1>4, <1>5, <1>6, <1>7, <1>8 DEF Next

LEMMA NothingLogged == Init => LogsInOrder
<1> SUFFICES ASSUME Init, NEW id \in Ids, throttlers[id] # Absent
             PROVE  InTime(throttlers[id].log, toBuilder, now)
  BY DEF LogsInOrder
<1>1. Len(throttlers[id].log) = 0
  BY ConfiguredAssumption DEF Init
<1>2. Len(toBuilder) = 0
  BY DEF Init
<1> QED BY <1>1, <1>2 DEF InTime, Sorted, Bounded

\* What is left of the log of an id that msg names once.
CutToWindow(msg, id, th, later) ==
  /\ \E i \in DOMAIN msg.ids : \A j \in DOMAIN msg.ids : msg.ids[j] = id <=> j = i
  /\ th # Absent /\ th.window <= msg.time
  => LET known == IF msg.state = "allowed" THEN Append(th.log, msg.time) ELSE th.log
     IN IF Len(known) < th.allowed THEN later.log = known
        ELSE \E first \in 1 .. Len(known) + 1 :
               /\ later.log = SubSeq(known, first, Len(known))
               /\ \A i \in 1 .. Len(known) : i >= first <=> msg.time - known[i] <= th.window

LEMMA BuildCuts ==
  ASSUME TypeOK, LogsInOrder, BuildState, NEW id \in Ids
  PROVE  CutToWindow(Head(toBuilder), id, throttlers[id], throttlers'[id])
<1>1. PICK msg, th, later : msg = Head(toBuilder) /\ th = throttlers[id] /\ later = throttlers'[id]
  OBVIOUS
<1> SUFFICES ASSUME \E i \in DOMAIN msg.ids : \A j \in DOMAIN msg.ids : msg.ids[j] = id <=> j = i,
                    th # Absent, th.window <= msg.time
             PROVE  CutToWindow(msg, id, th, later)
  BY <1>1 DEF CutToWindow
<1>2. /\ msg \in Messages /\ th \in Throttler /\ Sorted(th.log) /\ Bounded(th.log, msg.time)
      /\ later = Evaluate(th, msg)
  BY <1>1, BuildInOrder
<1>3. PICK known : known = IF msg.state = "allowed" THEN Append(th.log, msg.time) ELSE th.log
  OBVIOUS
<1>4. IF Len(known) < th.allowed THEN later.log = known
      ELSE \E first \in 1 .. Len(known) + 1 :
             /\ later.log = SubSeq(known, first, Len(known))
             /\ \A i \in 1 .. Len(known) : i >= first <=> msg.time - known[i] <= th.window
  BY <1>2, <1>3, EvaluateCuts
<1> QED BY <1>3, <1>4 DEF CutToWindow

\* A message that reaches the builder cuts the log of an id it names once to
\* exactly the stamps of the id's window, if it holds as many as are allowed, whatever was configured in between
\* (SlidingLogThrottler::truncate).
THEOREM LogsAreWindows == Spec => LogIsWindow
<1>1. Init => TypeOK /\ InOrder /\ LogsInOrder
  BY TypeHolds, KeptInitially, NothingLogged
<1>2. TypeOK /\ InOrder /\ LogsInOrder /\ [Next]_vars => TypeOK' /\ InOrder' /\ LogsInOrder'
  BY TypeStep, OrderStep, LogsInOrderStep
<1> DEFINE Cuts == Len(toBuilder') < Len(toBuilder) =>
                     \A id \in Ids : CutToWindow(Head(toBuilder), id, throttlers[id], throttlers'[id])
<1>3. TypeOK /\ LogsInOrder /\ [Next]_vars => Cuts
  <2> SUFFICES ASSUME TypeOK, LogsInOrder, [Next]_vars, Len(toBuilder') < Len(toBuilder) PROVE BuildState
    BY BuildCuts
  <2>1. Len(toBuilder) \in Nat
    BY DEF TypeOK
  <2>2. toBuilder' # toBuilder
    BY <2>1
  <2>3. ASSUME NEW ids \in Kinds, Enforce(ids) PROVE FALSE
    <3>1. PICK msg \in Messages : toBuilder' = Append(toBuilder, msg)
      BY <2>3, EnforceDoes
    <3> QED BY <2>1, <3>1 DEF TypeOK
  <2> QED BY <2>2, <2>3 DEF Next, Tick, TakeStates, FlushUpdates, Configure, vars
<1>4. [][Cuts]_vars => LogIsWindow
  BY PTL DEF LogIsWindow, CutToWindow
<1> QED BY <1>1, <1>2, <1>3, <1>4, PTL DEF Spec
=============================================================================
