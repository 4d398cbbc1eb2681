-------------------------- MODULE StorePipeline_proofs --------------------------
(***************************************************************************)
(* The stages behind the key value store, for any keys, values, messages   *)
(* and filters and any size of the load balancer's index: the types of     *)
(* lists and sets hold, rounds are fair, and the filters keep their word.  *)
(* Then the other balancer, for any threads, sources and messages.         *)
(***************************************************************************)
EXTENDS StorePipeline, InProcessLoadBalancer, SequenceTheorems, TLAPS

-----------------------------------------------------------------------------
(* Remainders.                                                             *)

LEMMA Remainder ==
  ASSUME NEW a \in Nat, NEW b \in Nat \ {0}
  PROVE  a % b \in 0 .. b - 1 /\ a % b <= a
  OBVIOUS

LEMMA RemainderBelow ==
  ASSUME NEW b \in Nat \ {0}, NEW a \in 0 .. b - 1
  PROVE  a % b = a
  OBVIOUS

LEMMA RemainderSelf ==
  ASSUME NEW b \in Nat \ {0}
  PROVE  b % b = 0
  OBVIOUS

-----------------------------------------------------------------------------
(* The inductive invariant.                                                *)

Data == Endpoints \cup Names \cup Addresses
Value == [type : Types, data : Data]

\* What the maps hold are records of a type and its elements.
Shapes ==
  /\ \A k \in DOMAIN lists : lists[k] \in [type : Types, items : Seq(Value)]
  /\ \A k \in DOMAIN sets : sets[k] \in [type : Types, items : SUBSET Value]

\* The last round of a pool, told backwards from the index that was used last:
\* each turn is one before the turn after it, the first endpoint's turn coming
\* after the last one's.
InTurn(p) ==
  LET n == Len(turns[p]) IN
  \A i \in 1 .. n :
    /\ turns[p][i] < ListCount(p)
    /\ \/ turns[p][i] + (n - i) = lastSelection[p]
       \/ turns[p][i] + (n - i) = lastSelection[p] + ListCount(p)

Rounds ==
  \A p \in Pools :
    /\ p \notin DOMAIN lists => turns[p] = <<>>
    /\ p \in DOMAIN lists =>
         /\ Len(turns[p]) <= ListCount(p)
         /\ ListCount(p) <= IndexSize /\ turns[p] # <<>> =>
              p \in DOMAIN lastSelection /\ lastSelection[p] < ListCount(p) /\ InTurn(p)

PInv == TypeOK /\ Shapes /\ Rounds
LEMMA InitPipeline == Init => PInv
<1> SUFFICES ASSUME Init PROVE PInv
  OBVIOUS
<1>1. /\ DOMAIN single = {} /\ DOMAIN lists = {} /\ DOMAIN sets = {} /\ DOMAIN lastSelection = {}
      /\ turns \in [Pools -> Seq(0 .. IndexSize - 1)] /\ \A p \in Pools : turns[p] = <<>>
      /\ outcome \in Outcomes /\ misfits \in 0 .. MaxTypes
  BY PipelineAssumption DEF Init, StoreInit, BalancerInit, Empty, Outcomes
<1> QED BY <1>1 DEF PInv, TypeOK, StoreTypeOK, Shapes, Rounds

\* What the rest of the type invariant says, apart from the store.
RestOK ==
  /\ DOMAIN lastSelection \subseteq Pools
  /\ \A p \in DOMAIN lastSelection : lastSelection[p] \in 0 .. IndexSize - 1
  /\ outcome \in Outcomes
  /\ turns \in [Pools -> Seq(0 .. IndexSize - 1)]
  /\ misfits \in 0 .. MaxTypes

SingleOK == DOMAIN single \subseteq Settings /\ \A k \in DOMAIN single : single[k] \in Value

OfType(type) == [type : {type}, data : Data]

ListOK(list) == /\ list \in [type : Types, items : Seq(Value)]
                /\ list.items \in Seq(OfType(list.type)) \ {<<>>}

SetOK(set) == /\ set \in [type : Types, items : SUBSET Value]
              /\ set.items \in (SUBSET OfType(set.type)) \ {{}}

ListsOK == DOMAIN lists \subseteq Pools /\ \A k \in DOMAIN lists : ListOK(lists[k])
SetsOK == DOMAIN sets \subseteq SetKeys /\ \A k \in DOMAIN sets : SetOK(sets[k])

LEMMA Parts == PInv <=> SingleOK /\ ListsOK /\ SetsOK /\ RestOK /\ Rounds
  BY DEF PInv, TypeOK, StoreTypeOK, Shapes, SingleOK, ListsOK, SetsOK, ListOK, SetOK, OfType,
         RestOK, Data, Value

LEMMA PartsAfter == (SingleOK' /\ ListsOK' /\ SetsOK' /\ RestOK' /\ Rounds') => PInv'
  BY Parts, PTL

\* A list or set that changes has only itself to account for.
LEMMA KeepListsOK ==
  ASSUME ListsOK, NEW pool \in Pools, DOMAIN lists' \subseteq DOMAIN lists \cup {pool},
         \A k \in DOMAIN lists \ {pool} : lists'[k] = lists[k], ListOK(lists'[pool])
  PROVE  ListsOK'
<1>1. \A k \in DOMAIN lists' : ListOK(lists'[k])
  BY DEF ListsOK
<1>2. \A k : ListOK(lists[k])' <=> ListOK(lists'[k])
  BY DEF ListOK
<1> QED BY <1>1, <1>2 DEF ListsOK

LEMMA KeepSetsOK ==
  ASSUME SetsOK, NEW key \in SetKeys, DOMAIN sets' \subseteq DOMAIN sets \cup {key},
         \A k \in DOMAIN sets \ {key} : sets'[k] = sets[k], SetOK(sets'[key])
  PROVE  SetsOK'
<1>1. \A k \in DOMAIN sets' : SetOK(sets'[k])
  BY DEF SetsOK
<1>2. \A k : SetOK(sets[k])' <=> SetOK(sets'[k])
  BY DEF SetOK
<1> QED BY <1>1, <1>2 DEF SetsOK

\* A list that takes an element keeps its type and is one longer.
LEMMA ListGrows ==
  ASSUME ListsOK, NEW pool \in Pools, NEW value \in Value, AddToList(pool, value)
  PROVE  /\ ListsOK'
         /\ lists' = lists \/ /\ DOMAIN lists' = DOMAIN lists \cup {pool}
                              /\ \A k \in DOMAIN lists \ {pool} : lists'[k] = lists[k]
                              /\ pool \in DOMAIN lists => ListCount(pool)' = ListCount(pool) + 1
<1>1. CASE pool \notin DOMAIN lists
  <2>1. lists' = With(lists, pool, [type |-> value.type, items |-> <<value>>])
    BY <1>1 DEF AddToList
  <2>2. /\ DOMAIN lists' = DOMAIN lists \cup {pool}
        /\ \A k \in DOMAIN lists \ {pool} : lists'[k] = lists[k]
        /\ lists'[pool] = [type |-> value.type, items |-> <<value>>]
    BY <1>1, <2>1 DEF With
  <2>3. /\ lists'[pool].type = value.type /\ lists'[pool].items = <<value>>
        /\ value.type \in Types /\ value \in OfType(value.type)
        /\ lists'[pool] \in [type : Types, items : Seq(Value)]
    BY <2>2 DEF Value, OfType
  <2>4. ListOK(lists'[pool])
    BY <2>3 DEF ListOK
  <2>5. ListsOK'
    BY <2>2, <2>4, KeepListsOK
  <2> QED BY <1>1, <2>2, <2>5
<1>2. CASE pool \in DOMAIN lists /\ lists[pool].type = value.type
  <2>1. lists' = [lists EXCEPT ![pool].items = Append(@, value)]
    BY <1>2 DEF AddToList
  <2>2. PICK old \in [type : Types, items : Seq(Value)] : old = lists[pool]
    BY <1>2 DEF ListsOK, ListOK
  <2>3. /\ DOMAIN lists' = DOMAIN lists
        /\ \A k \in DOMAIN lists \ {pool} : lists'[k] = lists[k]
        /\ lists'[pool] = [old EXCEPT !.items = Append(@, value)]
    BY <1>2, <2>1, <2>2
  <2>4. /\ lists'[pool].type = old.type /\ lists'[pool].items = Append(old.items, value)
        /\ lists'[pool] \in [type : Types, items : Seq(Value)]
    BY <2>2, <2>3
  <2>5. value \in OfType(old.type) /\ old.items \in Seq(OfType(old.type))
    BY <1>2, <2>2 DEF ListsOK, ListOK, Value, OfType
  <2>6. ListOK(lists'[pool])
    BY <2>4, <2>5 DEF ListOK
  <2>7. ListsOK'
    BY <1>2, <2>3, <2>6, KeepListsOK
  <2>8. ListCount(pool)' = ListCount(pool) + 1
    BY <2>2, <2>4 DEF ListCount
  <2> QED BY <1>2, <2>3, <2>7, <2>8
<1>3. CASE pool \in DOMAIN lists /\ lists[pool].type # value.type
  BY <1>3 DEF AddToList, ListsOK
<1> QED BY <1>1, <1>2, <1>3

\* A set that takes an element keeps its type and what it has.
LEMMA SetGrows ==
  ASSUME SetsOK, NEW key \in SetKeys, NEW value \in Value, AddToSet(key, value)
  PROVE  /\ SetsOK'
         /\ \A k \in DOMAIN sets : /\ k \in DOMAIN sets' /\ sets'[k].type = sets[k].type
                                   /\ sets[k].items \subseteq sets'[k].items
<1>1. CASE key \notin DOMAIN sets
  <2>1. sets' = With(sets, key, [type |-> value.type, items |-> {value}])
    BY <1>1 DEF AddToSet
  <2>2. /\ DOMAIN sets' = DOMAIN sets \cup {key}
        /\ \A k \in DOMAIN sets : sets'[k] = sets[k]
        /\ sets'[key] = [type |-> value.type, items |-> {value}]
    BY <1>1, <2>1 DEF With
  <2>3. /\ sets'[key].type = value.type /\ sets'[key].items = {value}
        /\ value.type \in Types /\ value \in OfType(value.type)
        /\ sets'[key] \in [type : Types, items : SUBSET Value]
    BY <2>2 DEF Value, OfType
  <2>4. SetOK(sets'[key])
    BY <2>3 DEF SetOK
  <2>5. SetsOK'
    BY <2>2, <2>4, KeepSetsOK
  <2> QED BY <2>2, <2>5
<1>2. CASE key \in DOMAIN sets /\ sets[key].type = value.type
  <2>1. sets' = [sets EXCEPT ![key].items = @ \cup {value}]
    BY <1>2 DEF AddToSet
  <2>2. PICK old \in [type : Types, items : SUBSET Value] : old = sets[key]
    BY <1>2 DEF SetsOK, SetOK
  <2>3. /\ DOMAIN sets' = DOMAIN sets
        /\ \A k \in DOMAIN sets \ {key} : sets'[k] = sets[k]
        /\ sets'[key] = [old EXCEPT !.items = @ \cup {value}]
    BY <1>2, <2>1, <2>2
  <2>4. /\ sets'[key].type = old.type /\ sets'[key].items = old.items \cup {value}
        /\ sets'[key] \in [type : Types, items : SUBSET Value]
    BY <2>2, <2>3
  <2>5. value \in OfType(old.type) /\ old.items \in SUBSET OfType(old.type)
    BY <1>2, <2>2 DEF SetsOK, SetOK, Value, OfType
  <2>6. SetOK(sets'[key])
    BY <2>4, <2>5 DEF SetOK
  <2>7. SetsOK'
    BY <1>2, <2>3, <2>6, KeepSetsOK
  <2> QED BY <2>2, <2>3, <2>4, <2>7
<1>3. CASE key \in DOMAIN sets /\ sets[key].type # value.type
  BY <1>3 DEF AddToSet, SetsOK
<1> QED BY <1>1, <1>2, <1>3
-----------------------------------------------------------------------------
(* The load balancer.                                                      *)

\* The next index is one of the pool's and of the type's; as long as the type
\* can number the pool, it is the one after the last.
LEMMA NextInRange ==
  ASSUME ListsOK, RestOK, NEW pool \in DOMAIN lists
  PROVE  /\ ListCount(pool) \in Nat \ {0}
         /\ NextIndex(pool) \in 0 .. IndexSize - 1 /\ NextIndex(pool) \in 0 .. ListCount(pool) - 1
         /\ /\ pool \in DOMAIN lastSelection
            /\ lastSelection[pool] < ListCount(pool) /\ ListCount(pool) <= IndexSize
            => NextIndex(pool) = IF lastSelection[pool] + 1 = ListCount(pool) THEN 0
                                 ELSE lastSelection[pool] + 1
<1>1. PICK n : n = ListCount(pool)
  OBVIOUS
<1>2. PICK last : last = LastIndex(pool)
  OBVIOUS
<1>3. n \in Nat \ {0}
  <2>1. lists[pool].items \in Seq(OfType(lists[pool].type)) /\ lists[pool].items # <<>>
    BY DEF ListsOK, ListOK
  <2> QED BY <1>1, <2>1 DEF ListCount
<1>4. last \in 0 .. IndexSize - 1 /\ last \in Nat
  BY <1>2, IndexSizeAssumption DEF LastIndex, RestOK
<1>5. PICK step : step = (last + 1) % IndexSize
  OBVIOUS
<1>6. step \in 0 .. IndexSize - 1 /\ step \in Nat
  BY <1>4, <1>5, Remainder, IndexSizeAssumption
<1>7. NextIndex(pool) = step % n
  BY <1>1, <1>2, <1>5 DEF NextIndex
<1>8. step % n \in 0 .. n - 1 /\ step % n <= step
  BY <1>3, <1>6, Remainder
<1>9. NextIndex(pool) \in 0 .. IndexSize - 1 /\ NextIndex(pool) \in 0 .. n - 1
  BY <1>3, <1>6, <1>7, <1>8, IndexSizeAssumption
<1>10. ASSUME last < n, n <= IndexSize
       PROVE  NextIndex(pool) = IF last + 1 = n THEN 0 ELSE last + 1
  <2>1. CASE last + 1 = IndexSize
    <3>1. step = 0 /\ last + 1 = n
      BY <1>3, <1>4, <1>5, <1>10, <2>1, RemainderSelf, IndexSizeAssumption
    <3>2. 0 % n = 0
      BY <1>3, RemainderBelow
    <3> QED BY <1>7, <3>1, <3>2
  <2>2. CASE last + 1 # IndexSize
    <3>1. last + 1 \in 0 .. IndexSize - 1
      BY <1>4, <2>2, IndexSizeAssumption
    <3>2. step = last + 1
      BY <1>5, <3>1, RemainderBelow, IndexSizeAssumption
    <3>3. CASE last + 1 = n
      BY <1>3, <1>7, <3>2, <3>3, RemainderSelf
    <3>4. CASE last + 1 # n
      <4>1. last + 1 \in 0 .. n - 1
        BY <1>3, <1>4, <1>10, <3>4
      <4> QED BY <1>3, <1>7, <3>2, <3>4, <4>1, RemainderBelow
    <3> QED BY <3>3, <3>4
  <2> QED BY <2>1, <2>2
<1>11. pool \in DOMAIN lastSelection => last = lastSelection[pool]
  BY <1>2 DEF LastIndex
<1> QED BY <1>1, <1>3, <1>9, <1>10, <1>11

\* The last round after one more turn: the turn is added, and where the round
\* was full its first turn is forgotten.
LEMMA RoundTurns ==
  ASSUME ListsOK, RestOK, Rounds, NEW pool \in Pools \cap DOMAIN lists
  PROVE  LET r == Round(pool)
             n == Len(turns[pool])
             drop == IF n + 1 > ListCount(pool) THEN 1 ELSE 0
         IN /\ r \in Seq(0 .. IndexSize - 1) /\ n \in Nat
            /\ Len(r) = n + 1 - drop /\ Len(r) <= ListCount(pool) /\ r # <<>>
            /\ r[Len(r)] = NextIndex(pool)
            /\ \A i \in 1 .. Len(r) - 1 : i + drop \in 1 .. n /\ r[i] = turns[pool][i + drop]
<1> DEFINE r == Round(pool)
           n == Len(turns[pool])
           drop == IF n + 1 > ListCount(pool) THEN 1 ELSE 0
           all == Append(turns[pool], NextIndex(pool))
<1>1. /\ turns[pool] \in Seq(0 .. IndexSize - 1) /\ n \in Nat /\ n <= ListCount(pool)
      /\ ListCount(pool) \in Nat \ {0} /\ NextIndex(pool) \in 0 .. IndexSize - 1
  BY NextInRange DEF RestOK, Rounds
<1>2. /\ all \in Seq(0 .. IndexSize - 1) /\ Len(all) = n + 1
      /\ all[n + 1] = NextIndex(pool)
      /\ \A i \in 1 .. n : all[i] = turns[pool][i]
  BY <1>1
<1>3. r = SubSeq(all, drop + 1, n + 1)
  BY <1>1, <1>2 DEF Round
<1>4. drop \in {0, 1} /\ (drop = 1 => n = ListCount(pool)) /\ (drop = 0 => n + 1 <= ListCount(pool))
  BY <1>1
<1> HIDE DEF r, n, drop, all
<1>5. \A i \in (drop + 1) .. (n + 1) : all[i] \in 0 .. IndexSize - 1
  <2> SUFFICES ASSUME NEW i \in (drop + 1) .. (n + 1) PROVE all[i] \in 0 .. IndexSize - 1
    OBVIOUS
  <2>1. i \in 1 .. Len(all)
    BY <1>1, <1>2, <1>4
  <2>2. PICK S : S = 0 .. IndexSize - 1
    OBVIOUS
  <2>3. all \in Seq(S)
    BY <1>2, <2>2
  <2>4. all[i] \in S
    BY <2>1, <2>3
  <2> QED BY <2>2, <2>4
<1>6. /\ r \in Seq(0 .. IndexSize - 1)
      /\ Len(r) = IF drop + 1 <= n + 1 THEN n + 1 - (drop + 1) + 1 ELSE 0
      /\ \A i \in 1 .. n + 1 - (drop + 1) + 1 : r[i] = all[drop + 1 + i - 1]
  BY <1>1, <1>3, <1>4, <1>5, SubSeqProperties
<1>7. Len(r) = n + 1 - drop /\ Len(r) \in Nat \ {0}
  BY <1>1, <1>4, <1>6
<1>8. \A i \in 1 .. Len(r) : r[i] = all[i + drop]
  BY <1>1, <1>4, <1>6, <1>7
<1>9. r[Len(r)] = NextIndex(pool)
  <2>1. r[Len(r)] = all[Len(r) + drop]
    BY <1>7, <1>8
  <2>2. Len(r) + drop = n + 1
    BY <1>1, <1>4, <1>7
  <2> QED BY <1>2, <2>1, <2>2
<1>10. \A i \in 1 .. Len(r) - 1 : i + drop \in 1 .. n /\ r[i] = turns[pool][i + drop]
  <2> SUFFICES ASSUME NEW i \in 1 .. Len(r) - 1
               PROVE  i + drop \in 1 .. n /\ r[i] = turns[pool][i + drop]
    OBVIOUS
  <2>1. i + drop \in 1 .. n /\ i \in 1 .. Len(r)
    BY <1>1, <1>4, <1>7
  <2> QED BY <1>2, <1>8, <2>1
<1>11. Len(r) <= ListCount(pool) /\ r # <<>>
  BY <1>1, <1>4, <1>7
<1> QED BY <1>1, <1>6, <1>7, <1>9, <1>10, <1>11 DEF r, n, drop

\* A turn keeps rounds as they should be.
LEMMA TurnKeepsRounds ==
  ASSUME ListsOK, RestOK, Rounds, NEW pool \in Pools \cap DOMAIN lists,
         UNCHANGED lists,
         lastSelection' = With(lastSelection, pool, NextIndex(pool)),
         turns' = [turns EXCEPT ![pool] = Round(pool)]
  PROVE  Rounds'
<1>1. /\ \A p \in Pools \ {pool} : turns'[p] = turns[p]
      /\ turns'[pool] = Round(pool)
      /\ DOMAIN lastSelection' = DOMAIN lastSelection \cup {pool}
      /\ lastSelection'[pool] = NextIndex(pool)
      /\ \A p \in DOMAIN lastSelection \ {pool} : lastSelection'[p] = lastSelection[p]
  BY DEF RestOK, With
<1>2. ASSUME NEW p \in Pools \ {pool}
      PROVE  /\ p \notin DOMAIN lists' => turns'[p] = <<>>
             /\ p \in DOMAIN lists' =>
                  /\ Len(turns'[p]) <= ListCount(p)'
                  /\ ListCount(p)' <= IndexSize /\ turns'[p] # <<>> =>
                       p \in DOMAIN lastSelection' /\ lastSelection'[p] < ListCount(p)' /\ InTurn(p)'
  <2>1. ListCount(p)' = ListCount(p)
    BY DEF ListCount
  <2>2. p \in DOMAIN lastSelection => (InTurn(p)' <=> InTurn(p))
    BY <1>1, <2>1 DEF InTurn
  <2>3. p \in DOMAIN lastSelection => p \in DOMAIN lastSelection' /\ lastSelection'[p] = lastSelection[p]
    BY <1>1
  <2> QED BY <1>1, <2>1, <2>2, <2>3 DEF Rounds
<1>3. /\ Len(turns'[pool]) <= ListCount(pool)'
      /\ ListCount(pool)' <= IndexSize =>
           pool \in DOMAIN lastSelection' /\ lastSelection'[pool] < ListCount(pool)' /\ InTurn(pool)'
  <2>1. PICK c : c = ListCount(pool)
    OBVIOUS
  <2>2. ListCount(pool)' = c
    BY <2>1 DEF ListCount
  <2>3. PICK r : r = Round(pool)
    OBVIOUS
  <2>4. PICK n, drop : n = Len(turns[pool]) /\ drop = IF n + 1 > c THEN 1 ELSE 0
    OBVIOUS
  <2>5. PICK next : next = NextIndex(pool)
    OBVIOUS
  <2>6. /\ c \in Nat \ {0} /\ n \in Nat /\ next \in 0 .. c - 1
        /\ Len(r) = n + 1 - drop /\ Len(r) <= c /\ Len(r) \in Nat
        /\ r[Len(r)] = next
        /\ \A i \in 1 .. Len(r) - 1 : i + drop \in 1 .. n /\ r[i] = turns[pool][i + drop]
    <3>1. c \in Nat \ {0} /\ next \in 0 .. c - 1
      BY <2>1, <2>5, NextInRange
    <3>2. /\ r \in Seq(0 .. IndexSize - 1) /\ n \in Nat
          /\ Len(r) = n + 1 - drop /\ Len(r) <= c
          /\ r[Len(r)] = next
          /\ \A i \in 1 .. Len(r) - 1 : i + drop \in 1 .. n /\ r[i] = turns[pool][i + drop]
      BY <2>1, <2>3, <2>4, <2>5, RoundTurns
    <3> QED BY <3>1, <3>2
  <2>7. turns'[pool] = r /\ lastSelection'[pool] = next
    BY <1>1, <2>3, <2>5
  <2>8. ASSUME c <= IndexSize, NEW i \in 1 .. Len(r)
        PROVE  r[i] < c /\ (r[i] + (Len(r) - i) = next \/ r[i] + (Len(r) - i) = next + c)
    <3>1. CASE i = Len(r)
      BY <2>6, <3>1
    <3>2. CASE i # Len(r)
      <4>1. PICK j : j = i + drop
        OBVIOUS
      <4>2. j \in 1 .. n /\ r[i] = turns[pool][j] /\ Len(r) - i = n + 1 - j
        BY <2>4, <2>6, <3>2, <4>1
      <4>3. PICK last : last = lastSelection[pool]
        OBVIOUS
      <4>4. /\ pool \in DOMAIN lastSelection /\ last < c /\ n <= c
            /\ r[i] < c /\ (r[i] + (n - j) = last \/ r[i] + (n - j) = last + c)
        <5>1. turns[pool] # <<>>
          BY <2>4, <4>2
        <5>2. n <= c /\ pool \in DOMAIN lastSelection /\ last < c /\ InTurn(pool)
          BY <2>1, <2>4, <2>8, <4>3, <5>1 DEF Rounds
        <5> QED BY <2>1, <2>4, <4>2, <4>3, <5>2 DEF InTurn
      <4>5. next = IF last + 1 = c THEN 0 ELSE last + 1
        BY <2>1, <2>5, <2>8, <4>3, <4>4, NextInRange
      <4>6. last \in Nat /\ r[i] \in Nat
        <5>1. turns[pool] \in Seq(0 .. IndexSize - 1) /\ last \in 0 .. IndexSize - 1
          BY <4>3, <4>4 DEF RestOK
        <5> QED BY <2>4, <4>2, <5>1, IndexSizeAssumption
      <4>7. PICK now, left : now = r[i] /\ left = n - j
        OBVIOUS
      <4>8. /\ now \in Nat /\ left \in Nat /\ left + 1 <= n /\ now < c /\ n <= c
            /\ now + left = last \/ now + left = last + c
        BY <2>6, <4>2, <4>4, <4>6, <4>7
      <4>9. Len(r) - i = left + 1
        BY <2>6, <4>2, <4>7
      <4>10. now + (left + 1) = next \/ now + (left + 1) = next + c
        <5>1. CASE last + 1 = c
          <6>1. now + left # last + c
            BY <2>6, <4>6, <4>8, <5>1
          <6> QED BY <2>6, <4>5, <4>6, <4>8, <5>1, <6>1
        <5>2. CASE last + 1 # c
          BY <2>6, <4>5, <4>6, <4>8, <5>2
        <5> QED BY <5>1, <5>2
      <4> QED BY <4>4, <4>7, <4>9, <4>10
    <3> QED BY <3>1, <3>2
  <2>9. c <= IndexSize => InTurn(pool)'
    BY <2>2, <2>7, <2>8 DEF InTurn
  <2> QED BY <1>1, <2>2, <2>6, <2>7, <2>9
<1>4. pool \in DOMAIN lists'
  OBVIOUS
<1> QED BY <1>2, <1>3, <1>4 DEF Rounds

\* A pool that grows begins a new round.
LEMMA GrowthKeepsRounds ==
  ASSUME ListsOK, RestOK, Rounds, NEW pool \in Pools, UNCHANGED lastSelection,
         DOMAIN lists' = DOMAIN lists \cup {pool},
         \A k \in DOMAIN lists \ {pool} : lists'[k] = lists[k],
         ListsOK', turns' = [turns EXCEPT ![pool] = <<>>]
  PROVE  Rounds'
<1>1. ASSUME NEW p \in Pools \ {pool}
      PROVE  /\ p \notin DOMAIN lists' => turns'[p] = <<>>
             /\ p \in DOMAIN lists' =>
                  /\ Len(turns'[p]) <= ListCount(p)'
                  /\ ListCount(p)' <= IndexSize /\ turns'[p] # <<>> =>
                       p \in DOMAIN lastSelection' /\ lastSelection'[p] < ListCount(p)' /\ InTurn(p)'
  <2>1. turns'[p] = turns[p] /\ (p \in DOMAIN lists' <=> p \in DOMAIN lists)
    BY DEF RestOK
  <2>2. p \in DOMAIN lists => ListCount(p)' = ListCount(p)
    BY DEF ListCount
  <2>3. p \in DOMAIN lists => (InTurn(p)' <=> InTurn(p))
    BY <2>1, <2>2 DEF InTurn
  <2> QED BY <2>1, <2>2, <2>3 DEF Rounds
<1>2. turns'[pool] = <<>> /\ pool \in DOMAIN lists'
  BY DEF RestOK
<1>3. 0 <= ListCount(pool)'
  <2>1. ListOK(lists[pool])'
    BY <1>2 DEF ListsOK
  <2>2. lists'[pool].items \in Seq(OfType(lists'[pool].type))
    BY <2>1 DEF ListOK
  <2> QED BY <2>2 DEF ListCount
<1> QED BY <1>1, <1>2, <1>3 DEF Rounds
-----------------------------------------------------------------------------
(* One lemma per action.                                                   *)

LEMMA Fits ==
  ASSUME RestOK, NEW value, Fitting(value)
  PROVE  misfits' \in 0 .. MaxTypes
  BY PipelineAssumption DEF RestOK, Fitting

\* Nothing but single values changes.
LEMMA ConfigureStep ==
  ASSUME PInv, NEW key \in Settings, NEW value \in Value, Configure(key, value)
  PROVE  PInv' /\ sets' = sets
<1>1. SingleOK /\ ListsOK /\ SetsOK /\ RestOK /\ Rounds
  BY Parts
<1>2. /\ single' = With(single, key, value)
      /\ UNCHANGED <<lists, sets, lastSelection, outcome, turns>> /\ Fitting(value)
  BY DEF Configure, Add
<1>3. SingleOK'
  BY <1>1, <1>2 DEF SingleOK, With
<1>4. ListsOK' /\ SetsOK' /\ Rounds'
  BY <1>1, <1>2 DEF ListsOK, ListOK, SetsOK, SetOK, Rounds, InTurn, ListCount
<1>5. RestOK'
  BY <1>1, <1>2, Fits DEF RestOK
<1>6. PInv'
  BY <1>3, <1>4, <1>5, PartsAfter
<1> QED BY <1>2, <1>6

\* A pool grows and begins its rounds anew, or nothing changes.
LEMMA AddEndpointStep ==
  ASSUME PInv, NEW pool \in Pools, NEW value \in Value, AddEndpoint(pool, value)
  PROVE  PInv' /\ sets' = sets
<1>1. SingleOK /\ ListsOK /\ SetsOK /\ RestOK /\ Rounds
  BY Parts
<1>2. /\ AddToList(pool, value) /\ UNCHANGED <<single, sets, lastSelection, outcome>>
      /\ turns' = IF lists' = lists THEN turns ELSE [turns EXCEPT ![pool] = <<>>]
      /\ Fitting(value)
  BY DEF AddEndpoint, AddToList
<1>3. SingleOK' /\ SetsOK'
  BY <1>1, <1>2 DEF SingleOK, SetsOK, SetOK
<1>4. ListsOK'
  BY <1>1, <1>2, ListGrows
<1>5. Rounds'
  <2>1. CASE lists' = lists
    BY <1>1, <1>2, <2>1 DEF Rounds, InTurn, ListCount
  <2>2. CASE lists' # lists
    <3>1. /\ DOMAIN lists' = DOMAIN lists \cup {pool}
          /\ \A k \in DOMAIN lists \ {pool} : lists'[k] = lists[k]
      BY <1>1, <1>2, <2>2, ListGrows
    <3> QED BY <1>1, <1>2, <1>4, <2>2, <3>1, GrowthKeepsRounds
  <2> QED BY <2>1, <2>2
<1>6. RestOK'
  <2>1. <<>> \in Seq(0 .. IndexSize - 1)
    OBVIOUS
  <2>2. turns' \in [Pools -> Seq(0 .. IndexSize - 1)]
    BY <1>1, <1>2, <2>1 DEF RestOK
  <2>3. misfits' \in 0 .. MaxTypes
    BY <1>1, <1>2, Fits
  <2> QED BY <1>1, <1>2, <2>2, <2>3 DEF RestOK
<1>7. PInv'
  BY <1>3, <1>4, <1>5, <1>6, PartsAfter
<1> QED BY <1>2, <1>7

LEMMA AddNameStep ==
  ASSUME PInv, NEW key \in SetKeys, NEW value \in Value, AddName(key, value)
  PROVE  /\ PInv'
         /\ \A k \in DOMAIN sets : /\ k \in DOMAIN sets' /\ sets'[k].type = sets[k].type
                                   /\ sets[k].items \subseteq sets'[k].items
<1>1. SingleOK /\ ListsOK /\ SetsOK /\ RestOK /\ Rounds
  BY Parts
<1>2. /\ AddToSet(key, value) /\ UNCHANGED <<single, lists, lastSelection, outcome, turns>>
      /\ Fitting(value)
  BY DEF AddName, AddToSet
<1>3. SingleOK' /\ ListsOK' /\ Rounds'
  BY <1>1, <1>2 DEF SingleOK, ListsOK, ListOK, Rounds, InTurn, ListCount
<1>4. /\ SetsOK'
      /\ \A k \in DOMAIN sets : /\ k \in DOMAIN sets' /\ sets'[k].type = sets[k].type
                                /\ sets[k].items \subseteq sets'[k].items
  BY <1>1, <1>2, SetGrows
<1>5. RestOK'
  BY <1>1, <1>2, Fits DEF RestOK
<1>6. PInv'
  BY <1>3, <1>4, <1>5, PartsAfter
<1> QED BY <1>4, <1>6

\* A message changes at most the index and the round of one pool that exists.
LEMMA MessageChanges ==
  ASSUME NEW m \in Messages, OnMessage(m)
  PROVE  /\ UNCHANGED <<single, lists, sets, misfits>>
         /\ outcome' \in Outcomes
         /\ \/ UNCHANGED <<lastSelection, turns>>
            \/ \E pool \in DOMAIN lists :
                 /\ lastSelection' = With(lastSelection, pool, NextIndex(pool))
                 /\ turns' = [turns EXCEPT ![pool] = Round(pool)]
<1>1. UNCHANGED <<single, lists, sets, misfits>>
  BY DEF OnMessage, storeVars
<1>2. PICK white, black : /\ white = FilterOutput(TRUE, Whitelist, m)
                          /\ black = FilterOutput(FALSE, Blacklist, m)
  OBVIOUS
<1>3. white \in Outcomes /\ black \in Outcomes
  BY <1>2 DEF FilterOutput, Outcomes
<1>4. CASE white # "out"
  BY <1>1, <1>2, <1>3, <1>4 DEF OnMessage
<1>5. CASE white = "out" /\ black # "out"
  BY <1>1, <1>2, <1>3, <1>5 DEF OnMessage
<1>6. CASE white = "out" /\ black = "out"
  <2>1. Balance(m)
    BY <1>2, <1>6 DEF OnMessage
  <2>2. outcome' \in Outcomes
    BY <2>1 DEF Balance, Outcomes
  <2>3. PICK pool : pool = GetField(m, "pool")
    OBVIOUS
  <2>4. CASE HasField(m, "pool") /\ Selects(pool)
    BY <1>1, <2>1, <2>2, <2>3, <2>4 DEF Balance, Select, Selects
  <2>5. CASE ~(HasField(m, "pool") /\ Selects(pool))
    BY <1>1, <2>1, <2>2, <2>3, <2>5 DEF Balance
  <2> QED BY <2>4, <2>5
<1> QED BY <1>4, <1>5, <1>6

LEMMA OnMessageStep ==
  ASSUME PInv, NEW m \in Messages, OnMessage(m)
  PROVE  PInv' /\ sets' = sets
<1>1. SingleOK /\ ListsOK /\ SetsOK /\ RestOK /\ Rounds
  BY Parts
<1>2. UNCHANGED <<single, lists, sets, misfits>> /\ outcome' \in Outcomes
  BY MessageChanges
<1>3. SingleOK' /\ ListsOK' /\ SetsOK'
  BY <1>1, <1>2 DEF SingleOK, ListsOK, ListOK, SetsOK, SetOK
<1>4. CASE UNCHANGED <<lastSelection, turns>>
  <2>1. Rounds' /\ RestOK'
    BY <1>1, <1>2, <1>4 DEF Rounds, InTurn, ListCount, RestOK
  <2> QED BY <1>2, <1>3, <2>1, PartsAfter
<1>5. ASSUME NEW pool \in DOMAIN lists,
             lastSelection' = With(lastSelection, pool, NextIndex(pool)),
             turns' = [turns EXCEPT ![pool] = Round(pool)]
      PROVE  PInv'
  <2>1. pool \in Pools
    BY <1>1 DEF ListsOK
  <2>2. Rounds'
    BY <1>1, <1>2, <1>5, <2>1, TurnKeepsRounds
  <2>3. NextIndex(pool) \in 0 .. IndexSize - 1 /\ Round(pool) \in Seq(0 .. IndexSize - 1)
    BY <1>1, <2>1, NextInRange, RoundTurns
  <2>4. /\ DOMAIN lastSelection' \subseteq Pools
        /\ \A p \in DOMAIN lastSelection' : lastSelection'[p] \in 0 .. IndexSize - 1
    BY <1>1, <1>5, <2>1, <2>3 DEF RestOK, With
  <2>5. turns' \in [Pools -> Seq(0 .. IndexSize - 1)]
    BY <1>1, <1>5, <2>3 DEF RestOK
  <2>6. RestOK'
    BY <1>1, <1>2, <2>4, <2>5 DEF RestOK
  <2> QED BY <1>3, <2>2, <2>6, PartsAfter
<1>6. PInv'
  BY <1>4, <1>5, MessageChanges
<1> QED BY <1>2, <1>6

-----------------------------------------------------------------------------
(* The steps together.                                                     *)

SetsGrow ==
  \A k \in DOMAIN sets : /\ k \in DOMAIN sets' /\ sets'[k].type = sets[k].type
                         /\ sets[k].items \subseteq sets'[k].items

LEMMA Values ==
  \A data \in Data : Text(data) \in Value /\ Number(data) \in Value
  BY DEF Text, Number, Value, Types

LEMMA NextPipeline == PInv /\ [Next]_vars => PInv' /\ SetsGrow
<1> SUFFICES ASSUME PInv, [Next]_vars PROVE PInv' /\ SetsGrow
  OBVIOUS
<1>1. ASSUME NEW key \in Settings, NEW data \in Addresses,
             Configure(key, Text(data)) \/ Configure(key, Number(data))
      PROVE  PInv' /\ SetsGrow
  <2>1. Text(data) \in Value /\ Number(data) \in Value
    BY Values DEF Data
  <2> QED BY <1>1, <2>1, ConfigureStep DEF SetsGrow
<1>2. ASSUME NEW pool \in Pools, NEW e \in Endpoints,
             AddEndpoint(pool, Text(e)) \/ AddEndpoint(pool, Number(e))
      PROVE  PInv' /\ SetsGrow
  <2>1. Text(e) \in Value /\ Number(e) \in Value
    BY Values DEF Data
  <2> QED BY <1>2, <2>1, AddEndpointStep DEF SetsGrow
<1>3. ASSUME NEW key \in SetKeys, NEW data \in Names,
             AddName(key, Text(data)) \/ AddName(key, Number(data))
      PROVE  PInv' /\ SetsGrow
  <2>1. Text(data) \in Value /\ Number(data) \in Value
    BY Values DEF Data
  <2> QED BY <1>3, <2>1, AddNameStep DEF SetsGrow
<1>4. ASSUME NEW m \in Messages, OnMessage(m)
      PROVE  PInv' /\ SetsGrow
  BY <1>4, OnMessageStep DEF SetsGrow
<1>5. CASE UNCHANGED vars
  <2>1. SingleOK /\ ListsOK /\ SetsOK /\ RestOK /\ Rounds
    BY Parts
  <2>2. SingleOK' /\ ListsOK' /\ SetsOK' /\ RestOK' /\ Rounds'
    BY <1>5, <2>1 DEF vars, SingleOK, ListsOK, ListOK, SetsOK, SetOK, RestOK, Rounds, InTurn, ListCount
  <2> QED BY <1>5, <2>2, PartsAfter DEF vars, SetsGrow
<1> QED BY <1>1, <1>2, <1>3, <1>4, <1>5 DEF Next
-----------------------------------------------------------------------------
(* The theorems.                                                           *)

LEMMA PipelineInvariant == Spec => []PInv
<1>1. PInv /\ [Next]_vars => PInv'
  BY NextPipeline
<1> QED BY <1>1, InitPipeline, PTL DEF Spec

\* The lists and sets of the store hold values of their own type only, however
\* calls with fitting and unfitting values are mixed, and the load balancer's
\* indexes stay in the range of their type: what KeyValueStore's std::get and
\* RoundRobinLoadBalancerStage rely on.
THEOREM StoreTypeCorrect == Spec => []TypeOK
<1>1. PInv => TypeOK
  BY DEF PInv
<1> QED BY <1>1, PipelineInvariant, PTL

\* A round whose turns follow one another never comes back to an endpoint.
LEMMA RoundsAreFair == PInv => RotationIsFair
<1> SUFFICES ASSUME PInv, NEW p \in Pools \cap DOMAIN lists, ListCount(p) <= IndexSize
             PROVE  IsInjective(turns[p])
  BY DEF RotationIsFair
<1>1. ListsOK /\ RestOK /\ Rounds
  BY Parts
<1>2. PICK t, c : t = turns[p] /\ c = ListCount(p)
  OBVIOUS
<1>3. PICK n : n = Len(t)
  OBVIOUS
<1>4. PICK S : S = 0 .. IndexSize - 1
  OBVIOUS
<1>5. t \in Seq(S) /\ n \in Nat /\ DOMAIN t = 1 .. n /\ n <= c
  BY <1>1, <1>2, <1>3, <1>4 DEF RestOK, Rounds
<1>6. ASSUME NEW i \in 1 .. n, NEW j \in 1 .. n, i < j
      PROVE  t[i] # t[j]
  <2>1. t # <<>>
    BY <1>3, <1>5
  <2>2. PICK last : last = lastSelection[p]
    OBVIOUS
  <2>3. p \in DOMAIN lastSelection /\ InTurn(p)
    BY <1>1, <1>2, <2>1 DEF Rounds
  <2>4. /\ t[i] + (n - i) = last \/ t[i] + (n - i) = last + c
        /\ t[j] + (n - j) = last \/ t[j] + (n - j) = last + c
    BY <1>2, <1>3, <1>6, <2>2, <2>3 DEF InTurn
  <2>5. t[i] \in S /\ t[j] \in S
    BY <1>5
  <2>6. PICK a, b : a = t[i] /\ b = t[j]
    OBVIOUS
  <2>7. a \in Nat /\ b \in Nat /\ last \in Nat /\ c \in Nat
    BY <1>1, <1>2, <1>4, <2>2, <2>3, <2>5, <2>6, NextInRange, IndexSizeAssumption DEF RestOK
  <2>8. ASSUME a = b PROVE FALSE
    <3>1. j - i < c /\ j - i > 0
      BY <1>5, <1>6, <2>7
    <3>2. a + (n - i) = a + (n - j) + (j - i)
      BY <1>5, <2>7
    <3>3. PICK x, y : x = a + (n - i) /\ y = a + (n - j)
      OBVIOUS
    <3>4. PICK k : k = j - i
      OBVIOUS
    <3>5. x = y + k /\ k \in Int /\ k > 0 /\ k < c
      BY <3>1, <3>2, <3>3, <3>4, <1>5, <2>7
    <3>6. (x = last \/ x = last + c) /\ (y = last \/ y = last + c)
      BY <2>4, <2>6, <2>8, <3>3
    <3>7. x \in Int /\ y \in Int
      BY <1>5, <2>7, <3>3
    <3> QED BY <2>7, <3>5, <3>6, <3>7
  <2> QED BY <2>6, <2>8
<1>7. \A i, j \in 1 .. n : t[i] = t[j] => i = j
  <2> SUFFICES ASSUME NEW i \in 1 .. n, NEW j \in 1 .. n, t[i] = t[j] PROVE i = j
    OBVIOUS
  <2>1. ~(i < j) /\ ~(j < i)
    BY <1>6
  <2> QED BY <1>5, <2>1
<1> QED BY <1>2, <1>5, <1>7 DEF IsInjective

\* Between two additions to a pool, RoundRobinLoadBalancerStage gives each of
\* its endpoints one turn in as many messages as there are endpoints, complete
\* or not, for pools of any length the index's type can number and with any
\* other pools served in between.
THEOREM RotationsAreFair == Spec => []RotationIsFair
BY RoundsAreFair, PipelineInvariant, PTL

\* What a combination says of a message, once the sets have grown.
LEMMA JudgeAfter ==
  ASSUME SetsGrow, NEW m, NEW combination
  PROVE  /\ Judge(FALSE, combination, m) # "passes" => Judge(FALSE, combination, m)' # "passes"
         /\ /\ HasField(m, combination.set) /\ SetKeyExist(GetField(m, combination.set))
            /\ Judge(TRUE, combination, m) = "passes"
            => Judge(TRUE, combination, m)' = "passes"
<1>1. PICK key, value : /\ key = GetField(m, combination.set)
                        /\ value = [type |-> "string", data |-> GetField(m, combination.value)]
  OBVIOUS
<1>2. key \in DOMAIN sets => /\ key \in DOMAIN sets' /\ sets'[key].type = sets[key].type
                             /\ value \in sets[key].items => value \in sets'[key].items
  BY DEF SetsGrow
<1>3. ASSUME Judge(FALSE, combination, m) # "passes"
      PROVE  Judge(FALSE, combination, m)' # "passes"
  BY <1>1, <1>2, <1>3
     DEF Judge, SetKeyExist, CanSearch, ContainsInSet, HasField, GetField
<1>4. ASSUME HasField(m, combination.set), key \in DOMAIN sets, Judge(TRUE, combination, m) = "passes"
      PROVE  Judge(TRUE, combination, m)' = "passes"
  BY <1>1, <1>2, <1>4
     DEF Judge, SetKeyExist, CanSearch, ContainsInSet, HasField, GetField
<1> QED BY <1>1, <1>3, <1>4 DEF SetKeyExist

\* A filter emits a message that every combination passes, and no other.
LEMMA EmitsWhatPasses ==
  \A ifPresent, combinations, m :
    FilterOutput(ifPresent, combinations, m) = "out"
      <=> \A i \in DOMAIN combinations : Judge(ifPresent, combinations[i], m) \notin {"throws", "condemns"}
BY DEF FilterOutput

LEMMA VerdictsLast ==
  ASSUME SetsGrow, NEW m
  PROVE  /\ FilterOutput(FALSE, Blacklist, m) # "out" => FilterOutput(FALSE, Blacklist, m)' # "out"
         /\ /\ \A i \in DOMAIN Whitelist : /\ HasField(m, Whitelist[i].set)
                                           /\ SetKeyExist(GetField(m, Whitelist[i].set))
            /\ FilterOutput(TRUE, Whitelist, m) = "out"
            => FilterOutput(TRUE, Whitelist, m)' = "out"
<1>1. ASSUME FilterOutput(FALSE, Blacklist, m) # "out"
      PROVE  FilterOutput(FALSE, Blacklist, m)' # "out"
  <2>1. PICK i \in DOMAIN Blacklist : Judge(FALSE, Blacklist[i], m) \in {"throws", "condemns"}
    BY <1>1, EmitsWhatPasses
  <2>2. Judge(FALSE, Blacklist[i], m)' # "passes"
    BY <2>1, JudgeAfter
  <2>3. Judge(FALSE, Blacklist[i], m)' \in {"throws", "condemns"}
    BY <2>2 DEF Judge
  <2> QED BY <2>3 DEF FilterOutput
<1>2. ASSUME FilterOutput(TRUE, Whitelist, m) = "out",
             \A i \in DOMAIN Whitelist : /\ HasField(m, Whitelist[i].set)
                                         /\ SetKeyExist(GetField(m, Whitelist[i].set))
      PROVE  FilterOutput(TRUE, Whitelist, m)' = "out"
  <2>1. ASSUME NEW i \in DOMAIN Whitelist
        PROVE  Judge(TRUE, Whitelist[i], m)' = "passes"
    <3>1. Judge(TRUE, Whitelist[i], m) = "passes"
      <4>1. PICK judged : judged = Judge(TRUE, Whitelist[i], m)
        OBVIOUS
      <4>2. judged \notin {"throws", "condemns"}
        BY <1>2, <2>1, <4>1 DEF FilterOutput
      <4>3. judged \in {"throws", "passes", "condemns"}
        BY <4>1 DEF Judge
      <4> QED BY <4>1, <4>2, <4>3
    <3> QED BY <1>2, <3>1, JudgeAfter
  <2> QED BY <2>1 DEF FilterOutput
<1> QED BY <1>1, <1>2

\* While names are added to sets, endpoints to pools and messages filtered and
\* balanced, in any order: FilterPresentAbsentStage as a blacklist never emits
\* a message like one it has kept out, and as a whitelist of sets that exist it
\* never keeps out a message like one it has emitted.
THEOREM FiltersKeepTheirVerdicts == Spec => FiltersKeepTheirWord
<1>1. PInv /\ [Next]_vars =>
        [\A m \in Messages :
           /\ FilterOutput(FALSE, Blacklist, m) # "out" => FilterOutput(FALSE, Blacklist, m)' # "out"
           /\ /\ \A i \in DOMAIN Whitelist : /\ HasField(m, Whitelist[i].set)
                                             /\ SetKeyExist(GetField(m, Whitelist[i].set))
              /\ FilterOutput(TRUE, Whitelist, m) = "out"
              => FilterOutput(TRUE, Whitelist, m)' = "out"]_vars
  BY NextPipeline, VerdictsLast
<1> QED BY <1>1, PipelineInvariant, PTL DEF Spec, FiltersKeepTheirWord
-----------------------------------------------------------------------------
(* The other round robin load balancer, in-process, which shares nothing   *)
(* with the store: for any number of threads and sources.                  *)

\* The index is a natural number, and out of range only while it is being
\* brought back: inductive for any number of threads.
Transient == /\ index \in Nat
             /\ pc \in [Threads -> {"idle", "add", "reset", "emit"}]
             /\ OutOfRangeIsTransient

\* However many threads handle messages at the same time, an index that is out
\* of range is about to be reset.
THEOREM OutOfRangeEnds == InProcessSpec => []OutOfRangeIsTransient
<1>1. InProcessInit => Transient
  BY OutboundAssumption DEF InProcessInit, Transient, OutOfRangeIsTransient, Sources
<1>2. Transient /\ [InProcessNext]_inProcessVars => Transient'
  <2> SUFFICES ASSUME Transient, [InProcessNext]_inProcessVars PROVE Transient'
    OBVIOUS
  <2> USE OutboundAssumption DEF Transient, OutOfRangeIsTransient, Sources
  <2>1. ASSUME NEW t \in Threads, LoadIndex(t) PROVE Transient'
    BY <2>1 DEF LoadIndex, Goto
  <2>2. ASSUME NEW t \in Threads, FetchAdd(t) PROVE Transient'
    BY <2>2 DEF FetchAdd, Goto
  <2>3. ASSUME NEW t \in Threads, Reset(t) PROVE Transient'
    BY <2>3 DEF Reset, Goto
  <2>4. ASSUME NEW t \in Threads, Emit(t) PROVE Transient'
    BY <2>4 DEF Emit, Goto
  <2>5. CASE UNCHANGED inProcessVars
    BY <2>5 DEF inProcessVars
  <2> QED BY <2>1, <2>2, <2>3, <2>4, <2>5 DEF InProcessNext
<1>3. Transient => OutOfRangeIsTransient
  BY DEF Transient
<1> QED BY <1>1, <1>2, <1>3, PTL DEF InProcessSpec

\* The type invariant: the index never falls below 0, every thread emits from
\* a source that exists, and no source's count leaves the naturals.
THEOREM BalancerTypeCorrect == InProcessSpec => []InProcessTypeOK
<1> USE MessagesAssumption DEF InProcessTypeOK
<1>1. InProcessInit => InProcessTypeOK
  <2> SUFFICES ASSUME InProcessInit PROVE InProcessTypeOK
    OBVIOUS
  <2>1. 0 \in Sources
    BY OutboundAssumption DEF Sources
  <2>2. target \in [Threads -> Sources]
    BY <2>1 DEF InProcessInit
  <2>3. emitted \in [Sources -> Nat]
    BY DEF InProcessInit
  <2>4. astray \in BOOLEAN /\ overlapped \in BOOLEAN
    BY DEF InProcessInit
  <2> QED BY <2>2, <2>3, <2>4 DEF InProcessInit
<1>2. InProcessTypeOK /\ [InProcessNext]_inProcessVars => InProcessTypeOK'
  <2> SUFFICES ASSUME InProcessTypeOK, [InProcessNext]_inProcessVars PROVE InProcessTypeOK'
    OBVIOUS
  <2>1. ASSUME NEW t \in Threads, LoadIndex(t) PROVE InProcessTypeOK'
    <3>1. /\ handled' \in 0 .. MaxMessages /\ UNCHANGED <<index, emitted>>
          /\ pc' = [pc EXCEPT ![t] = "add"]
      BY <2>1 DEF LoadIndex, Goto
    <3>2. target' \in [Threads -> Sources] /\ astray' \in BOOLEAN
      BY <2>1 DEF LoadIndex
    <3>3. overlapped' \in BOOLEAN
      BY <2>1 DEF LoadIndex
    <3> QED BY <3>1, <3>2, <3>3
  <2>2. ASSUME NEW t \in Threads, FetchAdd(t) PROVE InProcessTypeOK'
    BY <2>2 DEF FetchAdd, Goto
  <2>3. ASSUME NEW t \in Threads, Reset(t) PROVE InProcessTypeOK'
    BY <2>3 DEF Reset, Goto
  <2>4. ASSUME NEW t \in Threads, Emit(t) PROVE InProcessTypeOK'
    BY <2>4 DEF Emit, Goto
  <2>5. CASE UNCHANGED inProcessVars
    BY <2>5 DEF inProcessVars
  <2> QED BY <2>1, <2>2, <2>3, <2>4, <2>5 DEF InProcessNext
<1> QED BY <1>1, <1>2, PTL DEF InProcessSpec

-----------------------------------------------------------------------------
(* One message at a time: the rotation is strict. *)

\* The sources before `turn' have emitted one message more than the others.
Rotation(turn) ==
  \A s1, s2 \in Sources :
    emitted[s1] - emitted[s2] = (IF s1 < turn THEN 1 ELSE 0) - (IF s2 < turn THEN 1 ELSE 0)

Next1(turn) == IF turn = OutboundCount - 1 THEN 0 ELSE turn + 1

\* Nobody is in the stage: it is the turn of the source the index names.
AtRest == (\A t \in Threads : pc[t] = "idle") => index \in Sources /\ Rotation(index)

\* Thread t is in the stage: how far it got tells what the index holds.
InStage(t) ==
  pc[t] # "idle" =>
    /\ \A u \in Threads : pc[u] # "idle" => u = t
    /\ Rotation(target[t])
    /\ pc[t] = "add" => index = target[t]
    /\ pc[t] = "reset" => target[t] = OutboundCount - 1
    /\ pc[t] = "emit" => index = Next1(target[t])

Serial == ~astray /\ AtRest /\ \A t \in Threads : InStage(t)

SerialInv ==
  /\ index \in Nat
  /\ pc \in [Threads -> {"idle", "add", "reset", "emit"}]
  /\ target \in [Threads -> Sources]
  /\ emitted \in [Sources -> Nat]
  /\ overlapped \in BOOLEAN
  /\ ~overlapped => Serial

\* The source whose turn it is emits: the turn passes to the next one.
LEMMA TurnPasses ==
  ASSUME NEW T \in Sources, emitted \in [Sources -> Nat], Rotation(T),
         emitted' = [emitted EXCEPT ![T] = emitted[T] + 1]
  PROVE  Next1(T) \in Sources /\ Rotation(Next1(T))'
<1>1. Next1(T) \in Sources
  BY OutboundAssumption DEF Next1, Sources
<1>2. ASSUME NEW s1 \in Sources, NEW s2 \in Sources
      PROVE  emitted'[s1] - emitted'[s2] =
               (IF s1 < Next1(T) THEN 1 ELSE 0) - (IF s2 < Next1(T) THEN 1 ELSE 0)
  <2>1. emitted[s1] - emitted[s2] = (IF s1 < T THEN 1 ELSE 0) - (IF s2 < T THEN 1 ELSE 0)
    BY DEF Rotation
  <2>2. /\ emitted'[s1] = emitted[s1] + (IF s1 = T THEN 1 ELSE 0)
        /\ emitted'[s2] = emitted[s2] + (IF s2 = T THEN 1 ELSE 0)
        /\ emitted[s1] \in Nat /\ emitted[s2] \in Nat
    OBVIOUS
  <2> DEFINE Upto(s) == IF s <= T THEN 1 ELSE 0
  <2>3. emitted'[s1] - emitted'[s2] = Upto(s1) - Upto(s2)
    BY <2>1, <2>2 DEF Sources
  <2>4. CASE T = OutboundCount - 1
    BY <2>3, <2>4, OutboundAssumption DEF Next1, Sources
  <2>5. CASE T # OutboundCount - 1
    BY <2>3, <2>5, OutboundAssumption DEF Next1, Sources
  <2> QED BY <2>4, <2>5
<1> QED BY <1>1, <1>2 DEF Rotation, Next1, Sources

\* Every step keeps the invariant.
LEMMA SerialStep == SerialInv /\ [InProcessNext]_inProcessVars => SerialInv'
<1> SUFFICES ASSUME SerialInv, [InProcessNext]_inProcessVars PROVE SerialInv'
  OBVIOUS
<1> USE OutboundAssumption DEF SerialInv
<1>1. ASSUME NEW t \in Threads, LoadIndex(t) PROVE SerialInv'
  <2>1. /\ pc[t] = "idle" /\ pc' = [pc EXCEPT ![t] = "add"] /\ ~astray
        /\ overlapped' = (overlapped \/ \E u \in Threads \ {t} : pc[u] # "idle")
        /\ UNCHANGED <<index, emitted>>
        /\ IF index \in Sources THEN target' = [target EXCEPT ![t] = index] /\ UNCHANGED astray
                                ELSE astray' = TRUE /\ UNCHANGED target
    BY <1>1 DEF LoadIndex, Goto
  <2>2. ASSUME ~overlapped' PROVE Serial'
    <3>1. ~overlapped /\ \A u \in Threads : pc[u] = "idle"
      BY <2>1, <2>2
    <3>2. index \in Sources /\ Rotation(index)
      BY <3>1 DEF Serial, AtRest
    <3>3. /\ target' = [target EXCEPT ![t] = index] /\ ~astray'
          /\ \A u \in Threads : pc'[u] = IF u = t THEN "add" ELSE "idle"
      BY <2>1, <3>1, <3>2
    <3>4. Rotation(target[t])'
      BY <2>1, <3>2, <3>3 DEF Rotation
    <3>5. InStage(t)'
      BY <2>1, <3>3, <3>4 DEF InStage
    <3>6. \A u \in Threads : u # t => InStage(u)'
      BY <3>3 DEF InStage
    <3> QED BY <3>3, <3>5, <3>6 DEF Serial, AtRest
  <2>3. /\ pc' \in [Threads -> {"idle", "add", "reset", "emit"}] /\ index' \in Nat
        /\ target' \in [Threads -> Sources] /\ emitted' \in [Sources -> Nat]
    BY <2>1
  <2>4. overlapped' \in BOOLEAN
    BY <2>1
  <2> QED BY <2>2, <2>3, <2>4
<1>2. ASSUME NEW t \in Threads, FetchAdd(t) PROVE SerialInv'
  <2>1. /\ pc[t] = "add" /\ index' = index + 1
        /\ pc' = [pc EXCEPT ![t] = IF index = OutboundCount - 1 THEN "reset" ELSE "emit"]
        /\ UNCHANGED <<target, emitted, astray, overlapped>>
    BY <1>2 DEF FetchAdd, Goto
  <2>2. ASSUME ~overlapped' PROVE Serial'
    <3>1. /\ ~astray /\ Rotation(target[t]) /\ index = target[t] /\ target[t] \in Sources
          /\ \A u \in Threads : pc[u] # "idle" => u = t
      BY <2>1, <2>2 DEF Serial, InStage
    <3>2. /\ \A u \in Threads : pc'[u] # "idle" => u = t
          /\ pc'[t] = IF index = OutboundCount - 1 THEN "reset" ELSE "emit"
      BY <2>1, <3>1
    <3>3. Rotation(target[t])'
      BY <2>1, <3>1 DEF Rotation
    <3>4. InStage(t)'
      BY <2>1, <3>1, <3>2, <3>3 DEF InStage, Next1, Sources
    <3> QED BY <2>1, <3>1, <3>2, <3>4 DEF Serial, AtRest, InStage
  <2>3. pc' \in [Threads -> {"idle", "add", "reset", "emit"}] /\ index' \in Nat
    BY <2>1
  <2> QED BY <2>1, <2>2, <2>3
<1>3. ASSUME NEW t \in Threads, Reset(t) PROVE SerialInv'
  <2>1. /\ pc[t] = "reset" /\ pc' = [pc EXCEPT ![t] = "emit"] /\ index' = 0
        /\ UNCHANGED <<target, emitted, astray, overlapped>>
    BY <1>3 DEF Reset, Goto
  <2>2. ASSUME ~overlapped' PROVE Serial'
    <3>1. /\ ~astray /\ Rotation(target[t]) /\ target[t] = OutboundCount - 1
          /\ \A u \in Threads : pc[u] # "idle" => u = t
      BY <2>1, <2>2 DEF Serial, InStage
    <3>2. (\A u \in Threads : pc'[u] # "idle" => u = t) /\ pc'[t] = "emit"
      BY <2>1, <3>1
    <3>3. Rotation(target[t])'
      BY <2>1, <3>1 DEF Rotation
    <3>4. InStage(t)'
      BY <2>1, <3>1, <3>2, <3>3 DEF InStage, Next1
    <3> QED BY <2>1, <3>1, <3>2, <3>4 DEF Serial, AtRest, InStage
  <2>3. pc' \in [Threads -> {"idle", "add", "reset", "emit"}] /\ index' \in Nat
    BY <2>1
  <2> QED BY <2>1, <2>2, <2>3
<1>4. ASSUME NEW t \in Threads, Emit(t) PROVE SerialInv'
  <2>1. /\ pc[t] = "emit" /\ pc' = [pc EXCEPT ![t] = "idle"]
        /\ emitted' = [emitted EXCEPT ![target[t]] = emitted[target[t]] + 1]
        /\ UNCHANGED <<index, target, astray, overlapped>>
        /\ target[t] \in Sources
    BY <1>4 DEF Emit, Goto
  <2>2. ASSUME ~overlapped' PROVE Serial'
    <3>1. /\ ~astray /\ Rotation(target[t]) /\ index = Next1(target[t])
          /\ \A u \in Threads : pc[u] # "idle" => u = t
      BY <2>1, <2>2 DEF Serial, InStage
    <3>2. \A u \in Threads : pc'[u] = "idle"
      BY <2>1, <3>1
    <3>3. Next1(target[t]) \in Sources /\ Rotation(Next1(target[t]))'
      BY <2>1, <3>1, TurnPasses
    <3>4. index' \in Sources /\ Rotation(index)'
      BY <2>1, <3>1, <3>3 DEF Rotation, Next1
    <3> QED BY <2>1, <3>1, <3>2, <3>4 DEF Serial, AtRest, InStage
  <2>3. /\ pc' \in [Threads -> {"idle", "add", "reset", "emit"}]
        /\ emitted' \in [Sources -> Nat]
    BY <2>1
  <2> QED BY <2>1, <2>2, <2>3
<1>5. CASE UNCHANGED inProcessVars
  BY <1>5 DEF inProcessVars, Serial, AtRest, InStage, Rotation, Next1
<1> QED BY <1>1, <1>2, <1>3, <1>4, <1>5 DEF InProcessNext

\* While messages pass one after the other, no read leaves the array of sources
\* and the sources stay within one message of each other: for any number of
\* threads, sources and messages.
THEOREM SerialUseRotates == InProcessSpec => []SerialRotation
<1>1. InProcessInit => SerialInv
  <2> SUFFICES ASSUME InProcessInit PROVE SerialInv
    OBVIOUS
  <2>1. 0 \in Sources /\ \A s \in Sources : s \in Nat /\ emitted[s] = 0
    BY OutboundAssumption DEF InProcessInit, Sources
  <2>2. Rotation(index)
    BY <2>1 DEF InProcessInit, Rotation
  <2>3. \A t \in Threads : InStage(t)
    BY DEF InProcessInit, InStage
  <2>4. Serial
    BY <2>1, <2>2, <2>3 DEF InProcessInit, Serial, AtRest
  <2> QED BY <2>1, <2>4 DEF InProcessInit, SerialInv
<1>2. SerialInv /\ [InProcessNext]_inProcessVars => SerialInv'
  BY SerialStep
<1>3. SerialInv => SerialRotation
  <2> SUFFICES ASSUME SerialInv, ~overlapped PROVE NeverAstray /\ Balanced
    BY DEF SerialRotation
  <2>1. \E turn \in Int : Rotation(turn)
    <3>1. CASE \A t \in Threads : pc[t] = "idle"
      BY <3>1 DEF SerialInv, Serial, AtRest
    <3>2. CASE \E t \in Threads : pc[t] # "idle"
      BY <3>2 DEF SerialInv, Serial, InStage, Sources
    <3> QED BY <3>1, <3>2
  <2>2. ~astray
    BY DEF SerialInv, Serial
  <2> QED BY <2>1, <2>2 DEF NeverAstray, Balanced, Rotation
<1> QED BY <1>1, <1>2, <1>3, PTL DEF InProcessSpec
================================================================================
