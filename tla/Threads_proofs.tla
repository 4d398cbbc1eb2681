------------------------ MODULE Threads_proofs ---------------------------------
(***************************************************************************)
(* Theorems about the two components that several threads call at the same *)
(* time: request validation, for any threads, specifications, validators   *)
(* and messages; and the queue, for any messages and any size of the ring. *)
(***************************************************************************)
EXTENDS RequestValidation, MPMCQueue, SequenceTheorems, TLAPS

\* The sections evaluate_validity has left behind when it is in section s.
Earlier(s) == {x \in Sections : \/ s = "path" /\ x = "header"
                                \/ s = "query" /\ x # "query"}

\* Where a thread stands and what it holds there.
Working(t) ==
  /\ Validating(t) => spec[t] \in Specs /\ spec[t] # Absent /\ request[t] \in Requests
  /\ pc[t] = "idle" => section[t] = "header" /\ verdict[t] = TRUE
  /\ pc[t] # "visit" => todo[t] = {}

\* A thread that is alone shares its specification with no other.
Aloof == \A t, u \in Threads :
  t # u /\ Validating(t) /\ Validating(u) /\ spec[t] = spec[u] => ~alone[t]

\* What the flag of a validator must be once the fields that are not in todo
\* have been visited: the rest is as reset() left it.
Expected(t, rule) ==
  LET fields == request[t][section[t]]
  IN IF rule.name \in DOMAIN fields \ todo[t]
     THEN Accepts(rule.kind, fields[rule.name]) ELSE rule.kind # "compulsory"

\* A thread that is alone has found every earlier section in order, its flags
\* in the present one tell what it has visited, and its verdict is right.
EarlierPassed(t) == Validating(t) =>
  \A rule \in rules[spec[t]] :
    rule.section \in Earlier(section[t]) => Satisfies(request[t], rule)
FlagsAreOwn(t) == pc[t] = "visit" =>
  \A rule \in InSection(t) : rule \in valid[spec[t]] <=> Expected(t, rule)
VerdictIsRight(t) == pc[t] = "emit" =>
  (verdict[t] <=> (spec[t] # Absent => \A rule \in rules[spec[t]] : Satisfies(request[t], rule)))
Undisturbed(t) == alone[t] => EarlierPassed(t) /\ FlagsAreOwn(t) /\ VerdictIsRight(t)

ValidationInv ==
  /\ TypeOK
  /\ todo = [t \in Threads |-> todo[t]]
  /\ Aloof
  /\ \A t \in Threads : Working(t) /\ Undisturbed(t)

\* The initial state satisfies the invariant.
LEMMA InitValidation == Init => ValidationInv
<1> SUFFICES ASSUME Init PROVE ValidationInv
  OBVIOUS
<1>1. /\ store \in [SpecKeys -> Specs \cup {Absent}] /\ rules \in [Specs -> SUBSET Rules]
      /\ pc \in [Threads -> {"idle", "reset", "visit", "emit"}]
      /\ request \in [Threads -> Requests \cup {Absent}]
      /\ spec \in [Threads -> Specs \cup {Absent}]
  BY DEF Init
<1>2. valid \in [Specs -> SUBSET Rules]
  BY DEF Init, AfterReset
<1>3. section \in [Threads -> Sections] /\ todo = [t \in Threads |-> {}]
  BY DEF Init, Sections
<1>4. verdict \in [Threads -> BOOLEAN] /\ running \in BOOLEAN /\ alone \in [Threads -> BOOLEAN]
  BY DEF Init
<1>5. taken \in 0 .. MaxRequests
  BY BoundAssumption DEF Init
<1>6. \A t \in Threads : Working(t) /\ Undisturbed(t)
  BY DEF Init, Working, Undisturbed, EarlierPassed, FlagsAreOwn, VerdictIsRight, Validating
<1>7. Aloof
  BY DEF Init, Aloof, Validating
<1> QED BY <1>1, <1>2, <1>3, <1>4, <1>5, <1>6, <1>7 DEF ValidationInv, TypeOK

\* What one thread does leaves a thread alone that shares nothing with it.
LEMMA OthersKeep ==
  ASSUME NEW t \in Threads, Working(t), Undisturbed(t),
         UNCHANGED <<pc[t], request[t], spec[t], section[t], todo[t], verdict[t], rules>>,
         alone'[t] => alone[t],
         Validating(t) /\ alone'[t] => UNCHANGED valid[spec[t]]
  PROVE  Working(t)' /\ Undisturbed(t)'
<1>1. Working(t)'
  BY DEF Working, Validating
<1>2. ASSUME alone'[t] PROVE EarlierPassed(t)' /\ FlagsAreOwn(t)' /\ VerdictIsRight(t)'
  BY <1>2 DEF Undisturbed, EarlierPassed, FlagsAreOwn, VerdictIsRight, Validating, Expected, InSection
<1> QED BY <1>1, <1>2 DEF Undisturbed

\* Configuring: no message is being validated, so that no verdict depends on
\* what changes.
LEMMA ConfigureKeeps ==
  ASSUME ValidationInv,
         \/ \E key \in SpecKeys, s \in Specs : AddValue(key, s)
         \/ \E s \in Specs, site \in Sites, kind \in {"compulsory", "int64", "double"} :
              AddRule(s, site, kind)
  PROVE  ValidationInv'
<1>1. /\ \A t \in Threads : pc[t] = "idle"
      /\ UNCHANGED <<valid, pc, request, spec, section, todo, verdict, running, taken, alone>>
  BY DEF AddValue, AddRule, Quiet
<1>2. store' \in [SpecKeys -> Specs \cup {Absent}] /\ rules' \in [Specs -> SUBSET Rules]
  <2>1. CASE \E key \in SpecKeys, s \in Specs : AddValue(key, s)
    BY <2>1 DEF AddValue, ValidationInv, TypeOK
  <2>2. ASSUME NEW s \in Specs, NEW site \in Sites, NEW kind \in {"compulsory", "int64", "double"},
               AddRule(s, site, kind)
        PROVE  store' \in [SpecKeys -> Specs \cup {Absent}] /\ rules' \in [Specs -> SUBSET Rules]
    <3>1. [section |-> site[1], name |-> site[2], kind |-> kind] \in Rules
      <4> DEFINE Rule(p, k) == [section |-> p[1], name |-> p[2], kind |-> k]
      <4>1. Rules = {Rule(p, k) : p \in Sites, k \in {"compulsory", "int64", "double"}}
        BY DEF Rules, Rule
      <4> HIDE DEF Rule
      <4>2. Rule(site, kind) \in Rules
        BY <4>1
      <4> QED BY <4>2 DEF Rule
    <3> QED BY <2>2, <3>1 DEF AddRule, ValidationInv, TypeOK
  <2> QED BY <2>1, <2>2
<1>3. TypeOK' /\ todo' = [t \in Threads |-> todo'[t]]
  BY <1>1, <1>2 DEF ValidationInv, TypeOK
<1>4. Aloof'
  BY <1>1 DEF Aloof, Validating
<1>5. \A t \in Threads : Working(t)' /\ Undisturbed(t)'
  BY <1>1 DEF ValidationInv, Working, Undisturbed, EarlierPassed, FlagsAreOwn, VerdictIsRight, Validating
<1> QED BY <1>3, <1>4, <1>5 DEF ValidationInv

\* A message is taken on: whoever already uses its specification is no longer
\* alone, and the newcomer is alone only if there is nobody.
LEMMA LookUpKeeps ==
  ASSUME ValidationInv, NEW t \in Threads, NEW r \in Requests, LookUp(t, r)
  PROVE  ValidationInv'
<1> DEFINE others == {u \in Threads \ {t} : Validating(u) /\ spec[u] = Found(r)}
<1>1. /\ pc[t] = "idle" /\ Working(t) /\ Undisturbed(t)
      /\ section[t] = "header" /\ verdict[t] = TRUE /\ todo[t] = {}
  BY DEF LookUp, ValidationInv, Working
<1>2. Found(r) \in Specs \cup {Absent}
  BY RequestsAssumption DEF Found, ValidationInv, TypeOK
<1>3. /\ request' = [request EXCEPT ![t] = r] /\ spec' = [spec EXCEPT ![t] = Found(r)]
      /\ pc' = [pc EXCEPT ![t] = IF ~Readable(r) THEN "idle"
                                 ELSE IF Found(r) = Absent THEN "emit" ELSE "reset"]
      /\ alone' = IF Found(r) = Absent THEN alone
                  ELSE [u \in Threads |-> IF u = t THEN others = {}
                                          ELSE alone[u] /\ u \notin others]
      /\ UNCHANGED <<store, rules, valid, section, todo, verdict>>
  BY DEF LookUp
<1> HIDE DEF others
<1>4. TypeOK'
  <2>1. taken' \in 0 .. MaxRequests /\ running' \in BOOLEAN
    BY BoundAssumption DEF LookUp, ValidationInv, TypeOK, Readable
  <2>2. alone' \in [Threads -> BOOLEAN]
    <3>1. CASE Found(r) = Absent
      BY <3>1, <1>3 DEF ValidationInv, TypeOK
    <3>2. CASE Found(r) # Absent
      <4>1. \A u \in Threads : (IF u = t THEN others = {} ELSE alone[u] /\ u \notin others) \in BOOLEAN
        OBVIOUS
      <4> QED BY <3>2, <1>3, <4>1
    <3> QED BY <3>1, <3>2
  <2>3. /\ request' \in [Threads -> Requests \cup {Absent}]
        /\ spec' \in [Threads -> Specs \cup {Absent}]
        /\ pc' \in [Threads -> {"idle", "reset", "visit", "emit"}]
    BY <1>2, <1>3 DEF ValidationInv, TypeOK
  <2>4. \A u \in Threads : todo'[u] # {} => todo'[u] \subseteq DOMAIN request'[u][section'[u]]
    BY <1>1, <1>3 DEF ValidationInv, TypeOK
  <2> QED BY <1>3, <2>1, <2>2, <2>3, <2>4 DEF ValidationInv, TypeOK
<1>5. \A u \in Threads \ {t} : Working(u)' /\ Undisturbed(u)'
  <2>1. \A u \in Threads \ {t} :
          /\ UNCHANGED <<pc[u], request[u], spec[u], section[u], todo[u], verdict[u], rules>>
          /\ alone'[u] => alone[u]
    BY <1>3 DEF ValidationInv, TypeOK
  <2> QED BY <2>1, <1>3, OthersKeep DEF ValidationInv
<1>6. Working(t)' /\ Undisturbed(t)'
  <2>1. /\ pc'[t] = IF ~Readable(r) THEN "idle"
                    ELSE IF Found(r) = Absent THEN "emit" ELSE "reset"
        /\ spec'[t] = Found(r) /\ request'[t] = r /\ section'[t] = "header"
        /\ verdict'[t] = TRUE /\ todo'[t] = {}
    BY <1>1, <1>3 DEF ValidationInv, TypeOK
  <2>2. Working(t)'
    BY <2>1, <1>2 DEF Working, Validating
  <2>3. EarlierPassed(t)' /\ FlagsAreOwn(t)' /\ VerdictIsRight(t)'
    BY <2>1 DEF EarlierPassed, FlagsAreOwn, VerdictIsRight, Earlier, Validating
  <2> QED BY <2>2, <2>3 DEF Undisturbed
<1>7. Aloof'
  <2> SUFFICES ASSUME NEW u \in Threads, NEW v \in Threads, u # v,
                      Validating(u)', Validating(v)', spec'[u] = spec'[v], alone'[u]
               PROVE  FALSE
    BY DEF Aloof
  <2>1. CASE u # t /\ v # t
    BY <2>1, <1>3 DEF ValidationInv, TypeOK, Aloof, Validating
  <2>2. CASE u = t
    <3>1. Found(r) # Absent /\ Validating(v) /\ spec[v] = Found(r) /\ v # t
      BY <2>2, <1>3 DEF ValidationInv, TypeOK, Validating
    <3>2. v \in others
      BY <3>1 DEF others
    <3> QED BY <2>2, <3>1, <3>2, <1>3
  <2>3. CASE v = t
    <3>1. Found(r) # Absent /\ Validating(u) /\ spec[u] = Found(r) /\ u # t
      BY <2>3, <1>3 DEF ValidationInv, TypeOK, Validating
    <3>2. u \in others
      BY <3>1 DEF others
    <3> QED BY <2>3, <3>1, <3>2, <1>3
  <2> QED BY <2>1, <2>2, <2>3
<1>8. todo' = [u \in Threads |-> todo'[u]]
  BY <1>3 DEF ValidationInv
<1> QED BY <1>4, <1>5, <1>6, <1>7, <1>8 DEF ValidationInv

\* Emitting: the thread is idle again, with nothing kept.
LEMMA EmitKeeps ==
  ASSUME ValidationInv, NEW t \in Threads, Emit(t)
  PROVE  ValidationInv'
<1>1. /\ pc[t] = "emit" /\ pc' = [pc EXCEPT ![t] = "idle"]
      /\ request' = [request EXCEPT ![t] = Absent] /\ spec' = [spec EXCEPT ![t] = Absent]
      /\ section' = [section EXCEPT ![t] = "header"]
      /\ verdict' = [verdict EXCEPT ![t] = TRUE] /\ alone' = [alone EXCEPT ![t] = TRUE]
      /\ UNCHANGED <<store, rules, valid, todo, running, taken>>
  BY DEF Emit
<1>2. todo[t] = {}
  BY <1>1 DEF ValidationInv, Working
<1>3. TypeOK'
  <2>1. section' \in [Threads -> Sections]
    BY <1>1 DEF ValidationInv, TypeOK, Sections
  <2>2. verdict' \in [Threads -> BOOLEAN] /\ alone' \in [Threads -> BOOLEAN]
    BY <1>1 DEF ValidationInv, TypeOK
  <2>3. \A u \in Threads : todo'[u] # {} => todo'[u] \subseteq DOMAIN request'[u][section'[u]]
    BY <1>1, <1>2 DEF ValidationInv, TypeOK
  <2> QED BY <1>1, <2>1, <2>2, <2>3 DEF ValidationInv, TypeOK
<1>4. \A u \in Threads \ {t} : Working(u)' /\ Undisturbed(u)'
  <2>1. \A u \in Threads \ {t} :
          /\ UNCHANGED <<pc[u], request[u], spec[u], section[u], todo[u], verdict[u], rules>>
          /\ alone'[u] => alone[u]
    BY <1>1 DEF ValidationInv, TypeOK
  <2> QED BY <2>1, <1>1, OthersKeep DEF ValidationInv
<1>5. /\ pc'[t] = "idle" /\ section'[t] = "header" /\ todo'[t] = {} /\ verdict'[t] = TRUE
  BY <1>1, <1>2 DEF ValidationInv, TypeOK
<1>6. Working(t)' /\ Undisturbed(t)'
  BY <1>5 DEF Working, Undisturbed, EarlierPassed, FlagsAreOwn, VerdictIsRight, Validating
<1>7. Aloof'
  BY <1>1 DEF ValidationInv, TypeOK, Aloof, Validating
<1>8. todo' = [u \in Threads |-> todo'[u]]
  BY <1>1 DEF ValidationInv
<1> QED BY <1>3, <1>4, <1>6, <1>7, <1>8 DEF ValidationInv

\* A step of validate() that keeps its thread in the right place changes no
\* other thread's fields, and no flags but those of its own specification.
LEMMA ValidateKeeps ==
  ASSUME ValidationInv, NEW t \in Threads, Validating(t),
         UNCHANGED <<store, rules, request, spec, running, taken, alone>>,
         pc' = [pc EXCEPT ![t] = pc'[t]], section' = [section EXCEPT ![t] = section'[t]],
         todo' = [todo EXCEPT ![t] = todo'[t]], verdict' = [verdict EXCEPT ![t] = verdict'[t]],
         valid' = [valid EXCEPT ![spec[t]] = valid'[spec[t]]],
         pc'[t] \in {"reset", "visit", "emit"}, section'[t] \in Sections,
         todo'[t] \subseteq DOMAIN request[t][section'[t]] \/ todo'[t] = {},
         verdict'[t] \in BOOLEAN, valid'[spec[t]] \subseteq Rules,
         Working(t)', Undisturbed(t)'
  PROVE  ValidationInv'
<1>1. TypeOK'
  <2>1. pc' \in [Threads -> {"idle", "reset", "visit", "emit"}]
    BY DEF ValidationInv, TypeOK
  <2>2. section' \in [Threads -> Sections]
    BY DEF ValidationInv, TypeOK
  <2>3. verdict' \in [Threads -> BOOLEAN]
    BY DEF ValidationInv, TypeOK
  <2>4. valid' \in [Specs -> SUBSET Rules]
    BY DEF ValidationInv, TypeOK
  <2>5. \A u \in Threads : todo'[u] # {} => todo'[u] \subseteq DOMAIN request'[u][section'[u]]
    BY DEF ValidationInv, TypeOK
  <2> QED BY <2>1, <2>2, <2>3, <2>4, <2>5 DEF ValidationInv, TypeOK
<1>2. \A u \in Threads \ {t} : Working(u)' /\ Undisturbed(u)'
  <2> TAKE u \in Threads \ {t}
  <2>1. /\ UNCHANGED <<pc[u], request[u], spec[u], section[u], todo[u], verdict[u], rules>>
        /\ alone'[u] => alone[u]
    BY DEF ValidationInv, TypeOK
  <2>2. ASSUME Validating(u), alone'[u] PROVE UNCHANGED valid[spec[u]]
    <3>1. spec[u] # spec[t]
      BY <2>2 DEF ValidationInv, Aloof
    <3>2. spec[u] \in Specs /\ UNCHANGED spec[u]
      BY <2>2 DEF ValidationInv, Working
    <3> QED BY <3>1, <3>2 DEF ValidationInv, TypeOK
  <2> QED BY <2>1, <2>2, OthersKeep DEF ValidationInv
<1>3. Aloof'
  BY DEF ValidationInv, TypeOK, Aloof, Validating
<1>4. todo' = [u \in Threads |-> todo'[u]]
  BY DEF ValidationInv
<1> QED BY <1>1, <1>2, <1>3, <1>4 DEF ValidationInv

\* Resetting a section: every flag is as reset() leaves it, and no field has
\* been visited.
LEMMA ResetKeeps ==
  ASSUME ValidationInv, NEW t \in Threads, ResetAll(t)
  PROVE  ValidationInv'
<1> DEFINE flags == (valid[spec[t]] \ InSection(t)) \cup (InSection(t) \cap AfterReset)
<1>1. /\ pc[t] = "reset" /\ pc' = [pc EXCEPT ![t] = "visit"]
      /\ todo' = [todo EXCEPT ![t] = DOMAIN request[t][section[t]]]
      /\ valid' = [valid EXCEPT ![spec[t]] = flags]
      /\ UNCHANGED <<store, rules, request, spec, section, verdict, running, taken, alone>>
  BY DEF ResetAll
<1>2. /\ Validating(t) /\ Working(t) /\ Undisturbed(t)
      /\ spec[t] \in Specs /\ spec[t] # Absent /\ request[t] \in Requests
  BY <1>1 DEF Validating, ValidationInv, Working
<1>3. flags \subseteq Rules /\ InSection(t) \subseteq Rules
  BY <1>2 DEF ValidationInv, TypeOK, InSection
<1> HIDE DEF flags
<1>4. /\ pc'[t] = "visit" /\ todo'[t] = DOMAIN request[t][section[t]]
      /\ valid'[spec[t]] = flags
  BY <1>1, <1>2 DEF ValidationInv, TypeOK
<1>5. Working(t)'
  BY <1>1, <1>2, <1>4 DEF Working, Validating
<1>6. ASSUME alone'[t] PROVE EarlierPassed(t)' /\ FlagsAreOwn(t)' /\ VerdictIsRight(t)'
  <2>1. EarlierPassed(t)' /\ VerdictIsRight(t)'
    BY <1>6, <1>1, <1>2, <1>4 DEF Undisturbed, EarlierPassed, VerdictIsRight, Validating
  <2>2. \A rule \in InSection(t) : rule \in flags <=> rule.kind # "compulsory"
    BY <1>3 DEF flags, AfterReset
  <2>3. FlagsAreOwn(t)'
    BY <1>1, <1>4, <2>2 DEF FlagsAreOwn, Expected, InSection
  <2> QED BY <2>1, <2>3
<1>7. /\ pc' = [pc EXCEPT ![t] = pc'[t]] /\ section' = [section EXCEPT ![t] = section'[t]]
      /\ todo' = [todo EXCEPT ![t] = todo'[t]] /\ verdict' = [verdict EXCEPT ![t] = verdict'[t]]
      /\ valid' = [valid EXCEPT ![spec[t]] = valid'[spec[t]]]
      /\ section'[t] \in Sections /\ verdict'[t] \in BOOLEAN /\ valid'[spec[t]] \subseteq Rules
  BY <1>1, <1>3, <1>4 DEF ValidationInv, TypeOK
<1> QED BY <1>1, <1>2, <1>4, <1>5, <1>6, <1>7, ValidateKeeps DEF Undisturbed

\* Visiting a field: the flags of its validators tell what they think of it,
\* the others are left.
LEMMA VisitKeeps ==
  ASSUME ValidationInv, NEW t \in Threads, NEW name \in todo[t], VisitField(t, name)
  PROVE  ValidationInv'
<1> DEFINE fields == request[t][section[t]]
           visited == {r \in InSection(t) : r.name = name}
           accept == {r \in visited : Accepts(r.kind, fields[name])}
           flags == (valid[spec[t]] \ visited) \cup accept
<1>1. /\ pc[t] = "visit" /\ todo' = [todo EXCEPT ![t] = todo[t] \ {name}]
      /\ valid' = [valid EXCEPT ![spec[t]] = flags]
      /\ UNCHANGED <<store, rules, pc, request, spec, section, verdict, running, taken, alone>>
  BY DEF VisitField
<1>2. /\ Validating(t) /\ Working(t) /\ Undisturbed(t) /\ todo[t] \subseteq DOMAIN fields
      /\ spec[t] \in Specs /\ spec[t] # Absent /\ request[t] \in Requests
  BY <1>1 DEF Validating, ValidationInv, Working, TypeOK
<1>3. flags \subseteq Rules
  BY <1>2 DEF ValidationInv, TypeOK, InSection
<1>f. \A rule \in InSection(t) :
        rule \in flags <=> IF rule.name = name THEN Accepts(rule.kind, fields[name])
                                               ELSE rule \in valid[spec[t]]
  OBVIOUS
<1> HIDE DEF flags, visited, accept
<1>4. pc'[t] = "visit" /\ todo'[t] = todo[t] \ {name} /\ valid'[spec[t]] = flags
  BY <1>1, <1>2 DEF ValidationInv, TypeOK
<1>5. Working(t)'
  BY <1>1, <1>2, <1>4 DEF Working, Validating
<1>6. ASSUME alone'[t] PROVE EarlierPassed(t)' /\ FlagsAreOwn(t)' /\ VerdictIsRight(t)'
  <2>1. EarlierPassed(t)' /\ VerdictIsRight(t)'
    BY <1>6, <1>1, <1>2, <1>4 DEF Undisturbed, EarlierPassed, VerdictIsRight, Validating
  <2>2. \A rule \in InSection(t) : rule \in valid[spec[t]] <=> Expected(t, rule)
    BY <1>6, <1>1, <1>2 DEF Undisturbed, FlagsAreOwn
  <2>3. ASSUME NEW rule \in InSection(t) PROVE rule \in flags <=> Expected(t, rule)'
    <3>1. CASE rule.name = name
      <4>1. rule.name \in DOMAIN fields \ todo'[t]
        BY <3>1, <1>2, <1>4
      <4> QED BY <3>1, <4>1, <1>f, <1>1 DEF Expected
    <3>2. CASE rule.name # name
      <4>1. rule.name \in todo'[t] <=> rule.name \in todo[t]
        BY <3>2, <1>4
      <4> QED BY <3>2, <4>1, <2>2, <1>f, <1>1 DEF Expected
    <3> QED BY <3>1, <3>2
  <2>4. FlagsAreOwn(t)'
    <3>1. InSection(t)' = InSection(t)
      BY <1>1 DEF InSection
    <3> QED BY <1>1, <1>4, <2>3, <3>1 DEF FlagsAreOwn
  <2> QED BY <2>1, <2>4
<1>7. /\ pc' = [pc EXCEPT ![t] = pc'[t]] /\ section' = [section EXCEPT ![t] = section'[t]]
      /\ todo' = [todo EXCEPT ![t] = todo'[t]] /\ verdict' = [verdict EXCEPT ![t] = verdict'[t]]
      /\ valid' = [valid EXCEPT ![spec[t]] = valid'[spec[t]]]
      /\ section'[t] \in Sections /\ verdict'[t] \in BOOLEAN /\ valid'[spec[t]] \subseteq Rules
      /\ todo'[t] \subseteq DOMAIN request[t][section'[t]]
  BY <1>1, <1>2, <1>3, <1>4 DEF ValidationInv, TypeOK
<1> QED BY <1>1, <1>2, <1>4, <1>5, <1>6, <1>7, ValidateKeeps DEF Undisturbed

\* Once every field has been visited, the flags of a thread that is alone tell
\* which validators its message satisfies.
LEMMA FlagsTell ==
  ASSUME ValidationInv, NEW t \in Threads, alone[t], pc[t] = "visit", todo[t] = {}
  PROVE  \A rule \in InSection(t) : rule \in valid[spec[t]] <=> Satisfies(request[t], rule)
<1>1. \A rule \in InSection(t) : rule \in valid[spec[t]] <=> Expected(t, rule)
  BY DEF ValidationInv, Undisturbed, FlagsAreOwn
<1>2. \A rule \in InSection(t) : Expected(t, rule) <=> Satisfies(request[t], rule)
  BY DEF Expected, Satisfies, InSection
<1> QED BY <1>1, <1>2

\* Reading the flags: on to the next section, or out with the verdict.
LEMMA CheckKeeps ==
  ASSUME ValidationInv, NEW t \in Threads, CheckAll(t)
  PROVE  ValidationInv'
<1> DEFINE passed == InSection(t) \subseteq valid[spec[t]]
<1>1. /\ pc[t] = "visit" /\ todo[t] = {}
      /\ UNCHANGED <<store, rules, valid, request, spec, todo, running, taken, alone>>
  BY DEF CheckAll
<1>2. /\ Validating(t) /\ Working(t) /\ Undisturbed(t) /\ section[t] \in Sections
      /\ spec[t] \in Specs /\ spec[t] # Absent /\ request[t] \in Requests
      /\ rules[spec[t]] \subseteq Rules
  BY <1>1 DEF Validating, ValidationInv, Working, TypeOK
<1>r. \A rule \in Rules : rule.section \in Sections
  BY SitesAssumption DEF Rules
<1>p. alone[t] => (passed <=> \A rule \in InSection(t) : Satisfies(request[t], rule))
  BY <1>1, FlagsTell
<1> HIDE DEF passed
<1>3. CASE passed /\ section[t] # "query"
  <2>1. /\ section' = [section EXCEPT ![t] = NextSection[section[t]]]
        /\ pc' = [pc EXCEPT ![t] = "reset"] /\ UNCHANGED verdict
    BY <1>3 DEF CheckAll, passed
  <2>2. \/ section[t] = "header" /\ NextSection[section[t]] = "path"
        \/ section[t] = "path" /\ NextSection[section[t]] = "query"
    BY <1>2, <1>3 DEF Sections, NextSection
  <2>3. pc'[t] = "reset" /\ section'[t] = NextSection[section[t]] /\ todo'[t] = {}
    BY <1>1, <2>1 DEF ValidationInv, TypeOK
  <2>4. Working(t)'
    BY <1>1, <1>2, <2>3 DEF Working, Validating
  <2>5. ASSUME alone'[t] PROVE EarlierPassed(t)' /\ FlagsAreOwn(t)' /\ VerdictIsRight(t)'
    <3>1. \A rule \in rules[spec[t]] :
            rule.section \in Earlier(section[t]) \cup {section[t]} => Satisfies(request[t], rule)
      BY <2>5, <1>1, <1>2, <1>3, <1>p DEF Undisturbed, EarlierPassed, InSection
    <3>2. Earlier(section'[t]) = Earlier(section[t]) \cup {section[t]}
      BY <2>2, <2>3 DEF Earlier, Sections
    <3> QED BY <1>1, <2>3, <3>1, <3>2 DEF EarlierPassed, FlagsAreOwn, VerdictIsRight
  <2>6. section'[t] \in Sections
    BY <2>2, <2>3 DEF Sections
  <2>7. /\ pc' = [pc EXCEPT ![t] = pc'[t]] /\ section' = [section EXCEPT ![t] = section'[t]]
        /\ todo' = [todo EXCEPT ![t] = todo'[t]] /\ verdict' = [verdict EXCEPT ![t] = verdict'[t]]
        /\ valid' = [valid EXCEPT ![spec[t]] = valid'[spec[t]]]
        /\ verdict'[t] \in BOOLEAN /\ valid'[spec[t]] \subseteq Rules
    BY <1>1, <1>2, <2>1, <2>3 DEF ValidationInv, TypeOK
  <2> QED BY <1>1, <1>2, <2>3, <2>4, <2>5, <2>6, <2>7, ValidateKeeps DEF Undisturbed
<1>4. CASE ~(passed /\ section[t] # "query")
  <2>1. /\ pc' = [pc EXCEPT ![t] = "emit"] /\ verdict' = [verdict EXCEPT ![t] = passed]
        /\ UNCHANGED section
    BY <1>4 DEF CheckAll, passed
  <2>2. pc'[t] = "emit" /\ verdict'[t] = passed /\ todo'[t] = {}
    BY <1>1, <2>1 DEF ValidationInv, TypeOK
  <2>3. Working(t)'
    BY <2>2 DEF Working, Validating
  <2>4. ASSUME alone'[t] PROVE EarlierPassed(t)' /\ FlagsAreOwn(t)' /\ VerdictIsRight(t)'
    <3>1. passed <=> \A rule \in InSection(t) : Satisfies(request[t], rule)
      BY <2>4, <1>1, <1>p
    <3>2. passed <=> \A rule \in rules[spec[t]] : Satisfies(request[t], rule)
      <4>1. CASE ~passed
        BY <4>1, <3>1 DEF InSection
      <4>2. CASE passed
        <5>1. section[t] = "query"
          BY <4>2, <1>4
        <5>2. \A rule \in rules[spec[t]] :
                rule.section \in Earlier("query") => Satisfies(request[t], rule)
          BY <2>4, <1>1, <1>2, <5>1 DEF Undisturbed, EarlierPassed
        <5>3. \A rule \in rules[spec[t]] : rule.section \in Earlier("query") \/ rule \in InSection(t)
          BY <1>2, <1>r, <5>1 DEF Earlier, Sections, InSection
        <5> QED BY <4>2, <3>1, <5>2, <5>3
      <4> QED BY <4>1, <4>2
    <3>3. VerdictIsRight(t)'
      BY <1>1, <1>2, <2>2, <3>2 DEF VerdictIsRight
    <3> QED BY <2>2, <3>3 DEF EarlierPassed, FlagsAreOwn, Validating
  <2>5. /\ pc' = [pc EXCEPT ![t] = pc'[t]] /\ section' = [section EXCEPT ![t] = section'[t]]
        /\ todo' = [todo EXCEPT ![t] = todo'[t]] /\ verdict' = [verdict EXCEPT ![t] = verdict'[t]]
        /\ valid' = [valid EXCEPT ![spec[t]] = valid'[spec[t]]]
        /\ section'[t] \in Sections /\ valid'[spec[t]] \subseteq Rules
    BY <1>1, <1>2, <2>1, <2>2 DEF ValidationInv, TypeOK
  <2>6. verdict'[t] \in BOOLEAN
    BY <2>2 DEF passed
  <2> QED BY <1>1, <1>2, <2>2, <2>3, <2>4, <2>5, <2>6, ValidateKeeps DEF Undisturbed
<1> QED BY <1>3, <1>4

\* Every step keeps the invariant.
LEMMA NextValidation == ValidationInv /\ [Next]_vars => ValidationInv'
<1> SUFFICES ASSUME ValidationInv, [Next]_vars PROVE ValidationInv'
  OBVIOUS
<1>1. CASE \E key \in SpecKeys, s \in Specs : AddValue(key, s)
  BY <1>1, ConfigureKeeps
<1>2. CASE \E s \in Specs, site \in Sites, type \in {"any", "integral", "floating"} :
             \/ AddHeaderValidator(s, site, type) \/ AddPathValidator(s, site, type)
             \/ AddQueryValidator(s, site, type)
  <2>1. \E s \in Specs, site \in Sites, kind \in {"compulsory", "int64", "double"} :
          AddRule(s, site, kind)
    BY <1>2 DEF AddHeaderValidator, AddPathValidator, AddQueryValidator, AddValidator,
                AddCompulsoryValidator, AddDataTypeValidator
  <2> QED BY <2>1, ConfigureKeeps
<1>3. ASSUME NEW t \in Threads, NEW r \in Requests, LookUp(t, r) PROVE ValidationInv'
  BY <1>3, LookUpKeeps
<1>4. ASSUME NEW t \in Threads, ValidateHeaders(t) \/ ValidatePath(t) \/ ValidateQuery(t)
      PROVE  ValidationInv'
  BY <1>4, ResetKeeps, VisitKeeps, CheckKeeps
  DEF ValidateHeaders, ValidatePath, ValidateQuery, Validate
<1>5. ASSUME NEW t \in Threads, Emit(t) PROVE ValidationInv'
  BY <1>5, EmitKeeps
<1>6. CASE UNCHANGED vars
  <2>1. TypeOK' /\ todo' = [t \in Threads |-> todo'[t]]
    BY <1>6 DEF vars, ValidationInv, TypeOK
  <2>2. Aloof' /\ \A t \in Threads : Working(t)' /\ Undisturbed(t)'
    BY <1>6, OthersKeep DEF vars, ValidationInv, Aloof, Validating
  <2> QED BY <2>1, <2>2 DEF ValidationInv
<1> QED BY <1>1, <1>2, <1>3, <1>4, <1>5, <1>6 DEF Next

-----------------------------------------------------------------------------
\* Validation is well typed: no thread goes on to a section that does not
\* exist, and the fields it has still to visit are fields of its message.
THEOREM ValidationTypeCorrect == Spec => []TypeOK
<1>1. ValidationInv => TypeOK
  BY DEF ValidationInv
<1> QED BY InitValidation, NextValidation, <1>1, PTL DEF Spec

\* A message that has its specification to itself gets the verdict its own
\* fields deserve, whatever is being validated against other specifications,
\* and whatever earlier messages left in the flags.
THEOREM LoneVerdicts == Spec => []LoneVerdictIsRight
<1>1. ValidationInv => LoneVerdictIsRight
  BY DEF ValidationInv, Undisturbed, VerdictIsRight, LoneVerdictIsRight
<1> QED BY InitValidation, NextValidation, <1>1, PTL DEF Spec
-----------------------------------------------------------------------------
(* The queue stage with one producer, for any ring size and messages.      *)

\* Well-typed indices and control, which is all the exclusion rests on.
Control ==
  /\ writeIndex \in Slots
  /\ readIndex \in Slots
  /\ producer \in [Producers -> {"idle", "load", "check", "store", "publish", "full"}]
  /\ slot \in [Producers -> Slots]
  /\ worker \in {"poll", "check", "take", "release", "emit", "done"}

\* The two threads keep out of each other's slot: a producer past its check
\* writes the slot at writeIndex, which is not followed by readIndex, and the
\* worker past its check reads a slot that has been published.
Exclusion(p) ==
  /\ producer[p] \in {"check", "store", "publish"} => slot[p] = writeIndex
  /\ producer[p] \in {"store", "publish"} => After(writeIndex) # readIndex
  /\ worker \in {"take", "release"} => readIndex # writeIndex

\* The successor of a slot is a slot, and different slots have different ones.
LEMMA AfterSlots ==
  ASSUME NEW i \in Slots, NEW j \in Slots
  PROVE  After(i) \in Slots /\ (After(i) = After(j) => i = j)
BY SizeAssumption DEF After, Slots

\* With one producer, the worker never reads the slot that is being written.
THEOREM OneProducerNoSlotRace ==
  ASSUME NEW p, Producers = {p}
  PROVE  QueueSpec => []NoSlotRace
<1> DEFINE Inv == Control /\ Exclusion(p)
<1>1. QueueInit => Inv
  BY SizeAssumption DEF QueueInit, Control, Exclusion, Slots
<1>2. Inv /\ [QueueNext]_queueVars => Inv'
  <2> SUFFICES ASSUME Inv, [QueueNext]_queueVars PROVE Inv'
    OBVIOUS
  <2> USE DEF Control, Exclusion
  <2>1. ASSUME NEW m, OnMessage(p, m) PROVE Inv'
    BY <2>1 DEF OnMessage, Goto, ring, consuming
  <2>2. CASE LoadWriteIndex(p)
    BY <2>2 DEF LoadWriteIndex, Goto, ring, consuming
  <2>3. CASE CheckFull(p)
    BY <2>3 DEF CheckFull, Goto, ring, consuming
  <2>4. CASE StoreRecord(p)
    BY <2>4 DEF StoreRecord, Goto, consuming
  <2>5. CASE Publish(p)
    BY <2>5, AfterSlots DEF Publish, Goto, consuming
  <2>6. CASE BufferFull(p)
    BY <2>6 DEF BufferFull, Goto, ring, consuming
  <2>7. CASE Poll
    BY <2>7 DEF Poll, ring, producing
  <2>8. CASE CheckEmpty
    BY <2>8 DEF CheckEmpty, ring, producing
  <2>9. CASE TakeRecord
    BY <2>9 DEF TakeRecord, ring, producing
  <2>10. CASE Release
    BY <2>10, AfterSlots DEF Release, producing
  <2>11. CASE Deliver
    BY <2>11 DEF Deliver, ring, producing
  <2>12. CASE Stop
    BY <2>12 DEF Stop, ring, producing, consuming
  <2>13. CASE UNCHANGED queueVars
    BY <2>13 DEF queueVars
  <2> QED BY <2>1, <2>2, <2>3, <2>4, <2>5, <2>6, <2>7, <2>8, <2>9, <2>10, <2>11,
             <2>12, <2>13 DEF QueueNext, Produce, Work
<1>3. Inv => NoSlotRace
  BY DEF Control, Exclusion, NoSlotRace
<1> QED BY <1>1, <1>2, <1>3, PTL DEF QueueSpec

-----------------------------------------------------------------------------
(* One producer: the type of what is carried, and the queue it amounts to. *)

\* The slots between readIndex and writeIndex, going up and around.
InUse(i) == IF readIndex <= writeIndex THEN readIndex <= i /\ i < writeIndex
                                       ELSE readIndex <= i \/ i < writeIndex

\* What is in use holds a message; the producer carries one while it is inside
\* on_message, and has written it before it publishes the slot; what the worker
\* has taken is still in its slot until that is released.
Carried(p) ==
  /\ \A i \in Slots : InUse(i) => records[i] \in Messages
  /\ producer[p] # "idle" => message[p] \in Messages
  /\ producer[p] = "publish" => records[slot[p]] = message[p]
  /\ worker = "release" => inHand = records[readIndex]
  /\ worker = "emit" => inHand \in Messages

QueueInv(p) == QueueTypeOK /\ Exclusion(p) /\ Carried(p)

\* A slot being published is the one next in use; one being released was in use.
LEMMA InUseMoves ==
  ASSUME readIndex \in Slots, writeIndex \in Slots, NEW i \in Slots
  PROVE  /\ After(writeIndex) # readIndex /\ UNCHANGED readIndex /\ writeIndex' = After(writeIndex)
              => (InUse(i)' <=> InUse(i) \/ i = writeIndex)
         /\ writeIndex # readIndex /\ UNCHANGED writeIndex /\ readIndex' = After(readIndex)
              => (InUse(i)' <=> InUse(i) /\ i # readIndex)
         /\ writeIndex # readIndex => InUse(readIndex)
BY SizeAssumption DEF InUse, After, Slots

\* The initial state satisfies the invariant.
LEMMA InitQueueInv ==
  ASSUME NEW p, Producers = {p}, QueueInit
  PROVE  QueueInv(p)
<1>1. QueueTypeOK
  <2>1. delivered = <<>> /\ delivered \in Seq(Messages)
    BY DEF QueueInit
  <2> QED BY <2>1, SizeAssumption DEF QueueInit, QueueTypeOK, Slots
<1> QED BY <1>1 DEF QueueInit, QueueInv, Exclusion, Carried, InUse, Slots

\* Every step of the one producer and the worker keeps it.
LEMMA NextQueueInv ==
  ASSUME NEW p, Producers = {p}, QueueInv(p), [QueueNext]_queueVars
  PROVE  QueueInv(p)'
<1> USE DEF QueueInv, QueueTypeOK, Exclusion, Carried
<1>1. ASSUME NEW m \in Messages, OnMessage(p, m) PROVE QueueInv(p)'
  BY <1>1 DEF OnMessage, Goto, ring, consuming, InUse
<1>2. CASE LoadWriteIndex(p)
  BY <1>2 DEF LoadWriteIndex, Goto, ring, consuming, InUse
<1>3. CASE CheckFull(p)
  BY <1>3 DEF CheckFull, Goto, ring, consuming, InUse
<1>4. CASE StoreRecord(p)
  <2>1. /\ producer[p] = "store" /\ producer' = [producer EXCEPT ![p] = "publish"]
        /\ records' = [records EXCEPT ![slot[p]] = message[p]]
        /\ slot[p] = writeIndex /\ message[p] \in Messages
        /\ UNCHANGED <<writeIndex, readIndex, message, slot, fresh, refused, consuming, stop>>
    BY <1>4 DEF StoreRecord, Goto
  <2>2. ~InUse(writeIndex)
    BY SizeAssumption DEF InUse, Slots
  <2>3. worker \in {"take", "release"} => readIndex # writeIndex
    OBVIOUS
  <2> QED BY <2>1, <2>2, <2>3 DEF consuming, InUse
<1>5. CASE Publish(p)
  <2>1. /\ producer[p] = "publish" /\ producer' = [producer EXCEPT ![p] = "idle"]
        /\ writeIndex' = After(writeIndex) /\ message' = [message EXCEPT ![p] = None]
        /\ UNCHANGED <<records, readIndex, slot, fresh, refused, consuming, stop>>
    BY <1>5 DEF Publish, Goto
  <2>2. writeIndex' \in Slots /\ writeIndex' # readIndex
    BY <2>1, AfterSlots
  <2>3. \A i \in Slots : InUse(i)' => records'[i] \in Messages
    BY <2>1, InUseMoves
  <2>4. QueueTypeOK'
    BY <2>1, <2>2 DEF consuming
  <2> QED BY <2>1, <2>2, <2>3, <2>4 DEF consuming
<1>6. CASE BufferFull(p)
  BY <1>6 DEF BufferFull, Goto, ring, consuming, InUse
<1>7. CASE Poll
  BY <1>7 DEF Poll, ring, producing, InUse
<1>8. CASE CheckEmpty
  BY <1>8 DEF CheckEmpty, ring, producing, InUse
<1>9. CASE TakeRecord
  BY <1>9 DEF TakeRecord, ring, producing, InUse
<1>10. CASE Release
  <2>1. /\ worker = "release" /\ worker' = "emit"
        /\ records' = [records EXCEPT ![readIndex] = None]
        /\ readIndex' = After(readIndex)
        /\ UNCHANGED <<writeIndex, producing, inHand, delivered, stop>>
    BY <1>10 DEF Release
  <2>2. readIndex' \in Slots /\ readIndex # writeIndex
    BY <2>1, AfterSlots
  <2>3. inHand \in Messages
    BY <2>1, <2>2, InUseMoves
  <2>4. \A i \in Slots : InUse(i)' => records'[i] \in Messages
    BY <2>1, <2>2, InUseMoves
  <2>5. QueueTypeOK'
    BY <2>1, <2>2 DEF producing
  <2>6. producer[p] \in {"store", "publish"} => slot[p] # readIndex /\ After(writeIndex) # readIndex'
    BY <2>1, <2>2, AfterSlots
  <2> QED BY <2>1, <2>2, <2>3, <2>4, <2>5, <2>6 DEF producing
<1>11. CASE Deliver
  <2>1. Append(delivered, inHand) \in Seq(Messages)
    BY <1>11 DEF Deliver
  <2> QED BY <1>11, <2>1 DEF Deliver, ring, producing, InUse
<1>12. CASE Stop
  BY <1>12 DEF Stop, ring, producing, consuming, InUse
<1>13. CASE UNCHANGED queueVars
  BY <1>13 DEF queueVars, InUse
<1> QED BY <1>1, <1>2, <1>3, <1>4, <1>5, <1>6, <1>7, <1>8, <1>9, <1>10, <1>11,
           <1>12, <1>13 DEF QueueNext, Produce, Work

\* With one producer every state is well typed: no empty slot is ever taken for
\* a message, and what is refused or delivered is a message.
THEOREM OneProducerTypeCorrect ==
  ASSUME NEW p, Producers = {p}
  PROVE  QueueSpec => []QueueTypeOK
<1>1. QueueInit => QueueInv(p)
  BY InitQueueInv
<1>2. QueueInv(p) /\ [QueueNext]_queueVars => QueueInv(p)'
  BY NextQueueInv
<1>3. QueueInv(p) => QueueTypeOK
  BY DEF QueueInv
<1> QED BY <1>1, <1>2, <1>3, PTL DEF QueueSpec
-----------------------------------------------------------------------------
(* One producer: the stage implements the queue it promises. *)

\* The places of the ring that are in use, counted from readIndex.
LEMMA Places ==
  ASSUME readIndex \in Slots, writeIndex \in Slots
  PROVE  /\ Used \in 0 .. Size - 1
         /\ Used = 0 <=> readIndex = writeIndex
         /\ Used = Size - 1 <=> After(writeIndex) = readIndex
         /\ \A i \in 1 .. Used : Place(i) \in Slots /\ InUse(Place(i)) /\ Place(i) # writeIndex
         /\ Used > 0 => Place(1) = readIndex
         /\ \A i \in 2 .. Used : Place(i) # readIndex
BY SizeAssumption DEF Used, Place, Slots, After, InUse

\* Publishing a slot adds the place at the end.
LEMMA PlacesAfterPublish ==
  ASSUME readIndex \in Slots, writeIndex \in Slots, After(writeIndex) # readIndex,
         writeIndex' = After(writeIndex), UNCHANGED readIndex
  PROVE  /\ Used' = Used + 1
         /\ \A i \in 1 .. Used : Place(i)' = Place(i)
         /\ Place(Used)' = writeIndex
BY SizeAssumption DEF Used, Place, Slots, After

\* Releasing a slot takes the place at the front away.
LEMMA PlacesAfterRelease ==
  ASSUME readIndex \in Slots, writeIndex \in Slots, writeIndex # readIndex,
         readIndex' = After(readIndex), UNCHANGED writeIndex
  PROVE  /\ Used' = Used - 1
         /\ \A i \in 1 .. Used - 1 : Place(i)' = Place(i + 1)
BY SizeAssumption DEF Used, Place, Slots, After

\* A function on an initial segment of the numbers is a sequence.
LEMMA FunctionIsSeq ==
  ASSUME NEW S, NEW n \in Nat, NEW f \in [1 .. n -> S]
  PROVE  f \in Seq(S) /\ Len(f) = n
<1>1. f \in Seq(S)
  BY SeqDef
<1>2. DOMAIN f = 1 .. n /\ DOMAIN f = 1 .. Len(f) /\ Len(f) \in Nat
  BY <1>1, LenProperties
<1> QED BY <1>1, <1>2

\* The queue that the ring amounts to is a sequence of messages.
QueueOK ==
  /\ Queue \in Seq(Messages)
  /\ Len(Queue) = Used
  /\ \A i \in 1 .. Used : Queue[i] = records[Place(i)]

LEMMA QueueType ==
  ASSUME NEW p, QueueInv(p)
  PROVE  QueueOK
<1>1. \A i \in 1 .. Used : records[Place(i)] \in Messages
  BY Places DEF QueueInv, QueueTypeOK, Carried
<1>2. Used \in Nat
  BY Places, SizeAssumption DEF QueueInv, QueueTypeOK
<1>3. Queue \in [1 .. Used -> Messages]
  BY <1>1 DEF Queue
<1> QED BY <1>2, <1>3, FunctionIsSeq DEF Queue, QueueOK

\* What a step leaves alone leaves the queue alone: all but the slots in use.
LEMMA QueueKept ==
  ASSUME NEW p, QueueInv(p), UNCHANGED <<readIndex, writeIndex>>,
         \A i \in Slots : InUse(i) => records'[i] = records[i]
  PROVE  UNCHANGED Queue
<1>1. Used' = Used /\ \A i \in 1 .. Used : Place(i)' = Place(i) /\ records'[Place(i)] = records[Place(i)]
  BY Places DEF QueueInv, QueueTypeOK, Used, Place
<1> QED BY <1>1 DEF Queue

\* The step that publishes a slot appends the message to the queue.
LEMMA PublishAccepts ==
  ASSUME NEW p, Producers = {p}, QueueInv(p), QueueOK, QueueOK', Publish(p)
  PROVE  Fifo!Accept(message[p])
<1>1. /\ readIndex \in Slots /\ writeIndex \in Slots /\ After(writeIndex) # readIndex
      /\ writeIndex' = After(writeIndex) /\ UNCHANGED <<records, readIndex, consuming, refused>>
      /\ records[writeIndex] = message[p] /\ message[p] \in Messages
      /\ producer[p] = "publish" /\ producer'[p] = "idle"
  BY DEF QueueInv, QueueTypeOK, Exclusion, Carried, Publish, Goto
<1>2. Used' = Used + 1 /\ (\A i \in 1 .. Used : Place(i)' = Place(i)) /\ Place(Used)' = writeIndex
  BY <1>1, PlacesAfterPublish
<1>3. Len(Queue) < Size - 1 /\ Used \in Nat
  BY <1>1, Places, SizeAssumption DEF QueueOK
<1>4. Queue' = Append(Queue, message[p])
  <2> DEFINE appended == Append(Queue, message[p])
  <2>1. /\ Queue' \in Seq(Messages) /\ Len(Queue') = Used + 1
        /\ \A i \in 1 .. Used : Queue'[i] = records[Place(i)]
        /\ Queue'[Used + 1] = message[p]
    BY <1>1, <1>2, <1>3 DEF QueueOK
  <2>2. /\ appended \in Seq(Messages) /\ Len(appended) = Used + 1
        /\ \A i \in 1 .. Used : appended[i] = records[Place(i)]
        /\ appended[Used + 1] = message[p]
    BY <1>1, AppendProperties DEF QueueOK
  <2>3. \A i \in 1 .. Len(Queue') : Queue'[i] = appended[i]
    BY <2>1, <2>2, <1>3
  <2> HIDE DEF appended
  <2>4. Queue' = appended
    BY <2>1, <2>2, <2>3, SeqEqual
  <2> QED BY <2>4 DEF appended
<1>5. UNCHANGED <<Taken, delivered, Refused>>
  BY <1>1 DEF Taken, Refused, consuming
<1> QED BY <1>3, <1>4, <1>5 DEF Fifo!Accept

\* The step that releases a slot takes its message out of the queue.
LEMMA ReleaseTakes ==
  ASSUME NEW p, QueueInv(p), QueueOK, QueueOK', Release
  PROVE  Fifo!Take
<1>1. /\ readIndex \in Slots /\ writeIndex \in Slots /\ writeIndex # readIndex
      /\ readIndex' = After(readIndex) /\ UNCHANGED <<writeIndex, producing, inHand, delivered>>
      /\ records' = [records EXCEPT ![readIndex] = None] /\ inHand = records[readIndex]
      /\ worker = "release" /\ worker' = "emit"
      /\ records \in [Slots -> Messages \cup {None}]
  BY DEF QueueInv, QueueTypeOK, Exclusion, Carried, Release
<1>2. Used' = Used - 1 /\ \A i \in 1 .. Used - 1 : Place(i)' = Place(i + 1)
  BY <1>1, PlacesAfterRelease
<1>3. Used \in Nat \ {0} /\ Queue # <<>> /\ Head(Queue) = inHand
  <2>1. Used \in Nat \ {0} /\ Place(1) = readIndex
    BY <1>1, Places, SizeAssumption
  <2>2. Queue[1] = inHand
    BY <1>1, <2>1 DEF QueueOK
  <2> QED BY <2>1, <2>2 DEF QueueOK
<1>4. Queue' = Tail(Queue)
  <2>1. /\ Tail(Queue) \in Seq(Messages) /\ Len(Tail(Queue)) = Used - 1
        /\ \A i \in 1 .. Used - 1 : Tail(Queue)[i] = records[Place(i + 1)]
    <3>1. /\ Tail(Queue) \in Seq(Messages) /\ Len(Tail(Queue)) = Used - 1
          /\ \A i \in 1 .. Used - 1 : Tail(Queue)[i] = Queue[i + 1]
      BY <1>3, HeadTailProperties DEF QueueOK
    <3>2. \A i \in 1 .. Used - 1 : i + 1 \in 1 .. Used
      BY <1>3
    <3> QED BY <3>1, <3>2 DEF QueueOK
  <2>2. \A i \in 1 .. Used - 1 : Queue'[i] = records[Place(i + 1)]
    <3>1. \A i \in 1 .. Used - 1 : Place(i + 1) \in Slots /\ Place(i + 1) # readIndex
      BY <1>1, <1>3, Places
    <3>2. \A i \in 1 .. Used - 1 : Queue'[i] = records'[Place(i + 1)]
      BY <1>2 DEF QueueOK
    <3> QED BY <3>1, <3>2, <1>1
  <2>3. Queue' \in Seq(Messages) /\ Len(Queue') = Used - 1
    BY <1>2 DEF QueueOK
  <2> QED BY <2>1, <2>2, <2>3, SeqEqual
<1>5. Taken = <<>> /\ Taken' = <<Head(Queue)>> /\ UNCHANGED <<delivered, Refused>>
  BY <1>1, <1>3 DEF Taken, Refused, producing
<1> QED BY <1>3, <1>4, <1>5 DEF Fifo!Take

\* Every other step leaves the queue as it is: the check that finds the ring
\* full refuses, the last step of the worker delivers, and the rest stutter.
LEMMA StepRefines ==
  ASSUME NEW p, Producers = {p}, QueueInv(p), QueueOK, QueueOK', [QueueNext]_queueVars
  PROVE  [Fifo!Next]_(Fifo!vars)
<1> USE DEF Fifo!vars, Taken, Refused
<1>r. /\ records \in [Slots -> Messages \cup {None}]
      /\ producer \in [Producers -> {"idle", "load", "check", "store", "publish", "full"}]
      /\ message \in [Producers -> Messages \cup {None}]
  BY DEF QueueInv, QueueTypeOK
<1>k. ASSUME UNCHANGED ring PROVE UNCHANGED Queue
  BY <1>k DEF ring, Queue, Used, Place
<1>1. ASSUME NEW m \in Messages, OnMessage(p, m) PROVE UNCHANGED Fifo!vars
  BY <1>1, <1>k, <1>r DEF OnMessage, Goto, consuming
<1>2. CASE LoadWriteIndex(p)
  <2>1. UNCHANGED Fifo!vars
    BY <1>2, <1>k, <1>r DEF LoadWriteIndex, Goto, consuming
  <2> QED BY <2>1
<1>3. CASE CheckFull(p)
  <2>1. CASE producer'[p] = "full"
    <3>1. Fifo!Refuse(message[p]) /\ message[p] \in Messages
      <4>1. /\ After(writeIndex) = readIndex /\ producer[p] = "check" /\ message[p] \in Messages
            /\ UNCHANGED <<ring, message, refused, consuming>>
        BY <1>3, <2>1, <1>r DEF CheckFull, Goto, QueueInv, Exclusion, Carried
      <4>2. Len(Queue) = Size - 1
        BY <4>1, Places DEF QueueOK, QueueInv, QueueTypeOK
      <4>3. Refused' = Refused \cup {message[p]}
        BY <4>1, <2>1
      <4> QED BY <4>1, <4>2, <4>3, <1>k DEF Fifo!Refuse, consuming
    <3>2. Fifo!Next
      <4> HIDE DEF Taken, Refused
      <4> QED BY <3>1 DEF Fifo!Next
    <3> QED BY <3>2
  <2>2. CASE producer'[p] # "full"
    <3>1. UNCHANGED Fifo!vars
      BY <1>3, <2>2, <1>k, <1>r DEF CheckFull, Goto, consuming
    <3> QED BY <3>1
  <2> QED BY <2>1, <2>2
<1>4. CASE StoreRecord(p)
  <2>1. \A i \in Slots : InUse(i) => records'[i] = records[i]
    BY <1>4, <1>r, SizeAssumption DEF StoreRecord, Goto, QueueInv, Exclusion, QueueTypeOK, InUse, Slots
  <2>2. UNCHANGED Queue
    BY <1>4, <2>1, QueueKept DEF StoreRecord
  <2>3. UNCHANGED Fifo!vars
    BY <1>4, <2>2, <1>r DEF StoreRecord, Goto, consuming
  <2> QED BY <2>3
<1>5. CASE Publish(p)
  <2>1. Fifo!Accept(message[p]) /\ message[p] \in Messages
    BY <1>5, PublishAccepts DEF Publish, Goto, QueueInv, Carried
  <2> QED BY <2>1 DEF Fifo!Next
<1>6. CASE BufferFull(p)
  <2>1. UNCHANGED Fifo!vars
    BY <1>6, <1>k, <1>r DEF BufferFull, Goto, consuming
  <2> QED BY <2>1
<1>7. CASE Poll \/ CheckEmpty \/ TakeRecord \/ Stop
  <2>1. UNCHANGED Fifo!vars
    BY <1>7, <1>k DEF Poll, CheckEmpty, TakeRecord, Stop, producing, consuming
  <2> QED BY <2>1
<1>8. CASE Release
  BY <1>8, ReleaseTakes DEF Fifo!Next
<1>9. CASE Deliver
  <2>1. delivered' = delivered \o Taken /\ Taken # <<>> /\ Taken' = <<>>
    BY <1>9, AppendIsConcat DEF Deliver, QueueInv, QueueTypeOK, Carried
  <2>2. UNCHANGED <<Queue, Refused>>
    BY <1>9, <1>k DEF Deliver, producing
  <2> QED BY <2>1, <2>2 DEF Fifo!Next, Fifo!Deliver
<1>10. CASE UNCHANGED queueVars
  <2>1. UNCHANGED Fifo!vars
    BY <1>10, <1>k DEF queueVars, ring
  <2> QED BY <2>1
<1> QED BY <1>1, <1>2, <1>3, <1>4, <1>5, <1>6, <1>7, <1>8, <1>9, <1>10
        DEF QueueNext, Produce, Work

\* With one producer the stage is a FIFO queue of Size - 1 places, for every
\* size and whatever the two threads' loads and stores are interleaved with:
\* nothing is lost, doubled or reordered, and nothing is refused before the
\* ring is full.
THEOREM OneProducerImplementsFifo ==
  ASSUME NEW p, Producers = {p}
  PROVE  QueueSpec => ImplementsFifo
<1>1. QueueInit => QueueInv(p)
  BY InitQueueInv
<1>2. QueueInv(p) /\ [QueueNext]_queueVars => QueueInv(p)'
  BY NextQueueInv
<1>3. QueueInv(p) => QueueOK
  BY QueueType
<1>4. QueueInit => Fifo!Init
  <2> SUFFICES ASSUME QueueInit PROVE Fifo!Init
    OBVIOUS
  <2>1. Used = 0 /\ Queue = [i \in 1 .. 0 |-> records[Place(i)]]
    BY DEF QueueInit, Used, Queue
  <2>2. Queue = <<>>
    BY <2>1
  <2> QED BY <2>2 DEF Fifo!Init, QueueInit, Taken, Refused
<1>5. QueueInv(p) /\ QueueOK /\ QueueOK' /\ [QueueNext]_queueVars => [Fifo!Next]_(Fifo!vars)
  BY StepRefines
<1> QED BY <1>1, <1>2, <1>3, <1>4, <1>5, PTL DEF QueueSpec, ImplementsFifo, Fifo!Spec
================================================================================
