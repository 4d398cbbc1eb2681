--------------------------- MODULE RequestValidation ---------------------------
(***************************************************************************)
(* HttpRequestValidationStage::on_message with the validators of           *)
(* RequestValidator.  A validator holds the flag _valid; the flags of a    *)
(* specification are shared by every message, stage and thread that looks  *)
(* the specification up, and validate(), although const, resets and sets   *)
(* them.  Resetting a section, visiting a field and reading the flags are  *)
(* steps of their own, so that validations on several threads interleave.  *)
(***************************************************************************)
EXTENDS Naturals, FiniteSets

CONSTANTS
  Threads,      \* threads that call on_message
  SpecKeys,     \* values of the lookup field
  Specs,        \* the RequestValidator objects
  Absent,       \* no specification; no such field or group in a message
  Sites,        \* <<section, field>> that validators can be added for
  Requests,     \* the messages
  MaxRules,     \* bound: validators added in all
  MaxRequests   \* bound: messages in all

Sections == {"header", "path", "query"}

ASSUME SitesAssumption == \A s \in Sites : s[1] \in Sections
ASSUME RequestsAssumption ==
  \A r \in Requests : r.key \in SpecKeys \cup {Absent} /\ Sections \subseteq DOMAIN r
ASSUME BoundAssumption == MaxRules \in Nat /\ MaxRequests \in Nat

VARIABLES
  store,     \* KeyComplexValueStore: the specification of each key
  rules,     \* the validators of each specification
  valid,     \* the validators of each specification whose _valid is set
  pc,        \* where each thread stands in on_message
  request,   \* the message each thread validates
  spec,      \* the specification it found
  section,   \* the section it is in
  todo,      \* fields of that section it has not visited
  verdict,   \* the output it chose
  running,   \* FALSE: an exception left a noexcept on_message
  taken,     \* messages taken on so far
  alone      \* history: no other thread used its specification meanwhile

vars == <<store, rules, valid, pc, request, spec, section, todo, verdict,
          running, taken, alone>>

Rules == {[section |-> s[1], name |-> s[2], kind |-> k] :
            s \in Sites, k \in {"compulsory", "int64", "double"}}

\* In particular a thread visits, in the section it is in, fields that its message
\* has there.
TypeOK ==
  /\ store \in [SpecKeys -> Specs \cup {Absent}]
  /\ rules \in [Specs -> SUBSET Rules]
  /\ valid \in [Specs -> SUBSET Rules]
  /\ pc \in [Threads -> {"idle", "reset", "visit", "emit"}]
  /\ request \in [Threads -> Requests \cup {Absent}]
  /\ spec \in [Threads -> Specs \cup {Absent}]
  /\ section \in [Threads -> Sections]
  /\ \A t \in Threads : todo[t] # {} => todo[t] \subseteq DOMAIN request[t][section[t]]
  /\ verdict \in [Threads -> BOOLEAN]
  /\ running \in BOOLEAN
  /\ taken \in 0 .. MaxRequests
  /\ alone \in [Threads -> BOOLEAN]

\* What reset() leaves: a compulsory field has not been seen, a data type has
\* not been contradicted.  New validators start the same way.
AfterReset == {r \in Rules : r.kind # "compulsory"}

\* Whether visit(value) sets _valid.  Values are told apart as far as the
\* validators do: digits only (or nothing), digits with one point, other text.
Accepts(kind, value) == CASE kind = "compulsory" -> TRUE
                          [] kind = "int64"      -> value = "digits"
                          [] kind = "double"     -> value = "decimal"

Init ==
  /\ store = [k \in SpecKeys |-> Absent]
  /\ rules = [s \in Specs |-> {}]
  /\ valid = [s \in Specs |-> AfterReset]
  /\ pc = [t \in Threads |-> "idle"]
  /\ request = [t \in Threads |-> Absent]
  /\ spec = [t \in Threads |-> Absent]
  /\ section = [t \in Threads |-> "header"]
  /\ todo = [t \in Threads |-> {}]
  /\ verdict = [t \in Threads |-> TRUE]
  /\ running = TRUE
  /\ taken = 0
  /\ alone = [t \in Threads |-> TRUE]

-----------------------------------------------------------------------------
\* Configuration.  Neither the store nor a specification is thread safe, so
\* they are changed only while no message is being validated.
Quiet == running /\ \A t \in Threads : pc[t] = "idle"

AddValue(key, s) ==
  /\ Quiet
  /\ store' = [store EXCEPT ![key] = s]
  /\ UNCHANGED <<rules, valid, pc, request, spec, section, todo, verdict, running, taken, alone>>

RuleCount == Cardinality({p \in Specs \X Rules : p[2] \in rules[p[1]]})

AddRule(s, site, kind) ==
  /\ Quiet
  /\ RuleCount < MaxRules
  /\ rules' = [rules EXCEPT ![s] = @ \cup {[section |-> site[1], name |-> site[2], kind |-> kind]}]
  /\ UNCHANGED <<store, valid, pc, request, spec, section, todo, verdict, running, taken, alone>>

AddCompulsoryValidator(s, site) == AddRule(s, site, "compulsory")

\* Types that are neither integral nor floating point get no validator.
AddDataTypeValidator(s, site, type) ==
  \/ type = "integral" /\ AddRule(s, site, "int64")
  \/ type = "floating" /\ AddRule(s, site, "double")

AddValidator(s, site, type) ==
  \/ type = "any" /\ AddCompulsoryValidator(s, site)
  \/ AddDataTypeValidator(s, site, type)

AddHeaderValidator(s, site, type) == site[1] = "header" /\ AddValidator(s, site, type)
AddPathValidator(s, site, type)   == site[1] = "path" /\ AddValidator(s, site, type)
AddQueryValidator(s, site, type)  == site[1] = "query" /\ AddValidator(s, site, type)

-----------------------------------------------------------------------------
Validating(t) == pc[t] \in {"reset", "visit"}

\* get_validation_spec: the specification stored under the lookup field.
Found(r) == IF r.key = Absent THEN Absent ELSE store[r.key]

\* What is thrown where it cannot be caught: a lookup field that is not there
\* is rethrown, out of a noexcept function, and get_typed_group asks for all
\* three groups as soon as there is a specification.
Readable(r) ==
  /\ r.key # Absent
  /\ Found(r) # Absent => \A s \in Sections : r[s] # Absent

LookUp(t, r) ==
  LET others == {u \in Threads \ {t} : Validating(u) /\ spec[u] = Found(r)}
  IN /\ running /\ pc[t] = "idle" /\ taken < MaxRequests
     /\ taken' = taken + 1
     /\ running' = Readable(r)
     /\ request' = [request EXCEPT ![t] = r]
     /\ spec' = [spec EXCEPT ![t] = Found(r)]
     /\ pc' = [pc EXCEPT ![t] = IF ~Readable(r) THEN "idle"
                                ELSE IF Found(r) = Absent THEN "emit" ELSE "reset"]
     /\ alone' = IF Found(r) = Absent THEN alone
                 ELSE [u \in Threads |-> IF u = t THEN others = {}
                                         ELSE alone[u] /\ u \notin others]
     /\ UNCHANGED <<store, rules, valid, section, todo, verdict>>

InSection(t) == {r \in rules[spec[t]] : r.section = section[t]}

\* Mutant: the compulsory flags are not reset; only failing data types are.
ResetDataTypes(t) ==
  /\ running /\ pc[t] = "reset"
  /\ valid' = [valid EXCEPT ![spec[t]] = @ \cup (InSection(t) \cap AfterReset)]
  /\ todo' = [todo EXCEPT ![t] = DOMAIN request[t][section[t]]]
  /\ pc' = [pc EXCEPT ![t] = "visit"]
  /\ UNCHANGED <<store, rules, request, spec, section, verdict, running, taken, alone>>

\* Mutant: evaluate_validity hands the query validator the path's range, start_p
\* and end_p for start_q and end_q.
ResetForPath(t) ==
  LET range == IF section[t] = "query" THEN "path" ELSE section[t]
  IN /\ running /\ pc[t] = "reset"
     /\ valid' = [valid EXCEPT ![spec[t]] = (@ \ InSection(t)) \cup (InSection(t) \cap AfterReset)]
     /\ todo' = [todo EXCEPT ![t] = DOMAIN request[t][range]]
     /\ pc' = [pc EXCEPT ![t] = "visit"]
     /\ UNCHANGED <<store, rules, request, spec, section, verdict, running, taken, alone>>

\* validate: every validator of the section is reset, and the fields are those
\* between the iterators evaluate_validity took for it.
ResetAll(t) ==
  /\ running /\ pc[t] = "reset"
  /\ valid' = [valid EXCEPT ![spec[t]] = (@ \ InSection(t)) \cup (InSection(t) \cap AfterReset)]
  /\ todo' = [todo EXCEPT ![t] = DOMAIN request[t][section[t]]]
  /\ pc' = [pc EXCEPT ![t] = "visit"]
  /\ UNCHANGED <<store, rules, request, spec, section, verdict, running, taken, alone>>

\* validate: one field, and the validators of its name (equal_range).  The
\* fields come in the order of an unordered_map.
VisitField(t, name) ==
  LET visited == {r \in InSection(t) : r.name = name}
      accept == {r \in visited : Accepts(r.kind, request[t][section[t]][name])}
  IN /\ running /\ pc[t] = "visit"
     /\ name \in todo[t]
     /\ todo' = [todo EXCEPT ![t] = @ \ {name}]
     /\ valid' = [valid EXCEPT ![spec[t]] = (@ \ visited) \cup accept]
     /\ UNCHANGED <<store, rules, pc, request, spec, section, verdict, running, taken, alone>>

NextSection == [header |-> "path", path |-> "query"]

\* validate returns; evaluate_validity goes from the headers to the path
\* parameters to the query, and stops at the first section that fails.
CheckAll(t) ==
  /\ running /\ pc[t] = "visit" /\ todo[t] = {}
  /\ LET passed == InSection(t) \subseteq valid[spec[t]]
     IN IF passed /\ section[t] # "query"
        THEN /\ section' = [section EXCEPT ![t] = NextSection[@]]
             /\ pc' = [pc EXCEPT ![t] = "reset"]
             /\ UNCHANGED verdict
        ELSE /\ pc' = [pc EXCEPT ![t] = "emit"]
             /\ verdict' = [verdict EXCEPT ![t] = passed]
             /\ UNCHANGED section
  /\ UNCHANGED <<store, rules, valid, request, spec, todo, running, taken, alone>>

\* valid_requests_out or invalid_requests_out; what on_message kept is gone
Emit(t) ==
  /\ running /\ pc[t] = "emit"
  /\ pc' = [pc EXCEPT ![t] = "idle"]
  /\ request' = [request EXCEPT ![t] = Absent]
  /\ spec' = [spec EXCEPT ![t] = Absent]
  /\ section' = [section EXCEPT ![t] = "header"]
  /\ verdict' = [verdict EXCEPT ![t] = TRUE]
  /\ alone' = [alone EXCEPT ![t] = TRUE]
  /\ UNCHANGED <<store, rules, valid, todo, running, taken>>

\* validate of HeaderSectionValidator, PathValidator and QueryValidator: one
\* function, written three times.
Validate(t) == ResetAll(t) \/ (\E name \in todo[t] : VisitField(t, name)) \/ CheckAll(t)

ValidateHeaders(t) == section[t] = "header" /\ Validate(t)
ValidatePath(t)    == section[t] = "path" /\ Validate(t)
ValidateQuery(t)   == section[t] = "query" /\ Validate(t)

Next ==
  \/ \E key \in SpecKeys, s \in Specs : AddValue(key, s)
  \/ \E s \in Specs, site \in Sites, type \in {"any", "integral", "floating"} :
       AddHeaderValidator(s, site, type) \/ AddPathValidator(s, site, type) \/ AddQueryValidator(s, site, type)
  \/ \E t \in Threads :
       \/ \E r \in Requests : LookUp(t, r)
       \/ ValidateHeaders(t) \/ ValidatePath(t) \/ ValidateQuery(t)
       \/ Emit(t)

Spec == Init /\ [][Next]_vars

-----------------------------------------------------------------------------
\* What a specification asks of a request, read off the request alone.
Satisfies(r, rule) ==
  IF rule.name \in DOMAIN r[rule.section]
  THEN Accepts(rule.kind, r[rule.section][rule.name])
  ELSE rule.kind # "compulsory"

\* A message that had its specification to itself gets the verdict that its
\* own fields deserve: nothing an earlier message left in the shared flags,
\* where validation may have stopped half way, shows through.
LoneVerdictIsRight ==
  \A t \in Threads : pc[t] = "emit" /\ alone[t] =>
    (verdict[t] <=> (spec[t] # Absent => \A rule \in rules[spec[t]] : Satisfies(request[t], rule)))
=============================================================================
