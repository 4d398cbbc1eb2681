------------------------------ MODULE Augmentors ------------------------------
(***************************************************************************)
(* The augmentors of MessageAugmentorStage.  Applying one gives the        *)
(* message and how it ended: "yes", the program runs on; "terminated", an  *)
(* exception left the noexcept on_message of the stage; "undefined", an    *)
(* iterator was dereferenced past its end.                                 *)
(***************************************************************************)
EXTENDS DynamicMessage, Integers, SequencesExt

CONSTANT CounterSize  \* the number of values of the uint8_t that counts the tokens

ASSUME CounterAssumption == CounterSize \in Nat \ {0}

Ends(how, m) == [running |-> how, message |-> m]

-----------------------------------------------------------------------------
\* ConcatenatingAugmentorDefs::augment_operator.
Concatenate(c, m) ==
  IF \E k \in DOMAIN c.field_names : ~GetFieldReturns(m, "string", c.field_names[k][1], c.field_names[k][2])
  THEN Ends("terminated", m)
  ELSE LET Add(ss, f) == ss \o c.separator \o GetField(m, f[1], f[2])
           body == FoldLeft(Add, c.prefix, c.field_names)
           tail == IF c.postfix = <<>> THEN <<>> ELSE c.separator \o c.postfix
       IN  Ends("yes", SetField(m, c.target[1], c.target[2], Str(body \o tail)))

-----------------------------------------------------------------------------
\* The locals of TokenExtractingAugmentorDefs::augment_operator; ite is the
\* position in target_fields, one past their number at the end of the list.
Scan(how, m, ite, in_progress, token, n) ==
  [running |-> how, message |-> m, ite |-> ite, in_progress |-> in_progress, token |-> token, n |-> n]

\* Mutant: the stream of the token is not emptied.
CloseTokenKeeps(c, s) ==
  IF s.ite > Len(c.target_fields) THEN [s EXCEPT !.running = "undefined"]
  ELSE LET f == c.target_fields[s.ite]
           n == (s.n + 1) % CounterSize
       IN  Scan(IF n = c.n_tokens THEN "break" ELSE "yes",
                SetField(s.message, f[1], f[2], Str(s.token)), s.ite + 1, FALSE, s.token, n)

CloseToken(c, s) ==
  IF s.ite > Len(c.target_fields) THEN [s EXCEPT !.running = "undefined"]
  ELSE LET f == c.target_fields[s.ite]
           n == (s.n + 1) % CounterSize
       IN  Scan(IF n = c.n_tokens THEN "break" ELSE "yes",
                SetField(s.message, f[1], f[2], Str(s.token)), s.ite + 1, FALSE, <<>>, n)

\* Mutant: an end mark without a start is passed over.
ReadCharacterLenient(c, s, char) ==
  IF s.running # "yes" THEN s
  ELSE CASE s.in_progress /\ char = c.token_start -> [s EXCEPT !.running = "terminated"]
         [] s.in_progress /\ char = c.token_end   -> CloseToken(c, s)
         [] ~s.in_progress /\ char = c.token_start -> [s EXCEPT !.in_progress = TRUE]
         [] s.in_progress /\ char \notin {c.token_start, c.token_end} ->
              [s EXCEPT !.token = Append(@, char)]
         [] OTHER                                 -> s

ReadCharacter(c, s, char) ==
  IF s.running # "yes" THEN s
  ELSE CASE s.in_progress /\ char = c.token_start  -> [s EXCEPT !.running = "terminated"]
         [] s.in_progress /\ char = c.token_end    -> CloseToken(c, s)
         [] ~s.in_progress /\ char = c.token_end   -> [s EXCEPT !.running = "terminated"]
         [] ~s.in_progress /\ char = c.token_start -> [s EXCEPT !.in_progress = TRUE]
         [] s.in_progress /\ char \notin {c.token_start, c.token_end} ->
              [s EXCEPT !.token = Append(@, char)]
         [] OTHER                                  -> s

ExtractTokens(c, m) ==
  IF ~GetFieldReturns(m, "string", c.field[1], c.field[2]) THEN Ends("terminated", m)
  ELSE LET Read(s, char) == ReadCharacter(c, s, char)
           last == FoldLeft(Read, Scan("yes", m, 1, FALSE, <<>>, 0), GetField(m, c.field[1], c.field[2]))
       IN  Ends(IF last.running = "break" THEN "yes" ELSE last.running, last.message)

-----------------------------------------------------------------------------
\* MessageAugmentor::operator().
ApplyAugmentor(a, m) == IF a.kind = "extract" THEN ExtractTokens(a, m) ELSE Concatenate(a, m)

\* The loop of MessageAugmentorStage::on_message: one after another, until one throws.
ApplyAll(augmentors, m) ==
  FoldLeft(LAMBDA e, a : IF e.running = "yes" THEN ApplyAugmentor(a, e.message) ELSE e,
           Ends("yes", m), augmentors)
===============================================================================
