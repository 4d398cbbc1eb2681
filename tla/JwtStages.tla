------------------------------- MODULE JwtStages -------------------------------
(***************************************************************************)
(* JwtDecoderStage and JwtValidationStage.  What the library makes of a    *)
(* token is the token: whether jwt::decode reads it, its claims, and what  *)
(* verify says of it.  Each stage is the set of its possible outcomes: the *)
(* source the message goes to and the message; header claims are kept in   *)
(* an unordered map, so which of them were set before one threw is open.   *)
(***************************************************************************)
EXTENDS DynamicMessage, Naturals, Sequences

CONSTANT Jwt  \* the tokens: for a character, the token of which it is the text

\* A claim's value is a string, or something as_string throws on.
ReadsAsString(t, c) == t.header[c].string

\* jwt::decoded_jwt::get_algorithm returns: verify calls it first of all.
NamesAlgorithm(t) == "alg" \in DOMAIN t.header /\ ReadsAsString(t, "alg")

\* What verify says of a token that decodes: it is good, verify throws one of
\* the two exceptions of jwt::error, or, for a token that names no algorithm
\* (std::out_of_range, std::bad_cast) or has a time that is no date
\* (std::bad_cast), what the validation stage does not catch.
ASSUME JwtAssumption ==
  \A c \in DOMAIN Jwt :
    \/ /\ Jwt[c].form = "jwt"
       /\ Jwt[c].verdict \in {"good", "signature", "token verification", "uncaught"}
       /\ ~NamesAlgorithm(Jwt[c]) => Jwt[c].verdict = "uncaught"
    \/ Jwt[c].form \in {"garbled", "no object"} /\ Jwt[c].verdict = "none"

Outcome(to, m) == [to |-> to, message |-> m]

\* jwt::decode: a text without its two dots is no token (std::invalid_argument);
\* the form "garbled" has them, and is no base64 or no JSON (std::runtime_error),
\* and "no object" is JSON that is not an object (std::bad_cast).
Decoded(text) ==
  IF Len(text) = 1 /\ text[1] \in DOMAIN Jwt THEN Jwt[text[1]]
  ELSE [form |-> "no jwt", header |-> <<>>, payload |-> <<>>, verdict |-> "none"]

SetHeaderClaims(m, group, t, claims) ==
  [m EXCEPT !.fields = AssignAll(@, [k \in {group} \X claims |-> Str(t.header[k[2]].value)])]

SetPayloadClaims(m, group, t) ==
  [m EXCEPT !.fields = AssignAll(@, [k \in {group} \X DOMAIN t.payload |-> Str(t.payload[k[2]])])]

\* Mutant: the loops in the other order, so that a header claim wins.
SetAllClaimsHeaderLast(m, group, t) == SetHeaderClaims(SetPayloadClaims(m, group, t), group, t, DOMAIN t.header)

SetAllClaims(m, group, t) == SetPayloadClaims(SetHeaderClaims(m, group, t, DOMAIN t.header), group, t)

StringClaims(t) == {c \in DOMAIN t.header : ReadsAsString(t, c)}

-----------------------------------------------------------------------------
DecoderGroup == "jwt decoding"
Parts == {"header_base64", "payload_base64", "signature_base64"}

DecodingFailed(m) ==
  Outcome("error_decoding_out", SetField(m, DecoderGroup, "jwt_decoder_error_description", Str(<<>>)))

\* Mutant: claims that are no strings are passed over instead of thrown on.
DecoderOutcomesLenient(m, token_field_name) ==
  IF ~GetFieldReturns(m, "string", "auth", token_field_name) THEN {DecodingFailed(m)}
  ELSE LET t == Decoded(GetField(m, "auth", token_field_name))
       IN  IF t.form # "jwt" THEN {DecodingFailed(m)}
           ELSE {Outcome("decoded_token_out",
                         SetPayloadClaims(SetHeaderClaims(m, DecoderGroup, t, StringClaims(t)), DecoderGroup, t))}

\* JwtDecoderStage::on_message.  All that throws ends in the error output, with
\* the header claims that were set before.
DecoderOutcomes(m, token_field_name) ==
  IF ~GetFieldReturns(m, "string", "auth", token_field_name) THEN {DecodingFailed(m)}
  ELSE LET text == GetField(m, "auth", token_field_name)
           t    == Decoded(text)
           SetParts(r) == [r EXCEPT !.fields = AssignAll(@, [k \in {DecoderGroup} \X Parts |-> Str(text)])]
       IN  IF t.form # "jwt" THEN {DecodingFailed(m)}
           ELSE IF StringClaims(t) = DOMAIN t.header
           THEN {Outcome("decoded_token_out", SetParts(SetAllClaims(m, DecoderGroup, t)))}
           ELSE {DecodingFailed(SetHeaderClaims(m, DecoderGroup, t, S)) : S \in SUBSET StringClaims(t)}

-----------------------------------------------------------------------------
\* JwtValidationStage::on_message, which is noexcept.  The token is read outside
\* the try block, and std::bad_cast and std::out_of_range are not among the
\* exceptions caught.
ValidationOutcomes(m, token_field, group, key_loads) ==
  IF ~GetFieldReturns(m, "string", token_field[1], token_field[2]) THEN {Outcome("terminate", m)}
  ELSE LET t == Decoded(GetField(m, token_field[1], token_field[2])) IN
    CASE ~key_loads                                     -> {Outcome("invalid_out", m)}
      [] key_loads /\ t.form = "no jwt"                 -> {Outcome("non_jwt_out", m)}
      [] key_loads /\ t.form = "garbled"                -> {Outcome("invalid_out", m)}
      [] key_loads /\ t.form = "no object"              -> {Outcome("terminate", m)}
      [] key_loads /\ t.verdict = "uncaught"            -> {Outcome("terminate", m)}
      [] key_loads /\ t.verdict = "token verification"  -> {Outcome("expired_out", m)}
      [] key_loads /\ t.verdict = "signature"           -> {Outcome("invalid_out", m)}
      [] OTHER -> IF StringClaims(t) = DOMAIN t.header
                  THEN {Outcome("valid_out", SetAllClaims(m, group, t))}
                  ELSE {Outcome("terminate", m)}
================================================================================
