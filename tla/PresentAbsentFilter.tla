-------------------------- MODULE PresentAbsentFilter --------------------------
(***************************************************************************)
(* FilterPresentAbsentStage::on_message, as WhitelistingStage and as       *)
(* BlacklistingStage: the output a message leaves through.  A message is   *)
(* a function from the names of its fields to their values (the fields of  *)
(* DynamicMessage); a combination names the field that holds a set's key   *)
(* and the field that holds the value looked for in that set.              *)
(***************************************************************************)
EXTENDS KeyValueStore

\* get_field<std::string>, where it does not throw: the field exists and
\* holds a string
HasField(message, name) == name \in DOMAIN message /\ message[name].type = "string"
GetField(message, name) == message[name].data

\* One turn of the loop: what a combination says of a message.  A set that
\* does not exist switches the combination off.
Judge(ifPresent, combination, message) ==
  LET field == combination.set
      value == [type |-> "string", data |-> GetField(message, combination.value)]
  IN IF ~HasField(message, field) \/ ~HasField(message, combination.value) THEN "throws"
     ELSE IF ~SetKeyExist(GetField(message, field)) THEN "passes"
     ELSE IF ~CanSearch("string", GetField(message, field)) THEN "throws"
     ELSE IF ContainsInSet(GetField(message, field), value) = ifPresent THEN "passes"
     ELSE "condemns"

\* The loop has no early exit but an exception, which overrides a
\* combination that condemned the message before.
FilterOutput(ifPresent, combinations, message) ==
  LET judged == {Judge(ifPresent, combinations[i], message) : i \in DOMAIN combinations}
  IN IF "throws" \in judged THEN "exception_out"
     ELSE IF "condemns" \in judged THEN "filtered"
     ELSE "out"
=============================================================================
