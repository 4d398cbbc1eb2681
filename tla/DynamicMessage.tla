---------------------------- MODULE DynamicMessage ----------------------------
(***************************************************************************)
(* DynamicMessage: fields of any type under a group and a key, and typed   *)
(* groups, whose fields are all of one type.  A message is a record, and   *)
(* what a setter does to it is the message that results.  A getter throws  *)
(* where it finds nothing, so every getter has a predicate that says       *)
(* whether it returns; it is only applied where the predicate holds.       *)
(***************************************************************************)
EXTENDS Maps

Message(type) == [type |-> type, fields |-> <<>>, typed |-> <<>>]

\* An alternative of the variant a field holds.
Field(type, value) == [type |-> type, value |-> value]
Str(value) == Field("string", value)

SetField(m, group, key, field) == [m EXCEPT !.fields = Assign(@, <<group, key>>, field)]

\* FieldGroupDoesNotExistException, FieldNameDoesNotExistException and
\* std::bad_variant_access are the three ways get_field throws.
GetFieldReturns(m, type, group, name) ==
  /\ <<group, name>> \in DOMAIN m.fields
  /\ m.fields[<<group, name>>].type = type

GetField(m, group, name) == m.fields[<<group, name>>].value

CreateTypedGroup(m, type, group) ==
  IF group \in DOMAIN m.typed THEN m
  ELSE [m EXCEPT !.typed = Assign(@, group, [type |-> type, fields |-> <<>>])]

\* FieldGroupDoesNotExistException and TypedGroupTypeMismatchException.
TypedGroupIsOf(m, type, group) == group \in DOMAIN m.typed /\ m.typed[group].type = type

SetTypedField(m, group, field, value) ==
  [m EXCEPT !.typed[group].fields = Assign(@, field, value)]

GetTypedFieldReturns(m, type, group, field) ==
  TypedGroupIsOf(m, type, group) /\ field \in DOMAIN m.typed[group].fields

GetTypedField(m, group, field) == m.typed[group].fields[field]

\* What iterating from the first to the second iterator of get_typed_group yields.
GetTypedGroup(m, group) == {<<f, GetTypedField(m, group, f)>> : f \in DOMAIN m.typed[group].fields}
===============================================================================
