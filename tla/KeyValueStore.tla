----------------------------- MODULE KeyValueStore -----------------------------
(***************************************************************************)
(* KeyValueStore: single values, lists and sets, each under keys of its    *)
(* own.  A value carries its type (std::variant); a list or set carries    *)
(* the type of its first element (std::type_index) and takes no other.     *)
(* A read that throws is told by the predicate that says whether it        *)
(* succeeds.  The store is not thread safe: an operation is one step.      *)
(***************************************************************************)
EXTENDS Naturals, Sequences

VARIABLES
  single,  \* _single_value_keys
  lists,   \* _list_value_keys
  sets     \* _set_value_keys

storeVars == <<single, lists, sets>>

Types == {"string", "int64"}

\* A list or set has at least one element, and all of them have its type:
\* what the readers' std::get relies on.
StoreTypeOK(SingleKeys, ListKeys, SetKeys, Data) ==
  LET Value == [type : Types, data : Data]
      OfType(type) == [type : {type}, data : Data] IN
  /\ DOMAIN single \subseteq SingleKeys /\ \A k \in DOMAIN single : single[k] \in Value
  /\ DOMAIN lists \subseteq ListKeys
  /\ \A k \in DOMAIN lists : lists[k].items \in Seq(OfType(lists[k].type)) \ {<<>>}
  /\ DOMAIN sets \subseteq SetKeys
  /\ \A k \in DOMAIN sets : sets[k].items \in (SUBSET OfType(sets[k].type)) \ {{}}

Empty == <<>>  \* the map with no keys

StoreInit == single = Empty /\ lists = Empty /\ sets = Empty

\* insert_or_assign, try_emplace
With(map, key, value) == [k \in DOMAIN map \cup {key} |-> IF k = key THEN value ELSE map[k]]

\* add: overwrites an existing value, of whatever type
Add(key, value) ==
  /\ single' = With(single, key, value)
  /\ UNCHANGED <<lists, sets>>

\* get, where it throws neither KeyDoesNotExist nor TypeMismatch
Gets(type, key) == key \in DOMAIN single /\ single[key].type = type

\* Mutant: the type of a list is not compared.
AddToListUnchecked(key, value) ==
  /\ lists' = IF key \in DOMAIN lists
              THEN [lists EXCEPT ![key].items = Append(@, value)]
              ELSE With(lists, key, [type |-> value.type, items |-> <<value>>])
  /\ UNCHANGED <<single, sets>>

\* add_to_list: throws InvalidListElementType, and changes nothing, where the
\* list has another type
AddToList(key, value) ==
  /\ lists' = IF key \notin DOMAIN lists
              THEN With(lists, key, [type |-> value.type, items |-> <<value>>])
              ELSE IF lists[key].type = value.type
              THEN [lists EXCEPT ![key].items = Append(@, value)]
              ELSE lists
  /\ UNCHANGED <<single, sets>>

\* get_list_count, where it does not throw
ListCount(key) == Len(lists[key].items)

\* get_at_list, where std::get does not throw; positions count from 0
HasAt(type, key, position) ==
  /\ key \in DOMAIN lists
  /\ position < ListCount(key)
  /\ lists[key].items[position + 1].type = type
At(key, position) == lists[key].items[position + 1].data

\* Mutant: the first element replaces whatever the set held.
AddToSetAfresh(key, value) ==
  /\ sets' = With(sets, key, [type |-> value.type, items |-> {value}])
  /\ UNCHANGED <<single, lists>>

\* add_to_set: throws ValueExistInSet or InvalidSetElementType, and changes
\* nothing, where the set has the value or another type
AddToSet(key, value) ==
  /\ sets' = IF key \notin DOMAIN sets
             THEN With(sets, key, [type |-> value.type, items |-> {value}])
             ELSE IF sets[key].type = value.type
             THEN [sets EXCEPT ![key].items = @ \cup {value}]
             ELSE sets
  /\ UNCHANGED <<single, lists>>

SetKeyExist(key) == key \in DOMAIN sets

\* contains_in_set, where it throws neither KeyDoesNotExist nor
\* InvalidSetElementType
CanSearch(type, key) == key \in DOMAIN sets /\ sets[key].type = type
ContainsInSet(key, value) == value \in sets[key].items
=============================================================================
