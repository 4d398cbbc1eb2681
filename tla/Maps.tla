---------------------------------- MODULE Maps ----------------------------------
(***************************************************************************)
(* std::map and std::unordered_map: a function, <<>> when it is empty.     *)
(***************************************************************************)

\* map[key] = value.
Assign(map, key, value) == [k \in DOMAIN map \cup {key} |-> IF k = key THEN value ELSE map[k]]

\* The same for every entry of another map.
AssignAll(map, entries) ==
  [k \in DOMAIN map \cup DOMAIN entries |-> IF k \in DOMAIN entries THEN entries[k] ELSE map[k]]
=================================================================================
