---------------------------- MODULE MCStorePipeline ----------------------------
EXTENDS StorePipeline

\* The other endpoint is never described.
OfOneEndpoint == {HostOf("e1"), PortOf("e1")}

Combine(set, value) == [set |-> set, value |-> value]
TwoCombinations == <<Combine("group", "name"), Combine("group", "alias")>>
OneCombination == <<Combine("blocked", "name")>>

Message(group, blocked, name) ==
  [pool |-> Text("p"), group |-> Text(group), name |-> Text(name),
   alias |-> Text("b"), blocked |-> Text(blocked)]

\* Messages that find the set on the whitelist, on the blacklist, on both and
\* on neither; one that lacks a field with a set's key, and one whose pool
\* does not exist.
SomeMessages ==
  {Message("w", "u", "a"), Message("u", "w", "a"), Message("w", "w", "b"),
   [pool |-> Text("p"), group |-> Text("w"), name |-> Text("a")],
   [Message("u", "u", "b") EXCEPT !.pool = Text("q")]}
=============================================================================
