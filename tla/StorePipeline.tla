----------------------------- MODULE StorePipeline -----------------------------
(***************************************************************************)
(* The stages that read the KeyValueStore, in a row on one thread: a       *)
(* message goes through the whitelist, the blacklist and the round robin   *)
(* load balancer, each calling the next from its on_message.  The store is *)
(* filled between messages, in any order.                                  *)
(***************************************************************************)
EXTENDS RoundRobinLoadBalancer, PresentAbsentFilter, Functions

CONSTANTS
  Pools,         \* keys of lists: the pools of endpoints
  Endpoints,     \* the elements of those lists
  Settings,      \* keys of single values: hosts and ports of endpoints
  SetKeys,       \* keys of sets
  Names,         \* the values in sets
  Addresses,     \* the hosts and ports
  Messages,      \* the messages: functions from field names to values
  Whitelist, Blacklist,  \* the _field_combinations of the two filters
  MaxEndpoints,  \* bound: length of a pool
  MaxTypes       \* bound: calls with a value of a type that does not fit

ASSUME PipelineAssumption == MaxEndpoints \in Nat /\ MaxTypes \in Nat

VARIABLES
  outcome,   \* where the last message ended
  turns,     \* history: the indexes of each pool's last round, since it last grew
  misfits    \* calls made with a value that does not fit

vars == <<single, lists, sets, lastSelection, outcome, turns, misfits>>

Outcomes == {"filtered", "exception_out", "swallowed", "out"}

TypeOK ==
  /\ StoreTypeOK(Settings, Pools, SetKeys, Endpoints \cup Names \cup Addresses)
  /\ DOMAIN lastSelection \subseteq Pools
  /\ \A p \in DOMAIN lastSelection : lastSelection[p] \in 0 .. IndexSize - 1
  /\ outcome \in Outcomes
  /\ turns \in [Pools -> Seq(0 .. IndexSize - 1)]
  /\ misfits \in 0 .. MaxTypes

Init ==
  /\ StoreInit
  /\ BalancerInit
  /\ outcome = "swallowed"
  /\ turns = [p \in Pools |-> <<>>]
  /\ misfits = 0

Text(data) == [type |-> "string", data |-> data]
Number(data) == [type |-> "int64", data |-> data]

\* A value of the type the stages read, or, a few times, of another one.
Fitting(value) == \/ value.type = "string" /\ UNCHANGED misfits
                  \/ value.type # "string" /\ misfits < MaxTypes /\ misfits' = misfits + 1

Configure(key, value) ==
  /\ Fitting(value)
  /\ Add(key, value)
  /\ UNCHANGED <<lastSelection, outcome, turns>>

AddEndpoint(pool, value) ==
  /\ Fitting(value)
  /\ pool \in DOMAIN lists => ListCount(pool) < MaxEndpoints
  /\ AddToList(pool, value)
  /\ turns' = IF lists' = lists THEN turns ELSE [turns EXCEPT ![pool] = <<>>]
  /\ UNCHANGED <<lastSelection, outcome>>

AddName(key, value) ==
  /\ Fitting(value)
  /\ AddToSet(key, value)
  /\ UNCHANGED <<lastSelection, outcome, turns>>

\* A round of a pool is as many turns as it has endpoints.
Round(pool) ==
  LET all == Append(turns[pool], NextIndex(pool))
  IN SubSeq(all, IF Len(all) > ListCount(pool) THEN 2 ELSE 1, Len(all))

\* The message reaches the load balancer.
Balance(m) ==
  LET pool == GetField(m, "pool")
  IN IF HasField(m, "pool") /\ Selects(pool)
     THEN /\ Select(pool)
          /\ turns' = [turns EXCEPT ![pool] = Round(pool)]
          /\ outcome' = IF Destination(pool) = Unsent THEN "swallowed" ELSE "out"
     ELSE /\ outcome' = "swallowed"
          /\ UNCHANGED <<lastSelection, turns>>

OnMessage(m) ==
  /\ LET white == FilterOutput(TRUE, Whitelist, m)
         black == FilterOutput(FALSE, Blacklist, m)
     IN CASE white # "out" -> outcome' = white /\ UNCHANGED <<lastSelection, turns>>
          [] white = "out" /\ black # "out" -> outcome' = black /\ UNCHANGED <<lastSelection, turns>>
          [] white = "out" /\ black = "out" -> Balance(m)
  /\ UNCHANGED <<storeVars, misfits>>

Next ==
  \/ \E key \in Settings, data \in Addresses : Configure(key, Text(data)) \/ Configure(key, Number(data))
  \/ \E pool \in Pools, e \in Endpoints : AddEndpoint(pool, Text(e)) \/ AddEndpoint(pool, Number(e))
  \/ \E key \in SetKeys, data \in Names : AddName(key, Text(data)) \/ AddName(key, Number(data))
  \/ \E m \in Messages : OnMessage(m)

Spec == Init /\ [][Next]_vars

-----------------------------------------------------------------------------
\* In one round every endpoint of a pool has one turn, wherever the round
\* begins and whether or not its endpoints are complete in the store, as long
\* as the type of the index can number them.  An endpoint without host or port
\* costs its own turn only.
RotationIsFair ==
  \A p \in Pools \cap DOMAIN lists :
    ListCount(p) <= IndexSize => IsInjective(turns[p])

\* Names are only added to sets, and a set never changes its type.  So what the
\* blacklist keeps out it keeps out for good, and the whitelist lets through
\* whatever it once let through by sets that exist.  (A set that does not exist
\* yet lets everything through, and the first name added to it shuts the
\* others out.)
FiltersKeepTheirWord ==
  [][\A m \in Messages :
       /\ FilterOutput(FALSE, Blacklist, m) # "out" => FilterOutput(FALSE, Blacklist, m)' # "out"
       /\ /\ \A i \in DOMAIN Whitelist : /\ HasField(m, Whitelist[i].set)
                                         /\ SetKeyExist(GetField(m, Whitelist[i].set))
          /\ FilterOutput(TRUE, Whitelist, m) = "out"
          => FilterOutput(TRUE, Whitelist, m)' = "out"]_vars
=============================================================================
