------------------------- MODULE RoundRobinLoadBalancer -------------------------
(***************************************************************************)
(* RoundRobinLoadBalancerStage::on_message: the next endpoint of the pool  *)
(* a message names, read from the KeyValueStore.                           *)
(***************************************************************************)
EXTENDS KeyValueStore

CONSTANTS IndexSize,      \* values of the index's type: 2^8 in the code
          Unsent          \* what becomes of a message that is swallowed

ASSUME IndexSizeAssumption == IndexSize \in Nat \ {0}

VARIABLE lastSelection    \* _last_selection_index

BalancerInit == lastSelection = Empty

\* The keys endpoint_key + "/host" and endpoint_key + "/port".
HostOf(endpoint) == <<endpoint, "host">>
PortOf(endpoint) == <<endpoint, "port">>

LastIndex(pool) == IF pool \in DOMAIN lastSelection THEN lastSelection[pool] ELSE 0

\* ++index; index % end_point_count
NextIndex(pool) == ((LastIndex(pool) + 1) % IndexSize) % ListCount(pool)

\* The pool's list exists, so that the index is moved, even where a later
\* read throws and the message goes no further.
Selects(pool) == pool \in DOMAIN lists

\* No read throws: the message is emitted.
Complete(pool) ==
  /\ Selects(pool)
  /\ HasAt("string", pool, NextIndex(pool))
  /\ Gets("string", HostOf(At(pool, NextIndex(pool))))
  /\ Gets("string", PortOf(At(pool, NextIndex(pool))))

\* The endpoint_host and endpoint_port a message is emitted with.
Destination(pool) ==
  IF Complete(pool)
  THEN [host |-> single[HostOf(At(pool, NextIndex(pool)))].data,
        port |-> single[PortOf(At(pool, NextIndex(pool)))].data]
  ELSE Unsent

\* Mutant: the index moves only when the message is emitted.
SelectWhenComplete(pool) ==
  lastSelection' = IF Complete(pool) THEN With(lastSelection, pool, NextIndex(pool)) ELSE lastSelection

Select(pool) ==
  lastSelection' = IF Selects(pool) THEN With(lastSelection, pool, NextIndex(pool)) ELSE lastSelection
=============================================================================
