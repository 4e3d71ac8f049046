------------------------------ MODULE MCPrefetch ------------------------------
(* Small instances of Prefetch, and of the DataLoader it implements. *)
EXTENDS Prefetch

CONSTANTS c1, c2

OneConsumer == {c1}
TwoConsumers == {c1, c2}
=============================================================================
