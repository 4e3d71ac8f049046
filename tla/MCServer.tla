------------------------------- MODULE MCServer -------------------------------
(* Small instances of Server. *)
EXTENDS Server, TLC

CONSTANTS k1, k2, k3

TwoConns == {k1, k2}
ThreeConns == {k1, k2, k3}
Symmetry == Permutations(Conns)
=============================================================================
