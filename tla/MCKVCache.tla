------------------------------ MODULE MCKVCache ------------------------------
(* KVCache with two caches of different lengths on one pool: the first has *)
(* two pages, the second one of them partly used.  The names of the        *)
(* buffers mean nothing.                                                   *)
EXTENDS KVCache

CONSTANTS a, b

MCMaxLen == (a :> 3) @@ (b :> 1)

Symmetry == Permutations(Buffers)
=============================================================================
