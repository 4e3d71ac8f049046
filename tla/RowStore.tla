------------------------------- MODULE RowStore -------------------------------
(***************************************************************************)
(* What KVCache promises a decoder, whatever its layout: each cache is a   *)
(* table of rows per layer, written at the cursor and cut at max_seq_len,  *)
(* and it is nobody else's.  This is the contiguous layout of              *)
(* src/src/kv_cache.cpp read literally (the transposed one differs in the  *)
(* order of its indices only); KVCache shows that the paged layout with a  *)
(* shared pool implements it.                                              *)
(***************************************************************************)
EXTENDS Naturals

CONSTANTS
    Caches,   \* KVCache objects
    Layers,   \* layer indices
    MaxLen,   \* max_seq_len_ of each cache
    Values,   \* contents a decoder stores in a row
    Zero      \* the content of a row that was filled with zeros

VARIABLES
    rows,  \* k_cache_[layer] (and v_cache_[layer]): row i of each layer
    len    \* cur_len_

vars == <<rows, len>>

-----------------------------------------------------------------------------
Positions(c) == 0..MaxLen[c]-1

Blank(c) == [l \in Layers |-> [p \in Positions(c) |-> Zero]]

Init == /\ rows = [c \in Caches |-> Blank(c)]
        /\ len = [c \in Caches |-> 0]

\* update(layer, k, v) with n rows of content x: those that fit are stored.
Update(c, l, n, x) ==
    /\ rows' = [rows EXCEPT ![c][l] =
                  [p \in Positions(c) |-> IF p \in len[c]..len[c]+n-1 THEN x ELSE @[p]]]
    /\ UNCHANGED len

\* advance(n): cur_len_ = min(cur_len_ + n, max_seq_len_).
Advance(c, n) ==
    /\ len' = [len EXCEPT ![c] = IF @ + n <= MaxLen[c] THEN @ + n ELSE MaxLen[c]]
    /\ UNCHANGED rows

SetSize(c, n) ==
    /\ len' = [len EXCEPT ![c] = n]
    /\ UNCHANGED rows

Clear(c) ==
    /\ rows' = [rows EXCEPT ![c] = Blank(c)]
    /\ len' = [len EXCEPT ![c] = 0]

\* evict(): the rows are given up, the length stays until clear().
Evict(c) ==
    /\ rows' = [rows EXCEPT ![c] = Blank(c)]
    /\ UNCHANGED len

Next == \E c \in Caches :
          \/ \E l \in Layers, n \in 1..MaxLen[c], x \in Values : Update(c, l, n, x)
          \/ \E n \in 0..MaxLen[c] : Advance(c, n) \/ SetSize(c, n)
          \/ Clear(c) \/ Evict(c)

Spec == Init /\ [][Next]_vars
=============================================================================
