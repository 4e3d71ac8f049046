------------------------------ MODULE DataLoader ------------------------------
(***************************************************************************)
(* The sequential DataLoader of src/src/dataset.cpp, without shuffling: a  *)
(* dataset of Size tokens is cut into batches of BatchSize, named here by  *)
(* the index of their first token, and handed out one by one in the order  *)
(* of the file.  It is the contract PrefetchLoader is shown to implement   *)
(* (module Prefetch).                                                      *)
(***************************************************************************)
EXTENDS Naturals, Sequences

CONSTANTS
    Size,       \* ds_.size(): tokens of the dataset
    BatchSize   \* batch_size_

VARIABLES
    cursor,   \* cursor_: how many batches were handed out
    given,    \* the batches handed out
    ended     \* next_batch has returned an empty batch

vars == <<cursor, given, ended>>

-----------------------------------------------------------------------------
\* build_order without shuffle_
NumBatches == (Size + BatchSize - 1) \div BatchSize

order == [i \in 1..NumBatches |-> (i - 1) * BatchSize]

Init == /\ cursor = 0
        /\ given = <<>>
        /\ ended = FALSE

NextBatch ==
    /\ cursor < Len(order)
    /\ given' = Append(given, order[cursor + 1])
    /\ cursor' = cursor + 1
    /\ UNCHANGED ended

NextEmpty ==
    /\ cursor >= Len(order)
    /\ ended' = TRUE
    /\ UNCHANGED <<cursor, given>>

Next == NextBatch \/ NextEmpty

Spec == Init /\ [][Next]_vars
=============================================================================
