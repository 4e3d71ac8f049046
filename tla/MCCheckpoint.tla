----------------------------- MODULE MCCheckpoint -----------------------------
(* An instance of Checkpoint.  Every field differs between two configurations  *)
(* that agree in the others: a file may meet a model of another size, head or  *)
(* kind of block.                                                              *)
EXTENDS Checkpoint

Kinds == {[vocab |-> 1, mamba |-> FALSE, tied |-> TRUE], [vocab |-> 1, mamba |-> FALSE, tied |-> FALSE],
          [vocab |-> 2, mamba |-> FALSE, tied |-> TRUE], [vocab |-> 1, mamba |-> TRUE, tied |-> TRUE]}
===============================================================================
