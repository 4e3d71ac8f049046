------------------------------- MODULE MCDecode -------------------------------
(* Decode on a vocabulary of two tokens; prompt and budget together reach  *)
(* one token past the block, the most that is decoded within it.           *)
EXTENDS Decode, FiniteSetsExt

MCToken == {0, 1}

MCTarget(s) ==
    (Len(s) + MapThenSumSet(LAMBDA n : n * s[n], 1..Len(s))) \div 2 % 2

MCPrompts == {<<>>, <<1>>, <<0, 1>>, <<1, 1, 0>>}

MCBudgets == 0..3
=============================================================================
