---------------------------- MODULE MCSpeculative ----------------------------
(* Speculative on a vocabulary of two tokens; the target's choices depend  *)
(* on the whole sequence, so that a token in the wrong place shows.        *)
EXTENDS Speculative, FiniteSetsExt

MCToken == {0, 1}

MCTarget(s) ==
    (Len(s) + MapThenSumSet(LAMBDA n : n * s[n], 1..Len(s))) \div 2 % 2

MCPrompts == {<<>>, <<1>>, <<0, 1>>}

MCBudgets == 0..5

MCKs == 0..3
=============================================================================
