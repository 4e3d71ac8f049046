------------------------------ MODULE MCGradient ------------------------------
(* A GPT of two layers, four channels, two heads and three tokens.             *)
EXTENDS Gradient

Config(mamba, rms, tied, rope) == [mamba |-> mamba, rms |-> rms, tied |-> tied, rope |-> rope]
MCConfigs == {Config(FALSE, FALSE, TRUE, FALSE), Config(FALSE, TRUE, FALSE, FALSE),
              Config(TRUE, TRUE, TRUE, FALSE), Config(TRUE, FALSE, FALSE, FALSE),
              Config(FALSE, FALSE, FALSE, TRUE), Config(TRUE, TRUE, FALSE, TRUE)}

\* tokens 4 and -1 are outside the vocabulary 0..2
MCBatches == {[kind |-> "train", tokens |-> <<2, 4, 1>>, targets |-> <<1, 2, -1>>, scale |-> 1],
              [kind |-> "distill", tokens |-> <<0, 2>>, targets |-> <<>>, scale |-> 1],
              [kind |-> "policy", tokens |-> <<-1, 1>>, targets |-> <<>>, scale |-> 1]}
===============================================================================
