-------------------------- MODULE Speculative_proofs --------------------------
(***************************************************************************)
(* Proofs about Speculative, for every vocabulary, target model, prompt,   *)
(* budget, k and pass limit, whatever the draft proposes, provided that    *)
(* the passes fit the target's block.                                      *)
(***************************************************************************)
EXTENDS Speculative, TLAPS

-----------------------------------------------------------------------------
(* Sequences. *)

LEMMA PrefixOfJoin ==
    ASSUME NEW S, NEW o \in Seq(S), NEW d \in Seq(S)
    PROVE  SubSeq(o \o d, 1, Len(o)) = o
OBVIOUS

LEMMA PrefixOfAppend ==
    ASSUME NEW S, NEW o \in Seq(S), NEW t \in S, NEW n \in 0..Len(o)
    PROVE  SubSeq(Append(o, t), 1, n) = SubSeq(o, 1, n)
OBVIOUS

LEMMA LongerPrefix ==
    ASSUME NEW S, NEW s \in Seq(S), NEW n \in Nat, n < Len(s)
    PROVE  Append(SubSeq(s, 1, n), s[n + 1]) = SubSeq(s, 1, n + 1)
OBVIOUS

-----------------------------------------------------------------------------
(* The decoded prefix grows by one choice of the target at a time.         *)

LEMMA OneMoreChoice ==
    ASSUME NEW p \in Seq(Token), NEW o \in Seq(Token), NEW o2,
           prompt = p, prompt' = p, out = o, out' = o2,
           GreedyPrefix, Target(o) \in Token, o2 = Append(o, Target(o))
    PROVE  GreedyPrefix'
<1>1. Len(o2) = Len(o) + 1
  OBVIOUS
<1>2. ASSUME NEW n \in 1..Len(p) PROVE o2[n] = p[n]
  BY DEF GreedyPrefix
<1>3. ASSUME NEW n \in Len(p)+1..Len(o2) PROVE o2[n] = Target(SubSeq(o2, 1, n - 1))
  <2>1. SubSeq(o2, 1, n - 1) = SubSeq(o, 1, n - 1)
    BY <1>1, PrefixOfAppend
  <2>2. CASE n = Len(o) + 1
    <3>1. SubSeq(o, 1, Len(o)) = o
      OBVIOUS
    <3>2. o2[n] = Target(o) /\ n - 1 = Len(o)
      BY <2>2
    <3>. QED
      BY <2>1, <3>1, <3>2
  <2>3. CASE n <= Len(o)
    <3>1. n \in 1..Len(o) /\ n \in Len(p)+1..Len(o)
      BY <2>3
    <3>2. o2[n] = o[n]
      BY <3>1
    <3>3. o[n] = Target(SubSeq(o, 1, n - 1))
      BY <3>1 DEF GreedyPrefix
    <3>. QED
      BY <2>1, <3>2, <3>3
  <2>. QED
    BY <1>1, <2>2, <2>3
<1>. QED
  BY <1>1, <1>2, <1>3 DEF GreedyPrefix

-----------------------------------------------------------------------------
(* The inductive invariant.  During a verification the pass holds what was *)
(* decoded, followed by the draft tokens still to be checked, and each row *)
(* from the one in hand on is the target's choice after a prefix of it.    *)

StateOK ==
    /\ prompt \in Prompts /\ budget \in Budgets /\ k \in Ks
    /\ out \in Seq(Token)
    /\ pc \in {"round", "verify", "done"}
    /\ draft \in Seq(Token)
    /\ concat \in Seq(Token)
    /\ logits \in Seq(Token)
    /\ base \in Nat /\ i \in Nat /\ calls \in Nat
    /\ Len(out) <= Goal

Pass ==
    pc = "verify" =>
      /\ base + i = Len(out)
      /\ Len(out) < Goal
      /\ i <= Len(draft)
      /\ draft # <<>>
      /\ Len(concat) = base + Len(draft)
      /\ Len(logits) = Len(concat)
      /\ Len(concat) <= BlockSize
      /\ SubSeq(concat, 1, base + i) = out
      /\ \A j \in 1..Len(draft) : concat[base + j] = draft[j]
      /\ \A r \in 1..Len(logits) : logits[r] = Target(SubSeq(concat, 1, r))

IInv == StateOK /\ Pass /\ GreedyPrefix

LEMMA TargetInToken ==
    ASSUME StateOK, Len(out) <= Goal
    PROVE  Target(out) \in Token
<1>1. out \in [1..Len(out) -> Token] /\ Len(out) \in 0..Len(prompt) + budget
  BY SpeculativeAssumption DEF SpeculativeAssumption, StateOK, Goal
<1>. QED
  BY <1>1, SpeculativeAssumption DEF SpeculativeAssumption, StateOK

LEMMA GoalIsNat == ASSUME StateOK PROVE Goal \in Nat /\ prompt \in Seq(Token)
BY SpeculativeAssumption DEF SpeculativeAssumption, StateOK, Goal

\* The row in hand is the target's choice for what was decoded so far.
LEMMA PredictionIsGreedy ==
    ASSUME StateOK, Pass, pc = "verify", base + i > 0
    PROVE  Prediction = Target(out)
<1>1. base + i \in 1..Len(logits)
  BY DEF StateOK, Pass
<1>2. logits[base + i] = Target(SubSeq(concat, 1, base + i))
  BY <1>1 DEF Pass
<1>3. SubSeq(concat, 1, base + i) = out
  BY DEF Pass
<1>. QED
  BY <1>2, <1>3 DEF Prediction

\* What the trim of a proposal keeps.
LEMMA TrimmedFits ==
    ASSUME StateOK, NEW d \in Proposals
    PROVE  /\ Trimmed(d) \in Seq(Token)
           /\ Len(Trimmed(d)) <= Len(d)
           /\ Trimmed(d) # <<>> => Len(out) + Len(Trimmed(d)) <= MaxConcat
           /\ Len(out) < Goal => Len(out) + Len(d) <= Goal
<1>1. Goal \in Nat /\ MaxConcat \in Nat /\ k \in Nat /\ Len(out) \in Nat
  BY GoalIsNat, SpeculativeAssumption DEF SpeculativeAssumption, StateOK
<1>2. Smaller(k, Goal - Len(out)) <= Goal - Len(out)
  BY <1>1 DEF Smaller
<1>3. Len(out) <= Goal => Smaller(k, Goal - Len(out)) \in Nat
  BY <1>1 DEF Smaller
<1>4. d \in Seq(Token) /\ Len(d) = Smaller(k, Goal - Len(out))
  BY <1>3 DEF Proposals, StateOK
<1>5. CASE Len(out) + Len(d) <= MaxConcat
  BY <1>1, <1>2, <1>3, <1>4, <1>5 DEF Trimmed
<1>6. CASE Len(out) + Len(d) > MaxConcat /\ Len(out) >= MaxConcat
  <2>1. Trimmed(d) = SubSeq(d, 1, 0)
    BY <1>1, <1>4, <1>6 DEF Trimmed
  <2>2. SubSeq(d, 1, 0) = <<>>
    BY <1>4
  <2>. QED
    BY <2>1, <2>2, <1>1, <1>2, <1>3, <1>4
<1>7. CASE Len(out) + Len(d) > MaxConcat /\ Len(out) < MaxConcat
  <2>1. Trimmed(d) = SubSeq(d, 1, MaxConcat - Len(out))
    BY <1>1, <1>4, <1>7 DEF Trimmed
  <2>2. MaxConcat - Len(out) \in 0..Len(d)
    BY <1>1, <1>4, <1>7
  <2>3. Len(Trimmed(d)) = MaxConcat - Len(out) /\ Trimmed(d) \in Seq(Token)
    BY <2>1, <2>2, <1>4
  <2>. QED
    BY <2>2, <2>3, <1>1, <1>2, <1>3, <1>4
<1>. QED
  BY <1>1, <1>4, <1>5, <1>6, <1>7

-----------------------------------------------------------------------------
(* Each step keeps the invariant.                                          *)

LEMMA StartsRight == Init => IInv
<1> SUFFICES ASSUME Init PROVE IInv
  OBVIOUS
<1>1. prompt \in Seq(Token) /\ budget \in Nat
  BY SpeculativeAssumption DEF SpeculativeAssumption, Init
<1>2. StateOK
  BY <1>1, SpeculativeAssumption DEF SpeculativeAssumption, Init, StateOK, Goal
<1>3. GreedyPrefix
  BY <1>1 DEF Init, GreedyPrefix
<1>. QED
  BY <1>2, <1>3 DEF Init, Pass, IInv

\* A step that appends the target's choice and leaves the verification.
LEMMA OneMoreRight ==
    ASSUME IInv, Len(out) < Goal, out' = Append(out, Target(out)),
           UNCHANGED args, pc' = "round",
           UNCHANGED <<draft, concat, logits, base, i>>, calls' \in Nat
    PROVE  IInv'
<1>1. prompt \in Seq(Token) /\ Goal \in Nat /\ Target(out) \in Token
  BY GoalIsNat, TargetInToken DEF IInv
<1>2. Goal' = Goal
  BY DEF Goal, args
<1>3. out' \in Seq(Token) /\ Len(out') = Len(out) + 1
  BY <1>1 DEF IInv, StateOK
<1>4. StateOK'
  BY <1>1, <1>2, <1>3 DEF IInv, StateOK, args
<1>5. GreedyPrefix'
  BY <1>1, OneMoreChoice DEF IInv, StateOK, args
<1>. QED
  BY <1>4, <1>5 DEF IInv, Pass

LEMMA RoundRight == ASSUME Fits, IInv, Round PROVE IInv'
<1> PICK d \in Proposals :
         IF Trimmed(d) = <<>>
         THEN /\ TargetStep
              /\ UNCHANGED <<args, pc, pass, i>>
         ELSE /\ draft' = Trimmed(d)
              /\ concat' = out \o Trimmed(d)
              /\ logits' \in Forward(concat')
              /\ base' = Len(out)
              /\ i' = 0
              /\ calls' = calls + 1
              /\ pc' = "verify"
              /\ UNCHANGED <<args, out>>
  BY DEF Round
<1>1. StateOK /\ pc = "round" /\ Len(out) < Goal
  BY DEF IInv, Round
<1>2. CASE Trimmed(d) = <<>>
  <2>1. calls' \in Nat /\ out' = Append(out, Target(out))
    BY <1>1, <1>2 DEF TargetStep, StateOK
  <2>. QED
    BY <1>1, <1>2, <2>1, OneMoreRight DEF pass
<1>3. CASE Trimmed(d) # <<>>
  <2> DEFINE t == Trimmed(d)
  <2>1. /\ t \in Seq(Token) /\ Len(t) <= Len(d)
        /\ Len(out) + Len(t) <= MaxConcat
        /\ Len(out) + Len(d) <= Goal
    BY <1>1, <1>3, TrimmedFits
  <2>2. d \in Seq(Token) /\ out \in Seq(Token) /\ Goal \in Nat
    <3>1. Goal \in Nat /\ k \in Nat /\ Len(out) \in Nat /\ out \in Seq(Token)
      BY <1>1, GoalIsNat, SpeculativeAssumption DEF SpeculativeAssumption, StateOK
    <3>2. Smaller(k, Goal - Len(out)) \in Nat
      BY <1>1, <3>1 DEF Smaller
    <3>. QED
      BY <3>1, <3>2 DEF Proposals
  <2>3. /\ draft' = t /\ concat' = out \o t /\ base' = Len(out) /\ i' = 0
        /\ calls' = calls + 1 /\ pc' = "verify" /\ out' = out
        /\ prompt' = prompt /\ budget' = budget /\ k' = k
        /\ logits' \in Forward(concat')
    BY <1>3 DEF args
  <2>4. /\ concat' \in Seq(Token) /\ Len(concat') = Len(out) + Len(t)
        /\ \A j \in 1..Len(t) : concat'[Len(out) + j] = t[j]
    BY <2>1, <2>2, <2>3
  <2>5. SubSeq(concat', 1, Len(out)) = out
    BY <2>1, <2>2, <2>3, PrefixOfJoin
  <2>6. Len(concat') <= BlockSize
    <3>1. prompt \in Prompts /\ budget \in Budgets /\ MaxConcat \in Nat /\ BlockSize \in Nat
      BY <1>1, SpeculativeAssumption DEF SpeculativeAssumption, StateOK
    <3>2. MaxConcat <= BlockSize \/ Goal <= BlockSize
      BY <3>1 DEF Fits, Goal
    <3>3. Len(t) \in Nat /\ Len(d) \in Nat /\ Len(out) \in Nat
      BY <2>1, <2>2
    <3>. QED
      BY <2>1, <2>2, <2>4, <3>1, <3>2, <3>3
  <2>7. /\ logits' \in Seq(Token) /\ Len(logits') = Len(concat')
        /\ \A r \in 1..Len(logits') : logits'[r] = Target(SubSeq(concat', 1, r))
    <3>1. logits' \in [1..Len(concat') -> Token]
      BY <2>3 DEF Forward
    <3>2. \A r \in 1..Len(concat') : r <= BlockSize => logits'[r] = Target(SubSeq(concat', 1, r))
      BY <2>3 DEF Forward
    <3>3. Len(concat') \in Nat /\ BlockSize \in Nat
      BY <2>4, SpeculativeAssumption DEF SpeculativeAssumption
    <3>4. logits' \in Seq(Token) /\ Len(logits') = Len(concat')
      BY <3>1, <3>3
    <3>. QED
      BY <3>2, <3>3, <3>4, <2>6
  <2>8. StateOK'
    BY <1>1, <2>1, <2>2, <2>3, <2>4, <2>7 DEF StateOK, Goal
  <2>9. Pass'
    <3>1. Len(out) + 0 = Len(out) /\ 0 <= Len(t)
      BY <2>1, <2>2
    <3>2. Goal' = Goal
      BY <2>3 DEF Goal
    <3>. QED
      BY <1>1, <1>3, <2>3, <2>4, <2>5, <2>6, <2>7, <3>1, <3>2 DEF Pass
  <2>. QED
    BY <2>3, <2>8, <2>9 DEF IInv, GreedyPrefix
<1>. QED
  BY <1>2, <1>3

LEMMA AcceptRight == ASSUME IInv, Accept PROVE IInv'
<1>1. /\ StateOK /\ Pass /\ pc = "verify" /\ base + i > 0 /\ i < Len(draft)
      /\ out' = Append(out, draft[i + 1]) /\ i' = i + 1
      /\ pc' \in {"round", "verify"} /\ (pc' = "verify" => Len(out') < Goal)
      /\ prompt' = prompt /\ budget' = budget /\ k' = k /\ calls' = calls
      /\ draft' = draft /\ concat' = concat /\ logits' = logits /\ base' = base
  <2>1. out' \in Seq(Token) /\ Goal \in Nat
    BY GoalIsNat DEF IInv, StateOK, Accept
  <2>. QED
    BY <2>1 DEF IInv, Accept, args, pass, Goal
<1>2. out' = Append(out, Target(out)) /\ Target(out) \in Token
  BY <1>1, PredictionIsGreedy, TargetInToken DEF Accept, StateOK
<1>3. Goal \in Nat /\ prompt \in Seq(Token) /\ Goal' = Goal
  BY <1>1, GoalIsNat DEF Goal
<1>4. out' \in Seq(Token) /\ Len(out') = Len(out) + 1 /\ Len(out) < Goal
  BY <1>1, <1>2 DEF StateOK, Pass
<1>5. StateOK'
  BY <1>1, <1>3, <1>4 DEF StateOK
<1>6. GreedyPrefix'
  BY <1>1, <1>2, <1>3, OneMoreChoice DEF IInv, StateOK
<1>7. SubSeq(concat, 1, base + i + 1) = out'
  <2>1. base + i \in Nat /\ base + i < Len(concat) /\ concat \in Seq(Token)
    BY <1>1 DEF StateOK, Pass
  <2>2. concat[base + i + 1] = draft[i + 1]
    BY <1>1 DEF StateOK, Pass
  <2>. QED
    BY <1>1, <2>1, <2>2, LongerPrefix DEF Pass
<1>8. Pass'
  BY <1>1, <1>3, <1>4, <1>7 DEF StateOK, Pass
<1>. QED
  BY <1>5, <1>6, <1>8 DEF IInv

LEMMA StepRight == ASSUME Fits, IInv, [Next]_vars PROVE IInv'
<1>1. CASE Round
  BY <1>1, RoundRight
<1>2. CASE VerifyFromNothing
  <2>1. Len(out) < Goal /\ calls' \in Nat
    BY <1>2 DEF IInv, StateOK, Pass, VerifyFromNothing, TargetStep
  <2>. QED
    BY <1>2, <2>1, OneMoreRight DEF VerifyFromNothing, TargetStep, pass
<1>3. CASE Accept
  BY <1>3, AcceptRight
<1>4. CASE Correct
  <2>1. Len(out) < Goal /\ calls' \in Nat /\ out' = Append(out, Target(out))
    BY <1>4, PredictionIsGreedy DEF IInv, StateOK, Pass, Correct
  <2>. QED
    BY <1>4, <2>1, OneMoreRight DEF Correct, pass
<1>5. CASE Bonus
  <2>1. Len(out) < Goal /\ calls' \in Nat /\ out' = Append(out, Target(out))
    BY <1>5, PredictionIsGreedy DEF IInv, StateOK, Pass, Bonus
  <2>. QED
    BY <1>5, <2>1, OneMoreRight DEF Bonus, pass
<1>6. CASE Finish
  <2>1. Goal \in Nat /\ out \in Seq(Token) /\ Len(out) = Goal
    BY <1>6, GoalIsNat DEF IInv, StateOK, Finish
  <2>2. out' = out
    BY <1>6, <2>1 DEF Finish
  <2>. QED
    BY <1>6, <2>2 DEF IInv, StateOK, Pass, GreedyPrefix, Finish, Goal, args, pass
<1>7. CASE UNCHANGED vars
  BY <1>7 DEF IInv, StateOK, Pass, GreedyPrefix, Goal, vars, args, pass
<1>. QED
  BY <1>1, <1>2, <1>3, <1>4, <1>5, <1>6, <1>7 DEF Next, Returned

(***************************************************************************)
(* Whatever the draft proposes and whatever k is, what the decoder has     *)
(* produced is, token for token, what the target alone would have produced *)
(* as long as no verification pass is longer than the target's block.      *)
(***************************************************************************)
THEOREM TokenForToken == ASSUME Fits PROVE Spec => []GreedyPrefix
<1>1. IInv => GreedyPrefix
  BY DEF IInv
<1>. QED
  BY <1>1, StartsRight, StepRight, PTL DEF Spec

(***************************************************************************)
(* No round overruns the budget, and no row is read that the pass does not *)
(* have: the final cut and the row checks of the code never act.           *)
(***************************************************************************)
THEOREM NeverOverruns == ASSUME Fits PROVE Spec => []WithinBudget
<1>1. IInv => WithinBudget
  BY DEF IInv, StateOK, Pass, WithinBudget
<1>. QED
  BY <1>1, StartsRight, StepRight, PTL DEF Spec

-----------------------------------------------------------------------------
(* The calls of the target.  The call an empty prompt costs is spent when  *)
(* the first token is decoded, and not before.                             *)

Unused(o) == IF prompt = <<>> /\ o # <<>> THEN 1 ELSE 0
Running == IF pc = "verify" /\ i = 0 THEN 1 ELSE 0
Thrift == calls <= Len(out) - Len(prompt) + Unused(out) + Running

LEMMA Longer ==
    ASSUME IInv, NEW t \in Token
    PROVE  /\ Len(Append(out, t)) = Len(out) + 1 /\ Append(out, t) # <<>>
           /\ Len(out) \in Nat /\ Len(prompt) \in Nat /\ calls \in Nat /\ i \in Nat
           /\ (Len(out) = 0 <=> out = <<>>) /\ (Len(prompt) = 0 <=> prompt = <<>>)
           /\ Len(prompt) <= Len(out)
<1>1. out \in Seq(Token) /\ prompt \in Seq(Token)
  BY GoalIsNat DEF IInv, StateOK
<1>2. Len(Append(out, t)) = Len(out) + 1
  BY <1>1
<1>3. Append(out, t) # <<>> /\ Len(out) \in Nat /\ Len(prompt) \in Nat
  BY <1>1, <1>2
<1>4. (Len(out) = 0 <=> out = <<>>) /\ (Len(prompt) = 0 <=> prompt = <<>>)
  BY <1>1
<1>5. calls \in Nat /\ i \in Nat /\ Len(prompt) <= Len(out)
  BY DEF IInv, StateOK, GreedyPrefix
<1>. QED
  BY <1>2, <1>3, <1>4, <1>5

\* A token kept while a row of the pass is in hand, or without a pass.
LEMMA KeptThrift ==
    ASSUME IInv, Thrift, UNCHANGED <<prompt, calls>>, NEW t \in Token,
           out' = Append(out, t), pc = "verify", base + i > 0,
           (pc' = "verify") => (i' > 0)
    PROVE  Thrift'
<1>1. Len(out) = base + i
  BY DEF IInv, Pass
<1>. QED
  BY <1>1, Longer DEF Thrift, Unused, Running

LEMMA CalledThrift ==
    ASSUME IInv, Thrift, prompt' = prompt, TargetStep, pc' = "round", Target(out) \in Token,
           (pc = "round") \/ (out = <<>>)
    PROVE  Thrift'
<1> DEFINE t == Target(out)
<1>1. /\ Len(Append(out, t)) = Len(out) + 1 /\ Append(out, t) # <<>>
      /\ Len(out) \in Nat /\ Len(prompt) \in Nat /\ calls \in Nat
      /\ (Len(out) = 0 <=> out = <<>>) /\ (Len(prompt) = 0 <=> prompt = <<>>)
      /\ Len(prompt) <= Len(out)
  BY Longer
<1>2. out' = Append(out, t) /\ calls' = calls + 1
  BY DEF TargetStep
<1> HIDE DEF t
<1>3. /\ Unused(out) = IF prompt = <<>> /\ out # <<>> THEN 1 ELSE 0
      /\ Unused(out)' = IF prompt = <<>> THEN 1 ELSE 0
      /\ out # <<>> => Running = 0
      /\ Running \in {0, 1} /\ Running' = 0
  BY <1>1, <1>2 DEF Unused, Running
<1>4. calls <= Len(out) - Len(prompt) + Unused(out) + Running
  BY DEF Thrift
<1>5. CASE out = <<>>
  BY <1>1, <1>2, <1>3, <1>4, <1>5 DEF Thrift
<1>6. CASE out # <<>>
  BY <1>1, <1>2, <1>3, <1>4, <1>6 DEF Thrift
<1>. QED
  BY <1>5, <1>6

LEMMA ThriftStep == ASSUME Fits, IInv, Thrift, [Next]_vars PROVE Thrift'
<1>0. /\ Target(out) \in Token /\ Len(prompt) \in Nat /\ Len(out) \in Nat
      /\ (Len(out) = 0 <=> out = <<>>)
  BY TargetInToken, Longer DEF IInv, StateOK
<1>1. CASE Round
  <2>1. pc = "round"
    BY <1>1 DEF Round
  <2>2. CASE TargetStep /\ UNCHANGED <<args, pc, pass, i>>
    BY <1>0, <2>1, <2>2, CalledThrift DEF args
  <2>3. CASE i' = 0 /\ calls' = calls + 1 /\ pc' = "verify" /\ UNCHANGED <<args, out>>
    BY <1>0, <2>1, <2>3, Longer DEF Thrift, Unused, Running, args
  <2>. QED
    BY <1>1, <2>2, <2>3 DEF Round
<1>2. CASE VerifyFromNothing
  <2>1. out = <<>>
    BY <1>0, <1>2 DEF VerifyFromNothing, IInv, Pass, StateOK
  <2>. QED
    BY <1>0, <1>2, <2>1, CalledThrift DEF VerifyFromNothing, args
<1>3. CASE Accept
  <2>1. draft[i + 1] \in Token /\ i \in Nat
    BY <1>3 DEF Accept, IInv, StateOK
  <2>. QED
    BY <1>3, <2>1, KeptThrift DEF Accept, args
<1>4. CASE Correct \/ Bonus
  <2>1. Prediction = Target(out)
    BY <1>4, PredictionIsGreedy DEF IInv, Correct, Bonus
  <2>. QED
    BY <1>0, <1>4, <2>1, KeptThrift DEF Correct, Bonus, args
<1>5. CASE Finish
  <2>1. Goal \in Nat /\ out \in Seq(Token) /\ Len(out) = Goal
    BY <1>5, GoalIsNat DEF IInv, StateOK, Finish
  <2>2. out' = out
    BY <1>5, <2>1 DEF Finish
  <2>. QED
    BY <1>5, <2>2 DEF Finish, Thrift, Unused, Running, args
<1>6. CASE UNCHANGED vars
  BY <1>6 DEF Thrift, Unused, Running, vars, args, pass
<1>. QED
  BY <1>1, <1>2, <1>3, <1>4, <1>5, <1>6 DEF Next, Returned

(***************************************************************************)
(* Every call of the target pays for a token, whatever the draft proposes; *)
(* only an empty prompt wastes one.                                        *)
(***************************************************************************)
THEOREM NeverDearer == ASSUME Fits PROVE Spec => []NoExtraCalls
<1>1. Init => Thrift
  <2> SUFFICES ASSUME Init PROVE Thrift
    OBVIOUS
  <2>1. prompt \in Seq(Token) /\ out = prompt /\ calls = 0 /\ pc = "round"
    BY SpeculativeAssumption DEF SpeculativeAssumption, Init
  <2>. QED
    BY <2>1 DEF Thrift, Unused, Running
<1>2. IInv /\ Thrift => NoExtraCalls
  <2> SUFFICES ASSUME IInv, Thrift PROVE NoExtraCalls
    OBVIOUS
  <2>1. Len(out) \in Nat /\ Len(prompt) \in Nat /\ calls \in Nat
    BY GoalIsNat DEF IInv, StateOK
  <2>2. /\ NoExtraCalls <=> calls <= Len(out) - Len(prompt) + Running
                                       + IF prompt = <<>> THEN 1 ELSE 0
        /\ Running \in {0, 1} /\ Unused(out) \in {0, 1}
        /\ Unused(out) = 1 => prompt = <<>>
    BY DEF NoExtraCalls, Running, Unused
  <2>3. CASE prompt = <<>>
    BY <2>1, <2>2, <2>3 DEF Thrift
  <2>4. CASE prompt # <<>>
    BY <2>1, <2>2, <2>4 DEF Thrift
  <2>. QED
    BY <2>3, <2>4
<1>. QED
  BY <1>1, <1>2, StartsRight, StepRight, ThriftStep, PTL DEF Spec

-----------------------------------------------------------------------------
(* The refinement: every step of the decoder is a step of greedy decoding  *)
(* or leaves out alone.                                                    *)

LEMMA StepIsGreedyStep ==
    ASSUME Fits, IInv, [Next]_vars
    PROVE  [Greedy!Next]_(Greedy!vars)
<1> USE DEF Greedy!Next, Greedy!Step, Greedy!vars, Greedy!Goal, Goal
<1>1. CASE Round
  BY <1>1 DEF Round, TargetStep, args
<1>2. CASE VerifyFromNothing
  BY <1>2 DEF IInv, Pass, VerifyFromNothing, TargetStep, args
<1>3. CASE Accept
  <2>1. out' = Append(out, Target(out)) /\ Len(out) < Goal
    BY <1>3, PredictionIsGreedy DEF IInv, Pass, Accept
  <2>. QED
    BY <1>3, <2>1 DEF Accept, args
<1>4. CASE Correct
  <2>1. out' = Append(out, Target(out)) /\ Len(out) < Goal
    BY <1>4, PredictionIsGreedy DEF IInv, Pass, Correct
  <2>. QED
    BY <1>4, <2>1 DEF Correct, args
<1>5. CASE Bonus
  <2>1. out' = Append(out, Target(out)) /\ Len(out) < Goal
    BY <1>5, PredictionIsGreedy DEF IInv, Pass, Bonus
  <2>. QED
    BY <1>5, <2>1 DEF Bonus, args
<1>6. CASE Finish
  <2>1. Goal \in Nat /\ out \in Seq(Token) /\ Len(out) = Goal
    BY <1>6, GoalIsNat DEF IInv, StateOK, Finish
  <2>2. out' = out
    BY <1>6, <2>1 DEF Finish
  <2>. QED
    BY <1>6, <2>2 DEF Finish, args
<1>7. CASE UNCHANGED vars
  BY <1>7 DEF vars, args
<1>. QED
  BY <1>1, <1>2, <1>3, <1>4, <1>5, <1>6, <1>7 DEF Next, Returned

(***************************************************************************)
(* Speculative decoding implements greedy decoding with the target alone   *)
(* (the safety part of IsGreedyDecode; its termination is left to TLC).    *)
(***************************************************************************)
THEOREM ImplementsGreedy ==
    ASSUME Fits
    PROVE  Spec => Greedy!Init /\ [][Greedy!Next]_(Greedy!vars)
<1>1. Init => Greedy!Init
  BY DEF Init, Greedy!Init
<1>. QED
  BY <1>1, StartsRight, StepRight, StepIsGreedyStep, PTL DEF Spec

=============================================================================
