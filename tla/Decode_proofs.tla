----------------------------- MODULE Decode_proofs -----------------------------
(***************************************************************************)
(* Proofs about Decode, for every vocabulary, model depth, block size,     *)
(* prompt and budget, provided that nothing is fed past the block.         *)
(***************************************************************************)
EXTENDS Decode, TLAPS

-----------------------------------------------------------------------------
(* The inductive invariant: the cursor is at the position being fed, and   *)
(* each layer holds the right row of every position fed to it so far.      *)

RowsRight(l, n) ==
    \A p \in 0..BlockSize-1 : p < n => rows[l][p] = RowOf(SubSeq(out, 1, p + 1))

StateOK ==
    /\ prompt \in Prompts /\ budget \in Budgets
    /\ out \in Seq(Token)
    /\ Len(prompt) <= Len(out) /\ Len(out) <= Goal
    /\ pc \in {"feed", "blocks", "sample", "done"}
    /\ pos \in Nat /\ layer \in 0..NLayers /\ len \in 0..BlockSize
    /\ rows \in [Layers -> [0..BlockSize-1 -> {Wrong, Zeros} \cup {RowOf(s) : s \in Seq(Token)}]]

\* A position fed is one of the prompt's, before any token was decoded, or
\* that of the last token decoded.
Feeding ==
    /\ pos < Len(out) /\ pos <= BlockSize /\ len = pos
    /\ pos + 1 = Len(out) \/ Len(out) = Len(prompt)

Stage ==
    /\ pc = "feed" => Feeding /\ \A l \in Layers : RowsRight(l, pos)
    /\ pc = "blocks" =>
         /\ Feeding
         /\ right = TRUE
         /\ \A l \in Layers : l < layer => RowsRight(l, pos + 1)
         /\ \A l \in Layers : l >= layer => RowsRight(l, pos)
    /\ pc = "sample" =>
         /\ best = Target(out)
         /\ Len(out) < Goal => len = Len(out) /\ \A l \in Layers : RowsRight(l, Len(out))

IInv == StateOK /\ Stage

LEMMA Sizes ==
    ASSUME StateOK
    PROVE  /\ prompt \in Seq(Token) /\ budget \in Nat /\ Goal \in Nat
           /\ BlockSize \in Nat \ {0} /\ NLayers \in Nat
           /\ Goal = Len(prompt) + budget
           /\ Fits => Goal <= BlockSize + 1
BY DecodeAssumption DEF DecodeAssumption, StateOK, Goal, Fits

LEMMA TargetInToken == ASSUME StateOK PROVE Target(out) \in Token
<1>1. out \in [1..Len(out) -> Token] /\ Len(out) \in 0..Len(prompt) + budget
  BY Sizes DEF StateOK
<1>. QED
  BY <1>1, DecodeAssumption DEF DecodeAssumption, StateOK

LEMMA WholeSeq == ASSUME NEW S, NEW s \in Seq(S) PROVE SubSeq(s, 1, Len(s)) = s
OBVIOUS

LEMMA PrefixOfAppend ==
    ASSUME NEW S, NEW s \in Seq(S), NEW t \in S, NEW n \in 0..Len(s)
    PROVE  SubSeq(Append(s, t), 1, n) = SubSeq(s, 1, n)
OBVIOUS

LEMMA StartsRight == ASSUME Fits, Init PROVE IInv
<1>1. prompt \in Seq(Token) /\ budget \in Nat /\ BlockSize \in Nat \ {0} /\ NLayers \in Nat
  BY DecodeAssumption DEF DecodeAssumption, Init
<1>2. StateOK
  <2>1. rows \in [Layers -> [0..BlockSize-1 -> {Wrong, Zeros} \cup {RowOf(s) : s \in Seq(Token)}]]
    BY DEF Init
  <2>. QED
    BY <1>1, <2>1 DEF Init, StateOK, Goal
<1>3. \A l \in Layers : RowsRight(l, 0)
  BY <1>1 DEF RowsRight
<1>4. CASE prompt = <<>>
  <2>1. out = <<>> /\ Len(out) = 0 /\ pc = "sample" /\ len = 0 /\ best = Target(<<>>)
    BY <1>4 DEF Init
  <2>2. \A l \in Layers : RowsRight(l, Len(out))
    BY <1>3, <2>1
  <2>3. best = Target(out)
    BY <2>1
  <2>4. len = Len(out) /\ ~(pc = "feed") /\ ~(pc = "blocks")
    BY <2>1
  <2>. QED
    BY <1>2, <2>2, <2>3, <2>4 DEF IInv, Stage
<1>5. CASE prompt # <<>>
  <2>1. Len(prompt) > 0
    BY <1>1, <1>5
  <2>2. Feeding
    BY <1>1, <2>1 DEF Init, Feeding
  <2>3. pc = "feed" /\ pos = 0
    BY <1>5 DEF Init
  <2>4. \A l \in Layers : RowsRight(l, pos)
    BY <1>3, <2>3
  <2>5. ~(pc = "blocks") /\ ~(pc = "sample")
    BY <2>3
  <2>. QED
    BY <1>2, <2>2, <2>4, <2>5 DEF IInv, Stage
<1>. QED
  BY <1>2, <1>4, <1>5 DEF IInv, Init

\* What a block attends to, as long as the cursor and the rows are right.
LEMMA AttendsRight ==
    ASSUME IInv, pc = "blocks", layer < NLayers
    PROVE  AllRight(Attended(layer)) /\ Len(Attended(layer)) = pos + 1
<1>1. /\ pos \in Nat /\ len = pos /\ pos <= BlockSize /\ BlockSize \in Nat /\ right = TRUE
      /\ layer \in Layers
  BY Sizes DEF IInv, StateOK, Stage, Feeding, Layers
<1>2. RowsRight(layer, pos)
  BY <1>1 DEF IInv, Stage, Layers
<1>3. Len(Attended(layer)) = pos + 1
  BY <1>1 DEF Attended
<1>4. ASSUME NEW p \in 1..pos+1 PROVE Attended(layer)[p] = RowOf(SubSeq(out, 1, p))
  <2>1. CASE p = pos + 1
    BY <1>1, <2>1 DEF Attended, Own
  <2>2. CASE p <= pos
    <3>1. p - 1 \in 0..BlockSize-1 /\ p - 1 < pos /\ (p - 1) + 1 = p
      BY <1>1, <2>2
    <3>2. rows[layer][p - 1] = RowOf(SubSeq(out, 1, p))
      BY <1>2, <3>1 DEF RowsRight
    <3>3. Smaller(len, BlockSize) = pos
      BY <1>1 DEF Smaller
    <3>4. Attended(layer)[p] = rows[layer][p - 1]
      BY <1>1, <2>2, <3>3 DEF Attended
    <3>. QED
      BY <3>2, <3>4
  <2>. QED
    BY <1>1, <2>1, <2>2
<1>. QED
  BY <1>3, <1>4 DEF AllRight

LEMMA BlockRight == ASSUME Fits, IInv, Block PROVE IInv'
<1>1. /\ StateOK /\ Feeding /\ pc = "blocks" /\ layer < NLayers
      /\ right = TRUE /\ layer \in Layers
      /\ pos \in Nat /\ BlockSize \in Nat \ {0} /\ NLayers \in Nat
  BY Sizes DEF IInv, StateOK, Stage, Block, Layers
<1>2. Smaller(pos, BlockSize) = pos
  BY <1>1 DEF Feeding, Smaller
<1>3. /\ len' = pos /\ layer' = layer + 1 /\ pc' = pc /\ pos' = pos /\ out' = out
      /\ prompt' = prompt /\ budget' = budget
      /\ rows' = [rows EXCEPT ![layer] =
                    [p \in 0..BlockSize-1 |-> IF p = pos THEN Own ELSE @[p]]]
  BY <1>2 DEF Block, args
<1>4. right' = TRUE
  <2>1. seen' = Attended(layer) /\ right' = (right /\ AllRight(seen'))
    BY DEF Block
  <2>2. AllRight(Attended(layer))
    BY <1>1, AttendsRight
  <2>. QED
    BY <1>1, <2>1, <2>2 DEF AllRight
<1>5. Own = RowOf(SubSeq(out, 1, pos + 1)) /\ SubSeq(out, 1, pos + 1) \in Seq(Token)
  BY <1>1 DEF Own, StateOK, Feeding
<1>6. rows' \in [Layers -> [0..BlockSize-1 -> {Wrong, Zeros} \cup {RowOf(s) : s \in Seq(Token)}]]
  BY <1>1, <1>3, <1>5 DEF StateOK
<1>7. StateOK'
  BY <1>1, <1>3, <1>6 DEF StateOK, Goal, Feeding
<1>8. ASSUME NEW l \in Layers
      PROVE  /\ l < layer + 1 => RowsRight(l, pos + 1)'
             /\ l >= layer + 1 => RowsRight(l, pos)'
  <2>1. l \in Nat /\ layer \in Nat
    BY <1>1 DEF Layers
  <2>2. CASE l = layer
    <3>1. rows'[l] = [p \in 0..BlockSize-1 |-> IF p = pos THEN Own ELSE rows[l][p]]
      BY <1>1, <1>3, <2>2 DEF StateOK
    <3>2. RowsRight(l, pos)
      BY <1>1, <2>1, <2>2 DEF IInv, Stage
    <3>3. ASSUME NEW p \in 0..BlockSize-1, p < pos + 1
          PROVE  rows'[l][p] = RowOf(SubSeq(out, 1, p + 1))
      BY <1>1, <1>5, <3>1, <3>2, <3>3 DEF RowsRight
    <3>4. RowsRight(l, pos + 1)'
      BY <1>3, <3>3 DEF RowsRight
    <3>. QED
      BY <2>1, <2>2, <3>4
  <2>3. CASE l < layer
    <3>1. rows'[l] = rows[l] /\ RowsRight(l, pos + 1)
      BY <1>1, <1>3, <2>1, <2>3 DEF StateOK, IInv, Stage
    <3>2. RowsRight(l, pos + 1)'
      BY <1>3, <3>1 DEF RowsRight
    <3>. QED
      BY <2>1, <2>3, <3>2
  <2>4. CASE l > layer
    <3>1. rows'[l] = rows[l] /\ RowsRight(l, pos)
      BY <1>1, <1>3, <2>1, <2>4 DEF StateOK, IInv, Stage
    <3>2. RowsRight(l, pos)'
      BY <1>3, <3>1 DEF RowsRight
    <3>. QED
      BY <2>1, <2>4, <3>2
  <2>. QED
    BY <2>1, <2>2, <2>3, <2>4
<1>9. Feeding'
  BY <1>1, <1>3 DEF Feeding
<1>. QED
  BY <1>1, <1>3, <1>4, <1>7, <1>8, <1>9 DEF IInv, Stage

LEMMA EmbedRight == ASSUME IInv, Embed PROVE IInv'
<1>1. /\ StateOK /\ Feeding /\ \A l \in Layers : RowsRight(l, pos)
      /\ pc' = "blocks" /\ layer' = 0 /\ right' = TRUE /\ NLayers \in Nat
      /\ prompt' = prompt /\ budget' = budget /\ out' = out /\ pos' = pos
      /\ rows' = rows /\ len' = len
  BY Sizes DEF IInv, Stage, Embed, args
<1>2. StateOK'
  BY <1>1 DEF StateOK, Goal
<1>3. Feeding'
  BY <1>1 DEF Feeding
<1>4. \A l \in Layers : RowsRight(l, pos)'
  BY <1>1 DEF RowsRight
<1>5. \A l \in Layers : ~(l < 0)
  BY <1>1 DEF Layers
<1>. QED
  BY <1>1, <1>2, <1>3, <1>4, <1>5 DEF IInv, Stage

LEMMA LogitsRight == ASSUME Fits, IInv, Logits PROVE IInv'
<1>1. /\ StateOK /\ Feeding /\ right = TRUE /\ pc = "blocks" /\ layer = NLayers
      /\ prompt' = prompt /\ budget' = budget /\ out' = out /\ rows' = rows /\ layer' = layer
      /\ len' = Smaller(len + 1, BlockSize)
      /\ best' = Target(SubSeq(out, 1, pos + 1))
  BY DEF IInv, Stage, Logits, args
<1>2. /\ prompt \in Seq(Token) /\ budget \in Nat /\ Goal \in Nat /\ Goal <= BlockSize + 1
      /\ BlockSize \in Nat \ {0} /\ NLayers \in Nat /\ Goal = Len(prompt) + budget
      /\ pos \in Nat /\ out \in Seq(Token) /\ Len(out) \in Nat /\ Len(prompt) \in Nat
      /\ Len(prompt) <= Len(out) /\ Len(out) <= Goal
  BY <1>1, Sizes DEF StateOK
<1>3. \A l \in Layers : RowsRight(l, pos + 1)
  BY <1>1, <1>2 DEF IInv, Stage, Layers
<1>4. len' \in 0..BlockSize /\ (pos + 1 <= BlockSize => len' = pos + 1)
  BY <1>1, <1>2 DEF Feeding, Smaller
<1>5. CASE pos + 1 < Len(prompt)
  <2>1. pos' = pos + 1 /\ pc' = "feed"
    BY <1>5 DEF Logits
  <2>2. StateOK'
    BY <1>1, <1>2, <1>4, <2>1 DEF StateOK, Goal
  <2>3. Feeding'
    <3>1. pos + 1 < Len(out) /\ pos + 1 <= BlockSize /\ Len(out) = Len(prompt)
      BY <1>1, <1>2, <1>5 DEF Feeding
    <3>. QED
      BY <1>1, <1>2, <1>4, <2>1, <3>1 DEF Feeding
  <2>4. \A l \in Layers : RowsRight(l, pos)'
    BY <1>1, <1>3, <2>1 DEF RowsRight
  <2>. QED
    BY <2>1, <2>2, <2>3, <2>4 DEF IInv, Stage
<1>6. CASE ~(pos + 1 < Len(prompt))
  <2>1. pos' = pos /\ pc' = "sample"
    BY <1>6 DEF Logits
  <2>2. StateOK'
    BY <1>1, <1>2, <1>4, <2>1 DEF StateOK, Goal
  <2>3. pos + 1 = Len(out)
    BY <1>1, <1>2, <1>6 DEF Feeding
  <2>4. best' = Target(out')
    BY <1>1, <1>2, <2>3, WholeSeq
  <2>5. Len(out) < Goal => len' = Len(out)
    BY <1>2, <1>4, <2>3
  <2>6. \A l \in Layers : RowsRight(l, Len(out))'
    BY <1>1, <1>3, <2>3 DEF RowsRight
  <2>7. Goal' = Goal
    BY <1>1 DEF Goal
  <2>. QED
    BY <1>1, <2>1, <2>2, <2>4, <2>5, <2>6, <2>7 DEF IInv, Stage
<1>. QED
  BY <1>5, <1>6

LEMMA SampleRight == ASSUME Fits, IInv, Sample PROVE IInv'
<1>1. /\ StateOK /\ pc = "sample" /\ Len(out) < Goal /\ out' = Append(out, Target(out))
      /\ prompt' = prompt /\ budget' = budget /\ rows' = rows /\ len' = len /\ layer' = layer
      /\ len = Len(out) /\ \A l \in Layers : RowsRight(l, Len(out))
  BY DEF IInv, Stage, Sample, args
<1>2. /\ prompt \in Seq(Token) /\ Goal \in Nat /\ Goal <= BlockSize + 1 /\ BlockSize \in Nat \ {0}
      /\ out \in Seq(Token) /\ Target(out) \in Token /\ Len(out) \in Nat /\ pos \in Nat
      /\ Len(prompt) \in Nat /\ Len(prompt) <= Len(out)
  BY <1>1, Sizes, TargetInToken DEF StateOK
<1>3. out' \in Seq(Token) /\ Len(out') = Len(out) + 1
  BY <1>1, <1>2
<1>4. Goal' = Goal
  BY <1>1 DEF Goal
<1>5. /\ pc' \in {"feed", "done"} /\ pos' \in Nat
      /\ pc' = "feed" => pos' = Len(out) /\ Len(out') # Goal
  BY <1>1, <1>2 DEF Sample
<1>6. StateOK'
  BY <1>1, <1>2, <1>3, <1>4, <1>5 DEF StateOK
<1>7. pc' = "feed" => Feeding'
  BY <1>1, <1>2, <1>3, <1>5 DEF Feeding
<1>8. ASSUME NEW l \in Layers, pc' = "feed" PROVE RowsRight(l, pos)'
  <2>1. ASSUME NEW p \in 0..BlockSize-1, p < Len(out)
        PROVE  rows'[l][p] = RowOf(SubSeq(out', 1, p + 1))
    <3>1. rows[l][p] = RowOf(SubSeq(out, 1, p + 1))
      BY <1>1, <2>1 DEF RowsRight
    <3>2. SubSeq(out', 1, p + 1) = SubSeq(out, 1, p + 1)
      BY <1>1, <1>2, <2>1, PrefixOfAppend
    <3>. QED
      BY <1>1, <3>1, <3>2
  <2>. QED
    BY <1>5, <1>8, <2>1 DEF RowsRight
<1>. QED
  BY <1>5, <1>6, <1>7, <1>8 DEF IInv, Stage

LEMMA StepRight == ASSUME Fits, IInv, [Next]_vars PROVE IInv'
<1>1. CASE Embed
  BY <1>1, EmbedRight
<1>2. CASE Block
  BY <1>2, BlockRight
<1>3. CASE Logits
  BY <1>3, LogitsRight
<1>4. CASE Sample
  BY <1>4, SampleRight
<1>5. CASE NothingToSample
  BY <1>5 DEF NothingToSample, IInv, StateOK, Stage, Goal, args
<1>6. CASE UNCHANGED vars
  BY <1>6 DEF IInv, StateOK, Stage, Feeding, RowsRight, Goal, vars, args
<1>. QED
  BY <1>1, <1>2, <1>3, <1>4, <1>5, <1>6 DEF Next, Returned

LEMMA StepIsGreedyStep ==
    ASSUME IInv, [Next]_vars PROVE [Greedy!Next]_(Greedy!vars)
<1> USE DEF Greedy!Next, Greedy!Step, Greedy!vars, Greedy!Goal, Goal
<1>1. CASE Sample
  BY <1>1 DEF Sample, IInv, Stage, args
<1>2. CASE Embed \/ Block \/ Logits \/ NothingToSample
  BY <1>2 DEF Embed, Block, Logits, NothingToSample, args
<1>3. CASE UNCHANGED vars
  BY <1>3 DEF vars, args
<1>. QED
  BY <1>1, <1>2, <1>3 DEF Next, Returned

(***************************************************************************)
(* Decoding with a cache of BlockSize rows, one cursor for all layers and  *)
(* rows computed once and never again appends exactly the tokens full      *)
(* forward passes would (the safety part of IsGreedyDecode).               *)
(***************************************************************************)
THEOREM ImplementsGreedy ==
    ASSUME Fits
    PROVE  Spec => Greedy!Init /\ [][Greedy!Next]_(Greedy!vars)
<1>1. Init => Greedy!Init
  BY DEF Init, Greedy!Init
<1>. QED
  BY <1>1, StartsRight, StepRight, StepIsGreedyStep, PTL DEF Spec


LEMMA SeenRight == ASSUME IInv, SeesPrefix, [Next]_vars PROVE SeesPrefix'
<1>1. CASE Block
  <2>1. /\ pc = "blocks" /\ layer < NLayers /\ seen' = Attended(layer)
        /\ out' = out /\ pos' = pos
    BY <1>1 DEF Block
  <2>2. Len(seen') = pos + 1 /\ AllRight(Attended(layer))
    BY <2>1, AttendsRight
  <2>. QED
    BY <2>1, <2>2 DEF SeesPrefix, AllRight
<1>2. CASE Embed
  BY <1>2 DEF Embed, SeesPrefix
<1>3. CASE Logits \/ Sample \/ NothingToSample
  BY <1>3 DEF Logits, Sample, NothingToSample, SeesPrefix
<1>4. CASE UNCHANGED vars
  BY <1>4 DEF vars, args, SeesPrefix, AllRight
<1>. QED
  BY <1>1, <1>2, <1>3, <1>4 DEF Next, Returned

(***************************************************************************)
(* Every block attends to exactly the rows of the positions up to its own, *)
(* each computed from the tokens before it.                                *)
(***************************************************************************)
THEOREM SeesWholePrefix == ASSUME Fits PROVE Spec => []SeesPrefix
<1>1. Init => SeesPrefix
  BY DEF Init, SeesPrefix
<1>. QED
  BY <1>1, StartsRight, StepRight, SeenRight, PTL DEF Spec

=============================================================================
