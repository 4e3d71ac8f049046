------------------------------ MODULE Speculative ------------------------------
(***************************************************************************)
(* SpeculativeDecoder::generate of src/src/speculative.cpp.  In each round *)
(* a draft model proposes up to k tokens, one forward pass of the target   *)
(* scores all of them, and the decoder keeps the longest prefix the target *)
(* would have chosen, one correction, or a bonus token when all is kept.   *)
(* The draft may propose anything: what it computes is left open.          *)
(***************************************************************************)
EXTENDS Naturals, Sequences

CONSTANTS
    Token,      \* the vocabulary
    Target(_),  \* the token the target model ranks first after a sequence
    Prompts,    \* the values of the argument prompt
    Budgets,    \* the values of the argument max_tokens
    Ks,         \* the values of k_
    MaxConcat,  \* the literal 4096 that bounds a verification pass
    BlockSize   \* the target's config_.block_size

ASSUME SpeculativeAssumption ==
    /\ \A p \in Prompts : p \in Seq(Token)
    /\ Budgets \subseteq Nat
    /\ Ks \subseteq Nat
    /\ MaxConcat \in Nat
    /\ BlockSize \in Nat
    /\ \A p \in Prompts, b \in Budgets : \A n \in 0..Len(p) + b :
         \A s \in [1..n -> Token] : Target(s) \in Token

\* No pass the decoder can make is longer than the target's block.
Fits == \A p \in Prompts, b \in Budgets :
          MaxConcat <= BlockSize \/ Len(p) + b <= BlockSize

VARIABLES
    prompt,  \* the argument prompt
    budget,  \* the argument max_tokens (total_budget)
    k,       \* k_
    out,     \* out
    pc,      \* "round": at the head of the while loop; "verify"; "done"
    draft,   \* draft_tokens, after the trim
    concat,  \* concat: out and the proposal, the input of the pass
    logits,  \* logits.argmax of each row of the forward pass, from row 0
    base,    \* L = out.size() when the verification began
    i,       \* the loop counter of the verification
    calls    \* calls of the target model so far

args == <<prompt, budget, k>>
pass == <<draft, concat, logits, base>>
vars == <<args, out, pc, pass, i, calls>>

-----------------------------------------------------------------------------
Goal == Len(prompt) + budget

Smaller(a, b) == IF a <= b THEN a ELSE b

Init == /\ prompt \in Prompts
        /\ budget \in Budgets
        /\ k \in Ks
        /\ out = prompt
        /\ pc = "round"
        /\ draft = <<>>
        /\ concat = <<>>
        /\ logits = <<>>
        /\ base = Len(prompt)
        /\ i = 0
        /\ calls = 0

\* t = target_.generate(out, 1, 0, 0); out.push_back(t.back())
TargetStep == /\ out' = Append(out, Target(out))
              /\ calls' = calls + 1

\* draft_.generate(out, k_this, 0, 0): any tokens, but always as many.
Proposals == [1..Smaller(k, Goal - Len(out)) -> Token]

\* The trim of a proposal d that would make the pass longer than MaxConcat.
\* Written with the room left, excess >= draft_tokens.size() is no room.
Trimmed(d) == IF Len(out) + Len(d) <= MaxConcat THEN d
              ELSE SubSeq(d, 1, IF Len(out) >= MaxConcat THEN 0
                                ELSE MaxConcat - Len(out))

\* Row r (from 1) of target_.forward(s): the target's choice after s[1..r].
\* Past the block size forward reads wpe_ out of range, any row comes out.
Forward(s) == {rows \in [1..Len(s) -> Token] :
                 \A r \in 1..Len(s) :
                   r <= BlockSize => rows[r] = Target(SubSeq(s, 1, r))}

Round ==
    /\ pc = "round"
    /\ Len(out) < Goal
    /\ \E d \in Proposals :
         IF Trimmed(d) = <<>>
         THEN /\ TargetStep
              /\ UNCHANGED <<args, pc, pass, i>>
         ELSE /\ draft' = Trimmed(d)
              /\ concat' = out \o Trimmed(d)
              /\ logits' \in Forward(concat')
              /\ base' = Len(out)
              /\ i' = 0
              /\ calls' = calls + 1
              /\ pc' = "verify"
              /\ UNCHANGED <<args, out>>

\* The prediction for draft token i (from 0): row base + i - 1 of the pass.
Prediction == logits[base + i]

\* An empty prompt has no row before the first draft token.
VerifyFromNothing ==
    /\ pc = "verify" /\ base = 0 /\ i = 0
    /\ TargetStep
    /\ pc' = "round"
    /\ UNCHANGED <<args, pass, i>>

\* A match is kept; the loop ends when the budget is spent.
Accept ==
    /\ pc = "verify" /\ base + i > 0 /\ i < Len(draft)
    /\ Prediction = draft[i + 1]
    /\ out' = Append(out, draft[i + 1])
    /\ i' = i + 1
    /\ pc' = IF Len(out') >= Goal THEN "round" ELSE "verify"
    /\ UNCHANGED <<args, pass, calls>>

\* Mutant: a mismatch ends the round and keeps nothing.
CorrectNothing ==
    /\ pc = "verify" /\ base + i > 0 /\ i < Len(draft)
    /\ Prediction # draft[i + 1]
    /\ pc' = "round"
    /\ UNCHANGED <<args, out, pass, i, calls>>

\* Mutant: the draft's token is kept where the target's correction belongs.
CorrectDraft ==
    /\ pc = "verify" /\ base + i > 0 /\ i < Len(draft)
    /\ Prediction # draft[i + 1]
    /\ out' = Append(out, draft[i + 1])
    /\ pc' = "round"
    /\ UNCHANGED <<args, pass, i, calls>>

\* A mismatch is replaced by the target's own choice and ends the round.
Correct ==
    /\ pc = "verify" /\ base + i > 0 /\ i < Len(draft)
    /\ Prediction # draft[i + 1]
    /\ out' = Append(out, Prediction)
    /\ pc' = "round"
    /\ UNCHANGED <<args, pass, i, calls>>

\* Every draft token was kept and budget is left (Accept ends the round
\* otherwise): the last row of the pass gives one more.
Bonus ==
    /\ pc = "verify" /\ base + i > 0 /\ i = Len(draft)
    /\ out' = Append(out, Prediction)
    /\ pc' = "round"
    /\ UNCHANGED <<args, pass, i, calls>>

\* The loop ends; out is cut back to the budget.
Finish ==
    /\ pc = "round"
    /\ Len(out) >= Goal
    /\ out' = SubSeq(out, 1, Goal)
    /\ pc' = "done"
    /\ UNCHANGED <<args, pass, i, calls>>

Returned == pc = "done" /\ UNCHANGED vars

Next == \/ Round \/ VerifyFromNothing \/ Accept \/ Correct \/ Bonus
        \/ Finish \/ Returned

Spec == Init /\ [][Next]_vars /\ WF_vars(Next)

-----------------------------------------------------------------------------
TypeOK ==
    /\ prompt \in Prompts /\ budget \in Budgets /\ k \in Ks
    /\ out \in Seq(Token)
    /\ pc \in {"round", "verify", "done"}
    /\ draft \in Seq(Token)
    /\ concat \in Seq(Token)
    /\ logits \in Seq(Token)
    /\ base \in Nat /\ i \in Nat /\ calls \in Nat

(***************************************************************************)
(* Token-for-token identical to target.generate(prompt, max_tokens, 0, 0), *)
(* as speculative.h promises: at any moment every token past the prompt is *)
(* the target's own choice after what precedes it, whatever the draft      *)
(* proposed, matched or not.                                               *)
(***************************************************************************)
GreedyPrefix ==
    /\ Len(out) >= Len(prompt)
    /\ \A n \in 1..Len(prompt) : out[n] = prompt[n]
    /\ \A n \in Len(prompt)+1..Len(out) : out[n] = Target(SubSeq(out, 1, n - 1))

(***************************************************************************)
(* No round runs past the budget: the corrections, bonus and fallback      *)
(* pushes of one round never add up to more than was asked for, so the     *)
(* final cut never discards a token, and the rows read from the forward    *)
(* pass exist.                                                             *)
(***************************************************************************)
WithinBudget ==
    /\ Len(out) <= Goal
    /\ pc = "verify" => /\ base + i = Len(out)
                        /\ base + i <= Len(logits)

(***************************************************************************)
(* Speculation never costs a call of the target more than plain decoding   *)
(* would: each round calls it once and yields at least one token.  Only an *)
(* empty prompt pays one call more, for the pass it cannot use.            *)
(***************************************************************************)
NoExtraCalls ==
    LET unused == IF prompt = <<>> THEN 1 ELSE 0
        running == IF pc = "verify" /\ i = 0 THEN 1 ELSE 0
    IN  calls <= Len(out) - Len(prompt) + running + unused

\* The decoder implements greedy decoding with the target model alone, its
\* termination included.
Greedy == INSTANCE GreedyDecode
IsGreedyDecode == Greedy!Spec
=============================================================================
