----------------------------- MODULE GreedyDecode -----------------------------
(***************************************************************************)
(* What a greedy decoder promises: starting from the prompt, it appends    *)
(* the token the target model ranks first for everything decoded so far,   *)
(* until the budget is spent.  Speculative and Decode are shown to         *)
(* implement it.                                                           *)
(***************************************************************************)
EXTENDS Naturals, Sequences

CONSTANTS
    Token,      \* the vocabulary
    Target(_),  \* the token the target model ranks first after a sequence
    Prompts,    \* the prompts a client may send
    Budgets     \* the values max_tokens may take

VARIABLES
    prompt,  \* the argument prompt
    budget,  \* the argument max_tokens
    out      \* the sequence decoded so far

vars == <<prompt, budget, out>>

Goal == Len(prompt) + budget

Init == /\ prompt \in Prompts
        /\ budget \in Budgets
        /\ out = prompt

Step == /\ Len(out) < Goal
        /\ out' = Append(out, Target(out))
        /\ UNCHANGED <<prompt, budget>>

Next == Step

Spec == Init /\ [][Next]_vars /\ WF_vars(Next)

=============================================================================
