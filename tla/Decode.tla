--------------------------------- MODULE Decode ---------------------------------
(***************************************************************************)
(* GPT::generate of src/src/model.cpp at temperature 0, on the transformer *)
(* path: a token is fed at its position through every block, each of which *)
(* attends to the rows cached for the positions before                     *)
(* (MultiHeadAttention::forward_incremental of src/src/attention.cpp), and *)
(* the cursor of the cache moves once per token.                           *)
(*                                                                         *)
(* A row is named by what it was computed from: the tokens up to its       *)
(* position.  A block's output is right if its input was and if it         *)
(* attended to the right row of every position up to its own; the logits   *)
(* of a wrong output may rank any token first.                             *)
(***************************************************************************)
EXTENDS Naturals, Sequences

CONSTANTS
    Token,      \* the vocabulary
    Target(_),  \* the token a full forward pass ranks first after a sequence
    Prompts,    \* the values of the argument prompt
    Budgets,    \* the values of the argument max_new_tokens
    NLayers,    \* config_.n_layers
    BlockSize   \* config_.block_size, the max_seq_len_ of the cache

ASSUME DecodeAssumption ==
    /\ \A p \in Prompts : p \in Seq(Token)
    /\ Budgets \subseteq Nat
    /\ NLayers \in Nat
    /\ BlockSize \in Nat \ {0}
    /\ \A p \in Prompts, b \in Budgets : \A n \in 0..Len(p) + b :
         \A s \in [1..n -> Token] : Target(s) \in Token

\* Nothing is fed past the block: the last token decoded never is.
Fits == \A p \in Prompts, b \in Budgets : Len(p) + b <= BlockSize + 1

VARIABLES
    prompt,  \* the argument prompt
    budget,  \* the argument max_new_tokens
    out,     \* out
    pc,      \* "feed", "blocks": in incremental_step; "sample"; "done"
    pos,     \* the position being fed
    layer,   \* the block it has reached
    right,   \* the hidden state h is what a full forward pass would give
    seen,    \* the rows the last block attended to, K_all
    rows,    \* the rows of each layer of the cache
    len,     \* cache.size()
    best     \* the token last_logits ranks first

args == <<prompt, budget>>
vars == <<args, out, pc, pos, layer, right, seen, rows, len, best>>

-----------------------------------------------------------------------------
Goal == Len(prompt) + budget
Layers == 0..NLayers-1

\* Contents of a row: the tokens it was computed from, a row computed from
\* a wrong input, or the zeros the cache and K_all start with.
RowOf(s) == [kind |-> "row", of |-> s]
Wrong == [kind |-> "wrong", of |-> <<>>]
Zeros == [kind |-> "zeros", of |-> <<>>]

Smaller(a, b) == IF a <= b THEN a ELSE b

\* An empty prompt starts from zero logits, whose first maximum is one token.
Init == /\ prompt \in Prompts
        /\ budget \in Budgets
        /\ out = prompt
        /\ pc = IF prompt = <<>> THEN "sample" ELSE "feed"
        /\ pos = 0
        /\ layer = 0
        /\ right = TRUE
        /\ seen = <<>>
        /\ rows = [l \in Layers |-> [p \in 0..BlockSize-1 |-> Zeros]]
        /\ len = 0
        /\ best = Target(<<>>)

\* incremental_step(token, pos) begins with the token's own embedding.
Embed ==
    /\ pc = "feed"
    /\ pc' = "blocks"
    /\ layer' = 0
    /\ right' = TRUE
    /\ UNCHANGED <<args, out, pos, seen, rows, len, best>>

Own == IF right THEN RowOf(SubSeq(out, 1, pos + 1)) ELSE Wrong

\* K_all: the rows of the slice taken before the update, zeros where it is
\* too short, and the new row at pos.
Attended(l) == [p \in 1..pos+1 |->
                  IF p = pos + 1 THEN Own
                  ELSE IF p <= Smaller(len, BlockSize) THEN rows[l][p - 1]
                  ELSE Zeros]

AllRight(s) == \A p \in 1..Len(s) : s[p] = RowOf(SubSeq(out, 1, p))

\* Mutant: the new row is stored one position late.
BlockLate ==
    LET at == Smaller(pos, BlockSize)
    IN  /\ pc = "blocks" /\ layer < NLayers
        /\ seen' = Attended(layer)
        /\ right' = (right /\ AllRight(seen'))
        /\ len' = at
        /\ rows' = [rows EXCEPT ![layer] =
                      [p \in 0..BlockSize-1 |-> IF p = at + 1 THEN Own ELSE @[p]]]
        /\ layer' = layer + 1
        /\ UNCHANGED <<args, out, pc, pos, best>>

\* forward_incremental(h, cache, layer, pos): attend, set the cursor to pos
\* (set_size cuts it at the block), store the row if it fits.
Block ==
    LET at == Smaller(pos, BlockSize)
    IN  /\ pc = "blocks" /\ layer < NLayers
        /\ seen' = Attended(layer)
        /\ right' = (right /\ AllRight(seen'))
        /\ len' = at
        /\ rows' = [rows EXCEPT ![layer] =
                      [p \in 0..BlockSize-1 |-> IF p = at THEN Own ELSE @[p]]]
        /\ layer' = layer + 1
        /\ UNCHANGED <<args, out, pc, pos, best>>

\* Mutant: the cursor is not advanced after a step.
LogitsNoAdvance ==
    /\ pc = "blocks" /\ layer = NLayers
    /\ IF right THEN best' = Target(SubSeq(out, 1, pos + 1)) ELSE best' \in Token
    /\ IF pos + 1 < Len(prompt)
       THEN pos' = pos + 1 /\ pc' = "feed"
       ELSE pos' = pos /\ pc' = "sample"
    /\ UNCHANGED <<args, out, layer, right, seen, rows, len>>

\* The logits come out, cache.advance(1), and the prompt's next token is fed.
Logits ==
    /\ pc = "blocks" /\ layer = NLayers
    /\ IF right THEN best' = Target(SubSeq(out, 1, pos + 1)) ELSE best' \in Token
    /\ len' = Smaller(len + 1, BlockSize)
    /\ IF pos + 1 < Len(prompt)
       THEN pos' = pos + 1 /\ pc' = "feed"
       ELSE pos' = pos /\ pc' = "sample"
    /\ UNCHANGED <<args, out, layer, right, seen, rows>>

\* The token is appended; the last one is not fed any more.
Sample ==
    /\ pc = "sample" /\ Len(out) < Goal
    /\ out' = Append(out, best)
    /\ IF Len(out') = Goal
       THEN pc' = "done" /\ pos' = pos
       ELSE pc' = "feed" /\ pos' = Len(out)
    /\ UNCHANGED <<args, layer, right, seen, rows, len, best>>

\* max_new_tokens = 0: the loop is not entered.
NothingToSample ==
    /\ pc = "sample" /\ Len(out) >= Goal
    /\ pc' = "done"
    /\ UNCHANGED <<args, out, pos, layer, right, seen, rows, len, best>>

Returned == pc = "done" /\ UNCHANGED vars

Next == Embed \/ Block \/ Logits \/ Sample \/ NothingToSample \/ Returned

Spec == Init /\ [][Next]_vars /\ WF_vars(Next)

-----------------------------------------------------------------------------
TypeOK ==
    /\ prompt \in Prompts /\ budget \in Budgets
    /\ out \in Seq(Token)
    /\ pc \in {"feed", "blocks", "sample", "done"}
    /\ pos \in Nat
    /\ pc \in {"feed", "blocks"} => pos < Goal /\ pos < Len(out)
    /\ layer \in 0..NLayers
    /\ right \in BOOLEAN
    /\ len \in 0..BlockSize
    /\ DOMAIN rows = Layers
    /\ best \in Token

(***************************************************************************)
(* Every block, at every position a full forward pass could also take,     *)
(* attends to exactly the rows of the positions up to its own, each        *)
(* computed from the tokens before it: none is missing, stale or another   *)
(* layer's, although the cursor moves once per token and not per layer.    *)
(***************************************************************************)
SeesPrefix ==
    pc = "blocks" /\ layer > 0 /\ pos <= BlockSize =>
      Len(seen) = pos + 1 /\ AllRight(seen)

\* Decoding with the cache implements decoding by full forward passes, its
\* termination included.
Greedy == INSTANCE GreedyDecode
IsGreedyDecode == Greedy!Spec
=============================================================================
