------------------------------- MODULE Gradient -------------------------------
(* GPT::forward, backward and zero_grad (model.cpp), and the callers that      *)
(* accumulate gradients with them: the trainer's and distillation's steps, the *)
(* policy step (rlhf.cpp) and the micro-batches of Pipeline::train_step.       *)
(* Weights and gradients are functions from <<layer, name>> to matrices; layer *)
(* 0 holds the embeddings, the last norm and the head.                         *)
EXTENDS MambaLayer, Flash

CONSTANTS Configs,       \* records [mamba, rms, tied, rope]
          Seeds,         \* of the weights
          Batches,       \* records [kind, tokens, targets]; targets are another policy's tokens ...
          Vocab, Dim, NHeads, NLayers, BlockSize, DState, ConvKernel,
          Micro,         \* tokens per micro-batch of the pipeline
          MaxBackwards   \* bound on calls of backward

ASSUME GradientAssumption ==
    /\ {Vocab, Dim, NHeads, NLayers, BlockSize} \subseteq Nat \ {0}
    /\ {DState, ConvKernel, Micro, MaxBackwards} \subseteq Nat \ {0}
    /\ Seeds \subseteq Nat
    /\ Dim % NHeads = 0

VARIABLES config, seed,
          grad,      \* the grad buffers; a parameter's is absent until it is sized
          batches,   \* what backward was called with since zero_grad
          todo,      \* micro-batches the pipeline has still to run
          phase,     \* "free", "pipeline", "step": an optimizer step is next, "over"
          calls

grad_vars == <<config, seed, grad, batches, todo, phase, calls>>

-------------------------------------------------------------------------------
(* Parameters.                                                                 *)
BlockShapes ==
    [Wq |-> <<Dim, Dim>>, Wk |-> <<Dim, Dim>>, Wv |-> <<Dim, Dim>>, Wo |-> <<Dim, Dim>>,
     W1 |-> <<Dim, 4 * Dim>>, W2 |-> <<4 * Dim, Dim>>, b1 |-> <<1, 4 * Dim>>, b2 |-> <<1, Dim>>,
     ln1_gamma |-> <<1, Dim>>, ln1_beta |-> <<1, Dim>>,
     ln2_gamma |-> <<1, Dim>>, ln2_beta |-> <<1, Dim>>]
DtRank == (Dim + 15) \div 16
MambaShapes ==
    LET D == 2 * Dim
    IN  [norm_weight |-> <<1, Dim>>, in_proj |-> <<2 * D, Dim>>,
         conv1d_weight |-> <<D, ConvKernel>>, conv1d_bias |-> <<1, D>>,
         x_proj |-> <<DtRank + (2 * DState), D>>, dt_proj |-> <<D, DtRank>>,
         a_log |-> <<D, DState>>, d_weight |-> <<1, D>>, out_proj |-> <<Dim, D>>]
ModelShapes == [wte |-> <<Vocab, Dim>>, wpe |-> <<BlockSize, Dim>>, ln_f_gamma |-> <<1, Dim>>,
                ln_f_beta |-> <<1, Dim>>, lm_head |-> <<Dim, Vocab>>]

ShapesOf(c, l) == IF l = 0 THEN ModelShapes ELSE IF c.mamba THEN MambaShapes ELSE BlockShapes
Tensors(c) == UNION {{<<l, name>> : name \in DOMAIN ShapesOf(c, l)} : l \in 0..NLayers}
Shape(c, k) == ShapesOf(c, k[1])[k[2]]

lm_head == <<0, "lm_head">>
wte == <<0, "wte">>
wpe == <<0, "wpe">>
parameters(c) == IF c.tied THEN Tensors(c) \ {lm_head} ELSE Tensors(c)

tie_weights(c, w) == IF c.tied THEN [w EXCEPT ![lm_head] = Transpose(w[wte])] ELSE w

\* Any values: a different matrix for every tensor and seed.
Names == <<"wte", "wpe", "ln_f_gamma", "ln_f_beta", "lm_head", "Wq", "Wk", "Wv", "Wo", "W1", "W2",
           "b1", "b2", "ln1_gamma", "ln1_beta", "ln2_gamma", "ln2_beta", "norm_weight", "in_proj",
           "conv1d_weight", "conv1d_bias", "x_proj", "dt_proj", "a_log", "d_weight", "out_proj">>
Tag(k) == (40 * k[1]) + CHOOSE i \in 1..Len(Names) : Names[i] = k[2]
Values(c, s) == [k \in Tensors(c) |-> Sample(s, Tag(k), Shape(c, k)[1], Shape(c, k)[2])]
Layer(w, l) == [name \in {k[2] : k \in {j \in DOMAIN w : j[1] = l}} |-> w[<<l, name>>]]

-------------------------------------------------------------------------------
(* Forward.                                                                    *)
Cosine(pos, i) == 1 + (3 * pos) + (5 * pos * i)     \* any rotation, scale and frequencies included
Sine(pos, i) == (7 * pos) + (pos * i)
Rotated(row, pos) ==
    Tuple([j \in 1..Len(row) |->
        LET i == (j - 1) \div 2
        IN  IF j % 2 = 1 THEN IF j = Len(row) THEN row[j]
                              ELSE (row[j] ** Cosine(pos, i)) -- (row[j + 1] ** Sine(pos, i))
            ELSE (row[j - 1] ** Sine(pos, i)) ++ (row[j] ** Cosine(pos, i))])
rope_cfg(x) == Tuple([t \in 1..Rows(x) |-> Rotated(x[t], t - 1)])

Embedding(w, tokens) ==
    Matrix([t \in 1..Len(tokens) |-> [j \in 1..Dim |->
        w[wte][Clamped(tokens[t], Vocab)][j] + w[wpe][t][j]]])
Input(c, w, tokens) ==
    IF c.rope THEN rope_cfg(Embedding(w, tokens)) ELSE Embedding(w, tokens)

LayerForward(c, p, x) == IF c.mamba THEN Mamba(p, x, c.rms) ELSE Block(p, x, NHeads, c.rms)
LayerBackward(c, p, x, dy) ==
    IF c.mamba THEN MambaGrad(p, x, dy, c.rms) ELSE BlockGrad(p, x, dy, NHeads, c.rms)
\* x, the input of the first layer, then those of the later layers, and the output of the last.
LayerInputs(c, w, x) ==
    FoldLeft(LAMBDA inputs, l : Append(inputs, LayerForward(c, Layer(w, l), Last(inputs))),
             <<x>>, Tuple([l \in 1..NLayers |-> l]))

ln_f == <<"ln_f_gamma", "ln_f_beta">>
Hidden(c, w, x) == Norm(c.rms, Last(LayerInputs(c, w, x)), Layer(w, 0), ln_f)
Headed(w, hidden) == [logits |-> MatMul(hidden, w[lm_head]), hidden |-> hidden]
forward_with_hidden(c, w, tokens) == Headed(w, Hidden(c, w, Input(c, w, tokens)))

-------------------------------------------------------------------------------
(* Backward.                                                                   *)
ScatterTokens(dX, tokens) ==
    Matrix([v \in 1..Vocab |-> [j \in 1..Dim |->
        Total([t \in 1..Len(tokens) |-> IF Clamped(tokens[t], Vocab) = v THEN dX[t][j] ELSE 0])]])
ScatterPositions(dX) ==
    Matrix([t \in 1..BlockSize |-> [j \in 1..Dim |-> IF t <= Rows(dX) THEN dX[t][j] ELSE 0]])

Collected(grads, l, g) ==
    [dx |-> g.dx,
     grads |-> grads @@ [k \in {<<l, name>> : name \in DOMAIN g.grads} |-> g.grads[k[2]]]]

Downwards == Tuple([i \in 1..NLayers |-> NLayers + 1 - i])

\* Mutant: a layer is differentiated at its output instead of its input.
ThroughLayersAtOutput(c, w, inputs, dx) ==
    FoldLeft(LAMBDA r, l :
                 Collected(r.grads, l, LayerBackward(c, Layer(w, l), inputs[l + 1], r.dx)),
             [dx |-> dx, grads |-> <<>>], Downwards)

\* From the last layer to the first: the gradient of the layer's input, and of its weights.
ThroughLayers(c, w, inputs, dx) ==
    FoldLeft(LAMBDA r, l : Collected(r.grads, l, LayerBackward(c, Layer(w, l), inputs[l], r.dx)),
             [dx |-> dx, grads |-> <<>>], Downwards)

\* Below the layers: the embeddings, and a tied head's share of wte.
WithEmbeddings(c, tokens, dW_lm, last, through) ==
    LET dWte == ScatterTokens(through.dx, tokens)
    IN  Collected(through.grads, 0, last).grads
        @@ lm_head :> dW_lm
        @@ wte :> (IF c.tied THEN Plus(Transpose(dW_lm), dWte) ELSE dWte)
        @@ wpe :> ScatterPositions(through.dx)

BelowHead(c, w, tokens, inputs, dW_lm, last) ==
    WithEmbeddings(c, tokens, dW_lm, last,
                   ThroughLayers(c, w, inputs, last.dx))

BackwardAt(c, w, dl, tokens, hidden, inputs) ==
    BelowHead(c, w, tokens, inputs, GradB(hidden, dl),
              NormGrad(c.rms, Last(inputs), GradA(w[lm_head], dl), Layer(w, 0), ln_f))

\* The layers' inputs are computed again.
backward(c, w, dl, tokens, hidden) ==
    BackwardAt(c, w, dl, tokens, hidden, LayerInputs(c, w, Input(c, w, tokens)))

\* add_grad sizes a buffer that is not sized yet.
add_grads(g, new) ==
    [k \in DOMAIN g \cup DOMAIN new |->
        IF k \notin DOMAIN g THEN new[k]
        ELSE IF k \notin DOMAIN new THEN g[k] ELSE Plus(g[k], new[k])]

-------------------------------------------------------------------------------
(* The losses the callers differentiate.  "train": cross entropy.  "distill":  *)
(* KL to the logits of a teacher.  "policy": the ratio times an advantage and  *)
(* KL, both to the probabilities before the step.  A scale multiplies it.      *)
Temp == 3
Advantage == 7
KlCoef == 4
Teacher(c, s, tokens) ==
    forward_with_hidden(c, tie_weights(c, Values(c, s + 1)), tokens).logits

\* old comes from the weights logits come from: the ratio is one and the clip never applies.
policy_dlogits(logits, old, tokens) ==
    LET p == Probabilities(logits)
        q == Probabilities(old)
        Ratio(t, v) == p[t][v] ** Inv(q[t][v])
    IN  Matrix([t \in 1..Rows(p) |-> [v \in 1..Vocab |->
            LET tgt == Clamped(tokens[t], Vocab)
            IN  (((Advantage ** Ratio(t, tgt)) ** (p[t][v] - (IF v = tgt THEN 1 ELSE 0)))
                 ++ (KlCoef * (p[t][v] - q[t][v]))) * Inv(Rows(p))]])

dlogits(c, s, b, logits) ==
    Scaled(b.scale,
           CASE b.kind = "train" -> cross_entropy_backward(logits, b.targets, 0)
             [] b.kind = "distill" -> kl_dlogits(Teacher(c, s, b.tokens), logits, Temp)
             [] b.kind = "policy" -> policy_dlogits(logits, logits, b.tokens))

GradientsAt(c, s, b, w, f) == backward(c, w, dlogits(c, s, b, f.logits), b.tokens, f.hidden)
GradientsOf(c, s, b, w) == GradientsAt(c, s, b, w, forward_with_hidden(c, w, b.tokens))
Gradients(c, s, b) == GradientsOf(c, s, b, tie_weights(c, Values(c, s)))

-------------------------------------------------------------------------------
GradInit == /\ config \in Configs
            /\ seed \in Seeds
            /\ grad = <<>>
            /\ batches = <<>>
            /\ todo = <<>>
            /\ phase = "free"
            /\ calls = 0

\* Sizes or clears the buffers of parameters(): a tied head's is neither.
zero_grad ==
    [k \in parameters(config) \cup DOMAIN grad |->
        IF k \in parameters(config)
        THEN Zeros(Shape(config, k)[1], Shape(config, k)[2]) ELSE grad[k]]

Backward(b, into, earlier) ==
    /\ calls < MaxBackwards
    /\ grad' = add_grads(into, Gradients(config, seed, b))
    /\ batches' = Append(earlier, b)
    /\ calls' = calls + 1
    /\ UNCHANGED <<config, seed>>

\* The trainer's and distillation's steps clear, then run one batch.  backward adds to
\* wte's and wpe's buffers without sizing them, so that it must come after a zero_grad.
Of(kind) == {b \in Batches : b.kind = kind}
ClearAndRun(kind, next) == /\ phase = "free"
                           /\ phase' = next
                           /\ \E b \in Of(kind) : Backward(b, zero_grad, <<>>)
                           /\ UNCHANGED todo
TrainBatch == ClearAndRun("train", "free")
distill_step == ClearAndRun("distill", "free")
ppo_step == ClearAndRun("policy", "step")

\* A micro-batch is a forward of its own, and predicts its own tokens; its
\* gradient counts by its share of the batch.
MicroBatches(tokens) ==
    Tuple([m \in 1..(Len(tokens) + Micro - 1) \div Micro |->
        LET part == SubSeq(tokens, ((m - 1) * Micro) + 1, LeastOf(m * Micro, Len(tokens)))
        IN  [kind |-> "train", tokens |-> part, targets |-> part,
             scale |-> Len(part) ** Inv(Len(tokens))]])
PipelineStart(b) == /\ phase = "free"
                    /\ calls + Len(MicroBatches(b.tokens)) <= MaxBackwards
                    /\ todo' = MicroBatches(b.tokens)
                    /\ grad' = zero_grad
                    /\ batches' = <<>>
                    /\ phase' = "pipeline"
                    /\ UNCHANGED <<config, seed, calls>>
PipelineMicro == /\ phase = "pipeline"
                 /\ Backward(todo[1], grad, batches)
                 /\ todo' = Tail(todo)
                 /\ phase' = IF Len(todo) = 1 THEN "step" ELSE "pipeline"

\* Adam, in the pipeline's and the policy's step, then zero_grad.  The weights change:
\* what follows is another behaviour, of another seed.
OptimizerStep == /\ phase = "step"
                 /\ phase' = "over"
                 /\ grad' = zero_grad
                 /\ batches' = <<>>
                 /\ UNCHANGED <<config, seed, todo, calls>>

Bounded == (phase = "over" \/ calls = MaxBackwards) /\ UNCHANGED grad_vars
GradNext == \/ PipelineMicro \/ OptimizerStep \/ Bounded
            \/ TrainBatch \/ distill_step \/ ppo_step \/ \E b \in Of("train") : PipelineStart(b)
GradSpec == GradInit /\ [][GradNext]_grad_vars

-------------------------------------------------------------------------------
(* The derivative of what was accumulated, in one direction for all weights.   *)
LogProb(logits, t, v) ==
    LET best == logits[t][Largest(logits[t], 1..Cols(logits))]
    IN  (logits[t][v] - best - Log(Total([j \in 1..Cols(logits) |-> Exp(logits[t][j] - best)]))) % Q
\* cross entropy to the rows of q, in the mean over the rows
CrossEntropy(q, logits) ==
    Inv(Rows(logits)) ** (-Total([t \in 1..Rows(logits) |->
        Total([v \in 1..Cols(logits) |-> q[t][v] * LogProb(logits, t, v)])]))

Loss(c, s, b, logits, before) ==
    b.scale ** (CASE b.kind = "train" -> cross_entropy_loss(logits, b.targets)
           [] b.kind = "distill" ->
                (Temp * Temp) ** CrossEntropy(Probabilities(Scaled(Inv(Temp), Teacher(c, s, b.tokens))),
                                              Scaled(Inv(Temp), logits))
           [] b.kind = "policy" ->
                LET p == Probabilities(logits)
                    q == Probabilities(before)
                    Ratio(t) == LET v == Clamped(b.tokens[t], Vocab) IN p[t][v] ** Inv(q[t][v])
                IN  (KlCoef ** CrossEntropy(q, logits))
                    -- ((Advantage ** Inv(Rows(p))) ** Total([i \in 1..Rows(p) |-> Ratio(i)])))

Unread == {"b1", "b2"}
Direction(c, s) ==
    LET d == Values(c, s + 7)
    IN  [k \in Tensors(c) |-> IF k[2] \in Unread THEN Scaled(0, d[k]) ELSE d[k]]

SumOver(S, Op(_)) == FoldSet(LAMBDA k, acc : Op(k) ++ acc, 0, S)
Logits(w, b) == forward_with_hidden(config, tie_weights(config, w), b.tokens).logits
Change(b, before, after) ==
    Loss(config, seed, b, after, before) -- Loss(config, seed, b, before, before)
IsDerivative(w, dir, moved) ==
    Total([i \in 1..Len(batches) |->
              Change(batches[i], Logits(w, batches[i]), Logits(moved, batches[i]))])
    = P * (SumOver(parameters(config), LAMBDA k : Inner(grad[k], dir[k])) % P)
GradIsDerivative ==
    LET w == Values(config, seed)
        dir == Direction(config, seed)
    IN  IsDerivative(w, dir, [k \in DOMAIN w |-> Moved(w[k], dir[k])])

(* What backward has left in the buffers of all parameters since zero_grad is  *)
(* the derivative of the sum of the callers' losses: through every layer in    *)
(* reverse, with the weight of a tied head added to wte's, tokens outside the  *)
(* vocabulary folded in, and the buffers neither overwritten by the next       *)
(* micro-batch nor kept over a zero_grad.  b1 and b2, which forward never reads, are left  *)
(* out, and so are rotary embeddings.                                          *)
ModelGradient == batches # <<>> /\ ~config.rope => GradIsDerivative

-------------------------------------------------------------------------------
(* Layers no GPT instantiates, but the library offers and its tests check.     *)
LayerIsExact(F(_, _), G(_, _, _), p, x, s) ==
    LET dp == [name \in DOMAIN p |-> IF name \in Unread THEN Scaled(0, p[name])
                                     ELSE Map(LAMBDA v : v * v + s, p[name])]
        dx == Map(LAMBDA v : 3 * v + s, x)
        dy == Sample(s + 3, 30, Rows(x), Dim)
        g == G(p, x, dy)
    IN  Inner(dy, F([name \in DOMAIN p |-> Moved(p[name], dp[name])], Moved(x, dx)))
            -- Inner(dy, F(p, x))
        = P * ((Inner(g.dx, dx)
                + SumOver(DOMAIN g.grads, LAMBDA name : Inner(g.grads[name], dp[name]))) % P)

Biased(s) == [w \in {"Wq", "Wk", "Wv", "Wo"} |-> Sample(s, Len(w), Dim, Dim)]
             @@ [bq |-> Sample(s, 41, 1, Dim), bk |-> Sample(s, 42, 1, Dim),
                 bv |-> Sample(s, 43, 1, Dim), bo |-> Sample(s, 44, 1, Dim)]
Gated(s) == [W1 |-> Sample(s, 51, Dim, 3), W3 |-> Sample(s, 52, Dim, 3),
             W2 |-> Sample(s, 53, 3, Dim), b1 |-> Sample(s, 54, 1, 3), b2 |-> Sample(s, 55, 1, Dim)]

\* RewardModel::get_pooled_hidden and train_step: only head_w is trained.
Pooled(hidden, completion) ==
    LET T == Rows(hidden)
        n == LeastOf(T, IF completion = 0 THEN 1 ELSE completion)
    IN  Scaled(Inv(n), ColumnSums(SubSeq(hidden, T - n + 1, T)))
score(head_w, head_b, pooled) == head_b ++ Inner(pooled, head_w)
reward_gradient(head_w, head_b, hc, hr) ==
    LET delta == score(head_w, head_b, hc) -- score(head_w, head_b, hr)
    IN  Scaled(Sigmoid(delta) - 1, Plus(hc, Scaled(-1, hr)))
RewardIsExact(s) ==
    LET h == Sample(s, 60, 4, Dim)
        hc == Pooled(h, 2)
        hr == Pooled(SubSeq(h, 1, 3), s % 5)
        w == Sample(s, 61, 1, Dim)
        dw == Sample(s, 62, 1, Dim)
        L(v) == -Log(Sigmoid(score(v, 5, hc) -- score(v, 5, hr)))
    IN  L(Moved(w, dw)) -- L(w) = P * (Inner(reward_gradient(w, 5, hc, hr), dw) % P)

SmoothedIsExact(s) ==
    LET x == Sample(s, 70, 3, Vocab)
        dx == Sample(s, 71, 3, Vocab)
        targets == <<s, -s, Vocab>>
        q == Matrix([t \in 1..3 |-> [v \in 1..Vocab |->
                 IF v = Clamped(targets[t], Vocab) THEN 1 - 9 ELSE 9 ** Inv(Vocab - 1)]])
    IN  CrossEntropy(q, Moved(x, dx)) -- CrossEntropy(q, x)
        = P * (Inner(cross_entropy_backward(x, targets, 9), dx) % P)

(* Attention with biases, the gated feed-forward network, cross entropy with   *)
(* label smoothing and the reward model's pairwise loss: each backward is the  *)
(* derivative of its forward.  Checked once per seed.                          *)
LayerGradients ==
    grad = <<>> =>
        /\ LayerIsExact(LAMBDA p, x : Attention(p, x, NHeads),
                        LAMBDA p, x, dy : AttentionGrad(p, x, dy, NHeads),
                        Biased(seed), Sample(seed, 40, 3, Dim), seed)
        /\ LayerIsExact(FeedForward, FeedForwardGrad, Gated(seed), Sample(seed, 50, 3, Dim), seed)
        /\ RewardIsExact(seed)
        /\ SmoothedIsExact(seed)

-------------------------------------------------------------------------------
(* Decoding one token at a time: forward_incremental with its cached rows, and *)
(* the state-space path of generate, which runs the whole sequence again.      *)
\* Mutant: the rotation of the next position.
RotatedFromOne(x, pos) == <<Rotated(x[1], pos + 1)>>
apply_rope_incremental(x, pos) == <<Rotated(x[1], pos)>>
WrappedEmbedding(w, tok, pos) ==
    Matrix([i \in 1..1 |-> [j \in 1..Dim |->
        w[wte][Clamped(tok, Vocab)][j] + w[wpe][1 + (pos % BlockSize)][j]]])

forward_incremental(c, p, x, rows) ==
    LET in1 == Norm(c.rms, x, p, ln1)
        k == rows.k \o Project(p, in1, "Wk", "bk")
        v == rows.v \o Project(p, in1, "Wv", "bv")
        out == AttendHeads(Project(p, in1, "Wq", "bq"), k, v, NHeads)
    IN  [x |-> AfterFFN(p, Plus(x, Project(p, out, "Wo", "bo")), c.rms), k |-> k, v |-> v]

incremental_step(c, w, tok, pos, cache) ==
    LET row == WrappedEmbedding(w, tok, pos)
        Through(acc, l) == LET r == forward_incremental(c, Layer(w, l), acc.x, cache[l])
                           IN  [x |-> r.x, cache |-> Append(acc.cache, [k |-> r.k, v |-> r.v])]
        r == FoldLeft(Through, [x |-> IF c.rope THEN apply_rope_incremental(row, pos) ELSE row,
                                cache |-> <<>>], Tuple([l \in 1..NLayers |-> l]))
    IN  [cache |-> r.cache, logits |-> MatMul(Norm(c.rms, r.x, Layer(w, 0), ln_f), w[lm_head])[1]]

Decoded(c, w, tokens) ==
    FoldLeft(LAMBDA acc, t : incremental_step(c, w, tokens[t], t - 1, acc.cache),
             [cache |-> Tuple([l \in 1..NLayers |-> [k |-> <<>>, v |-> <<>>]]), logits |-> <<>>],
             Tuple([t \in 1..Len(tokens) |-> t])).logits

mamba_logits_for_seq(c, w, tokens) ==
    LET rows == Tuple([t \in 1..Len(tokens) |-> WrappedEmbedding(w, tokens[t], t - 1)[1]])
        x == LayerInputs(c, w, IF c.rope THEN rope_cfg(rows) ELSE rows)
    IN  Last(MatMul(Norm(c.rms, Last(x), Layer(w, 0), ln_f), w[lm_head]))

(* The logits generate samples from are those forward gives the last token of  *)
(* the same sequence, within the block: masks, positions (rotary ones too) and *)
(* the order of cached rows agree.                                             *)
DecodeMatchesForward ==
    grad = <<>> =>
        LET w == tie_weights(config, Values(config, seed))
        IN  \A b \in Batches :
                Last(forward_with_hidden(config, w, b.tokens).logits)
                = IF config.mamba THEN mamba_logits_for_seq(config, w, b.tokens)
                  ELSE Decoded(config, w, b.tokens)

(* The chunked scan computes the states of the one-pass scan, for lengths that *)
(* leave the last chunk short or whole chunks empty and from any first state.  *)
ScanChunked ==
    grad = <<>> =>
        \A T \in 1..(ManyFrom + 3) :
            LET a == Sample(seed, 80 + T, 1, T)[1]
                b == Sample(seed, 81 + T, 1, T)[1]
            IN  selective_scan_parallel(seed, a, b) = selective_scan_sequential(seed, a, b)

(* All three forms of flash attention give softmax(s) . V, whatever the block  *)
(* size and wherever in the row the maximum is.                                *)
FlashIsSoftmax ==
    grad = <<>> =>
        \A n \in 1..4 : \A s \in [1..n -> {-2, 0, 1}] :
            LET V == Sample(seed, 90, 1, n)[1]
                two == flash_attention(s, V)
            IN  /\ two ** Total([j \in 1..n |-> exp(s[j])])
                      = Total([j \in 1..n |-> exp(s[j]) * V[j]])
                /\ \A block \in 1..n : /\ flash_attention_full(s, V, block) = two
                                       /\ flash_attention_incremental(s, V, block) = two
===============================================================================
