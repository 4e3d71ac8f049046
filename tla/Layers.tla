-------------------------------- MODULE Layers --------------------------------
(* The layers of a transformer block, forward and backward: normalisations     *)
(* (tensor.cpp), feed-forward network and block (transformer.cpp), multi-head  *)
(* attention (attention.cpp), softmax and losses.  A layer's weights are a     *)
(* record p of named matrices; a backward returns dx, the gradient of its      *)
(* input, and grads, what it hands to add_grad, by name.                       *)
EXTENDS Ring, TLC

Eps == 1          \* the eps of the normalisations
GeluScale == 3    \* sqrt(2 / pi)
GeluCubic == 2    \* 0.044715

-------------------------------------------------------------------------------
(* Normalisations.                                                             *)
Average(row) == Inv(Len(row)) ** Total([j \in 1..Len(row) |-> row[j]])

InvNorm(A) == Tuple([i \in 1..Rows(A) |->
                 RSqrt(Average(Tuple([j \in 1..Cols(A) |-> A[i][j] ** A[i][j]])) ++ Eps)])
Standard(A) == LET inv == InvNorm(A)
               IN  Matrix([i \in 1..Rows(A) |-> [j \in 1..Cols(A) |-> A[i][j] * inv[i]]])
Centred(A) == LET mean == Tuple([i \in 1..Rows(A) |-> Average(A[i])])
              IN  Matrix([i \in 1..Rows(A) |-> [j \in 1..Cols(A) |-> A[i][j] - mean[i]]])

rmsnorm(x, weight) == TimesRow(Standard(x), weight)
layernorm(x, gamma, beta) == PlusRow(TimesRow(Standard(Centred(x)), gamma), beta)

rmsnorm_backward(x, dy, weight) ==
    LET inv == InvNorm(x)
        dyw == TimesRow(dy, weight)
        coef == Tuple([i \in 1..Rows(x) |->
                   Total([j \in 1..Cols(x) |-> dyw[i][j] * x[i][j]])
                       ** ((inv[i] ** inv[i]) ** (inv[i] ** Inv(Cols(x))))])
    IN  [dx |-> Matrix([i \in 1..Rows(x) |-> [j \in 1..Cols(x) |->
                    (dyw[i][j] * inv[i]) - (x[i][j] * coef[i])]]),
         gamma |-> ColumnSums(Times(dy, Standard(x)))]

layernorm_backward(x, dy, gamma) ==
    LET z == Centred(x)
        inv == InvNorm(z)
        xhat == Standard(z)
        dyg == TimesRow(dy, gamma)
        m == Tuple([i \in 1..Rows(x) |-> Average(dyg[i])])
        mx == Tuple([i \in 1..Rows(x) |->
                  Average(Tuple([j \in 1..Cols(x) |-> dyg[i][j] ** xhat[i][j]]))])
    IN  [dx |-> Matrix([i \in 1..Rows(x) |-> [j \in 1..Cols(x) |->
                    inv[i] * ((dyg[i][j] - m[i] - (xhat[i][j] ** mx[i])) % Q)]]),
         gamma |-> ColumnSums(Times(dy, xhat)),
         beta |-> ColumnSums(dy)]

\* The choice every caller makes between the two; names are those of gamma and beta.
Norm(rms, x, p, names) ==
    IF rms THEN rmsnorm(x, p[names[1]]) ELSE layernorm(x, p[names[1]], p[names[2]])
Named(g, names) ==
    [dx |-> g.dx,
     grads |-> names[1] :> g.gamma @@ IF "beta" \in DOMAIN g THEN names[2] :> g.beta ELSE <<>>]
NormGrad(rms, x, dy, p, names) ==
    Named(IF rms THEN rmsnorm_backward(x, dy, p[names[1]])
          ELSE layernorm_backward(x, dy, p[names[1]]), names)

-------------------------------------------------------------------------------
(* Softmax over the entries that are not masked (a set of positions), losses.  *)
Largest(row, S) == CHOOSE m \in S : \A j \in S : Residue(row[j]) <= Residue(row[m])

softmax(A, masked) ==
    LET Exps(i) ==
            LET best == A[i][Largest(A[i], {j \in 1..Cols(A) : <<i, j>> \notin masked})]
            IN  Tuple([j \in 1..Cols(A) |-> IF <<i, j>> \in masked THEN 0 ELSE Exp(A[i][j] - best)])
        exps == Tuple([i \in 1..Rows(A) |-> Exps(i)])
        sums == Tuple([i \in 1..Rows(A) |-> Total([j \in 1..Cols(A) |-> exps[i][j]])])
    IN  Matrix([i \in 1..Rows(A) |-> [j \in 1..Cols(A) |-> exps[i][j] * Inv(sums[i])]])
Probabilities(A) == softmax(A, {})

\* A token or target outside the vocabulary is taken modulo its size; columns count from 1.
Clamped(tok, vocab) == 1 + (tok % vocab)

cross_entropy_loss(logits, targets) ==
    LET V == Cols(logits)
        Loss(i) == LET best == logits[i][Largest(logits[i], 1..V)]
                       sum == Total([j \in 1..V |-> Exp(logits[i][j] - best)])
                   IN  (best + Log(sum) - logits[i][Clamped(targets[i], V)]) % Q
    IN  Inv(Rows(logits)) ** Total([i \in 1..Rows(logits) |-> Loss(i)])

cross_entropy_backward(logits, targets, smoothing) ==
    LET V == Cols(logits)
        p == Probabilities(logits)
        off == IF V > 1 THEN smoothing ** Inv(V - 1) ELSE 0
        Target(i, j) == IF j = Clamped(targets[i], V) THEN 1 - smoothing ELSE off
    IN  Matrix([i \in 1..Rows(logits) |-> [j \in 1..V |->
            ((p[i][j] - Target(i, j)) % Q) * Inv(Rows(logits))]])

kl_dlogits(teacher, student, temp) ==
    LET pt == Probabilities(Scaled(Inv(temp), teacher))
        ps == Probabilities(Scaled(Inv(temp), student))
    IN  Matrix([i \in 1..Rows(student) |-> [j \in 1..Cols(student) |->
            ((ps[i][j] - pt[i][j]) % Q) * (temp ** Inv(Rows(student)))]])

-------------------------------------------------------------------------------
(* Multi-head attention.                                                       *)
HeadOf(A, h, d) == Matrix([i \in 1..Rows(A) |-> [j \in 1..d |-> A[i][((h - 1) * d) + j]]])
Concat(heads, d) ==
    Matrix([i \in 1..Rows(heads[1]) |-> [j \in 1..Len(heads) * d |->
        heads[1 + ((j - 1) \div d)][i][1 + ((j - 1) % d)]]])

\* Row i of q, the last rows of a longer k, attends to the keys up to its own.
Weights(q, k) ==
    softmax(Scaled(RSqrt(Cols(q)), MatMul(q, Transpose(k))),
            {at \in (1..Rows(q)) \X (1..Rows(k)) : at[2] > at[1] + Rows(k) - Rows(q)})

AttendHeads(q, k, v, n) ==
    LET d == Cols(q) \div n
    IN  Concat(Tuple([h \in 1..n |->
            MatMul(Weights(HeadOf(q, h, d), HeadOf(k, h, d)), HeadOf(v, h, d))]), d)

Project(p, x, w, b) ==
    IF b \in DOMAIN p THEN PlusRow(MatMul(x, p[w]), p[b]) ELSE MatMul(x, p[w])

Attention(p, x, n) ==
    Project(p, AttendHeads(Project(p, x, "Wq", "bq"), Project(p, x, "Wk", "bk"),
                           Project(p, x, "Wv", "bv"), n), "Wo", "bo")

\* The softmax's gradient is attn * (dAttn - sum(dAttn * attn)), masked again.
DScores(attn, dAttn, d) ==
    LET sum == Tuple([i \in 1..Rows(attn) |->
                  Total([j \in 1..Cols(attn) |-> dAttn[i][j] * attn[i][j]])])
    IN  Matrix([i \in 1..Rows(attn) |-> [j \in 1..Cols(attn) |->
            IF j > i THEN 0 ELSE (attn[i][j] ** (dAttn[i][j] - sum[i])) * RSqrt(d)]])

\* One head, given its q, k, v and the gradient of its output.
HeadGrad(q, k, v, dOut) ==
    LET attn == Weights(q, k)
        dS == DScores(attn, MatMul(dOut, Transpose(v)), Cols(q))
    IN  [dQ |-> MatMul(dS, k), dK |-> MatMul(Transpose(dS), q),
         dV |-> MatMul(Transpose(attn), dOut)]

ProjectionGrads(p, x, dy, out, dQ, dK, dV) ==
    LET grads == [Wo |-> GradB(out, dy), Wq |-> GradB(x, dQ), Wk |-> GradB(x, dK),
                  Wv |-> GradB(x, dV), bo |-> ColumnSums(dy), bq |-> ColumnSums(dQ),
                  bk |-> ColumnSums(dK), bv |-> ColumnSums(dV)]
    IN  [dx |-> Plus(Plus(GradA(p["Wq"], dQ), GradA(p["Wk"], dK)), GradA(p["Wv"], dV)),
         grads |-> [name \in DOMAIN grads \cap DOMAIN p |-> grads[name]]]

HeadGrads(q, k, v, dOut, n, d) ==
    Tuple([h \in 1..n |->
        HeadGrad(HeadOf(q, h, d), HeadOf(k, h, d), HeadOf(v, h, d), HeadOf(dOut, h, d))])

AttentionGradAt(p, x, dy, n, q, k, v) ==
    LET d == Cols(x) \div n
        heads == HeadGrads(q, k, v, GradA(p["Wo"], dy), n, d)
    IN  ProjectionGrads(p, x, dy, AttendHeads(q, k, v, n),
                        Concat(Tuple([h \in 1..n |-> heads[h].dQ]), d),
                        Concat(Tuple([h \in 1..n |-> heads[h].dK]), d),
                        Concat(Tuple([h \in 1..n |-> heads[h].dV]), d))

\* The projections are computed again.
AttentionGrad(p, x, dy, n) ==
    AttentionGradAt(p, x, dy, n, Project(p, x, "Wq", "bq"), Project(p, x, "Wk", "bk"),
                    Project(p, x, "Wv", "bv"))

-------------------------------------------------------------------------------
(* Feed-forward network: gated SiLU when it has a W3, else GELU.  Its biases   *)
(* b1 and b2 are parameters that forward never reads.                          *)
Silu(v) == v ** Sigmoid(v)
\* Mutant: the derivative of the sigmoid alone.
SigmoidGrad(v) == LET s == Sigmoid(v) IN s ** (1 - s)
SiluGrad(v) == LET s == Sigmoid(v) IN s ** (1 + (v ** (1 - s)))

GeluInner(v) == GeluScale ** (v + (GeluCubic ** ((v ** v) ** v)))
Gelu(v) == (Half ** v) ** (1 + Tanh(GeluInner(v)))
GeluGrad(v) ==
    LET th == Tanh(GeluInner(v))
        inner == GeluScale ** (1 + ((3 * GeluCubic) ** (v ** v)))
    IN  (Half ** (1 + th)) ++ (((Half ** v) ** (1 - (th ** th))) ** inner)

FeedForward(p, x) ==
    LET h == MatMul(x, p["W1"])
    IN  MatMul(IF "W3" \in DOMAIN p THEN Times(Map(Silu, h), MatMul(x, p["W3"])) ELSE Map(Gelu, h),
               p["W2"])

SiluFeedForwardGrad(p, x, dy) ==
    LET h1 == MatMul(x, p["W1"])
        h3 == MatMul(x, p["W3"])
        dGated == GradA(p["W2"], dy)
        dH3 == Times(dGated, Map(Silu, h1))
        dH1 == Times(Times(dGated, h3), Map(SiluGrad, h1))
    IN  [dx |-> Plus(GradA(p["W1"], dH1), GradA(p["W3"], dH3)),
         grads |-> [W1 |-> GradB(x, dH1), W3 |-> GradB(x, dH3), b1 |-> ColumnSums(dH1),
                    W2 |-> GradB(Times(Map(Silu, h1), h3), dy), b2 |-> ColumnSums(dy)]]

GeluFeedForwardGrad(p, x, dy) ==
    LET h == MatMul(x, p["W1"])
        dH == Times(GradA(p["W2"], dy), Map(GeluGrad, h))
    IN  [dx |-> GradA(p["W1"], dH),
         grads |-> [W1 |-> GradB(x, dH), b1 |-> ColumnSums(dH),
                    W2 |-> GradB(Map(Gelu, h), dy), b2 |-> ColumnSums(dy)]]

FeedForwardGrad(p, x, dy) ==
    IF "W3" \in DOMAIN p THEN SiluFeedForwardGrad(p, x, dy) ELSE GeluFeedForwardGrad(p, x, dy)

-------------------------------------------------------------------------------
(* The block: x + attention(norm(x)), then y + ffn(norm(y)).                   *)
ln1 == <<"ln1_gamma", "ln1_beta">>
ln2 == <<"ln2_gamma", "ln2_beta">>

AfterFFN(p, y, rms) == Plus(y, FeedForward(p, Norm(rms, y, p, ln2)))
Block(p, x, n, rms) ==
    AfterFFN(p, Plus(x, Attention(p, Norm(rms, x, p, ln1), n)), rms)

\* Around a half the residual connection hands on dy; what is there comes first.
Residual(dy, grads, norm) == [dx |-> Plus(dy, norm.dx), grads |-> grads @@ norm.grads]

\* Past the norm of a half whose gradient, at the norm's output, is g.
BeforeNorm(rms, x, dy, p, names, earlier, g) ==
    Residual(dy, earlier @@ g.grads, NormGrad(rms, x, g.dx, p, names))

FFNHalfGrad(p, y, dy, rms) ==
    BeforeNorm(rms, y, dy, p, ln2, <<>>, FeedForwardGrad(p, Norm(rms, y, p, ln2), dy))

AttentionHalfGrad(p, x, in1, n, rms, later) ==
    BeforeNorm(rms, x, later.dx, p, ln1, later.grads, AttentionGrad(p, in1, later.dx, n))

BlockGradAt(p, x, in1, dy, n, rms) ==
    AttentionHalfGrad(p, x, in1, n, rms,
                      FFNHalfGrad(p, Plus(x, Attention(p, in1, n)), dy, rms))

\* The norm and the attention are computed again.
BlockGrad(p, x, dy, n, rms) == BlockGradAt(p, x, Norm(rms, x, p, ln1), dy, n, rms)
===============================================================================
