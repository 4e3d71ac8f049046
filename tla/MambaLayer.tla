------------------------------ MODULE MambaLayer ------------------------------
(* The state-space block (mamba.cpp) forward and backward, and the selective   *)
(* scan (mamba_scan.cpp) in one pass and in chunks.  Weights are the record p; *)
(* conv1d_weight is [d_inner x kernel].                                        *)
EXTENDS Layers

CONSTANTS DtLo, DtHi,      \* the clamp of dt, as residues
          FewChunks,       \* chunks of the parallel scan
          ManyChunks, ManyFrom   \* ... and of a scan of at least ManyFrom steps

ASSUME ScanAssumption == {FewChunks, ManyChunks} \subseteq Nat \ {0} /\ ManyFrom \in Nat

-------------------------------------------------------------------------------
(* The scan of one channel with one state: h[t] = a[t] h[t - 1] + b[t].        *)
LeastOf(m, n) == IF m < n THEN m ELSE n
Step(h, a, b) == (a ** h) ++ b
StateAfter(h0, a, b, first, last) ==
    LET h[t \in (first - 1)..last] == IF t < first THEN h0 ELSE Step(h[t - 1], a[t], b[t])
    IN  h[last]

selective_scan_sequential(h0, a, b) ==
    Tuple([t \in 1..Len(a) |-> StateAfter(h0, a, b, 1, t)])

\* Mutant: a chunk starts from the end of the one before it reduced from zero.
ChunksFromZero(h0, a, b) ==
    LET chunk == (Len(a) + LeastOf(Len(a), FewChunks) - 1) \div LeastOf(Len(a), FewChunks)
        start(c) == IF c = 0 THEN h0 ELSE StateAfter(0, a, b, ((c - 1) * chunk) + 1, c * chunk)
    IN  Tuple([t \in 1..Len(a) |->
            LET c == (t - 1) \div chunk IN StateAfter(start(c), a, b, (c * chunk) + 1, t)])

ChunksOf(T) == LeastOf(T, IF T >= ManyFrom THEN ManyChunks ELSE FewChunks)
ChunkSize(T) == (T + ChunksOf(T) - 1) \div ChunksOf(T)
ChunkFirst(T, c) == ((c - 1) * ChunkSize(T)) + 1
ChunkLast(T, c) == LeastOf(T, c * ChunkSize(T))

\* A chunk without a step leaves a state as it is.
Product(a, first, last) ==
    IF first > last THEN 1 ELSE StateAfter(1, a, [t \in DOMAIN a |-> 0], first, last)
End(a, b, first, last) == IF first > last THEN 0 ELSE StateAfter(0, a, b, first, last)

\* The state at the end of the first c chunks, combined from their products and ends.
Combined(h0, a, b, c) ==
    LET T == Len(a)
        Chunks == 1..ChunksOf(T)
    IN  StateAfter(h0, [k \in Chunks |-> Product(a, ChunkFirst(T, k), ChunkLast(T, k))],
                       [k \in Chunks |-> End(a, b, ChunkFirst(T, k), ChunkLast(T, k))], 1, c)

\* Every chunk is reduced from zero, and scanned again from its true first state.
selective_scan_parallel(h0, a, b) ==
    LET Before(t) == (t - 1) \div ChunkSize(Len(a))
    IN  Tuple([t \in 1..Len(a) |->
            StateAfter(Combined(h0, a, b, Before(t)), a, b,
                       ChunkFirst(Len(a), Before(t) + 1), t)])

-------------------------------------------------------------------------------
(* conv1d_forward: causal, one filter per channel, steps before the first are  *)
(* nothing.                                                                    *)
Tap(t, j, K) == t - K + j
conv1d(x, w, bias) ==
    LET K == Cols(w)
    IN  Matrix([t \in 1..Rows(x) |-> [d \in 1..Cols(x) |->
            bias[1][d] + Total([j \in 1..K |->
                IF Tap(t, j, K) >= 1 THEN x[Tap(t, j, K)][d] * w[d][j] ELSE 0])]])

Columns(A, first, n) == Matrix([i \in 1..Rows(A) |-> [j \in 1..n |-> A[i][first + j]]])

softplus(x) == Log(1 + Exp(x))
InRange(v) == Residue(v) >= DtLo /\ Residue(v) <= DtHi
ClampDt(v) == IF InRange(v) THEN v ELSE IF Residue(v) < DtLo THEN DtLo ELSE DtHi

MambaNorm(rms, x, p) ==
    IF rms THEN rmsnorm(x, p["norm_weight"])
    ELSE TimesRow(Standard(Centred(x)), p["norm_weight"])

\* Forward as far as the convolution; x_z is the half of the projection that gates.
Convolved(p, normed, proj) ==
    LET D == Rows(p["conv1d_weight"])
        x_ssm == Columns(proj, D, D)
        conv_pre == conv1d(x_ssm, p["conv1d_weight"], p["conv1d_bias"])
    IN  [normed |-> normed, x_z |-> Columns(proj, 0, D), x_ssm |-> x_ssm,
         conv_pre |-> conv_pre, conv |-> Map(Silu, conv_pre)]

\* What selects in each step: the step size, B and C.
Selected(p, f, xp) ==
    LET N == Cols(p["a_log"])
        R == Cols(p["dt_proj"])
        dt_raw == MatMul(Columns(xp, 0, R), Transpose(p["dt_proj"]))
    IN  [xp |-> xp, dt_raw |-> dt_raw, dt |-> Map(LAMBDA v : ClampDt(softplus(v)), dt_raw),
         B |-> Columns(xp, R, N), C |-> Columns(xp, R + N, N)] @@ f

\* The decays a[d][n][t], the states h[d][n][t], and the gated output.
Scanned(p, f) ==
    LET T == Rows(f.conv)
        D == Cols(f.conv)
        N == Cols(f.C)
        a == Tuple([d \in 1..D |-> Tuple([n \in 1..N |-> Tuple([t \in 1..T |->
                 Exp(p["a_log"][d][n] ** f.dt[t][d])])])])
        h == Tuple([d \in 1..D |-> Tuple([n \in 1..N |->
                 selective_scan_sequential(0, a[d][n], Tuple([t \in 1..T |->
                     (f.B[t][n] ** f.conv[t][d]) ** f.dt[t][d]]))])])
        y == Matrix([t \in 1..T |-> [d \in 1..D |->
                 Total([n \in 1..N |-> f.C[t][n] * h[d][n][t]])
                     + (p["d_weight"][1][d] * f.conv[t][d])]])
    IN  [a |-> a, h |-> h, y |-> y,
         gate |-> Map(Silu, f.x_z), gated |-> Times(Map(Silu, f.x_z), y)] @@ f

\* What forward computes up to the output projection; backward computes it again.
Intermediates(p, x, rms) ==
    LET normed == MambaNorm(rms, x, p)
        f == Convolved(p, normed, MatMul(normed, Transpose(p["in_proj"])))
    IN  Scanned(p, Selected(p, f, MatMul(f.conv, Transpose(p["x_proj"]))))

Mamba(p, x, rms) == Plus(x, MatMul(Intermediates(p, x, rms).gated, Transpose(p["out_proj"])))

\* dh[d][n][t], from the last step to the first: dh[t] = a[t + 1] dh[t + 1] + dY[t] C[t]
StateGrads(f, dY) ==
    LET T == Rows(dY)
        Back(d, n) == LET dh[t \in 1..T] ==
                              (dY[t][d] ** f.C[t][n])
                              ++ (IF t = T THEN 0 ELSE f.a[d][n][t + 1] ** dh[t + 1])
                      IN  Tuple([t \in 1..T |-> dh[t]])
    IN  Tuple([d \in 1..Cols(dY) |-> Tuple([n \in 1..Cols(f.C) |-> Back(d, n)])])

\* Through the scan: gradients of conv (the direct part), B, C, dt, a_log, d_weight.
ScanGrad(p, f, dY) ==
    LET T == Rows(dY)
        D == Cols(dY)
        N == Cols(f.C)
        dh == StateGrads(f, dY)
        prev(d, n, t) == IF t = 1 THEN 0 ELSE f.h[d][n][t - 1]
        \* dh * h_prev * a, of the exponent A * dt
        dExp == Tuple([d \in 1..D |-> Tuple([n \in 1..N |-> Tuple([t \in 1..T |->
                    (dh[d][n][t] ** prev(d, n, t)) ** f.a[d][n][t]])])])
    IN  [conv |-> Matrix([t \in 1..T |-> [d \in 1..D |->
             (dY[t][d] * p["d_weight"][1][d])
             + Total([n \in 1..N |-> dh[d][n][t] * (f.B[t][n] ** f.dt[t][d])])]]),
         B |-> Matrix([t \in 1..T |-> [n \in 1..N |->
             Total([d \in 1..D |-> dh[d][n][t] * (f.conv[t][d] ** f.dt[t][d])])]]),
         C |-> Matrix([t \in 1..T |-> [n \in 1..N |->
             Total([d \in 1..D |-> dY[t][d] * f.h[d][n][t]])]]),
         dt |-> Matrix([t \in 1..T |-> [d \in 1..D |->
             Total([n \in 1..N |-> (dExp[d][n][t] ** p["a_log"][d][n])
                              + ((dh[d][n][t] ** f.B[t][n]) ** f.conv[t][d])])]]),
         a_log |-> Matrix([d \in 1..D |-> [n \in 1..N |->
             Total([t \in 1..T |-> dExp[d][n][t] * f.dt[t][d]])]]),
         d_weight |-> ColumnSums(Times(dY, f.conv))]

\* out[t] reads in[t - K + j] with w[j]
ConvGrad(w, x, dy) ==
    LET T == Rows(x)
        K == Cols(w)
    IN  [dx |-> Matrix([t \in 1..T |-> [d \in 1..Cols(x) |->
             Total([j \in 1..K |-> IF t + K - j <= T THEN dy[t + K - j][d] * w[d][j] ELSE 0])]]),
         w |-> Matrix([d \in 1..Cols(x) |-> [j \in 1..K |->
             Total([t \in 1..T |->
                 IF Tap(t, j, K) >= 1 THEN dy[t][d] * x[Tap(t, j, K)][d] ELSE 0])]])]

MambaNormGrad(rms, x, dy, p) ==
    IF rms THEN rmsnorm_backward(x, dy, p["norm_weight"])
    ELSE layernorm_backward(x, dy, p["norm_weight"])

\* From the gradients of the scan back to the block's input.
BeforeScan(p, x, dy, rms, f, dGated, scan) ==
    LET dXz == Times(Times(dGated, f.y), Map(SiluGrad, f.x_z))
        d_raw == Matrix([t \in 1..Rows(x) |-> [d \in 1..Cols(dGated) |->
                     IF InRange(softplus(f.dt_raw[t][d]))
                     THEN scan.dt[t][d] * Sigmoid(f.dt_raw[t][d]) ELSE 0]])
        dXr == MatMul(d_raw, p["dt_proj"])
        dXp == Tuple([t \in 1..Rows(x) |-> dXr[t] \o scan.B[t] \o scan.C[t]])
        dConv == Plus(scan.conv, MatMul(dXp, p["x_proj"]))
        dConvPre == Times(dConv, Map(SiluGrad, f.conv_pre))
        conv == ConvGrad(p["conv1d_weight"], f.x_ssm, dConvPre)
        dProj == Tuple([t \in 1..Rows(x) |-> dXz[t] \o conv.dx[t]])
        norm == MambaNormGrad(rms, x, MatMul(dProj, p["in_proj"]), p)
    IN  [dx |-> Plus(dy, norm.dx),
         grads |-> [out_proj |-> GradB(dy, f.gated), a_log |-> scan.a_log,
                    d_weight |-> scan.d_weight,
                    dt_proj |-> GradB(d_raw, Columns(f.xp, 0, Cols(p["dt_proj"]))),
                    x_proj |-> GradB(dXp, f.conv), conv1d_weight |-> conv.w,
                    conv1d_bias |-> ColumnSums(dConvPre), in_proj |-> GradB(dProj, f.normed),
                    norm_weight |-> norm.gamma]]

MambaGradAt(p, x, dy, rms, f, dGated) ==
    BeforeScan(p, x, dy, rms, f, dGated, ScanGrad(p, f, Times(dGated, f.gate)))
MambaGrad(p, x, dy, rms) ==
    MambaGradAt(p, x, dy, rms, Intermediates(p, x, rms), MatMul(dy, p["out_proj"]))
===============================================================================
