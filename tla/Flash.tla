-------------------------------- MODULE Flash ---------------------------------
(* flash_attention.cpp on one row of scores: the weights a query gives to the  *)
(* keys it may see, computed in one pass over blocks of keys with a running    *)
(* maximum, and in two passes.  Scores are integers here and exp(s) is 2^s, so *)
(* that exp(a - b) exp(b - c) = exp(a - c) is exact; V is one column.          *)
EXTENDS Ring, SequencesExt

\* four weights of at least 2^-3 have a sum with an inverse
ASSUME FlashAssumption == P > 32

NoScore == -1000     \* the -1e30 the running maximum starts from
Power(x, n) == LET p[k \in 0..n] == IF k = 0 THEN 1 ELSE x ** p[k - 1] IN p[n]
exp(s) == IF s < -100 THEN 0 ELSE IF s >= 0 THEN Power(2, s) ELSE Power(Half, -s)

Larger(m, n) == IF m > n THEN m ELSE n
MaxOf(s, first, last) ==
    LET max[j \in (first - 1)..last] == IF j < first THEN NoScore ELSE Larger(max[j - 1], s[j])
    IN  max[last]

flash_attention(s, V) ==
    LET e(j) == exp(s[j] - MaxOf(s, 1, Len(s)))
    IN  Inv(Total([i \in 1..Len(s) |-> e(i)])) ** Total([j \in 1..Len(s) |-> e(j) * V[j]])

\* Mutant: the sum of weights is rescaled, the output is not.
OutputNotRescaled(s, V, block, r, kb) ==
    LET ke == IF kb + block > Len(s) THEN Len(s) ELSE kb + block
        m == Larger(r.m, MaxOf(s, kb + 1, ke))
        e(j) == exp(s[kb + j] - m)
    IN  [m |-> m,
         l |-> (r.l ** exp(r.m - m)) ++ Total([i \in 1..ke - kb |-> e(i)]),
         acc |-> r.acc ++ Total([j \in 1..ke - kb |-> e(j) * V[kb + j]])]

\* The maximum rises from block to block: what was summed is rescaled to it.
NextBlock(s, V, block, r, kb) ==
    LET ke == IF kb + block > Len(s) THEN Len(s) ELSE kb + block
        m == Larger(r.m, MaxOf(s, kb + 1, ke))
        e(j) == exp(s[kb + j] - m)
    IN  [m |-> m,
         l |-> (r.l ** exp(r.m - m)) ++ Total([i \in 1..ke - kb |-> e(i)]),
         acc |-> (r.acc ** exp(r.m - m)) ++ Total([j \in 1..ke - kb |-> e(j) * V[kb + j]])]

Blocks(s, block) == (Len(s) + block - 1) \div block
BlockEnd(s, block, b) == IF b * block > Len(s) THEN Len(s) ELSE b * block

flash_attention_full(s, V, block) ==
    LET r[b \in 0..Blocks(s, block)] ==
            IF b = 0 THEN [m |-> NoScore, l |-> 0, acc |-> 0]
            ELSE NextBlock(s, V, block, r[b - 1], (b - 1) * block)
        end == r[Blocks(s, block)]
    IN  end.acc ** Inv(end.l)

flash_attention_incremental(s, V, block) ==
    LET blocks == Tuple([b \in 1..Blocks(s, block) |->
                      MaxOf(s, ((b - 1) * block) + 1, BlockEnd(s, block, b))])
        best == MaxOf(blocks, 1, Len(blocks))
    IN  Inv(Total([j \in 1..Len(s) |-> exp(s[j] - best)]))
            ** Total([j \in 1..Len(s) |-> exp(s[j] - best) * V[j]])
===============================================================================
