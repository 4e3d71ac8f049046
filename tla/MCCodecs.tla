------------------------------- MODULE MCCodecs -------------------------------
(* The tokenizer, its streaming decoder, the layout of GGUF files and the      *)
(* block codecs, each explored for itself: subject says which.                 *)
EXTENDS Tokenizer, TokenStream, Gguf, GgufBlocks

VARIABLES subject

\* letters a and n, and the bytes that mean something in a file
BytesUsed == 0..6
SeqsUpTo(S, n) == UNION {[1..k -> S] : k \in 0..n}
TrainingTexts == SeqsUpTo({0, 2}, 3) \cup [1..4 -> {0, 3}] \cup {<<0, 0, 0, 0>>, <<0, 2, 0, 2>>, <<4, 0, 4>>, <<5, 6, 5, 6>>, <<6, 1, 6>>}
ProbeTexts == SeqsUpTo({0, 2}, 4)

ManySizes == {0, 1, 31, 32, 33, 255, 256, 257, 600}
SomeHeaders == {0, 1, 31, 32, 33}

Edge == <<63, 0, 1, 15, 16, 47, 48, 62>>
\* Halves and floats between them, mins of both signs, halves below 2^-14 on the last lines.
FactorPairs == {<<1500, 60001>>, <<2047, 0>>, <<3001, -5001>>, <<4099, 1025>>,
                <<3, -60001>>, <<700, 2>>}
SubBlockParts ==
    {[d |-> f[1], dmin |-> f[2],
      sc |-> [j \in 0..7 |-> Edge[((j * stride) % 8) + 1]],
      mn |-> [j \in 0..7 |-> IF f[2] = 0 THEN 0 ELSE Edge[((j + turn) % 8) + 1]],
      q |-> [i \in 0..255 |-> (i * k + i \div 32) % 16]] :
        f \in FactorPairs, stride \in {1, 3}, turn \in {0, 3, 5}, k \in {1, 7}}
    \cup {[d |-> 1, dmin |-> dmin, sc |-> [j \in 0..7 |-> 0], mn |-> [j \in 0..7 |-> IF dmin = 0 THEN 0 ELSE 63 - j],
           q |-> [i \in 0..255 |-> 0]] : dmin \in {-3000, 0, 3000}}
OneByOneParts(top, scales) ==
    {[scale |-> s, q |-> [i \in 0..31 |-> ((i * k + r) % (2 * top + 1)) - top]] :
        s \in scales, k \in {1, 17}, r \in {0, 2 * top}}
    \cup {[scale |-> s, q |-> [i \in 0..31 |-> 0]] : s \in scales}
Made(kind, p, x) == [kind |-> kind, x |-> x, parts |-> {p}]
Plain(kind, x) == [kind |-> kind, x |-> x, parts |-> {}]

\* Sub-blocks of ranges from 15 to 2^18, far from 0 and around it
Uneven == {[i \in 0..255 |-> (i \div 32 - 4) * away + ((i * i * k) % 2 ^ (2 * (i \div 32) + 4))] :
              away \in {0, 600001, -500000}, k \in {1, 77}}
Rows == {[i \in 0..31 |-> ((i * i * k) % r) - r \div 3] : k \in {1, 7}, r \in {1, 5, 43, 100000}}
        \cup {[i \in 0..31 |-> IF i % 2 = 0 THEN 21 ELSE -21]}

BlockInputs ==
    {Made("q4k", p, Elements(p, p.d, p.dmin)) : p \in SubBlockParts}
    \cup {Made("q40", p, [i \in 0..31 |-> p.q[i] * p.scale]) : p \in OneByOneParts(7, {1, 3, 12, 13, 4000})}
    \cup {Made("q80", p, [i \in 0..31 |-> p.q[i] * p.scale]) : p \in OneByOneParts(127, {1, 252, 253, 5000})}
    \cup {Plain("q4k", x) : x \in Uneven}
    \cup {Plain("q4k", [x EXCEPT ![200] = NonFinite]) : x \in Uneven}
    \cup {Plain(kind, x) : kind \in {"q40", "q80"}, x \in Rows}
    \cup {[kind |-> "half", e |-> e, m |-> m] :
             e \in {113, 114, 127, 141, 142, 143},
             m \in UNION {{h * 2 ^ 13 + r : r \in {0, 1, 4095, 4096, 4097, 8191}} : h \in {0, 1, 2, 511, 1022, 1023}}}

Init == /\ subject \in {"tokenizer", "stream", "layout", "blocks"}
        /\ TokInit /\ StreamInit /\ GgufInit
        /\ subject # "layout" => sizes = <<>> /\ header = 0 /\ ~quant
        /\ input \in BlockInputs \cup {[kind |-> "none"]} /\ coded = <<>>
        /\ (subject = "blocks") = (input.kind # "none")

Next == \/ subject = "tokenizer" /\ TokNext /\ UNCHANGED <<subject, stream_vars, gguf_vars, block_vars>>
        \/ subject = "stream" /\ StreamNext /\ UNCHANGED <<subject, tok_vars, gguf_vars, block_vars>>
        \/ subject = "layout" /\ GgufNext /\ UNCHANGED <<subject, tok_vars, stream_vars, block_vars>>
        \/ subject = "blocks" /\ BlockNext /\ UNCHANGED <<subject, tok_vars, stream_vars, gguf_vars>>

Spec == Init /\ [][Next]_<<subject, tok_vars, stream_vars, gguf_vars, block_vars>>
===============================================================================
