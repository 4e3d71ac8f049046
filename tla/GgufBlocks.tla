------------------------------ MODULE GgufBlocks ------------------------------
(* The block codecs of gguf.cpp: Q4_K super-blocks with their packed 6-bit     *)
(* scales and half-precision factors, Q4_0 and Q8_0.  An element of a Q4_K     *)
(* block is a whole number of 2^-24, the least half; one of the others a whole *)
(* number of 1e-8, with which their scales begin.  A float is its exponent and *)
(* mantissa fields where the code takes it apart.  Arrays are functions from   *)
(* 0, as in the source.                                                        *)
EXTENDS Integers, FiniteSetsExt

CONSTANTS Inputs,    \* what is encoded: a block, with the parts it was made of if it was made of any,
                     \* or, of kind "half", a float [e, m]
          NonFinite  \* an infinity or a NaN

Implicit == 8388608     \* 2^23, the bit before a float's mantissa
Largest == 4194304      \* 2^22: sums and differences of elements up to it are floats

(* The parts that a format can hold.  The largest element fixes the scale, so  *)
(* elements of Q4_0 that are not all zero have -7 or 7 but no -8, and of Q8_0  *)
(* -127 or 127; a Q4_K block has a sub-block of scale 63 unless all scales are *)
(* 0, one of min 63 unless dmin and all mins are 0, and elements 0 and 15      *)
(* wherever the scale is not 0.                                                *)
OneByOne(p, top) ==
    /\ p.scale \in Nat \ {0} /\ p.q \in [0..31 -> (-top)..top]
    /\ (\E i \in 0..31 : p.q[i] \in {-top, top}) \/ (\A i \in 0..31 : p.q[i] = 0)
BySubBlock(p) ==
    /\ p.d \in Nat \ {0} /\ p.dmin \in Int
    /\ p.sc \in [0..7 -> 0..63] /\ p.mn \in [0..7 -> 0..63] /\ p.q \in [0..255 -> 0..15]
    /\ (\E j \in 0..7 : p.sc[j] = 63) \/ (\A j \in 0..7 : p.sc[j] = 0)
    /\ IF p.dmin = 0 THEN \A j \in 0..7 : p.mn[j] = 0 ELSE \E j \in 0..7 : p.mn[j] = 63
    /\ \A j \in 0..7 : p.sc[j] # 0 => \A end \in {0, 15} : \E l \in 0..31 : p.q[32 * j + l] = end

\* The elements of a block of the parts p, with d and dmin for its factors.
Elements(p, d, dmin) ==
    [i \in 0..255 |-> d * p.sc[i \div 32] * p.q[i] - dmin * p.mn[i \div 32]]

\* A non-finite element of Q4_0 or Q8_0 is cast to an integer, which C++ leaves undefined.
Encodable(b) ==
    CASE b.kind = "q4k" -> /\ \A i \in 0..255 : b.x[i] = NonFinite \/ b.x[i] \in (-Largest)..Largest
                           /\ \A p \in b.parts : BySubBlock(p) /\ b.x = Elements(p, p.d, p.dmin)
      [] b.kind \in {"q40", "q80"} ->
            /\ b.x \in [0..31 -> Int]
            /\ \A p \in b.parts : /\ OneByOne(p, IF b.kind = "q40" THEN 7 ELSE 127)
                                   /\ b.x = [i \in 0..31 |-> p.q[i] * p.scale]
      [] b.kind = "half" -> b.e \in Nat /\ 113 <= b.e /\ b.e <= 255 /\ b.m \in Nat /\ b.m < Implicit

ASSUME BlocksAssumption ==
    /\ NonFinite \notin Int
    /\ \A b \in Inputs : b.kind \in {"q4k", "q40", "q80", "half"} /\ Encodable(b)

VARIABLES input, coded
block_vars == <<input, coded>>

-------------------------------------------------------------------------------
abs(v) == IF v < 0 THEN -v ELSE v
\* std::round(n / d): halves away from zero
round(n, d) == LET a == IF (n < 0) = (d < 0) THEN 1 ELSE -1
               IN  a * ((2 * abs(n) + abs(d)) \div (2 * abs(d)))
clamp(lo, hi, v) == Max({lo, Min({hi, v})})

\* Scales and mins of 8 sub-blocks in 12 bytes: the upper two bits of the last four apart.
PackScales(sc, mn) ==
    [k \in 0..11 |-> IF k < 4 THEN (sc[k] % 64) + (sc[k + 4] \div 16) * 64
                     ELSE IF k < 8 THEN (mn[k - 4] % 64) + (mn[k] \div 16) * 64
                     ELSE (sc[k - 4] % 16) + (mn[k - 4] % 16) * 16]

\* Mutant: the upper bits of the last four mins are taken where those of the scales are.
UnpackSameUpper(scales, j) ==
    IF j < 4 THEN [sc |-> scales[j] % 64, mn |-> scales[j + 4] % 64]
    ELSE [sc |-> (scales[j + 4] % 16) + (scales[j - 4] \div 64) * 16,
          mn |-> (scales[j + 4] \div 16) + (scales[j - 4] \div 64) * 16]

q4k_unpack_scales(scales, j) ==
    IF j < 4 THEN [sc |-> scales[j] % 64, mn |-> scales[j + 4] % 64]
    ELSE [sc |-> (scales[j + 4] % 16) + (scales[j - 4] \div 64) * 16,
          mn |-> (scales[j + 4] \div 16) + (scales[j] \div 64) * 16]

\* Element i is half a byte of qs.
Byte(i) == 32 * (i \div 64) + ((i % 64) % 32)
High(i) == i % 64 >= 32
ElementAt == [b \in 0..127 |-> [high \in BOOLEAN |-> CHOOSE i \in 0..255 : Byte(i) = b /\ High(i) = high]]

\* A block of 4-bit elements q in eight sub-blocks with scales sc and mins mn; d and dmin are halves.
PackBlock(d, dmin, sc, mn, q) ==
    [d |-> d, dmin |-> dmin, scales |-> PackScales(sc, mn),
     qs |-> [b \in 0..127 |-> q[ElementAt[b][FALSE]] + 16 * q[ElementAt[b][TRUE]]]]

-------------------------------------------------------------------------------
(* Half precision.  e and m are the exponent and mantissa fields of a positive *)
(* float, h the 16 bits of the half.                                           *)
Unit == 8192            \* 2^13, the last bit of a half's mantissa in a float's

\* Mutant: ties are rounded up.
ShiftedTiesUp(mant, unit) == IF 2 * (mant % unit) >= unit THEN mant \div unit + 1 ELSE mant \div unit

\* mant shifted right so far that unit is the last bit, to the nearest, ties to even
Shifted(mant, unit) ==
    LET half == mant \div unit
        rest == mant % unit
    IN  IF 2 * rest > unit \/ (2 * rest = unit /\ half % 2 = 1) THEN half + 1 ELSE half

f32_to_f16(e, m) ==
    LET exp == e - 127 + 15
        half == Shifted(m, Unit)
    IN  IF exp >= 31 THEN 31743                            \* 0x7BFF
        ELSE IF exp < -10 THEN 0
        ELSE IF exp <= 0 THEN Shifted(m + Implicit, 2 ^ (1 - exp)) % 1024
        ELSE IF half < 1024 THEN exp * 1024 + half
        ELSE IF exp + 1 >= 31 THEN 31743 ELSE (exp + 1) * 1024

f16_to_f32(h) ==
    LET exp == h \div 1024
        mant == h % 1024
        \* shifts until bit 10 is set
        up == CHOOSE k \in 1..10 : (mant * 2 ^ k) \div 1024 = 1
    IN  IF exp = 0 THEN IF mant = 0 THEN [e |-> 0, m |-> 0]
                        ELSE [e |-> 1 - up + 112, m |-> ((mant * 2 ^ up) % 1024) * Unit]
        ELSE [e |-> IF exp = 31 THEN 255 ELSE exp + 112, m |-> mant * Unit]

-------------------------------------------------------------------------------
(* The factors of a Q4_K block, computed as floats and stored as halves.       *)
ToFloat(n) == IF n = 0 THEN [e |-> 0, m |-> 0]
              ELSE LET k == Max({b \in 0..23 : 2 ^ b <= n})
                   IN  [e |-> 103 + k, m |-> n * 2 ^ (23 - k) - Implicit]

\* The float f / d; 2^up is the least power of 2 above d.
Over(f, d, up) ==
    LET s == (Implicit + f.m) * 2 ^ up
    IN  IF f.e = 0 THEN f
        ELSE IF s >= 2 * Implicit * d THEN [e |-> f.e - up + 1, m |-> Shifted(s, 2 * d) - Implicit]
        ELSE [e |-> f.e - up, m |-> Shifted(s, d) - Implicit]

\* A float in units of 2^-24
Units(f) == IF f.e = 0 THEN 0
            ELSE IF f.e >= 126 THEN (Implicit + f.m) * 2 ^ (f.e - 126)
            ELSE (Implicit + f.m) \div 2 ^ (126 - f.e)

\* The value of 16 bits, the first of them the sign
Signed(negative, v) == IF negative THEN -v ELSE v
Factor(h) == Signed(h >= 32768, Units(f16_to_f32(h % 32768)))

\* Mutant: elements are quantized against the factors before they become halves.
NotRounded(f) == Units(f)

\* What the decoder will use for the factor f: f16_to_f32(f32_to_f16(f))
Rounded(f) == Units(f16_to_f32(f32_to_f16(f.e, f.m)))

encode_q4k_block(x) ==
    LET finite == \A i \in 0..255 : x[i] # NonFinite
        mn == [j \in 0..7 |-> IF finite THEN Min({x[32 * j + l] : l \in 0..31}) ELSE 0]
        range == [j \in 0..7 |-> IF finite THEN Max({x[32 * j + l] : l \in 0..31}) - mn[j] ELSE 0]
        widest == Max({range[j] : j \in 0..7})                                 \* 15 dall_anchor
        dall == Over(Over(ToFloat(widest), 15, 4), 63, 6)
        neg_max == Max({0} \cup {-mn[j] : j \in {k \in 0..7 : mn[k] < 0}})
        pos_max == Max({0} \cup {mn[j] : j \in {k \in 0..7 : mn[k] >= 0}})
        dmin_anchor == IF neg_max > 0 THEN neg_max ELSE -pos_max
        dmin == Over(ToFloat(abs(dmin_anchor)), 63, 6)
        negative == ~(neg_max > 0)                                             \* -0.0 included
        qsc == [j \in 0..7 |-> IF widest > 0 THEN clamp(0, 63, round(63 * range[j], widest)) ELSE 0]
        qmn == [j \in 0..7 |-> IF dmin_anchor # 0 THEN clamp(0, 63, round(63 * (-mn[j]), dmin_anchor)) ELSE 0]
        q == [i \in 0..255 |-> LET j == i \div 32
                                   dj == Rounded(dall) * qsc[j]
                                   dmj == Signed(negative, Rounded(dmin)) * qmn[j]
                               IN  IF dj = 0 THEN 0 ELSE clamp(0, 15, round(x[i] + dmj, dj))]
    IN  PackBlock(f32_to_f16(dall.e, dall.m),
                  f32_to_f16(dmin.e, dmin.m) + IF negative THEN 32768 ELSE 0, qsc, qmn, q)

decode_q4k_block(block) ==
    [i \in 0..255 |->
        LET s == q4k_unpack_scales(block.scales, 2 * (i \div 64) + IF High(i) THEN 1 ELSE 0)
            q == IF High(i) THEN block.qs[Byte(i)] \div 16 ELSE block.qs[Byte(i)] % 16
        IN  Factor(block.d) * s.sc * q - Factor(block.dmin) * s.mn]

-------------------------------------------------------------------------------
abs_max(x) == Max({abs(x[i]) : i \in DOMAIN x})
\* mx / top + 1e-8, as its numerator over top
Scale(x, top) == abs_max(x) + top

\* x / scale
Quotient(x, i, top) == round(top * x[i], Scale(x, top))

encode_q80_block(x) == [scale |-> Scale(x, 127),
                        q |-> [i \in 0..31 |-> clamp(-127, 127, Quotient(x, i, 127))]]
\* The elements decoded are numerators over top, too.
decode_q80_block(block) == [i \in 0..31 |-> block.q[i] * block.scale]

\* The even element is the low half of the byte.
PackPairs(scale, a) ==
    [scale |-> scale, packed |-> [k \in 0..15 |-> ((a[2 * k + 1] + 8) * 16) + ((a[2 * k] + 8) % 16)]]
encode_q40_block(x) == PackPairs(Scale(x, 7), [i \in 0..31 |-> clamp(-8, 7, Quotient(x, i, 7))])
decode_q40_block(block) ==
    [i \in 0..31 |-> ((IF i % 2 = 0 THEN block.packed[i \div 2] % 16 ELSE block.packed[i \div 2] \div 16) - 8)
                     * block.scale]

-------------------------------------------------------------------------------
BlockInit == input \in Inputs /\ coded = <<>>

EncodeAs(kind, code) == input.kind = kind /\ coded = <<>> /\ coded' = <<code>> /\ UNCHANGED input
EncodeQ4K == input.kind = "q4k" /\ EncodeAs("q4k", encode_q4k_block(input.x))
EncodeQ40 == input.kind = "q40" /\ EncodeAs("q40", encode_q40_block(input.x))
EncodeQ80 == input.kind = "q80" /\ EncodeAs("q80", encode_q80_block(input.x))
EncodeHalf == input.kind = "half" /\ EncodeAs("half", f32_to_f16(input.e, input.m))

BlockNext == EncodeQ4K \/ EncodeQ40 \/ EncodeQ80 \/ EncodeHalf
BlockSpec == BlockInit /\ [][BlockNext]_block_vars

(* Whatever is encoded, each element is decoded to the nearest that its block  *)
(* can hold: in Q4_K no level of its sub-block, under the factors as they are  *)
(* stored, is closer; in the others it is half a step away at most.  A Q4_K    *)
(* block with an element that is no number becomes zeros.                      *)
NearestLevel(x, block) ==
    LET out == decode_q4k_block(block)
    IN  IF \E i \in 0..255 : x[i] = NonFinite THEN \A i \in 0..255 : out[i] = 0
        ELSE \A i \in 0..255 :
                LET s == q4k_unpack_scales(block.scales, i \div 32)
                IN  \A k \in 0..15 : abs(x[i] - out[i])
                                       <= abs(x[i] - (Factor(block.d) * s.sc * k - Factor(block.dmin) * s.mn))
WithinHalfStep(x, top, block, out) == \A i \in 0..31 : 2 * abs(top * x[i] - out[i]) <= block.scale
NearestLevels == coded # <<>> =>
    CASE input.kind = "q4k" -> NearestLevel(input.x, coded[1])
      [] input.kind = "q40" -> WithinHalfStep(input.x, 7, coded[1], decode_q40_block(coded[1]))
      [] input.kind = "q80" -> WithinHalfStep(input.x, 127, coded[1], decode_q80_block(coded[1]))
      [] OTHER -> TRUE

(* From a block that was made of parts, the encoder finds them and the decoder *)
(* reads each where it was packed.  In Q4_K, scales and mins come back as they *)
(* were, factors from 2^-14 up with the error of a half, and the elements with *)
(* the stored factors in the place of their own, where these are off by less   *)
(* than half a level.  In the others the scale is 1e-8 too large, and elements *)
(* come back with it unless the scale is so small that 1e-8 counts.            *)
Close(h, factor) == 2048 * abs(Factor(h) - factor) <= abs(factor)
Drift(p, j, block) == 15 * p.sc[j] * abs(Factor(block.d) - p.d) + p.mn[j] * abs(Factor(block.dmin) - p.dmin)
SubBlocksFound(p, block) ==
    /\ \A j \in 0..7 : q4k_unpack_scales(block.scales, j) = [sc |-> p.sc[j], mn |-> p.mn[j]]
    /\ p.d >= 1024 /\ (\E j \in 0..7 : p.sc[j] # 0) => Close(block.d, p.d)
    /\ abs(p.dmin) >= 1024 => Close(block.dmin, p.dmin)
    /\ \A i \in 0..255 :
          LET j == i \div 32
          IN  p.sc[j] = 0 \/ 2 * Drift(p, j, block) < Factor(block.d) * p.sc[j]
                  => decode_q4k_block(block)[i] = Elements(p, Factor(block.d), Factor(block.dmin))[i]
ScaleFound(p, top, out) == 2 * top <= p.scale + 1 => \A i \in 0..31 : out[i] = p.q[i] * (top * (p.scale + 1))
PartsFound == coded # <<>> =>
    CASE input.kind = "q4k" -> \A p \in input.parts : SubBlocksFound(p, coded[1])
      [] input.kind = "q40" -> \A p \in input.parts : ScaleFound(p, 7, decode_q40_block(coded[1]))
      [] input.kind = "q80" -> \A p \in input.parts : ScaleFound(p, 127, decode_q80_block(coded[1]))
      [] OTHER -> TRUE

(* A float from 2^-14 up becomes the nearest half, the even one of two,        *)
(* through carries into the exponent; beyond the largest half, the largest.    *)
NearestHalf(h, e, m) ==
    LET back == f16_to_f32(h)
        error == IF back.e = e THEN back.m - m ELSE Implicit + 2 * back.m - m
    IN  \/ h = 31743 /\ (e > 142 \/ (e = 142 /\ m > 1023 * Unit))
        \/ /\ back.e \in {e, e + 1}
           /\ -4096 <= error /\ error <= 4096
           /\ error \in {-4096, 4096} => h % 2 = 0
HalfNearest == coded # <<>> /\ input.kind = "half" => NearestHalf(coded[1], input.e, input.m)
===============================================================================
