---------------------------- MODULE Codecs_proofs -----------------------------
(* Proofs about the formats: for any number of tensors of any sizes and any    *)
(* header, load_gguf finds the tensors where save_gguf and save_gguf_quant put *)
(* them; the streaming decoder prints every byte it is fed, in order, with no  *)
(* character cut; a block of numbers is decoded to the nearest it can hold,    *)
(* one made of parts to these; the encoder cuts a trained text into the words  *)
(* of its training; and a tokenizer comes back from its file, and decodes what *)
(* it encodes.                                                                 *)
EXTENDS Gguf, TokenStream, GgufBlocks, Tokenizer, SequenceTheorems,
        WellFoundedInduction, TLAPS

(* Alignment moves forward to a multiple of 32.                                *)
LEMMA AlignUp ==
    ASSUME NEW x \in Nat
    PROVE  align_offset(x) \in Nat /\ align_offset(x) >= x /\ align_offset(x) % 32 = 0
BY DEF align_offset, GGUF_ALIGN

(* The sizes the offsets are computed from, those that are written and those   *)
(* that are read are the same, for every dtype and number of elements.         *)
LEMMA SameSize ==
    ASSUME NEW n \in Nat, NEW d \in Dtypes
    PROVE  /\ write_encoded(n, d) \in Nat
           /\ read_decoded(n, d) = write_encoded(n, d)
           /\ (IF d = "F32" THEN n * 4 ELSE gguf_nbytes(gguf_pad_len(n, d), d)) = write_encoded(n, d)
<1>1. CASE d = "F32"
    BY <1>1 DEF write_encoded, read_decoded
<1>2. CASE d = "Q8_0"
  <2>1. (n + ((32 - (n % 32)) % 32)) \div 32 = (n + 32 - 1) \div 32
      OBVIOUS
  <2> QED BY <1>2, <2>1 DEF write_encoded, read_decoded, gguf_nbytes, gguf_pad_len, Blocks, GGUF_QBLK, GGUF_Q4K_BLK
<1>3. CASE d = "Q4_0"
  <2>1. (n + ((32 - (n % 32)) % 32)) \div 32 = (n + 32 - 1) \div 32
      OBVIOUS
  <2> QED BY <1>3, <2>1 DEF write_encoded, read_decoded, gguf_nbytes, gguf_pad_len, Blocks, GGUF_QBLK, GGUF_Q4K_BLK
<1>4. CASE d = "Q4_K"
  <2>1. (n + ((256 - (n % 256)) % 256)) \div 256 = (n + 256 - 1) \div 256
      OBVIOUS
  <2> QED BY <1>4, <2>1 DEF write_encoded, read_decoded, gguf_nbytes, gguf_pad_len, Blocks, GGUF_QBLK, GGUF_Q4K_BLK
<1> QED BY <1>1, <1>2, <1>3, <1>4 DEF Dtypes

bytes == [i \in 1..Len(sizes) |-> write_encoded(sizes[i], dtype)]
Base == align_offset(header)

(* Offsets are aligned and leave room for what is before them; what has been   *)
(* written lies at its offset and ends where the next byte goes.               *)
TypeInv == /\ dtype \in Dtypes /\ quant \in BOOLEAN
           /\ sizes \in Seq(Nat) /\ header \in Nat
           /\ offset \in Seq(Nat) /\ Len(offset) <= Len(sizes) /\ cur \in Nat
           /\ at \in Seq(Nat) /\ Len(at) <= Len(sizes) /\ pos \in Nat
           /\ step \in {"offsets", "data", "done"}
           /\ step # "offsets" => Len(offset) = Len(sizes)
           /\ step = "offsets" => at = <<>>
OffsetsInv == \A i \in 1..Len(offset) :
                  /\ offset[i] % 32 = 0
                  /\ offset[i] + bytes[i] <= IF i = Len(offset) THEN cur ELSE offset[i + 1]
WrittenInv == /\ step # "offsets" => pos = IF at = <<>> THEN Base ELSE at[Len(at)] + bytes[Len(at)]
              /\ \A i \in 1..Len(at) : at[i] = Base + offset[i]
Inv == TypeInv /\ OffsetsInv /\ WrittenInv

LEMMA InitIsSound == GgufInit => Inv
<1> SUFFICES ASSUME GgufInit PROVE Inv
    OBVIOUS
<1>1. sizes \in Seq(Nat)
  <2>1. PICK n \in 0..MaxTensors : sizes \in [1..n -> Sizes]
      BY DEF GgufInit
  <2>2. n \in Nat /\ sizes \in [1..n -> Nat]
    <3>1. n \in Nat /\ Sizes \subseteq Nat
        BY GgufAssumption DEF GgufAssumption
    <3>2. \A i \in 1..n : sizes[i] \in Nat
        BY <2>1, <3>1
    <3> QED BY <2>1, <3>1, <3>2
  <2> QED BY <2>2
<1>2. header \in Nat /\ dtype \in Dtypes
    BY GgufAssumption DEF GgufInit, GgufAssumption, Dtypes
<1> QED BY <1>1, <1>2 DEF GgufInit, Inv, TypeInv, OffsetsInv, WrittenInv

LEMMA StepIsSound == Inv /\ [GgufNext]_gguf_vars => Inv'
<1> SUFFICES ASSUME Inv, [GgufNext]_gguf_vars PROVE Inv'
    OBVIOUS
<1>b. Base \in Nat /\ Base % 32 = 0
    BY AlignUp DEF Base, Inv, TypeInv
<1>s. \A i \in 1..Len(sizes) : bytes[i] \in Nat
  <2> SUFFICES ASSUME NEW i \in 1..Len(sizes) PROVE write_encoded(sizes[i], dtype) \in Nat
      BY DEF bytes
  <2>1. sizes[i] \in Nat /\ dtype \in Dtypes
      BY DEF Inv, TypeInv
  <2> QED BY <2>1, SameSize
<1>o. /\ Len(offset) \in Nat /\ Len(at) \in Nat /\ Len(sizes) \in Nat
      /\ \A i \in 1..Len(offset) : offset[i] \in Nat
      /\ \A i \in 1..Len(at) : at[i] \in Nat
    BY DEF Inv, TypeInv
<1>1. ASSUME Offset PROVE Inv'
  <2> DEFINE k == Len(offset) + 1
             o == align_offset(cur)
  <2>1. k \in 1..Len(sizes) /\ sizes[k] \in Nat
      BY <1>1 DEF Offset, Inv, TypeInv
  <2>2. o \in Nat /\ o >= cur /\ o % 32 = 0
      BY AlignUp DEF Inv, TypeInv
  <2>3. cur' = o + bytes[k] /\ offset' = Append(offset, o)
      BY <1>1, <2>1, SameSize DEF Offset, bytes, Inv, TypeInv
  <2>4. Len(offset') = k /\ offset'[k] = o /\ \A i \in 1..Len(offset) : offset'[i] = offset[i]
      BY <2>2, <2>3 DEF Inv, TypeInv
  <2>5. bytes' = bytes
      BY <1>1 DEF Offset, bytes
  <2>6. TypeInv'
    <3>1. bytes[k] \in Nat /\ cur' \in Nat
        BY <1>s, <2>1, <2>2, <2>3
    <3>2. offset' \in Seq(Nat) /\ Len(offset') <= Len(sizes)
        BY <2>1, <2>2, <2>3, <2>4 DEF Inv, TypeInv
    <3>3. step = "offsets" /\ UNCHANGED <<dtype, quant, sizes, header, step, at, pos>>
        BY <1>1 DEF Offset
    <3> HIDE DEF k, o
    <3> QED BY <3>1, <3>2, <3>3 DEF Inv, TypeInv
  <2>7. OffsetsInv'
    <3> SUFFICES ASSUME NEW i \in 1..k
                 PROVE  /\ offset'[i] % 32 = 0
                        /\ offset'[i] + bytes[i] <= IF i = k THEN cur' ELSE offset'[i + 1]
        BY <2>1, <2>4, <2>5 DEF OffsetsInv, Inv, TypeInv
    <3>1. CASE i = k
        BY <1>s, <2>1, <2>2, <2>3, <2>4, <3>1
    <3>2. CASE i < k - 1
      <4>1. i \in 1..Len(offset) /\ i + 1 \in 1..Len(offset) /\ i # Len(offset) /\ i # k
          BY <1>o, <3>2
      <4>2. offset'[i] = offset[i] /\ offset'[i + 1] = offset[i + 1]
          BY <2>4, <4>1
      <4>3. offset[i] % 32 = 0 /\ offset[i] + bytes[i] <= offset[i + 1]
          BY <4>1 DEF Inv, OffsetsInv
      <4> QED BY <4>1, <4>2, <4>3
    <3>3. CASE i = k - 1
      <4>1. i \in 1..Len(offset) /\ i = Len(offset) /\ i + 1 = k /\ i # k /\ i \in 1..Len(sizes)
          BY <1>o, <2>1, <3>3
      <4>2. offset'[i] = offset[i] /\ offset'[i + 1] = o
          BY <2>4, <4>1
      <4>3. offset[i] % 32 = 0 /\ offset[i] + bytes[i] <= cur
          BY <4>1 DEF Inv, OffsetsInv
      <4>4. offset[i] \in Nat /\ bytes[i] \in Nat /\ cur \in Nat
          BY <1>s, <1>o, <4>1 DEF Inv, TypeInv
      <4> QED BY <2>2, <4>1, <4>2, <4>3, <4>4
    <3> QED BY <3>1, <3>2, <3>3
  <2>8. WrittenInv'
      BY <1>1 DEF Offset, Inv, TypeInv, WrittenInv
  <2> QED BY <2>6, <2>7, <2>8 DEF Inv
<1>2. ASSUME StartData PROVE Inv'
  <2>1. pos' = Base /\ Base' = Base /\ at = <<>> /\ at' = <<>>
      BY <1>2 DEF StartData, Base, Inv, TypeInv
  <2>2. bytes' = bytes
      BY <1>2 DEF StartData, bytes
  <2>3. TypeInv'
      BY <1>2, <1>b, <2>1 DEF StartData, Inv, TypeInv
  <2>4. OffsetsInv'
      BY <1>2, <2>2 DEF StartData, Inv, TypeInv, OffsetsInv
  <2>5. WrittenInv'
      BY <1>2, <2>1 DEF StartData, WrittenInv
  <2> QED BY <2>3, <2>4, <2>5 DEF Inv
<1>3. ASSUME WriteTensor PROVE Inv'
  <2> DEFINE k == Len(at) + 1
             target == Base + offset[k]
  <2>1. k \in 1..Len(sizes) /\ Len(offset) = Len(sizes) /\ offset[k] \in Nat /\ step = "data"
      BY <1>3 DEF WriteTensor, Inv, TypeInv
  <2>2. pos <= target
    <3>1. CASE at = <<>>
      <4>1. pos = Base
          BY <2>1, <3>1 DEF Inv, WrittenInv
      <4> QED BY <1>b, <2>1, <4>1
    <3>2. CASE at # <<>>
      <4>1. Len(at) \in 1..Len(offset) /\ Len(at) < Len(offset) /\ Len(at) + 1 = k
          BY <2>1, <3>2 DEF Inv, TypeInv
      <4>2. offset[Len(at)] + bytes[Len(at)] <= offset[k]
          BY <4>1 DEF Inv, OffsetsInv
      <4>3. pos = Base + offset[Len(at)] + bytes[Len(at)]
          BY <2>1, <3>2, <4>1 DEF Inv, WrittenInv
      <4>4. offset[Len(at)] \in Nat /\ bytes[Len(at)] \in Nat
          BY <1>s, <1>o, <2>1, <4>1
      <4> QED BY <1>b, <2>1, <4>2, <4>3, <4>4
    <3> QED BY <3>1, <3>2
  <2>3. at' = Append(at, target) /\ pos' = target + bytes[k] /\ step' = step
    <3>1. (IF pos < target THEN target ELSE pos) = target /\ ~(pos > target)
      <4>1. pos \in Nat /\ target \in Nat
          BY <1>b, <2>1 DEF Inv, TypeInv
      <4>2. ~(pos > target)
          BY <2>2, <4>1
      <4>3. pos < target \/ pos = target
          BY <2>2, <4>1
      <4> HIDE DEF target
      <4> QED BY <4>2, <4>3
    <3>2. bytes[k] = write_encoded(sizes[k], dtype)
        BY <2>1 DEF bytes
    <3> QED BY <1>3, <3>1, <3>2 DEF WriteTensor, Base
  <2>4. UNCHANGED <<dtype, quant, sizes, header, offset, cur>>
      BY <1>3 DEF WriteTensor
  <2>5. Base' = Base /\ bytes' = bytes
      BY <2>4 DEF Base, bytes
  <2>6. target \in Nat /\ Len(at') = k /\ at'[k] = target /\ \A i \in 1..Len(at) : at'[i] = at[i]
      BY <1>b, <2>1, <2>3 DEF Inv, TypeInv
  <2>7. TypeInv'
      BY <1>s, <2>1, <2>3, <2>4, <2>6 DEF Inv, TypeInv
  <2>8. OffsetsInv'
      BY <2>1, <2>4, <2>5 DEF Inv, TypeInv, OffsetsInv
  <2>9. \A i \in 1..Len(at') : at'[i] = Base' + offset'[i]
    <3> SUFFICES ASSUME NEW i \in 1..k PROVE at'[i] = Base + offset[i]
        BY <2>4, <2>5, <2>6
    <3>1. CASE i = k
        BY <2>6, <3>1
    <3>2. CASE i # k
      <4>1. i \in 1..Len(at)
          BY <1>o, <3>2
      <4> QED BY <2>6, <4>1 DEF Inv, WrittenInv
    <3> QED BY <3>1, <3>2
  <2>10. pos' = at'[Len(at')] + bytes'[Len(at')] /\ at' # <<>>
      BY <1>o, <2>1, <2>3, <2>5, <2>6
  <2>11. WrittenInv'
      BY <2>9, <2>10 DEF WrittenInv
  <2> QED BY <2>7, <2>8, <2>11 DEF Inv
<1>4. ASSUME Done PROVE Inv'
  <2>1. bytes' = bytes
      BY <1>4 DEF Done, bytes
  <2>2. Base' = Base
      BY <1>4 DEF Done, Base
  <2>3. TypeInv' /\ OffsetsInv'
      BY <1>4, <2>1 DEF Done, Inv, TypeInv, OffsetsInv
  <2>4. WrittenInv'
    <3>1. at # <<>> => Len(at) \in 1..Len(sizes)
        BY DEF Inv, TypeInv
    <3> QED BY <1>4, <2>1, <2>2, <3>1 DEF Done, Inv, WrittenInv
  <2> QED BY <2>3, <2>4 DEF Inv
<1>5. ASSUME UNCHANGED gguf_vars PROVE Inv'
    BY <1>5 DEF gguf_vars, Inv, TypeInv, OffsetsInv, WrittenInv, bytes, Base
<1> QED BY <1>1, <1>2, <1>3, <1>4, <1>5 DEF GgufNext

(* Reader and writer agree on the place and the size of every tensor, and no   *)
(* tensor's bytes are another's: save_gguf, save_gguf_quant, load_gguf.        *)
THEOREM LayoutAgrees == GgufSpec => []LayoutSound
<1>1. Inv => LayoutSound
  <2> SUFFICES ASSUME Inv PROVE LayoutSound
      OBVIOUS
  <2>1. step # "miscalc"
      BY DEF Inv, TypeInv
  <2>2. ASSUME NEW i \in 1..Len(at)
        PROVE  /\ at[i] = ReadAt(i)
               /\ at[i] % GGUF_ALIGN = 0
               /\ at[i] + read_decoded(sizes[i], dtype) <= IF i = Len(at) THEN pos ELSE at[i + 1]
               /\ read_decoded(sizes[i], dtype) = write_encoded(sizes[i], dtype)
    <3>1. /\ Len(offset) = Len(sizes) /\ i \in 1..Len(offset) /\ i \in 1..Len(sizes)
          /\ offset[i] \in Nat /\ sizes[i] \in Nat /\ step # "offsets" /\ at # <<>>
        BY DEF Inv, TypeInv
    <3>2. Base \in Nat /\ Base % 32 = 0
        BY AlignUp DEF Base, Inv, TypeInv
    <3>3. read_decoded(sizes[i], dtype) = bytes[i] /\ bytes[i] \in Nat
        BY <3>1, SameSize DEF bytes, Inv, TypeInv
    <3>4. at[i] = Base + offset[i] /\ offset[i] % 32 = 0
        BY <3>1 DEF Inv, WrittenInv, OffsetsInv
    <3>5. (Base + offset[i]) % 32 = 0
        BY <3>1, <3>2, <3>4
    <3>6. CASE i = Len(at)
      <4>1. pos = at[i] + bytes[i] /\ pos \in Nat
          BY <3>1, <3>6 DEF Inv, TypeInv, WrittenInv
      <4>2. at[i] + read_decoded(sizes[i], dtype) <= pos
          BY <3>3, <4>1
      <4>3. read_decoded(sizes[i], dtype) = write_encoded(sizes[i], dtype)
          BY <3>1, <3>3 DEF bytes
      <4>4. at[i] = ReadAt(i) /\ at[i] % GGUF_ALIGN = 0
          BY <3>4, <3>5 DEF ReadAt, Base, GGUF_ALIGN
      <4> QED BY <3>6, <4>2, <4>3, <4>4
    <3>7. CASE i # Len(at)
      <4>1. i + 1 \in 1..Len(at) /\ i # Len(offset) /\ offset[i + 1] \in Nat
        <5>1. Len(at) \in Nat /\ Len(at) <= Len(offset) /\ Len(offset) \in Nat /\ offset \in Seq(Nat)
            BY <3>1 DEF Inv, TypeInv
        <5>2. i + 1 \in 1..Len(at) /\ i # Len(offset) /\ i + 1 \in 1..Len(offset)
            BY <3>7, <5>1
        <5> QED BY <5>1, <5>2
      <4>2. at[i + 1] = Base + offset[i + 1]
          BY <4>1 DEF Inv, WrittenInv
      <4>3. offset[i] + bytes[i] <= offset[i + 1]
          BY <3>1, <4>1 DEF Inv, OffsetsInv
      <4>4. at[i] + bytes[i] <= at[i + 1]
          BY <3>1, <3>2, <3>3, <3>4, <4>1, <4>2, <4>3
      <4>5. read_decoded(sizes[i], dtype) = write_encoded(sizes[i], dtype)
          BY <3>1, <3>3 DEF bytes
      <4>6. at[i] = ReadAt(i) /\ at[i] % GGUF_ALIGN = 0
          BY <3>4, <3>5 DEF ReadAt, Base, GGUF_ALIGN
      <4> QED BY <3>3, <3>7, <4>4, <4>5, <4>6
    <3> QED BY <3>6, <3>7
  <2> QED BY <2>1, <2>2 DEF LayoutSound
<1> QED BY <1>1, InitIsSound, StepIsSound, PTL DEF GgufSpec

-------------------------------------------------------------------------------
(* A character that begins at t is cut by the end of s.                        *)
Broken(s, t) == /\ Len(s) - t + 1 < Announced(s[t])
                /\ \A k \in (t + 1)..Len(s) : s[k] = "cont"

LEMMA AnnouncedIs ==
    ASSUME NEW b \in Class
    PROVE  /\ Announced(b) \in 1..4
           /\ b \in {"ascii", "cont", "bad"} => Announced(b) = 1
<1>1. b \in {"ascii", "lead2", "lead3", "lead4", "cont", "bad"}
  BY DEF Class
<1>2. CASE b = "lead2"
  BY <1>2 DEF Announced
<1>3. CASE b = "lead3"
  BY <1>3 DEF Announced
<1>4. CASE b = "lead4"
  BY <1>4 DEF Announced
<1>5. CASE b \in {"ascii", "cont", "bad"}
  BY <1>5 DEF Announced
<1>. QED
  BY <1>1, <1>2, <1>3, <1>4, <1>5

(* decode_incremental holds back from where a character is cut, and only there *)
(* (it looks at the last four bytes).                                          *)
LEMMA HeldIsBroken ==
    ASSUME NEW raw \in Seq(Class), NEW i \in 1..Len(raw)
    PROVE  i \in HeldFrom(raw) <=> Broken(raw, i)
<1>1. raw[i] \in Class /\ Len(raw) \in Nat /\ i \in Nat /\ i <= Len(raw)
  OBVIOUS
<1>2. /\ Announced(raw[i]) \in 1..4
      /\ raw[i] \in {"ascii", "cont", "bad"} => Announced(raw[i]) = 1
  BY <1>1, AnnouncedIs
<1>3. utf8_need(raw, i) > Len(raw) - i + 1 <=> Len(raw) - i + 1 < Announced(raw[i])
  BY <1>1, <1>2 DEF utf8_need
<1>4. Len(raw) - i + 1 < Announced(raw[i]) => i > Len(raw) - 4 /\ raw[i] \notin {"cont", "bad"}
  BY <1>1, <1>2
<1>. QED
  BY <1>3, <1>4 DEF HeldFrom, Broken, AllCont

(* At most one character is cut by the end.                                    *)
LEMMA OneIsBroken ==
    ASSUME NEW raw \in Seq(Class), NEW i \in 1..Len(raw), NEW j \in 1..Len(raw),
           Broken(raw, i), Broken(raw, j)
    PROVE  i = j
<1>1. ASSUME NEW a \in 1..Len(raw), NEW b \in 1..Len(raw), Broken(raw, a), Broken(raw, b), a < b
      PROVE  FALSE
  <2>1. raw[b] = "cont"
    BY <1>1 DEF Broken
  <2>2. Announced(raw[b]) = 1
    BY <2>1, AnnouncedIs DEF Class
  <2>. QED
    BY <1>1, <2>2 DEF Broken
<1>2. Len(raw) \in Nat
  OBVIOUS
<1>. QED
  BY <1>1, <1>2

(* What is held back is a cut character, or nothing when none is cut.          *)
LEMMA Holds ==
    ASSUME NEW raw \in Seq(Class),
           NEW i, i = IF HeldFrom(raw) = {} THEN Len(raw) + 1
                      ELSE CHOOSE k \in HeldFrom(raw) : \A l \in HeldFrom(raw) : k <= l
    PROVE  /\ i \in 1..(Len(raw) + 1)
           /\ i <= Len(raw) => Broken(raw, i)
           /\ \A j \in 1..Len(raw) : Broken(raw, j) => i = j
<1>1. Len(raw) \in Nat
  OBVIOUS
<1>2. HeldFrom(raw) \subseteq 1..Len(raw)
  BY DEF HeldFrom
<1>3. CASE HeldFrom(raw) = {}
  <2>1. i = Len(raw) + 1
    BY <1>3
  <2>2. \A j \in 1..Len(raw) : ~Broken(raw, j)
    BY <1>3, HeldIsBroken
  <2>. QED
    BY ONLY <1>1, <2>1, <2>2
<1>4. CASE HeldFrom(raw) # {}
  <2>1. PICK h \in HeldFrom(raw) : TRUE
    BY <1>4
  <2>2. h \in 1..Len(raw) /\ Broken(raw, h)
    BY <2>1, <1>2, HeldIsBroken
  <2>3. \A l \in HeldFrom(raw) : l = h
    <3>1. SUFFICES ASSUME NEW l \in HeldFrom(raw) PROVE l = h
      OBVIOUS
    <3>2. l \in 1..Len(raw) /\ Broken(raw, l)
      BY <1>2, HeldIsBroken
    <3>. QED
      BY <2>2, <3>2, OneIsBroken
  <2>4. HeldFrom(raw) = {h}
    BY <2>1, <2>3
  <2>5. i = h
    BY <1>1, <1>4, <2>2, <2>4
  <2>6. \A j \in 1..Len(raw) : Broken(raw, j) => j = h
    BY <2>2, OneIsBroken
  <2>. QED
    BY ONLY <1>1, <2>2, <2>5, <2>6
<1>. QED
  BY <1>3, <1>4

(* What has been fed is what was printed and what is held back, and the        *)
(* character that the end of it cuts, if any, is the one held back.            *)
StreamTypes == fed \in Seq(Class) /\ out \in Seq(Class) /\ carry \in Seq(Class) /\ ended \in BOOLEAN
HeldBack == /\ carry # <<>> => Broken(carry, 1)
            /\ ~ended => \A t \in 1..Len(fed) : Broken(fed, t) => t = Len(out) + 1
StreamInv == StreamTypes /\ out \o carry = fed /\ HeldBack

LEMMA StreamStarts == StreamInit => StreamInv
<1>1. <<>> \in Seq(Class) /\ <<>> \o <<>> = <<>> /\ Len(<<>>) = 0
  BY EmptySeq, ConcatEmptySeq
<1>2. 1..0 = {}
  OBVIOUS
<1>. QED
  BY <1>1, <1>2 DEF StreamInit, StreamInv, StreamTypes, HeldBack

(* A character is cut in the part it begins in exactly when it is in the whole.*)
LEMMA BrokenTail ==
    ASSUME NEW s \in Seq(Class), NEW r \in Seq(Class), NEW t \in 1..Len(r)
    PROVE  Broken(s \o r, Len(s) + t) <=> Broken(r, t)
<1>1. Len(s) \in Nat /\ Len(r) \in Nat /\ Len(s \o r) = Len(s) + Len(r)
  OBVIOUS
<1>2. \A k \in 1..Len(r) : (s \o r)[Len(s) + k] = r[k]
  OBVIOUS
<1>3. ASSUME Broken(s \o r, Len(s) + t), NEW k \in (t + 1)..Len(r) PROVE r[k] = "cont"
  <2>1. Len(s) + k \in (Len(s) + t + 1)..Len(s \o r)
    BY <1>1
  <2>2. (s \o r)[Len(s) + k] = "cont"
    BY <1>3, <2>1 DEF Broken
  <2>. QED
    BY <1>1, <1>2, <2>2
<1>4. ASSUME Broken(r, t), NEW k \in (Len(s) + t + 1)..Len(s \o r) PROVE (s \o r)[k] = "cont"
  <2>1. k - Len(s) \in (t + 1)..Len(r) /\ k - Len(s) \in 1..Len(r) /\ Len(s) + (k - Len(s)) = k
    BY <1>1
  <2>2. r[k - Len(s)] = "cont"
    BY <1>4, <2>1 DEF Broken
  <2>. QED
    BY <1>2, <2>1, <2>2
<1>5. Len(s \o r) - (Len(s) + t) + 1 = Len(r) - t + 1 /\ (s \o r)[Len(s) + t] = r[t]
  BY <1>1, <1>2
<1>. QED
  BY <1>3, <1>4, <1>5 DEF Broken

(* If the end of a longer sequence cuts a character that has begun in a        *)
(* shorter one, the end of the shorter one cuts it too.                        *)
LEMMA BrokenHead ==
    ASSUME NEW s \in Seq(Class), NEW r \in Seq(Class), NEW t \in 1..Len(s), Broken(s \o r, t)
    PROVE  Broken(s, t)
<1>1. Len(s) \in Nat /\ Len(r) \in Nat /\ Len(s \o r) = Len(s) + Len(r)
  OBVIOUS
<1>2. \A k \in 1..Len(s) : (s \o r)[k] = s[k]
  OBVIOUS
<1>3. Announced(s[t]) \in Nat /\ Announced((s \o r)[t]) = Announced(s[t])
  BY <1>2, AnnouncedIs
<1>4. Len(s) - t + 1 < Announced(s[t])
  BY <1>1, <1>3 DEF Broken
<1>5. ASSUME NEW k \in (t + 1)..Len(s) PROVE s[k] = "cont"
  BY <1>1, <1>2 DEF Broken
<1>. QED
  BY <1>4, <1>5 DEF Broken

Reassociates(s, t, u) == (s \o t) \o u = s \o (t \o u)

LEMMA Reassociate ==
    ASSUME NEW s \in Seq(Class), NEW t \in Seq(Class), NEW u \in Seq(Class)
    PROVE  Reassociates(s, t, u)
  BY DEF Reassociates

LEMMA TokenKeeps ==
    ASSUME StreamInv, NEW bytes_in \in Chunks, Token(bytes_in)
    PROVE  StreamInv'
<1> DEFINE raw == carry \o bytes_in
           i == IF HeldFrom(raw) = {} THEN Len(raw) + 1
                ELSE CHOOSE k \in HeldFrom(raw) : \A l \in HeldFrom(raw) : k <= l
<1>0. /\ fed \in Seq(Class) /\ out \in Seq(Class) /\ carry \in Seq(Class)
      /\ out \o carry = fed /\ ended = FALSE
  BY DEF StreamInv, StreamTypes, Token
<1>1. bytes_in \in Seq(Class)
  BY StreamAssumption DEF Chunks
<1>2. raw \in Seq(Class) /\ Len(raw) \in Nat /\ Len(raw) = Len(carry) + Len(bytes_in)
  BY <1>0, <1>1
<1>3. /\ i \in 1..(Len(raw) + 1)
      /\ i <= Len(raw) => Broken(raw, i)
      /\ \A j \in 1..Len(raw) : Broken(raw, j) => i = j
  <2>1. i = IF HeldFrom(raw) = {} THEN Len(raw) + 1
            ELSE CHOOSE k \in HeldFrom(raw) : \A l \in HeldFrom(raw) : k <= l
    OBVIOUS
  <2> HIDE DEF i, raw
  <2>. QED
    BY <1>2, <2>1, Holds
<1>4. /\ carry' = SubSeq(raw, i, Len(raw)) /\ out' = out \o SubSeq(raw, 1, i - 1)
      /\ fed' = fed \o bytes_in /\ ended' = FALSE
  BY <1>0 DEF Token, decode_incremental
<1> HIDE DEF raw, i
<1>5. /\ carry' \in Seq(Class) /\ Len(carry') = (Len(raw) - i) + 1
      /\ \A k \in 1..Len(carry') : carry'[k] = raw[(i - 1) + k]
  BY <1>2, <1>3, <1>4
<1>6. /\ SubSeq(raw, 1, i - 1) \in Seq(Class) /\ Len(SubSeq(raw, 1, i - 1)) = i - 1
      /\ SubSeq(raw, 1, i - 1) \o carry' = raw
  <2>1. SubSeq(raw, 1, i - 1) \in Seq(Class) /\ Len(SubSeq(raw, 1, i - 1)) = i - 1
    BY <1>2, <1>3
  <2>2. SubSeq(raw, 1, i - 1) \o SubSeq(raw, (i - 1) + 1, Len(raw)) = SubSeq(raw, 1, Len(raw))
    <3>1. 1 \in 1..(Len(raw) + 1) /\ i - 1 \in (1 - 1)..Len(raw) /\ Len(raw) \in (i - 1)..Len(raw)
      BY <1>2, <1>3
    <3>. QED
      BY <1>2, <3>1, ConcatAdjacentSubSeq
  <2>3. (i - 1) + 1 = i /\ SubSeq(raw, 1, Len(raw)) = raw
    BY <1>2, <1>3, SubSeqFull
  <2>. QED
    BY <1>4, <2>1, <2>2, <2>3
<1>7. out' \in Seq(Class) /\ Len(out') = Len(out) + (i - 1) /\ out' \o carry' = out \o raw
  <2>1. out' \in Seq(Class) /\ Len(out') = Len(out) + (i - 1)
    BY <1>0, <1>4, <1>6
  <2>2. (out \o SubSeq(raw, 1, i - 1)) \o carry' = out \o (SubSeq(raw, 1, i - 1) \o carry')
    <3>1. Reassociates(out, SubSeq(raw, 1, i - 1), carry')
      BY <1>0, <1>5, <1>6, Reassociate
    <3>. QED
      BY ONLY <3>1 DEF Reassociates
  <2>. QED
    BY <1>4, <1>6, <2>1, <2>2
<1>8. fed' = out \o raw /\ fed' \in Seq(Class)
  <2>1. (out \o carry) \o bytes_in = out \o (carry \o bytes_in)
    <3>1. Reassociates(out, carry, bytes_in)
      BY <1>0, <1>1, Reassociate
    <3>. QED
      BY ONLY <3>1 DEF Reassociates
  <2>. QED
    BY <1>0, <1>1, <1>4, <2>1 DEF raw
<1>9. ASSUME carry' # <<>> PROVE Broken(carry', 1)
  <2>1. i <= Len(raw) /\ 1 \in 1..Len(carry')
    BY <1>2, <1>3, <1>5, <1>9
  <2>2. Broken(SubSeq(raw, 1, i - 1) \o carry', Len(SubSeq(raw, 1, i - 1)) + 1)
    <3>1. Broken(raw, i) /\ (i - 1) + 1 = i
      BY <1>2, <1>3, <2>1
    <3>. QED
      BY ONLY <1>6, <3>1
  <2>. QED
    BY <1>5, <1>6, <2>1, <2>2, BrokenTail
<1>10. ASSUME NEW t \in 1..Len(fed'), Broken(fed', t) PROVE t = Len(out') + 1
  <2>0. Len(out) \in Nat /\ Len(fed') = Len(out) + Len(raw) /\ Len(fed) = Len(out) + Len(carry)
        /\ Len(carry) \in Nat
    <3>1. Len(out \o raw) = Len(out) + Len(raw) /\ Len(out \o carry) = Len(out) + Len(carry)
          /\ Len(out) \in Nat /\ Len(carry) \in Nat
      BY ONLY <1>0, <1>2, ConcatProperties, LenProperties
    <3>. QED
      BY <1>0, <1>8, <3>1
  <2>1. CASE t > Len(out)
    <3>1. t - Len(out) \in 1..Len(raw) /\ Len(out) + (t - Len(out)) = t
      BY <1>2, <2>0, <2>1
    <3>2. Broken(raw, t - Len(out))
      BY <1>0, <1>2, <1>8, <1>10, <3>1, BrokenTail
    <3>3. i = t - Len(out)
      BY <1>3, <3>1, <3>2
    <3>. QED
      BY <1>7, <2>0, <3>1, <3>3
  <2>2. CASE t <= Len(out)
    <3>1. t \in 1..Len(fed)
      BY <2>0, <2>2
    <3>2. Broken(fed, t)
      BY <1>0, <1>1, <1>4, <1>10, <3>1, BrokenHead
    <3>3. t = Len(out) + 1
      BY <1>0, <3>1, <3>2 DEF StreamInv, HeldBack
    <3>. QED
      BY <2>0, <2>2, <3>3
  <2>. QED
    BY <2>0, <2>1, <2>2
<1>. QED
  BY <1>4, <1>5, <1>7, <1>8, <1>9, <1>10 DEF StreamInv, StreamTypes, HeldBack

LEMMA FinishKeeps ==
    ASSUME StreamInv, Finish
    PROVE  StreamInv'
<1>1. carry \in Seq(Class) /\ out \in Seq(Class) /\ out \o carry = fed
  BY DEF StreamInv, StreamTypes
<1>2. out' = fed /\ fed' = fed /\ carry' = <<>> /\ ended' = TRUE
  BY <1>1 DEF Finish
<1>3. fed \in Seq(Class) /\ fed \o <<>> = fed
  BY <1>1, ConcatProperties, ConcatEmptySeq
<1>4. <<>> \in Seq(Class)
  BY EmptySeq
<1>. QED
  BY <1>1, <1>2, <1>3, <1>4 DEF StreamInv, StreamTypes, HeldBack

(* No sequence of whole characters ends with a cut one.                        *)
LEMMA TextIsWhole ==
    ASSUME NEW s \in Seq(Class), Text(s), NEW t \in 1..Len(s), Broken(s, t)
    PROVE  FALSE
<1>1. PICK k \in Int : 0 <= k /\ k < Len(s) /\ Character(SubSeq(s, k + 1, Len(s)))
  <2>1. PICK cuts \in SUBSET (0..Len(s)) :
            /\ Len(s) \in cuts
            /\ \A n \in cuts \ {0} : \E k \in cuts : k < n /\ Character(SubSeq(s, k + 1, n))
    BY DEF Text
  <2>2. Len(s) \in cuts \ {0}
    BY <2>1
  <2>. QED
    BY <2>1, <2>2
<1> DEFINE last == SubSeq(s, k + 1, Len(s))
<1>2. /\ last \in Seq(Class) /\ Len(last) = Len(s) - k /\ Len(s) \in Nat
      /\ \A j \in 1..Len(last) : last[j] = s[k + j]
  BY <1>1
<1>3. /\ Len(last) = Announced(last[1]) /\ last[1] \notin {"cont", "bad"}
      /\ \A j \in 2..Len(last) : last[j] = "cont"
  BY <1>1 DEF Character, AllCont
<1>4. 1 \in 1..Len(last) /\ last[1] = s[k + 1]
  BY <1>1, <1>2
<1> HIDE DEF last
<1>5. ~(t > k + 1)
  <2>1. SUFFICES ASSUME t > k + 1 PROVE FALSE
    OBVIOUS
  <2>2. (t - k) \in 2..Len(last) /\ (t - k) \in 1..Len(last) /\ k + (t - k) = t
    BY <1>1, <1>2, <2>1
  <2>3. s[t] = "cont"
    BY <1>2, <1>3, <2>2
  <2>4. Announced(s[t]) = 1
    BY <2>3, AnnouncedIs DEF Class
  <2>. QED
    BY <1>2, <2>4 DEF Broken
<1>6. ~(t < k + 1)
  <2>1. SUFFICES ASSUME t < k + 1 PROVE FALSE
    OBVIOUS
  <2>2. (k + 1) \in (t + 1)..Len(s)
    BY <1>1, <1>2, <2>1
  <2>3. s[k + 1] = "cont"
    BY <2>2 DEF Broken
  <2>. QED
    BY <1>3, <1>4, <2>3
<1>7. t = k + 1
  BY <1>1, <1>5, <1>6
<1>8. Announced(s[t]) = (Len(s) - t) + 1
  BY <1>1, <1>2, <1>3, <1>4, <1>7
<1>9. Len(s) - t + 1 < Announced(s[t])
  BY DEF Broken
<1>. QED
  BY <1>2, <1>8, <1>9

(* The invariant is what the streaming decoder promises.                       *)
LEMMA StreamInvIsWhole == StreamInv => StreamWhole
<1> SUFFICES ASSUME StreamInv PROVE StreamWhole
  OBVIOUS
<1>1. /\ fed \in Seq(Class) /\ out \in Seq(Class) /\ carry \in Seq(Class)
      /\ out \o carry = fed
      /\ Len(out) \in Nat /\ Len(carry) \in Nat /\ Len(fed) = Len(out) + Len(carry)
  BY DEF StreamInv, StreamTypes
<1>2. Incomplete(carry)
  <2>1. CASE carry = <<>>
    BY <2>1 DEF Incomplete
  <2>2. CASE carry # <<>>
    <3>1. Len(carry) - 1 + 1 < Announced(carry[1]) /\ \A j \in (1 + 1)..Len(carry) : carry[j] = "cont"
      BY <2>2 DEF StreamInv, HeldBack, Broken
    <3>2. Len(carry) - 1 + 1 = Len(carry)
      BY <1>1
    <3>. QED
      BY <3>1, <3>2 DEF Incomplete, AllCont
  <2>. QED
    BY <2>1, <2>2
<1>3. ASSUME ~ended, NEW n \in 0..Len(fed),
             Text(SubSeq(fed, 1, n)), Incomplete(SubSeq(fed, n + 1, Len(fed)))
      PROVE  out = SubSeq(fed, 1, n)
  <2> DEFINE tail == SubSeq(fed, n + 1, Len(fed))
  <2>1. /\ tail \in Seq(Class) /\ Len(tail) = Len(fed) - n
        /\ \A j \in 1..Len(tail) : tail[j] = fed[n + j]
    BY <1>1
  <2>2. SubSeq(fed, 1, Len(out)) = out
    BY <1>1
  <2> HIDE DEF tail
  <2>3. CASE n < Len(fed)
    <3>1. 1 \in 1..Len(tail) /\ tail # <<>> /\ n + 1 \in 1..Len(fed)
      BY <1>1, <2>1, <2>3
    <3>2. Len(tail) < Announced(tail[1]) /\ \A j \in 2..Len(tail) : tail[j] = "cont"
      BY <1>3, <3>1 DEF tail, Incomplete, AllCont
    <3>3. ASSUME NEW j \in ((n + 1) + 1)..Len(fed) PROVE fed[j] = "cont"
      <4>1. (j - n) \in 2..Len(tail) /\ (j - n) \in 1..Len(tail) /\ n + (j - n) = j
        BY <1>1, <2>1
      <4>. QED
        BY <2>1, <3>2, <4>1
    <3>4. Len(fed) - (n + 1) + 1 < Announced(fed[n + 1])
      <4>1. Len(fed) - (n + 1) + 1 = Len(tail) /\ tail[1] = fed[n + 1]
        BY <1>1, <2>1, <3>1
      <4>. QED
        BY <3>2, <4>1
    <3>5. Broken(fed, n + 1)
      BY <3>3, <3>4 DEF Broken
    <3>6. n + 1 = Len(out) + 1
      BY <1>3, <3>1, <3>5 DEF StreamInv, HeldBack
    <3>. QED
      <4>1. n \in Nat /\ Len(out) = n
        BY <1>1, <3>6
      <4>. QED
        BY ONLY <2>2, <4>1
  <2>4. CASE n = Len(fed)
    <3>1. Text(fed)
      <4>1. SubSeq(fed, 1, n) = fed
        BY <1>1, <2>4, SubSeqFull
      <4>. QED
        BY <1>3, <4>1
    <3>2. carry = <<>>
      <4>1. SUFFICES ASSUME carry # <<>> PROVE FALSE
        OBVIOUS
      <4>2. 1 \in 1..Len(carry) /\ Broken(carry, 1) /\ Len(out) + 1 \in 1..Len(fed)
        BY <1>1, <4>1 DEF StreamInv, HeldBack
      <4>3. Broken(fed, Len(out) + 1)
        BY <1>1, <4>2, BrokenTail
      <4>. QED
        BY <1>1, <3>1, <4>2, <4>3, TextIsWhole
    <3>3. Len(out) = Len(fed)
      BY <1>1, <3>2
    <3>. QED
      BY <2>2, <2>4, <3>3
  <2>5. n < Len(fed) \/ n = Len(fed)
    BY ONLY <1>1, n \in 0..Len(fed)
  <2>. QED
    BY ONLY <2>3, <2>4, <2>5
<1>. QED
  BY <1>1, <1>2, <1>3 DEF StreamWhole

(* However the bytes are cut into tokens, none is lost, repeated or moved, at  *)
(* most an incomplete character is held back, and of a text everything but an  *)
(* incomplete character at its end has been printed: decode_incremental.       *)
THEOREM StreamIsWhole == StreamSpec => []StreamWhole
<1>1. StreamInv /\ [StreamNext]_stream_vars => StreamInv'
  <2> SUFFICES ASSUME StreamInv, [StreamNext]_stream_vars PROVE StreamInv'
    OBVIOUS
  <2>1. CASE Finish
    BY <2>1, FinishKeeps
  <2>2. ASSUME NEW bytes_in \in Chunks, Token(bytes_in) PROVE StreamInv'
    BY <2>2, TokenKeeps
  <2>3. CASE UNCHANGED stream_vars
    BY <2>3 DEF stream_vars, StreamInv, StreamTypes, HeldBack
  <2>. QED
    BY <2>1, <2>2, <2>3 DEF StreamNext
<1>. QED
  BY <1>1, StreamStarts, StreamInvIsWhole, PTL DEF StreamSpec

-------------------------------------------------------------------------------
(* The float of a half that is neither subnormal nor infinite.                 *)
LEMMA NormalHalf ==
    ASSUME NEW h \in Nat, h \div 1024 # 0, h \div 1024 # 31
    PROVE  f16_to_f32(h) = [e |-> (h \div 1024) + 112, m |-> (h % 1024) * Unit]
  BY SMT DEF f16_to_f32

(* Every factor of a Q4_K block in the normal range of halves, and every       *)
(* larger one, becomes the nearest half: f32_to_f16, f16_to_f32.               *)
THEOREM HalvesAreNearest ==
    ASSUME NEW e \in Nat, 113 <= e, e <= 255, NEW m \in Nat, m < Implicit
    PROVE  NearestHalf(f32_to_f16(e, m), e, m)
<1> DEFINE half == Shifted(m, Unit)
           exp == (e - 127) + 15
           h == f32_to_f16(e, m)
<1>1. 113 <= e /\ e <= 255 /\ m <= 8388607 /\ exp = e - 112
  BY SMT DEF Implicit
<1>2. /\ m = (m \div 8192) * 8192 + (m % 8192)
      /\ m % 8192 \in Nat /\ m % 8192 < 8192 /\ m \div 8192 \in Nat /\ m \div 8192 < 1024
  BY SMT, <1>1
<1>3. \/ half = m \div 8192 /\ m % 8192 <= 4096 /\ (m % 8192 = 4096 => half % 2 = 0)
      \/ half = (m \div 8192) + 1 /\ m % 8192 >= 4096 /\ (m % 8192 = 4096 => half % 2 = 0)
  BY SMT, <1>2 DEF Shifted, Unit
<1>4. h = IF exp >= 31 THEN 31743
          ELSE IF half < 1024 THEN exp * 1024 + half
          ELSE IF exp + 1 >= 31 THEN 31743 ELSE (exp + 1) * 1024
  BY SMT, <1>1 DEF f32_to_f16
<1> HIDE DEF half, exp, h
<1>5. half \in Nat /\ half <= 1024 /\ exp \in Nat /\ 1 <= exp
  BY SMT, <1>1, <1>2, <1>3
<1>6. /\ -4096 <= half * 8192 - m /\ half * 8192 - m <= 4096
      /\ half * 8192 - m \in {-4096, 4096} => half % 2 = 0
  BY SMT, <1>1, <1>2, <1>3, <1>5
<1>7. CASE exp >= 31
  BY SMT, <1>1, <1>4, <1>7 DEF NearestHalf, h
<1>8. CASE exp < 31 /\ half < 1024
  <2>1. h = exp * 1024 + half /\ h \div 1024 = exp /\ h % 1024 = half /\ h % 2 = half % 2
    BY SMT, <1>4, <1>5, <1>8
  <2>2. f16_to_f32(h) = [e |-> exp + 112, m |-> half * 8192]
    <3>1. exp # 0 /\ exp # 31
      BY SMT, <1>5, <1>8
    <3>2. f16_to_f32(h) = [e |-> exp + 112, m |-> half * Unit]
      BY SMT, <1>5, <2>1, <3>1, NormalHalf
    <3>. QED
      BY SMT, <3>2 DEF Unit
  <2>3. exp + 112 = e
    BY SMT, <1>1, <1>5
  <2>. QED
    BY SMT, <1>6, <2>1, <2>2, <2>3 DEF NearestHalf, h
<1>9. CASE exp < 31 /\ half = 1024
  <2>1. CASE exp = 30
    <3>1. h = 31743 /\ e = 142
      BY SMT, <1>1, <1>4, <1>5, <1>9, <2>1
    <3>2. m > 1023 * 8192
      BY SMT, <1>1, <1>2, <1>3, <1>9
    <3>. QED
      BY SMT, <3>1, <3>2 DEF NearestHalf, h, Unit
  <2>2. CASE exp < 30
    <3>1. h = (exp + 1) * 1024 /\ h \div 1024 = exp + 1 /\ h % 1024 = 0 /\ h % 2 = 0
      BY SMT, <1>4, <1>5, <1>9, <2>2
    <3>2. f16_to_f32(h) = [e |-> (exp + 1) + 112, m |-> 0]
      BY SMT, <1>5, <2>2, <3>1 DEF f16_to_f32, Unit
    <3>3. (exp + 1) + 112 = e + 1 /\ e # e + 1
      BY SMT, <1>1, <1>5
    <3>4. -4096 <= (8388608 + 2 * 0) - m /\ (8388608 + 2 * 0) - m <= 4096
      BY SMT, <1>1, <1>6, <1>9
    <3>. QED
      BY SMT, <3>1, <3>2, <3>3, <3>4 DEF NearestHalf, h, Implicit
  <2>. QED
    BY SMT, <1>5, <1>9, <2>1, <2>2
<1>. QED
  BY SMT, <1>5, <1>7, <1>8, <1>9

(* The eight scales and mins of a Q4_K block come back from the twelve bytes   *)
(* they are packed in: q4k_unpack_scales.                                      *)
THEOREM ScalesArePacked ==
    ASSUME NEW sc \in [0..7 -> 0..63], NEW mn \in [0..7 -> 0..63], NEW j \in 0..7
    PROVE  q4k_unpack_scales(PackScales(sc, mn), j) = [sc |-> sc[j], mn |-> mn[j]]
<1> DEFINE p == PackScales(sc, mn)
<1>1. \A k \in 0..7 : sc[k] \in 0..63 /\ mn[k] \in 0..63
  OBVIOUS
<1>2. /\ \A k \in 0..3 : p[k] = (sc[k] % 64) + (sc[k + 4] \div 16) * 64
      /\ \A k \in 4..7 : p[k] = (mn[k - 4] % 64) + (mn[k] \div 16) * 64
      /\ \A k \in 8..11 : p[k] = (sc[k - 4] % 16) + (mn[k - 4] % 16) * 16
  BY DEF PackScales
<1> HIDE DEF p
<1>3. CASE j < 4
  <2>1. /\ p[j] = (sc[j] % 64) + (sc[j + 4] \div 16) * 64
        /\ p[j + 4] = (mn[j] % 64) + (mn[j + 4] \div 16) * 64
    <3>1. j \in 0..3 /\ j + 4 \in 4..7 /\ (j + 4) - 4 = j
      BY <1>3
    <3>. QED
      BY <1>2, <3>1
  <2>2. sc[j] \in 0..63 /\ mn[j] \in 0..63 /\ sc[j + 4] \in 0..63 /\ mn[j + 4] \in 0..63
    BY <1>1, <1>3
  <2>3. p[j] % 64 = sc[j] /\ p[j + 4] % 64 = mn[j]
    BY ONLY <2>1, <2>2
  <2>. QED
    BY <1>3, <2>3 DEF q4k_unpack_scales, p
<1>4. CASE j >= 4
  <2>1. /\ p[j + 4] = (sc[j] % 16) + (mn[j] % 16) * 16
        /\ p[j - 4] = (sc[j - 4] % 64) + (sc[j] \div 16) * 64
        /\ p[j] = (mn[j - 4] % 64) + (mn[j] \div 16) * 64
    <3>1. /\ j + 4 \in 8..11 /\ (j + 4) - 4 = j
          /\ j - 4 \in 0..3 /\ (j - 4) + 4 = j /\ j \in 4..7
      BY <1>4
    <3>. QED
      BY <1>2, <3>1
  <2>2. sc[j] \in 0..63 /\ mn[j] \in 0..63 /\ sc[j - 4] \in 0..63 /\ mn[j - 4] \in 0..63
    BY <1>1, <1>4
  <2>3. /\ p[j + 4] % 16 = sc[j] % 16 /\ p[j + 4] \div 16 = mn[j] % 16
        /\ p[j - 4] \div 64 = sc[j] \div 16 /\ p[j] \div 64 = mn[j] \div 16
    BY ONLY <2>1, <2>2
  <2>4. /\ (sc[j] % 16) + (sc[j] \div 16) * 16 = sc[j]
        /\ (mn[j] % 16) + (mn[j] \div 16) * 16 = mn[j]
    BY ONLY <2>2
  <2>. QED
    BY <1>4, <2>3, <2>4 DEF q4k_unpack_scales, p
<1>. QED
  BY <1>3, <1>4

(* Of the two halves of a byte, each holds one element.                        *)
LEMMA OneElementAt ==
    ASSUME NEW i \in Nat, i <= 255, NEW k \in Nat, k <= 255, Byte(i) = Byte(k), High(i) = High(k)
    PROVE  i = k
<1> DEFINE a == i \div 64
           b == i % 64
           c == k \div 64
           d == k % 64
<1>1. /\ i = 64 * a + b /\ k = 64 * c + d
      /\ a \in Nat /\ b \in Nat /\ c \in Nat /\ d \in Nat /\ b < 64 /\ d < 64
  OBVIOUS
<1>2. 32 * a + (b % 32) = 32 * c + (d % 32) /\ (b >= 32) = (d >= 32)
  BY DEF Byte, High
<1> HIDE DEF a, b, c, d
<1>3. a = c /\ b % 32 = d % 32
  BY <1>1, <1>2
<1>4. b = d
  BY <1>1, <1>2, <1>3
<1>. QED
  BY <1>1, <1>3, <1>4

LEMMA ElementPlaced ==
    ASSUME NEW i \in 0..255
    PROVE  Byte(i) \in 0..127 /\ ElementAt[Byte(i)][High(i)] = i
<1>1. i \in Nat /\ i <= 255
  OBVIOUS
<1>2. Byte(i) \in 0..127 /\ High(i) \in BOOLEAN
  BY <1>1 DEF Byte, High
<1>3. ElementAt[Byte(i)][High(i)] = CHOOSE k \in 0..255 : Byte(k) = Byte(i) /\ High(k) = High(i)
  BY <1>2 DEF ElementAt
<1>4. ASSUME NEW k \in 0..255, Byte(k) = Byte(i), High(k) = High(i) PROVE k = i
  <2>1. k \in Nat /\ k <= 255
    OBVIOUS
  <2>. QED
    BY <1>1, <1>4, <2>1, OneElementAt
<1>5. (CHOOSE k \in 0..255 : Byte(k) = Byte(i) /\ High(k) = High(i)) = i
  BY <1>4, Zenon
<1>. QED
  BY <1>2, <1>3, <1>5

LEMMA HalfFilled ==
    ASSUME NEW b \in 0..127, NEW high \in BOOLEAN
    PROVE  \E i \in 0..255 : Byte(i) = b /\ High(i) = high
<1> DEFINE a == b \div 32
           r == b % 32
           low == 64 * a + r
<1>1. b = 32 * a + r /\ a \in Nat /\ a <= 3 /\ r \in Nat /\ r < 32
  OBVIOUS
<1> HIDE DEF a, r
<1>2. \A i \in Nat : i \div 64 = a /\ (i % 64) % 32 = r => Byte(i) = b
  BY <1>1 DEF Byte
<1>3. low \in Nat /\ low <= 255 /\ low \div 64 = a /\ low % 64 = r
  BY <1>1
<1>4. low + 32 \in Nat /\ low + 32 <= 255 /\ (low + 32) \div 64 = a /\ (low + 32) % 64 = r + 32
  BY <1>1
<1> HIDE DEF low
<1>5. r % 32 = r /\ (r + 32) % 32 = r
  BY <1>1
<1>6. Byte(low) = b /\ Byte(low + 32) = b
  BY <1>2, <1>3, <1>4, <1>5
<1>7. High(low) = FALSE /\ High(low + 32) = TRUE
  BY <1>1, <1>3, <1>4 DEF High
<1>8. low \in 0..255 /\ low + 32 \in 0..255
  BY <1>3, <1>4
<1>. QED
  BY <1>6, <1>7, <1>8

\* It is some element that is packed there.
LEMMA ElementHeld ==
    ASSUME NEW q \in [0..255 -> 0..15], NEW b \in 0..127, NEW high \in BOOLEAN
    PROVE  q[ElementAt[b][high]] \in 0..15
<1> DEFINE I == 0..255
           e == ElementAt[b][high]
<1>1. e = CHOOSE i \in I : Byte(i) = b /\ High(i) = high
  BY ZenonT(30) DEF ElementAt
<1>2. \E i \in I : Byte(i) = b /\ High(i) = high
  BY HalfFilled, ZenonT(30)
<1>3. q \in [I -> 0..15]
  BY Zenon
<1> HIDE DEF I, e
<1>4. e \in I
  <2>1. (CHOOSE i \in I : Byte(i) = b /\ High(i) = high) \in I
    BY ONLY <1>2, Zenon
  <2>. QED
    BY ONLY <1>1, <2>1, Zenon
<1>5. q[e] \in 0..15
  BY ONLY <1>3, <1>4, Zenon
<1>. QED
  BY ONLY <1>5, Zenon DEF e

Unpacks(d, dmin, sc, mn, q) ==
    decode_q4k_block(PackBlock(d, dmin, sc, mn, q))
        = [i \in 0..255 |-> Factor(d) * sc[i \div 32] * q[i] - Factor(dmin) * mn[i \div 32]]

LEMMA ElementsUnpacked ==
    ASSUME NEW d, NEW dmin, NEW q \in [0..255 -> 0..15],
           NEW sc \in [0..7 -> 0..63], NEW mn \in [0..7 -> 0..63]
    PROVE  Unpacks(d, dmin, sc, mn, q)
<1> DEFINE block == PackBlock(d, dmin, sc, mn, q)
<1>1. /\ block.d = d /\ block.dmin = dmin /\ block.scales = PackScales(sc, mn)
      /\ block.qs = [b \in 0..127 |-> q[ElementAt[b][FALSE]] + 16 * q[ElementAt[b][TRUE]]]
  BY DEF PackBlock
<1> HIDE DEF block
<1>2. ASSUME NEW b \in 0..127, NEW high \in BOOLEAN PROVE q[ElementAt[b][high]] \in 0..15
  BY <1>2, ElementHeld, ZenonT(30)
<1>3. ASSUME NEW i \in 0..255
      PROVE  (IF High(i) THEN block.qs[Byte(i)] \div 16 ELSE block.qs[Byte(i)] % 16) = q[i]
  <2>1. Byte(i) \in 0..127 /\ ElementAt[Byte(i)][High(i)] = i /\ High(i) \in BOOLEAN
    <3>1. High(i) \in BOOLEAN
      BY DEF High
    <3>. QED
      BY <3>1, ElementPlaced, ZenonT(30)
  <2> DEFINE low == q[ElementAt[Byte(i)][FALSE]]
             up == q[ElementAt[Byte(i)][TRUE]]
  <2>2. block.qs[Byte(i)] = low + 16 * up /\ low \in 0..15 /\ up \in 0..15
    BY <1>1, <1>2, <2>1, Zenon
  <2>3. q[i] = IF High(i) THEN up ELSE low
    BY <2>1
  <2> HIDE DEF low, up
  <2>4. (low + 16 * up) \div 16 = up /\ (low + 16 * up) % 16 = low
    BY <2>2
  <2>. QED
    BY <2>2, <2>3, <2>4
<1>4. ASSUME NEW i \in 0..255
      PROVE  q4k_unpack_scales(block.scales, 2 * (i \div 64) + IF High(i) THEN 1 ELSE 0)
                 = [sc |-> sc[i \div 32], mn |-> mn[i \div 32]]
  <2>1. i \in Nat /\ i <= 255
    OBVIOUS
  <2>2. i \div 32 \in 0..7
    BY <2>1
  <2>3. 2 * (i \div 64) + (IF High(i) THEN 1 ELSE 0) = i \div 32
    BY <2>1 DEF High
  <2>. QED
    <3>1. q4k_unpack_scales(PackScales(sc, mn), i \div 32) = [sc |-> sc[i \div 32], mn |-> mn[i \div 32]]
      BY <2>2, ScalesArePacked
    <3>. QED
      BY <1>1, <2>3, <3>1
<1>5. ASSUME NEW i \in 0..255
      PROVE  decode_q4k_block(block)[i] = Factor(d) * sc[i \div 32] * q[i] - Factor(dmin) * mn[i \div 32]
  <2> DEFINE s == q4k_unpack_scales(block.scales, 2 * (i \div 64) + IF High(i) THEN 1 ELSE 0)
             n == IF High(i) THEN block.qs[Byte(i)] \div 16 ELSE block.qs[Byte(i)] % 16
  <2>1. decode_q4k_block(block)[i] = Factor(block.d) * s.sc * n - Factor(block.dmin) * s.mn
    BY Zenon DEF decode_q4k_block
  <2>2. s = [sc |-> sc[i \div 32], mn |-> mn[i \div 32]] /\ n = q[i]
    BY <1>3, <1>4
  <2> HIDE DEF s, n
  <2>3. s.sc = sc[i \div 32] /\ s.mn = mn[i \div 32]
    BY <2>2
  <2>. QED
    BY <1>1, <2>1, <2>2, <2>3
<1>6. decode_q4k_block(block) = [i \in 0..255 |-> decode_q4k_block(block)[i]]
  BY DEF decode_q4k_block
<1>7. decode_q4k_block(block)
          = [i \in 0..255 |-> Factor(d) * sc[i \div 32] * q[i] - Factor(dmin) * mn[i \div 32]]
  BY <1>5, <1>6
<1>. QED
  BY <1>7 DEF Unpacks, block

(* Whatever a Q4_K block is made of, each element is decoded from its own four *)
(* bits with the scale and the min of its own sub-block and the values of the  *)
(* two stored halves: encode_q4k_block, decode_q4k_block.                      *)
THEOREM ElementsArePacked ==
    ASSUME NEW d, NEW dmin, NEW q \in [0..255 -> 0..15],
           NEW sc \in [0..7 -> 0..63], NEW mn \in [0..7 -> 0..63]
    PROVE  decode_q4k_block(PackBlock(d, dmin, sc, mn, q))
               = [i \in 0..255 |-> Factor(d) * sc[i \div 32] * q[i] - Factor(dmin) * mn[i \div 32]]
<1>1. Unpacks(d, dmin, sc, mn, q)
  BY ElementsUnpacked
<1>. QED
  BY <1>1 DEF Unpacks

(* The same of a Q4_0 block, whose even elements are the low halves of its     *)
(* bytes: encode_q40_block, decode_q40_block.                                  *)
THEOREM PairsArePacked ==
    ASSUME NEW scale \in Int, NEW a \in [0..31 -> (-8)..7]
    PROVE  decode_q40_block(PackPairs(scale, a)) = [i \in 0..31 |-> a[i] * scale]
<1> DEFINE block == PackPairs(scale, a)
<1>1. /\ block.scale = scale
      /\ \A k \in 0..15 : block.packed[k] = ((a[2 * k + 1] + 8) * 16) + ((a[2 * k] + 8) % 16)
  BY DEF PackPairs
<1> HIDE DEF block
<1>2. ASSUME NEW i \in 0..31
      PROVE  (IF i % 2 = 0 THEN block.packed[i \div 2] % 16 ELSE block.packed[i \div 2] \div 16) - 8 = a[i]
  <2> DEFINE k == i \div 2
             low == a[2 * k]
             up == a[2 * k + 1]
  <2>1. k \in 0..15 /\ 2 * k \in 0..31 /\ 2 * k + 1 \in 0..31
        /\ i = 2 * k + (i % 2) /\ i % 2 \in {0, 1}
    OBVIOUS
  <2>2. low \in (-8)..7 /\ up \in (-8)..7
    BY <2>1
  <2>3. block.packed[k] = ((up + 8) * 16) + ((low + 8) % 16)
    BY <1>1, <2>1
  <2>4. /\ i % 2 = 0 => a[i] = low
        /\ i % 2 = 1 => a[i] = up
    BY <2>1
  <2> HIDE DEF low, up, k
  <2>5. block.packed[k] % 16 = low + 8 /\ block.packed[k] \div 16 = up + 8
    BY <2>2, <2>3
  <2>6. CASE i % 2 = 0
    BY <2>2, <2>4, <2>5, <2>6 DEF k
  <2>7. CASE i % 2 = 1
    BY <2>2, <2>4, <2>5, <2>7 DEF k
  <2>. QED
    BY <2>1, <2>6, <2>7
<1>3. decode_q40_block(block)
          = [i \in 0..31 |->
                ((IF i % 2 = 0 THEN block.packed[i \div 2] % 16 ELSE block.packed[i \div 2] \div 16) - 8)
                * block.scale]
  BY DEF decode_q40_block
<1>. QED
  BY <1>1, <1>2, <1>3 DEF block

-------------------------------------------------------------------------------
(* Numbers: greatest and least elements, clamping and rounding.                *)
LEMMA MaxOf ==
    ASSUME NEW S \in SUBSET Int, NEW m \in S, \A y \in S : m >= y
    PROVE  Max(S) = m
<1>1. ASSUME NEW x \in S, \A y \in S : x >= y PROVE x = m
  <2>1. x >= m /\ m >= x /\ x \in Int /\ m \in Int
    BY <1>1
  <2>. QED
    BY <2>1
<1>2. (CHOOSE x \in S : \A y \in S : x >= y) = m
  BY <1>1
<1>. QED
  BY <1>2 DEF Max

LEMMA MinOf ==
    ASSUME NEW S \in SUBSET Int, NEW m \in S, \A y \in S : m <= y
    PROVE  Min(S) = m
<1>1. ASSUME NEW x \in S, \A y \in S : x <= y PROVE x = m
  <2>1. x <= m /\ m <= x /\ x \in Int /\ m \in Int
    BY <1>1
  <2>. QED
    BY <2>1
<1>2. (CHOOSE x \in S : \A y \in S : x <= y) = m
  BY <1>1
<1>. QED
  BY <1>2 DEF Min

LEMMA ClampIn ==
    ASSUME NEW lo \in Int, NEW hi \in Int, NEW v \in Int, lo <= v, v <= hi
    PROVE  clamp(lo, hi, v) = v
<1>1. Min({hi, v}) = v
  <2>1. {hi, v} \in SUBSET Int /\ v \in {hi, v} /\ \A y \in {hi, v} : v <= y
    OBVIOUS
  <2>. QED
    BY <2>1, MinOf
<1>2. Max({lo, v}) = v
  <2>1. {lo, v} \in SUBSET Int /\ v \in {lo, v} /\ \A y \in {lo, v} : v >= y
    OBVIOUS
  <2>. QED
    BY <2>1, MaxOf
<1>. QED
  BY <1>1, <1>2 DEF clamp

LEMMA DivIs ==
    ASSUME NEW n \in Int, NEW m \in Nat, m > 0, NEW q \in Int, q * m <= n, n < q * m + m
    PROVE  n \div m = q
  BY SMT

Rounds(n, D, k) == round(n, D) = k

\* The quotient of a multiple is rounded to itself, of either sign.
LEMMA RoundExact ==
    ASSUME NEW k \in Int, NEW D \in Int, D # 0, NEW n \in Int, n = k * D
    PROVE  Rounds(n, D, k)
<1> DEFINE A == IF D < 0 THEN -D ELSE D
           N == IF n < 0 THEN -n ELSE n
           K == IF k < 0 THEN -k ELSE k
<1>1. round(n, D) = (IF (n < 0) = (D < 0) THEN 1 ELSE -1) * ((2 * N + A) \div (2 * A))
  BY DEF round, abs
<1>2. A \in Nat /\ A > 0 /\ n \in Int /\ K \in Nat
  OBVIOUS
<1>3. N = K * A /\ (k > 0 => ((n < 0) <=> (D < 0))) /\ (k < 0 => ((n < 0) <=> ~(D < 0)))
  <2>1. CASE D < 0 /\ k < 0
    <3>1. n > 0
      BY <2>1
    <3>. QED
      BY <2>1, <3>1
  <2>2. CASE D < 0 /\ k > 0
    <3>1. n < 0
      BY <2>2
    <3>. QED
      BY <2>2, <3>1
  <2>3. CASE D > 0 /\ k < 0
    <3>1. n < 0
      BY <2>3
    <3>. QED
      BY <2>3, <3>1
  <2>4. CASE D > 0 /\ k > 0
    <3>1. n > 0
      BY <2>4
    <3>. QED
      BY <2>4, <3>1
  <2>5. CASE k = 0
    BY <2>5
  <2>. QED
    BY <2>1, <2>2, <2>3, <2>4, <2>5
<1>4. (2 * N + A) \div (2 * A) = K
  <2> HIDE DEF N, K, A
  <2>1. 2 * A \in Nat /\ 2 * A > 0 /\ 2 * N + A \in Int
    BY <1>2, <1>3
  <2>2. K * (2 * A) = 2 * N
    BY <1>2, <1>3
  <2>3. K * (2 * A) <= 2 * N + A /\ 2 * N + A < K * (2 * A) + 2 * A
    BY <1>2, <1>3, <2>2
  <2>. QED
    BY <1>2, <2>1, <2>3, DivIs
<1>5. CASE k = 0
  BY <1>1, <1>4, <1>5 DEF Rounds
<1>6. CASE k > 0
  BY <1>1, <1>3, <1>4, <1>6 DEF Rounds
<1>7. CASE k < 0
  BY <1>1, <1>3, <1>4, <1>7 DEF Rounds
<1>. QED
  BY <1>5, <1>6, <1>7

LEMMA Grows ==
    ASSUME NEW a \in Int, NEW b \in Int, a <= b, NEW m \in Nat
    PROVE  a * m <= b * m /\ a * m \in Int /\ b * m \in Int
  OBVIOUS

LEMMA Least ==
    ASSUME NEW T \in SUBSET Nat, T # {}
    PROVE  \E x \in T : \A y \in T : x <= y
<1> DEFINE R == OpToRel(<, Nat)
<1>1. IsWellFoundedOn(R, Nat)
  BY NatLessThanWellFounded
<1>2. \E x \in T : \A y \in T : ~(<<y, x>> \in R)
  BY <1>1, WFMin
<1>3. \A x, y \in Nat : <<x, y>> \in R <=> x < y
  BY DEF OpToRel
<1> HIDE DEF R
<1>4. \E x \in T : \A y \in T : ~(y < x)
  BY <1>2, <1>3
<1>. QED
  BY <1>4

LEMMA SetInduction ==
    ASSUME NEW P, 0 \in P, \A n \in Nat : n \in P => n + 1 \in P
    PROVE  \A n \in Nat : n \in P
<1> SUFFICES ASSUME NEW n \in Nat, n \notin P PROVE FALSE
  OBVIOUS
<1> DEFINE T == {m \in Nat : m \notin P}
<1>1. PICK x \in T : \A y \in T : x <= y
  BY Least
<1>2. x # 0 /\ x - 1 \in Nat
  BY <1>1
<1>3. x - 1 \in P
  BY <1>1, <1>2
<1>. QED
  BY <1>1, <1>2, <1>3

\* The greatest and the least of finitely many integers.
LEMMA GreatestAt ==
    ASSUME NEW f, NEW n \in Nat, \A k \in 0..n : f[k] \in Int
    PROVE  \E i \in 0..n : \A k \in 0..n : f[k] <= f[i]
<1> DEFINE P == {m \in Nat : m <= n => \E i \in 0..m : \A k \in 0..m : f[k] <= f[i]}
<1>1. 0 \in P
  <2>1. 0 \in 0..0 /\ \A k \in 0..0 : k = 0
    OBVIOUS
  <2>2. f[0] \in Int
    OBVIOUS
  <2>. QED
    BY <2>1, <2>2
<1>2. ASSUME NEW m \in Nat, m \in P PROVE m + 1 \in P
  <2> SUFFICES ASSUME m + 1 <= n PROVE \E i \in 0..m+1 : \A k \in 0..m+1 : f[k] <= f[i]
    OBVIOUS
  <2>1. PICK i \in 0..m : \A k \in 0..m : f[k] <= f[i]
    BY <1>2
  <2>2. i \in 0..m+1 /\ m + 1 \in 0..m+1 /\ \A k \in 0..m+1 : k \in 0..m \/ k = m + 1
    OBVIOUS
  <2>3. f[i] \in Int /\ f[m + 1] \in Int /\ \A k \in 0..m+1 : f[k] \in Int
    OBVIOUS
  <2>4. CASE f[m + 1] <= f[i]
    BY <2>1, <2>2, <2>4
  <2>5. CASE f[i] < f[m + 1]
    <3>1. \A k \in 0..m+1 : f[k] <= f[m + 1]
      BY <2>1, <2>2, <2>3, <2>5
    <3>. QED
      BY <2>2, <3>1
  <2>. QED
    BY <2>3, <2>4, <2>5
<1> HIDE DEF P
<1>3. \A m \in Nat : m \in P
  BY <1>1, <1>2, SetInduction
<1>. QED
  BY <1>3 DEF P

Spans(S, lo, hi) == S \in SUBSET Int /\ lo \in S /\ hi \in S /\ \A y \in S : lo <= y /\ y <= hi

LEMMA MinMax ==
    ASSUME NEW f, NEW n \in Nat, \A k \in 0..n : f[k] \in Int, NEW S, S = {f[k] : k \in 0..n}
    PROVE  Spans(S, Min(S), Max(S))
<1>1. PICK i \in 0..n : \A k \in 0..n : f[k] <= f[i]
  BY GreatestAt
<1> DEFINE g == [k \in 0..n |-> -f[k]]
<1>2. \A k \in 0..n : g[k] \in Int /\ g[k] = -f[k]
  OBVIOUS
<1> HIDE DEF g
<1>3. PICK j \in 0..n : \A k \in 0..n : g[k] <= g[j]
  BY <1>2, GreatestAt
<1>4. \A k \in 0..n : f[j] <= f[k]
  <2>1. ASSUME NEW k \in 0..n PROVE f[j] <= f[k]
    <3>1. g[k] <= g[j] /\ g[k] = -f[k] /\ g[j] = -f[j] /\ f[k] \in Int /\ f[j] \in Int
      BY <1>2, <1>3
    <3>. QED
      BY ONLY <3>1
  <2>. QED
    BY <2>1
<1>5. S \in SUBSET Int /\ f[i] \in S /\ f[j] \in S /\ \A y \in S : f[j] <= y /\ y <= f[i]
  BY <1>1, <1>4
<1>6. Max(S) = f[i]
  <2>1. \A y \in S : f[i] >= y
    BY <1>1
  <2>. QED
    BY <1>5, <2>1, MaxOf
<1>7. Min(S) = f[j]
  BY <1>5, MinOf
<1>. QED
  BY <1>5, <1>6, <1>7 DEF Spans

LEMMA ClampIs ==
    ASSUME NEW lo \in Int, NEW hi \in Int, lo <= hi, NEW v \in Int
    PROVE  clamp(lo, hi, v) = IF v < lo THEN lo ELSE IF v > hi THEN hi ELSE v
<1>1. Min({hi, v}) = IF v > hi THEN hi ELSE v
  <2> DEFINE w == IF v > hi THEN hi ELSE v
  <2>1. {hi, v} \in SUBSET Int /\ w \in {hi, v} /\ \A y \in {hi, v} : w <= y
    OBVIOUS
  <2> HIDE DEF w
  <2>2. Min({hi, v}) = w
    BY <2>1, MinOf
  <2>. QED
    BY <2>2 DEF w
<1> DEFINE u == IF v > hi THEN hi ELSE v
           c == IF u < lo THEN lo ELSE u
<1>2. u \in Int /\ c \in {lo, u} /\ {lo, u} \in SUBSET Int /\ \A y \in {lo, u} : c >= y
  OBVIOUS
<1>3. clamp(lo, hi, v) = Max({lo, u})
  BY <1>1 DEF clamp
<1>4. c = IF v < lo THEN lo ELSE IF v > hi THEN hi ELSE v
  OBVIOUS
<1> HIDE DEF c, u
<1>5. Max({lo, u}) = c
  BY <1>2, MaxOf
<1>. QED
  BY <1>3, <1>4, <1>5

Quotients(N, D, K) == K \in Int /\ 2 * (K * D) <= 2 * N + D /\ 2 * N + D < 2 * (K * D) + 2 * D /\ K * D \in Int
LEMMA HalvesUp ==
    ASSUME NEW N \in Nat, NEW D \in Nat, D > 0
    PROVE  Quotients(N, D, (2 * N + D) \div (2 * D))
<1> DEFINE n == 2 * N + D
           m == 2 * D
           K == n \div m
<1>1. n \in Int /\ m \in Nat /\ m > 0
  OBVIOUS
<1>2. K \in Int /\ n = m * K + (n % m) /\ 0 <= n % m /\ n % m < m /\ n % m \in Int
  <2> HIDE DEF n, m
  <2>. QED
    BY ONLY <1>1, SMT DEF K
<1> HIDE DEF K
<1>3. m * K = 2 * (K * D) /\ K * D \in Int
  BY <1>2
<1>4. Quotients(N, D, K)
  BY <1>2, <1>3 DEF Quotients
<1>. QED
  BY <1>4 DEF K

LEMMA Negated ==
    ASSUME NEW k \in Int, NEW D \in Int
    PROVE  (-k) * D = -(k * D) /\ k * D \in Int
  OBVIOUS

\* The rounded quotient is half a divisor away at most, and the only one closer than that.
Rounded2(n, D, r) == r \in Int /\ r * D \in Int /\ 2 * (n - r * D) <= D /\ 2 * (r * D - n) <= D
LEMMA RoundNear ==
    ASSUME NEW n \in Int, NEW D \in Nat, D > 0
    PROVE  Rounded2(n, D, round(n, D))
<1> DEFINE N == IF n < 0 THEN -n ELSE n
           K == (2 * N + D) \div (2 * D)
<1>1. N \in Nat /\ round(n, D) = (IF n < 0 THEN -1 ELSE 1) * K
  BY DEF round, abs
<1> HIDE DEF K
<1>2. Quotients(N, D, K)
  BY <1>1, HalvesUp DEF K
<1>3. CASE n < 0
  <2>1. round(n, D) = -K
    BY <1>1, <1>2, <1>3 DEF Quotients
  <2>2. (-K) * D = -(K * D) /\ K * D \in Int /\ K \in Int
    BY <1>2, Negated DEF Quotients
  <2>. QED
    BY <1>2, <1>3, <2>1, <2>2 DEF Quotients, Rounded2
<1>4. CASE n >= 0
  <2>1. round(n, D) = K
    BY <1>1, <1>2, <1>4 DEF Quotients
  <2>. QED
    BY <1>2, <1>4, <2>1 DEF Quotients, Rounded2
<1>. QED
  BY <1>3, <1>4

LEMMA RoundIs ==
    ASSUME NEW n \in Int, NEW D \in Nat, D > 0, NEW k \in Int,
           IF n < 0 THEN -D < 2 * (n - k * D) /\ 2 * (n - k * D) <= D
                    ELSE -D <= 2 * (n - k * D) /\ 2 * (n - k * D) < D
    PROVE  round(n, D) = k
<1> DEFINE N == IF n < 0 THEN -n ELSE n
           K == IF n < 0 THEN -k ELSE k
<1>1. N \in Nat /\ K \in Int /\ round(n, D) = (IF n < 0 THEN -1 ELSE 1) * ((2 * N + D) \div (2 * D))
  BY DEF round, abs
<1>2. k * D \in Int /\ K * D = (IF n < 0 THEN -(k * D) ELSE k * D)
  BY Negated
<1>3. /\ K * (2 * D) = 2 * (K * D)
      /\ K * D \in Int
  BY <1>1
<1>4. K * (2 * D) <= 2 * N + D /\ 2 * N + D < K * (2 * D) + 2 * D
  <2> DEFINE p == k * D
  <2>1. K * D = (IF n < 0 THEN -p ELSE p) /\ p \in Int
    BY <1>2
  <2>2. IF n < 0 THEN -D < 2 * (n - p) /\ 2 * (n - p) <= D ELSE -D <= 2 * (n - p) /\ 2 * (n - p) < D
    OBVIOUS
  <2> HIDE DEF p, K
  <2>. QED
    BY <1>3, <2>1, <2>2
<1>5. (2 * N + D) \div (2 * D) = K
  <2>1. 2 * N + D \in Int /\ 2 * D \in Nat /\ 2 * D > 0
    BY <1>1
  <2> HIDE DEF N, K
  <2>. QED
    BY <1>1, <1>4, <2>1, DivIs
<1>. QED
  BY <1>1, <1>5

\* Clamped to 0..15, it is still the nearest of these multiples.
NoCloser(n, D, k, q) == q \in 0..15 /\ abs(n - q * D) <= abs(n - k * D)
LEMMA NearestMultiple ==
    ASSUME NEW n \in Int, NEW D \in Nat, D > 0, NEW k \in 0..15
    PROVE  NoCloser(n, D, k, clamp(0, 15, round(n, D)))
<1> DEFINE r == round(n, D)
           q == clamp(0, 15, r)
           a == q * D
           b == k * D
           c == r * D
<1>1. r \in Int /\ c \in Int /\ 2 * (n - c) <= D /\ 2 * (c - n) <= D
  BY RoundNear DEF Rounded2
<1> HIDE DEF r
<1>2. q = IF r < 0 THEN 0 ELSE IF r > 15 THEN 15 ELSE r
  BY <1>1, ClampIs
<1> HIDE DEF q
<1>3. q \in 0..15
  BY <1>1, <1>2
<1>4. /\ a \in Int /\ b \in Int /\ 0 <= b /\ b <= 15 * D
      /\ (q = 0 => a = 0) /\ (q = 15 => a = 15 * D) /\ (q = r => a = c) /\ (k = r => b = c)
  <2>1. 0 * D <= k * D /\ k * D <= 15 * D /\ k * D \in Int
    BY Grows
  <2>. QED
    BY <1>3, <2>1
<1>5. /\ r < 0 => c <= -D
      /\ r > 15 => 16 * D <= c
      /\ k < r => b + D <= c
      /\ r < k => c + D <= b
  <2>1. r < 0 => r * D <= (-1) * D
    BY <1>1, Grows
  <2>2. r > 15 => 16 * D <= r * D
    BY <1>1, Grows
  <2>3. k < r => (k + 1) * D <= r * D
    BY <1>1, Grows
  <2>4. r < k => (r + 1) * D <= k * D
    BY <1>1, Grows
  <2>5. (k + 1) * D = k * D + D /\ (r + 1) * D = r * D + D /\ (-1) * D = -D
    BY <1>1
  <2>. QED
    BY <2>1, <2>2, <2>3, <2>4, <2>5
<1> HIDE DEF a, b, c
<1>6. k \in Int /\ D \in Int
  OBVIOUS
<1>7. abs(n - a) <= abs(n - b)
  <2>1. CASE r < 0
    BY ONLY <1>1, <1>2, <1>4, <1>5, <2>1, n \in Int, D \in Nat, D > 0 DEF abs
  <2>2. CASE r > 15
    BY ONLY <1>1, <1>2, <1>4, <1>5, <2>2, n \in Int, D \in Nat, D > 0 DEF abs
  <2>3. CASE 0 <= r /\ r <= 15
    <3>1. q = r /\ a = c
      BY ONLY <1>1, <1>2, <1>4, <2>3
    <3>. QED
      BY ONLY <1>1, <1>4, <1>5, <1>6, <3>1, n \in Int, D \in Nat, D > 0 DEF abs
  <2>. QED
    BY <1>1, <2>1, <2>2, <2>3
<1>. QED
  BY <1>3, <1>7 DEF NoCloser, a, b, q, r

-------------------------------------------------------------------------------
(* Floats and halves.                                                          *)
PowerIs(k, p) ==
    /\ (k = 0 => p = 1) /\ (k = 1 => p = 2) /\ (k = 2 => p = 4) /\ (k = 3 => p = 8)
    /\ (k = 4 => p = 16) /\ (k = 5 => p = 32) /\ (k = 6 => p = 64) /\ (k = 7 => p = 128)
    /\ (k = 8 => p = 256) /\ (k = 9 => p = 512) /\ (k = 10 => p = 1024) /\ (k = 11 => p = 2048)
    /\ (k = 12 => p = 4096) /\ (k = 13 => p = 8192) /\ (k = 14 => p = 16384) /\ (k = 15 => p = 32768)
    /\ (k = 16 => p = 65536) /\ (k = 17 => p = 131072) /\ (k = 18 => p = 262144) /\ (k = 19 => p = 524288)
    /\ (k = 20 => p = 1048576) /\ (k = 21 => p = 2097152) /\ (k = 22 => p = 4194304) /\ (k = 23 => p = 8388608)

LEMMA Powers ==
    ASSUME NEW k \in 0..23
    PROVE  PowerIs(k, 2 ^ k)
<1> DEFINE p == 2 ^ k
<1>1. ASSUME k = 0 PROVE p = 1
  BY SMT, <1>1
<1>2. ASSUME k = 1 PROVE p = 2
  BY SMT, <1>2
<1>3. ASSUME k = 2 PROVE p = 4
  BY SMT, <1>3
<1>4. ASSUME k = 3 PROVE p = 8
  BY SMT, <1>4
<1>5. ASSUME k = 4 PROVE p = 16
  BY SMT, <1>5
<1>6. ASSUME k = 5 PROVE p = 32
  BY SMT, <1>6
<1>7. ASSUME k = 6 PROVE p = 64
  BY SMT, <1>7
<1>8. ASSUME k = 7 PROVE p = 128
  BY SMT, <1>8
<1>9. ASSUME k = 8 PROVE p = 256
  BY SMT, <1>9
<1>10. ASSUME k = 9 PROVE p = 512
  BY SMT, <1>10
<1>11. ASSUME k = 10 PROVE p = 1024
  BY SMT, <1>11
<1>12. ASSUME k = 11 PROVE p = 2048
  BY SMT, <1>12
<1>13. ASSUME k = 12 PROVE p = 4096
  BY SMT, <1>13
<1>14. ASSUME k = 13 PROVE p = 8192
  BY SMT, <1>14
<1>15. ASSUME k = 14 PROVE p = 16384
  BY SMT, <1>15
<1>16. ASSUME k = 15 PROVE p = 32768
  BY SMT, <1>16
<1>17. ASSUME k = 16 PROVE p = 65536
  BY SMT, <1>17
<1>18. ASSUME k = 17 PROVE p = 131072
  BY SMT, <1>18
<1>19. ASSUME k = 18 PROVE p = 262144
  BY SMT, <1>19
<1>20. ASSUME k = 19 PROVE p = 524288
  BY SMT, <1>20
<1>21. ASSUME k = 20 PROVE p = 1048576
  BY SMT, <1>21
<1>22. ASSUME k = 21 PROVE p = 2097152
  BY SMT, <1>22
<1>23. ASSUME k = 22 PROVE p = 4194304
  BY SMT, <1>23
<1>24. ASSUME k = 23 PROVE p = 8388608
  BY SMT, <1>24
<1> HIDE DEF p
<1>25. PowerIs(k, p)
  BY SMT, <1>1, <1>2, <1>3, <1>4, <1>5, <1>6, <1>7, <1>8, <1>9, <1>10, <1>11, <1>12, <1>13,
     <1>14, <1>15, <1>16, <1>17, <1>18, <1>19, <1>20, <1>21, <1>22, <1>23, <1>24 DEF PowerIs
<1>. QED
  BY <1>25 DEF p

LEMMA PowerPositive ==
    ASSUME NEW k \in 0..23
    PROVE  2 ^ k \in Nat /\ 2 ^ k > 0
<1> DEFINE p == 2 ^ k
<1>1. PowerIs(k, p)
  BY Powers
<1> HIDE DEF p
<1>2. p \in Nat /\ p > 0
  BY SMT, <1>1 DEF PowerIs
<1>. QED
  BY SMT, <1>2 DEF p

IsFloat(f) == f = [e |-> 0, m |-> 0] \/ (f.e \in 90..126 /\ f.m \in Nat /\ f.m <= 8388607)

\* The exponent of n: the last power of two up to it.
Leads(n, k) == /\ k \in 0..23 /\ ToFloat(n) = [e |-> 103 + k, m |-> n * 2 ^ (23 - k) - Implicit]
               /\ 2 ^ k <= n /\ (k < 23 => n < 2 ^ (k + 1))
LEMMA LeadingBit ==
    ASSUME NEW n \in Nat, n > 0
    PROVE  \E k \in 0..23 : Leads(n, k)
<1> DEFINE S == {b \in 0..23 : 2 ^ b <= n}
           f == [b \in 0..23 |-> IF b \in S THEN b ELSE 0]
<1>1. 0 \in S
  <2>1. 0 \in 0..23 /\ 2 ^ 0 = 1
    BY SMT
  <2>. QED
    BY SMT, <2>1
<1>2. \A b \in 0..23 : f[b] \in Int /\ (b \in S => f[b] = b) /\ f[b] \in S
  BY SMT, <1>1
<1> HIDE DEF f
<1>3. PICK i \in 0..23 : \A b \in 0..23 : f[b] <= f[i]
  BY <1>2, 23 \in Nat, GreatestAt
<1> DEFINE k == f[i]
<1>4. k \in S /\ \A y \in S : k >= y
  <2>1. k \in S
    BY <1>2
  <2>2. ASSUME NEW y \in S PROVE k >= y
    <3>1. y \in 0..23 /\ f[y] = y /\ f[y] <= f[i] /\ f[i] \in Int
      BY <1>2, <1>3
    <3>. QED
      BY <3>1
  <2>. QED
    BY <2>1, <2>2
<1> HIDE DEF k
<1>5. S \in SUBSET Int
  BY SMT
<1>6. Max(S) = k
  <2> HIDE DEF S
  <2>. QED
    BY SMT, <1>4, <1>5, MaxOf
<1>7. k \in 0..23 /\ 2 ^ k <= n
  BY SMT, <1>4
<1>8. k < 23 => n < 2 ^ (k + 1)
  <2> SUFFICES ASSUME k < 23 PROVE n < 2 ^ (k + 1)
    BY SMT
  <2>1. k + 1 \in 0..23 /\ ~(k >= k + 1)
    BY SMT, <1>7
  <2>2. ~(2 ^ (k + 1) <= n)
    BY SMT, <1>4, <2>1
  <2>3. 2 ^ (k + 1) \in Nat
    BY ONLY <2>1, PowerPositive
  <2>. QED
    BY SMT, <2>2, <2>3
<1>9. ToFloat(n) = [e |-> 103 + k, m |-> n * 2 ^ (23 - k) - Implicit]
  BY SMT, <1>6 DEF ToFloat
<1>. QED
  <2>1. Leads(n, k)
    BY SMT, <1>7, <1>8, <1>9 DEF Leads
  <2>. QED
    BY <1>7, <2>1, Zenon

Mantissa(n, k) == n * 2 ^ (23 - k)
LEMMA MantissaRange ==
    ASSUME NEW n \in Nat, n < 16777216, NEW k, Leads(n, k)
    PROVE  8388608 <= Mantissa(n, k) /\ Mantissa(n, k) < 16777216 /\ Mantissa(n, k) \in Int
<1> DEFINE p == 2 ^ k
           r == 2 ^ (k + 1)
           up == 2 ^ (23 - k)
<1>1. k \in 0..23 /\ p <= n /\ (k < 23 => n < r)
  BY SMT DEF Leads
<1>2. PowerIs(k, p) /\ (k < 23 => PowerIs(k + 1, r)) /\ PowerIs(23 - k, up)
  <2>1. 23 - k \in 0..23 /\ (k < 23 => k + 1 \in 0..23)
    BY SMT, <1>1
  <2>. QED
    BY ONLY <1>1, <2>1, Powers
<1> HIDE DEF p, r, up
<1>3. 8388608 <= n * up /\ n * up < 16777216 /\ n * up \in Int
  BY SMT, <1>1, <1>2 DEF PowerIs
<1>4. Mantissa(n, k) = n * up
  BY SMT DEF Mantissa, up
<1>. QED
  BY SMT, <1>3, <1>4

FloatIn(f, lo, hi) == f = [e |-> 0, m |-> 0] \/ (f.e \in lo..hi /\ f.m \in Nat /\ f.m <= 8388607)
LEMMA FloatTyped ==
    ASSUME NEW n \in Nat, n < 16777216
    PROVE  FloatIn(ToFloat(n), 103, 126)
<1>1. CASE n = 0
  BY SMT, <1>1 DEF ToFloat, FloatIn
<1>2. CASE n > 0
  <2>1. PICK k \in 0..23 : Leads(n, k)
    BY SMT, <1>2, LeadingBit
  <2> DEFINE mant == Mantissa(n, k)
  <2>2. 8388608 <= mant /\ mant < 16777216 /\ mant \in Int
    BY SMT, <2>1, MantissaRange
  <2>3. ToFloat(n) = [e |-> 103 + k, m |-> mant - 8388608]
    BY SMT, <2>1 DEF Leads, Implicit, Mantissa
  <2> HIDE DEF mant
  <2>. QED
    BY SMT, <2>2, <2>3 DEF FloatIn
<1>. QED
  BY SMT, <1>1, <1>2

LEMMA ShiftedIs ==
    ASSUME NEW s \in Nat, NEW u \in Nat, u > 0
    PROVE  /\ s = u * (s \div u) + (s % u) /\ s % u \in Nat /\ s % u < u /\ s \div u \in Nat
           /\ \/ Shifted(s, u) = s \div u /\ 2 * (s % u) <= u
              \/ Shifted(s, u) = (s \div u) + 1 /\ 2 * (s % u) >= u
  BY SMT DEF Shifted

Within(mant) == mant \in Nat /\ 8388608 <= mant /\ mant <= 16777215
LEMMA Mantissas ==
    ASSUME NEW w \in Nat, w <= 8388607
    PROVE  /\ (8388608 + w) * 16 < 251658240 => Within(Shifted((8388608 + w) * 16, 15))
           /\ (8388608 + w) * 16 >= 251658240 => Within(Shifted((8388608 + w) * 16, 30))
           /\ (8388608 + w) * 64 < 1056964608 => Within(Shifted((8388608 + w) * 64, 63))
           /\ (8388608 + w) * 64 >= 1056964608 => Within(Shifted((8388608 + w) * 64, 126))
<1> DEFINE s == (8388608 + w) * 16
           t == (8388608 + w) * 64
           p == s \div 15
           q == s \div 30
           x == t \div 63
           y == t \div 126
<1>0. w \in Int /\ 0 <= w /\ w <= 8388607 /\ s \in Nat /\ t \in Nat
  BY SMT
<1>1. /\ s = 15 * p + (s % 15) /\ s % 15 \in Nat /\ s % 15 < 15 /\ p \in Nat
      /\ \/ Shifted(s, 15) = p /\ 2 * (s % 15) <= 15
         \/ Shifted(s, 15) = p + 1 /\ 2 * (s % 15) >= 15
  BY SMT, <1>0, ShiftedIs
<1>2. /\ s = 30 * q + (s % 30) /\ s % 30 \in Nat /\ s % 30 < 30 /\ q \in Nat
      /\ (Shifted(s, 30) = q \/ Shifted(s, 30) = q + 1)
  BY SMT, <1>0, ShiftedIs
<1>3. /\ t = 63 * x + (t % 63) /\ t % 63 \in Nat /\ t % 63 < 63 /\ x \in Nat
      /\ \/ Shifted(t, 63) = x /\ 2 * (t % 63) <= 63
         \/ Shifted(t, 63) = x + 1 /\ 2 * (t % 63) >= 63
  BY SMT, <1>0, ShiftedIs
<1>4. /\ t = 126 * y + (t % 126) /\ t % 126 \in Nat /\ t % 126 < 126 /\ y \in Nat
      /\ (Shifted(t, 126) = y \/ Shifted(t, 126) = y + 1)
  BY SMT, <1>0, ShiftedIs
<1>5. s = (8388608 + w) * 16 /\ t = (8388608 + w) * 64
  BY SMT
<1> HIDE DEF s, t, p, q, x, y
<1>6. s < 251658240 => Within(Shifted(s, 15))
  BY SMT, <1>0, <1>1, <1>5 DEF Within
<1>7. s >= 251658240 => Within(Shifted(s, 30))
  BY SMT, <1>0, <1>2, <1>5 DEF Within
<1>8. t < 1056964608 => Within(Shifted(t, 63))
  BY SMT, <1>0, <1>3, <1>5 DEF Within
<1>9. t >= 1056964608 => Within(Shifted(t, 126))
  BY SMT, <1>0, <1>4, <1>5 DEF Within
<1>. QED
  BY SMT, <1>6, <1>7, <1>8, <1>9 DEF s, t

LEMMA OverIs ==
    ASSUME NEW f, f.e \in Int, f.e # 0
    PROVE  /\ Over(f, 15, 4) = LET s == (8388608 + f.m) * 16
                               IN  IF s >= 251658240 THEN [e |-> f.e - 3, m |-> Shifted(s, 30) - 8388608]
                                   ELSE [e |-> f.e - 4, m |-> Shifted(s, 15) - 8388608]
           /\ Over(f, 63, 6) = LET s == (8388608 + f.m) * 64
                               IN  IF s >= 1056964608 THEN [e |-> f.e - 5, m |-> Shifted(s, 126) - 8388608]
                                   ELSE [e |-> f.e - 6, m |-> Shifted(s, 63) - 8388608]
  BY SMT DEF Over, Implicit

LEMMA OverTyped ==
    ASSUME NEW f, NEW lo \in Nat, NEW hi \in Nat, 7 <= lo, hi <= 126, FloatIn(f, lo, hi),
           NEW g, g = Over(f, 15, 4) \/ g = Over(f, 63, 6)
    PROVE  FloatIn(g, lo - 6, hi)
<1>1. CASE f = [e |-> 0, m |-> 0]
  BY SMT, <1>1 DEF Over, FloatIn
<1>2. CASE f.e \in lo..hi /\ f.m \in Nat /\ f.m <= 8388607
  <2> DEFINE w == f.m
             x == f.e
  <2>1. w \in Nat /\ w <= 8388607 /\ x \in lo..hi
    BY SMT, <1>2
  <2>2. x \in Int /\ x # 0
    BY SMT, <2>1
  <2> DEFINE s == (8388608 + w) * 16
             t == (8388608 + w) * 64
  <2>3. /\ Over(f, 15, 4) = IF s >= 251658240 THEN [e |-> x - 3, m |-> Shifted(s, 30) - 8388608]
                            ELSE [e |-> x - 4, m |-> Shifted(s, 15) - 8388608]
        /\ Over(f, 63, 6) = IF t >= 1056964608 THEN [e |-> x - 5, m |-> Shifted(t, 126) - 8388608]
                            ELSE [e |-> x - 6, m |-> Shifted(t, 63) - 8388608]
    BY SMT, <2>2, OverIs
  <2>4. /\ s < 251658240 => Within(Shifted(s, 15))
        /\ s >= 251658240 => Within(Shifted(s, 30))
        /\ t < 1056964608 => Within(Shifted(t, 63))
        /\ t >= 1056964608 => Within(Shifted(t, 126))
    BY SMT, <2>1, Mantissas
  <2>5. s \in Int /\ t \in Int /\ x \in Int /\ lo <= x /\ x <= hi
    BY SMT, <2>1
  <2> HIDE DEF s, t, w, x
  <2>6. g.e \in (lo - 6)..hi /\ g.m \in Nat /\ g.m <= 8388607
    BY SMT, <2>3, <2>4, <2>5 DEF Within
  <2>. QED
    BY SMT, <2>6 DEF FloatIn
<1>. QED
  BY SMT, <1>1, <1>2 DEF FloatIn

LEMMA HalfTyped ==
    ASSUME NEW f, IsFloat(f)
    PROVE  f32_to_f16(f.e, f.m) \in Nat /\ f32_to_f16(f.e, f.m) <= 31743
<1>1. CASE f = [e |-> 0, m |-> 0]
  BY SMT, <1>1 DEF f32_to_f16
<1>2. CASE f.e \in 90..126 /\ f.m \in Nat /\ f.m <= 8388607
  <2> DEFINE e == f.e
             m == f.m
             exp == e - 127 + 15
             half == Shifted(m, Unit)
             low == Shifted(m + Implicit, 2 ^ (1 - exp)) % 1024
  <2>1. f32_to_f16(e, m) = IF exp >= 31 THEN 31743
                           ELSE IF exp < -10 THEN 0
                           ELSE IF exp <= 0 THEN low
                           ELSE IF half < 1024 THEN exp * 1024 + half
                           ELSE IF exp + 1 >= 31 THEN 31743 ELSE (exp + 1) * 1024
    BY SMT DEF f32_to_f16
  <2>2. exp \in Int /\ exp <= 14 /\ m \in Nat /\ m <= 8388607
    BY SMT, <1>2
  <2> HIDE DEF e, m, exp, low
  <2>3. half \in Nat /\ half <= 1024
    BY SMT, <2>2 DEF Shifted, Unit
  <2>4. CASE -10 <= exp /\ exp <= 0
    <3> DEFINE unit == 2 ^ (1 - exp)
    <3>1. unit \in Nat /\ unit > 0
      <4>1. 1 - exp \in 0..23
        BY SMT, <2>2, <2>4
      <4>. QED
        BY ONLY <4>1, PowerPositive
    <3> HIDE DEF unit
    <3>2. Shifted(m + Implicit, unit) \in Int
      <4>1. m + Implicit \in Int
        BY SMT, <2>2 DEF Implicit
      <4>. QED
        BY SMT, <3>1, <4>1 DEF Shifted
    <3>3. Shifted(m + Implicit, unit) % 1024 \in Nat /\ Shifted(m + Implicit, unit) % 1024 <= 1023
      BY SMT, <3>2
    <3>4. ~(exp >= 31) /\ ~(exp < -10)
      BY SMT, <2>2, <2>4
    <3>5. f32_to_f16(e, m) = Shifted(m + Implicit, unit) % 1024
      BY SMT, <2>1, <2>4, <3>4 DEF unit, low
    <3>6. f32_to_f16(e, m) \in Nat /\ f32_to_f16(e, m) <= 31743
      BY SMT, <3>3, <3>5
    <3>. QED
      BY SMT, <3>6 DEF e, m
  <2>5. CASE exp < -10
    <3>1. f32_to_f16(e, m) = 0
      BY SMT, <2>1, <2>2, <2>5
    <3>. QED
      BY SMT, <3>1 DEF e, m
  <2>6. CASE exp > 0
    <3>1. f32_to_f16(e, m) = IF exp >= 31 THEN 31743 ELSE IF half < 1024 THEN exp * 1024 + half
                             ELSE IF exp + 1 >= 31 THEN 31743 ELSE (exp + 1) * 1024
      BY ONLY <2>1, <2>2, <2>6, SMT
    <3> DEFINE h == f32_to_f16(e, m)
    <3> HIDE DEF half, h
    <3>2. h = IF exp >= 31 THEN 31743 ELSE IF half < 1024 THEN exp * 1024 + half
              ELSE IF exp + 1 >= 31 THEN 31743 ELSE (exp + 1) * 1024
      BY ONLY <3>1 DEF h
    <3>3. h \in Nat /\ h <= 31743
      BY ONLY <2>2, <2>3, <2>6, <3>2, SMT
    <3>. QED
      BY SMT, <3>3 DEF e, m, h
  <2>. QED
    BY SMT, <2>2, <2>4, <2>5, <2>6
<1>. QED
  BY SMT, <1>1, <1>2 DEF IsFloat

LEMMA UnitsTyped ==
    ASSUME NEW h \in Nat, h <= 31743
    PROVE  Units(f16_to_f32(h)) \in Nat
<1> DEFINE exp == h \div 1024
           mant == h % 1024
           f == f16_to_f32(h)
<1>1. exp \in 0..30 /\ mant \in Nat /\ mant <= 1023 /\ h \in Nat
  BY SMT
<1>2. \/ f = [e |-> 0, m |-> 0] \/ (f.e \in 103..142 /\ f.m \in Nat)
  <2>1. CASE exp = 0 /\ mant = 0
    BY SMT, <2>1 DEF f16_to_f32
  <2>2. CASE exp = 0 /\ mant # 0
    <3> DEFINE up == CHOOSE k \in 1..10 : (mant * 2 ^ k) \div 1024 = 1
    <3> HIDE DEF exp, mant
    <3>1. \E k \in 1..10 : (mant * 2 ^ k) \div 1024 = 1
      <4>1. \/ mant = 1 \/ mant \in 2..3 \/ mant \in 4..7 \/ mant \in 8..15 \/ mant \in 16..31 \/ mant \in 32..63
            \/ mant \in 64..127 \/ mant \in 128..255 \/ mant \in 256..511 \/ mant \in 512..1023
        BY SMT, <1>1, <2>2
      <4>3. \/ (mant * 1024) \div 1024 = 1 \/ (mant * 512) \div 1024 = 1 \/ (mant * 256) \div 1024 = 1
            \/ (mant * 128) \div 1024 = 1 \/ (mant * 64) \div 1024 = 1 \/ (mant * 32) \div 1024 = 1
            \/ (mant * 16) \div 1024 = 1 \/ (mant * 8) \div 1024 = 1 \/ (mant * 4) \div 1024 = 1
            \/ (mant * 2) \div 1024 = 1
        BY SMT, <4>1
      <4> DEFINE Sets(k) == (mant * 2 ^ k) \div 1024 = 1
      <4>4. (mant * 2) \div 1024 = 1 => Sets(1) /\ 1 \in 1..10
        BY SMT
      <4>5. (mant * 4) \div 1024 = 1 => Sets(2) /\ 2 \in 1..10
        BY SMT
      <4>6. (mant * 8) \div 1024 = 1 => Sets(3) /\ 3 \in 1..10
        BY SMT
      <4>7. (mant * 16) \div 1024 = 1 => Sets(4) /\ 4 \in 1..10
        BY SMT
      <4>8. (mant * 32) \div 1024 = 1 => Sets(5) /\ 5 \in 1..10
        BY SMT
      <4>9. (mant * 64) \div 1024 = 1 => Sets(6) /\ 6 \in 1..10
        BY SMT
      <4>10. (mant * 128) \div 1024 = 1 => Sets(7) /\ 7 \in 1..10
        BY SMT
      <4>11. (mant * 256) \div 1024 = 1 => Sets(8) /\ 8 \in 1..10
        BY SMT
      <4>12. (mant * 512) \div 1024 = 1 => Sets(9) /\ 9 \in 1..10
        BY SMT
      <4>13. (mant * 1024) \div 1024 = 1 => Sets(10) /\ 10 \in 1..10
        BY SMT
      <4> HIDE DEF Sets
      <4>14. \E k \in 1..10 : Sets(k)
        BY ONLY <4>3, <4>4, <4>5, <4>6, <4>7, <4>8, <4>9, <4>10, <4>11, <4>12, <4>13
      <4>. QED
        BY ONLY <4>14 DEF Sets
    <3>2. up \in 1..10
      BY ONLY <3>1 DEF up
    <3>3. f = [e |-> 1 - up + 112, m |-> ((mant * 2 ^ up) % 1024) * Unit]
      BY SMT, <2>2 DEF f16_to_f32, exp, mant
    <3> HIDE DEF up, f
    <3>4. 2 ^ up \in Nat
      <4>1. up \in 0..23
        BY SMT, <3>2
      <4>. QED
        BY ONLY <4>1, PowerPositive
    <3>5. mant * 2 ^ up \in Nat
      BY SMT, <1>1, <3>4
    <3>6. (mant * 2 ^ up) % 1024 \in Nat
      BY SMT, <3>5
    <3>. QED
      BY SMT, <3>2, <3>3, <3>6 DEF Unit
  <2>3. CASE exp # 0
    <3>1. f = [e |-> exp + 112, m |-> mant * Unit]
      BY SMT, <1>1, <2>3, NormalHalf
    <3> HIDE DEF exp, mant, f
    <3>. QED
      BY SMT, <1>1, <2>3, <3>1 DEF Unit
  <2>. QED
    BY SMT, <2>1, <2>2, <2>3
<1> HIDE DEF f
<1>3. CASE f = [e |-> 0, m |-> 0]
  BY SMT, <1>3 DEF Units, f
<1>4. CASE f.e \in 103..142 /\ f.m \in Nat
  <2> DEFINE e == f.e
             n == Implicit + f.m
  <2>1. e \in 103..142 /\ n \in Nat
    BY SMT, <1>4 DEF Implicit
  <2>2. Units(f) = IF e >= 126 THEN n * 2 ^ (e - 126) ELSE n \div 2 ^ (126 - e)
    BY SMT, <1>4 DEF Units
  <2> HIDE DEF e, n
  <2>3. CASE e >= 126
    <3>1. e - 126 \in 0..23
      BY SMT, <2>1, <2>3
    <3>2. 2 ^ (e - 126) \in Nat
      BY ONLY <3>1, PowerPositive
    <3>. QED
      BY SMT, <2>1, <2>2, <2>3, <3>2 DEF f
  <2>4. CASE e < 126
    <3>1. 126 - e \in 0..23
      BY SMT, <2>1, <2>4
    <3> DEFINE p == 2 ^ (126 - e)
    <3>2. p \in Nat /\ p > 0
      BY ONLY <3>1, PowerPositive
    <3> HIDE DEF p
    <3>3. n \div p \in Nat
      BY SMT, <2>1, <3>2
    <3>. QED
      BY SMT, <2>1, <2>2, <2>4, <3>3 DEF f, p
  <2>. QED
    BY SMT, <2>1, <2>3, <2>4
<1>. QED
  BY SMT, <1>2, <1>3, <1>4

-------------------------------------------------------------------------------
(* What encode_q4k_block computes on its way, under the names it has there.    *)
Sub(x, j) == {x[32 * j + l] : l \in 0..31}
Finite(x) == \A i \in 0..255 : x[i] # NonFinite
Lows(x) == [j \in 0..7 |-> IF Finite(x) THEN Min(Sub(x, j)) ELSE 0]
Ranges(x) == [j \in 0..7 |-> IF Finite(x) THEN Max(Sub(x, j)) - Lows(x)[j] ELSE 0]
WidestOf(x) == Max({Ranges(x)[j] : j \in 0..7})
NegMax(mn) == Max({0} \cup {-mn[j] : j \in {k \in 0..7 : mn[k] < 0}})
PosMax(mn) == Max({0} \cup {mn[j] : j \in {k \in 0..7 : mn[k] >= 0}})
Anchor(mn) == IF NegMax(mn) > 0 THEN NegMax(mn) ELSE -PosMax(mn)
Negative(mn) == ~(NegMax(mn) > 0)
Dall(x) == Over(Over(ToFloat(WidestOf(x)), 15, 4), 63, 6)
Dmin(x) == Over(ToFloat(abs(Anchor(Lows(x)))), 63, 6)
DallHalf(x) == f32_to_f16(Dall(x).e, Dall(x).m)
DminHalf(x) == f32_to_f16(Dmin(x).e, Dmin(x).m) + IF Negative(Lows(x)) THEN 32768 ELSE 0
Scales(x) == [j \in 0..7 |-> IF WidestOf(x) > 0 THEN clamp(0, 63, round(63 * Ranges(x)[j], WidestOf(x))) ELSE 0]
Mins(x) == [j \in 0..7 |-> IF Anchor(Lows(x)) # 0
                           THEN clamp(0, 63, round(63 * (-Lows(x)[j]), Anchor(Lows(x)))) ELSE 0]
Level(x, i) == Rounded(Dall(x)) * Scales(x)[i \div 32]
Below(x, i) == Signed(Negative(Lows(x)), Rounded(Dmin(x))) * Mins(x)[i \div 32]
Quants(x) == [i \in 0..255 |-> IF Level(x, i) = 0 THEN 0 ELSE clamp(0, 15, round(x[i] + Below(x, i), Level(x, i)))]

LEMMA EncodesTo ==
    ASSUME NEW x
    PROVE  encode_q4k_block(x) = PackBlock(DallHalf(x), DminHalf(x), Scales(x), Mins(x), Quants(x))
  BY DEF encode_q4k_block, Sub, Finite, Lows, Ranges, WidestOf, NegMax, PosMax, Anchor, Negative, Dall, Dmin,
               DallHalf, DminHalf, Scales, Mins, Level, Below, Quants

LEMMA RoundTyped ==
    ASSUME NEW n \in Int, NEW D \in Int, D # 0
    PROVE  round(n, D) \in Int
<1> DEFINE N == IF n < 0 THEN -n ELSE n
           M == IF D < 0 THEN -D ELSE D
           K == (2 * N + M) \div (2 * M)
           a == IF (n < 0) = (D < 0) THEN 1 ELSE -1
<1>1. round(n, D) = a * K
  BY DEF round, abs
<1>2. N \in Nat /\ M \in Nat /\ M > 0
  OBVIOUS
<1> HIDE DEF N, M
<1>3. K \in Int
  BY <1>2, HalvesUp DEF Quotients
<1> HIDE DEF K
<1>4. a \in {1, -1}
  OBVIOUS
<1> HIDE DEF a
<1>5. a * K \in Int
  BY <1>3, <1>4
<1>. QED
  BY <1>1, <1>5

\* The greatest of 0 and what the code lets through.
Tops(S, f, P, bound) == Max(S) \in Nat /\ Max(S) <= bound /\ \A k \in 0..7 : k \in P => f[k] <= Max(S)
LEMMA MaxSome ==
    ASSUME NEW f, NEW P, NEW bound \in Nat,
           \A k \in 0..7 : k \in P => f[k] \in Int /\ f[k] <= bound,
           NEW S, S = {0} \cup {f[k] : k \in {i \in 0..7 : i \in P}}
    PROVE  Tops(S, f, P, bound)
<1> DEFINE g == [k \in 0..7 |-> IF k \in P THEN (IF f[k] < 0 THEN 0 ELSE f[k]) ELSE 0]
<1>1. ASSUME NEW k \in 0..7
      PROVE  /\ g[k] \in Int /\ 0 <= g[k] /\ g[k] <= bound /\ (k \in P => f[k] <= g[k])
             /\ (g[k] = 0 \/ (k \in P /\ g[k] = f[k]))
  <2>1. CASE k \in P
    <3>1. f[k] \in Int /\ f[k] <= bound /\ g[k] = IF f[k] < 0 THEN 0 ELSE f[k]
      BY <2>1
    <3>. QED
      BY <2>1, <3>1
  <2>2. CASE k \notin P
    <3>1. g[k] = 0
      BY <2>2
    <3>. QED
      BY <2>2, <3>1
  <2>. QED
    BY <2>1, <2>2
<1> HIDE DEF g
<1>2. \A k \in 0..7 : g[k] \in Int
  BY <1>1
<1>3. PICK i \in 0..7 : \A k \in 0..7 : g[k] <= g[i]
  BY <1>2, 7 \in Nat, GreatestAt
<1> DEFINE v == g[i]
<1>4. v \in S
  <2>1. CASE g[i] = 0
    BY <2>1
  <2>2. CASE i \in P /\ g[i] = f[i]
    BY <2>2
  <2>. QED
    BY <1>1, <2>1, <2>2
<1>5. S \in SUBSET Int
  <2>1. \A k \in {i_1 \in 0..7 : i_1 \in P} : f[k] \in Int
    OBVIOUS
  <2>. QED
    BY <2>1
<1>6. \A k \in 0..7 : k \in P => f[k] <= v
  <2>1. ASSUME NEW k \in 0..7, k \in P PROVE f[k] <= v
    <3>1. f[k] <= g[k] /\ g[k] <= g[i] /\ f[k] \in Int /\ g[k] \in Int /\ g[i] \in Int
      BY <1>1, <1>3, <2>1
    <3>. QED
      BY <3>1
  <2>. QED
    BY <2>1
<1>7. v \in Nat /\ v <= bound
  BY <1>1
<1> HIDE DEF v
<1>8. \A y \in S : v >= y
  BY <1>6, <1>7
<1>9. Max(S) = v
  BY <1>4, <1>5, <1>8, MaxOf
<1>. QED
  BY <1>6, <1>7, <1>9 DEF Tops

Bounded(x) == \A i \in 0..255 : x[i] = NonFinite \/ (x[i] \in Int /\ -Largest <= x[i] /\ x[i] <= Largest)
LEMMA SubRange ==
    ASSUME NEW x, Bounded(x), Finite(x), NEW j \in 0..7
    PROVE  /\ Min(Sub(x, j)) \in Int /\ -Largest <= Min(Sub(x, j)) /\ Min(Sub(x, j)) <= Largest
           /\ Max(Sub(x, j)) \in Int /\ -Largest <= Max(Sub(x, j)) /\ Max(Sub(x, j)) <= Largest
           /\ Min(Sub(x, j)) <= Max(Sub(x, j))
<1> DEFINE f == [l \in 0..31 |-> x[32 * j + l]]
           S == Sub(x, j)
<1>1. ASSUME NEW l \in 0..31
      PROVE  f[l] \in Int /\ f[l] = x[32 * j + l] /\ -Largest <= f[l] /\ f[l] <= Largest
  <2>1. 32 * j + l \in 0..255 /\ f[l] = x[32 * j + l]
    OBVIOUS
  <2>. QED
    BY <2>1 DEF Bounded, Finite
<1> HIDE DEF f
<1>2. S = {f[l] : l \in 0..31}
  BY <1>1 DEF Sub
<1>3. \A y \in S : y \in Int /\ -Largest <= y /\ y <= Largest
  BY <1>1, <1>2
<1>4. Spans(S, Min(S), Max(S))
  <2>1. \A l \in 0..31 : f[l] \in Int
    BY <1>1
  <2> HIDE DEF S
  <2>. QED
    BY ONLY <1>2, <2>1, 31 \in Nat, MinMax, Zenon
<1> HIDE DEF S
<1>5. Min(S) \in S /\ Max(S) \in S /\ Min(S) <= Max(S)
  BY <1>4 DEF Spans
<1>. QED
  BY <1>3, <1>5 DEF S

LEMMA Anchored ==
    ASSUME NEW mn, NEW bound \in Nat, \A j \in 0..7 : mn[j] \in Int /\ -bound <= mn[j] /\ mn[j] <= bound
    PROVE  /\ Anchor(mn) \in Int /\ -bound <= Anchor(mn) /\ Anchor(mn) <= bound
           /\ NegMax(mn) \in Nat /\ PosMax(mn) \in Nat
<1>1. NegMax(mn) \in Nat /\ NegMax(mn) <= bound
  <2> DEFINE f == [k \in 0..7 |-> -mn[k]]
             P == {k \in 0..7 : mn[k] < 0}
             S == {0} \cup {-mn[j] : j \in {k \in 0..7 : mn[k] < 0}}
  <2>1. \A k \in 0..7 : k \in P => f[k] \in Int /\ f[k] <= bound
    OBVIOUS
  <2>2. S = {0} \cup {f[k] : k \in {i \in 0..7 : i \in P}}
    <3>1. \A k \in 0..7 : f[k] = -mn[k]
      OBVIOUS
    <3>2. {i \in 0..7 : i \in P} = {k \in 0..7 : mn[k] < 0}
      OBVIOUS
    <3> HIDE DEF f
    <3>3. {f[k] : k \in {i \in 0..7 : i \in P}} = {-mn[k] : k \in {i \in 0..7 : i \in P}}
      BY <3>1
    <3>. QED
      BY <3>2, <3>3
  <2> HIDE DEF f, P, S
  <2>3. Tops(S, f, P, bound)
    BY <2>1, <2>2, MaxSome
  <2>. QED
    BY <2>3 DEF S, NegMax, Tops
<1>2. PosMax(mn) \in Nat /\ PosMax(mn) <= bound
  <2> DEFINE P == {k \in 0..7 : mn[k] >= 0}
             S == {0} \cup {mn[j] : j \in {k \in 0..7 : mn[k] >= 0}}
  <2>1. \A k \in 0..7 : k \in P => mn[k] \in Int /\ mn[k] <= bound
    OBVIOUS
  <2>2. S = {0} \cup {mn[k] : k \in {i \in 0..7 : i \in P}}
    OBVIOUS
  <2> HIDE DEF P, S
  <2>3. Tops(S, mn, P, bound)
    BY <2>1, <2>2, MaxSome
  <2>. QED
    BY <2>3 DEF S, PosMax, Tops
<1>. QED
  BY <1>1, <1>2 DEF Anchor

LEMMA LowsTyped ==
    ASSUME NEW x, Bounded(x), NEW j \in 0..7
    PROVE  /\ Lows(x)[j] \in Int /\ -Largest <= Lows(x)[j] /\ Lows(x)[j] <= Largest
           /\ Ranges(x)[j] \in Nat /\ Ranges(x)[j] <= 2 * Largest
<1>1. /\ Lows(x)[j] = IF Finite(x) THEN Min(Sub(x, j)) ELSE 0
      /\ Ranges(x)[j] = IF Finite(x) THEN Max(Sub(x, j)) - Lows(x)[j] ELSE 0
  BY DEF Lows, Ranges
<1>2. Largest \in Nat
  BY SMT DEF Largest
<1> DEFINE lo == Lows(x)[j]
           r == Ranges(x)[j]
           a == Min(Sub(x, j))
           c == Max(Sub(x, j))
<1> HIDE DEF lo, r, a, c
<1>3. CASE Finite(x)
  <2>1. a \in Int /\ -Largest <= a /\ a <= Largest /\ c \in Int /\ c <= Largest /\ a <= c
    BY <1>3, SubRange DEF a, c
  <2>2. lo = a /\ r = c - lo
    BY <1>1, <1>3 DEF lo, r, a, c
  <2>3. lo \in Int /\ -Largest <= lo /\ lo <= Largest /\ r \in Nat /\ r <= 2 * Largest
    BY <1>2, <2>1, <2>2
  <2>. QED
    BY <2>3 DEF lo, r
<1>4. CASE ~Finite(x)
  <2>1. lo = 0 /\ r = 0
    BY <1>1, <1>4 DEF lo, r
  <2>2. lo \in Int /\ -Largest <= lo /\ lo <= Largest /\ r \in Nat /\ r <= 2 * Largest
    BY <1>2, <2>1
  <2>. QED
    BY <2>2 DEF lo, r
<1>. QED
  BY <1>3, <1>4

LEMMA WidestTyped ==
    ASSUME NEW x, Bounded(x)
    PROVE  /\ WidestOf(x) \in Nat /\ WidestOf(x) <= 2 * Largest
           /\ \A j \in 0..7 : Ranges(x)[j] <= WidestOf(x)
<1> DEFINE f == Ranges(x)
           S == {f[j] : j \in 0..7}
<1>1. \A j \in 0..7 : f[j] \in Nat /\ f[j] <= 2 * Largest
  BY LowsTyped
<1> HIDE DEF f
<1>2. \A j \in 0..7 : f[j] \in Int
  BY <1>1
<1>3. Spans(S, Min(S), Max(S))
  BY <1>2, 7 \in Nat, MinMax
<1>4. Max(S) \in Nat /\ Max(S) <= 2 * Largest /\ \A j \in 0..7 : f[j] <= Max(S)
  <2>1. \A y \in S : y \in Nat /\ y <= 2 * Largest
    BY <1>1
  <2>2. \A j \in 0..7 : f[j] \in S
    OBVIOUS
  <2> HIDE DEF S
  <2>3. Max(S) \in S /\ \A y \in S : y <= Max(S)
    BY <1>3 DEF Spans
  <2>. QED
    BY <2>1, <2>2, <2>3
<1>. QED
  BY <1>4 DEF f, S, WidestOf

\* A factor becomes a half that is no infinity, and what the decoder makes of its bits.
Stored(f) == /\ f32_to_f16(f.e, f.m) \in Nat /\ Rounded(f) \in Nat
             /\ Factor(f32_to_f16(f.e, f.m)) = Rounded(f)
             /\ Factor(f32_to_f16(f.e, f.m) + 32768) = -Rounded(f)
LEMMA FactorStored ==
    ASSUME NEW f, IsFloat(f)
    PROVE  Stored(f)
<1> DEFINE h == f32_to_f16(f.e, f.m)
<1>1. h \in Nat /\ h <= 31743
  BY SMT, HalfTyped
<1> HIDE DEF h
<1>2. Units(f16_to_f32(h)) \in Nat
  BY SMT, <1>1, UnitsTyped
<1>3. h % 32768 = h /\ (h + 32768) % 32768 = h /\ ~(h >= 32768) /\ h + 32768 >= 32768
  BY SMT, <1>1
<1>4. Rounded(f) = Units(f16_to_f32(h))
  BY SMT DEF Rounded, h
<1>5. Factor(h) = Units(f16_to_f32(h)) /\ Factor(h + 32768) = -Units(f16_to_f32(h))
  BY SMT, <1>3 DEF Factor, Signed
<1>. QED
  BY SMT, <1>1, <1>2, <1>4, <1>5 DEF Stored, h

LEMMA QuotientTyped ==
    ASSUME NEW n \in Nat, n <= 2 * Largest
    PROVE  IsFloat(Over(ToFloat(n), 63, 6)) /\ IsFloat(Over(Over(ToFloat(n), 15, 4), 63, 6))
<1> DEFINE f == ToFloat(n)
           g == Over(f, 15, 4)
           a == Over(f, 63, 6)
           c == Over(g, 63, 6)
<1>1. FloatIn(f, 103, 126)
  <2>1. n < 16777216
    BY SMT DEF Largest
  <2>. QED
    BY SMT, <2>1, FloatTyped
<1> HIDE DEF f
<1>2. FloatIn(a, 103 - 6, 126) /\ FloatIn(g, 103 - 6, 126)
  BY SMT, <1>1, OverTyped
<1> HIDE DEF a, g
<1>3. FloatIn(g, 97, 126)
  BY SMT, <1>2
<1>4. FloatIn(c, 97 - 6, 126)
  BY SMT, <1>3, OverTyped
<1> HIDE DEF c
<1>6. IsFloat(a) /\ IsFloat(c)
  BY SMT, <1>2, <1>4 DEF IsFloat, FloatIn
<1>. QED
  BY ONLY <1>6, Zenon DEF a, c, g, f

\* Of a block with finite elements or not: the factors that are stored, and the parts.
FactorsOf(x) == /\ Factor(DallHalf(x)) = Rounded(Dall(x)) /\ Rounded(Dall(x)) \in Nat
                /\ Factor(DminHalf(x)) = Signed(Negative(Lows(x)), Rounded(Dmin(x)))
                /\ Factor(DminHalf(x)) \in Int
LEMMA FactorsTyped ==
    ASSUME NEW x, Bounded(x)
    PROVE  FactorsOf(x)
<1> DEFINE a == abs(Anchor(Lows(x)))
           w == WidestOf(x)
<1>1. Largest \in Nat
  BY SMT DEF Largest
<1>2. a \in Nat /\ a <= Largest
  <2>1. \A j \in 0..7 : Lows(x)[j] \in Int /\ -Largest <= Lows(x)[j] /\ Lows(x)[j] <= Largest
    BY LowsTyped
  <2>2. Anchor(Lows(x)) \in Int /\ -Largest <= Anchor(Lows(x)) /\ Anchor(Lows(x)) <= Largest
    BY SMT, <1>1, <2>1, Anchored
  <2> DEFINE v == Anchor(Lows(x))
  <2> HIDE DEF v
  <2>3. abs(v) \in Nat /\ abs(v) <= Largest
    BY SMT, <1>1, <2>2 DEF abs, v
  <2>. QED
    BY <2>3 DEF v
<1>3. w \in Nat /\ w <= 2 * Largest
  BY SMT, WidestTyped
<1> HIDE DEF a, w
<1>4. a <= 2 * Largest /\ w <= 2 * Largest
  BY SMT, <1>1, <1>2, <1>3
<1>5. IsFloat(Over(ToFloat(a), 63, 6)) /\ IsFloat(Over(Over(ToFloat(w), 15, 4), 63, 6))
  BY SMT, <1>2, <1>3, <1>4, QuotientTyped
<1>6. IsFloat(Dall(x)) /\ IsFloat(Dmin(x))
  BY ONLY <1>5 DEF Dall, Dmin, a, w
<1>7. Stored(Dall(x)) /\ Stored(Dmin(x))
  BY <1>6, FactorStored, Zenon
<1> DEFINE h == f32_to_f16(Dmin(x).e, Dmin(x).m)
           r == Rounded(Dmin(x))
           neg == Negative(Lows(x))
<1>8. Factor(DallHalf(x)) = Rounded(Dall(x)) /\ Rounded(Dall(x)) \in Nat
  BY ONLY <1>7 DEF Stored, DallHalf
<1>9. h \in Nat /\ r \in Nat /\ Factor(h) = r /\ Factor(h + 32768) = -r
  BY ONLY <1>7 DEF Stored
<1>10. DminHalf(x) = h + IF neg THEN 32768 ELSE 0
  BY SMT DEF DminHalf
<1> HIDE DEF h, r, neg
<1>11. Factor(DminHalf(x)) = Signed(neg, r) /\ Factor(DminHalf(x)) \in Int
  <2>1. CASE neg
    <3>1. DminHalf(x) = h + 32768
      BY SMT, <1>10, <2>1
    <3>. QED
      BY ONLY <1>9, <2>1, <3>1, SMT DEF Signed
  <2>2. CASE ~neg
    <3>1. DminHalf(x) = h
      BY ONLY <1>9, <1>10, <2>2, SMT
    <3>. QED
      BY ONLY <1>9, <2>2, <3>1, SMT DEF Signed
  <2>. QED
    BY <2>1, <2>2
<1>. QED
  BY ONLY <1>8, <1>11 DEF FactorsOf, r, neg

LEMMA SixBits ==
    ASSUME NEW n \in Int, NEW D \in Int, D # 0
    PROVE  clamp(0, 63, round(n, D)) \in 0..63
<1> DEFINE r == round(n, D)
<1>1. r \in Int
  BY RoundTyped
<1> HIDE DEF r
<1>2. clamp(0, 63, r) = IF r < 0 THEN 0 ELSE IF r > 63 THEN 63 ELSE r
  BY <1>1, 0 <= 63, 0 \in Int, 63 \in Int, ClampIs
<1>3. clamp(0, 63, r) \in 0..63
  BY <1>1, <1>2
<1>. QED
  BY <1>3 DEF r

LEMMA LowsAnchor ==
    ASSUME NEW x, Bounded(x)
    PROVE  Anchor(Lows(x)) \in Int /\ NegMax(Lows(x)) \in Nat /\ PosMax(Lows(x)) \in Nat
<1> DEFINE mn == Lows(x)
<1>1. \A j \in 0..7 : mn[j] \in Int /\ -Largest <= mn[j] /\ mn[j] <= Largest
  BY LowsTyped
<1>2. Largest \in Nat
  BY SMT DEF Largest
<1> HIDE DEF mn
<1>3. Anchor(mn) \in Int /\ NegMax(mn) \in Nat /\ PosMax(mn) \in Nat
  BY <1>1, <1>2, Anchored
<1>. QED
  BY <1>3 DEF mn

LEMMA ScalesTyped ==
    ASSUME NEW x, Bounded(x)
    PROVE  Scales(x) \in [0..7 -> 0..63] /\ Mins(x) \in [0..7 -> 0..63]
<1> DEFINE w == WidestOf(x)
           a == Anchor(Lows(x))
<1>1. w \in Int /\ a \in Int
  BY WidestTyped, LowsAnchor
<1>2. ASSUME NEW j \in 0..7
      PROVE  /\ (IF w > 0 THEN clamp(0, 63, round(63 * Ranges(x)[j], w)) ELSE 0) \in 0..63
             /\ (IF a # 0 THEN clamp(0, 63, round(63 * (-Lows(x)[j]), a)) ELSE 0) \in 0..63
  <2>1. 63 * Ranges(x)[j] \in Int /\ 63 * (-Lows(x)[j]) \in Int
    <3>1. Ranges(x)[j] \in Int /\ Lows(x)[j] \in Int
      BY LowsTyped
    <3>. QED
      BY <3>1
  <2> DEFINE n == 63 * Ranges(x)[j]
             m == 63 * (-Lows(x)[j])
  <2> HIDE DEF w, a, n, m
  <2>2. w > 0 => clamp(0, 63, round(n, w)) \in 0..63
    <3>1. w > 0 => w # 0
      BY <1>1
    <3>. QED
      BY <1>1, <2>1, <3>1, SixBits DEF n
  <2>3. a # 0 => clamp(0, 63, round(m, a)) \in 0..63
    BY <1>1, <2>1, SixBits DEF m
  <2>4. 0 \in 0..63
    OBVIOUS
  <2>. QED
    BY <2>2, <2>3, <2>4, Zenon DEF n, m
<1>3. /\ Scales(x) = [j \in 0..7 |-> IF w > 0 THEN clamp(0, 63, round(63 * Ranges(x)[j], w)) ELSE 0]
      /\ Mins(x) = [j \in 0..7 |-> IF a # 0 THEN clamp(0, 63, round(63 * (-Lows(x)[j]), a)) ELSE 0]
  BY Zenon DEF Scales, Mins
<1> DEFINE u(j) == IF w > 0 THEN clamp(0, 63, round(63 * Ranges(x)[j], w)) ELSE 0
           v(j) == IF a # 0 THEN clamp(0, 63, round(63 * (-Lows(x)[j]), a)) ELSE 0
<1>4. (\A j \in 0..7 : u(j) \in 0..63 /\ v(j) \in 0..63) /\ Scales(x) = [j \in 0..7 |-> u(j)] /\ Mins(x) = [j \in 0..7 |-> v(j)]
  BY ONLY <1>2, <1>3, Zenon DEF u, v
<1> HIDE DEF u, v
<1>5. Scales(x) \in [0..7 -> 0..63]
  BY ONLY <1>4
<1>6. Mins(x) \in [0..7 -> 0..63]
  BY ONLY <1>4
<1>. QED
  BY <1>5, <1>6

LEMMA Minus ==
    ASSUME NEW v \in Int
    PROVE  -v = 0 - v
  OBVIOUS

\* A block with an element that is no number has only zeros for its scales and mins.
LEMMA NotFinite ==
    ASSUME NEW x, ~Finite(x), NEW j \in 0..7
    PROVE  Scales(x)[j] = 0 /\ Mins(x)[j] = 0
<1>1. \A k \in 0..7 : Ranges(x)[k] = 0 /\ Lows(x)[k] = 0
  BY DEF Ranges, Lows
<1>2. Max({0}) = 0
  BY MaxOf, 0 \in {0}, {0} \in SUBSET Int, \A y \in {0} : 0 >= y
<1>3. WidestOf(x) = 0
  <2>1. {Ranges(x)[k] : k \in 0..7} = {0}
    BY <1>1
  <2>. QED
    BY <1>2, <2>1 DEF WidestOf
<1>4. NegMax(Lows(x)) = 0
  <2>1. {0} \cup {-Lows(x)[k] : k \in {i \in 0..7 : Lows(x)[i] < 0}} = {0}
    BY <1>1
  <2>. QED
    BY <1>2, <2>1 DEF NegMax
<1>5. PosMax(Lows(x)) = 0
  <2>1. {0} \cup {Lows(x)[k] : k \in {i \in 0..7 : Lows(x)[i] >= 0}} = {0}
    BY <1>1
  <2>. QED
    BY <1>2, <2>1 DEF PosMax
<1>6. Anchor(Lows(x)) = 0
  <2> DEFINE a == NegMax(Lows(x))
             b == PosMax(Lows(x))
  <2>1. Anchor(Lows(x)) = IF a > 0 THEN a ELSE -b
    BY Zenon DEF Anchor
  <2>2. a = 0 /\ b = 0 /\ a \in Int /\ b \in Int
    BY <1>4, <1>5
  <2> HIDE DEF a, b
  <2>. QED
    <3>1. ~(a > 0)
      BY <2>2
    <3>2. -b = 0 - b
      BY <2>2, Minus
    <3>. QED
      BY <2>1, <2>2, <3>1, <3>2
<1>. QED
  BY <1>3, <1>6 DEF Scales, Mins

\* The levels of an element are multiples of one number, and its offset is another.
LEMMA LevelTyped ==
    ASSUME NEW x, Bounded(x), NEW i \in 0..255
    PROVE  Level(x, i) \in Nat /\ Below(x, i) \in Int
<1> DEFINE j == i \div 32
           d == Rounded(Dall(x))
           m == Signed(Negative(Lows(x)), Rounded(Dmin(x)))
           s == Scales(x)[j]
           t == Mins(x)[j]
<1>1. j \in 0..7
  OBVIOUS
<1> HIDE DEF j
<1>2. s \in 0..63 /\ t \in 0..63
  BY <1>1, ScalesTyped
<1>3. d \in Nat /\ m \in Int
  BY FactorsTyped DEF FactorsOf
<1>4. Level(x, i) = d * s /\ Below(x, i) = m * t
  BY Zenon DEF Level, Below, j
<1> HIDE DEF d, m, s, t
<1>. QED
  BY <1>2, <1>3, <1>4

LEMMA QuantsTyped ==
    ASSUME NEW x, Bounded(x)
    PROVE  Quants(x) \in [0..255 -> 0..15]
<1>1. ASSUME NEW i \in 0..255
      PROVE  (IF Level(x, i) = 0 THEN 0 ELSE clamp(0, 15, round(x[i] + Below(x, i), Level(x, i)))) \in 0..15
  <2> DEFINE D == Level(x, i)
             o == Below(x, i)
             n == x[i] + o
  <2>1. CASE D = 0
    BY <2>1
  <2>2. CASE D # 0 /\ Finite(x)
    <3>1. D \in Nat /\ o \in Int /\ x[i] \in Int
      BY LevelTyped, <2>2 DEF Bounded, Finite
    <3> HIDE DEF D, o
    <3>2. n \in Int /\ D > 0
      BY <2>2, <3>1
    <3> HIDE DEF n
    <3>3. clamp(0, 15, round(n, D)) \in 0..15
      BY <3>1, <3>2, 0 \in 0..15, NearestMultiple DEF NoCloser
    <3>. QED
      BY <2>2, <3>3, Zenon DEF n, D, o
  <2>3. CASE ~Finite(x)
    <3>3. Scales(x)[i \div 32] = 0
      <4>1. i \div 32 \in 0..7
        OBVIOUS
      <4>. QED
        BY <2>3, <4>1, NotFinite
    <3>4. Rounded(Dall(x)) \in Nat
      BY FactorsTyped DEF FactorsOf
    <3>5. Level(x, i) = 0
      BY <3>3, <3>4 DEF Level
    <3>. QED
      BY <3>5
  <2>. QED
    BY <2>1, <2>2, <2>3
<1>. QED
  BY <1>1, Zenon DEF Quants

(* Every element is decoded under the factors as they are stored, with the     *)
(* scale, the min and the four bits that the encoder chose.                    *)
Decodes(x, block) ==
    /\ decode_q4k_block(block)
         = [i \in 0..255 |-> Factor(block.d) * Scales(x)[i \div 32] * Quants(x)[i]
                             - Factor(block.dmin) * Mins(x)[i \div 32]]
    /\ Factor(block.d) = Rounded(Dall(x)) /\ Factor(block.d) \in Nat
    /\ Factor(block.dmin) = Signed(Negative(Lows(x)), Rounded(Dmin(x))) /\ Factor(block.dmin) \in Int
    /\ \A j \in 0..7 : q4k_unpack_scales(block.scales, j) = [sc |-> Scales(x)[j], mn |-> Mins(x)[j]]
LEMMA EncodedDecodes ==
    ASSUME NEW x, Bounded(x)
    PROVE  Decodes(x, encode_q4k_block(x))
<1> DEFINE block == encode_q4k_block(x)
           d == DallHalf(x)
           dmin == DminHalf(x)
           sc == Scales(x)
           mn == Mins(x)
           q == Quants(x)
<1>1. block = PackBlock(d, dmin, sc, mn, q)
  BY EncodesTo
<1>2. sc \in [0..7 -> 0..63] /\ mn \in [0..7 -> 0..63] /\ q \in [0..255 -> 0..15]
  BY ScalesTyped, QuantsTyped
<1>3. FactorsOf(x)
  BY FactorsTyped
<1> HIDE DEF block, d, dmin, sc, mn, q
<1>4. block.d = d /\ block.dmin = dmin /\ block.scales = PackScales(sc, mn)
  BY <1>1 DEF PackBlock
<1>5. decode_q4k_block(block)
        = [i \in 0..255 |-> Factor(d) * sc[i \div 32] * q[i] - Factor(dmin) * mn[i \div 32]]
  <2>1. Unpacks(d, dmin, sc, mn, q)
    BY <1>2, ElementsUnpacked
  <2>. QED
    BY <1>1, <2>1 DEF Unpacks
<1>6. \A j \in 0..7 : q4k_unpack_scales(block.scales, j) = [sc |-> sc[j], mn |-> mn[j]]
  BY <1>2, <1>4, ScalesArePacked
<1>. QED
  BY <1>3, <1>4, <1>5, <1>6, Zenon DEF Decodes, FactorsOf, block, d, dmin, sc, mn, q

LEMMA Q4KNearest ==
    ASSUME NEW x, Bounded(x)
    PROVE  NearestLevel(x, encode_q4k_block(x))
<1> DEFINE block == encode_q4k_block(x)
           decoded == decode_q4k_block(block)
           F == Factor(block.d)
           G == Factor(block.dmin)
           sc == Scales(x)
           mn == Mins(x)
           q == Quants(x)
<1>1. Decodes(x, block)
  BY EncodedDecodes
<1> HIDE DEF block
<1>2. /\ decoded = [i \in 0..255 |-> F * sc[i \div 32] * q[i] - G * mn[i \div 32]]
      /\ F = Rounded(Dall(x)) /\ F \in Nat
      /\ G = Signed(Negative(Lows(x)), Rounded(Dmin(x))) /\ G \in Int
      /\ \A j \in 0..7 : q4k_unpack_scales(block.scales, j) = [sc |-> sc[j], mn |-> mn[j]]
  BY <1>1 DEF Decodes
<1> HIDE DEF decoded, F, G
<1>3. CASE Finite(x)
  <2>1. ASSUME NEW i \in 0..255, NEW k \in 0..15
        PROVE  abs(x[i] - decoded[i]) <= abs(x[i] - (F * sc[i \div 32] * k - G * mn[i \div 32]))
    <3> DEFINE D == F * sc[i \div 32]
               o == G * mn[i \div 32]
               n == x[i] + o
               u == q[i]
    <3>1. Level(x, i) = D /\ Below(x, i) = o /\ D \in Nat /\ o \in Int
      <4>1. Level(x, i) = D /\ Below(x, i) = o
        BY <1>2, Zenon DEF Level, Below
      <4>. QED
        BY <4>1, LevelTyped
    <3>2. x[i] \in Int
      BY <1>3 DEF Bounded, Finite
    <3>3. decoded[i] = D * u - o
      BY <1>2
    <3>4. u = (IF D = 0 THEN 0 ELSE clamp(0, 15, round(n, D))) /\ u \in 0..15
      <4>1. Quants(x) \in [0..255 -> 0..15]
        BY QuantsTyped
      <4>. QED
        BY <3>1, <4>1 DEF Quants
    <3> HIDE DEF D, o, u, sc, mn, q
    <3>5. n \in Int
      BY <3>1, <3>2
    <3>6. abs(n - u * D) <= abs(n - k * D)
      <4>1. CASE D = 0
        <5>1. u * D = 0 /\ k * D = 0
          BY <3>4, <4>1
        <5>. QED
          BY ONLY <3>5, <5>1, SMT DEF abs
      <4>2. CASE D # 0
        <5>1. D > 0
          BY <3>1, <4>2
        <5> HIDE DEF n
        <5>. QED
          BY <3>1, <3>4, <3>5, <4>2, <5>1, NearestMultiple DEF NoCloser
      <4>. QED
        BY <4>1, <4>2
    <3>7. u * D = D * u /\ k * D = D * k /\ D * u \in Int /\ D * k \in Int
      BY <3>1, <3>4
    <3>8. n - D * u = x[i] - decoded[i] /\ n - D * k = x[i] - (D * k - o)
      <4> DEFINE a == D * u
                 b == D * k
                 v == x[i]
      <4>1. a \in Int /\ b \in Int /\ v \in Int /\ o \in Int /\ decoded[i] = a - o /\ n = v + o
        BY <3>1, <3>2, <3>3, <3>7
      <4> HIDE DEF a, b, v, n
      <4>2. n - a = v - decoded[i] /\ n - b = v - (b - o)
        BY ONLY <4>1
      <4>. QED
        BY <4>2 DEF a, b, v
    <3> HIDE DEF n
    <3>9. abs(x[i] - decoded[i]) <= abs(x[i] - (D * k - o))
      BY ONLY <3>6, <3>7, <3>8
    <3>. QED
      BY <3>9, Zenon DEF D, o
  <2>2. ASSUME NEW i \in 0..255
        PROVE  q4k_unpack_scales(block.scales, i \div 32) = [sc |-> sc[i \div 32], mn |-> mn[i \div 32]]
    <3>1. i \div 32 \in 0..7
      OBVIOUS
    <3>. QED
      BY <1>2, <3>1
  <2> DEFINE nearest(i, k) == abs(x[i] - decoded[i])
                                <= abs(x[i] - (F * q4k_unpack_scales(block.scales, i \div 32).sc * k
                                               - G * q4k_unpack_scales(block.scales, i \div 32).mn))
  <2>3. ASSUME NEW i \in 0..255, NEW k \in 0..15 PROVE nearest(i, k)
    <3>1. /\ q4k_unpack_scales(block.scales, i \div 32).sc = sc[i \div 32]
          /\ q4k_unpack_scales(block.scales, i \div 32).mn = mn[i \div 32]
      BY <2>2
    <3> HIDE DEF sc, mn
    <3>. QED
      BY <2>1, <3>1, Zenon
  <2>4. NearestLevel(x, block) <=> \A i \in 0..255 : \A k \in 0..15 : nearest(i, k)
    BY <1>3, Zenon DEF NearestLevel, Finite, decoded, F, G
  <2> HIDE DEF nearest
  <2>. QED
    BY <2>3, <2>4, Zenon DEF block
<1>4. CASE ~Finite(x)
  <2>1. ASSUME NEW i \in 0..255 PROVE decoded[i] = 0
    <3> DEFINE j == i \div 32
    <3>1. j \in 0..7
      OBVIOUS
    <3>2. decoded[i] = F * sc[j] * q[i] - G * mn[j]
      BY <1>2
    <3> HIDE DEF j
    <3>3. sc[j] = 0 /\ mn[j] = 0
      BY <1>4, <3>1, NotFinite
    <3>4. q[i] \in Int
      <4>1. Quants(x) \in [0..255 -> 0..15]
        BY QuantsTyped
      <4>. QED
        BY <4>1
    <3> HIDE DEF sc, mn, q
    <3>. QED
      BY <1>2, <3>2, <3>3, <3>4
  <2>. QED
    BY <1>4, <2>1, Zenon DEF NearestLevel, Finite, decoded, block
<1>. QED
  BY <1>3, <1>4

-------------------------------------------------------------------------------
(* Q4_0 and Q8_0.                                                              *)
LEMMA AbsMaxIs ==
    ASSUME NEW x \in [0..31 -> Int]
    PROVE  /\ abs_max(x) \in Nat
           /\ \A i \in 0..31 : abs(x[i]) <= abs_max(x) /\ abs(x[i]) \in Nat
           /\ \E i \in 0..31 : abs_max(x) = abs(x[i])
<1> DEFINE f == [i \in 0..31 |-> abs(x[i])]
           S == {abs(x[i]) : i \in 0..31}
<1>1. ASSUME NEW i \in 0..31 PROVE f[i] \in Nat /\ f[i] = abs(x[i])
  <2>1. x[i] \in Int
    OBVIOUS
  <2>. QED
    BY <2>1 DEF abs
<1>2. abs_max(x) = Max(S)
  <2>1. DOMAIN x = 0..31
    OBVIOUS
  <2>. QED
    BY <2>1, Zenon DEF abs_max
<1> HIDE DEF f
<1>3. S = {f[i] : i \in 0..31} /\ \A i \in 0..31 : f[i] \in Int
  BY <1>1
<1>4. Spans(S, Min(S), Max(S))
  <2> HIDE DEF S
  <2>. QED
    BY ONLY <1>3, 31 \in Nat, MinMax, Zenon
<1>5. Max(S) \in S /\ \A y \in S : y <= Max(S)
  BY ONLY <1>4, Zenon DEF Spans
<1> DEFINE m == Max(S)
<1>6. m \in S /\ \A y \in S : y <= m
  BY <1>5
<1> HIDE DEF m
<1>7. m \in Nat /\ (\A i \in 0..31 : f[i] <= m) /\ \E i \in 0..31 : m = f[i]
  BY <1>1, <1>3, <1>6
<1>. QED
  BY <1>1, <1>2, <1>7 DEF m

LEMMA Wide ==
    ASSUME NEW top \in {7, 127}, NEW x \in [0..31 -> Int]
    PROVE  Scale(x, top) \in Nat /\ Scale(x, top) > 0 /\ Scale(x, top) = abs_max(x) + top
<1>1. abs_max(x) \in Nat
  BY AbsMaxIs
<1>. QED
  BY <1>1 DEF Scale

\* No quotient needs to be clamped.
Fits(x, top, i) ==
    LET r == Quotient(x, i, top)
    IN  /\ r \in Int /\ -top <= r /\ r <= top /\ r * Scale(x, top) \in Int
        /\ 2 * (top * x[i] - r * Scale(x, top)) <= Scale(x, top)
        /\ 2 * (r * Scale(x, top) - top * x[i]) <= Scale(x, top)
LEMMA QuotientFits ==
    ASSUME NEW top \in {7, 127}, NEW x \in [0..31 -> Int], NEW i \in 0..31
    PROVE  Fits(x, top, i)
<1> DEFINE mx == abs_max(x)
           s == Scale(x, top)
           n == top * x[i]
           r == Quotient(x, i, top)
           p == r * s
<1>1. mx \in Nat /\ x[i] \in Int /\ -mx <= x[i] /\ x[i] <= mx
  <2>1. mx \in Nat /\ abs(x[i]) <= mx /\ x[i] \in Int
    BY AbsMaxIs
  <2> HIDE DEF mx
  <2>. QED
    BY <2>1 DEF abs
<1>2. s \in Nat /\ s > 0 /\ s = mx + top
  BY Wide
<1> HIDE DEF mx, s
<1>3. n \in Int /\ n <= top * mx /\ -(top * mx) <= n
  BY <1>1
<1>4. r = round(n, s)
  BY Zenon DEF Quotient, s
<1> HIDE DEF n, r
<1>5. r \in Int /\ p \in Int /\ 2 * (n - p) <= s /\ 2 * (p - n) <= s
  BY <1>2, <1>3, <1>4, RoundNear DEF Rounded2
<1>6. /\ r > top => (top + 1) * s <= p
      /\ r < -top => p <= (-(top + 1)) * s
  <2>1. ASSUME r > top PROVE (top + 1) * s <= r * s
    <3>1. top + 1 \in Int /\ top + 1 <= r
      BY <1>5, <2>1
    <3>. QED
      BY <1>2, <1>5, <3>1, Grows
  <2>2. ASSUME r < -top PROVE r * s <= (-(top + 1)) * s
    <3>1. -(top + 1) \in Int /\ r <= -(top + 1)
      BY <1>5, <2>2
    <3>. QED
      BY <1>2, <1>5, <3>1, Grows
  <2>. QED
    BY <2>1, <2>2
<1> HIDE DEF p
<1>7. -top <= r /\ r <= top
  BY <1>1, <1>2, <1>3, <1>5, <1>6
<1>. QED
  BY <1>5, <1>7, Zenon DEF Fits, n, r, p, s

Q80Codes(x, code) ==
    /\ code.scale = Scale(x, 127)
    /\ \A i \in 0..31 : decode_q80_block(code)[i] = Quotient(x, i, 127) * Scale(x, 127)
LEMMA Q80Encodes ==
    ASSUME NEW x \in [0..31 -> Int]
    PROVE  Q80Codes(x, encode_q80_block(x))
<1> DEFINE code == encode_q80_block(x)
<1>1. code.scale = Scale(x, 127) /\ \A i \in 0..31 : code.q[i] = clamp(-127, 127, Quotient(x, i, 127))
  BY DEF encode_q80_block
<1> HIDE DEF code
<1>2. ASSUME NEW i \in 0..31 PROVE code.q[i] = Quotient(x, i, 127)
  <2> DEFINE r == Quotient(x, i, 127)
  <2>1. r \in Int /\ -127 <= r /\ r <= 127
    BY 127 \in {7, 127}, QuotientFits DEF Fits
  <2>2. -127 \in Int /\ 127 \in Int
    OBVIOUS
  <2> HIDE DEF r
  <2>3. clamp(-127, 127, r) = r
    BY <2>1, <2>2, ClampIn
  <2>. QED
    BY <1>1, <2>3 DEF r
<1>3. \A i \in 0..31 : decode_q80_block(code)[i] = code.q[i] * code.scale
  BY DEF decode_q80_block
<1>. QED
  BY <1>1, <1>2, <1>3, Zenon DEF Q80Codes, code

Q40Codes(x, code) ==
    /\ code.scale = Scale(x, 7)
    /\ \A i \in 0..31 : decode_q40_block(code)[i] = Quotient(x, i, 7) * Scale(x, 7)
LEMMA Q40Encodes ==
    ASSUME NEW x \in [0..31 -> Int]
    PROVE  Q40Codes(x, encode_q40_block(x))
<1> DEFINE s == Scale(x, 7)
           a == [i \in 0..31 |-> clamp(-8, 7, Quotient(x, i, 7))]
<1>1. encode_q40_block(x) = PackPairs(s, a)
  BY Zenon DEF encode_q40_block
<1>2. ASSUME NEW i \in 0..31 PROVE a[i] = Quotient(x, i, 7) /\ a[i] \in (-8)..7
  <2> DEFINE r == Quotient(x, i, 7)
  <2>1. r \in Int /\ -7 <= r /\ r <= 7
    BY 7 \in {7, 127}, QuotientFits DEF Fits
  <2>2. a[i] = clamp(-8, 7, r)
    BY Zenon
  <2> HIDE DEF r, a
  <2>3. -8 <= r /\ -8 \in Int /\ 7 \in Int
    BY <2>1
  <2>4. clamp(-8, 7, r) = r
    BY <2>1, <2>3, ClampIn
  <2>5. a[i] = r /\ a[i] \in (-8)..7
    BY ONLY <2>1, <2>2, <2>3, <2>4
  <2>. QED
    BY <2>5 DEF r
<1>3. a \in [0..31 -> (-8)..7]
  <2>1. a = [i \in 0..31 |-> a[i]]
    BY Zenon
  <2> HIDE DEF a
  <2>. QED
    BY <1>2, <2>1
<1>4. s \in Int
  BY 7 \in {7, 127}, Wide
<1>5. PackPairs(s, a).scale = s
  BY DEF PackPairs
<1> HIDE DEF s, a
<1>6. decode_q40_block(PackPairs(s, a)) = [i \in 0..31 |-> a[i] * s]
  BY ONLY <1>3, <1>4, PairsArePacked, Zenon
<1>. QED
  BY <1>1, <1>2, <1>5, <1>6, Zenon DEF Q40Codes, s

LEMMA StepsAreHalf ==
    ASSUME NEW top \in {7, 127}, NEW x \in [0..31 -> Int], NEW block, NEW decoded,
           block.scale = Scale(x, top), \A i \in 0..31 : decoded[i] = Quotient(x, i, top) * Scale(x, top)
    PROVE  WithinHalfStep(x, top, block, decoded)
<1>1. ASSUME NEW i \in 0..31 PROVE 2 * abs(top * x[i] - decoded[i]) <= block.scale
  <2> DEFINE s == Scale(x, top)
             n == top * x[i]
             p == Quotient(x, i, top) * s
  <2>1. p \in Int /\ 2 * (n - p) <= s /\ 2 * (p - n) <= s
    <3>1. Fits(x, top, i)
      BY QuotientFits, Zenon
    <3>. QED
      BY ONLY <3>1, Zenon DEF Fits, n, p, s
  <2>2. n \in Int /\ s \in Int
    <3>1. x[i] \in Int /\ top \in Int
      OBVIOUS
    <3>. QED
      BY <3>1, Wide
  <2>3. decoded[i] = p /\ block.scale = s
    BY Zenon
  <2> HIDE DEF p, s, n
  <2>4. 2 * abs(n - p) <= s
    BY ONLY <2>1, <2>2 DEF abs
  <2>. QED
    BY ONLY <2>3, <2>4, Zenon DEF n
<1>. QED
  BY <1>1 DEF WithinHalfStep

\* A quotient that 1e-8 more in the scale does not move.
LEMMA QuotientKept ==
    ASSUME NEW top \in {7, 127}, NEW s \in Nat, 2 * top <= s + 1, NEW q \in Int, -top <= q, q <= top
    PROVE  round(top * (q * s), top * s + top) = q
<1> DEFINE D == top * s + top
           n == top * (q * s)
           u == q * s
<1>1. u \in Int /\ (q < 0 => u < 0) /\ (q >= 0 => u >= 0)
  <2>1. s \in Int /\ s > 0
    OBVIOUS
  <2>. QED
    BY <2>1
<1>2. q * D = top * u + top * q /\ D \in Nat /\ D > 0
  <2>1. q * (7 * s + 7) = 7 * (q * s) + 7 * q /\ q * (127 * s + 127) = 127 * (q * s) + 127 * q
    OBVIOUS
  <2>. QED
    BY <2>1
<1>3. 2 * (top * q) <= D /\ -D <= 2 * (top * q)
  BY SMT
<1> HIDE DEF D, u
<1>4. n \in Int /\ n = top * u /\ (q < 0 => n < 0) /\ (q >= 0 => n >= 0)
  BY <1>1 DEF u
<1> HIDE DEF n
<1>5. n - q * D = -(top * q) /\ top * q \in Int /\ q * D \in Int /\ (q < 0 => top * q < 0) /\ (q >= 0 => top * q >= 0)
  BY <1>1, <1>2, <1>4
<1>6. IF n < 0 THEN -D < 2 * (n - q * D) /\ 2 * (n - q * D) <= D
               ELSE -D <= 2 * (n - q * D) /\ 2 * (n - q * D) < D
  <2> DEFINE t == top * q
             e == n - q * D
  <2>1. e = -t /\ t \in Int /\ (q < 0 => t < 0) /\ (q >= 0 => t >= 0) /\ 2 * t <= D /\ -D <= 2 * t
    BY <1>3, <1>5
  <2> HIDE DEF t, e
  <2>2. IF n < 0 THEN -D < 2 * e /\ 2 * e <= D ELSE -D <= 2 * e /\ 2 * e < D
    BY <1>2, <1>4, <2>1
  <2>. QED
    BY <2>2 DEF e
<1>7. round(n, D) = q
  BY <1>2, <1>4, <1>6, RoundIs
<1>. QED
  BY <1>7 DEF n, D

\* Of the parts p; decoded as it was encoded.
MadeOf(x, p) == x = [i \in 0..31 |-> p.q[i] * p.scale]
DecodedAs(decoded, x, top) == \A i \in 0..31 : decoded[i] = Quotient(x, i, top) * Scale(x, top)
LEMMA StepFound ==
    ASSUME NEW top \in {7, 127}, NEW p, OneByOne(p, top), NEW x, MadeOf(x, p), NEW decoded, DecodedAs(decoded, x, top)
    PROVE  x \in [0..31 -> Int] /\ ScaleFound(p, top, decoded)
<1> DEFINE q == p.q
           s == p.scale
<1>1. s \in Nat /\ s > 0 /\ \A i \in 0..31 : q[i] \in Int /\ -top <= q[i] /\ q[i] <= top /\ x[i] = q[i] * s
  <2>1. s \in Nat \ {0} /\ q \in [0..31 -> (-top)..top]
    BY Zenon DEF OneByOne
  <2>2. ASSUME NEW i \in 0..31 PROVE q[i] \in (-top)..top /\ x[i] = q[i] * s
    <3>1. x[i] = q[i] * s
      BY DEF MadeOf
    <3> HIDE DEF q, s
    <3>2. q[i] \in (-top)..top
      BY <2>1
    <3>. QED
      BY ONLY <3>1, <3>2
  <2> HIDE DEF q, s
  <2>3. top \in Int
    OBVIOUS
  <2>. QED
    BY ONLY <2>1, <2>2, <2>3
<1>2. x \in [0..31 -> Int]
  <2>1. \A i \in 0..31 : x[i] \in Int
    BY <1>1
  <2>2. x = [i \in 0..31 |-> x[i]]
    BY Zenon DEF MadeOf
  <2>. QED
    BY ONLY <2>1, <2>2, Zenon
<1>3. (\E i \in 0..31 : q[i] \in {-top, top}) \/ (\A i \in 0..31 : q[i] = 0)
  BY Zenon DEF OneByOne
<1> HIDE DEF q, s
<1>4. CASE \A i \in 0..31 : q[i] = 0
  <2>1. ASSUME NEW i \in 0..31 PROVE decoded[i] = q[i] * (top * (s + 1))
    <3>1. x[i] = 0 /\ q[i] = 0
      BY <1>1, <1>4
    <3> DEFINE D == Scale(x, top)
    <3>2. D \in Nat /\ D > 0
      BY <1>2, Wide
    <3>3. Quotient(x, i, top) = round(top * x[i], D)
      BY Zenon DEF Quotient
    <3> HIDE DEF D
    <3>4. Quotient(x, i, top) = round(0, D)
      <4>1. top * x[i] = 0
        BY <3>1
      <4>. QED
        BY <3>3, <4>1
    <3>5. round(0, D) = 0
      <4>1. 0 * D = 0 /\ 0 \in Int
        BY <3>2
      <4>. QED
        BY <3>2, <4>1, RoundIs
    <3>6. decoded[i] = 0
      BY <3>2, <3>4, <3>5 DEF D, DecodedAs
    <3>. QED
      BY <1>1, <3>1, <3>6
  <2>. QED
    BY <1>2, <2>1 DEF ScaleFound, q, s
<1>5. CASE \E i \in 0..31 : q[i] \in {-top, top}
  <2>1. PICK k \in 0..31 : q[k] \in {-top, top}
    BY <1>5
  <2> DEFINE t == top * s
             n == (-top) * s
  <2>2. t \in Nat /\ n = -t
    BY ONLY <1>1, top \in {7, 127}
  <2>3. abs(x[k]) = t
    <3>1. x[k] = n \/ x[k] = t
      <4>1. x[k] = q[k] * s
        BY ONLY <1>1, SMT
      <4>2. q[k] = -top \/ q[k] = top
        BY ONLY <2>1, SMT
      <4>. QED
        BY ONLY <4>1, <4>2, Zenon DEF t, n
    <3> HIDE DEF t, n
    <3>. QED
      BY ONLY <2>2, <3>1 DEF abs
  <2>4. ASSUME NEW i \in 0..31 PROVE abs(x[i]) <= t
    <3> DEFINE v == q[i] * s
    <3>1. n <= v /\ v <= t /\ v \in Int
      BY <1>1, Grows
    <3>2. x[i] = v
      BY ONLY <1>1, <2>4, SMT
    <3> HIDE DEF t, n, v
    <3>. QED
      BY ONLY <2>2, <3>1, <3>2 DEF abs
  <2>5. abs_max(x) = top * s
    <3> DEFINE m == abs_max(x)
    <3>1. m \in Nat /\ (\A i \in 0..31 : abs(x[i]) <= m /\ abs(x[i]) \in Nat) /\ \E i \in 0..31 : m = abs(x[i])
      BY <1>2, AbsMaxIs, SMT
    <3> HIDE DEF m, t
    <3>2. m <= t /\ t <= m /\ t \in Nat
      <4>1. PICK i \in 0..31 : m = abs(x[i])
        BY ONLY <3>1
      <4>. QED
        BY ONLY <2>2, <2>3, <2>4, <3>1, <4>1
    <3>3. m = t
      BY ONLY <3>1, <3>2
    <3>. QED
      BY <3>3 DEF m, t
  <2>6. Scale(x, top) = top * s + top /\ top * s + top = top * (s + 1)
    BY <1>1, <2>5 DEF Scale
  <2>7. ASSUME 2 * top <= s + 1, NEW i \in 0..31 PROVE decoded[i] = q[i] * (top * (s + 1))
    <3>1. Quotient(x, i, top) = round(top * (q[i] * s), top * s + top)
      BY <1>1, <2>6 DEF Quotient
    <3>2. Quotient(x, i, top) = q[i]
      <4> DEFINE v == q[i]
      <4>1. v \in Int /\ -top <= v /\ v <= top /\ s \in Nat
        BY <1>1
      <4> HIDE DEF v
      <4>2. round(top * (v * s), top * s + top) = v
        BY <2>7, <4>1, QuotientKept
      <4>. QED
        BY <3>1, <4>2 DEF v
    <3>. QED
      BY <2>6, <3>2 DEF DecodedAs
  <2>. QED
    BY <1>2, <2>7 DEF ScaleFound, q, s
<1>. QED
  BY <1>3, <1>4, <1>5

-------------------------------------------------------------------------------
(* A Q4_K block that was made of parts.                                        *)

\* Of sub-block j: what one step of an element adds, and what is taken off.
Gain(b, j) == b.d * b.sc[j]
Drop(b, j) == b.dmin * b.mn[j]

LEMMA Parts ==
    ASSUME NEW b, BySubBlock(b), NEW j \in 0..7
    PROVE  /\ Gain(b, j) \in Nat /\ Drop(b, j) \in Int
           /\ b.d \in Nat /\ b.d > 0 /\ b.dmin \in Int
           /\ b.sc[j] \in Nat /\ b.sc[j] <= 63 /\ b.mn[j] \in Nat /\ b.mn[j] <= 63
           /\ (Gain(b, j) = 0 <=> b.sc[j] = 0) /\ (b.sc[j] = 63 => Gain(b, j) = 63 * b.d)
           /\ Gain(b, j) <= 63 * b.d
<1>1. /\ b.d \in Nat /\ b.d > 0 /\ b.dmin \in Int
      /\ b.sc[j] \in Nat /\ b.sc[j] <= 63 /\ b.mn[j] \in Nat /\ b.mn[j] <= 63
  <2>1. b.sc[j] \in 0..63 /\ b.mn[j] \in 0..63 /\ b.d \in Nat \ {0} /\ b.dmin \in Int
    BY Zenon DEF BySubBlock
  <2>. QED
    BY <2>1
<1> DEFINE d == b.d
           s == b.sc[j]
           m == b.mn[j]
           e == b.dmin
<1> HIDE DEF d, s, m, e
<1>2. d \in Nat /\ d > 0 /\ e \in Int /\ s \in Nat /\ s <= 63 /\ m \in Nat
  BY <1>1 DEF d, s, m, e
<1>3. e * m \in Int /\ d * s \in Nat /\ (d * s = 0 <=> s = 0)
  BY <1>2
<1>4. d * s <= 63 * d /\ (s = 63 => d * s = 63 * d)
  BY <1>2
<1>. QED
  BY <1>1, <1>3, <1>4 DEF Gain, Drop, d, s, m, e

LEMMA Steps ==
    ASSUME NEW g \in Nat, NEW u \in 0..15
    PROVE  /\ g * u \in Nat /\ g * u <= 15 * g
           /\ g * 0 = 0 /\ g * 15 = 15 * g
<1>1. u \in Nat /\ u <= 15
  OBVIOUS
<1>2. g * u \in Nat
  BY <1>1
<1>3. g * (15 - u) >= 0 /\ g * (15 - u) = 15 * g - g * u
  BY <1>1
<1>. QED
  BY <1>2, <1>3

Made(b, x) == x = Elements(b, b.d, b.dmin)

Element(b, x, j, i) == b.q[i] \in 0..15 /\ x[i] = Gain(b, j) * b.q[i] - Drop(b, j)
Between(b, x, j) == Min(Sub(x, j)) = -Drop(b, j) /\ Max(Sub(x, j)) = 15 * Gain(b, j) - Drop(b, j)
LEMMA SubBlock ==
    ASSUME NEW b, BySubBlock(b), NEW x, Made(b, x), NEW j \in 0..7
    PROVE  Between(b, x, j) /\ \A l \in 0..31 : Element(b, x, j, 32 * j + l)
<1> DEFINE g == Gain(b, j)
           e == Drop(b, j)
           S == Sub(x, j)
<1>1. g \in Nat /\ e \in Int /\ (g = 0 <=> b.sc[j] = 0)
  BY Parts
<1>2. ASSUME NEW l \in 0..31
      PROVE  /\ 32 * j + l \in 0..255 /\ (32 * j + l) \div 32 = j
             /\ b.q[32 * j + l] \in 0..15
             /\ x[32 * j + l] = g * b.q[32 * j + l] - e
  <2> DEFINE i == 32 * j + l
  <2>1. i \in 0..255 /\ i \div 32 = j
    OBVIOUS
  <2> HIDE DEF i
  <2>2. b.q[i] \in 0..15
    BY <2>1 DEF BySubBlock
  <2>3. x[i] = b.d * b.sc[i \div 32] * b.q[i] - b.dmin * b.mn[i \div 32]
    BY <2>1 DEF Made, Elements
  <2>4. x[i] = g * b.q[i] - e
    BY <2>1, <2>3 DEF Gain, Drop
  <2>. QED
    BY <2>1, <2>2, <2>4 DEF i
<1> DEFINE u(l) == b.q[32 * j + l]
<1> HIDE DEF g, e, u
<1>3. ASSUME NEW l \in 0..31
      PROVE  u(l) \in 0..15 /\ x[32 * j + l] = g * u(l) - e
  BY <1>2, Zenon DEF u
<1>4. ASSUME NEW l \in 0..31
      PROVE  /\ x[32 * j + l] \in Int /\ -e <= x[32 * j + l] /\ 15 * g - e >= x[32 * j + l]
             /\ (u(l) = 0 => x[32 * j + l] = -e) /\ (u(l) = 15 => x[32 * j + l] = 15 * g - e)
  <2> DEFINE z == g * u(l)
  <2>1. z \in Nat /\ z <= 15 * g /\ (u(l) = 0 => z = 0) /\ (u(l) = 15 => z = 15 * g)
    <3>1. u(l) \in 0..15
      BY <1>3
    <3>. QED
      BY <1>1, <3>1, Steps
  <2>2. x[32 * j + l] = z - e
    BY <1>3
  <2> HIDE DEF z
  <2>. QED
    BY ONLY <1>1, <2>1, <2>2
<1>5. S = {x[32 * j + l] : l \in 0..31}
  BY DEF Sub
<1>6. S \in SUBSET Int /\ \A y \in S : -e <= y /\ 15 * g - e >= y
  <2>1. \A l \in 0..31 : x[32 * j + l] \in Int /\ -e <= x[32 * j + l] /\ 15 * g - e >= x[32 * j + l]
    BY <1>4
  <2>. QED
    BY <1>5, <2>1
<1>7. -e \in S /\ 15 * g - e \in S
  <2>1. CASE g = 0
    <3>1. 0 \in 0..31
      OBVIOUS
    <3>2. x[32 * j + 0] \in S
      BY <1>5, <3>1
    <3>3. 15 * g - e = -e /\ x[32 * j + 0] = -e
      <4>1. x[32 * j + 0] \in Int /\ -e <= x[32 * j + 0] /\ 15 * g - e >= x[32 * j + 0]
        BY <1>4, <3>1
      <4>. QED
        BY ONLY <1>1, <2>1, <4>1
    <3>. QED
      BY <3>2, <3>3
  <2>2. CASE g # 0
    <3>1. \A end \in {0, 15} : \E l \in 0..31 : u(l) = end
      BY <1>1, <2>2 DEF BySubBlock, u
    <3>2. PICK l \in 0..31 : u(l) = 0
      BY <3>1
    <3>3. PICK k \in 0..31 : u(k) = 15
      BY <3>1
    <3>4. x[32 * j + l] = -e
      BY <1>4, <3>2
    <3>5. x[32 * j + k] = 15 * g - e
      BY <1>4, <3>3
    <3>. QED
      BY <1>5, <3>4, <3>5
  <2>. QED
    BY <2>1, <2>2
<1> HIDE DEF S
<1>8. Min(S) = -e
  BY <1>6, <1>7, MinOf
<1>9. Max(S) = 15 * g - e
  BY <1>6, <1>7, MaxOf
<1>10. Between(b, x, j)
  BY ONLY <1>8, <1>9 DEF Between, S, g, e
<1>11. \A l \in 0..31 : Element(b, x, j, 32 * j + l)
  BY ONLY <1>2 DEF Element, g, e
<1>. QED
  BY <1>10, <1>11

\* The widest range: of a sub-block of scale 63, or none.
Flat(b) == \A j \in 0..7 : b.sc[j] = 0
Widths(b) == {15 * Gain(b, j) : j \in 0..7}
LEMMA Widest ==
    ASSUME NEW b, BySubBlock(b)
    PROVE  Max(Widths(b)) = IF Flat(b) THEN 0 ELSE 945 * b.d
<1> DEFINE S == Widths(b)
<1>1. \A j \in 0..7 : /\ Gain(b, j) \in Nat /\ b.d \in Nat /\ b.d > 0
                      /\ (Gain(b, j) = 0 <=> b.sc[j] = 0) /\ (b.sc[j] = 63 => Gain(b, j) = 63 * b.d)
                      /\ Gain(b, j) <= 63 * b.d
  BY Parts
<1>2. S \in SUBSET Int /\ \A y \in S : y <= 945 * b.d
  BY <1>1 DEF Widths
<1>3. CASE \A j \in 0..7 : b.sc[j] = 0
  <2>1. \A j \in 0..7 : Gain(b, j) = 0
    BY <1>1, <1>3
  <2>2. 0 \in S /\ \A y \in S : 0 >= y
    <3>1. 0 \in 0..7 /\ 15 * 0 = 0
      OBVIOUS
    <3>. QED
      BY <2>1, <3>1 DEF Widths
  <2> HIDE DEF S
  <2>3. Max(S) = 0
    BY <1>2, <2>2, MaxOf
  <2>. QED
    BY <1>3, <2>3 DEF S, Flat
<1>4. CASE \E j \in 0..7 : b.sc[j] = 63
  <2>1. PICK j \in 0..7 : b.sc[j] = 63
    BY <1>4
  <2>2. 15 * Gain(b, j) = 945 * b.d
    BY <1>1, <2>1
  <2>3. 945 * b.d \in S /\ \A y \in S : 945 * b.d >= y
    BY <1>1, <1>2, <2>2 DEF Widths
  <2> DEFINE w == 945 * b.d
  <2> HIDE DEF S, w
  <2>a. w \in S /\ \A y \in S : w >= y
    BY <2>3 DEF w
  <2>b. S \in SUBSET Int
    BY <1>2
  <2>4. Max(S) = w
    BY ONLY <2>a, <2>b, MaxOf, Zenon
  <2>5. ~Flat(b)
    BY <2>1 DEF Flat
  <2>. QED
    BY <2>4, <2>5 DEF S, w
<1>. QED
  BY <1>3, <1>4 DEF BySubBlock

LEMMA DropRange ==
    ASSUME NEW e \in Int, NEW m \in Nat, m <= 63
    PROVE  /\ (e > 0 => 0 <= e * m /\ e * m <= 63 * e)
           /\ (e <= 0 => e * m <= 0 /\ 63 * e <= e * m)
           /\ e * m \in Int
<1>1. e * m \in Int
  OBVIOUS
<1>2. CASE e > 0
  <2>1. e * m >= 0 /\ e * (63 - m) >= 0 /\ e * (63 - m) = 63 * e - e * m
    BY <1>2
  <2>. QED
    BY <1>1, <1>2, <2>1
<1>3. CASE e <= 0
  <2>1. e * m <= 0 /\ e * (63 - m) <= 0 /\ e * (63 - m) = 63 * e - e * m
    BY <1>3
  <2>. QED
    BY <1>1, <1>3, <2>1
<1>. QED
  BY <1>2, <1>3

\* Whatever the sign of the mins, the anchor is 63 of the factor taken off.
LEMMA AnchorFound ==
    ASSUME NEW b, BySubBlock(b), NEW mn, \A j \in 0..7 : mn[j] = -Drop(b, j)
    PROVE  Anchor(mn) = 63 * b.dmin
<1> DEFINE e == b.dmin
           N == {0} \cup {-mn[j] : j \in {k \in 0..7 : mn[k] < 0}}
           P == {0} \cup {mn[j] : j \in {k \in 0..7 : mn[k] >= 0}}
<1>0. e \in Int
  BY DEF BySubBlock
<1>1. \A j \in 0..7 : /\ mn[j] = -Drop(b, j) /\ Drop(b, j) \in Int
                      /\ (e > 0 => 0 <= Drop(b, j) /\ Drop(b, j) <= 63 * e)
                      /\ (e <= 0 => Drop(b, j) <= 0 /\ 63 * e <= Drop(b, j))
  <2>1. ASSUME NEW j \in 0..7
        PROVE  /\ Drop(b, j) \in Int
               /\ (e > 0 => 0 <= Drop(b, j) /\ Drop(b, j) <= 63 * e)
               /\ (e <= 0 => Drop(b, j) <= 0 /\ 63 * e <= Drop(b, j))
    <3>1. b.mn[j] \in Nat /\ b.mn[j] <= 63
      BY Parts
    <3>2. Drop(b, j) = e * b.mn[j]
      BY DEF Drop
    <3> HIDE DEF e
    <3>. QED
      BY <1>0, <3>1, <3>2, DropRange
  <2>. QED
    BY <2>1
<1>2. e # 0 => \E j \in 0..7 : Drop(b, j) = 63 * e
  <2>1. SUFFICES ASSUME e # 0 PROVE \E j \in 0..7 : Drop(b, j) = 63 * e
    OBVIOUS
  <2>2. PICK j \in 0..7 : b.mn[j] = 63
    BY <2>1 DEF BySubBlock
  <2>3. Drop(b, j) = 63 * e
    BY <1>0, <2>2 DEF Drop
  <2>. QED
    BY <2>3
<1>3. Anchor(mn) = IF Max(N) > 0 THEN Max(N) ELSE -Max(P)
  BY DEF Anchor, NegMax, PosMax
<1> HIDE DEF e
<1>4. N \in SUBSET Int /\ P \in SUBSET Int /\ 0 \in N /\ 0 \in P
  BY <1>1
<1>5. CASE e > 0
  <2>1. PICK j \in 0..7 : Drop(b, j) = 63 * e
    BY <1>2, <1>5
  <2>2. mn[j] < 0 /\ -mn[j] = 63 * e
    BY <1>0, <1>1, <1>5, <2>1
  <2>3. 63 * e \in N
    BY <2>2
  <2>4. \A y \in N : 63 * e >= y
    BY <1>0, <1>1, <1>5
  <2> HIDE DEF N
  <2>5. Max(N) = 63 * e
    BY <1>4, <2>3, <2>4, MaxOf
  <2>. QED
    BY <1>0, <1>3, <1>5, <2>5 DEF e
<1>6. CASE e <= 0
  <2>1. \A k \in 0..7 : ~(mn[k] < 0)
    BY <1>0, <1>1, <1>6
  <2>2. \A y \in N : 0 >= y
    BY <2>1
  <2>3. Max(N) = 0
    <3> HIDE DEF N
    <3>. QED
      BY <1>4, <2>2, MaxOf
  <2>4. 0 - 63 * e \in P
    <3>1. CASE e = 0
      <4>2. 0 - 63 * e = 0
        BY <1>0, <3>1
      <4> HIDE DEF P
      <4>. QED
        BY <1>4, <4>2, Zenon
    <3>2. CASE e # 0
      <4>1. PICK j \in 0..7 : Drop(b, j) = 63 * e
        BY <1>2, <3>2
      <4>2. mn[j] >= 0 /\ mn[j] = 0 - 63 * e
        BY <1>0, <1>1, <1>6, <4>1
      <4>. QED
        BY <4>2
    <3>. QED
      BY <3>1, <3>2
  <2>5. \A y \in P : 0 - 63 * e >= y
    BY <1>0, <1>1, <1>6
  <2>6. Max(P) = 0 - 63 * e
    <3> HIDE DEF P
    <3>. QED
      BY <1>4, <2>4, <2>5, MaxOf
  <2> HIDE DEF N, P
  <2>. QED
    BY <1>0, <1>3, <2>3, <2>6 DEF e
<1>. QED
  BY <1>0, <1>5, <1>6

LEMMA Commutes ==
    ASSUME NEW d \in Int, NEW s \in Int
    PROVE  /\ 63 * (15 * (d * s)) = s * (945 * d) /\ 63 * (15 * (d * s)) \in Int
           /\ 63 * (d * s) = s * (63 * d) /\ 63 * (d * s) \in Int
  OBVIOUS

LEMMA Fits6 ==
    ASSUME NEW n \in Int, NEW D \in Int, D # 0, NEW k \in Nat, k <= 63, n = k * D
    PROVE  clamp(0, 63, round(n, D)) = k
<1>1. Rounds(n, D, k)
  BY RoundExact
<1>2. k \in Int /\ 0 <= k
  OBVIOUS
<1>3. clamp(0, 63, k) = k
  BY <1>2, ClampIn
<1>. QED
  BY <1>1, <1>3 DEF Rounds

\* The encoder's lowest elements, ranges, widest range and anchor.
Measured(b, x) ==
    /\ \A j \in 0..7 : Lows(x)[j] = -Drop(b, j) /\ Ranges(x)[j] = 15 * Gain(b, j)
    /\ WidestOf(x) = IF Flat(b) THEN 0 ELSE 945 * b.d
    /\ Anchor(Lows(x)) = 63 * b.dmin
LEMMA PartsMeasured ==
    ASSUME NEW b, BySubBlock(b), NEW x, Made(b, x), Finite(x)
    PROVE  Measured(b, x)
<1>1. ASSUME NEW j \in 0..7 PROVE Lows(x)[j] = -Drop(b, j) /\ Ranges(x)[j] = 15 * Gain(b, j)
  <2>1. Min(Sub(x, j)) = -Drop(b, j) /\ Max(Sub(x, j)) = 15 * Gain(b, j) - Drop(b, j)
    <3>1. Between(b, x, j)
      BY SubBlock
    <3>. QED
      BY ONLY <3>1 DEF Between
  <2>2. Gain(b, j) \in Nat /\ Drop(b, j) \in Int
    BY Parts
  <2>3. Lows(x)[j] = Min(Sub(x, j)) /\ Ranges(x)[j] = Max(Sub(x, j)) - Lows(x)[j]
    BY DEF Lows, Ranges
  <2>. QED
    BY ONLY <2>1, <2>2, <2>3
<1>2. WidestOf(x) = IF Flat(b) THEN 0 ELSE 945 * b.d
  <2>1. {Ranges(x)[j] : j \in 0..7} = Widths(b)
    BY <1>1 DEF Widths
  <2>. QED
    BY <2>1, Widest DEF WidestOf
<1>3. Anchor(Lows(x)) = 63 * b.dmin
  <2> DEFINE mn == Lows(x)
  <2>1. \A j \in 0..7 : mn[j] = -Drop(b, j)
    BY <1>1
  <2> HIDE DEF mn
  <2>2. Anchor(mn) = 63 * b.dmin
    BY <2>1, AnchorFound
  <2>. QED
    BY <2>2 DEF mn
<1>. QED
  BY <1>1, <1>2, <1>3 DEF Measured

LEMMA Coefficients ==
    ASSUME NEW b, BySubBlock(b)
    PROVE  b.d \in Nat /\ b.d > 0 /\ b.dmin \in Int
<1>1. b.d \in Nat \ {0} /\ b.dmin \in Int
  BY Zenon DEF BySubBlock
<1>. QED
  BY ONLY <1>1

(* The six bits of each scale and of each min come out as they went in.        *)
LEMMA ScalesFound ==
    ASSUME NEW b, BySubBlock(b), NEW x, Made(b, x), Finite(x), NEW j \in 0..7
    PROVE  Scales(x)[j] = b.sc[j] /\ Mins(x)[j] = b.mn[j]
<1> DEFINE w == WidestOf(x)
           a == Anchor(Lows(x))
           r == Ranges(x)[j]
           lo == Lows(x)[j]
<1>1. /\ lo = -Drop(b, j) /\ r = 15 * Gain(b, j)
      /\ w = (IF Flat(b) THEN 0 ELSE 945 * b.d)
      /\ a = 63 * b.dmin
  BY PartsMeasured DEF Measured
<1>2. /\ Scales(x)[j] = IF w > 0 THEN clamp(0, 63, round(63 * r, w)) ELSE 0
      /\ Mins(x)[j] = IF a # 0 THEN clamp(0, 63, round(63 * (-lo), a)) ELSE 0
  BY Zenon DEF Scales, Mins
<1>3. b.d \in Nat /\ b.d > 0 /\ b.dmin \in Int
  BY Coefficients
<1>4. /\ b.sc[j] \in Nat /\ b.sc[j] <= 63 /\ Gain(b, j) = b.d * b.sc[j]
      /\ b.mn[j] \in Nat /\ b.mn[j] <= 63 /\ Drop(b, j) = b.dmin * b.mn[j]
  BY Parts DEF Gain, Drop
<1> HIDE DEF w, a, r, lo
<1>5. Scales(x)[j] = b.sc[j]
  <2>1. CASE Flat(b)
    <3>1. b.sc[j] = 0 /\ ~(w > 0)
      BY <1>1, <2>1 DEF Flat
    <3>. QED
      BY <1>2, <3>1
  <2>2. CASE ~Flat(b)
    <3>1. w = 945 * b.d /\ w > 0 /\ w \in Int
      BY <1>1, <1>3, <2>2
    <3> DEFINE n == 63 * r
    <3>2. n = b.sc[j] * w /\ n \in Int
      <4>1. n = 63 * (15 * (b.d * b.sc[j]))
        BY <1>1, <1>4
      <4>. QED
        BY <1>3, <1>4, <3>1, <4>1, Commutes
    <3> HIDE DEF n
    <3>3. clamp(0, 63, round(n, w)) = b.sc[j]
      BY <1>4, <3>1, <3>2, Fits6
    <3>. QED
      BY <1>2, <3>1, <3>3 DEF n
  <2>. QED
    BY <2>1, <2>2
<1>6. Mins(x)[j] = b.mn[j]
  <2>1. CASE b.dmin = 0
    <3>1. b.mn[j] = 0
      BY <2>1 DEF BySubBlock
    <3>. QED
      BY <1>1, <1>2, <2>1, <3>1
  <2>2. CASE b.dmin # 0
    <3>1. a # 0 /\ a \in Int
      BY <1>1, <1>3, <2>2
    <3> DEFINE n == 63 * (-lo)
    <3>2. n = b.mn[j] * a /\ n \in Int
      <4>1. n = 63 * (b.dmin * b.mn[j])
        <5>1. lo = -(b.dmin * b.mn[j]) /\ b.dmin * b.mn[j] \in Int
          BY <1>1, <1>3, <1>4
        <5>. QED
          BY <5>1
      <4>. QED
        BY <1>1, <1>3, <1>4, <4>1, Commutes
    <3> HIDE DEF n
    <3>3. clamp(0, 63, round(n, a)) = b.mn[j]
      BY <1>4, <3>1, <3>2, Fits6
    <3>. QED
      BY <1>2, <3>1, <3>3 DEF n
  <2>. QED
    BY <2>1, <2>2
<1>. QED
  BY <1>5, <1>6

LEMMA Distance ==
    ASSUME NEW d \in Int, NEW s \in Int, NEW u \in Int, NEW e \in Int, NEW t \in Int, NEW F \in Int, NEW G \in Int
    PROVE  ((d * s * u - e * t) + G * t) - u * (F * s) = s * u * (d - F) + t * (G - e)
<1>1. s * u * (d - F) = d * s * u - u * (F * s)
  OBVIOUS
<1>2. t * (G - e) = G * t - e * t
  OBVIOUS
<1> DEFINE a == d * s * u
           b == e * t
           c == G * t
           f == u * (F * s)
<1>3. a \in Int /\ b \in Int /\ c \in Int /\ f \in Int
  OBVIOUS
<1> HIDE DEF a, b, c, f
<1>4. ((a - b) + c) - f = (a - f) + (c - b)
  BY <1>3
<1>. QED
  BY <1>1, <1>2, <1>4 DEF a, b, c, f

LEMMA Product ==
    ASSUME NEW s \in Nat, NEW u \in 0..15, NEW A \in Nat, NEW y \in Int, -A <= y, y <= A
    PROVE  -(15 * s * A) <= s * u * y /\ s * u * y <= 15 * s * A /\ s * u * y \in Int /\ 15 * s * A \in Nat
<1> DEFINE a == s * u
           b == s * A
<1>1. a \in Nat /\ a <= 15 * s /\ b \in Nat
  BY Steps
<1>2. 15 * s * A \in Nat /\ a * A <= 15 * s * A /\ a * A \in Nat
  <2>1. 15 * s \in Int /\ a \in Int
    BY <1>1
  <2> HIDE DEF a
  <2>. QED
    BY <1>1, <2>1, Grows
<1> HIDE DEF a, b
<1>3. y * a <= A * a /\ (-A) * a <= y * a /\ (-A) * a = -(A * a)
  <2>1. -A \in Int /\ A \in Int
    OBVIOUS
  <2>2. y * a <= A * a /\ (-A) * a <= y * a
    BY <1>1, <2>1, Grows
  <2>. QED
    BY <1>1, <2>1, <2>2, Negated
<1>4. y * a = a * y /\ A * a = a * A /\ a * y \in Int
  BY <1>1
<1>5. -(15 * s * A) <= a * y /\ a * y <= 15 * s * A
  <2> DEFINE f == 15 * s * A
             g == a * A
             h == a * y
  <2>1. f \in Nat /\ g <= f /\ g \in Nat /\ h \in Int /\ h <= g /\ -g <= h
    BY <1>2, <1>3, <1>4
  <2> HIDE DEF f, g, h
  <2>2. -f <= h /\ h <= f
    BY ONLY <2>1
  <2>. QED
    BY <2>2 DEF f, h
<1>. QED
  BY <1>2, <1>4, <1>5 DEF a

(* Elements come out with the stored factors in the place of their own, where  *)
(* these are off by less than half a level.                                    *)
LEMMA ElementFound ==
    ASSUME NEW b, BySubBlock(b), NEW x, Made(b, x), Finite(x), Bounded(x),
           NEW block, Decodes(x, block), NEW i \in 0..255,
           b.sc[i \div 32] = 0 \/ 2 * Drift(b, i \div 32, block) < Factor(block.d) * b.sc[i \div 32]
    PROVE  decode_q4k_block(block)[i] = Elements(b, Factor(block.d), Factor(block.dmin))[i]
<1> DEFINE j == i \div 32
           F == Factor(block.d)
           G == Factor(block.dmin)
           s == b.sc[j]
           t == b.mn[j]
           u == b.q[i]
           v == Quants(x)[i]
           d == b.d
           e == b.dmin
<1>0. j \in 0..7
  OBVIOUS
<1>1. /\ decode_q4k_block(block) = [k \in 0..255 |-> F * Scales(x)[k \div 32] * Quants(x)[k] - G * Mins(x)[k \div 32]]
      /\ F \in Nat /\ G \in Int /\ F = Rounded(Dall(x)) /\ G = Signed(Negative(Lows(x)), Rounded(Dmin(x)))
  BY DEF Decodes
<1>2. Scales(x)[j] = s /\ Mins(x)[j] = t
  BY <1>0, ScalesFound
<1>3. decode_q4k_block(block)[i] = F * s * v - G * t
  BY <1>1, <1>2
<1>4. Elements(b, F, G)[i] = F * s * u - G * t
  BY DEF Elements
<1>5. x[i] = d * s * u - e * t
  BY DEF Made, Elements
<1>6. d \in Nat /\ e \in Int
  BY Coefficients
<1>7. s \in Nat /\ t \in Nat
  BY <1>0, Parts
<1>8. u \in 0..15
  BY DEF BySubBlock
<1>9. Quants(x) \in [0..255 -> 0..15]
  BY QuantsTyped
<1>10. v \in 0..15
  BY <1>9
<1>11. v = IF F * s = 0 THEN 0 ELSE clamp(0, 15, round(x[i] + G * t, F * s))
  <2>1. Level(x, i) = F * s /\ Below(x, i) = G * t
    BY <1>1, <1>2, Zenon DEF Level, Below
  <2>2. v = IF Level(x, i) = 0 THEN 0 ELSE clamp(0, 15, round(x[i] + Below(x, i), Level(x, i)))
    BY Zenon DEF Quants
  <2>. QED
    BY <2>1, <2>2, Zenon
<1>12. s = 0 \/ 2 * (15 * s * abs(F - d) + t * abs(G - e)) < F * s
  BY Zenon DEF Drift
<1> HIDE DEF j, F, G, s, t, u, v, d, e
<1>13. CASE s = 0
  <2>1. F * s * v = 0 /\ F * s * u = 0
    BY <1>1, <1>8, <1>10, <1>13
  <2>. QED
    BY <1>3, <1>4, <2>1 DEF F, G
<1>14. CASE s # 0
  <2> DEFINE D == F * s
             n == x[i] + G * t
             A == abs(F - d)
             B == abs(G - e)
  <2>1. A \in Nat /\ B \in Nat /\ -A <= d - F /\ d - F <= A /\ -B <= G - e /\ G - e <= B
    BY <1>1, <1>6 DEF abs
  <2>2. D \in Nat /\ s > 0
    BY <1>1, <1>7, <1>14
  <2>3. n \in Int /\ n - u * D = s * u * (d - F) + t * (G - e)
    <3>1. u \in Int /\ s \in Int /\ t \in Int /\ d \in Int /\ F \in Int
      BY <1>1, <1>6, <1>7, <1>8
    <3>2. ((d * s * u - e * t) + G * t) - u * (F * s) = s * u * (d - F) + t * (G - e)
      BY <1>1, <1>6, <3>1, Distance
    <3>3. x[i] \in Int
      BY <1>5, <1>6, <3>1
    <3>. QED
      BY <1>1, <1>5, <3>1, <3>2, <3>3
  <2>4. /\ -(15 * s * A) <= s * u * (d - F) /\ s * u * (d - F) <= 15 * s * A
        /\ -(t * B) <= t * (G - e) /\ t * (G - e) <= t * B
        /\ 15 * s * A \in Nat /\ t * B \in Nat /\ s * u * (d - F) \in Int /\ t * (G - e) \in Int
    <3> DEFINE y == d - F
               z == G - e
    <3>1. y \in Int /\ z \in Int /\ -A <= y /\ y <= A /\ -B <= z /\ z <= B
      BY <1>1, <1>6, <2>1
    <3> HIDE DEF A, B, y, z
    <3>2. -(15 * s * A) <= s * u * y /\ s * u * y <= 15 * s * A /\ s * u * y \in Int /\ 15 * s * A \in Nat
      BY <1>7, <1>8, <2>1, <3>1, Product
    <3>3. -(t * B) <= t * z /\ t * z <= t * B /\ t * z \in Int /\ t * B \in Nat
      <4>1. z * t <= B * t /\ (-B) * t <= z * t /\ -B \in Int
        BY <1>7, <2>1, <3>1, Grows
      <4>. QED
        BY <1>7, <2>1, <3>1, <4>1
    <3>. QED
      BY <3>2, <3>3 DEF y, z
  <2>5. 2 * (15 * s * A + t * B) < D
    BY <1>12, <1>14
  <2> HIDE DEF D, n, A, B
  <2>6. -D < 2 * (n - u * D) /\ 2 * (n - u * D) < D /\ D > 0
    <3> DEFINE a == s * u * (d - F)
               c == t * (G - e)
               f == 15 * s * A
               g == t * B
    <3>1. a \in Int /\ c \in Int /\ f \in Nat /\ g \in Nat /\ -f <= a /\ a <= f /\ -g <= c /\ c <= g /\ 2 * (f + g) < D
      BY <2>4, <2>5
    <3>2. n - u * D = a + c
      BY <2>3
    <3> HIDE DEF a, c, f, g
    <3>. QED
      BY <2>2, <3>1, <3>2
  <2>7. round(n, D) = u
    <3>1. u \in Int
      BY <1>8
    <3>2. u * D \in Int
      BY <2>2, <3>1
    <3>3. IF n < 0 THEN -D < 2 * (n - u * D) /\ 2 * (n - u * D) <= D ELSE -D <= 2 * (n - u * D) /\ 2 * (n - u * D) < D
      BY <2>2, <2>3, <2>6, <3>2
    <3>. QED
      BY <2>2, <2>3, <2>6, <3>1, <3>3, RoundIs
  <2>8. clamp(0, 15, u) = u
    <3>1. u \in Int /\ 0 <= u /\ u <= 15
      BY <1>8
    <3>. QED
      BY <3>1, ClampIn
  <2>9. v = u
    BY <1>11, <2>6, <2>7, <2>8 DEF D, n
  <2>. QED
    BY <1>3, <1>4, <2>9, Zenon DEF F, G
<1>. QED
  BY <1>13, <1>14

-------------------------------------------------------------------------------
(* The factors of a block that was made of parts, up to the halves.            *)
LEMMA PowersGrow ==
    ASSUME NEW a \in 0..23, NEW b \in 0..23, a < b
    PROVE  2 * 2 ^ a <= 2 ^ b /\ (b = a + 1 => 2 ^ b = 2 * 2 ^ a)
<1> DEFINE p == 2 ^ a
           q == 2 ^ b
<1>1. PowerIs(a, p) /\ PowerIs(b, q)
  BY Powers
<1> HIDE DEF p, q
<1>2. 2 * p <= q /\ (b = a + 1 => q = 2 * p)
  BY SMT, <1>1 DEF PowerIs
<1>. QED
  BY ONLY <1>2 DEF p, q

IsMantissa(v) == v \in Nat /\ 8388608 <= v /\ v < 16777216

\* Only one exponent makes a mantissa of a number.
LEMMA ToFloatIs ==
    ASSUME NEW n \in Nat, n > 0, n < 16777216, NEW j \in 0..23, IsMantissa(Mantissa(n, j))
    PROVE  ToFloat(n) = [e |-> 103 + j, m |-> Mantissa(n, j) - Implicit]
<1>1. PICK k \in 0..23 : Leads(n, k)
  BY SMT, LeadingBit
<1> DEFINE p == 2 ^ (23 - k)
           q == 2 ^ (23 - j)
<1>2. 23 - k \in 0..23 /\ 23 - j \in 0..23
  BY SMT
<1>3. p \in Nat /\ q \in Nat /\ p > 0 /\ q > 0
  BY ONLY <1>2, PowerPositive
<1>4. Mantissa(n, k) = n * p /\ Mantissa(n, j) = n * q
  BY SMT DEF Mantissa
<1>5. ASSUME k < j PROVE FALSE
  <2>1. 2 * q <= p
    <3>1. 23 - j < 23 - k
      BY SMT, <1>5
    <3>. QED
      BY ONLY <1>2, <3>1, PowersGrow
  <2> HIDE DEF p, q
  <2>2. 2 * (n * q) <= n * p
    BY SMT, <1>3, <2>1
  <2>3. n * p < 16777216 /\ n * q >= 8388608 /\ n * p \in Int /\ n * q \in Int
    BY SMT, <1>1, <1>4, MantissaRange DEF IsMantissa
  <2>. QED
    BY SMT, <2>2, <2>3
<1>6. ASSUME j < k PROVE FALSE
  <2>1. 2 * p <= q
    <3>1. 23 - k < 23 - j
      BY SMT, <1>6
    <3>. QED
      BY ONLY <1>2, <3>1, PowersGrow
  <2> HIDE DEF p, q
  <2>2. 2 * (n * p) <= n * q
    BY SMT, <1>3, <2>1
  <2>3. n * q < 16777216 /\ n * p >= 8388608 /\ n * p \in Int /\ n * q \in Int
    BY SMT, <1>1, <1>4, MantissaRange DEF IsMantissa
  <2>. QED
    BY SMT, <2>2, <2>3
<1>7. j = k
  BY SMT, <1>5, <1>6
<1>. QED
  BY SMT, <1>1, <1>7 DEF Leads, Mantissa

LEMMA ShiftedExact ==
    ASSUME NEW a \in Nat, NEW u \in Nat, u > 0, NEW s, s = u * a
    PROVE  Shifted(s, u) = a
<1>1. s \div u = a /\ s % u = 0 /\ s \in Nat
  <2>1. s \in Int /\ a * u <= s /\ s < a * u + u
    BY SMT
  <2>2. s \div u = a
    BY SMT, <2>1, DivIs
  <2>3. s = u * (s \div u) + (s % u) /\ s % u \in Nat /\ s \in Nat
    BY SMT, ShiftedIs
  <2>. QED
    BY SMT, <2>2, <2>3
<1>. QED
  BY SMT, <1>1 DEF Shifted

\* What is above a power of two that many bits up.
LEMMA PowerUp ==
    ASSUME NEW a \in 0..23, NEW c \in {3, 4, 5, 6}, a + c <= 23
    PROVE  2 ^ (a + c) = 2 ^ c * 2 ^ a /\ 2 ^ c \in {8, 16, 32, 64}
<1> DEFINE p == 2 ^ a
           q == 2 ^ (a + c)
           r == 2 ^ c
<1>1. a + c \in 0..23 /\ c \in 0..23
  BY SMT
<1>2. PowerIs(a, p) /\ PowerIs(a + c, q) /\ PowerIs(c, r)
  BY ONLY <1>1, a \in 0..23, Powers
<1> HIDE DEF p, q, r
<1>3. q = r * p /\ r \in {8, 16, 32, 64}
  <2>1. CASE c = 3
    BY SMT, <1>2, <2>1 DEF PowerIs
  <2>2. CASE c = 4
    BY SMT, <1>2, <2>2 DEF PowerIs
  <2>3. CASE c = 5
    BY SMT, <1>2, <2>3 DEF PowerIs
  <2>4. CASE c = 6
    BY SMT, <1>2, <2>4 DEF PowerIs
  <2>. QED
    BY SMT, <2>1, <2>2, <2>3, <2>4
<1>. QED
  BY ONLY <1>3 DEF p, q, r

\* A whole quotient by 15 or by 63 is found without any rounding.
LEMMA WholeOver15 ==
    ASSUME NEW n \in Nat, n > 0, 15 * n < 16777216
    PROVE  Over(ToFloat(15 * n), 15, 4) = ToFloat(n)
<1> DEFINE w == 15 * n
<1>1. w \in Nat /\ w >= 15 /\ w > 0 /\ n < 16777216
  BY SMT
<1>2. PICK k \in 0..23 : Leads(w, k)
  BY SMT, <1>1, LeadingBit
<1> DEFINE p == 2 ^ (23 - k)
           mant == Mantissa(w, k)
           v == n * p
<1>3. 8388608 <= mant /\ mant < 16777216 /\ mant \in Int
  BY SMT, <1>1, <1>2, MantissaRange
<1>4. 23 - k \in 0..23 /\ k \in Int /\ 0 <= k /\ k <= 23
  BY SMT
<1>5. p \in Nat /\ p > 0 /\ PowerIs(23 - k, p)
  BY ONLY <1>4, PowerPositive, Powers
<1>6. mant = 15 * v /\ v \in Nat
  <2>1. mant = (15 * n) * p
    BY SMT DEF Mantissa
  <2> HIDE DEF p, mant
  <2>. QED
    BY SMT, <1>5, <2>1
<1>7. ToFloat(w) = [e |-> 103 + k, m |-> mant - 8388608]
  BY SMT, <1>2 DEF Leads, Mantissa, Implicit
<1> DEFINE f == ToFloat(w)
           s == (8388608 + f.m) * 16
<1>8. f.e = 103 + k /\ f.e \in Int /\ f.e # 0 /\ s = 16 * mant
  BY SMT, <1>3, <1>4, <1>7
<1>9. Over(f, 15, 4) = IF s >= 251658240 THEN [e |-> f.e - 3, m |-> Shifted(s, 30) - 8388608]
                       ELSE [e |-> f.e - 4, m |-> Shifted(s, 15) - 8388608]
  BY SMT, <1>8, OverIs
<1> HIDE DEF w, p, mant, f, s
<1>10. k >= 3 /\ (k = 3 => s >= 251658240)
  <2>1. n >= 1
    BY SMT
  <2>2. mant >= 15 * p
    BY SMT, <1>5, <1>6, <2>1
  <2>. QED
    BY SMT, <1>3, <1>4, <1>5, <1>8, <2>2 DEF PowerIs
<1>11. CASE s >= 251658240
  <2> DEFINE j == k - 3
  <2>1. 23 - j = (23 - k) + 3 /\ j \in 0..23 /\ (23 - k) + 3 <= 23 /\ 3 \in {3, 4, 5, 6}
    BY SMT, <1>4, <1>10
  <2>2. 2 ^ ((23 - k) + 3) = 2 ^ 3 * p
    BY ONLY <1>4, <2>1, PowerUp DEF p
  <2>3. 2 ^ 3 = 8
    BY SMT
  <2>4. Mantissa(n, j) = 8 * v
    <3>1. Mantissa(n, j) = n * 2 ^ (23 - j)
      BY SMT DEF Mantissa
    <3>2. Mantissa(n, j) = n * (8 * p)
      BY ONLY <2>1, <2>2, <2>3, <3>1, Zenon
    <3>. QED
      BY SMT, <1>5, <3>2
  <2> HIDE DEF j, v
  <2>5. Shifted(s, 30) = 8 * v
    BY SMT, <1>6, <1>8, ShiftedExact
  <2>6. IsMantissa(8 * v)
    BY SMT, <1>3, <1>6, <1>8, <1>11 DEF IsMantissa
  <2>7. ToFloat(n) = [e |-> 103 + j, m |-> 8 * v - 8388608]
    BY SMT, <1>1, <2>1, <2>4, <2>6, ToFloatIs DEF Implicit
  <2>8. f.e - 3 = 103 + j
    BY SMT, <1>4, <1>8 DEF j
  <2>. QED
    BY SMT, <1>9, <1>11, <2>5, <2>7, <2>8 DEF f, w
<1>12. CASE s < 251658240
  <2> DEFINE j == k - 4
  <2>1. 23 - j = (23 - k) + 4 /\ j \in 0..23 /\ (23 - k) + 4 <= 23 /\ 4 \in {3, 4, 5, 6}
    BY SMT, <1>3, <1>4, <1>8, <1>10, <1>12
  <2>2. 2 ^ ((23 - k) + 4) = 2 ^ 4 * p
    BY ONLY <1>4, <2>1, PowerUp DEF p
  <2>3. 2 ^ 4 = 16
    BY SMT
  <2>4. Mantissa(n, j) = 16 * v
    <3>1. Mantissa(n, j) = n * 2 ^ (23 - j)
      BY SMT DEF Mantissa
    <3>2. Mantissa(n, j) = n * (16 * p)
      BY ONLY <2>1, <2>2, <2>3, <3>1, Zenon
    <3>. QED
      BY SMT, <1>5, <3>2
  <2> HIDE DEF j, v
  <2>5. Shifted(s, 15) = 16 * v
    BY SMT, <1>6, <1>8, ShiftedExact
  <2>6. IsMantissa(16 * v)
    BY SMT, <1>3, <1>6, <1>8, <1>12 DEF IsMantissa
  <2>7. ToFloat(n) = [e |-> 103 + j, m |-> 16 * v - 8388608]
    BY SMT, <1>1, <2>1, <2>4, <2>6, ToFloatIs DEF Implicit
  <2>8. f.e - 4 = 103 + j
    BY SMT, <1>4, <1>8 DEF j
  <2>. QED
    BY SMT, <1>8, <1>9, <1>12, <2>5, <2>7, <2>8, <1>3 DEF f, w
<1>. QED
  BY SMT, <1>3, <1>8, <1>11, <1>12

LEMMA WholeOver63 ==
    ASSUME NEW n \in Nat, n > 0, 63 * n < 16777216
    PROVE  Over(ToFloat(63 * n), 63, 6) = ToFloat(n)
<1> DEFINE w == 63 * n
<1>1. w \in Nat /\ w >= 63 /\ w > 0 /\ n < 16777216
  BY SMT
<1>2. PICK k \in 0..23 : Leads(w, k)
  BY SMT, <1>1, LeadingBit
<1> DEFINE p == 2 ^ (23 - k)
           mant == Mantissa(w, k)
           v == n * p
<1>3. 8388608 <= mant /\ mant < 16777216 /\ mant \in Int
  BY SMT, <1>1, <1>2, MantissaRange
<1>4. 23 - k \in 0..23 /\ k \in Int /\ 0 <= k /\ k <= 23
  BY SMT
<1>5. p \in Nat /\ p > 0 /\ PowerIs(23 - k, p)
  BY ONLY <1>4, PowerPositive, Powers
<1>6. mant = 63 * v /\ v \in Nat
  <2>1. mant = (63 * n) * p
    BY SMT DEF Mantissa
  <2> HIDE DEF p, mant
  <2>. QED
    BY SMT, <1>5, <2>1
<1>7. ToFloat(w) = [e |-> 103 + k, m |-> mant - 8388608]
  BY SMT, <1>2 DEF Leads, Mantissa, Implicit
<1> DEFINE f == ToFloat(w)
           s == (8388608 + f.m) * 64
<1>8. f.e = 103 + k /\ f.e \in Int /\ f.e # 0 /\ s = 64 * mant
  BY SMT, <1>3, <1>4, <1>7
<1>9. Over(f, 63, 6) = IF s >= 1056964608 THEN [e |-> f.e - 5, m |-> Shifted(s, 126) - 8388608]
                       ELSE [e |-> f.e - 6, m |-> Shifted(s, 63) - 8388608]
  BY SMT, <1>8, OverIs
<1> HIDE DEF w, p, mant, f, s
<1>10. k >= 5 /\ (k = 5 => s >= 1056964608)
  <2>1. n >= 1
    BY SMT
  <2>2. mant >= 63 * p
    BY SMT, <1>5, <1>6, <2>1
  <2>. QED
    BY SMT, <1>3, <1>4, <1>5, <1>8, <2>2 DEF PowerIs
<1>11. CASE s >= 1056964608
  <2> DEFINE j == k - 5
  <2>1. 23 - j = (23 - k) + 5 /\ j \in 0..23 /\ (23 - k) + 5 <= 23 /\ 5 \in {3, 4, 5, 6}
    BY SMT, <1>4, <1>10
  <2>2. 2 ^ ((23 - k) + 5) = 2 ^ 5 * p
    BY ONLY <1>4, <2>1, PowerUp DEF p
  <2>3. 2 ^ 5 = 32
    BY SMT
  <2>4. Mantissa(n, j) = 32 * v
    <3>1. Mantissa(n, j) = n * 2 ^ (23 - j)
      BY SMT DEF Mantissa
    <3>2. Mantissa(n, j) = n * (32 * p)
      BY ONLY <2>1, <2>2, <2>3, <3>1, Zenon
    <3>. QED
      BY SMT, <1>5, <3>2
  <2> HIDE DEF j, v
  <2>5. Shifted(s, 126) = 32 * v
    BY SMT, <1>6, <1>8, ShiftedExact
  <2>6. IsMantissa(32 * v)
    BY SMT, <1>3, <1>6, <1>8, <1>11 DEF IsMantissa
  <2>7. ToFloat(n) = [e |-> 103 + j, m |-> 32 * v - 8388608]
    BY SMT, <1>1, <2>1, <2>4, <2>6, ToFloatIs DEF Implicit
  <2>8. f.e - 5 = 103 + j
    BY SMT, <1>4, <1>8 DEF j
  <2>. QED
    BY SMT, <1>9, <1>11, <2>5, <2>7, <2>8 DEF f, w
<1>12. CASE s < 1056964608
  <2> DEFINE j == k - 6
  <2>1. 23 - j = (23 - k) + 6 /\ j \in 0..23 /\ (23 - k) + 6 <= 23 /\ 6 \in {3, 4, 5, 6}
    BY SMT, <1>3, <1>4, <1>8, <1>10, <1>12
  <2>2. 2 ^ ((23 - k) + 6) = 2 ^ 6 * p
    BY ONLY <1>4, <2>1, PowerUp DEF p
  <2>3. 2 ^ 6 = 64
    BY SMT
  <2>4. Mantissa(n, j) = 64 * v
    <3>1. Mantissa(n, j) = n * 2 ^ (23 - j)
      BY SMT DEF Mantissa
    <3>2. Mantissa(n, j) = n * (64 * p)
      BY ONLY <2>1, <2>2, <2>3, <3>1, Zenon
    <3>. QED
      BY SMT, <1>5, <3>2
  <2> HIDE DEF j, v
  <2>5. Shifted(s, 63) = 64 * v
    BY SMT, <1>6, <1>8, ShiftedExact
  <2>6. IsMantissa(64 * v)
    BY SMT, <1>3, <1>6, <1>8, <1>12 DEF IsMantissa
  <2>7. ToFloat(n) = [e |-> 103 + j, m |-> 64 * v - 8388608]
    BY SMT, <1>1, <2>1, <2>4, <2>6, ToFloatIs DEF Implicit
  <2>8. f.e - 6 = 103 + j
    BY SMT, <1>4, <1>8 DEF j
  <2>. QED
    BY SMT, <1>8, <1>9, <1>12, <2>5, <2>7, <2>8, <1>3 DEF f, w
<1>. QED
  BY SMT, <1>3, <1>8, <1>11, <1>12

NormalBits(h) == h \in Nat /\ h \div 1024 \in 1..30 /\ h % 1024 \in 0..1023
LEMMA StoredNormal ==
    ASSUME NEW e \in 113..126, NEW m \in Nat, m <= 8388607
    PROVE  NormalBits(f32_to_f16(e, m))
<1> DEFINE half == Shifted(m, Unit)
           exp == e - 112
           h == f32_to_f16(e, m)
<1>1. exp \in 1..14 /\ e - 127 + 15 = exp
  BY SMT
<1>2. half \in Nat /\ half <= 1024
  BY SMT DEF Shifted, Unit
<1>3. h = IF half < 1024 THEN exp * 1024 + half ELSE (exp + 1) * 1024
  BY SMT, <1>1 DEF f32_to_f16
<1> HIDE DEF half, exp, h
<1>4. NormalBits(h)
  BY SMT, <1>1, <1>2, <1>3 DEF NormalBits
<1>. QED
  BY SMT, <1>4 DEF h

\* 2^13 is a whole number of the last bit of every float from 1024 to 2^17.
Divides(p) == \E q \in {1, 2, 4, 8, 16, 32, 64, 128} : 8192 = p * q
LEMMA LastBit ==
    ASSUME NEW a \in 6..13
    PROVE  Divides(2 ^ a)
<1> DEFINE p == 2 ^ a
<1>1. a \in 0..23
  BY SMT
<1>2. PowerIs(a, p)
  BY ONLY <1>1, Powers
<1> HIDE DEF p
<1>3. Divides(p)
  BY SMT, <1>2 DEF PowerIs, Divides
<1>. QED
  BY ONLY <1>3 DEF p

LEMMA WholeUnits ==
    ASSUME NEW f, NEW c \in Nat, f.m = (c - 1024) * 8192, f.e \in 113..120
    PROVE  Units(f) \in Nat /\ Units(f) * 2 ^ (126 - f.e) = 8192 * c
<1> DEFINE a == 126 - f.e
           p == 2 ^ a
<1>1. a \in 6..13 /\ a \in 0..23
  BY SMT
<1>2. p \in Nat /\ p > 0
  BY ONLY <1>1, PowerPositive
<1>4. 8388608 + f.m = 8192 * c
  BY SMT
<1>5. Units(f) = (8388608 + f.m) \div p
  BY SMT DEF Units, Implicit
<1> HIDE DEF a
<1>3. PICK q \in {1, 2, 4, 8, 16, 32, 64, 128} : 8192 = p * q
  <2>1. Divides(2 ^ a)
    BY ONLY <1>1, LastBit, Zenon
  <2>. QED
    BY ONLY <2>1 DEF Divides
<1> HIDE DEF p
<1>6. Units(f) = c * q
  <2>1. 8192 * c = (c * q) * p /\ c * q \in Nat
    BY SMT, <1>2, <1>3
  <2> DEFINE k == c * q
             n == 8192 * c
  <2>2. n \in Int /\ k \in Int /\ k * p <= n /\ n < k * p + p
    BY SMT, <1>2, <2>1
  <2> HIDE DEF k, n
  <2>3. n \div p = k
    BY SMT, <1>2, <2>2, DivIs
  <2>. QED
    BY SMT, <1>4, <1>5, <2>3 DEF k, n
<1>7. Units(f) * p = 8192 * c /\ Units(f) \in Nat
  BY SMT, <1>2, <1>3, <1>6
<1>. QED
  BY ONLY <1>7 DEF a, p

Off(u, n, p) == -4096 <= u * p - n * p /\ u * p - n * p <= 4096 /\ 8388608 <= n * p
LEMMA SmallError ==
    ASSUME NEW u \in Nat, NEW n \in Nat, NEW p \in Nat, p > 0, Off(u, n, p)
    PROVE  2048 * abs(u - n) <= n
<1> DEFINE d == abs(u - n)
<1>1. d \in Nat /\ (d = u - n \/ d = n - u)
  BY SMT DEF abs
<1>2. d * p <= 4096 /\ d * p \in Nat
  <2>1. (u - n) * p = u * p - n * p /\ (n - u) * p = n * p - u * p /\ u * p \in Int /\ n * p \in Int
    BY SMT
  <2> HIDE DEF d
  <2>. QED
    BY SMT, <1>1, <2>1 DEF Off
<1> HIDE DEF d
<1>3. (2048 * d) * p <= n * p
  BY SMT, <1>1, <1>2 DEF Off
<1>4. 2048 * d <= n
  <2> SUFFICES ASSUME n < 2048 * d PROVE FALSE
    BY SMT, <1>1
  <2>1. n + 1 <= 2048 * d /\ 2048 * d \in Int /\ n + 1 \in Int
    BY SMT, <1>1
  <2>2. (n + 1) * p <= (2048 * d) * p
    BY SMT, <2>1, Grows
  <2>3. (n + 1) * p = n * p + p
    BY SMT
  <2>. QED
    BY SMT, <1>1, <1>3, <2>2, <2>3
<1>. QED
  BY SMT, <1>4 DEF d

(* From 1024 up, a whole factor is stored with the error of a half.            *)
LEMMA FactorNear ==
    ASSUME NEW n \in Nat, 1024 <= n, n < 131072
    PROVE  Rounded(ToFloat(n)) \in Nat /\ 2048 * abs(Rounded(ToFloat(n)) - n) <= n
<1>1. n > 0 /\ n < 16777216
  BY SMT
<1>2. PICK k \in 0..23 : Leads(n, k)
  BY SMT, <1>1, LeadingBit
<1> DEFINE p == 2 ^ (23 - k)
           mant == Mantissa(n, k)
           m == mant - 8388608
           e == 103 + k
           h == f32_to_f16(e, m)
           f == f16_to_f32(h)
<1>3. 8388608 <= mant /\ mant < 16777216 /\ mant \in Int /\ mant = n * p
  BY SMT, <1>1, <1>2, MantissaRange DEF Mantissa
<1>4. k \in 10..16
  <2> DEFINE q == 2 ^ k
             r == 2 ^ (k + 1)
  <2>1. q <= n /\ (k < 23 => n < r)
    BY SMT, <1>2 DEF Leads
  <2>2. PowerIs(k, q) /\ (k < 23 => PowerIs(k + 1, r))
    <3>1. k \in 0..23 /\ (k < 23 => k + 1 \in 0..23)
      BY SMT
    <3>. QED
      BY ONLY <3>1, Powers
  <2> HIDE DEF q, r
  <2>. QED
    BY SMT, <2>1, <2>2 DEF PowerIs
<1>5. ToFloat(n) = [e |-> e, m |-> m]
  BY SMT, <1>2 DEF Leads, Mantissa, Implicit
<1>6. e \in 113..119 /\ e = 103 + k /\ m \in Nat /\ m <= 8388607
  BY SMT, <1>3, <1>4
<1>7. 23 - k \in 0..23 /\ 22 - k \in 0..23 /\ 22 - k < 23 - k /\ 23 - k = (22 - k) + 1
  BY SMT, <1>4
<1>8. p \in Nat /\ p > 0
  BY ONLY <1>7, PowerPositive
<1>9. p = 2 * 2 ^ (22 - k)
  BY ONLY <1>7, PowersGrow DEF p
<1>10. Rounded(ToFloat(n)) = Units(f)
  BY SMT, <1>5 DEF Rounded
<1> HIDE DEF p, mant, m, e, h, f
<1>11. h \in Nat /\ h \div 1024 \in 1..30 /\ h % 1024 \in 0..1023
  <2>1. e \in 113..126
    BY SMT, <1>6
  <2>2. NormalBits(h)
    BY SMT, <1>6, <2>1, StoredNormal DEF h
  <2>. QED
    BY SMT, <2>2 DEF NormalBits
<1> DEFINE c == 1024 + (h % 1024)
<1>12. f = [e |-> (h \div 1024) + 112, m |-> (h % 1024) * 8192]
  <2>1. f16_to_f32(h) = [e |-> (h \div 1024) + 112, m |-> (h % 1024) * Unit]
    <3>1. h \div 1024 # 0 /\ h \div 1024 # 31
      BY SMT, <1>11
    <3>. QED
      BY SMT, <1>11, <3>1, NormalHalf
  <2>. QED
    BY SMT, <2>1 DEF Unit, f
<1>13. NearestHalf(h, e, m)
  <2>1. e \in Nat /\ 113 <= e /\ e <= 255 /\ m < Implicit
    BY SMT, <1>6 DEF Implicit
  <2>. QED
    BY SMT, <1>6, <2>1, HalvesAreNearest DEF h
<1> DEFINE error == IF f.e = e THEN f.m - m ELSE Implicit + 2 * f.m - m
<1>14. f.e \in {e, e + 1} /\ -4096 <= error /\ error <= 4096
  <2>1. ~(h = 31743 /\ (e > 142 \/ (e = 142 /\ m > 1023 * Unit)))
    BY SMT, <1>6
  <2>. QED
    BY SMT, <1>13, <2>1 DEF NearestHalf, f
<1>15. c \in Nat /\ f.m = (c - 1024) * 8192 /\ f.e \in 113..120
  BY SMT, <1>6, <1>11, <1>12, <1>14
<1> DEFINE u == Units(f)
<1>16. u \in Nat /\ u * 2 ^ (126 - f.e) = 8192 * c
  BY SMT, <1>15, WholeUnits
<1>17. u * p - mant = error
  <2>1. CASE f.e = e
    <3>1. 126 - f.e = 23 - k
      BY SMT, <1>4, <1>6, <2>1
    <3>2. u * p = 8192 * c
      BY ONLY <1>16, <3>1 DEF p
    <3> HIDE DEF u
    <3>. QED
      BY SMT, <1>3, <1>6, <1>11, <1>15, <1>16, <2>1, <3>2 DEF m
  <2>2. CASE f.e = e + 1
    <3>1. 126 - f.e = 22 - k
      BY SMT, <1>4, <1>6, <2>2
    <3> DEFINE r == 2 ^ (22 - k)
    <3>2. u * r = 8192 * c
      BY ONLY <1>16, <3>1
    <3>3. r \in Nat /\ p = 2 * r
      <4>1. r \in Nat
        BY ONLY <1>7, PowerPositive
      <4>. QED
        BY ONLY <1>9, <4>1
    <3> HIDE DEF u, r
    <3>4. u * p = 2 * (8192 * c)
      BY SMT, <1>16, <3>2, <3>3
    <3>5. f.e # e
      BY SMT, <1>6, <2>2
    <3>. QED
      BY SMT, <1>3, <1>6, <1>11, <1>15, <1>16, <3>4, <3>5 DEF m, Implicit
  <2>. QED
    BY SMT, <1>14, <2>1, <2>2
<1> HIDE DEF u, error
<1>18. 2048 * abs(u - n) <= n
  <2>1. Off(u, n, p)
    BY SMT, <1>3, <1>14, <1>17 DEF Off
  <2>. QED
    BY SMT, <1>8, <1>16, <2>1, SmallError
<1>. QED
  BY SMT, <1>10, <1>16, <1>18 DEF u

LEMMA CloseD ==
    ASSUME NEW b, BySubBlock(b), NEW x, Made(b, x), Finite(x), Bounded(x), NEW block, Decodes(x, block),
           b.d >= 1024, ~Flat(b)
    PROVE  Close(block.d, b.d)
<1> DEFINE d == b.d
<1>1. d \in Nat /\ 1024 <= d
  BY Coefficients
<1>2. WidestOf(x) = 945 * d
  BY PartsMeasured DEF Measured
<1>3. WidestOf(x) <= 2 * Largest
  BY WidestTyped
<1>4. Factor(block.d) = Rounded(Dall(x))
  BY DEF Decodes
<1> HIDE DEF d
<1>5. 63 * d \in Nat /\ 63 * d > 0 /\ 15 * (63 * d) = 945 * d /\ d > 0
  BY <1>1
<1>6. 15 * (63 * d) < 16777216 /\ 63 * d < 16777216 /\ d < 131072
  BY SMT, <1>1, <1>2, <1>3 DEF Largest
<1>7. Over(ToFloat(15 * (63 * d)), 15, 4) = ToFloat(63 * d)
  <2> DEFINE n == 63 * d
  <2>1. n \in Nat /\ n > 0 /\ 15 * n < 16777216
    BY SMT, <1>5, <1>6
  <2> HIDE DEF n
  <2>2. Over(ToFloat(15 * n), 15, 4) = ToFloat(n)
    BY SMT, <2>1, WholeOver15
  <2>. QED
    BY ONLY <2>2 DEF n
<1>8. Over(ToFloat(63 * d), 63, 6) = ToFloat(d)
  BY SMT, <1>1, <1>5, <1>6, WholeOver63
<1>9. Dall(x) = ToFloat(d)
  <2>1. WidestOf(x) = 15 * (63 * d)
    BY ONLY <1>2, <1>5
  <2>2. Dall(x) = Over(Over(ToFloat(15 * (63 * d)), 15, 4), 63, 6)
    BY ONLY <2>1 DEF Dall
  <2>. QED
    BY ONLY <1>7, <1>8, <2>2
<1>10. 2048 * abs(Rounded(ToFloat(d)) - d) <= d
  BY SMT, <1>1, <1>6, FactorNear
<1>11. abs(d) = d
  BY SMT, <1>1 DEF abs
<1>. QED
  <2>1. Factor(block.d) = Rounded(ToFloat(d))
    BY ONLY <1>4, <1>9
  <2>2. 2048 * abs(Factor(block.d) - d) <= abs(d)
    BY ONLY <1>10, <1>11, <2>1
  <2>. QED
    BY ONLY <2>2 DEF Close, d

LEMMA CloseDmin ==
    ASSUME NEW b, BySubBlock(b), NEW x, Made(b, x), Finite(x), Bounded(x), NEW block, Decodes(x, block),
           abs(b.dmin) >= 1024
    PROVE  Close(block.dmin, b.dmin)
<1> DEFINE e == b.dmin
           n == abs(e)
           mn == Lows(x)
           r == Rounded(ToFloat(n))
<1>1. e \in Int /\ n \in Nat /\ 1024 <= n /\ (n = e \/ n = -e) /\ (n = e <=> e > 0)
  BY Coefficients DEF abs
<1>2. Anchor(mn) = 63 * e
  BY PartsMeasured DEF Measured
<1>3. Anchor(mn) <= Largest /\ -Largest <= Anchor(mn) /\ NegMax(mn) \in Nat /\ PosMax(mn) \in Nat
  <2>1. \A j \in 0..7 : mn[j] \in Int /\ -Largest <= mn[j] /\ mn[j] <= Largest
    BY LowsTyped
  <2>2. Largest \in Nat
    BY SMT DEF Largest
  <2> HIDE DEF mn
  <2>. QED
    BY <2>1, <2>2, Anchored
<1>4. Factor(block.dmin) = Signed(Negative(mn), Rounded(Dmin(x)))
  BY DEF Decodes
<1>5. Dmin(x) = Over(ToFloat(abs(Anchor(mn))), 63, 6)
  BY Zenon DEF Dmin
<1> HIDE DEF e, n, mn
<1>6. abs(63 * e) = 63 * n
  BY <1>1 DEF abs
<1>7. 63 * n < 16777216 /\ n < 131072 /\ n > 0
  BY SMT, <1>1, <1>2, <1>3 DEF Largest
<1>8. Dmin(x) = ToFloat(n)
  <2>1. Over(ToFloat(63 * n), 63, 6) = ToFloat(n)
    BY SMT, <1>1, <1>7, WholeOver63
  <2>. QED
    BY ONLY <1>2, <1>5, <1>6, <2>1, Zenon
<1>9. r \in Nat /\ 2048 * abs(r - n) <= n
  BY SMT, <1>1, <1>7, FactorNear
<1>10. Factor(block.dmin) = Signed(Negative(mn), r)
  BY ONLY <1>4, <1>8, Zenon
<1> HIDE DEF r
<1>11. Negative(mn) <=> e <= 0
  BY SMT, <1>1, <1>2, <1>3 DEF Negative, Anchor
<1>12. abs(Signed(Negative(mn), r) - e) = abs(r - n)
  <2>1. CASE e > 0
    BY SMT, <1>1, <1>9, <1>11, <2>1 DEF Signed, abs
  <2>2. CASE e <= 0
    BY SMT, <1>1, <1>9, <1>11, <2>2 DEF Signed, abs
  <2>. QED
    BY SMT, <1>1, <2>1, <2>2
<1>. QED
  <2>1. 2048 * abs(Factor(block.dmin) - e) <= n
    BY ONLY <1>9, <1>10, <1>12
  <2>. QED
    BY ONLY <2>1 DEF Close, e, n

LEMMA Q4KFound ==
    ASSUME NEW b, BySubBlock(b), NEW x, Made(b, x), Bounded(x)
    PROVE  SubBlocksFound(b, encode_q4k_block(x))
<1> DEFINE block == encode_q4k_block(x)
<1>1. Finite(x)
  <2>1. ASSUME NEW i \in 0..255 PROVE x[i] # NonFinite
    <3>1. i \div 32 \in 0..7
      OBVIOUS
    <3>2. x[i] = b.d * b.sc[i \div 32] * b.q[i] - b.dmin * b.mn[i \div 32]
      BY Zenon DEF Made, Elements
    <3>3. b.d \in Int /\ b.dmin \in Int /\ b.sc[i \div 32] \in Int /\ b.mn[i \div 32] \in Int
      BY <3>1, Parts
    <3>4. b.q[i] \in Int
      BY DEF BySubBlock
    <3>5. x[i] \in Int
      BY <3>2, <3>3, <3>4
    <3>. QED
      BY <3>5, BlocksAssumption
  <2>. QED
    BY <2>1 DEF Finite
<1>2. Decodes(x, block)
  BY EncodedDecodes
<1> HIDE DEF block
<1>3. \A j \in 0..7 : q4k_unpack_scales(block.scales, j) = [sc |-> b.sc[j], mn |-> b.mn[j]]
  BY <1>1, <1>2, ScalesFound DEF Decodes
<1>4. b.d >= 1024 /\ (\E j \in 0..7 : b.sc[j] # 0) => Close(block.d, b.d)
  BY <1>1, <1>2, CloseD DEF Flat
<1>5. abs(b.dmin) >= 1024 => Close(block.dmin, b.dmin)
  BY <1>1, <1>2, CloseDmin
<1>6. ASSUME NEW i \in 0..255,
             b.sc[i \div 32] = 0 \/ 2 * Drift(b, i \div 32, block) < Factor(block.d) * b.sc[i \div 32]
      PROVE  decode_q4k_block(block)[i] = Elements(b, Factor(block.d), Factor(block.dmin))[i]
  BY <1>1, <1>2, <1>6, ElementFound
<1>7. SubBlocksFound(b, block)
  BY <1>3, <1>4, <1>5, <1>6, Zenon DEF SubBlocksFound
<1>. QED
  BY <1>7 DEF block

-------------------------------------------------------------------------------
BlockInv == /\ input \in Inputs
            /\ coded # <<>> =>
                  coded = <<CASE input.kind = "q4k" -> encode_q4k_block(input.x)
                              [] input.kind = "q40" -> encode_q40_block(input.x)
                              [] input.kind = "q80" -> encode_q80_block(input.x)
                              [] input.kind = "half" -> f32_to_f16(input.e, input.m)>>

LEMMA BlocksCoded == BlockSpec => []BlockInv
<1>1. BlockInit => BlockInv
  BY DEF BlockInit, BlockInv
<1>2. BlockInv /\ [BlockNext]_block_vars => BlockInv'
  <2> SUFFICES ASSUME BlockInv, [BlockNext]_block_vars PROVE BlockInv'
    OBVIOUS
  <2>1. CASE EncodeQ4K
    BY <2>1 DEF BlockInv, EncodeQ4K, EncodeAs
  <2>2. CASE EncodeQ40
    BY <2>2 DEF BlockInv, EncodeQ40, EncodeAs
  <2>3. CASE EncodeQ80
    BY <2>3 DEF BlockInv, EncodeQ80, EncodeAs
  <2>4. CASE EncodeHalf
    BY <2>4 DEF BlockInv, EncodeHalf, EncodeAs
  <2>5. CASE UNCHANGED block_vars
    BY <2>5 DEF BlockInv, block_vars
  <2>. QED
    BY <2>1, <2>2, <2>3, <2>4, <2>5 DEF BlockNext
<1>. QED
  BY <1>1, <1>2, PTL DEF BlockSpec

LEMMA InputKnown ==
    ASSUME BlockInv, coded # <<>>
    PROVE  /\ input.kind \in {"q4k", "q40", "q80", "half"} /\ Encodable(input)
           /\ input.kind = "q4k" => coded[1] = encode_q4k_block(input.x) /\ Bounded(input.x)
           /\ input.kind = "q40" => coded[1] = encode_q40_block(input.x) /\ input.x \in [0..31 -> Int]
           /\ input.kind = "q80" => coded[1] = encode_q80_block(input.x) /\ input.x \in [0..31 -> Int]
           /\ input.kind = "half" => coded[1] = f32_to_f16(input.e, input.m)
<1>1. input.kind \in {"q4k", "q40", "q80", "half"} /\ Encodable(input)
  BY BlocksAssumption DEF BlockInv
<1>2. input.kind = "q4k" => Bounded(input.x)
  <2> SUFFICES ASSUME input.kind = "q4k" PROVE Bounded(input.x)
    OBVIOUS
  <2>1. \A i \in 0..255 : input.x[i] = NonFinite \/ input.x[i] \in (-Largest)..Largest
    BY <1>1 DEF Encodable
  <2>2. Largest \in Nat
    BY SMT DEF Largest
  <2>3. ASSUME NEW i \in 0..255, input.x[i] \in (-Largest)..Largest
        PROVE  input.x[i] \in Int /\ -Largest <= input.x[i] /\ input.x[i] <= Largest
    BY <2>2, <2>3
  <2>. QED
    BY <2>1, <2>3, Zenon DEF Bounded
<1>3. input.kind \in {"q40", "q80"} => input.x \in [0..31 -> Int]
  BY <1>1 DEF Encodable
<1>. QED
  BY <1>1, <1>2, <1>3 DEF BlockInv

(* Whatever is encoded, an element of Q4_K is decoded to the nearest of the    *)
(* sixteen levels that its sub-block has under the factors as they are stored, *)
(* an element of Q4_0 or Q8_0 to one half a step away at most, and a Q4_K      *)
(* block with an element that is no number to zeros: the encoders and decoders *)
(* of gguf.cpp (NearestLevels).                                                *)
THEOREM LevelsAreNearest == BlockSpec => []NearestLevels
<1>1. BlockInv => NearestLevels
  <2> SUFFICES ASSUME BlockInv, coded # <<>> PROVE NearestLevels
    BY DEF NearestLevels
  <2> DEFINE x == input.x
  <2>1. CASE input.kind = "q4k"
    <3>1. NearestLevel(x, coded[1])
      BY <2>1, InputKnown, Q4KNearest
    <3>. QED
      BY <2>1, <3>1 DEF NearestLevels
  <2>2. CASE input.kind = "q40"
    <3>1. coded[1] = encode_q40_block(x) /\ x \in [0..31 -> Int]
      BY <2>2, InputKnown
    <3>2. WithinHalfStep(x, 7, coded[1], decode_q40_block(coded[1]))
      <4> DEFINE decoded == decode_q40_block(coded[1])
      <4>1. Q40Codes(x, coded[1])
        BY <3>1, Q40Encodes
      <4>2. coded[1].scale = Scale(x, 7) /\ \A i \in 0..31 : decoded[i] = Quotient(x, i, 7) * Scale(x, 7)
        BY <4>1 DEF Q40Codes
      <4> HIDE DEF decoded, x
      <4>3. WithinHalfStep(x, 7, coded[1], decoded)
        BY <3>1, <4>2, 7 \in {7, 127}, StepsAreHalf
      <4>. QED
        BY <4>3 DEF decoded
    <3>. QED
      BY <2>2, <3>2 DEF NearestLevels
  <2>3. CASE input.kind = "q80"
    <3>1. coded[1] = encode_q80_block(x) /\ x \in [0..31 -> Int]
      BY <2>3, InputKnown
    <3>2. WithinHalfStep(x, 127, coded[1], decode_q80_block(coded[1]))
      <4> DEFINE decoded == decode_q80_block(coded[1])
      <4>1. Q80Codes(x, coded[1])
        BY <3>1, Q80Encodes
      <4>2. coded[1].scale = Scale(x, 127) /\ \A i \in 0..31 : decoded[i] = Quotient(x, i, 127) * Scale(x, 127)
        BY <4>1 DEF Q80Codes
      <4> HIDE DEF decoded, x
      <4>3. WithinHalfStep(x, 127, coded[1], decoded)
        BY <3>1, <4>2, 127 \in {7, 127}, StepsAreHalf
      <4>. QED
        BY <4>3 DEF decoded
    <3>. QED
      BY <2>3, <3>2 DEF NearestLevels
  <2>4. CASE input.kind = "half"
    BY <2>4 DEF NearestLevels
  <2>. QED
    BY <2>1, <2>2, <2>3, <2>4, InputKnown
<1>. QED
  BY <1>1, BlocksCoded, PTL

(* From a block that was made of parts, the encoder finds them and the decoder *)
(* reads each where it was packed: in Q4_K every scale and min, the factors    *)
(* with the error of a half from 2^-14 up, and the elements under the factors  *)
(* as stored; in Q4_0 and Q8_0 every element, with the scale that is 1e-8 too  *)
(* large (PartsFound).                                                         *)
THEOREM PartsAreFound == BlockSpec => []PartsFound
<1>1. BlockInv => PartsFound
  <2> SUFFICES ASSUME BlockInv, coded # <<>> PROVE PartsFound
    BY DEF PartsFound
  <2> DEFINE x == input.x
  <2>1. CASE input.kind = "q4k"
    <3>1. ASSUME NEW p \in input.parts PROVE SubBlocksFound(p, coded[1])
      <4>1. BySubBlock(p) /\ Made(p, x)
        BY <2>1, InputKnown DEF Encodable, Made
      <4>. QED
        BY <2>1, <4>1, InputKnown, Q4KFound
    <3>. QED
      BY <2>1, <3>1 DEF PartsFound
  <2>2. CASE input.kind = "q40"
    <3>1. coded[1] = encode_q40_block(x) /\ x \in [0..31 -> Int]
      BY <2>2, InputKnown
    <3>2. Q40Codes(x, coded[1])
      BY <3>1, Q40Encodes
    <3>3. ASSUME NEW p \in input.parts PROVE ScaleFound(p, 7, decode_q40_block(coded[1]))
      <4>1. OneByOne(p, 7) /\ x = [i \in 0..31 |-> p.q[i] * p.scale]
        BY <2>2, InputKnown DEF Encodable
      <4>. QED
        BY <3>2, <4>1, 7 \in {7, 127}, StepFound, ZenonT(30) DEF Q40Codes, MadeOf, DecodedAs
    <3>. QED
      BY <2>2, <3>3 DEF PartsFound
  <2>3. CASE input.kind = "q80"
    <3>1. coded[1] = encode_q80_block(x) /\ x \in [0..31 -> Int]
      BY <2>3, InputKnown
    <3>2. Q80Codes(x, coded[1])
      BY <3>1, Q80Encodes
    <3>3. ASSUME NEW p \in input.parts PROVE ScaleFound(p, 127, decode_q80_block(coded[1]))
      <4>1. OneByOne(p, 127) /\ x = [i \in 0..31 |-> p.q[i] * p.scale]
        BY <2>3, InputKnown DEF Encodable
      <4>. QED
        BY <3>2, <4>1, 127 \in {7, 127}, StepFound, ZenonT(30) DEF Q80Codes, MadeOf, DecodedAs
    <3>. QED
      BY <2>3, <3>3 DEF PartsFound
  <2>4. CASE input.kind = "half"
    BY <2>4 DEF PartsFound
  <2>. QED
    BY <2>1, <2>2, <2>3, <2>4, InputKnown
<1>. QED
  BY <1>1, BlocksCoded, PTL

(* Every float from 2^-14 up that f32_to_f16 is given becomes the nearest half *)
(* (HalfNearest).                                                              *)
THEOREM HalvesAreRounded == BlockSpec => []HalfNearest
<1>1. BlockInv => HalfNearest
  <2> SUFFICES ASSUME BlockInv, coded # <<>>, input.kind = "half" PROVE NearestHalf(coded[1], input.e, input.m)
    BY Zenon DEF HalfNearest
  <2> DEFINE e == input.e
             m == input.m
  <2>1. e \in Nat /\ 113 <= e /\ e <= 255 /\ m \in Nat /\ m < Implicit /\ coded[1] = f32_to_f16(e, m)
    BY InputKnown DEF Encodable
  <2> HIDE DEF e, m
  <2>2. NearestHalf(f32_to_f16(e, m), e, m)
    BY <2>1, HalvesAreNearest
  <2>. QED
    BY <2>1, <2>2 DEF e, m
<1>. QED
  BY <1>1, BlocksCoded, PTL

-------------------------------------------------------------------------------
(* Folds from the left.  FoldLeft of the community modules recurs over the     *)
(* subsets of the domain; by induction, the property being a set, a function   *)
(* with that recursion exists and its values on the prefixes are the fold's.   *)

LEMMA MaxOfTop ==
    ASSUME NEW n \in Nat, NEW s \in SUBSET (1..n+1), n + 1 \in s
    PROVE  Max(s) = n + 1
<1>1. \A y \in s : n + 1 >= y
  OBVIOUS
<1>2. ASSUME NEW x \in s, \A y \in s : x >= y PROVE x = n + 1
  <2>1. x >= n + 1 /\ x \in 1..n+1
    BY <1>2
  <2>. QED
    BY <2>1
<1>3. (CHOOSE x \in s : \A y \in s : x >= y) = n + 1
  BY <1>1, <1>2
<1>. QED
  BY <1>3 DEF Max

LEMMA MaxIsIn ==
    ASSUME NEW n \in Nat, NEW s \in SUBSET (1..n), s # {}
    PROVE  Max(s) \in s
<1> DEFINE T == {m \in Nat : n - m \in s}
<1>1. PICK z \in s : TRUE
  OBVIOUS
<1>2. n - z \in T
  <2>1. z \in 1..n /\ n - z \in Nat /\ n - (n - z) = z
    OBVIOUS
  <2>. QED
    BY <1>1, <2>1
<1>3. PICK x \in T : \A y \in T : x <= y
  BY <1>2, Least
<1>4. n - x \in s /\ x \in Nat
  BY <1>3
<1>5. ASSUME NEW y \in s PROVE n - x >= y
  <2>1. y \in 1..n /\ n - y \in Nat /\ n - (n - y) = y
    OBVIOUS
  <2>2. n - y \in T
    BY <2>1
  <2>3. x <= n - y
    BY <1>3, <2>2
  <2>. QED
    BY <1>4, <2>1, <2>3
<1>6. \E v \in s : \A y \in s : v >= y
  BY <1>4, <1>5
<1>. QED
  BY <1>6 DEF Max

FoldStep(F, b, seq, it, s) == IF s = {} THEN b ELSE F[<<it[s \ {Max(s)}], seq[Max(s)]>>]

\* A recursion over the subsets of 1..n by the step F has a solution in D.
Solvable(D, F, b, seq, n) ==
    \E it \in [SUBSET (1..n) -> D] : \A s \in SUBSET (1..n) : it[s] = FoldStep(F, b, seq, it, s)

LEMMA SolvableNext ==
    ASSUME NEW D, NEW M, NEW F \in [D \X M -> D], NEW b \in D, NEW seq \in Seq(M),
           NEW n \in Nat, n + 1 <= Len(seq), Solvable(D, F, b, seq, n)
    PROVE  Solvable(D, F, b, seq, n + 1)
<1>1. PICK it \in [SUBSET (1..n) -> D] : \A s \in SUBSET (1..n) : it[s] = FoldStep(F, b, seq, it, s)
  BY DEF Solvable
<1> DEFINE val(s) == IF n + 1 \in s THEN F[<<it[s \ {n + 1}], seq[n + 1]>>] ELSE it[s]
           new == [s \in SUBSET (1..n+1) |-> val(s)]
<1>2. \A s \in SUBSET (1..n+1) : s \ {n + 1} \in SUBSET (1..n) /\ (n + 1 \notin s => s \in SUBSET (1..n))
  OBVIOUS
<1>3. seq[n + 1] \in M
  OBVIOUS
<1>4. ASSUME NEW s \in SUBSET (1..n+1) PROVE val(s) \in D
  <2>1. CASE n + 1 \in s
    <3>1. <<it[s \ {n + 1}], seq[n + 1]>> \in D \X M
      BY <1>2, <1>3
    <3>. QED
      BY <2>1, <3>1
  <2>2. CASE n + 1 \notin s
    BY <1>2, <2>2
  <2>. QED
    BY <2>1, <2>2
<1>5. \A s \in SUBSET (1..n+1) : new[s] = val(s)
  OBVIOUS
<1>6. new \in [SUBSET (1..n+1) -> D]
  <2> HIDE DEF val
  <2>. QED
    BY <1>4
<1> HIDE DEF new
<1>7. ASSUME NEW s \in SUBSET (1..n+1) PROVE new[s] = FoldStep(F, b, seq, new, s)
  <2>1. CASE n + 1 \in s
    <3>1. Max(s) = n + 1
      BY <2>1, MaxOfTop
    <3>2. s \ {n + 1} \in SUBSET (1..n+1) /\ n + 1 \notin s \ {n + 1} /\ s # {}
      BY <2>1
    <3>3. new[s \ {n + 1}] = it[s \ {n + 1}]
      BY <1>5, <3>2
    <3>4. new[s] = F[<<it[s \ {n + 1}], seq[n + 1]>>]
      BY <1>5, <2>1
    <3>. QED
      BY <3>1, <3>2, <3>3, <3>4 DEF FoldStep
  <2>2. CASE n + 1 \notin s
    <3>1. s \in SUBSET (1..n) /\ new[s] = it[s]
      BY <1>2, <1>5, <2>2
    <3>2. s \ {Max(s)} \in SUBSET (1..n+1) /\ n + 1 \notin s \ {Max(s)}
      BY <2>2
    <3>3. new[s \ {Max(s)}] = it[s \ {Max(s)}]
      BY <1>5, <3>2
    <3>. QED
      BY <1>1, <3>1, <3>3 DEF FoldStep
  <2>. QED
    BY <2>1, <2>2
<1>. QED
  BY <1>6, <1>7 DEF Solvable

LEMMA FoldExists ==
    ASSUME NEW D, NEW M, NEW F \in [D \X M -> D], NEW b \in D, NEW seq \in Seq(M)
    PROVE  Solvable(D, F, b, seq, Len(seq))
<1> DEFINE P == {n \in Nat : n <= Len(seq) => Solvable(D, F, b, seq, n)}
<1>0. Len(seq) \in Nat
  OBVIOUS
<1>1. 0 \in P
  <2> DEFINE it == [s \in SUBSET (1..0) |-> b]
  <2>1. it \in [SUBSET (1..0) -> D]
    OBVIOUS
  <2>2. \A s \in SUBSET (1..0) : s = {} /\ it[s] = b
    OBVIOUS
  <2> HIDE DEF it
  <2>3. \A s \in SUBSET (1..0) : it[s] = FoldStep(F, b, seq, it, s)
    BY <2>2 DEF FoldStep
  <2>. QED
    BY <2>1, <2>3 DEF Solvable
<1>2. ASSUME NEW n \in Nat, n \in P PROVE n + 1 \in P
  <2>1. SUFFICES ASSUME n + 1 <= Len(seq) PROVE Solvable(D, F, b, seq, n + 1)
    OBVIOUS
  <2>2. Solvable(D, F, b, seq, n)
    BY <1>0, <1>2, <2>1
  <2>. QED
    BY <2>1, <2>2, SolvableNext
<1> HIDE DEF P
<1>3. \A n \in Nat : n \in P
  BY <1>1, <1>2, SetInduction
<1>. QED
  BY <1>0, <1>3 DEF P
LEMMA OneMore ==
    ASSUME NEW n \in Nat
    PROVE  /\ Max(1..n+1) = n + 1
           /\ (1..n+1) \ {n + 1} = 1..n
           /\ 1..n+1 # {}
<1>1. n + 1 \in 1..n+1
  OBVIOUS
<1>2. Max(1..n+1) = n + 1
  BY <1>1, MaxOfTop
<1>3. (1..n+1) \ {n + 1} = 1..n
  <2>1. \A x : x \in (1..n+1) \ {n + 1} <=> x \in 1..n
    OBVIOUS
  <2>. QED
    BY <2>1
<1>4. 1..n+1 # {}
  BY <1>1
<1>. QED
  BY ONLY <1>2, <1>3, <1>4

(* The merges of a token with its successor: Merged as a fold.                 *)
Absorb(m, done, w) == IF done # <<>> /\ Last(done) = m.a /\ w = m.b
                      THEN Append(Front(done), m.a \o m.b) ELSE Append(done, w)
MergeIt(m, tokens) ==
    CHOOSE it : it = [s \in SUBSET DOMAIN tokens |->
                         IF s = {} THEN <<>>
                         ELSE LET x == Max(s) IN Absorb(m, it[s \ {x}], tokens[x])]

LEMMA MergedUnfold ==
    ASSUME NEW tokens, NEW m
    PROVE  Merged(tokens, m) = MergeIt(m, tokens)[DOMAIN tokens]
  BY DEF Merged, FoldLeft, MapThenFoldSet, MergeIt, Absorb

MergesIt(b, ms) ==
    CHOOSE it : it = [s \in SUBSET DOMAIN ms |->
                         IF s = {} THEN b ELSE LET x == Max(s) IN Merged(it[s \ {x}], ms[x])]

LEMMA MergesUnfold ==
    ASSUME NEW b, NEW ms
    PROVE  FoldLeft(Merged, b, ms) = MergesIt(b, ms)[DOMAIN ms]
  BY DEF FoldLeft, MapThenFoldSet, MergesIt

(* Absorbing a word keeps the tokens among T.                                  *)
LEMMA AbsorbKeeps ==
    ASSUME NEW T, NEW m, m.a \o m.b \in T, NEW done \in Seq(T), NEW w \in T
    PROVE  Absorb(m, done, w) \in Seq(T)
<1>1. CASE done # <<>> /\ Last(done) = m.a /\ w = m.b
  <2>1. Front(done) \in Seq(T)
    <3>1. Len(done) \in Nat /\ \A i \in 1..Len(done)-1 : done[i] \in T
      OBVIOUS
    <3>. QED
      BY <3>1, SubSeqProperties DEF Front
  <2>2. Append(Front(done), m.a \o m.b) \in Seq(T)
    BY <2>1, AppendProperties
  <2>. QED
    BY <1>1, <2>2 DEF Absorb
<1>2. CASE ~(done # <<>> /\ Last(done) = m.a /\ w = m.b)
  <2>1. Append(done, w) \in Seq(T)
    BY AppendProperties
  <2>. QED
    BY <1>2, <2>1 DEF Absorb
<1>. QED
  BY <1>1, <1>2
MergeStep(m, tokens, it, s) ==
    IF s = {} THEN <<>> ELSE Absorb(m, it[s \ {Max(s)}], tokens[Max(s)])

LEMMA MergeItSolves ==
    ASSUME NEW T, NEW m, m.a \o m.b \in T, NEW tokens \in Seq(T)
    PROVE  \A s \in SUBSET (1..Len(tokens)) :
               MergeIt(m, tokens)[s] = MergeStep(m, tokens, MergeIt(m, tokens), s)
<1> DEFINE D == Seq(T)
           F == [u \in D \X T |-> Absorb(m, u[1], u[2])]
           N == Len(tokens)
<1>0. N \in Nat /\ DOMAIN tokens = 1..N
  OBVIOUS
<1>1. F \in [D \X T -> D]
  <2>1. ASSUME NEW u \in D \X T PROVE Absorb(m, u[1], u[2]) \in D
    <3>1. u[1] \in Seq(T) /\ u[2] \in T
      OBVIOUS
    <3>. QED
      BY <3>1, AbsorbKeeps
  <2>. QED
    BY <2>1
<1>2. \A d \in D, w \in T : F[<<d, w>>] = Absorb(m, d, w)
  OBVIOUS
<1>3. <<>> \in D
  BY EmptySeq
<1> HIDE DEF F, N
<1>4. Solvable(D, F, <<>>, tokens, N)
  BY <1>1, <1>3, FoldExists DEF N
<1>5. PICK it \in [SUBSET (1..N) -> D] : \A s \in SUBSET (1..N) : it[s] = FoldStep(F, <<>>, tokens, it, s)
  BY <1>4 DEF Solvable
<1>6. ASSUME NEW s \in SUBSET (1..N) PROVE it[s] = MergeStep(m, tokens, it, s)
  <2>1. it[s] = FoldStep(F, <<>>, tokens, it, s)
    BY <1>5
  <2>2. CASE s = {}
    BY <2>1, <2>2 DEF FoldStep, MergeStep
  <2>3. CASE s # {}
    <3>1. Max(s) \in 1..N
      BY <1>0, <2>3, MaxIsIn
    <3>2. it[s \ {Max(s)}] \in D
      <4>1. s \ {Max(s)} \in SUBSET (1..N)
        OBVIOUS
      <4>. QED
        BY <4>1, it \in [SUBSET (1..N) -> D], Zenon
    <3>3. tokens[Max(s)] \in T
      BY <3>1 DEF N
    <3>. QED
      BY <1>2, <2>1, <2>3, <3>2, <3>3 DEF FoldStep, MergeStep
  <2>. QED
    BY <2>2, <2>3
<1>7. it = [s \in SUBSET (1..N) |-> MergeStep(m, tokens, it, s)]
  BY <1>6
<1>8. MergeIt(m, tokens) = CHOOSE f : f = [s \in SUBSET (1..N) |-> MergeStep(m, tokens, f, s)]
  BY <1>0 DEF MergeIt, MergeStep
<1>9. MergeIt(m, tokens) = [s \in SUBSET (1..N) |-> MergeStep(m, tokens, MergeIt(m, tokens), s)]
  BY <1>7, <1>8
<1>. QED
  BY <1>9 DEF N

PassesThrough(m, tokens, it) ==
    /\ it[1..0] = <<>>
    /\ \A n \in Nat : n + 1 <= Len(tokens) => it[1..n+1] = Absorb(m, it[1..n], tokens[n + 1])

\* The values of the fold on the prefixes of tokens.
LEMMA MergePrefix ==
    ASSUME NEW T, NEW m, m.a \o m.b \in T, NEW tokens \in Seq(T)
    PROVE  PassesThrough(m, tokens, MergeIt(m, tokens))
<1> DEFINE g == MergeIt(m, tokens)
           N == Len(tokens)
<1>0. N \in Nat
  OBVIOUS
<1>1. \A s \in SUBSET (1..N) : g[s] = MergeStep(m, tokens, g, s)
  BY MergeItSolves
<1> HIDE DEF g, N
<1>2. g[1..0] = <<>>
  <2>1. 1..0 = {} /\ 1..0 \in SUBSET (1..N)
    OBVIOUS
  <2>. QED
    BY <1>1, <2>1 DEF MergeStep
<1>3. ASSUME NEW n \in Nat, n + 1 <= N PROVE g[1..n+1] = Absorb(m, g[1..n], tokens[n + 1])
  <2>1. 1..n+1 \in SUBSET (1..N)
    BY <1>0, <1>3
  <2>2. Max(1..n+1) = n + 1 /\ (1..n+1) \ {n + 1} = 1..n /\ 1..n+1 # {}
    BY OneMore, Zenon
  <2>3. g[1..n+1] = MergeStep(m, tokens, g, 1..n+1)
    BY <1>1, <2>1
  <2>. QED
    BY <2>2, <2>3 DEF MergeStep
<1>. QED
  BY <1>2, <1>3 DEF g, N, PassesThrough

(* Merging keeps the tokens among T.                                           *)
LEMMA MergedKeeps ==
    ASSUME NEW T, NEW m, m.a \o m.b \in T, NEW tokens \in Seq(T)
    PROVE  Merged(tokens, m) \in Seq(T)
<1> DEFINE g == MergeIt(m, tokens)
           N == Len(tokens)
           P == {n \in Nat : n <= N => g[1..n] \in Seq(T)}
<1>0. N \in Nat /\ DOMAIN tokens = 1..N
  OBVIOUS
<1>1. PassesThrough(m, tokens, g)
  BY MergePrefix
<1> HIDE DEF g
<1>2. 0 \in P
  BY <1>1, EmptySeq DEF PassesThrough
<1>3. ASSUME NEW n \in Nat, n \in P PROVE n + 1 \in P
  <2>1. SUFFICES ASSUME n + 1 <= N PROVE g[1..n+1] \in Seq(T)
    OBVIOUS
  <2>2. g[1..n] \in Seq(T)
    BY <1>0, <1>3, <2>1
  <2>3. g[1..n+1] = Absorb(m, g[1..n], tokens[n + 1])
    BY <1>1, <2>1 DEF PassesThrough
  <2>4. tokens[n + 1] \in T
    BY <1>0, <2>1
  <2>. QED
    BY <2>2, <2>3, <2>4, AbsorbKeeps
<1> HIDE DEF P, N
<1>4. N \in P
  BY <1>0, <1>2, <1>3, SetInduction
<1>5. g[1..N] \in Seq(T)
  BY <1>0, <1>4 DEF P
<1>. QED
  BY <1>0, <1>5, MergedUnfold DEF g

\* Two tokens that a merge of M joins make a token of T.
Joins(M, T) == \A m \in M : m.a \o m.b \in T
MergesStep(b, ms, it, s) == IF s = {} THEN b ELSE Merged(it[s \ {Max(s)}], ms[Max(s)])

(* The same of the fold of Merged over the merges of a tokenizer.              *)
LEMMA MergesItSolves ==
    ASSUME NEW T, NEW M, Joins(M, T), NEW b \in Seq(T), NEW ms \in Seq(M)
    PROVE  \A s \in SUBSET (1..Len(ms)) :
               MergesIt(b, ms)[s] = MergesStep(b, ms, MergesIt(b, ms), s)
<1> DEFINE D == Seq(T)
           F == [u \in D \X M |-> Merged(u[1], u[2])]
           N == Len(ms)
<1>0. N \in Nat /\ DOMAIN ms = 1..N
  OBVIOUS
<1>1. F \in [D \X M -> D]
  <2>1. ASSUME NEW u \in D \X M PROVE Merged(u[1], u[2]) \in D
    <3>1. u[1] \in Seq(T) /\ u[2] \in M
      OBVIOUS
    <3>. QED
      BY <3>1, MergedKeeps DEF Joins
  <2>. QED
    BY <2>1
<1>2. \A d \in D, m \in M : F[<<d, m>>] = Merged(d, m)
  OBVIOUS
<1> HIDE DEF F, N
<1>4. Solvable(D, F, b, ms, N)
  BY <1>1, FoldExists DEF N
<1>5. PICK it \in [SUBSET (1..N) -> D] : \A s \in SUBSET (1..N) : it[s] = FoldStep(F, b, ms, it, s)
  BY <1>4 DEF Solvable
<1>6. ASSUME NEW s \in SUBSET (1..N) PROVE it[s] = MergesStep(b, ms, it, s)
  <2>1. it[s] = FoldStep(F, b, ms, it, s)
    BY <1>5
  <2>2. CASE s = {}
    BY <2>1, <2>2 DEF FoldStep, MergesStep
  <2>3. CASE s # {}
    <3>1. Max(s) \in 1..N
      BY <1>0, <2>3, MaxIsIn
    <3>2. it[s \ {Max(s)}] \in D
      <4>1. s \ {Max(s)} \in SUBSET (1..N)
        OBVIOUS
      <4>. QED
        BY <4>1, it \in [SUBSET (1..N) -> D], Zenon
    <3>3. ms[Max(s)] \in M
      BY <3>1 DEF N
    <3>. QED
      BY <1>2, <2>1, <2>3, <3>2, <3>3 DEF FoldStep, MergesStep
  <2>. QED
    BY <2>2, <2>3
<1>7. it = [s \in SUBSET (1..N) |-> MergesStep(b, ms, it, s)]
  BY <1>6
<1>8. MergesIt(b, ms) = CHOOSE f : f = [s \in SUBSET (1..N) |-> MergesStep(b, ms, f, s)]
  BY <1>0 DEF MergesIt, MergesStep
<1>9. MergesIt(b, ms) = [s \in SUBSET (1..N) |-> MergesStep(b, ms, MergesIt(b, ms), s)]
  BY <1>7, <1>8
<1>. QED
  BY <1>9 DEF N

GoesThrough(b, ms, it) ==
    /\ it[1..0] = b
    /\ \A n \in Nat : n + 1 <= Len(ms) => it[1..n+1] = Merged(it[1..n], ms[n + 1])

\* The values of the fold on the prefixes of ms, which it passes through.
LEMMA MergesPrefix ==
    ASSUME NEW T, NEW M, Joins(M, T), NEW b \in Seq(T), NEW ms \in Seq(M)
    PROVE  GoesThrough(b, ms, MergesIt(b, ms))
<1> DEFINE g == MergesIt(b, ms)
           N == Len(ms)
<1>0. N \in Nat
  OBVIOUS
<1>1. \A s \in SUBSET (1..N) : g[s] = MergesStep(b, ms, g, s)
  BY MergesItSolves
<1> HIDE DEF g, N
<1>2. g[1..0] = b
  <2>1. 1..0 = {} /\ 1..0 \in SUBSET (1..N)
    OBVIOUS
  <2>. QED
    BY <1>1, <2>1 DEF MergesStep
<1>3. ASSUME NEW n \in Nat, n + 1 <= N PROVE g[1..n+1] = Merged(g[1..n], ms[n + 1])
  <2>1. 1..n+1 \in SUBSET (1..N)
    BY <1>0, <1>3
  <2>2. g[1..n+1] = MergesStep(b, ms, g, 1..n+1)
    BY <1>1, <2>1
  <2>. QED
    BY <2>2, OneMore DEF MergesStep
<1>. QED
  BY <1>2, <1>3 DEF g, N, GoesThrough

AllMerged(b, ms) == FoldLeft(Merged, b, ms)

(* Another merge is applied after the others.                                  *)
LEMMA MergesAppend ==
    ASSUME NEW T, NEW M, Joins(M, T), NEW b \in Seq(T), NEW ms \in Seq(M), NEW p \in M
    PROVE  AllMerged(b, Append(ms, p)) = Merged(AllMerged(b, ms), p)
<1> DEFINE g == MergesIt(b, ms)
           h == MergesIt(b, Append(ms, p))
           N == Len(ms)
           P == {n \in Nat : n <= N => h[1..n] = g[1..n]}
<1>0. /\ N \in Nat /\ DOMAIN ms = 1..N /\ Append(ms, p) \in Seq(M) /\ Len(Append(ms, p)) = N + 1
      /\ DOMAIN Append(ms, p) = 1..N+1
      /\ Append(ms, p)[N + 1] = p /\ \A n \in 1..N : Append(ms, p)[n] = ms[n]
  OBVIOUS
<1>a. GoesThrough(b, ms, g)
  BY MergesPrefix
<1>b. GoesThrough(b, Append(ms, p), h)
  <2>1. Append(ms, p) \in Seq(M)
    BY <1>0
  <2>. QED
    BY <2>1, MergesPrefix
<1> HIDE DEF g, h
<1>1. /\ g[1..0] = b
      /\ \A n \in Nat : n + 1 <= N => g[1..n+1] = Merged(g[1..n], ms[n + 1])
  BY <1>a DEF GoesThrough
<1>2. /\ h[1..0] = b
      /\ \A n \in Nat : n + 1 <= N + 1 => h[1..n+1] = Merged(h[1..n], Append(ms, p)[n + 1])
  BY <1>0, <1>b DEF GoesThrough
<1> HIDE DEF N
<1>3. 0 \in P
  BY <1>1, <1>2
<1>4. ASSUME NEW n \in Nat, n \in P PROVE n + 1 \in P
  <2>1. SUFFICES ASSUME n + 1 <= N PROVE h[1..n+1] = g[1..n+1]
    OBVIOUS
  <2>2. h[1..n] = g[1..n] /\ n + 1 \in 1..N /\ n + 1 <= N + 1
    BY <1>0, <1>4, <2>1
  <2>. QED
    BY <1>0, <1>1, <1>2, <2>1, <2>2
<1> HIDE DEF P
<1>5. N \in P
  BY <1>0, <1>3, <1>4, SetInduction
<1>6. h[1..N] = g[1..N]
  BY <1>0, <1>5 DEF P
<1>7. h[1..N+1] = Merged(g[1..N], p)
  BY <1>0, <1>2, <1>6
<1>8. AllMerged(b, ms) = g[1..N]
  BY <1>0, MergesUnfold DEF AllMerged, g
<1>9. AllMerged(b, Append(ms, p)) = h[1..N+1]
  BY <1>0, MergesUnfold DEF AllMerged, h
<1>. QED
  BY <1>7, <1>8, <1>9

LEMMA MergesEmpty ==
    ASSUME NEW T, NEW M, Joins(M, T), NEW b \in Seq(T)
    PROVE  AllMerged(b, <<>>) = b
<1>1. <<>> \in Seq(M) /\ DOMAIN <<>> = 1..0
  OBVIOUS
<1>2. GoesThrough(b, <<>>, MergesIt(b, <<>>))
  BY <1>1, MergesPrefix
<1>3. AllMerged(b, <<>>) = MergesIt(b, <<>>)[1..0]
  BY <1>1, MergesUnfold DEF AllMerged
<1>. QED
  BY <1>2, <1>3 DEF GoesThrough
-------------------------------------------------------------------------------
(* The words of a first training.                                              *)
TextByte == 0..(NBytes - 1)
MergePair == [a : Seq(TextByte), b : Seq(TextByte)]

LEMMA PairsJoin == Joins(MergePair, Seq(TextByte))
<1>1. ASSUME NEW m \in MergePair PROVE m.a \o m.b \in Seq(TextByte)
  <2>1. m.a \in Seq(TextByte) /\ m.b \in Seq(TextByte)
    BY DEF MergePair
  <2>. QED
    BY <2>1, ConcatProperties
<1>. QED
  BY <1>1 DEF Joins

LEMMA AllMergedNext ==
    ASSUME NEW b \in Seq(Seq(TextByte))
    PROVE  /\ AllMerged(b, <<>>) = b
           /\ \A ms \in Seq(MergePair), p \in MergePair :
                 AllMerged(b, Append(ms, p)) = Merged(AllMerged(b, ms), p)
<1>1. AllMerged(b, <<>>) = b
  BY PairsJoin, MergesEmpty
<1>2. ASSUME NEW ms \in Seq(MergePair), NEW p \in MergePair
      PROVE  AllMerged(b, Append(ms, p)) = Merged(AllMerged(b, ms), p)
  BY PairsJoin, MergesAppend
<1>. QED
  BY <1>1, <1>2

LEMMA BytesKnown ==
    ASSUME NEW s \in Seq(TextByte)
    PROVE  /\ NewTokenizer.vocab \in Seq(Seq(TextByte)) /\ NewTokenizer.merges = <<>>
           /\ BytesOf(s) \in Seq(Range(NewTokenizer.vocab))
           /\ BytesOf(s) \in Seq(Seq(TextByte))
<1> DEFINE v == [i \in 1..NBytes |-> <<i - 1>>]
<1>0. NBytes \in Nat
  BY TokenizerAssumption
<1>1. NewTokenizer.vocab = v /\ NewTokenizer.merges = <<>>
  BY DEF NewTokenizer
<1>2. ASSUME NEW x \in TextByte PROVE <<x>> \in Range(v) /\ <<x>> \in Seq(TextByte)
  <2>1. x + 1 \in 1..NBytes /\ (x + 1) - 1 = x
    BY <1>0 DEF TextByte
  <2>2. v[x + 1] = <<x>>
    BY <2>1
  <2>3. DOMAIN v = 1..NBytes
    OBVIOUS
  <2> HIDE DEF v
  <2>. QED
    BY <2>1, <2>2, <2>3 DEF Range
<1>3. v \in Seq(Seq(TextByte))
  <2>1. \A i \in 1..NBytes : <<i - 1>> \in Seq(TextByte)
    BY <1>0 DEF TextByte
  <2>. QED
    BY <1>0, <2>1
<1> HIDE DEF v
<1>4. /\ Len(s) \in Nat
      /\ \A i \in 1..Len(s) : <<s[i]>> \in Range(v) /\ <<s[i]>> \in Seq(TextByte)
  BY <1>2
<1>5. BytesOf(s) \in Seq(Range(v)) /\ BytesOf(s) \in Seq(Seq(TextByte))
  BY <1>4 DEF BytesOf
<1>. QED
  BY <1>1, <1>3, <1>5

-------------------------------------------------------------------------------
(* What a list of tokens spells: upto[n] are the bytes of its first n tokens.  *)
SpelledBy(tokens, upto) ==
    /\ upto \in [Nat -> Seq(TextByte)] /\ upto[0] = <<>>
    /\ \A n \in Nat : n + 1 <= Len(tokens) => upto[n + 1] = upto[n] \o tokens[n + 1]
Spells(tokens, s) == \E upto : SpelledBy(tokens, upto) /\ upto[Len(tokens)] = s

Joint(x, y) == x \o y
LEMMA ThreeParts ==
    ASSUME NEW x \in Seq(TextByte), NEW y \in Seq(TextByte), NEW z \in Seq(TextByte)
    PROVE  Joint(Joint(x, y), z) = Joint(x, Joint(y, z))
  BY DEF Joint

LEMMA SpellsEmpty == Spells(<<>>, <<>>)
<1> DEFINE upto == [n \in Nat |-> <<>>]
<1>1. upto \in [Nat -> Seq(TextByte)] /\ upto[0] = <<>>
  BY EmptySeq
<1>2. \A n \in Nat : ~(n + 1 <= 0)
  OBVIOUS
<1>3. Len(<<>>) = 0
  BY EmptySeq
<1> HIDE DEF upto
<1>. QED
  BY <1>1, <1>2, <1>3 DEF Spells, SpelledBy

LEMMA SpellsMore ==
    ASSUME NEW d \in Seq(Seq(TextByte)), NEW s, Spells(d, s), NEW w \in Seq(TextByte)
    PROVE  s \in Seq(TextByte) /\ Spells(Append(d, w), s \o w)
<1> DEFINE N == Len(d)
<1>0. /\ N \in Nat /\ Len(Append(d, w)) = N + 1 /\ Append(d, w)[N + 1] = w
      /\ \A n \in 1..N : Append(d, w)[n] = d[n]
  OBVIOUS
<1> HIDE DEF N
<1>1. PICK upto : SpelledBy(d, upto) /\ upto[N] = s
  BY DEF Spells, N
<1>2. upto \in [Nat -> Seq(TextByte)] /\ upto[0] = <<>>
      /\ \A n \in Nat : n + 1 <= N => upto[n + 1] = upto[n] \o d[n + 1]
  BY <1>1 DEF SpelledBy, N
<1>3. s \in Seq(TextByte) /\ s \o w \in Seq(TextByte)
  <2>1. s \in Seq(TextByte)
    BY <1>0, <1>1, <1>2
  <2>. QED
    BY <2>1, ConcatProperties
<1> DEFINE z == s \o w
<1> HIDE DEF z
<1> DEFINE new == [upto EXCEPT ![N + 1] = z]
<1>4. /\ new \in [Nat -> Seq(TextByte)] /\ new[N + 1] = z
      /\ \A n \in Nat : n <= N => new[n] = upto[n]
  BY <1>0, <1>2, <1>3 DEF z
<1> HIDE DEF new
<1>5. new[0] = <<>>
  BY <1>0, <1>2, <1>4
<1>6. ASSUME NEW n \in Nat, n + 1 <= N + 1 PROVE new[n + 1] = new[n] \o Append(d, w)[n + 1]
  <2>1. CASE n = N
    <3>1. new[N + 1] = s \o w /\ Append(d, w)[N + 1] = w
      BY <1>0, <1>4 DEF z
    <3>2. N <= N /\ new[N] = s
      BY <1>0, <1>1, <1>4
    <3>. QED
      BY <2>1, <3>1, <3>2, Zenon
  <2>2. CASE n # N
    <3>1. n + 1 <= N /\ n <= N /\ n + 1 \in 1..N
      BY <1>0, <1>6, <2>2
    <3>2. new[n + 1] = upto[n + 1] /\ new[n] = upto[n]
      <4>1. n + 1 \in Nat
        OBVIOUS
      <4>. QED
        BY <1>4, <3>1, <4>1
    <3>3. Append(d, w)[n + 1] = d[n + 1]
      BY <1>0, <3>1, Zenon
    <3>4. upto[n + 1] = upto[n] \o d[n + 1]
      BY <1>2, <3>1, Zenon
    <3>. QED
      BY <3>2, <3>3, <3>4, Zenon
  <2>. QED
    BY <2>1, <2>2
<1>7. SpelledBy(Append(d, w), new)
  BY <1>0, <1>4, <1>5, <1>6 DEF SpelledBy
<1>. QED
  BY <1>0, <1>3, <1>4, <1>7 DEF Spells, z

LEMMA SpellsFront ==
    ASSUME NEW d \in Seq(Seq(TextByte)), d # <<>>, NEW s, Spells(d, s)
    PROVE  /\ Front(d) \in Seq(Seq(TextByte)) /\ Last(d) \in Seq(TextByte)
           /\ \E r \in Seq(TextByte) : Spells(Front(d), r) /\ s = r \o Last(d)
<1> DEFINE N == Len(d) - 1
           f == Front(d)
<1>0. N \in Nat /\ Len(d) = N + 1
  OBVIOUS
<1>1. /\ f \in Seq(Seq(TextByte)) /\ Len(f) = N
      /\ \A n \in 1..N : f[n] = d[n]
  <2>1. 1 \in 1..N+1 /\ N \in 0..Len(d)
    BY <1>0
  <2>2. f = SubSeq(d, 1, N)
    BY DEF Front
  <2>3. \A n \in 1..N : d[n] \in Seq(TextByte)
    BY <1>0
  <2> HIDE DEF f, N
  <2>. QED
    BY <1>0, <2>2, <2>3
<1>2. Last(d) = d[N + 1] /\ d[N + 1] \in Seq(TextByte)
  BY <1>0 DEF Last
<1> HIDE DEF N, f
<1>3. PICK upto : SpelledBy(d, upto) /\ upto[N + 1] = s
  BY <1>0 DEF Spells
<1>4. upto \in [Nat -> Seq(TextByte)] /\ upto[0] = <<>>
      /\ \A n \in Nat : n + 1 <= N + 1 => upto[n + 1] = upto[n] \o d[n + 1]
  BY <1>0, <1>3 DEF SpelledBy
<1>5. ASSUME NEW n \in Nat, n + 1 <= N PROVE upto[n + 1] = upto[n] \o f[n + 1]
  <2>1. n + 1 \in 1..N /\ n + 1 <= N + 1
    BY <1>0, <1>5
  <2>2. f[n + 1] = d[n + 1]
    BY <1>1, <2>1, Zenon
  <2>3. upto[n + 1] = upto[n] \o d[n + 1]
    BY <1>4, <2>1, Zenon
  <2>. QED
    BY <2>2, <2>3, Zenon
<1>6. Spells(f, upto[N])
  BY <1>1, <1>4, <1>5 DEF Spells, SpelledBy
<1>7. upto[N] \in Seq(TextByte) /\ s = upto[N] \o Last(d)
  <2>1. upto[N] \in Seq(TextByte) /\ N + 1 <= N + 1
    BY <1>0, <1>4
  <2>2. upto[N + 1] = upto[N] \o d[N + 1]
    BY <1>0, <1>4, <2>1, Zenon
  <2>. QED
    BY <1>2, <1>3, <2>1, <2>2, Zenon
<1>. QED
  BY <1>1, <1>2, <1>6, <1>7 DEF f

(* Absorbing a word, merged or not, adds its bytes.                            *)
LEMMA SpellsAbsorb ==
    ASSUME NEW m \in MergePair, NEW d \in Seq(Seq(TextByte)), NEW s, Spells(d, s), NEW w \in Seq(TextByte)
    PROVE  Spells(Absorb(m, d, w), s \o w)
<1>0. m.a \in Seq(TextByte) /\ m.b \in Seq(TextByte) /\ m.a \o m.b \in Seq(TextByte)
  <2>1. m.a \in Seq(TextByte) /\ m.b \in Seq(TextByte)
    BY DEF MergePair
  <2>. QED
    BY <2>1, ConcatProperties
<1>1. CASE d # <<>> /\ Last(d) = m.a /\ w = m.b
  <2>1. /\ Front(d) \in Seq(Seq(TextByte))
        /\ \E r \in Seq(TextByte) : Spells(Front(d), r) /\ s = r \o Last(d)
    BY <1>1, SpellsFront
  <2>2. PICK r \in Seq(TextByte) : Spells(Front(d), r) /\ s = r \o m.a
    BY <1>1, <2>1
  <2>3. Spells(Append(Front(d), m.a \o m.b), r \o (m.a \o m.b))
    BY <1>0, <2>1, <2>2, SpellsMore
  <2>4. Joint(Joint(r, m.a), m.b) = Joint(r, Joint(m.a, m.b))
    BY <1>0, ThreeParts
  <2>5. r \o (m.a \o m.b) = s \o w
    BY <1>1, <2>2, <2>4 DEF Joint
  <2>. QED
    BY <1>1, <2>3, <2>5 DEF Absorb
<1>2. CASE ~(d # <<>> /\ Last(d) = m.a /\ w = m.b)
  BY <1>2, SpellsMore DEF Absorb
<1>. QED
  BY <1>1, <1>2

(* Merging keeps what the tokens spell.                                        *)
LEMMA MergedSpells ==
    ASSUME NEW m \in MergePair, NEW tokens \in Seq(Seq(TextByte)), NEW s, Spells(tokens, s)
    PROVE  Spells(Merged(tokens, m), s)
<1> DEFINE g == MergeIt(m, tokens)
           N == Len(tokens)
<1>0. N \in Nat /\ DOMAIN tokens = 1..N
  OBVIOUS
<1>a. m.a \o m.b \in Seq(TextByte)
  <2>1. m.a \in Seq(TextByte) /\ m.b \in Seq(TextByte)
    BY DEF MergePair
  <2>. QED
    BY <2>1, ConcatProperties
<1>1. PassesThrough(m, tokens, g)
  BY <1>a, MergePrefix
<1>2. PICK upto : SpelledBy(tokens, upto) /\ upto[N] = s
  BY DEF Spells
<1> DEFINE P == {n \in Nat : n <= N => g[1..n] \in Seq(Seq(TextByte)) /\ Spells(g[1..n], upto[n])}
<1> HIDE DEF g
<1>3. 0 \in P
  <2>1. g[1..0] = <<>> /\ upto[0] = <<>>
    BY <1>1, <1>2 DEF PassesThrough, SpelledBy
  <2>2. <<>> \in Seq(Seq(TextByte))
    BY EmptySeq
  <2>. QED
    BY <2>1, <2>2, SpellsEmpty
<1>4. ASSUME NEW n \in Nat, n \in P PROVE n + 1 \in P
  <2>1. SUFFICES ASSUME n + 1 <= N PROVE g[1..n+1] \in Seq(Seq(TextByte)) /\ Spells(g[1..n+1], upto[n + 1])
    OBVIOUS
  <2>2. g[1..n] \in Seq(Seq(TextByte)) /\ Spells(g[1..n], upto[n])
    BY <1>0, <1>4, <2>1
  <2>3. g[1..n+1] = Absorb(m, g[1..n], tokens[n + 1])
    BY <1>1, <2>1 DEF PassesThrough
  <2>4. upto[n + 1] = upto[n] \o tokens[n + 1]
    BY <1>2, <2>1 DEF SpelledBy
  <2>5. tokens[n + 1] \in Seq(TextByte)
    BY <1>0, <2>1
  <2>6. Spells(Absorb(m, g[1..n], tokens[n + 1]), upto[n] \o tokens[n + 1])
    BY <2>2, <2>5, SpellsAbsorb
  <2>7. Absorb(m, g[1..n], tokens[n + 1]) \in Seq(Seq(TextByte))
    BY <1>a, <2>2, <2>5, AbsorbKeeps
  <2>. QED
    BY <2>3, <2>4, <2>6, <2>7, Zenon
<1> HIDE DEF P, N
<1>5. N \in P
  BY <1>0, <1>3, <1>4, SetInduction
<1>6. Spells(g[1..N], s)
  BY <1>0, <1>2, <1>5 DEF P
<1>. QED
  BY <1>0, <1>6, MergedUnfold DEF g

(* So do all the merges of a tokenizer; and the tokens stay among T.           *)
LEMMA AllMergedSpells ==
    ASSUME NEW b \in Seq(Seq(TextByte)), NEW ms \in Seq(MergePair), NEW s, Spells(b, s)
    PROVE  Spells(AllMerged(b, ms), s)
<1> DEFINE g == MergesIt(b, ms)
           N == Len(ms)
           P == {n \in Nat : n <= N => g[1..n] \in Seq(Seq(TextByte)) /\ Spells(g[1..n], s)}
<1>0. N \in Nat /\ DOMAIN ms = 1..N
  OBVIOUS
<1>1. \A m \in MergePair : m.a \o m.b \in Seq(TextByte)
  BY PairsJoin DEF Joins
<1>2. GoesThrough(b, ms, g)
  BY PairsJoin, MergesPrefix
<1> HIDE DEF g
<1>3. 0 \in P
  BY <1>2 DEF GoesThrough
<1>4. ASSUME NEW n \in Nat, n \in P PROVE n + 1 \in P
  <2>1. SUFFICES ASSUME n + 1 <= N PROVE g[1..n+1] \in Seq(Seq(TextByte)) /\ Spells(g[1..n+1], s)
    OBVIOUS
  <2>2. g[1..n] \in Seq(Seq(TextByte)) /\ Spells(g[1..n], s)
    BY <1>0, <1>4, <2>1
  <2>3. g[1..n+1] = Merged(g[1..n], ms[n + 1])
    BY <1>2, <2>1 DEF GoesThrough
  <2>4. ms[n + 1] \in MergePair
    BY <1>0, <2>1
  <2>5. Spells(Merged(g[1..n], ms[n + 1]), s)
    BY <2>2, <2>4, MergedSpells
  <2>6. Merged(g[1..n], ms[n + 1]) \in Seq(Seq(TextByte))
    BY <1>1, <2>2, <2>4, MergedKeeps
  <2>. QED
    BY <2>3, <2>5, <2>6
<1> HIDE DEF P, N
<1>5. N \in P
  BY <1>0, <1>3, <1>4, SetInduction
<1>6. Spells(g[1..N], s)
  BY <1>0, <1>5 DEF P
<1>7. AllMerged(b, ms) = g[1..N]
  BY <1>0, MergesUnfold DEF AllMerged, g
<1>. QED
  BY <1>6, <1>7

LEMMA AllMergedKeeps ==
    ASSUME NEW T, NEW M, Joins(M, T), NEW b \in Seq(T), NEW ms \in Seq(M)
    PROVE  AllMerged(b, ms) \in Seq(T)
<1> DEFINE g == MergesIt(b, ms)
           N == Len(ms)
           P == {n \in Nat : n <= N => g[1..n] \in Seq(T)}
<1>0. N \in Nat /\ DOMAIN ms = 1..N
  OBVIOUS
<1>2. GoesThrough(b, ms, g)
  BY MergesPrefix
<1> HIDE DEF g
<1>3. 0 \in P
  BY <1>2 DEF GoesThrough
<1>4. ASSUME NEW n \in Nat, n \in P PROVE n + 1 \in P
  <2>1. SUFFICES ASSUME n + 1 <= N PROVE g[1..n+1] \in Seq(T)
    OBVIOUS
  <2>2. g[1..n] \in Seq(T)
    BY <1>0, <1>4, <2>1
  <2>3. g[1..n+1] = Merged(g[1..n], ms[n + 1])
    BY <1>2, <2>1 DEF GoesThrough
  <2>4. ms[n + 1] \in M /\ ms[n + 1].a \o ms[n + 1].b \in T
    BY <1>0, <2>1 DEF Joins
  <2>. QED
    BY <2>2, <2>3, <2>4, MergedKeeps
<1> HIDE DEF P, N
<1>5. N \in P
  BY <1>0, <1>3, <1>4, SetInduction
<1>6. g[1..N] \in Seq(T)
  BY <1>0, <1>5 DEF P
<1>7. AllMerged(b, ms) = g[1..N]
  BY <1>0, MergesUnfold DEF AllMerged, g
<1>. QED
  BY <1>6, <1>7

LEMMA BytesSpell ==
    ASSUME NEW s \in Seq(TextByte)
    PROVE  Spells(BytesOf(s), s)
<1> DEFINE upto == [n \in Nat |-> IF n <= Len(s) THEN SubSeq(s, 1, n) ELSE <<>>]
           N == Len(s)
<1>0. N \in Nat /\ BytesOf(s) = [i \in 1..N |-> <<s[i]>>] /\ Len(BytesOf(s)) = N
  <2>1. BytesOf(s) \in Seq(Seq(TextByte))
    BY BytesKnown
  <2>2. N \in Nat /\ BytesOf(s) = [i \in 1..N |-> <<s[i]>>] /\ DOMAIN BytesOf(s) = 1..N
    BY DEF BytesOf
  <2>. QED
    BY <2>1, <2>2
<1>1. \A n \in Nat : n <= N => SubSeq(s, 1, n) \in Seq(TextByte)
  OBVIOUS
<1>2. SubSeq(s, 1, 0) = <<>> /\ SubSeq(s, 1, N) = s
  OBVIOUS
<1>3. ASSUME NEW n \in Nat, n + 1 <= N PROVE SubSeq(s, 1, n + 1) = SubSeq(s, 1, n) \o <<s[n + 1]>>
  BY <1>0, <1>3
<1>4. upto \in [Nat -> Seq(TextByte)]
  BY <1>0, <1>1, EmptySeq
<1>5. \A n \in Nat : n <= N => upto[n] = SubSeq(s, 1, n)
  OBVIOUS
<1>6. \A n \in Nat : n + 1 <= N => BytesOf(s)[n + 1] = <<s[n + 1]>>
  BY <1>0
<1> HIDE DEF upto, N
<1>7. upto[0] = <<>> /\ upto[N] = s
  BY <1>0, <1>2, <1>5
<1>8. ASSUME NEW n \in Nat, n + 1 <= N PROVE upto[n + 1] = upto[n] \o BytesOf(s)[n + 1]
  <2>1. n <= N /\ n + 1 \in Nat
    BY <1>0, <1>8
  <2>2. upto[n + 1] = SubSeq(s, 1, n + 1) /\ upto[n] = SubSeq(s, 1, n)
    BY <1>5, <1>8, <2>1
  <2>. QED
    BY <1>3, <1>6, <1>8, <2>2, Zenon
<1>. QED
  BY <1>0, <1>4, <1>7, <1>8 DEF Spells, SpelledBy

-------------------------------------------------------------------------------
(* decode as a fold, and its value on tokens that are the ids' entries.        *)
DecodeStep(t, ids, it, s) ==
    IF s = {} THEN <<>> ELSE it[s \ {Max(s)}] \o t.vocab[ids[Max(s)] + 1]
DecodeIt(t, ids) ==
    CHOOSE it : it = [s \in SUBSET DOMAIN ids |->
                         IF s = {} THEN <<>> ELSE LET x == Max(s) IN it[s \ {x}] \o t.vocab[ids[x] + 1]]

LEMMA DecodeUnfold ==
    ASSUME NEW t, NEW ids
    PROVE  decode(t, ids) = DecodeIt(t, ids)[DOMAIN ids]
  BY DEF decode, FoldLeft, MapThenFoldSet, DecodeIt

LEMMA DecodeItSolves ==
    ASSUME NEW t, t.vocab \in Seq(Seq(TextByte)),
           NEW ids \in Seq(Nat), \A i \in 1..Len(ids) : ids[i] + 1 \in 1..Len(t.vocab)
    PROVE  \A s \in SUBSET (1..Len(ids)) :
               DecodeIt(t, ids)[s] = DecodeStep(t, ids, DecodeIt(t, ids), s)
<1> DEFINE D == Seq(TextByte)
           v == t.vocab
           M == {x \in Nat : x + 1 \in 1..Len(v)}
           F == [u \in D \X M |-> Joint(u[1], v[u[2] + 1])]
           N == Len(ids)
<1>0. N \in Nat /\ DOMAIN ids = 1..N
  OBVIOUS
<1>m. ids \in Seq(M)
  <2>1. \A i \in 1..N : ids[i] \in M
    BY <1>0
  <2> HIDE DEF M
  <2>. QED
    BY <1>0, <2>1
<1>1. F \in [D \X M -> D]
  <2>1. ASSUME NEW u \in D \X M PROVE Joint(u[1], v[u[2] + 1]) \in D
    <3>1. u[1] \in Seq(TextByte) /\ u[2] + 1 \in 1..Len(v)
      OBVIOUS
    <3>2. v[u[2] + 1] \in Seq(TextByte)
      BY <3>1
    <3> HIDE DEF v
    <3>. QED
      BY <3>1, <3>2, ConcatProperties DEF Joint
  <2>. QED
    BY <2>1
<1>2. \A d \in D, w \in M : F[<<d, w>>] = Joint(d, v[w + 1])
  OBVIOUS
<1>3. <<>> \in D
  BY EmptySeq
<1> HIDE DEF F, N, M, v
<1>4. Solvable(D, F, <<>>, ids, N)
  BY <1>1, <1>3, <1>m, FoldExists DEF N
<1>5. PICK it \in [SUBSET (1..N) -> D] : \A s \in SUBSET (1..N) : it[s] = FoldStep(F, <<>>, ids, it, s)
  BY <1>4 DEF Solvable
<1>6. ASSUME NEW s \in SUBSET (1..N) PROVE it[s] = DecodeStep(t, ids, it, s)
  <2>1. it[s] = FoldStep(F, <<>>, ids, it, s)
    BY <1>5
  <2>2. CASE s = {}
    BY <2>1, <2>2 DEF FoldStep, DecodeStep
  <2>3. CASE s # {}
    <3>1. Max(s) \in 1..N
      BY <1>0, <2>3, MaxIsIn
    <3>2. it[s \ {Max(s)}] \in D
      <4>1. s \ {Max(s)} \in SUBSET (1..N)
        OBVIOUS
      <4>. QED
        BY <4>1, it \in [SUBSET (1..N) -> D], Zenon
    <3>3. ids[Max(s)] \in M
      BY <1>0, <1>m, <3>1 DEF N
    <3>4. it[s] = F[<<it[s \ {Max(s)}], ids[Max(s)]>>]
      BY <2>1, <2>3 DEF FoldStep
    <3>5. it[s] = Joint(it[s \ {Max(s)}], v[ids[Max(s)] + 1])
      BY <1>2, <3>2, <3>3, <3>4, Zenon
    <3>. QED
      BY <2>3, <3>5, Zenon DEF DecodeStep, Joint, v
  <2>. QED
    BY <2>2, <2>3
<1>7. it = [s \in SUBSET (1..N) |-> DecodeStep(t, ids, it, s)]
  BY <1>6
<1>8. DecodeIt(t, ids) = CHOOSE f : f = [s \in SUBSET (1..N) |-> DecodeStep(t, ids, f, s)]
  BY <1>0 DEF DecodeIt, DecodeStep
<1>9. DecodeIt(t, ids) = [s \in SUBSET (1..N) |-> DecodeStep(t, ids, DecodeIt(t, ids), s)]
  BY <1>7, <1>8
<1>. QED
  BY <1>9 DEF N

\* The ids name the tokens.
Names(t, ids, tokens) ==
    /\ ids \in Seq(Nat) /\ Len(ids) = Len(tokens)
    /\ \A i \in 1..Len(tokens) : ids[i] + 1 \in 1..Len(t.vocab) /\ t.vocab[ids[i] + 1] = tokens[i]

LEMMA DecodeSpells ==
    ASSUME NEW t, t.vocab \in Seq(Seq(TextByte)), NEW tokens \in Seq(Seq(TextByte)),
           NEW ids, Names(t, ids, tokens), NEW s, Spells(tokens, s)
    PROVE  decode(t, ids) = s
<1> DEFINE g == DecodeIt(t, ids)
           N == Len(ids)
<1>0. /\ ids \in Seq(Nat) /\ N \in Nat /\ DOMAIN ids = 1..N /\ Len(tokens) = N
      /\ \A i \in 1..N : ids[i] + 1 \in 1..Len(t.vocab) /\ t.vocab[ids[i] + 1] = tokens[i]
  BY DEF Names
<1>1. \A x \in SUBSET (1..N) : g[x] = DecodeStep(t, ids, g, x)
  BY <1>0, DecodeItSolves
<1> HIDE DEF g, N
<1>2. PICK upto : SpelledBy(tokens, upto) /\ upto[N] = s
  BY <1>0 DEF Spells
<1> DEFINE P == {n \in Nat : n <= N => g[1..n] = upto[n]}
<1>3. 0 \in P
  <2>1. 1..0 = {} /\ 1..0 \in SUBSET (1..N)
    OBVIOUS
  <2>2. g[1..0] = <<>>
    BY <1>1, <2>1 DEF DecodeStep
  <2>3. upto[0] = <<>>
    BY <1>2 DEF SpelledBy
  <2>. QED
    BY <2>2, <2>3
<1>4. ASSUME NEW n \in Nat, n \in P PROVE n + 1 \in P
  <2>1. SUFFICES ASSUME n + 1 <= N PROVE g[1..n+1] = upto[n + 1]
    OBVIOUS
  <2>2. g[1..n] = upto[n] /\ 1..n+1 \in SUBSET (1..N) /\ n + 1 \in 1..N
    BY <1>0, <1>4, <2>1
  <2>3. Max(1..n+1) = n + 1 /\ (1..n+1) \ {n + 1} = 1..n /\ 1..n+1 # {}
    BY OneMore, Zenon
  <2>4. g[1..n+1] = DecodeStep(t, ids, g, 1..n+1)
    BY <1>1, <2>2
  <2>5. g[1..n+1] = g[1..n] \o t.vocab[ids[n + 1] + 1]
    BY <2>3, <2>4, Zenon DEF DecodeStep
  <2>6. upto[n + 1] = upto[n] \o tokens[n + 1]
    BY <1>0, <1>2, <2>1 DEF SpelledBy
  <2>7. t.vocab[ids[n + 1] + 1] = tokens[n + 1]
    BY <1>0, <2>2
  <2>. QED
    BY <2>2, <2>5, <2>6, <2>7, Zenon
<1> HIDE DEF P
<1>5. N \in P
  BY <1>0, <1>3, <1>4, SetInduction
<1>6. g[1..N] = s
  BY <1>0, <1>2, <1>5 DEF P
<1>. QED
  BY <1>0, <1>6, DecodeUnfold DEF g

LEMMA IdsName ==
    ASSUME NEW t, t.vocab \in Seq(Seq(TextByte)), NEW s, Tokens(t, s) \in Seq(Range(t.vocab))
    PROVE  Names(t, encode(t, s), Tokens(t, s))
<1> DEFINE ids == encode(t, s)
           v == t.vocab
           words_ == Tokens(t, s)
<1>0. /\ Len(v) \in Nat /\ DOMAIN v = 1..Len(v) /\ Len(words_) \in Nat /\ DOMAIN words_ = 1..Len(words_)
      /\ words_ \in Seq(Range(v))
  OBVIOUS
<1>1. ids = [i \in DOMAIN words_ |-> IF Known(t, words_[i]) THEN IdOf(t, words_[i]) ELSE UNK % vocab_size]
  BY DEF encode
<1> HIDE DEF words_, ids
<1>2. ASSUME NEW i \in 1..Len(words_)
      PROVE  /\ Known(t, words_[i]) /\ IdOf(t, words_[i]) \in Nat
             /\ IdOf(t, words_[i]) + 1 \in 1..Len(v) /\ v[IdOf(t, words_[i]) + 1] = words_[i]
  <2>1. words_[i] \in Range(v)
    BY <1>0
  <2>2. \E j \in 1..Len(v) : v[j] = words_[i]
    BY <1>0, <2>1 DEF Range
  <2> DEFINE c == CHOOSE j \in 1..Len(v) : v[j] = words_[i]
  <2>3. c \in 1..Len(v) /\ v[c] = words_[i]
    BY <2>2
  <2>4. IdOf(t, words_[i]) = c - 1
    BY DEF IdOf
  <2> HIDE DEF c
  <2>5. c - 1 \in Nat /\ (c - 1) + 1 = c
    BY <1>0, <2>3
  <2>. QED
    BY <2>1, <2>3, <2>4, <2>5 DEF Known
<1>3. ids = [i \in 1..Len(words_) |-> IdOf(t, words_[i])]
  BY <1>0, <1>1, <1>2
<1>4. ids \in Seq(Nat) /\ Len(ids) = Len(words_)
  <2>1. \A i \in 1..Len(words_) : IdOf(t, words_[i]) \in Nat
    BY <1>2
  <2>2. Len(words_) \in Nat
    BY <1>0
  <2>. QED
    BY ONLY <1>3, <2>1, <2>2
<1>5. \A i \in 1..Len(words_) : ids[i] = IdOf(t, words_[i])
  BY <1>3
<1>6. Names(t, ids, words_)
  <2>1. \A i \in 1..Len(words_) : ids[i] + 1 \in 1..Len(v) /\ v[ids[i] + 1] = words_[i]
    BY <1>2, <1>5
  <2>. QED
    BY <1>4, <2>1 DEF Names
<1>. QED
  BY <1>6 DEF ids, words_

-------------------------------------------------------------------------------
(* A tokenizer knows every byte, and the token of each of its merges.          *)
Sound(t) ==
    /\ t.vocab \in Seq(Seq(TextByte)) /\ t.merges \in Seq(MergePair)
    /\ \A x \in TextByte : <<x>> \in Range(t.vocab)
    /\ \A i \in 1..Len(t.merges) : t.merges[i].a \o t.merges[i].b \in Range(t.vocab)

(* What a tokenizer that knows its merges encodes it decodes, for every text.  *)
LEMMA SoundDecodes ==
    ASSUME NEW t, Sound(t), NEW s \in Seq(TextByte)
    PROVE  /\ Tokens(t, s) \in Seq(Range(t.vocab))
           /\ decode(t, encode(t, s)) = s
<1> DEFINE T == Range(t.vocab)
           M == {p \in MergePair : p.a \o p.b \in T}
<1>0. t.vocab \in Seq(Seq(TextByte)) /\ t.merges \in Seq(MergePair)
  BY DEF Sound
<1>1. Tokens(t, s) = AllMerged(BytesOf(s), t.merges)
  BY DEF Tokens, AllMerged
<1>2. T \subseteq Seq(TextByte)
  BY <1>0 DEF Range
<1>3. BytesOf(s) \in Seq(T)
  <2>1. Len(s) \in Nat /\ \A i \in 1..Len(s) : <<s[i]>> \in T
    BY DEF Sound
  <2> HIDE DEF T
  <2>. QED
    BY <2>1 DEF BytesOf
<1>4. Joins(M, T)
  BY DEF Joins
<1>5. t.merges \in Seq(M)
  <2> DEFINE ms == t.merges
  <2>1. \A i \in 1..Len(ms) : ms[i] \in M
    BY DEF Sound
  <2>2. ms \in Seq(MergePair)
    BY <1>0
  <2> HIDE DEF M, ms
  <2>3. ms \in Seq(M)
    BY ONLY <2>1, <2>2
  <2>. QED
    BY <2>3 DEF ms
<1> HIDE DEF M, T
<1>6. AllMerged(BytesOf(s), t.merges) \in Seq(T)
  BY <1>3, <1>4, <1>5, AllMergedKeeps
<1>7. Spells(AllMerged(BytesOf(s), t.merges), s)
  <2>1. Spells(BytesOf(s), s) /\ BytesOf(s) \in Seq(Seq(TextByte))
    BY BytesSpell, BytesKnown
  <2>. QED
    BY <1>0, <2>1, AllMergedSpells
<1>8. Names(t, encode(t, s), Tokens(t, s))
  BY <1>0, <1>1, <1>6, IdsName DEF T
<1>9. Tokens(t, s) \in Seq(Seq(TextByte))
  BY <1>1, <1>2, <1>6
<1>10. decode(t, encode(t, s)) = s
  BY <1>0, <1>1, <1>7, <1>8, <1>9, DecodeSpells
<1>. QED
  BY <1>1, <1>6, <1>10 DEF T

LEMMA NewIsSound == Sound(NewTokenizer) /\ Len(NewTokenizer.vocab) <= vocab_size
<1> DEFINE v == [i \in 1..NBytes |-> <<i - 1>>]
<1>0. NBytes \in Nat /\ vocab_size \in Nat /\ NBytes <= vocab_size
  BY TokenizerAssumption
<1>1. NewTokenizer.vocab = v /\ NewTokenizer.merges = <<>>
  BY DEF NewTokenizer
<1>2. ASSUME NEW x \in TextByte PROVE <<x>> \in Range(v)
  <2>1. x + 1 \in 1..NBytes /\ (x + 1) - 1 = x
    BY <1>0 DEF TextByte
  <2>2. v[x + 1] = <<x>> /\ DOMAIN v = 1..NBytes
    BY <2>1
  <2> HIDE DEF v
  <2>. QED
    BY <2>1, <2>2 DEF Range
<1>3. v \in Seq(Seq(TextByte)) /\ Len(v) = NBytes
  <2>1. \A i \in 1..NBytes : <<i - 1>> \in Seq(TextByte)
    BY <1>0 DEF TextByte
  <2>. QED
    BY <1>0, <2>1
<1> HIDE DEF v
<1>4. <<>> \in Seq(MergePair) /\ \A i \in 1..Len(<<>>) : FALSE
  OBVIOUS
<1>. QED
  BY <1>0, <1>1, <1>2, <1>3, <1>4 DEF Sound

LEMMA LearntIsSound ==
    ASSUME NEW t, Sound(t), NEW p \in MergePair
    PROVE  /\ Sound(Learnt(t, p)) /\ Learnt(t, p).merges = Append(t.merges, p)
           /\ Range(t.vocab) \subseteq Range(Learnt(t, p).vocab)
           /\ p.a \o p.b \in Range(Learnt(t, p).vocab)
           /\ Len(Learnt(t, p).vocab) <= Len(t.vocab) + 1
<1> DEFINE v == t.vocab
           ms == t.merges
           w == p.a \o p.b
           u == Learnt(t, p).vocab
<1>0. w \in Seq(TextByte)
  BY PairsJoin DEF Joins
<1>1. Learnt(t, p).merges = Append(ms, p) /\ u = IF w \in Range(v) THEN v ELSE Append(v, w)
  BY DEF Learnt, Known
<1>2. v \in Seq(Seq(TextByte)) /\ ms \in Seq(MergePair) /\ Len(v) \in Nat /\ Len(ms) \in Nat
  BY DEF Sound
<1>3. (\A x \in TextByte : <<x>> \in Range(v)) /\ \A i \in 1..Len(ms) : ms[i].a \o ms[i].b \in Range(v)
  BY DEF Sound
<1> DEFINE new == Append(ms, p)
<1> HIDE DEF u, w, v, ms
<1>4. /\ u \in Seq(Seq(TextByte)) /\ w \in Range(u) /\ Range(v) \subseteq Range(u)
      /\ Len(u) <= Len(v) + 1
  <2>1. CASE w \in Range(v)
    BY <1>1, <1>2, <2>1
  <2>2. CASE w \notin Range(v)
    <3>1. u = Append(v, w)
      BY <1>1, <2>2
    <3>2. /\ u \in Seq(Seq(TextByte)) /\ DOMAIN u = 1..Len(v)+1 /\ Len(u) = Len(v) + 1
          /\ DOMAIN v = 1..Len(v)
          /\ u[Len(v) + 1] = w /\ \A i \in 1..Len(v) : u[i] = v[i]
      BY <1>0, <1>2, <3>1
    <3>3. Len(v) + 1 \in DOMAIN u /\ DOMAIN v \subseteq DOMAIN u
      BY <1>2, <3>2
    <3>4. w \in Range(u) /\ Range(v) \subseteq Range(u)
      BY <3>2, <3>3, Zenon DEF Range
    <3>5. Len(u) <= Len(v) + 1
      BY <1>2, <3>2
    <3>. QED
      BY <3>2, <3>4, <3>5
  <2>. QED
    BY <2>1, <2>2
<1>5. new \in Seq(MergePair) /\ \A i \in 1..Len(new) : new[i].a \o new[i].b \in Range(u)
  <2>1. /\ new \in Seq(MergePair) /\ Len(new) = Len(ms) + 1 /\ new[Len(ms) + 1] = p
        /\ \A i \in 1..Len(ms) : new[i] = ms[i]
    BY <1>2
  <2> HIDE DEF new
  <2>2. ASSUME NEW i \in 1..Len(new) PROVE new[i].a \o new[i].b \in Range(u)
    <3>1. CASE i = Len(ms) + 1
      BY <1>4, <2>1, <3>1, Zenon DEF w
    <3>2. CASE i # Len(ms) + 1
      <4>1. i \in 1..Len(ms)
        BY <1>2, <2>1, <3>2
      <4>2. new[i] = ms[i] /\ ms[i].a \o ms[i].b \in Range(v)
        BY <1>3, <2>1, <4>1, Zenon
      <4>. QED
        BY <1>4, <4>2, Zenon
    <3>. QED
      BY <3>1, <3>2
  <2>. QED
    BY <2>1, <2>2
<1>6. \A x \in TextByte : <<x>> \in Range(u)
  BY <1>3, <1>4, Zenon
<1> HIDE DEF new
<1>7. Sound(Learnt(t, p))
  BY <1>1, <1>4, <1>5, <1>6, Zenon DEF Sound, u, new
<1>. QED
  BY <1>1, <1>4, <1>7, Zenon DEF u, v, w, ms

(* Until a file is written there is no tokenizer to load, and any number of    *)
(* trainings keeps the tokenizer sound and within its vocabulary; the merges   *)
(* known before the first training are none, and since then they are those     *)
(* that the training applied to its own words.                                 *)
TokInv ==
    /\ trainings \in Nat
    /\ file.format = "none" =>
          /\ Sound(tok) /\ Len(tok.vocab) <= vocab_size
          /\ words \in Seq(Range(tok.vocab))
          /\ trainings = 0 => tok.merges = <<>> /\ left = 0
          /\ trainings = 1 => text \in Seq(TextByte) /\ words = Tokens(tok, text)

LEMMA TokInvMerge ==
    ASSUME TokInv, MergeMostFrequent
    PROVE  TokInv'
<1>0. /\ trainings' = trainings /\ file' = file /\ text' = text /\ left # 0 /\ trainings \in Nat
      /\ Len(tok.vocab) < vocab_size
  BY DEF MergeMostFrequent, TokInv
<1>1. SUFFICES ASSUME file.format = "none"
               PROVE  /\ Sound(tok') /\ Len(tok'.vocab) <= vocab_size
                      /\ words' \in Seq(Range(tok'.vocab))
                      /\ trainings # 0
                      /\ trainings = 1 => text \in Seq(TextByte) /\ words' = Tokens(tok', text)
  BY <1>0 DEF TokInv, Tokens
<1>2. /\ Sound(tok) /\ words \in Seq(Range(tok.vocab)) /\ trainings # 0
      /\ trainings = 1 => text \in Seq(TextByte) /\ words = Tokens(tok, text)
  BY <1>0, <1>1 DEF TokInv
<1>3. tok.vocab \in Seq(Seq(TextByte)) /\ tok.merges \in Seq(MergePair)
  BY <1>2 DEF Sound
<1>4. PICK p \in Pairs : tok' = Learnt(tok, p) /\ words' = Merged(words, p)
  BY DEF MergeMostFrequent
<1>5. p \in MergePair
  <2>1. PICK i \in 1..(Len(words) - 1) : p = [a |-> words[i], b |-> words[i + 1]]
    BY DEF Pairs
  <2>2. words[i] \in Range(tok.vocab) /\ words[i + 1] \in Range(tok.vocab)
    BY <1>2
  <2>3. Range(tok.vocab) \subseteq Seq(TextByte)
    BY <1>3 DEF Range
  <2>. QED
    BY <2>1, <2>2, <2>3 DEF MergePair
<1> DEFINE t == Learnt(tok, p)
<1>6. /\ Sound(t) /\ t.merges = Append(tok.merges, p)
      /\ Range(tok.vocab) \subseteq Range(t.vocab) /\ p.a \o p.b \in Range(t.vocab)
      /\ Len(t.vocab) <= Len(tok.vocab) + 1
  BY <1>2, <1>5, LearntIsSound
<1> HIDE DEF t
<1>7. Len(t.vocab) <= vocab_size
  <2>1. Len(tok.vocab) \in Nat /\ vocab_size \in Nat
    BY <1>3, TokenizerAssumption
  <2>2. Len(t.vocab) \in Nat
    BY <1>6 DEF Sound
  <2>. QED
    BY <1>0, <1>6, <2>1, <2>2
<1>8. Merged(words, p) \in Seq(Range(t.vocab))
  <2>1. words \in Seq(Range(t.vocab))
    BY <1>2, <1>6
  <2>. QED
    BY <1>6, <2>1, MergedKeeps
<1>9. ASSUME trainings = 1 PROVE text \in Seq(TextByte) /\ Merged(words, p) = Tokens(t, text)
  <2>1. text \in Seq(TextByte) /\ words = AllMerged(BytesOf(text), tok.merges)
    BY <1>2, <1>9 DEF Tokens, AllMerged
  <2>2. BytesOf(text) \in Seq(Seq(TextByte))
    BY <2>1, BytesKnown
  <2>3. AllMerged(BytesOf(text), Append(tok.merges, p)) = Merged(AllMerged(BytesOf(text), tok.merges), p)
    BY <1>3, <1>5, <2>2, AllMergedNext
  <2>4. Tokens(t, text) = AllMerged(BytesOf(text), t.merges)
    BY DEF Tokens, AllMerged
  <2>. QED
    BY <1>6, <2>1, <2>3, <2>4
<1>10. tok' = t /\ words' = Merged(words, p)
  BY <1>4 DEF t
<1>. QED
  BY <1>2, <1>6, <1>7, <1>8, <1>9, <1>10

LEMMA TokInvTrain ==
    ASSUME TokInv, NEW s \in Texts, NEW n \in 1..MaxMerges, Train(s, n)
    PROVE  TokInv'
<1>0. /\ trainings' = trainings + 1 /\ file' = file /\ tok' = tok /\ trainings \in Nat
      /\ text' = s /\ words' = BytesOf(s)
  BY DEF Train, TokInv
<1>1. SUFFICES ASSUME file.format = "none"
               PROVE  /\ BytesOf(s) \in Seq(Range(tok.vocab))
                      /\ trainings = 0 => s \in Seq(TextByte) /\ BytesOf(s) = Tokens(tok, s)
  <2>1. trainings' \in Nat /\ trainings' # 0 /\ (trainings' = 1 => trainings = 0)
    BY <1>0
  <2>. QED
    BY <1>0, <1>1, <2>1 DEF TokInv, Tokens
<1>2. Sound(tok) /\ (trainings = 0 => tok.merges = <<>>)
  BY <1>1 DEF TokInv
<1>3. s \in Seq(TextByte)
  BY TokenizerAssumption DEF TextByte
<1>4. BytesOf(s) \in Seq(Range(tok.vocab))
  <2>1. Len(s) \in Nat /\ \A i \in 1..Len(s) : <<s[i]>> \in Range(tok.vocab)
    BY <1>2, <1>3 DEF Sound
  <2>. QED
    BY <2>1 DEF BytesOf
<1>5. ASSUME trainings = 0 PROVE BytesOf(s) = Tokens(tok, s)
  <2>1. AllMerged(BytesOf(s), <<>>) = BytesOf(s)
    BY <1>3, BytesKnown, AllMergedNext
  <2>2. Tokens(tok, s) = AllMerged(BytesOf(s), tok.merges)
    BY DEF Tokens, AllMerged
  <2>. QED
    BY <1>2, <1>5, <2>1, <2>2
<1>. QED
  BY <1>3, <1>4, <1>5

LEMMA TokInvStep ==
    ASSUME TokInv, [TokNext]_tok_vars
    PROVE  TokInv'
<1>1. ASSUME UNCHANGED <<tok, text, words, trainings, file>>, left' = left \/ left # 0 PROVE TokInv'
  BY <1>1 DEF TokInv, Tokens
<1>2. ASSUME file'.format # "none", trainings' = trainings PROVE TokInv'
  BY <1>2 DEF TokInv
<1>3. ASSUME NEW s \in Texts, NEW n \in 1..MaxMerges, Train(s, n) PROVE TokInv'
  BY <1>3, TokInvTrain
<1>4. CASE MergeMostFrequent
  BY <1>4, TokInvMerge
<1>5. CASE StopTraining
  BY <1>1, <1>5 DEF StopTraining
<1>6. CASE save \/ save_hf
  BY <1>2, <1>6 DEF save, save_hf
<1>7. CASE load \/ load_hf
  BY <1>2, <1>7 DEF load, load_hf
<1>8. CASE UNCHANGED tok_vars
  BY <1>1, <1>8 DEF tok_vars
<1>. QED
  BY <1>3, <1>4, <1>5, <1>6, <1>7, <1>8 DEF TokNext

LEMMA TokInvInit == TokInit => TokInv
<1> SUFFICES ASSUME TokInit PROVE TokInv
  OBVIOUS
<1>1. tok = NewTokenizer /\ words = <<>> /\ trainings = 0 /\ left = 0
  BY DEF TokInit
<1>2. NewTokenizer.merges = <<>>
  BY DEF NewTokenizer
<1>3. <<>> \in Seq(Range(tok.vocab))
  BY EmptySeq
<1>. QED
  BY <1>1, <1>2, <1>3, NewIsSound DEF TokInv

LEMMA TokInvSegments ==
    ASSUME TokInv
    PROVE  SegmentsAsTrained
<1> SUFFICES ASSUME trainings = 1, file.format = "none"
             PROVE  LET ids == encode(tok, text)
                    IN  Len(ids) = Len(words) /\ \A i \in DOMAIN ids : tok.vocab[ids[i] + 1] = words[i]
  BY DEF SegmentsAsTrained
<1> DEFINE ids == encode(tok, text)
<1>1. /\ tok.vocab \in Seq(Seq(TextByte)) /\ words = Tokens(tok, text)
      /\ words \in Seq(Range(tok.vocab))
  BY DEF TokInv, Sound
<1>2. Names(tok, ids, words)
  BY <1>1, IdsName
<1> HIDE DEF ids
<1>3. /\ ids \in Seq(Nat) /\ Len(ids) = Len(words)
      /\ \A i \in 1..Len(words) : tok.vocab[ids[i] + 1] = words[i]
  BY <1>2 DEF Names
<1>. QED
  BY <1>3 DEF ids

(* The encoder cuts the text of a first training into the very words that the  *)
(* training counted its pairs in, whatever the text, the vocabulary and the    *)
(* number of merges: train() and encode() apply the same merges in the same    *)
(* order, and every word they leave has an id (SegmentsAsTrained).             *)
THEOREM WordsAsTrained == TokSpec => []SegmentsAsTrained
<1>1. TokInv /\ [TokNext]_tok_vars => TokInv'
  BY TokInvStep
<1>2. TokInv => SegmentsAsTrained
  BY TokInvSegments
<1>. QED
  BY <1>1, <1>2, TokInvInit, PTL DEF TokSpec

\* No file was written, so none was loaded.
TrainedOnly == file.format = "none"
DecodesAll == /\ Len(tok.vocab) <= vocab_size
              /\ \A s \in Seq(TextByte) : decode(tok, encode(tok, s)) = s

(* A tokenizer made by train(), trained any number of times on any texts, also *)
(* one whose training is under way and one whose vocabulary is full, decodes   *)
(* every text to itself from its encoding and has no more than vocab_size      *)
(* tokens: EncodeDecode of every text rather than of the probes, where no file *)
(* was loaded.                                                                 *)
THEOREM TrainedDecodes == TokSpec => [](TrainedOnly => DecodesAll)
<1>1. TokInv /\ [TokNext]_tok_vars => TokInv'
  BY TokInvStep
<1>2. TokInv => (TrainedOnly => DecodesAll)
  <2> SUFFICES ASSUME TokInv, TrainedOnly PROVE DecodesAll
    OBVIOUS
  <2>1. Sound(tok) /\ Len(tok.vocab) <= vocab_size
    BY DEF TokInv, TrainedOnly
  <2>. QED
    BY <2>1, SoundDecodes DEF DecodesAll
<1>. QED
  BY <1>1, <1>2, TokInvInit, PTL DEF TokSpec

-------------------------------------------------------------------------------
(* Folds in general: the step of a fold as a function F on D \X M, the fold of *)
(* F, and what a fold does on nothing, on one more element and on two          *)
(* sequences.  What is known of a concrete fold is then read off its F.        *)
StepsOn(D, M, F) == F \in [D \X M -> D]
Val(F, b, seq) == FoldLeft(LAMBDA d, x : F[<<d, x>>], b, seq)
ValStep(F, b, seq, it, s) == IF s = {} THEN b ELSE F[<<it[s \ {Max(s)}], seq[Max(s)]>>]
ValIt(F, b, seq) ==
    CHOOSE it : it = [s \in SUBSET DOMAIN seq |-> IF s = {} THEN b ELSE LET x == Max(s) IN F[<<it[s \ {x}], seq[x]>>]]

\* A function on the subsets of 1..n that recurs by F, within D.
Runs(D, M, F, b, seq, it) ==
    /\ it \in [SUBSET (1..Len(seq)) -> D] /\ it[{}] = b
    /\ \A s \in SUBSET (1..Len(seq)) :
          s # {} => /\ it[s \ {Max(s)}] \in D /\ seq[Max(s)] \in M
                    /\ it[s] = F[<<it[s \ {Max(s)}], seq[Max(s)]>>]

LEMMA FoldRuns ==
    ASSUME NEW D, NEW M, NEW F, StepsOn(D, M, F), NEW b \in D, NEW seq \in Seq(M)
    PROVE  \E it : Runs(D, M, F, b, seq, it)
<1> DEFINE N == Len(seq)
<1>0. N \in Nat /\ DOMAIN seq = 1..N
  OBVIOUS
<1> HIDE DEF N
<1>4. Solvable(D, F, b, seq, N)
  BY FoldExists DEF N, StepsOn
<1>5. PICK it \in [SUBSET (1..N) -> D] : \A s \in SUBSET (1..N) : it[s] = FoldStep(F, b, seq, it, s)
  BY <1>4 DEF Solvable
<1>6. it[{}] = b
  BY <1>5, Zenon DEF FoldStep
<1>7. ASSUME NEW s \in SUBSET (1..N), s # {}
      PROVE  /\ it[s \ {Max(s)}] \in D /\ seq[Max(s)] \in M
             /\ it[s] = F[<<it[s \ {Max(s)}], seq[Max(s)]>>]
  <2>1. Max(s) \in 1..N
    BY <1>0, <1>7, MaxIsIn
  <2>2. it[s \ {Max(s)}] \in D
    <3>1. s \ {Max(s)} \in SUBSET (1..N)
      OBVIOUS
    <3>. QED
      BY <3>1, it \in [SUBSET (1..N) -> D], Zenon
  <2>3. seq[Max(s)] \in M
    BY <2>1 DEF N
  <2>. QED
    BY <1>5, <1>7, <2>2, <2>3, Zenon DEF FoldStep
<1>. QED
  BY <1>6, <1>7, <1>5, Zenon DEF Runs, N

Applied(F, d, x) == F[<<d, x>>]
Upto(g, n) == g[1..n]

(* What recurs by F as long as it stays within D is F's run on the prefixes.   *)
Follows(D, F, b, seq, g) ==
    /\ g[{}] = b
    /\ \A s \in SUBSET (1..Len(seq)) :
          s # {} /\ g[s \ {Max(s)}] \in D => g[s] = F[<<g[s \ {Max(s)}], seq[Max(s)]>>]

LEMMA PrefixValues ==
    ASSUME NEW D, NEW M, NEW F, StepsOn(D, M, F), NEW b \in D, NEW seq \in Seq(M),
           NEW g, Follows(D, F, b, seq, g), NEW n \in Nat, n + 1 <= Len(seq), Upto(g, n) \in D
    PROVE  Upto(g, n + 1) \in D /\ Upto(g, n + 1) = Applied(F, Upto(g, n), seq[n + 1])
<1>1. 1..n+1 \in SUBSET (1..Len(seq)) /\ seq[n + 1] \in M
  OBVIOUS
<1>2. Max(1..n+1) = n + 1 /\ (1..n+1) \ {n + 1} = 1..n /\ 1..n+1 # {}
  BY OneMore, Zenon
<1>3. g[1..n+1] = F[<<g[1..n], seq[n + 1]>>]
  BY <1>1, <1>2, Zenon DEF Follows, Upto
<1>4. <<g[1..n], seq[n + 1]>> \in D \X M
  BY <1>1 DEF Upto
<1>5. F[<<g[1..n], seq[n + 1]>>] \in D
  BY <1>4 DEF StepsOn
<1>. QED
  BY <1>3, <1>5, Zenon DEF Upto, Applied

LEMMA SameValues ==
    ASSUME NEW D, NEW M, NEW F, StepsOn(D, M, F), NEW b \in D,
           NEW seq \in Seq(M), NEW long \in Seq(M), Len(seq) <= Len(long),
           \A i \in 1..Len(seq) : long[i] = seq[i],
           NEW g, Follows(D, F, b, seq, g), NEW h, Follows(D, F, b, long, h)
    PROVE  Upto(g, Len(seq)) \in D /\ Upto(h, Len(seq)) = Upto(g, Len(seq))
<1> DEFINE P == {n \in Nat : n <= Len(seq) => Upto(g, n) \in D /\ Upto(h, n) = Upto(g, n)}
<1>0. Len(seq) \in Nat /\ Len(long) \in Nat
  OBVIOUS
<1>1. 0 \in P
  <2>1. 1..0 = {}
    OBVIOUS
  <2>2. Upto(g, 0) = b /\ Upto(h, 0) = b
    BY <2>1, Zenon DEF Follows, Upto
  <2>. QED
    BY <2>2
<1>2. ASSUME NEW n \in Nat, n \in P PROVE n + 1 \in P
  <2>1. SUFFICES ASSUME n + 1 <= Len(seq) PROVE Upto(g, n + 1) \in D /\ Upto(h, n + 1) = Upto(g, n + 1)
    OBVIOUS
  <2>2. Upto(g, n) \in D /\ Upto(h, n) = Upto(g, n)
    BY <1>0, <1>2, <2>1
  <2>3. n + 1 <= Len(long) /\ long[n + 1] = seq[n + 1]
    BY <1>0, <2>1
  <2>4. Upto(g, n + 1) \in D /\ Upto(g, n + 1) = Applied(F, Upto(g, n), seq[n + 1])
    BY <2>1, <2>2, PrefixValues
  <2>5. Upto(h, n) \in D
    BY <2>2
  <2>6. Upto(h, n + 1) = Applied(F, Upto(h, n), long[n + 1])
    BY <2>3, <2>5, PrefixValues
  <2>. QED
    BY <2>2, <2>3, <2>4, <2>6, Zenon
<1> HIDE DEF P
<1>3. Len(seq) \in P
  BY <1>0, <1>1, <1>2, SetInduction
<1>. QED
  BY <1>0, <1>3 DEF P

LEMMA ValFollows ==
    ASSUME NEW D, NEW M, NEW F, StepsOn(D, M, F), NEW b \in D, NEW seq \in Seq(M)
    PROVE  /\ Follows(D, F, b, seq, ValIt(F, b, seq))
           /\ Val(F, b, seq) = Upto(ValIt(F, b, seq), Len(seq))
<1> DEFINE N == Len(seq)
           g == ValIt(F, b, seq)
<1>0. N \in Nat /\ DOMAIN seq = 1..N
  OBVIOUS
<1>1. PICK it : Runs(D, M, F, b, seq, it)
  BY FoldRuns
<1>2. Val(F, b, seq) = g[DOMAIN seq]
  BY DEF Val, FoldLeft, MapThenFoldSet, ValIt
<1>3. g = CHOOSE f : f = [s \in SUBSET (1..N) |-> ValStep(F, b, seq, f, s)]
  BY <1>0 DEF ValIt, ValStep
<1> HIDE DEF g, N
<1>4. it = [s \in SUBSET (1..N) |-> ValStep(F, b, seq, it, s)]
  <2>1. \A s \in SUBSET (1..N) : it[s] = ValStep(F, b, seq, it, s)
    BY <1>1, Zenon DEF Runs, ValStep, N
  <2>2. it \in [SUBSET (1..N) -> D]
    BY <1>1, Zenon DEF Runs, N
  <2>. QED
    BY <2>1, <2>2
<1>5. g = [s \in SUBSET (1..N) |-> ValStep(F, b, seq, g, s)]
  BY <1>3, <1>4
<1>6. g[{}] = b /\ \A s \in SUBSET (1..N) : s # {} => g[s] = F[<<g[s \ {Max(s)}], seq[Max(s)]>>]
  <2>1. \A s \in SUBSET (1..N) : g[s] = ValStep(F, b, seq, g, s)
    BY <1>5
  <2>. QED
    BY <2>1, Zenon DEF ValStep
<1>. QED
  BY <1>0, <1>2, <1>6 DEF Follows, g, N, Upto

(* A fold over nothing, over one more, over two sequences one after the other. *)
LEMMA ValEmpty ==
    ASSUME NEW D, NEW M, NEW F, StepsOn(D, M, F), NEW b \in D
    PROVE  Val(F, b, <<>>) = b
<1> DEFINE none == <<>>
<1>1. none \in Seq(M) /\ 1..Len(none) = {}
  OBVIOUS
<1> HIDE DEF none
<1>2. Follows(D, F, b, none, ValIt(F, b, none)) /\ Val(F, b, none) = Upto(ValIt(F, b, none), Len(none))
  BY <1>1, ValFollows
<1>3. Val(F, b, none) = b
  BY <1>1, <1>2, Zenon DEF Follows, Upto
<1>. QED
  BY <1>3 DEF none

LEMMA ValIn ==
    ASSUME NEW D, NEW M, NEW F, StepsOn(D, M, F), NEW b \in D, NEW seq \in Seq(M)
    PROVE  Val(F, b, seq) \in D
<1> DEFINE g == ValIt(F, b, seq)
<1>1. Follows(D, F, b, seq, g) /\ Val(F, b, seq) = Upto(g, Len(seq))
  BY ValFollows
<1> HIDE DEF g
<1>2. Len(seq) <= Len(seq) /\ \A i \in 1..Len(seq) : seq[i] = seq[i]
  OBVIOUS
<1>3. Upto(g, Len(seq)) \in D
  BY <1>1, <1>2, SameValues
<1>. QED
  BY <1>1, <1>3

LEMMA ValAppend ==
    ASSUME NEW D, NEW M, NEW F, StepsOn(D, M, F), NEW b \in D, NEW seq \in Seq(M), NEW x \in M
    PROVE  Val(F, b, Append(seq, x)) = Applied(F, Val(F, b, seq), x)
<1> DEFINE long == Append(seq, x)
           N == Len(seq)
           g == ValIt(F, b, seq)
           h == ValIt(F, b, long)
<1>0. /\ N \in Nat /\ long \in Seq(M) /\ Len(long) = N + 1 /\ long[N + 1] = x
      /\ N <= Len(long) /\ \A i \in 1..N : long[i] = seq[i]
  OBVIOUS
<1>1. Follows(D, F, b, seq, g) /\ Val(F, b, seq) = Upto(g, N)
  BY ValFollows
<1> HIDE DEF long
<1>2. Follows(D, F, b, long, h) /\ Val(F, b, long) = Upto(h, N + 1)
  <2>1. Follows(D, F, b, long, h) /\ Val(F, b, long) = Upto(h, Len(long))
    BY <1>0, ValFollows
  <2>. QED
    BY <1>0, <2>1
<1> HIDE DEF g, h
<1>3. Upto(g, N) \in D /\ Upto(h, N) = Upto(g, N)
  BY <1>0, <1>1, <1>2, SameValues
<1>4. Upto(h, N + 1) = Applied(F, Upto(h, N), long[N + 1])
  <2>1. N + 1 <= Len(long) /\ Upto(h, N) \in D
    BY <1>0, <1>3
  <2> HIDE DEF N
  <2>. QED
    BY <1>0, <1>2, <2>1, PrefixValues
<1>. QED
  BY <1>0, <1>1, <1>2, <1>3, <1>4, Zenon DEF long

LEMMA SeqInduction ==
    ASSUME NEW M, NEW P, <<>> \in P,
           \A s \in Seq(M), x \in M : s \in P => Append(s, x) \in P
    PROVE  \A s \in Seq(M) : s \in P
<1> DEFINE Q == {n \in Nat : \A s \in Seq(M) : Len(s) = n => s \in P}
<1>1. 0 \in Q
  <2>1. \A s \in Seq(M) : Len(s) = 0 => s = <<>>
    OBVIOUS
  <2>. QED
    BY <2>1
<1>2. ASSUME NEW n \in Nat, n \in Q PROVE n + 1 \in Q
  <2>1. SUFFICES ASSUME NEW s \in Seq(M), Len(s) = n + 1 PROVE s \in P
    OBVIOUS
  <2> DEFINE f == SubSeq(s, 1, n)
  <2>2. f \in Seq(M) /\ Len(f) = n /\ s[n + 1] \in M /\ s = Append(f, s[n + 1])
    BY <2>1
  <2> HIDE DEF f
  <2>3. f \in P
    BY <1>2, <2>2
  <2>4. Append(f, s[n + 1]) \in P
    BY <2>2, <2>3
  <2>. QED
    BY <2>2, <2>4
<1> HIDE DEF Q
<1>3. \A n \in Nat : n \in Q
  BY <1>1, <1>2, SetInduction
<1>4. \A s \in Seq(M) : Len(s) \in Nat
  OBVIOUS
<1>. QED
  BY <1>3, <1>4 DEF Q

JoinAppend(s, t, x) == s \o Append(t, x) = Append(s \o t, x)
LEMMA Joined ==
    ASSUME NEW M, NEW s \in Seq(M), NEW t \in Seq(M), NEW x \in M
    PROVE  /\ s \o t \in Seq(M) /\ JoinAppend(s, t, x) /\ Append(s, x) = s \o <<x>>
           /\ s \o <<>> = s /\ <<>> \o s = s
  BY DEF JoinAppend

LEMMA ValConcat ==
    ASSUME NEW D, NEW M, NEW F, StepsOn(D, M, F), NEW b \in D, NEW s \in Seq(M), NEW t \in Seq(M)
    PROVE  Val(F, b, s \o t) = Val(F, Val(F, b, s), t)
<1> DEFINE c == Val(F, b, s)
           P == {u \in Seq(M) : Val(F, b, s \o u) = Val(F, c, u)}
<1>0. c \in D
  BY ValIn
<1>1. <<>> \in P
  <2>1. s \o <<>> = s /\ <<>> \in Seq(M)
    OBVIOUS
  <2>2. Val(F, c, <<>>) = c
    BY <1>0, ValEmpty
  <2>. QED
    BY <2>1, <2>2
<1> HIDE DEF c
<1>2. ASSUME NEW u \in Seq(M), NEW x \in M, u \in P PROVE Append(u, x) \in P
  <2>1. s \o u \in Seq(M) /\ s \o Append(u, x) = Append(s \o u, x) /\ Append(u, x) \in Seq(M)
    BY Joined DEF JoinAppend
  <2>2. \A w \in Seq(M) : Val(F, b, Append(w, x)) = Applied(F, Val(F, b, w), x)
    BY ValAppend
  <2>3. Val(F, c, Append(u, x)) = Applied(F, Val(F, c, u), x)
    BY <1>0, ValAppend
  <2>. QED
    BY <1>2, <2>1, <2>2, <2>3
<1> HIDE DEF P
<1>3. t \in P
  BY <1>1, <1>2, SeqInduction
<1>. QED
  BY <1>3 DEF P, c

(* A recursion that follows F ends where F's fold does.                        *)
LEMMA FollowedIsVal ==
    ASSUME NEW D, NEW M, NEW F, StepsOn(D, M, F), NEW b \in D, NEW seq \in Seq(M),
           NEW g, Follows(D, F, b, seq, g)
    PROVE  Val(F, b, seq) = Upto(g, Len(seq))
<1> DEFINE h == ValIt(F, b, seq)
<1>1. Follows(D, F, b, seq, h) /\ Val(F, b, seq) = Upto(h, Len(seq))
  BY ValFollows
<1> HIDE DEF h
<1>2. Len(seq) <= Len(seq) /\ \A i \in 1..Len(seq) : seq[i] = seq[i]
  OBVIOUS
<1>3. Upto(h, Len(seq)) = Upto(g, Len(seq))
  BY <1>1, <1>2, SameValues
<1>. QED
  BY <1>1, <1>3

(* The folds of the tokenizer's files, by such functions: each step keeps its  *)
(* state within a set.                                                         *)
LineState == [done : Seq(Seq(TextByte)), line : Seq(TextByte)]
UnescapeState == [s : Seq(TextByte), escaped : BOOLEAN]
KeyState == [s : Seq(TextByte), escaped : BOOLEAN, closed : BOOLEAN]
TokState == [merges : Seq(MergePair), vocab : Seq(Seq(TextByte))]

LEMMA SpecialBytes == Space \in TextByte /\ Newline \in TextByte /\ Hash \in TextByte
                      /\ Quote \in TextByte /\ Backslash \in TextByte /\ LetterN \in TextByte
  BY TokenizerAssumption DEF TextByte

LEMMA NoBytes == <<>> \in Seq(TextByte) /\ <<>> \in Seq(MergePair) /\ <<>> \in Seq(Seq(TextByte))
  BY EmptySeq

LEMMA LineTyped == \A acc \in LineState, c \in TextByte : LineRead(acc, c) \in LineState
<1> SUFFICES ASSUME NEW acc \in LineState, NEW c \in TextByte PROVE LineRead(acc, c) \in LineState
  OBVIOUS
<1>1. acc.done \in Seq(Seq(TextByte)) /\ acc.line \in Seq(TextByte)
  BY DEF LineState
<1>2. Append(acc.done, acc.line) \in Seq(Seq(TextByte)) /\ Append(acc.line, c) \in Seq(TextByte)
  BY <1>1, AppendProperties
<1>3. [done |-> Append(acc.done, acc.line), line |-> <<>>] \in LineState
  BY <1>2, NoBytes DEF LineState
<1>4. [acc EXCEPT !.line = Append(@, c)] \in LineState
  BY <1>1, <1>2 DEF LineState
<1>. QED
  BY <1>3, <1>4, Zenon DEF LineRead

(* A line with a space is cut before and after its first.                      *)
LEMMA FirstSpace ==
    ASSUME NEW line \in Seq(TextByte), NEW n \in 1..Len(line), line[n] = Space,
           \A i \in 1..(n - 1) : line[i] # Space
    PROVE  Min(Spaces(line)) = n
<1>1. n \in Spaces(line)
  BY DEF Spaces
<1>2. ASSUME NEW m \in Spaces(line) PROVE n <= m /\ m \in Nat
  BY DEF Spaces
<1>3. ASSUME NEW m \in Spaces(line), \A i \in Spaces(line) : m <= i PROVE m = n
  <2>1. m <= n /\ n <= m /\ m \in Nat /\ n \in Nat
    BY <1>1, <1>2, <1>3
  <2>. QED
    BY <2>1
<1>4. (CHOOSE m \in Spaces(line) : \A i \in Spaces(line) : m <= i) = n
  BY <1>1, <1>2, <1>3
<1>. QED
  BY <1>4 DEF Min

LEMMA SplitTyped ==
    ASSUME NEW line \in Seq(TextByte), Spaces(line) # {}
    PROVE  Split(line) \in MergePair
<1>1. PICK n \in Spaces(line) : \A i \in Spaces(line) : n <= i
  <2>1. Spaces(line) \in SUBSET Nat
    BY DEF Spaces
  <2>. QED
    BY <2>1, Least
<1>2. n \in 1..Len(line) /\ line[n] = Space /\ \A i \in 1..(n - 1) : line[i] # Space
  BY <1>1 DEF Spaces
<1>3. Min(Spaces(line)) = n
  BY <1>2, FirstSpace
<1>4. Split(line) = [a |-> SubSeq(line, 1, n - 1), b |-> SubSeq(line, n + 1, Len(line))]
  BY <1>3, Zenon DEF Split
<1>5. SubSeq(line, 1, n - 1) \in Seq(TextByte) /\ SubSeq(line, n + 1, Len(line)) \in Seq(TextByte)
  <2>1. Len(line) \in Nat /\ n \in Nat /\ n <= Len(line) /\ n >= 1 /\ \A i \in 1..Len(line) : line[i] \in TextByte
    BY <1>2
  <2>2. \A i \in 1..n-1 : line[i] \in TextByte
    BY <2>1
  <2>3. \A i \in n+1..Len(line) : line[i] \in TextByte
    BY <2>1
  <2>. QED
    BY <2>1, <2>2, <2>3, SubSeqProperties
<1>. QED
  BY <1>4, <1>5 DEF MergePair

LEMMA ReadTyped == \A ms \in Seq(MergePair), line \in Seq(TextByte) : MergeRead(ms, line) \in Seq(MergePair)
<1> SUFFICES ASSUME NEW ms \in Seq(MergePair), NEW line \in Seq(TextByte) PROVE MergeRead(ms, line) \in Seq(MergePair)
  OBVIOUS
<1>1. ASSUME IsMerge(line) PROVE Append(ms, Split(line)) \in Seq(MergePair)
  <2>1. Split(line) \in MergePair
    BY <1>1, SplitTyped DEF IsMerge
  <2>. QED
    BY <2>1, AppendProperties
<1>. QED
  BY <1>1, Zenon DEF MergeRead

LEMMA LineIn == \A p \in MergePair : Line(p) \in Seq(TextByte)
<1> SUFFICES ASSUME NEW p \in MergePair PROVE Line(p) \in Seq(TextByte)
  OBVIOUS
<1>1. /\ p.a \in Seq(TextByte) /\ p.b \in Seq(TextByte)
      /\ <<Space>> \in Seq(TextByte) /\ <<Newline>> \in Seq(TextByte)
  BY SpecialBytes DEF MergePair
<1>. QED
  BY <1>1 DEF Line

LEMMA WrittenTyped == \A s \in Seq(TextByte), p \in MergePair : Joint(s, Line(p)) \in Seq(TextByte)
<1> SUFFICES ASSUME NEW s \in Seq(TextByte), NEW p \in MergePair PROVE Joint(s, Line(p)) \in Seq(TextByte)
  OBVIOUS
<1>1. Line(p) \in Seq(TextByte)
  BY LineIn
<1>. QED
  BY <1>1, ConcatProperties DEF Joint

LEMMA EscapedIn == \A c \in TextByte : Escaped(c) \in Seq(TextByte)
<1> SUFFICES ASSUME NEW c \in TextByte PROVE Escaped(c) \in Seq(TextByte)
  OBVIOUS
<1>1. /\ <<c>> \in Seq(TextByte) /\ <<Backslash, Quote>> \in Seq(TextByte)
      /\ <<Backslash, Backslash>> \in Seq(TextByte) /\ <<Backslash, LetterN>> \in Seq(TextByte)
  BY SpecialBytes
<1>. QED
  BY <1>1, Zenon DEF Escaped

LEMMA EscapeTyped == \A s \in Seq(TextByte), c \in TextByte : Joint(s, Escaped(c)) \in Seq(TextByte)
  BY EscapedIn, ConcatProperties DEF Joint

LEMMA UnescapeTyped == \A acc \in UnescapeState, c \in TextByte : UnescapeRead(acc, c) \in UnescapeState
<1> SUFFICES ASSUME NEW acc \in UnescapeState, NEW c \in TextByte PROVE UnescapeRead(acc, c) \in UnescapeState
  OBVIOUS
<1>1. acc.s \in Seq(TextByte)
  BY DEF UnescapeState
<1>2. Unescaped(c) \in Seq(TextByte)
  <2>1. <<c>> \in Seq(TextByte) /\ <<Newline>> \in Seq(TextByte) /\ <<Backslash, c>> \in Seq(TextByte)
    BY SpecialBytes
  <2>. QED
    BY <2>1, Zenon DEF Unescaped
<1>3. [s |-> acc.s \o Unescaped(c), escaped |-> FALSE] \in UnescapeState
  BY <1>1, <1>2, ConcatProperties DEF UnescapeState
<1>4. [acc EXCEPT !.escaped = TRUE] \in UnescapeState
  BY DEF UnescapeState
<1>5. [acc EXCEPT !.s = Append(@, c)] \in UnescapeState
  BY <1>1, AppendProperties DEF UnescapeState
<1>. QED
  BY <1>3, <1>4, <1>5, Zenon DEF UnescapeRead

LEMMA KeyTyped == \A acc \in KeyState, c \in TextByte : KeyRead(acc, c) \in KeyState
<1> SUFFICES ASSUME NEW acc \in KeyState, NEW c \in TextByte PROVE KeyRead(acc, c) \in KeyState
  OBVIOUS
<1>1. Append(acc.s, c) \in Seq(TextByte)
  BY AppendProperties DEF KeyState
<1>2. [acc EXCEPT !.s = Append(@, c), !.escaped = FALSE] \in KeyState
  BY <1>1 DEF KeyState
<1>3. [acc EXCEPT !.closed = TRUE] \in KeyState
  BY DEF KeyState
<1>4. [acc EXCEPT !.s = Append(@, c), !.escaped = (c = Backslash)] \in KeyState
  BY <1>1 DEF KeyState
<1>. QED
  BY <1>2, <1>3, <1>4, Zenon DEF KeyRead

LEMMA LearntTyped == \A t \in TokState, p \in MergePair : Learnt(t, p) \in TokState
<1> SUFFICES ASSUME NEW t \in TokState, NEW p \in MergePair PROVE Learnt(t, p) \in TokState
  OBVIOUS
<1>1. t.merges \in Seq(MergePair) /\ t.vocab \in Seq(Seq(TextByte)) /\ p.a \o p.b \in Seq(TextByte)
  BY PairsJoin DEF TokState, Joins
<1>2. Append(t.merges, p) \in Seq(MergePair) /\ Append(t.vocab, p.a \o p.b) \in Seq(Seq(TextByte))
  BY <1>1, AppendProperties
<1>. QED
  BY <1>1, <1>2 DEF Learnt, TokState

LEMMA AddedTyped == \A t \in TokState, p \in MergePair : Added(t, p) \in TokState
<1> SUFFICES ASSUME NEW t \in TokState, NEW p \in MergePair PROVE Added(t, p) \in TokState
  OBVIOUS
<1>1. [t EXCEPT !.merges = Append(@, p)] \in TokState
  <2>1. Append(t.merges, p) \in Seq(MergePair)
    BY AppendProperties DEF TokState
  <2>. QED
    BY <2>1 DEF TokState
<1>. QED
  BY <1>1, LearntTyped, Zenon DEF Added

LineFold(b, seq) == FoldLeft(LineRead, b, seq)
LineF == [u \in LineState \X TextByte |-> LineRead(u[1], u[2])]
LineRule(b, seq, it, s) == IF s = {} THEN b ELSE LineRead(it[s \ {Max(s)}], seq[Max(s)])
LineIt(b, seq) ==
    CHOOSE it : it = [s \in SUBSET DOMAIN seq |->
                         IF s = {} THEN b ELSE LET x == Max(s) IN LineRead(it[s \ {x}], seq[x])]

LEMMA LineSteps ==
    /\ StepsOn(LineState, TextByte, LineF)
    /\ \A d \in LineState, x \in TextByte : LineF[<<d, x>>] = LineRead(d, x)
<1>1. ASSUME NEW u \in LineState \X TextByte PROVE LineRead(u[1], u[2]) \in LineState
  <2>1. u[1] \in LineState /\ u[2] \in TextByte
    OBVIOUS
  <2>. QED
    BY <2>1, LineTyped
<1>. QED
  BY <1>1 DEF LineF, StepsOn

LEMMA LineVal ==
    ASSUME NEW b \in LineState, NEW seq \in Seq(TextByte)
    PROVE  LineFold(b, seq) = Val(LineF, b, seq)
<1> DEFINE N == Len(seq)
           D == LineState
           M == TextByte
           g == LineIt(b, seq)
<1>0. N \in Nat /\ DOMAIN seq = 1..N /\ b \in D
  OBVIOUS
<1>1. StepsOn(D, M, LineF) /\ \A d \in D, x \in M : LineF[<<d, x>>] = LineRead(d, x)
  BY LineSteps
<1>2. LineFold(b, seq) = g[DOMAIN seq]
  BY DEF LineFold, FoldLeft, MapThenFoldSet, LineIt
<1>3. g = CHOOSE f : f = [s \in SUBSET (1..N) |-> LineRule(b, seq, f, s)]
  BY <1>0 DEF LineIt, LineRule
<1>4. PICK it : Runs(D, M, LineF, b, seq, it)
  <2> HIDE DEF D
  <2>. QED
    BY <1>0, <1>1, FoldRuns
<1> HIDE DEF D, M, N, g
<1>5. it = [s \in SUBSET (1..N) |-> LineRule(b, seq, it, s)]
  <2>1. \A s \in SUBSET (1..N) : it[s] = LineRule(b, seq, it, s)
    BY <1>1, <1>4, Zenon DEF Runs, LineRule, N
  <2>2. it \in [SUBSET (1..N) -> D]
    BY <1>4, Zenon DEF Runs, N
  <2>. QED
    BY <2>1, <2>2
<1>6. g = [s \in SUBSET (1..N) |-> LineRule(b, seq, g, s)]
  BY <1>3, <1>5
<1>7. Follows(D, LineF, b, seq, g)
  <2>1. \A s \in SUBSET (1..N) : g[s] = LineRule(b, seq, g, s)
    BY <1>6
  <2>2. \A s \in SUBSET (1..N) : s # {} => seq[Max(s)] \in M
    BY <1>4, Zenon DEF Runs, N
  <2>3. {} \in SUBSET (1..N)
    OBVIOUS
  <2>. QED
    BY <1>1, <2>1, <2>2, <2>3, Zenon DEF Follows, LineRule, N
<1>8. Val(LineF, b, seq) = Upto(g, N)
  BY <1>0, <1>1, <1>7, FollowedIsVal DEF M, N
<1>. QED
  BY <1>0, <1>2, <1>8 DEF Upto

LEMMA LineFacts ==
    ASSUME NEW b \in LineState
    PROVE  /\ LineFold(b, <<>>) = b
           /\ \A s \in Seq(TextByte) : LineFold(b, s) \in LineState
           /\ \A s \in Seq(TextByte), x \in TextByte : LineFold(b, Append(s, x)) = LineRead(LineFold(b, s), x)
<1> DEFINE D == LineState
           M == TextByte
<1>0. StepsOn(D, M, LineF) /\ b \in D
  BY LineSteps
<1>1. \A d \in D, x \in M : Applied(LineF, d, x) = LineRead(d, x)
  BY LineSteps, Zenon DEF Applied
<1>2. \A s \in Seq(M) : LineFold(b, s) = Val(LineF, b, s)
  BY LineVal
<1>e. <<>> \in Seq(M) /\ \A s \in Seq(M), x \in M : Append(s, x) \in Seq(M)
  BY EmptySeq, AppendProperties
<1> HIDE DEF D, M
<1>3. Val(LineF, b, <<>>) = b
  BY <1>0, ValEmpty
<1>4. \A s \in Seq(M) : Val(LineF, b, s) \in D
  BY <1>0, ValIn
<1>5. \A s \in Seq(M), x \in M : Val(LineF, b, Append(s, x)) = Applied(LineF, Val(LineF, b, s), x)
  BY <1>0, ValAppend
<1>6. LineFold(b, <<>>) = b /\ \A s \in Seq(M) : LineFold(b, s) \in D
  BY <1>2, <1>3, <1>4, <1>e, Zenon
<1>7. \A s \in Seq(M), x \in M : LineFold(b, Append(s, x)) = LineRead(LineFold(b, s), x)
  <2> SUFFICES ASSUME NEW s \in Seq(M), NEW x \in M PROVE LineFold(b, Append(s, x)) = LineRead(LineFold(b, s), x)
    OBVIOUS
  <2>1. LineFold(b, Append(s, x)) = Applied(LineF, Val(LineF, b, s), x)
    BY <1>2, <1>5, <1>e, Zenon
  <2>2. LineFold(b, s) = Val(LineF, b, s) /\ LineFold(b, s) \in D
    BY <1>2, <1>4, Zenon
  <2>. QED
    BY <1>1, <2>1, <2>2, Zenon
<1>. QED
  BY <1>6, <1>7 DEF D, M

LEMMA LineConcat ==
    ASSUME NEW b \in LineState, NEW s \in Seq(TextByte), NEW t \in Seq(TextByte)
    PROVE  LineFold(b, Joint(s, t)) = LineFold(LineFold(b, s), t)
<1>1. Joint(s, t) \in Seq(TextByte)
  BY ConcatProperties DEF Joint
<1>2. LineFold(b, Joint(s, t)) = Val(LineF, b, s \o t)
  BY <1>1, LineVal DEF Joint
<1>3. LineFold(b, s) \in LineState /\ LineFold(b, s) = Val(LineF, b, s)
  BY LineFacts, LineVal
<1>4. LineFold(LineFold(b, s), t) = Val(LineF, Val(LineF, b, s), t)
  BY <1>3, LineVal
<1> DEFINE D == LineState
           M == TextByte
<1>5. b \in D /\ s \in Seq(M) /\ t \in Seq(M) /\ StepsOn(D, M, LineF)
  BY LineSteps
<1> HIDE DEF D, M
<1>6. Val(LineF, b, s \o t) = Val(LineF, Val(LineF, b, s), t)
  BY <1>5, ValConcat
<1>. QED
  BY <1>2, <1>4, <1>6

ReadFold(seq) == FoldLeft(MergeRead, <<>>, seq)
ReadF == [u \in Seq(MergePair) \X Seq(TextByte) |-> MergeRead(u[1], u[2])]
ReadRule(seq, it, s) == IF s = {} THEN <<>> ELSE MergeRead(it[s \ {Max(s)}], seq[Max(s)])
ReadIt(seq) ==
    CHOOSE it : it = [s \in SUBSET DOMAIN seq |->
                         IF s = {} THEN <<>> ELSE LET x == Max(s) IN MergeRead(it[s \ {x}], seq[x])]

LEMMA ReadSteps ==
    /\ StepsOn(Seq(MergePair), Seq(TextByte), ReadF)
    /\ \A d \in Seq(MergePair), x \in Seq(TextByte) : ReadF[<<d, x>>] = MergeRead(d, x)
<1>1. ASSUME NEW u \in Seq(MergePair) \X Seq(TextByte) PROVE MergeRead(u[1], u[2]) \in Seq(MergePair)
  <2>1. u[1] \in Seq(MergePair) /\ u[2] \in Seq(TextByte)
    OBVIOUS
  <2>. QED
    BY <2>1, ReadTyped
<1>. QED
  BY <1>1 DEF ReadF, StepsOn

LEMMA ReadVal ==
    ASSUME NEW seq \in Seq(Seq(TextByte))
    PROVE  ReadFold(seq) = Val(ReadF, <<>>, seq)
<1> DEFINE N == Len(seq)
           D == Seq(MergePair)
           M == Seq(TextByte)
           g == ReadIt(seq)
<1>0. N \in Nat /\ DOMAIN seq = 1..N /\ <<>> \in D
  BY NoBytes
<1>1. StepsOn(D, M, ReadF) /\ \A d \in D, x \in M : ReadF[<<d, x>>] = MergeRead(d, x)
  BY ReadSteps
<1>2. ReadFold(seq) = g[DOMAIN seq]
  BY DEF ReadFold, FoldLeft, MapThenFoldSet, ReadIt
<1>3. g = CHOOSE f : f = [s \in SUBSET (1..N) |-> ReadRule(seq, f, s)]
  BY <1>0 DEF ReadIt, ReadRule
<1>4. PICK it : Runs(D, M, ReadF, <<>>, seq, it)
  <2> HIDE DEF D
  <2>. QED
    BY <1>0, <1>1, FoldRuns
<1> HIDE DEF D, M, N, g
<1>5. it = [s \in SUBSET (1..N) |-> ReadRule(seq, it, s)]
  <2>1. \A s \in SUBSET (1..N) : it[s] = ReadRule(seq, it, s)
    BY <1>1, <1>4, Zenon DEF Runs, ReadRule, N
  <2>2. it \in [SUBSET (1..N) -> D]
    BY <1>4, Zenon DEF Runs, N
  <2>. QED
    BY <2>1, <2>2
<1>6. g = [s \in SUBSET (1..N) |-> ReadRule(seq, g, s)]
  BY <1>3, <1>5
<1>7. Follows(D, ReadF, <<>>, seq, g)
  <2>1. \A s \in SUBSET (1..N) : g[s] = ReadRule(seq, g, s)
    BY <1>6
  <2>2. \A s \in SUBSET (1..N) : s # {} => seq[Max(s)] \in M
    BY <1>4, Zenon DEF Runs, N
  <2>3. {} \in SUBSET (1..N)
    OBVIOUS
  <2>. QED
    BY <1>1, <2>1, <2>2, <2>3, Zenon DEF Follows, ReadRule, N
<1>8. Val(ReadF, <<>>, seq) = Upto(g, N)
  BY <1>0, <1>1, <1>7, FollowedIsVal DEF M, N
<1>. QED
  BY <1>0, <1>2, <1>8 DEF Upto

LEMMA ReadFacts ==
    /\ ReadFold(<<>>) = <<>>
    /\ \A s \in Seq(Seq(TextByte)) : ReadFold(s) \in Seq(MergePair)
    /\ \A s \in Seq(Seq(TextByte)), x \in Seq(TextByte) : ReadFold(Append(s, x)) = MergeRead(ReadFold(s), x)
<1> DEFINE D == Seq(MergePair)
           M == Seq(TextByte)
<1>0. StepsOn(D, M, ReadF) /\ <<>> \in D
  BY ReadSteps, NoBytes
<1>1. \A d \in D, x \in M : Applied(ReadF, d, x) = MergeRead(d, x)
  BY ReadSteps, Zenon DEF Applied
<1>2. \A s \in Seq(M) : ReadFold(s) = Val(ReadF, <<>>, s)
  BY ReadVal
<1>e. <<>> \in Seq(M) /\ \A s \in Seq(M), x \in M : Append(s, x) \in Seq(M)
  BY EmptySeq, AppendProperties
<1> HIDE DEF D, M
<1>3. Val(ReadF, <<>>, <<>>) = <<>>
  BY <1>0, ValEmpty
<1>4. \A s \in Seq(M) : Val(ReadF, <<>>, s) \in D
  BY <1>0, ValIn
<1>5. \A s \in Seq(M), x \in M : Val(ReadF, <<>>, Append(s, x)) = Applied(ReadF, Val(ReadF, <<>>, s), x)
  BY <1>0, ValAppend
<1>6. ReadFold(<<>>) = <<>> /\ \A s \in Seq(M) : ReadFold(s) \in D
  BY <1>2, <1>3, <1>4, <1>e, Zenon
<1>7. \A s \in Seq(M), x \in M : ReadFold(Append(s, x)) = MergeRead(ReadFold(s), x)
  <2> SUFFICES ASSUME NEW s \in Seq(M), NEW x \in M PROVE ReadFold(Append(s, x)) = MergeRead(ReadFold(s), x)
    OBVIOUS
  <2>1. ReadFold(Append(s, x)) = Applied(ReadF, Val(ReadF, <<>>, s), x)
    BY <1>2, <1>5, <1>e, Zenon
  <2>2. ReadFold(s) = Val(ReadF, <<>>, s) /\ ReadFold(s) \in D
    BY <1>2, <1>4, Zenon
  <2>. QED
    BY <1>1, <2>1, <2>2, Zenon
<1>. QED
  BY <1>6, <1>7 DEF D, M

Written(ms) == FoldLeft(LAMBDA bytes_, p : bytes_ \o Line(p), <<>>, ms)
WrittenFold(seq) == Written(seq)
WrittenF == [u \in Seq(TextByte) \X MergePair |-> Joint(u[1], Line(u[2]))]
WrittenRule(seq, it, s) == IF s = {} THEN <<>> ELSE Joint(it[s \ {Max(s)}], Line(seq[Max(s)]))
WrittenIt(seq) ==
    CHOOSE it : it = [s \in SUBSET DOMAIN seq |->
                         IF s = {} THEN <<>> ELSE LET x == Max(s) IN Joint(it[s \ {x}], Line(seq[x]))]

LEMMA WrittenSteps ==
    /\ StepsOn(Seq(TextByte), MergePair, WrittenF)
    /\ \A d \in Seq(TextByte), x \in MergePair : WrittenF[<<d, x>>] = Joint(d, Line(x))
<1>1. ASSUME NEW u \in Seq(TextByte) \X MergePair PROVE Joint(u[1], Line(u[2])) \in Seq(TextByte)
  <2>1. u[1] \in Seq(TextByte) /\ u[2] \in MergePair
    OBVIOUS
  <2>. QED
    BY <2>1, WrittenTyped
<1>. QED
  BY <1>1 DEF WrittenF, StepsOn

LEMMA WrittenVal ==
    ASSUME NEW seq \in Seq(MergePair)
    PROVE  WrittenFold(seq) = Val(WrittenF, <<>>, seq)
<1> DEFINE N == Len(seq)
           D == Seq(TextByte)
           M == MergePair
           g == WrittenIt(seq)
<1>0. N \in Nat /\ DOMAIN seq = 1..N /\ <<>> \in D
  BY NoBytes
<1>1. StepsOn(D, M, WrittenF) /\ \A d \in D, x \in M : WrittenF[<<d, x>>] = Joint(d, Line(x))
  BY WrittenSteps
<1>2. WrittenFold(seq) = g[DOMAIN seq]
  BY DEF WrittenFold, Written, Joint, FoldLeft, MapThenFoldSet, WrittenIt
<1>3. g = CHOOSE f : f = [s \in SUBSET (1..N) |-> WrittenRule(seq, f, s)]
  BY <1>0 DEF WrittenIt, WrittenRule
<1>4. PICK it : Runs(D, M, WrittenF, <<>>, seq, it)
  <2> HIDE DEF D
  <2>. QED
    BY <1>0, <1>1, FoldRuns
<1> HIDE DEF D, M, N, g
<1>5. it = [s \in SUBSET (1..N) |-> WrittenRule(seq, it, s)]
  <2>1. \A s \in SUBSET (1..N) : it[s] = WrittenRule(seq, it, s)
    BY <1>1, <1>4, Zenon DEF Runs, WrittenRule, N
  <2>2. it \in [SUBSET (1..N) -> D]
    BY <1>4, Zenon DEF Runs, N
  <2>. QED
    BY <2>1, <2>2
<1>6. g = [s \in SUBSET (1..N) |-> WrittenRule(seq, g, s)]
  BY <1>3, <1>5
<1>7. Follows(D, WrittenF, <<>>, seq, g)
  <2>1. \A s \in SUBSET (1..N) : g[s] = WrittenRule(seq, g, s)
    BY <1>6
  <2>2. \A s \in SUBSET (1..N) : s # {} => seq[Max(s)] \in M
    BY <1>4, Zenon DEF Runs, N
  <2>3. {} \in SUBSET (1..N)
    OBVIOUS
  <2>. QED
    BY <1>1, <2>1, <2>2, <2>3, Zenon DEF Follows, WrittenRule, N
<1>8. Val(WrittenF, <<>>, seq) = Upto(g, N)
  BY <1>0, <1>1, <1>7, FollowedIsVal DEF M, N
<1>. QED
  BY <1>0, <1>2, <1>8 DEF Upto

LEMMA WrittenFacts ==
    /\ WrittenFold(<<>>) = <<>>
    /\ \A s \in Seq(MergePair) : WrittenFold(s) \in Seq(TextByte)
    /\ \A s \in Seq(MergePair), x \in MergePair : WrittenFold(Append(s, x)) = Joint(WrittenFold(s), Line(x))
<1> DEFINE D == Seq(TextByte)
           M == MergePair
<1>0. StepsOn(D, M, WrittenF) /\ <<>> \in D
  BY WrittenSteps, NoBytes
<1>1. \A d \in D, x \in M : Applied(WrittenF, d, x) = Joint(d, Line(x))
  BY WrittenSteps, Zenon DEF Applied
<1>2. \A s \in Seq(M) : WrittenFold(s) = Val(WrittenF, <<>>, s)
  BY WrittenVal
<1>e. <<>> \in Seq(M) /\ \A s \in Seq(M), x \in M : Append(s, x) \in Seq(M)
  BY EmptySeq, AppendProperties
<1> HIDE DEF D, M
<1>3. Val(WrittenF, <<>>, <<>>) = <<>>
  BY <1>0, ValEmpty
<1>4. \A s \in Seq(M) : Val(WrittenF, <<>>, s) \in D
  BY <1>0, ValIn
<1>5. \A s \in Seq(M), x \in M : Val(WrittenF, <<>>, Append(s, x)) = Applied(WrittenF, Val(WrittenF, <<>>, s), x)
  BY <1>0, ValAppend
<1>6. WrittenFold(<<>>) = <<>> /\ \A s \in Seq(M) : WrittenFold(s) \in D
  BY <1>2, <1>3, <1>4, <1>e, Zenon
<1>7. \A s \in Seq(M), x \in M : WrittenFold(Append(s, x)) = Joint(WrittenFold(s), Line(x))
  <2> SUFFICES ASSUME NEW s \in Seq(M), NEW x \in M PROVE WrittenFold(Append(s, x)) = Joint(WrittenFold(s), Line(x))
    OBVIOUS
  <2>1. WrittenFold(Append(s, x)) = Applied(WrittenF, Val(WrittenF, <<>>, s), x)
    BY <1>2, <1>5, <1>e, Zenon
  <2>2. WrittenFold(s) = Val(WrittenF, <<>>, s) /\ WrittenFold(s) \in D
    BY <1>2, <1>4, Zenon
  <2>. QED
    BY <1>1, <2>1, <2>2, Zenon
<1>. QED
  BY <1>6, <1>7 DEF D, M

EscapeFold(seq) == json_escape(seq)
EscapeF == [u \in Seq(TextByte) \X TextByte |-> Joint(u[1], Escaped(u[2]))]
EscapeRule(seq, it, s) == IF s = {} THEN <<>> ELSE Joint(it[s \ {Max(s)}], Escaped(seq[Max(s)]))
EscapeIt(seq) ==
    CHOOSE it : it = [s \in SUBSET DOMAIN seq |->
                         IF s = {} THEN <<>> ELSE LET x == Max(s) IN Joint(it[s \ {x}], Escaped(seq[x]))]

LEMMA EscapeSteps ==
    /\ StepsOn(Seq(TextByte), TextByte, EscapeF)
    /\ \A d \in Seq(TextByte), x \in TextByte : EscapeF[<<d, x>>] = Joint(d, Escaped(x))
<1>1. ASSUME NEW u \in Seq(TextByte) \X TextByte PROVE Joint(u[1], Escaped(u[2])) \in Seq(TextByte)
  <2>1. u[1] \in Seq(TextByte) /\ u[2] \in TextByte
    OBVIOUS
  <2>. QED
    BY <2>1, EscapeTyped
<1>. QED
  BY <1>1 DEF EscapeF, StepsOn

LEMMA EscapeVal ==
    ASSUME NEW seq \in Seq(TextByte)
    PROVE  EscapeFold(seq) = Val(EscapeF, <<>>, seq)
<1> DEFINE N == Len(seq)
           D == Seq(TextByte)
           M == TextByte
           g == EscapeIt(seq)
<1>0. N \in Nat /\ DOMAIN seq = 1..N /\ <<>> \in D
  BY NoBytes
<1>1. StepsOn(D, M, EscapeF) /\ \A d \in D, x \in M : EscapeF[<<d, x>>] = Joint(d, Escaped(x))
  BY EscapeSteps
<1>2. EscapeFold(seq) = g[DOMAIN seq]
  BY DEF EscapeFold, json_escape, Joint, FoldLeft, MapThenFoldSet, EscapeIt
<1>3. g = CHOOSE f : f = [s \in SUBSET (1..N) |-> EscapeRule(seq, f, s)]
  BY <1>0 DEF EscapeIt, EscapeRule
<1>4. PICK it : Runs(D, M, EscapeF, <<>>, seq, it)
  <2> HIDE DEF D
  <2>. QED
    BY <1>0, <1>1, FoldRuns
<1> HIDE DEF D, M, N, g
<1>5. it = [s \in SUBSET (1..N) |-> EscapeRule(seq, it, s)]
  <2>1. \A s \in SUBSET (1..N) : it[s] = EscapeRule(seq, it, s)
    BY <1>1, <1>4, Zenon DEF Runs, EscapeRule, N
  <2>2. it \in [SUBSET (1..N) -> D]
    BY <1>4, Zenon DEF Runs, N
  <2>. QED
    BY <2>1, <2>2
<1>6. g = [s \in SUBSET (1..N) |-> EscapeRule(seq, g, s)]
  BY <1>3, <1>5
<1>7. Follows(D, EscapeF, <<>>, seq, g)
  <2>1. \A s \in SUBSET (1..N) : g[s] = EscapeRule(seq, g, s)
    BY <1>6
  <2>2. \A s \in SUBSET (1..N) : s # {} => seq[Max(s)] \in M
    BY <1>4, Zenon DEF Runs, N
  <2>3. {} \in SUBSET (1..N)
    OBVIOUS
  <2>. QED
    BY <1>1, <2>1, <2>2, <2>3, Zenon DEF Follows, EscapeRule, N
<1>8. Val(EscapeF, <<>>, seq) = Upto(g, N)
  BY <1>0, <1>1, <1>7, FollowedIsVal DEF M, N
<1>. QED
  BY <1>0, <1>2, <1>8 DEF Upto

LEMMA EscapeFacts ==
    /\ EscapeFold(<<>>) = <<>>
    /\ \A s \in Seq(TextByte) : EscapeFold(s) \in Seq(TextByte)
    /\ \A s \in Seq(TextByte), x \in TextByte : EscapeFold(Append(s, x)) = Joint(EscapeFold(s), Escaped(x))
<1> DEFINE D == Seq(TextByte)
           M == TextByte
<1>0. StepsOn(D, M, EscapeF) /\ <<>> \in D
  BY EscapeSteps, NoBytes
<1>1. \A d \in D, x \in M : Applied(EscapeF, d, x) = Joint(d, Escaped(x))
  BY EscapeSteps, Zenon DEF Applied
<1>2. \A s \in Seq(M) : EscapeFold(s) = Val(EscapeF, <<>>, s)
  BY EscapeVal
<1>e. <<>> \in Seq(M) /\ \A s \in Seq(M), x \in M : Append(s, x) \in Seq(M)
  BY EmptySeq, AppendProperties
<1> HIDE DEF D, M
<1>3. Val(EscapeF, <<>>, <<>>) = <<>>
  BY <1>0, ValEmpty
<1>4. \A s \in Seq(M) : Val(EscapeF, <<>>, s) \in D
  BY <1>0, ValIn
<1>5. \A s \in Seq(M), x \in M : Val(EscapeF, <<>>, Append(s, x)) = Applied(EscapeF, Val(EscapeF, <<>>, s), x)
  BY <1>0, ValAppend
<1>6. EscapeFold(<<>>) = <<>> /\ \A s \in Seq(M) : EscapeFold(s) \in D
  BY <1>2, <1>3, <1>4, <1>e, Zenon
<1>7. \A s \in Seq(M), x \in M : EscapeFold(Append(s, x)) = Joint(EscapeFold(s), Escaped(x))
  <2> SUFFICES ASSUME NEW s \in Seq(M), NEW x \in M PROVE EscapeFold(Append(s, x)) = Joint(EscapeFold(s), Escaped(x))
    OBVIOUS
  <2>1. EscapeFold(Append(s, x)) = Applied(EscapeF, Val(EscapeF, <<>>, s), x)
    BY <1>2, <1>5, <1>e, Zenon
  <2>2. EscapeFold(s) = Val(EscapeF, <<>>, s) /\ EscapeFold(s) \in D
    BY <1>2, <1>4, Zenon
  <2>. QED
    BY <1>1, <2>1, <2>2, Zenon
<1>. QED
  BY <1>6, <1>7 DEF D, M

UnescapeFold(b, seq) == FoldLeft(UnescapeRead, b, seq)
UnescapeF == [u \in UnescapeState \X TextByte |-> UnescapeRead(u[1], u[2])]
UnescapeRule(b, seq, it, s) == IF s = {} THEN b ELSE UnescapeRead(it[s \ {Max(s)}], seq[Max(s)])
UnescapeIt(b, seq) ==
    CHOOSE it : it = [s \in SUBSET DOMAIN seq |->
                         IF s = {} THEN b ELSE LET x == Max(s) IN UnescapeRead(it[s \ {x}], seq[x])]

LEMMA UnescapeSteps ==
    /\ StepsOn(UnescapeState, TextByte, UnescapeF)
    /\ \A d \in UnescapeState, x \in TextByte : UnescapeF[<<d, x>>] = UnescapeRead(d, x)
<1>1. ASSUME NEW u \in UnescapeState \X TextByte PROVE UnescapeRead(u[1], u[2]) \in UnescapeState
  <2>1. u[1] \in UnescapeState /\ u[2] \in TextByte
    OBVIOUS
  <2>. QED
    BY <2>1, UnescapeTyped
<1>. QED
  BY <1>1 DEF UnescapeF, StepsOn

LEMMA UnescapeVal ==
    ASSUME NEW b \in UnescapeState, NEW seq \in Seq(TextByte)
    PROVE  UnescapeFold(b, seq) = Val(UnescapeF, b, seq)
<1> DEFINE N == Len(seq)
           D == UnescapeState
           M == TextByte
           g == UnescapeIt(b, seq)
<1>0. N \in Nat /\ DOMAIN seq = 1..N /\ b \in D
  OBVIOUS
<1>1. StepsOn(D, M, UnescapeF) /\ \A d \in D, x \in M : UnescapeF[<<d, x>>] = UnescapeRead(d, x)
  BY UnescapeSteps
<1>2. UnescapeFold(b, seq) = g[DOMAIN seq]
  BY DEF UnescapeFold, FoldLeft, MapThenFoldSet, UnescapeIt
<1>3. g = CHOOSE f : f = [s \in SUBSET (1..N) |-> UnescapeRule(b, seq, f, s)]
  BY <1>0 DEF UnescapeIt, UnescapeRule
<1>4. PICK it : Runs(D, M, UnescapeF, b, seq, it)
  <2> HIDE DEF D
  <2>. QED
    BY <1>0, <1>1, FoldRuns
<1> HIDE DEF D, M, N, g
<1>5. it = [s \in SUBSET (1..N) |-> UnescapeRule(b, seq, it, s)]
  <2>1. \A s \in SUBSET (1..N) : it[s] = UnescapeRule(b, seq, it, s)
    BY <1>1, <1>4, Zenon DEF Runs, UnescapeRule, N
  <2>2. it \in [SUBSET (1..N) -> D]
    BY <1>4, Zenon DEF Runs, N
  <2>. QED
    BY <2>1, <2>2
<1>6. g = [s \in SUBSET (1..N) |-> UnescapeRule(b, seq, g, s)]
  BY <1>3, <1>5
<1>7. Follows(D, UnescapeF, b, seq, g)
  <2>1. \A s \in SUBSET (1..N) : g[s] = UnescapeRule(b, seq, g, s)
    BY <1>6
  <2>2. \A s \in SUBSET (1..N) : s # {} => seq[Max(s)] \in M
    BY <1>4, Zenon DEF Runs, N
  <2>3. {} \in SUBSET (1..N)
    OBVIOUS
  <2>. QED
    BY <1>1, <2>1, <2>2, <2>3, Zenon DEF Follows, UnescapeRule, N
<1>8. Val(UnescapeF, b, seq) = Upto(g, N)
  BY <1>0, <1>1, <1>7, FollowedIsVal DEF M, N
<1>. QED
  BY <1>0, <1>2, <1>8 DEF Upto

LEMMA UnescapeFacts ==
    ASSUME NEW b \in UnescapeState
    PROVE  /\ UnescapeFold(b, <<>>) = b
           /\ \A s \in Seq(TextByte) : UnescapeFold(b, s) \in UnescapeState
           /\ \A s \in Seq(TextByte), x \in TextByte : UnescapeFold(b, Append(s, x)) = UnescapeRead(UnescapeFold(b, s), x)
<1> DEFINE D == UnescapeState
           M == TextByte
<1>0. StepsOn(D, M, UnescapeF) /\ b \in D
  BY UnescapeSteps
<1>1. \A d \in D, x \in M : Applied(UnescapeF, d, x) = UnescapeRead(d, x)
  BY UnescapeSteps, Zenon DEF Applied
<1>2. \A s \in Seq(M) : UnescapeFold(b, s) = Val(UnescapeF, b, s)
  BY UnescapeVal
<1>e. <<>> \in Seq(M) /\ \A s \in Seq(M), x \in M : Append(s, x) \in Seq(M)
  BY EmptySeq, AppendProperties
<1> HIDE DEF D, M
<1>3. Val(UnescapeF, b, <<>>) = b
  BY <1>0, ValEmpty
<1>4. \A s \in Seq(M) : Val(UnescapeF, b, s) \in D
  BY <1>0, ValIn
<1>5. \A s \in Seq(M), x \in M : Val(UnescapeF, b, Append(s, x)) = Applied(UnescapeF, Val(UnescapeF, b, s), x)
  BY <1>0, ValAppend
<1>6. UnescapeFold(b, <<>>) = b /\ \A s \in Seq(M) : UnescapeFold(b, s) \in D
  BY <1>2, <1>3, <1>4, <1>e, Zenon
<1>7. \A s \in Seq(M), x \in M : UnescapeFold(b, Append(s, x)) = UnescapeRead(UnescapeFold(b, s), x)
  <2> SUFFICES ASSUME NEW s \in Seq(M), NEW x \in M PROVE UnescapeFold(b, Append(s, x)) = UnescapeRead(UnescapeFold(b, s), x)
    OBVIOUS
  <2>1. UnescapeFold(b, Append(s, x)) = Applied(UnescapeF, Val(UnescapeF, b, s), x)
    BY <1>2, <1>5, <1>e, Zenon
  <2>2. UnescapeFold(b, s) = Val(UnescapeF, b, s) /\ UnescapeFold(b, s) \in D
    BY <1>2, <1>4, Zenon
  <2>. QED
    BY <1>1, <2>1, <2>2, Zenon
<1>. QED
  BY <1>6, <1>7 DEF D, M

LEMMA UnescapeConcat ==
    ASSUME NEW b \in UnescapeState, NEW s \in Seq(TextByte), NEW t \in Seq(TextByte)
    PROVE  UnescapeFold(b, Joint(s, t)) = UnescapeFold(UnescapeFold(b, s), t)
<1>1. Joint(s, t) \in Seq(TextByte)
  BY ConcatProperties DEF Joint
<1>2. UnescapeFold(b, Joint(s, t)) = Val(UnescapeF, b, s \o t)
  BY <1>1, UnescapeVal DEF Joint
<1>3. UnescapeFold(b, s) \in UnescapeState /\ UnescapeFold(b, s) = Val(UnescapeF, b, s)
  BY UnescapeFacts, UnescapeVal
<1>4. UnescapeFold(UnescapeFold(b, s), t) = Val(UnescapeF, Val(UnescapeF, b, s), t)
  BY <1>3, UnescapeVal
<1> DEFINE D == UnescapeState
           M == TextByte
<1>5. b \in D /\ s \in Seq(M) /\ t \in Seq(M) /\ StepsOn(D, M, UnescapeF)
  BY UnescapeSteps
<1> HIDE DEF D, M
<1>6. Val(UnescapeF, b, s \o t) = Val(UnescapeF, Val(UnescapeF, b, s), t)
  BY <1>5, ValConcat
<1>. QED
  BY <1>2, <1>4, <1>6

KeyFold(b, seq) == FoldLeft(KeyRead, b, seq)
KeyF == [u \in KeyState \X TextByte |-> KeyRead(u[1], u[2])]
KeyRule(b, seq, it, s) == IF s = {} THEN b ELSE KeyRead(it[s \ {Max(s)}], seq[Max(s)])
KeyIt(b, seq) ==
    CHOOSE it : it = [s \in SUBSET DOMAIN seq |->
                         IF s = {} THEN b ELSE LET x == Max(s) IN KeyRead(it[s \ {x}], seq[x])]

LEMMA KeySteps ==
    /\ StepsOn(KeyState, TextByte, KeyF)
    /\ \A d \in KeyState, x \in TextByte : KeyF[<<d, x>>] = KeyRead(d, x)
<1>1. ASSUME NEW u \in KeyState \X TextByte PROVE KeyRead(u[1], u[2]) \in KeyState
  <2>1. u[1] \in KeyState /\ u[2] \in TextByte
    OBVIOUS
  <2>. QED
    BY <2>1, KeyTyped
<1>. QED
  BY <1>1 DEF KeyF, StepsOn

LEMMA KeyVal ==
    ASSUME NEW b \in KeyState, NEW seq \in Seq(TextByte)
    PROVE  KeyFold(b, seq) = Val(KeyF, b, seq)
<1> DEFINE N == Len(seq)
           D == KeyState
           M == TextByte
           g == KeyIt(b, seq)
<1>0. N \in Nat /\ DOMAIN seq = 1..N /\ b \in D
  OBVIOUS
<1>1. StepsOn(D, M, KeyF) /\ \A d \in D, x \in M : KeyF[<<d, x>>] = KeyRead(d, x)
  BY KeySteps
<1>2. KeyFold(b, seq) = g[DOMAIN seq]
  BY DEF KeyFold, FoldLeft, MapThenFoldSet, KeyIt
<1>3. g = CHOOSE f : f = [s \in SUBSET (1..N) |-> KeyRule(b, seq, f, s)]
  BY <1>0 DEF KeyIt, KeyRule
<1>4. PICK it : Runs(D, M, KeyF, b, seq, it)
  <2> HIDE DEF D
  <2>. QED
    BY <1>0, <1>1, FoldRuns
<1> HIDE DEF D, M, N, g
<1>5. it = [s \in SUBSET (1..N) |-> KeyRule(b, seq, it, s)]
  <2>1. \A s \in SUBSET (1..N) : it[s] = KeyRule(b, seq, it, s)
    BY <1>1, <1>4, Zenon DEF Runs, KeyRule, N
  <2>2. it \in [SUBSET (1..N) -> D]
    BY <1>4, Zenon DEF Runs, N
  <2>. QED
    BY <2>1, <2>2
<1>6. g = [s \in SUBSET (1..N) |-> KeyRule(b, seq, g, s)]
  BY <1>3, <1>5
<1>7. Follows(D, KeyF, b, seq, g)
  <2>1. \A s \in SUBSET (1..N) : g[s] = KeyRule(b, seq, g, s)
    BY <1>6
  <2>2. \A s \in SUBSET (1..N) : s # {} => seq[Max(s)] \in M
    BY <1>4, Zenon DEF Runs, N
  <2>3. {} \in SUBSET (1..N)
    OBVIOUS
  <2>. QED
    BY <1>1, <2>1, <2>2, <2>3, Zenon DEF Follows, KeyRule, N
<1>8. Val(KeyF, b, seq) = Upto(g, N)
  BY <1>0, <1>1, <1>7, FollowedIsVal DEF M, N
<1>. QED
  BY <1>0, <1>2, <1>8 DEF Upto

LEMMA KeyFacts ==
    ASSUME NEW b \in KeyState
    PROVE  /\ KeyFold(b, <<>>) = b
           /\ \A s \in Seq(TextByte) : KeyFold(b, s) \in KeyState
           /\ \A s \in Seq(TextByte), x \in TextByte : KeyFold(b, Append(s, x)) = KeyRead(KeyFold(b, s), x)
<1> DEFINE D == KeyState
           M == TextByte
<1>0. StepsOn(D, M, KeyF) /\ b \in D
  BY KeySteps
<1>1. \A d \in D, x \in M : Applied(KeyF, d, x) = KeyRead(d, x)
  BY KeySteps, Zenon DEF Applied
<1>2. \A s \in Seq(M) : KeyFold(b, s) = Val(KeyF, b, s)
  BY KeyVal
<1>e. <<>> \in Seq(M) /\ \A s \in Seq(M), x \in M : Append(s, x) \in Seq(M)
  BY EmptySeq, AppendProperties
<1> HIDE DEF D, M
<1>3. Val(KeyF, b, <<>>) = b
  BY <1>0, ValEmpty
<1>4. \A s \in Seq(M) : Val(KeyF, b, s) \in D
  BY <1>0, ValIn
<1>5. \A s \in Seq(M), x \in M : Val(KeyF, b, Append(s, x)) = Applied(KeyF, Val(KeyF, b, s), x)
  BY <1>0, ValAppend
<1>6. KeyFold(b, <<>>) = b /\ \A s \in Seq(M) : KeyFold(b, s) \in D
  BY <1>2, <1>3, <1>4, <1>e, Zenon
<1>7. \A s \in Seq(M), x \in M : KeyFold(b, Append(s, x)) = KeyRead(KeyFold(b, s), x)
  <2> SUFFICES ASSUME NEW s \in Seq(M), NEW x \in M PROVE KeyFold(b, Append(s, x)) = KeyRead(KeyFold(b, s), x)
    OBVIOUS
  <2>1. KeyFold(b, Append(s, x)) = Applied(KeyF, Val(KeyF, b, s), x)
    BY <1>2, <1>5, <1>e, Zenon
  <2>2. KeyFold(b, s) = Val(KeyF, b, s) /\ KeyFold(b, s) \in D
    BY <1>2, <1>4, Zenon
  <2>. QED
    BY <1>1, <2>1, <2>2, Zenon
<1>. QED
  BY <1>6, <1>7 DEF D, M

LEMMA KeyConcat ==
    ASSUME NEW b \in KeyState, NEW s \in Seq(TextByte), NEW t \in Seq(TextByte)
    PROVE  KeyFold(b, Joint(s, t)) = KeyFold(KeyFold(b, s), t)
<1>1. Joint(s, t) \in Seq(TextByte)
  BY ConcatProperties DEF Joint
<1>2. KeyFold(b, Joint(s, t)) = Val(KeyF, b, s \o t)
  BY <1>1, KeyVal DEF Joint
<1>3. KeyFold(b, s) \in KeyState /\ KeyFold(b, s) = Val(KeyF, b, s)
  BY KeyFacts, KeyVal
<1>4. KeyFold(KeyFold(b, s), t) = Val(KeyF, Val(KeyF, b, s), t)
  BY <1>3, KeyVal
<1> DEFINE D == KeyState
           M == TextByte
<1>5. b \in D /\ s \in Seq(M) /\ t \in Seq(M) /\ StepsOn(D, M, KeyF)
  BY KeySteps
<1> HIDE DEF D, M
<1>6. Val(KeyF, b, s \o t) = Val(KeyF, Val(KeyF, b, s), t)
  BY <1>5, ValConcat
<1>. QED
  BY <1>2, <1>4, <1>6

LearntFold(b, seq) == FoldLeft(Learnt, b, seq)
LearntF == [u \in TokState \X MergePair |-> Learnt(u[1], u[2])]
LearntRule(b, seq, it, s) == IF s = {} THEN b ELSE Learnt(it[s \ {Max(s)}], seq[Max(s)])
LearntIt(b, seq) ==
    CHOOSE it : it = [s \in SUBSET DOMAIN seq |->
                         IF s = {} THEN b ELSE LET x == Max(s) IN Learnt(it[s \ {x}], seq[x])]

LEMMA LearntSteps ==
    /\ StepsOn(TokState, MergePair, LearntF)
    /\ \A d \in TokState, x \in MergePair : LearntF[<<d, x>>] = Learnt(d, x)
<1>1. ASSUME NEW u \in TokState \X MergePair PROVE Learnt(u[1], u[2]) \in TokState
  <2>1. u[1] \in TokState /\ u[2] \in MergePair
    OBVIOUS
  <2>. QED
    BY <2>1, LearntTyped
<1>. QED
  BY <1>1 DEF LearntF, StepsOn

LEMMA LearntVal ==
    ASSUME NEW b \in TokState, NEW seq \in Seq(MergePair)
    PROVE  LearntFold(b, seq) = Val(LearntF, b, seq)
<1> DEFINE N == Len(seq)
           D == TokState
           M == MergePair
           g == LearntIt(b, seq)
<1>0. N \in Nat /\ DOMAIN seq = 1..N /\ b \in D
  OBVIOUS
<1>1. StepsOn(D, M, LearntF) /\ \A d \in D, x \in M : LearntF[<<d, x>>] = Learnt(d, x)
  BY LearntSteps
<1>2. LearntFold(b, seq) = g[DOMAIN seq]
  BY DEF LearntFold, FoldLeft, MapThenFoldSet, LearntIt
<1>3. g = CHOOSE f : f = [s \in SUBSET (1..N) |-> LearntRule(b, seq, f, s)]
  BY <1>0 DEF LearntIt, LearntRule
<1>4. PICK it : Runs(D, M, LearntF, b, seq, it)
  <2> HIDE DEF D
  <2>. QED
    BY <1>0, <1>1, FoldRuns
<1> HIDE DEF D, M, N, g
<1>5. it = [s \in SUBSET (1..N) |-> LearntRule(b, seq, it, s)]
  <2>1. \A s \in SUBSET (1..N) : it[s] = LearntRule(b, seq, it, s)
    BY <1>1, <1>4, Zenon DEF Runs, LearntRule, N
  <2>2. it \in [SUBSET (1..N) -> D]
    BY <1>4, Zenon DEF Runs, N
  <2>. QED
    BY <2>1, <2>2
<1>6. g = [s \in SUBSET (1..N) |-> LearntRule(b, seq, g, s)]
  BY <1>3, <1>5
<1>7. Follows(D, LearntF, b, seq, g)
  <2>1. \A s \in SUBSET (1..N) : g[s] = LearntRule(b, seq, g, s)
    BY <1>6
  <2>2. \A s \in SUBSET (1..N) : s # {} => seq[Max(s)] \in M
    BY <1>4, Zenon DEF Runs, N
  <2>3. {} \in SUBSET (1..N)
    OBVIOUS
  <2>. QED
    BY <1>1, <2>1, <2>2, <2>3, Zenon DEF Follows, LearntRule, N
<1>8. Val(LearntF, b, seq) = Upto(g, N)
  BY <1>0, <1>1, <1>7, FollowedIsVal DEF M, N
<1>. QED
  BY <1>0, <1>2, <1>8 DEF Upto

LEMMA LearntFacts ==
    ASSUME NEW b \in TokState
    PROVE  /\ LearntFold(b, <<>>) = b
           /\ \A s \in Seq(MergePair) : LearntFold(b, s) \in TokState
           /\ \A s \in Seq(MergePair), x \in MergePair : LearntFold(b, Append(s, x)) = Learnt(LearntFold(b, s), x)
<1> DEFINE D == TokState
           M == MergePair
<1>0. StepsOn(D, M, LearntF) /\ b \in D
  BY LearntSteps
<1>1. \A d \in D, x \in M : Applied(LearntF, d, x) = Learnt(d, x)
  BY LearntSteps, Zenon DEF Applied
<1>2. \A s \in Seq(M) : LearntFold(b, s) = Val(LearntF, b, s)
  BY LearntVal
<1>e. <<>> \in Seq(M) /\ \A s \in Seq(M), x \in M : Append(s, x) \in Seq(M)
  BY EmptySeq, AppendProperties
<1> HIDE DEF D, M
<1>3. Val(LearntF, b, <<>>) = b
  BY <1>0, ValEmpty
<1>4. \A s \in Seq(M) : Val(LearntF, b, s) \in D
  BY <1>0, ValIn
<1>5. \A s \in Seq(M), x \in M : Val(LearntF, b, Append(s, x)) = Applied(LearntF, Val(LearntF, b, s), x)
  BY <1>0, ValAppend
<1>6. LearntFold(b, <<>>) = b /\ \A s \in Seq(M) : LearntFold(b, s) \in D
  BY <1>2, <1>3, <1>4, <1>e, Zenon
<1>7. \A s \in Seq(M), x \in M : LearntFold(b, Append(s, x)) = Learnt(LearntFold(b, s), x)
  <2> SUFFICES ASSUME NEW s \in Seq(M), NEW x \in M PROVE LearntFold(b, Append(s, x)) = Learnt(LearntFold(b, s), x)
    OBVIOUS
  <2>1. LearntFold(b, Append(s, x)) = Applied(LearntF, Val(LearntF, b, s), x)
    BY <1>2, <1>5, <1>e, Zenon
  <2>2. LearntFold(b, s) = Val(LearntF, b, s) /\ LearntFold(b, s) \in D
    BY <1>2, <1>4, Zenon
  <2>. QED
    BY <1>1, <2>1, <2>2, Zenon
<1>. QED
  BY <1>6, <1>7 DEF D, M

AddedFold(b, seq) == FoldLeft(Added, b, seq)
AddedF == [u \in TokState \X MergePair |-> Added(u[1], u[2])]
AddedRule(b, seq, it, s) == IF s = {} THEN b ELSE Added(it[s \ {Max(s)}], seq[Max(s)])
AddedIt(b, seq) ==
    CHOOSE it : it = [s \in SUBSET DOMAIN seq |->
                         IF s = {} THEN b ELSE LET x == Max(s) IN Added(it[s \ {x}], seq[x])]

LEMMA AddedSteps ==
    /\ StepsOn(TokState, MergePair, AddedF)
    /\ \A d \in TokState, x \in MergePair : AddedF[<<d, x>>] = Added(d, x)
<1>1. ASSUME NEW u \in TokState \X MergePair PROVE Added(u[1], u[2]) \in TokState
  <2>1. u[1] \in TokState /\ u[2] \in MergePair
    OBVIOUS
  <2>. QED
    BY <2>1, AddedTyped
<1>. QED
  BY <1>1 DEF AddedF, StepsOn

LEMMA AddedVal ==
    ASSUME NEW b \in TokState, NEW seq \in Seq(MergePair)
    PROVE  AddedFold(b, seq) = Val(AddedF, b, seq)
<1> DEFINE N == Len(seq)
           D == TokState
           M == MergePair
           g == AddedIt(b, seq)
<1>0. N \in Nat /\ DOMAIN seq = 1..N /\ b \in D
  OBVIOUS
<1>1. StepsOn(D, M, AddedF) /\ \A d \in D, x \in M : AddedF[<<d, x>>] = Added(d, x)
  BY AddedSteps
<1>2. AddedFold(b, seq) = g[DOMAIN seq]
  BY DEF AddedFold, FoldLeft, MapThenFoldSet, AddedIt
<1>3. g = CHOOSE f : f = [s \in SUBSET (1..N) |-> AddedRule(b, seq, f, s)]
  BY <1>0 DEF AddedIt, AddedRule
<1>4. PICK it : Runs(D, M, AddedF, b, seq, it)
  <2> HIDE DEF D
  <2>. QED
    BY <1>0, <1>1, FoldRuns
<1> HIDE DEF D, M, N, g
<1>5. it = [s \in SUBSET (1..N) |-> AddedRule(b, seq, it, s)]
  <2>1. \A s \in SUBSET (1..N) : it[s] = AddedRule(b, seq, it, s)
    BY <1>1, <1>4, Zenon DEF Runs, AddedRule, N
  <2>2. it \in [SUBSET (1..N) -> D]
    BY <1>4, Zenon DEF Runs, N
  <2>. QED
    BY <2>1, <2>2
<1>6. g = [s \in SUBSET (1..N) |-> AddedRule(b, seq, g, s)]
  BY <1>3, <1>5
<1>7. Follows(D, AddedF, b, seq, g)
  <2>1. \A s \in SUBSET (1..N) : g[s] = AddedRule(b, seq, g, s)
    BY <1>6
  <2>2. \A s \in SUBSET (1..N) : s # {} => seq[Max(s)] \in M
    BY <1>4, Zenon DEF Runs, N
  <2>3. {} \in SUBSET (1..N)
    OBVIOUS
  <2>. QED
    BY <1>1, <2>1, <2>2, <2>3, Zenon DEF Follows, AddedRule, N
<1>8. Val(AddedF, b, seq) = Upto(g, N)
  BY <1>0, <1>1, <1>7, FollowedIsVal DEF M, N
<1>. QED
  BY <1>0, <1>2, <1>8 DEF Upto

LEMMA AddedFacts ==
    ASSUME NEW b \in TokState
    PROVE  /\ AddedFold(b, <<>>) = b
           /\ \A s \in Seq(MergePair) : AddedFold(b, s) \in TokState
           /\ \A s \in Seq(MergePair), x \in MergePair : AddedFold(b, Append(s, x)) = Added(AddedFold(b, s), x)
<1> DEFINE D == TokState
           M == MergePair
<1>0. StepsOn(D, M, AddedF) /\ b \in D
  BY AddedSteps
<1>1. \A d \in D, x \in M : Applied(AddedF, d, x) = Added(d, x)
  BY AddedSteps, Zenon DEF Applied
<1>2. \A s \in Seq(M) : AddedFold(b, s) = Val(AddedF, b, s)
  BY AddedVal
<1>e. <<>> \in Seq(M) /\ \A s \in Seq(M), x \in M : Append(s, x) \in Seq(M)
  BY EmptySeq, AppendProperties
<1> HIDE DEF D, M
<1>3. Val(AddedF, b, <<>>) = b
  BY <1>0, ValEmpty
<1>4. \A s \in Seq(M) : Val(AddedF, b, s) \in D
  BY <1>0, ValIn
<1>5. \A s \in Seq(M), x \in M : Val(AddedF, b, Append(s, x)) = Applied(AddedF, Val(AddedF, b, s), x)
  BY <1>0, ValAppend
<1>6. AddedFold(b, <<>>) = b /\ \A s \in Seq(M) : AddedFold(b, s) \in D
  BY <1>2, <1>3, <1>4, <1>e, Zenon
<1>7. \A s \in Seq(M), x \in M : AddedFold(b, Append(s, x)) = Added(AddedFold(b, s), x)
  <2> SUFFICES ASSUME NEW s \in Seq(M), NEW x \in M PROVE AddedFold(b, Append(s, x)) = Added(AddedFold(b, s), x)
    OBVIOUS
  <2>1. AddedFold(b, Append(s, x)) = Applied(AddedF, Val(AddedF, b, s), x)
    BY <1>2, <1>5, <1>e, Zenon
  <2>2. AddedFold(b, s) = Val(AddedF, b, s) /\ AddedFold(b, s) \in D
    BY <1>2, <1>4, Zenon
  <2>. QED
    BY <1>1, <2>1, <2>2, Zenon
<1>. QED
  BY <1>6, <1>7 DEF D, M

-------------------------------------------------------------------------------
(* What save_hf writes of a token load_hf reads back, whatever its bytes.      *)
KeyAt(s, closed) == [s |-> s, escaped |-> FALSE, closed |-> closed]
TextAt(s) == [s |-> s, escaped |-> FALSE]

LEMMA KeyStates ==
    ASSUME NEW s \in Seq(TextByte), NEW c \in TextByte
    PROVE  /\ KeyAt(s, FALSE) \in KeyState
           /\ c \notin {Quote, Backslash} => KeyRead(KeyAt(s, FALSE), c) = KeyAt(Append(s, c), FALSE)
           /\ KeyRead(KeyRead(KeyAt(s, FALSE), Backslash), c) = KeyAt(Append(Append(s, Backslash), c), FALSE)
           /\ KeyRead(KeyAt(s, FALSE), Quote) = KeyAt(s, TRUE)
<1> DEFINE open == [s |-> s, escaped |-> FALSE, closed |-> FALSE]
           taken == [s |-> Append(s, Backslash), escaped |-> TRUE, closed |-> FALSE]
<1>0. Backslash # Quote
  BY TokenizerAssumption
<1>1. KeyAt(s, FALSE) = open /\ open \in KeyState
  BY DEF KeyAt, KeyState
<1>2. ASSUME c \notin {Quote, Backslash} PROVE KeyRead(open, c) = KeyAt(Append(s, c), FALSE)
  <2>1. KeyRead(open, c) = [open EXCEPT !.s = Append(@, c), !.escaped = (c = Backslash)]
    BY <1>2 DEF KeyRead
  <2>. QED
    BY <1>2, <2>1 DEF KeyAt
<1>3. KeyRead(open, Backslash) = taken
  BY <1>0 DEF KeyRead
<1>4. KeyRead(taken, c) = KeyAt(Append(Append(s, Backslash), c), FALSE)
  BY DEF KeyRead, KeyAt
<1>5. KeyRead(open, Quote) = KeyAt(s, TRUE)
  BY DEF KeyRead, KeyAt
<1> HIDE DEF open, taken
<1>. QED
  BY <1>1, <1>2, <1>3, <1>4, <1>5

LEMMA TextStates ==
    ASSUME NEW s \in Seq(TextByte), NEW c \in TextByte
    PROVE  /\ TextAt(s) \in UnescapeState
           /\ c # Backslash => UnescapeRead(TextAt(s), c) = TextAt(Append(s, c))
           /\ UnescapeRead(UnescapeRead(TextAt(s), Backslash), c) = TextAt(Joint(s, Unescaped(c)))
<1> DEFINE open == [s |-> s, escaped |-> FALSE]
           taken == [s |-> s, escaped |-> TRUE]
<1>1. TextAt(s) = open /\ open \in UnescapeState
  BY DEF TextAt, UnescapeState
<1>2. c # Backslash => UnescapeRead(open, c) = TextAt(Append(s, c))
  BY DEF UnescapeRead, TextAt
<1>3. UnescapeRead(open, Backslash) = taken
  BY DEF UnescapeRead
<1>4. UnescapeRead(taken, c) = TextAt(Joint(s, Unescaped(c)))
  BY DEF UnescapeRead, TextAt, Joint
<1> HIDE DEF open, taken
<1>. QED
  BY <1>1, <1>2, <1>3, <1>4

\* What an escape of c is: itself, or a backslash and the byte that stands for c.
Pair(x, y) == <<x, y>>
Single(x) == <<x>>
LEMMA EscapeForms ==
    ASSUME NEW c \in TextByte
    PROVE  \/ c \notin {Quote, Backslash} /\ Escaped(c) = Single(c)
           \/ \E e \in TextByte : Escaped(c) = Pair(Backslash, e) /\ Unescaped(e) = Single(c)
<1>0. Quote # Backslash /\ Quote # Newline /\ Backslash # Newline /\ LetterN \notin {Quote, Backslash}
  BY TokenizerAssumption
<1>1. CASE c = Quote
  <2>1. Escaped(c) = Pair(Backslash, Quote)
    BY <1>0, <1>1 DEF Escaped, Pair
  <2>2. Unescaped(Quote) = Single(c)
    BY <1>0, <1>1 DEF Unescaped, Single
  <2>. QED
    BY <2>1, <2>2, SpecialBytes
<1>2. CASE c = Backslash
  <2>1. Escaped(c) = Pair(Backslash, Backslash)
    BY <1>0, <1>2 DEF Escaped, Pair
  <2>2. Unescaped(Backslash) = Single(c)
    BY <1>0, <1>2 DEF Unescaped, Single
  <2>. QED
    BY <2>1, <2>2, SpecialBytes
<1>3. CASE c = Newline
  <2>1. Escaped(c) = Pair(Backslash, LetterN)
    BY <1>0, <1>3 DEF Escaped, Pair
  <2>2. Unescaped(LetterN) = Single(c)
    BY <1>0, <1>3 DEF Unescaped, Single
  <2>. QED
    BY <2>1, <2>2, SpecialBytes
<1>4. CASE c \notin {Quote, Backslash, Newline}
  <2>1. Escaped(c) = Single(c)
    BY <1>4 DEF Escaped, Single
  <2>. QED
    BY <1>4, <2>1
<1>. QED
  BY <1>1, <1>2, <1>3, <1>4

LEMMA Forms ==
    ASSUME NEW s \in Seq(TextByte), NEW x \in TextByte, NEW y \in TextByte
    PROVE  /\ Joint(s, Single(x)) = Append(s, x) /\ Joint(s, Pair(x, y)) = Append(Append(s, x), y)
           /\ Append(s, x) \in Seq(TextByte) /\ Append(Append(s, x), y) \in Seq(TextByte)
  BY DEF Joint, Single, Pair

LEMMA ReadsEscaped ==
    ASSUME NEW token \in Seq(TextByte)
    PROVE  /\ EscapeFold(token) \in Seq(TextByte)
           /\ KeyFold(KeyAt(<<>>, FALSE), EscapeFold(token)) = KeyAt(EscapeFold(token), FALSE)
           /\ UnescapeFold(TextAt(<<>>), EscapeFold(token)) = TextAt(token)
<1> DEFINE K0 == KeyAt(<<>>, FALSE)
           U0 == TextAt(<<>>)
           none == <<>>
           P == {s \in Seq(TextByte) :
                    /\ EscapeFold(s) \in Seq(TextByte)
                    /\ KeyFold(K0, EscapeFold(s)) = KeyAt(EscapeFold(s), FALSE)
                    /\ UnescapeFold(U0, EscapeFold(s)) = TextAt(s)}
<1>0. K0 \in KeyState /\ U0 \in UnescapeState /\ <<>> \in Seq(TextByte)
  BY NoBytes, SpecialBytes, KeyStates, TextStates
<1> HIDE DEF K0, U0
<1>1. none \in P
  <2>1. EscapeFold(none) = none
    BY EscapeFacts
  <2>2. KeyFold(K0, none) = K0 /\ UnescapeFold(U0, none) = U0
    BY <1>0, KeyFacts, UnescapeFacts
  <2>. QED
    BY <1>0, <2>1, <2>2 DEF K0, U0
<1>2. ASSUME NEW s \in Seq(TextByte), NEW c \in TextByte, s \in P PROVE Append(s, c) \in P
  <2> DEFINE e == EscapeFold(s)
             new == EscapeFold(Append(s, c))
  <2>1. e \in Seq(TextByte) /\ KeyFold(K0, e) = KeyAt(e, FALSE) /\ UnescapeFold(U0, e) = TextAt(s)
    BY <1>2
  <2>2. new = Joint(e, Escaped(c)) /\ Append(s, c) \in Seq(TextByte)
    BY EscapeFacts, AppendProperties
  <2> HIDE DEF e, new
  <2>k. /\ \A u \in Seq(TextByte), x \in TextByte : KeyFold(K0, Append(u, x)) = KeyRead(KeyFold(K0, u), x)
        /\ \A u \in Seq(TextByte), x \in TextByte :
              UnescapeFold(U0, Append(u, x)) = UnescapeRead(UnescapeFold(U0, u), x)
    BY <1>0, KeyFacts, UnescapeFacts
  <2>3. CASE c \notin {Quote, Backslash} /\ Escaped(c) = Single(c)
    <3>1. new = Append(e, c) /\ Append(e, c) \in Seq(TextByte)
      BY <2>1, <2>2, <2>3, Forms
    <3>2. KeyFold(K0, new) = KeyAt(new, FALSE)
      <4>1. KeyFold(K0, new) = KeyRead(KeyAt(e, FALSE), c)
        BY <2>1, <2>k, <3>1
      <4>2. KeyRead(KeyAt(e, FALSE), c) = KeyAt(Append(e, c), FALSE)
        BY <2>1, <2>3, KeyStates, Zenon
      <4>. QED
        BY <3>1, <4>1, <4>2
    <3>3. UnescapeFold(U0, new) = TextAt(Append(s, c))
      BY <2>1, <2>3, <2>k, <3>1, TextStates
    <3>. QED
      BY <2>2, <3>1, <3>2, <3>3 DEF new
  <2>4. ASSUME NEW x \in TextByte, Escaped(c) = Pair(Backslash, x), Unescaped(x) = Single(c)
        PROVE  Append(s, c) \in P
    <3>1. /\ new = Append(Append(e, Backslash), x) /\ Append(e, Backslash) \in Seq(TextByte)
          /\ new \in Seq(TextByte) /\ Backslash \in TextByte
      <4>1. Backslash \in TextByte
        BY SpecialBytes
      <4>2. new = Joint(e, Pair(Backslash, x))
        BY <2>2, <2>4
      <4>3. e \in Seq(TextByte)
        BY <2>1
      <4>4. /\ Joint(e, Pair(Backslash, x)) = Append(Append(e, Backslash), x)
            /\ Append(e, Backslash) \in Seq(TextByte) /\ Append(Append(e, Backslash), x) \in Seq(TextByte)
        BY ONLY <4>1, <4>3, x \in TextByte, Forms
      <4>. QED
        BY <4>1, <4>2, <4>4, Zenon
    <3>2. KeyFold(K0, new) = KeyRead(KeyRead(KeyAt(e, FALSE), Backslash), x)
      <4>1. KeyFold(K0, new) = KeyRead(KeyFold(K0, Append(e, Backslash)), x)
        BY <2>k, <3>1
      <4>2. KeyFold(K0, Append(e, Backslash)) = KeyRead(KeyAt(e, FALSE), Backslash)
        BY <2>1, <2>k, <3>1
      <4>. QED
        BY <4>1, <4>2
    <3>3. KeyFold(K0, new) = KeyAt(new, FALSE)
      BY <2>1, <3>1, <3>2, KeyStates
    <3>4. UnescapeFold(U0, new) = UnescapeRead(UnescapeRead(TextAt(s), Backslash), x)
      <4>1. UnescapeFold(U0, new) = UnescapeRead(UnescapeFold(U0, Append(e, Backslash)), x)
        BY <2>k, <3>1
      <4>2. UnescapeFold(U0, Append(e, Backslash)) = UnescapeRead(TextAt(s), Backslash)
        BY <2>1, <2>k, <3>1
      <4>. QED
        BY <4>1, <4>2
    <3>5. UnescapeFold(U0, new) = TextAt(Joint(s, Single(c)))
      BY <2>4, <3>4, TextStates
    <3>6. UnescapeFold(U0, new) = TextAt(Append(s, c))
      BY <3>5, Forms
    <3>. QED
      BY <2>2, <3>1, <3>3, <3>6 DEF new
  <2>. QED
    BY <2>3, <2>4, EscapeForms
<1> HIDE DEF P, none
<1>3. token \in P
  <2>1. <<>> \in P
    BY <1>1 DEF none
  <2>. QED
    BY <1>2, <2>1, SeqInduction
<1>. QED
  BY <1>3 DEF P, K0, U0

\* The JSON string of a token, from its first byte to its closing quote.
Quoted(token) == json_escape(token) \o <<Quote>>

LEMMA TokenRead ==
    ASSUME NEW token \in Seq(TextByte)
    PROVE  json_unescape(Key(Quoted(token))) = token
<1> DEFINE e == EscapeFold(token)
<1>1. /\ e \in Seq(TextByte) /\ KeyFold(KeyAt(<<>>, FALSE), e) = KeyAt(e, FALSE)
      /\ UnescapeFold(TextAt(<<>>), e) = TextAt(token)
  BY ReadsEscaped
<1>2. Quoted(token) = e \o <<Quote>>
  BY DEF Quoted, EscapeFold
<1> HIDE DEF e
<1>3. Quoted(token) = Append(e, Quote)
  BY <1>1, <1>2
<1> DEFINE K0 == KeyAt(<<>>, FALSE)
<1>4. K0 \in KeyState /\ KeyFold(K0, e) = KeyAt(e, FALSE) /\ Quote \in TextByte
  BY <1>1, NoBytes, SpecialBytes, KeyStates
<1> HIDE DEF K0
<1>5. KeyFold(K0, Append(e, Quote)) = KeyRead(KeyAt(e, FALSE), Quote)
  <2>1. \A u \in Seq(TextByte), x \in TextByte : KeyFold(K0, Append(u, x)) = KeyRead(KeyFold(K0, u), x)
    BY <1>4, KeyFacts
  <2>. QED
    BY <1>1, <1>4, <2>1
<1>6. KeyRead(KeyAt(e, FALSE), Quote) = KeyAt(e, TRUE)
  BY <1>1, KeyStates, SpecialBytes
<1>7. Key(Quoted(token)) = e
  <2>1. KeyFold(K0, Quoted(token)) = KeyAt(e, TRUE)
    BY <1>3, <1>5, <1>6
  <2>2. Key(Quoted(token)) = KeyFold(K0, Quoted(token)).s
    BY DEF Key, KeyFold, KeyAt, K0
  <2>. QED
    BY <2>1, <2>2 DEF KeyAt
<1>8. json_unescape(e) = UnescapeFold(TextAt(<<>>), e).s
  BY DEF json_unescape, UnescapeFold, TextAt
<1>. QED
  BY <1>1, <1>7, <1>8 DEF TextAt

-------------------------------------------------------------------------------
(* What save writes of merges load and load_hf read back, unless their bytes   *)
(* mean something in a line.                                                   *)
LineAt(done, line) == [done |-> done, line |-> line]
CleanPair(p) == /\ p.a # <<>> /\ p.b # <<>> /\ p.a[1] # Hash
                /\ Space \notin Range(p.a) /\ Newline \notin Range(p.a \o p.b)

LEMMA LineStates ==
    ASSUME NEW done \in Seq(Seq(TextByte)), NEW line \in Seq(TextByte)
    PROVE  /\ LineAt(done, line) \in LineState
           /\ LineRead(LineAt(done, line), Newline) = LineAt(Append(done, line), <<>>)
           /\ \A c \in TextByte : c # Newline => LineRead(LineAt(done, line), c) = LineAt(done, Append(line, c))
<1> DEFINE now == [done |-> done, line |-> line]
<1>1. LineAt(done, line) = now /\ now \in LineState
  BY DEF LineAt, LineState
<1>2. LineRead(now, Newline) = LineAt(Append(done, line), <<>>)
  BY DEF LineRead, LineAt
<1>3. ASSUME NEW c \in TextByte, c # Newline PROVE LineRead(now, c) = LineAt(done, Append(line, c))
  <2>1. LineRead(now, c) = [now EXCEPT !.line = Append(@, c)]
    BY <1>3 DEF LineRead
  <2>. QED
    BY <2>1 DEF LineAt
<1> HIDE DEF now
<1>. QED
  BY <1>1, <1>2, <1>3

LEMMA NoBreak ==
    ASSUME NEW done \in Seq(Seq(TextByte)), NEW w \in Seq(TextByte), Newline \notin Range(w)
    PROVE  LineFold(LineAt(done, <<>>), w) = LineAt(done, w)
<1> DEFINE L0 == LineAt(done, <<>>)
           none == <<>>
           P == {s \in Seq(TextByte) : Newline \notin Range(s) => LineFold(L0, s) = LineAt(done, s)}
<1>0. L0 \in LineState
  BY LineStates, NoBytes
<1> HIDE DEF L0
<1>k. \A u \in Seq(TextByte), x \in TextByte : LineFold(L0, Append(u, x)) = LineRead(LineFold(L0, u), x)
  BY <1>0, LineFacts
<1>1. none \in P
  <2>1. LineFold(L0, none) = L0
    BY <1>0, LineFacts
  <2>. QED
    BY <2>1, NoBytes DEF L0
<1>2. ASSUME NEW s \in Seq(TextByte), NEW c \in TextByte, s \in P PROVE Append(s, c) \in P
  <2>1. Append(s, c) \in Seq(TextByte)
    BY AppendProperties
  <2>2. ASSUME Newline \notin Range(Append(s, c)) PROVE LineFold(L0, Append(s, c)) = LineAt(done, Append(s, c))
    <3>1. Newline \notin Range(s) /\ c # Newline
      <4> DEFINE u == Append(s, c)
      <4>1. /\ Len(s) \in Nat /\ DOMAIN s = 1..Len(s) /\ DOMAIN u = 1..Len(s)+1 /\ u[Len(s) + 1] = c
            /\ \A i \in 1..Len(s) : u[i] = s[i]
        OBVIOUS
      <4> HIDE DEF u
      <4>2. Len(s) + 1 \in DOMAIN u /\ DOMAIN s \subseteq DOMAIN u
        BY <4>1
      <4>3. c \in Range(u) /\ Range(s) \subseteq Range(u)
        BY <4>1, <4>2, Zenon DEF Range
      <4>. QED
        BY <2>2, <4>3 DEF u
    <3>2. LineFold(L0, s) = LineAt(done, s)
      BY <1>2, <3>1
    <3>3. LineRead(LineAt(done, s), c) = LineAt(done, Append(s, c))
      BY <3>1, LineStates
    <3>. QED
      BY <1>k, <3>2, <3>3
  <2>. QED
    BY <2>1, <2>2
<1> HIDE DEF P, none
<1>3. w \in P
  <2>1. <<>> \in P
    BY <1>1 DEF none
  <2>. QED
    BY <1>2, <2>1, SeqInduction
<1>. QED
  BY <1>3 DEF P, L0

\* A line without its newline.
Body(p) == p.a \o <<Space>> \o p.b

LEMMA BodyIs ==
    ASSUME NEW p \in MergePair
    PROVE  /\ Body(p) \in Seq(TextByte) /\ Line(p) = Append(Body(p), Newline)
           /\ Len(Body(p)) = Len(p.a) + 1 + Len(p.b)
           /\ Body(p)[Len(p.a) + 1] = Space
           /\ \A i \in 1..Len(p.a) : Body(p)[i] = p.a[i]
           /\ \A i \in 1..Len(p.b) : Body(p)[Len(p.a) + 1 + i] = p.b[i]
<1> DEFINE a == p.a
           b == p.b
<1>1. a \in Seq(TextByte) /\ b \in Seq(TextByte) /\ Space \in TextByte
  BY SpecialBytes DEF MergePair
<1>2. Body(p) = (a \o <<Space>>) \o b /\ Line(p) = ((a \o <<Space>>) \o b) \o <<Newline>>
  BY DEF Body, Line
<1> HIDE DEF a, b
<1> DEFINE w == (a \o <<Space>>) \o b
<1>3. /\ w \in Seq(TextByte) /\ w \o <<Newline>> = Append(w, Newline)
      /\ Len(w) = Len(a) + 1 + Len(b) /\ w[Len(a) + 1] = Space
      /\ \A i \in 1..Len(a) : w[i] = a[i]
  BY <1>1
<1>4. ASSUME NEW i \in 1..Len(b) PROVE w[Len(a) + 1 + i] = b[i]
  BY <1>1
<1> HIDE DEF w
<1>. QED
  BY <1>2, <1>3, <1>4 DEF w, a, b

LEMMA BodyClean ==
    ASSUME NEW p \in MergePair, CleanPair(p)
    PROVE  Newline \notin Range(Body(p)) /\ Spaces(Body(p)) # {} /\ IsMerge(Body(p)) /\ Split(Body(p)) = p
<1> DEFINE a == p.a
           b == p.b
           w == Body(p)
           n == Len(p.a) + 1
<1>1. /\ a \in Seq(TextByte) /\ b \in Seq(TextByte) /\ p = [a |-> a, b |-> b]
      /\ Len(a) \in Nat /\ Len(b) \in Nat /\ n = Len(a) + 1
  BY DEF MergePair
<1>2. /\ w \in Seq(TextByte) /\ Len(w) = Len(a) + 1 + Len(b) /\ w[n] = Space
      /\ \A i \in 1..Len(a) : w[i] = a[i]
      /\ \A i \in 1..Len(b) : w[n + i] = b[i]
  BY BodyIs
<1>3. a # <<>> /\ b # <<>> /\ a[1] # Hash /\ Space \notin Range(a) /\ Newline \notin Range(a \o b)
  BY DEF CleanPair
<1>4. Newline # Space
  BY TokenizerAssumption
<1> HIDE DEF a, b, w, n
<1>5. (\A i \in 1..Len(a) : a[i] # Newline /\ a[i] # Space) /\ (\A i \in 1..Len(b) : b[i] # Newline)
  <2> DEFINE u == a \o b
  <2>1. /\ DOMAIN u = 1..Len(a)+Len(b) /\ DOMAIN a = 1..Len(a)
        /\ \A i \in 1..Len(a) : u[i] = a[i] /\ i \in DOMAIN u
        /\ \A i \in 1..Len(b) : u[Len(a) + i] = b[i] /\ Len(a) + i \in DOMAIN u
    BY <1>1
  <2>2. Newline \notin Range(u)
    BY <1>3
  <2> HIDE DEF u
  <2>3. \A i \in DOMAIN u : u[i] # Newline
    BY <2>2, Zenon DEF Range
  <2>4. \A i \in DOMAIN a : a[i] # Space
    BY <1>3, Zenon DEF Range
  <2>5. \A i \in 1..Len(a) : a[i] # Newline /\ a[i] # Space
    BY <2>1, <2>3, <2>4, Zenon
  <2>6. \A i \in 1..Len(b) : b[i] # Newline
    BY <2>1, <2>3, Zenon
  <2>. QED
    BY <2>5, <2>6
<1>6. DOMAIN w = 1..Len(w) /\ Len(w) \in Nat /\ n \in 1..Len(w)
  BY <1>1, <1>2
<1>7. Newline \notin Range(w)
  <2>1. ASSUME NEW i \in 1..Len(w) PROVE w[i] # Newline
    <3>1. CASE i <= Len(a)
      BY <1>1, <1>2, <1>5, <3>1
    <3>2. CASE i = n
      BY <1>2, <1>4, <3>2
    <3>3. CASE i > n
      <4>1. i - n \in 1..Len(b) /\ n + (i - n) = i
        BY <1>1, <1>2, <1>6, <3>3
      <4>. QED
        BY <1>2, <1>5, <4>1
    <3>. QED
      BY <1>1, <1>6, <3>1, <3>2, <3>3
  <2>. QED
    BY <1>6, <2>1, Zenon DEF Range
<1>8. Spaces(w) # {}
  BY <1>2, <1>6 DEF Spaces
<1>9. IsMerge(w)
  <2>1. 1 \in 1..Len(a)
    BY <1>1, <1>3
  <2>2. w[1] = a[1] /\ w # <<>>
    BY <1>2, <1>6, <2>1
  <2>. QED
    BY <1>3, <1>8, <2>2 DEF IsMerge
<1>10. Min(Spaces(w)) = n
  <2>1. \A i \in 1..(n - 1) : w[i] # Space
    BY <1>1, <1>2, <1>5
  <2>. QED
    BY <1>2, <1>6, <2>1, FirstSpace
<1>11. Split(w) = [a |-> SubSeq(w, 1, n - 1), b |-> SubSeq(w, n + 1, Len(w))]
  BY <1>10, Zenon DEF Split
<1>12. SubSeq(w, 1, n - 1) = a
  <2> DEFINE u == SubSeq(w, 1, n - 1)
  <2>1. /\ u \in Seq(TextByte) /\ Len(u) = Len(a) /\ \A i \in 1..Len(a) : u[i] = w[i]
    BY <1>1, <1>2, <1>6
  <2> HIDE DEF u
  <2>2. u = a
    BY <1>1, <1>2, <2>1, SeqEqual
  <2>. QED
    BY <2>2 DEF u
<1>13. SubSeq(w, n + 1, Len(w)) = b
  <2> DEFINE u == SubSeq(w, n + 1, Len(w))
  <2>1. /\ u \in Seq(TextByte) /\ Len(u) = Len(b) /\ \A i \in 1..Len(b) : u[i] = w[n + i]
    BY <1>1, <1>2, <1>6
  <2> HIDE DEF u
  <2>2. u = b
    BY <1>1, <1>2, <2>1, SeqEqual
  <2>. QED
    BY <2>2 DEF u
<1>14. Split(w) = p
  BY <1>1, <1>11, <1>12, <1>13
<1>. QED
  BY <1>7, <1>8, <1>9, <1>14 DEF w

CleanMerges(ms) == \A i \in DOMAIN ms : CleanPair(ms[i])

LEMMA CleanAppend ==
    ASSUME NEW ms \in Seq(MergePair), NEW p \in MergePair, CleanMerges(Append(ms, p))
    PROVE  CleanMerges(ms) /\ CleanPair(p)
<1> DEFINE u == Append(ms, p)
<1>1. /\ Len(ms) \in Nat /\ DOMAIN ms = 1..Len(ms) /\ DOMAIN u = 1..Len(ms)+1 /\ u[Len(ms) + 1] = p
      /\ \A i \in 1..Len(ms) : u[i] = ms[i]
  OBVIOUS
<1>2. \A i \in DOMAIN u : CleanPair(u[i])
  BY DEF CleanMerges
<1> HIDE DEF u
<1>3. Len(ms) + 1 \in DOMAIN u /\ DOMAIN ms \subseteq DOMAIN u
  BY <1>1
<1>. QED
  BY <1>1, <1>2, <1>3, Zenon DEF CleanMerges

(* Reading the lines of clean merges, after lines that hold none.              *)
LEMMA ReadsWritten ==
    ASSUME NEW done \in Seq(Seq(TextByte)), ReadFold(done) = <<>>,
           NEW ms \in Seq(MergePair), CleanMerges(ms)
    PROVE  \E lines \in Seq(Seq(TextByte)) :
              /\ LineFold(LineAt(done, <<>>), Written(ms)) = LineAt(lines, <<>>)
              /\ ReadFold(lines) = ms
<1> DEFINE L0 == LineAt(done, <<>>)
           none == <<>>
           P == {s \in Seq(MergePair) :
                   CleanMerges(s) => \E lines \in Seq(Seq(TextByte)) :
                                        LineFold(L0, Written(s)) = LineAt(lines, <<>>) /\ ReadFold(lines) = s}
<1>0. L0 \in LineState /\ WrittenFold(none) = none /\ \A s \in Seq(MergePair) : WrittenFold(s) \in Seq(TextByte)
  BY NoBytes, LineStates, WrittenFacts
<1>w. \A s : WrittenFold(s) = Written(s)
  BY DEF WrittenFold
<1> HIDE DEF L0
<1>1. none \in P
  <2>1. LineFold(L0, none) = L0
    BY <1>0, LineFacts
  <2>. QED
    BY <1>0, <1>w, <2>1, NoBytes DEF L0
<1>2. ASSUME NEW s \in Seq(MergePair), NEW p \in MergePair, s \in P PROVE Append(s, p) \in P
  <2>0. Append(s, p) \in Seq(MergePair)
    BY AppendProperties
  <2> SUFFICES ASSUME CleanMerges(Append(s, p))
               PROVE  \E lines \in Seq(Seq(TextByte)) :
                         LineFold(L0, Written(Append(s, p))) = LineAt(lines, <<>>) /\ ReadFold(lines) = Append(s, p)
    BY <2>0
  <2>1. CleanMerges(s) /\ CleanPair(p)
    BY CleanAppend
  <2>2. PICK lines \in Seq(Seq(TextByte)) : LineFold(L0, Written(s)) = LineAt(lines, <<>>) /\ ReadFold(lines) = s
    BY <1>2, <2>1
  <2> DEFINE w == Body(p)
             lineOf == LineAt(lines, <<>>)
  <2>3. /\ w \in Seq(TextByte) /\ Line(p) = Append(w, Newline) /\ Newline \notin Range(w)
        /\ IsMerge(w) /\ Split(w) = p
    BY <2>1, BodyIs, BodyClean
  <2>4. Written(Append(s, p)) = Joint(Written(s), Line(p))
    <3>1. WrittenFold(Append(s, p)) = Joint(WrittenFold(s), Line(p))
      BY WrittenFacts
    <3>. QED
      BY <1>w, <3>1
  <2>5. Written(s) \in Seq(TextByte) /\ Line(p) \in Seq(TextByte) /\ Newline \in TextByte
    BY <1>0, <1>w, LineIn, SpecialBytes
  <2> HIDE DEF w
  <2>6. LineFold(L0, Written(Append(s, p))) = LineFold(LineAt(lines, <<>>), Line(p))
    BY <1>0, <2>2, <2>4, <2>5, LineConcat
  <2>7. LineFold(LineAt(lines, <<>>), w) = LineAt(lines, w)
    BY <2>3, NoBreak
  <2>8. LineFold(LineAt(lines, <<>>), Append(w, Newline)) = LineRead(LineAt(lines, w), Newline)
    <3>1. lineOf \in LineState
      BY NoBytes, LineStates
    <3> HIDE DEF lineOf
    <3>2. \A u \in Seq(TextByte), x \in TextByte : LineFold(lineOf, Append(u, x)) = LineRead(LineFold(lineOf, u), x)
      BY <3>1, LineFacts
    <3>3. LineFold(lineOf, Append(w, Newline)) = LineRead(LineFold(lineOf, w), Newline)
      BY <2>3, <2>5, <3>2
    <3>. QED
      BY <2>7, <3>3 DEF lineOf
  <2>9. LineRead(LineAt(lines, w), Newline) = LineAt(Append(lines, w), <<>>)
    BY <2>3, LineStates
  <2>10. Append(lines, w) \in Seq(Seq(TextByte)) /\ ReadFold(Append(lines, w)) = Append(s, p)
    <3>1. Append(lines, w) \in Seq(Seq(TextByte))
      BY <2>3, AppendProperties
    <3>2. ReadFold(Append(lines, w)) = MergeRead(ReadFold(lines), w)
      BY <2>3, ReadFacts
    <3>3. MergeRead(s, w) = Append(s, p)
      BY <2>3 DEF MergeRead
    <3>. QED
      BY <2>2, <3>1, <3>2, <3>3
  <2>. QED
    BY <2>3, <2>6, <2>8, <2>9, <2>10
<1> HIDE DEF P, none
<1>3. ms \in P
  <2>1. <<>> \in P
    BY <1>1 DEF none
  <2>. QED
    BY <1>2, <2>1, SeqInduction
<1>. QED
  BY <1>3 DEF P, L0

\* The line that starts merges.txt.
Version == <<Hash, LetterN, Newline>>

LEMMA VersionRead ==
    /\ Version \in Seq(TextByte)
    /\ LineFold(LineAt(<<>>, <<>>), Version) = LineAt(<<<<Hash, LetterN>>>>, <<>>)
    /\ <<<<Hash, LetterN>>>> \in Seq(Seq(TextByte))
    /\ ReadFold(<<<<Hash, LetterN>>>>) = <<>>
<1> DEFINE w == <<Hash, LetterN>>
           L0 == LineAt(<<>>, <<>>)
           none == <<>>
<1>0. Newline \in TextByte /\ Newline # Hash /\ Newline # LetterN
  BY SpecialBytes, TokenizerAssumption
<1>1. w \in Seq(TextByte) /\ Version = Append(w, Newline) /\ Append(w, Newline) \in Seq(TextByte) /\ w[1] = Hash
  BY SpecialBytes DEF Version
<1>2. Newline \notin Range(w)
  BY <1>0 DEF Range
<1> HIDE DEF w
<1>3. LineFold(L0, w) = LineAt(<<>>, w)
  BY <1>1, <1>2, NoBytes, NoBreak
<1>4. LineFold(L0, Append(w, Newline)) = LineRead(LineFold(L0, w), Newline)
  <2>1. L0 \in LineState
    BY NoBytes, LineStates
  <2> HIDE DEF L0
  <2>2. \A u \in Seq(TextByte), x \in TextByte : LineFold(L0, Append(u, x)) = LineRead(LineFold(L0, u), x)
    BY <2>1, LineFacts
  <2>. QED
    BY <1>0, <1>1, <2>2
<1>5. LineRead(LineAt(none, w), Newline) = LineAt(Append(none, w), <<>>)
  BY <1>1, NoBytes, LineStates
<1>6. Append(none, w) = <<w>> /\ <<w>> \in Seq(Seq(TextByte))
  BY <1>1
<1>7. ReadFold(<<w>>) = <<>>
  <2>0. none \in Seq(Seq(TextByte))
    BY NoBytes
  <2>3. ReadFold(none) = <<>>
    BY ReadFacts
  <2>1. ReadFold(Append(none, w)) = MergeRead(ReadFold(none), w)
    <3> HIDE DEF none
    <3>. QED
      BY <1>1, <2>0, ReadFacts
  <2>2. MergeRead(<<>>, w) = <<>>
    BY <1>1 DEF MergeRead, IsMerge
  <2>. QED
    BY <1>6, <2>1, <2>2, <2>3
<1>. QED
  BY <1>1, <1>3, <1>4, <1>5, <1>6, <1>7 DEF w

LEMMA ReadIsFold ==
    ASSUME NEW s, NEW lines, LineFold(LineAt(<<>>, <<>>), s) = LineAt(lines, <<>>)
    PROVE  ReadMerges(s) = ReadFold(lines)
<1>1. Lines(s) = lines
  BY DEF Lines, LineFold, LineAt
<1>. QED
  BY <1>1 DEF ReadMerges, ReadFold

(* Whatever bytes a merges file has, what is read are merges; those that were  *)
(* written are, when they are clean.                                           *)
LEMMA MergesTyped ==
    ASSUME NEW s \in Seq(TextByte)
    PROVE  ReadMerges(s) \in Seq(MergePair)
<1> DEFINE end == LineFold(LineAt(<<>>, <<>>), s)
<1>1. end \in LineState
  <2>1. LineAt(<<>>, <<>>) \in LineState
    BY NoBytes, LineStates
  <2>. QED
    BY <2>1, LineFacts
<1>2. Lines(s) = IF end.line = <<>> THEN end.done ELSE Append(end.done, end.line)
  BY DEF Lines, LineFold, LineAt
<1> HIDE DEF end
<1>3. Lines(s) \in Seq(Seq(TextByte))
  BY <1>1, <1>2, AppendProperties DEF LineState
<1>4. ReadMerges(s) = ReadFold(Lines(s))
  BY DEF ReadMerges, ReadFold
<1>. QED
  BY <1>3, <1>4, ReadFacts

LEMMA MergesRead ==
    ASSUME NEW ms \in Seq(MergePair), CleanMerges(ms)
    PROVE  /\ Written(ms) \in Seq(TextByte)
           /\ ReadMerges(Written(ms)) = ms /\ ReadMerges(Version \o Written(ms)) = ms
<1> DEFINE none == <<>>
           L0 == LineAt(none, <<>>)
           v == <<<<Hash, LetterN>>>>
<1>1. Written(ms) \in Seq(TextByte)
  BY WrittenFacts DEF WrittenFold
<1>2. ReadMerges(Written(ms)) = ms
  <2>1. none \in Seq(Seq(TextByte)) /\ ReadFold(none) = <<>>
    BY NoBytes, ReadFacts
  <2>2. \E lines \in Seq(Seq(TextByte)) :
           LineFold(LineAt(none, <<>>), Written(ms)) = LineAt(lines, <<>>) /\ ReadFold(lines) = ms
    <3> HIDE DEF none
    <3>. QED
      BY <2>1, ReadsWritten
  <2>. QED
    BY <2>2, ReadIsFold
<1>3. ReadMerges(Version \o Written(ms)) = ms
  <2>1. /\ Version \in Seq(TextByte) /\ LineFold(L0, Version) = LineAt(v, <<>>) /\ v \in Seq(Seq(TextByte))
        /\ ReadFold(v) = <<>> /\ L0 \in LineState
    BY VersionRead, NoBytes, LineStates
  <2> HIDE DEF v, L0
  <2>2. PICK lines \in Seq(Seq(TextByte)) :
           LineFold(LineAt(v, <<>>), Written(ms)) = LineAt(lines, <<>>) /\ ReadFold(lines) = ms
    BY <2>1, ReadsWritten
  <2>3. LineFold(L0, Joint(Version, Written(ms))) = LineFold(LineFold(L0, Version), Written(ms))
    BY <1>1, <2>1, LineConcat
  <2>4. LineFold(L0, Joint(Version, Written(ms))) = LineAt(lines, <<>>)
    BY <2>1, <2>2, <2>3
  <2>5. ReadMerges(Joint(Version, Written(ms))) = ms
    BY <2>2, <2>4, ReadIsFold DEF L0
  <2>. QED
    BY <2>5 DEF Joint
<1>. QED
  BY <1>1, <1>2, <1>3

-------------------------------------------------------------------------------
(* The vocabulary that merges make, learnt one by one or added by load.        *)
LEMMA NewTyped == NewTokenizer \in TokState
<1>1. NewTokenizer.vocab \in Seq(Seq(TextByte)) /\ NewTokenizer.merges = <<>>
  BY NewIsSound DEF Sound, NewTokenizer
<1>2. NewTokenizer = [merges |-> NewTokenizer.merges, vocab |-> NewTokenizer.vocab]
  BY DEF NewTokenizer
<1>. QED
  BY <1>1, <1>2, NoBytes DEF TokState

LEMMA LearntFromNew ==
    ASSUME NEW ms \in Seq(MergePair)
    PROVE  /\ Sound(LearntFold(NewTokenizer, ms)) /\ LearntFold(NewTokenizer, ms) \in TokState
           /\ LearntFold(NewTokenizer, ms).merges = ms
           /\ Len(LearntFold(NewTokenizer, ms).vocab) <= vocab_size =>
                 AddedFold(NewTokenizer, ms) = LearntFold(NewTokenizer, ms)
<1> DEFINE t0 == NewTokenizer
           none == <<>>
           L(s) == LearntFold(t0, s)
           P == {s \in Seq(MergePair) :
                    /\ Sound(L(s)) /\ L(s) \in TokState /\ L(s).merges = s
                    /\ Len(L(s).vocab) <= vocab_size => AddedFold(t0, s) = L(s)}
<1>0. t0 \in TokState /\ Sound(t0) /\ t0.merges = <<>>
  BY NewTyped, NewIsSound, BytesKnown, NoBytes
<1> HIDE DEF t0
<1>1. none \in P
  <2>1. L(none) = t0 /\ AddedFold(t0, none) = t0
    BY <1>0, LearntFacts, AddedFacts
  <2>. QED
    BY <1>0, <2>1, NoBytes
<1>2. ASSUME NEW s \in Seq(MergePair), NEW p \in MergePair, s \in P PROVE Append(s, p) \in P
  <2> DEFINE t == L(s)
             u == L(Append(s, p))
  <2>1. Sound(t) /\ t \in TokState /\ t.merges = s /\ (Len(t.vocab) <= vocab_size => AddedFold(t0, s) = t)
    BY <1>2
  <2>2. /\ u = Learnt(t, p) /\ AddedFold(t0, Append(s, p)) = Added(AddedFold(t0, s), p)
        /\ Append(s, p) \in Seq(MergePair)
    <3>1. \A x \in Seq(MergePair), y \in MergePair : LearntFold(t0, Append(x, y)) = Learnt(LearntFold(t0, x), y)
      BY <1>0, LearntFacts
    <3>2. \A x \in Seq(MergePair), y \in MergePair : AddedFold(t0, Append(x, y)) = Added(AddedFold(t0, x), y)
      BY <1>0, AddedFacts
    <3>. QED
      BY <3>1, <3>2, AppendProperties
  <2> HIDE DEF t, u
  <2>3. Sound(u) /\ u \in TokState /\ u.merges = Append(s, p)
    BY <2>1, <2>2, LearntIsSound, LearntTyped
  <2>4. ASSUME Len(u.vocab) <= vocab_size PROVE AddedFold(t0, Append(s, p)) = u
    <3> DEFINE w == p.a \o p.b
    <3>1. u = [merges |-> Append(t.merges, p), vocab |-> IF Known(t, w) THEN t.vocab ELSE Append(t.vocab, w)]
      BY <2>2 DEF Learnt
    <3>2. /\ Len(t.vocab) \in Nat /\ vocab_size \in Nat /\ t.vocab \in Seq(Seq(TextByte))
          /\ t = [merges |-> t.merges, vocab |-> t.vocab]
      BY <2>1, TokenizerAssumption DEF TokState
    <3> HIDE DEF w
    <3>3. CASE Len(t.vocab) < vocab_size
      <4>1. AddedFold(t0, s) = t
        BY <2>1, <3>2, <3>3
      <4>. QED
        BY <2>2, <3>3, <4>1, Zenon DEF Added
    <3>4. CASE ~(Len(t.vocab) < vocab_size)
      <4>1. Known(t, w)
        <5>1. SUFFICES ASSUME ~Known(t, w) PROVE FALSE
          OBVIOUS
        <5>2. u.vocab = Append(t.vocab, w)
          BY <3>1, <5>1
        <5>3. Len(u.vocab) = Len(t.vocab) + 1
          BY <3>2, <5>2
        <5>. QED
          BY <2>4, <3>2, <3>4, <5>3
      <4>2. u = [merges |-> Append(t.merges, p), vocab |-> t.vocab]
        BY <3>1, <4>1
      <4>3. AddedFold(t0, s) = t
        <5>1. u.vocab = t.vocab
          BY <4>2
        <5>. QED
          BY <2>1, <2>4, <5>1
      <4>4. Added(t, p) = [t EXCEPT !.merges = Append(@, p)]
        BY <3>4, Zenon DEF Added
      <4>5. Added(t, p) = [merges |-> Append(t.merges, p), vocab |-> t.vocab]
        <5>1. Added(t, p).merges = Append(t.merges, p) /\ Added(t, p).vocab = t.vocab
          BY <2>1, <4>4 DEF TokState
        <5>2. Added(t, p) \in TokState
          BY <2>1, AddedTyped
        <5>. QED
          BY <5>1, <5>2 DEF TokState
      <4>. QED
        BY <2>2, <4>2, <4>3, <4>5
    <3>. QED
      BY <3>3, <3>4
  <2>. QED
    BY <2>2, <2>3, <2>4 DEF u
<1> HIDE DEF P, none
<1>3. ms \in P
  <2>1. <<>> \in P
    BY <1>1 DEF none
  <2>. QED
    BY <1>2, <2>1, SeqInduction
<1>. QED
  BY <1>3 DEF P, t0

(* load never has more than vocab_size tokens.                                 *)
LEMMA AddedBounded ==
    ASSUME NEW ms \in Seq(MergePair)
    PROVE  AddedFold(NewTokenizer, ms) \in TokState /\ Len(AddedFold(NewTokenizer, ms).vocab) <= vocab_size
<1> DEFINE t0 == NewTokenizer
           none == <<>>
           P == {s \in Seq(MergePair) : Len(AddedFold(t0, s).vocab) <= vocab_size}
<1>0. t0 \in TokState /\ Len(t0.vocab) <= vocab_size
  BY NewTyped, NewIsSound
<1> HIDE DEF t0
<1>a. /\ AddedFold(t0, none) = t0 /\ \A s \in Seq(MergePair) : AddedFold(t0, s) \in TokState
      /\ \A x \in Seq(MergePair), y \in MergePair : AddedFold(t0, Append(x, y)) = Added(AddedFold(t0, x), y)
  BY <1>0, AddedFacts
<1>1. none \in P
  BY <1>0, <1>a, NoBytes
<1>2. ASSUME NEW s \in Seq(MergePair), NEW p \in MergePair, s \in P PROVE Append(s, p) \in P
  <2> DEFINE t == AddedFold(t0, s)
  <2>1. t \in TokState /\ Len(t.vocab) <= vocab_size /\ Append(s, p) \in Seq(MergePair)
    BY <1>2, <1>a, AppendProperties
  <2>2. AddedFold(t0, Append(s, p)) = Added(t, p)
    BY <1>a
  <2> HIDE DEF t
  <2>3. /\ Len(t.vocab) \in Nat /\ vocab_size \in Nat /\ t.vocab \in Seq(Seq(TextByte))
        /\ t = [merges |-> t.merges, vocab |-> t.vocab]
    BY <2>1, TokenizerAssumption DEF TokState
  <2>4. CASE Len(t.vocab) < vocab_size
    <3>1. Added(t, p) = Learnt(t, p)
      BY <2>4, Zenon DEF Added
    <3>2. Learnt(t, p).vocab = t.vocab \/ Learnt(t, p).vocab = Append(t.vocab, p.a \o p.b)
      BY DEF Learnt
    <3>3. Len(Append(t.vocab, p.a \o p.b)) = Len(t.vocab) + 1
      BY <2>3
    <3>4. Len(Learnt(t, p).vocab) = Len(t.vocab) \/ Len(Learnt(t, p).vocab) = Len(t.vocab) + 1
      BY <3>2, <3>3, Zenon
    <3>5. Len(Learnt(t, p).vocab) <= vocab_size
      BY <2>3, <2>4, <3>4
    <3>. QED
      BY <2>1, <2>2, <3>1, <3>5
  <2>5. CASE ~(Len(t.vocab) < vocab_size)
    <3>1. Added(t, p) = [t EXCEPT !.merges = Append(@, p)]
      BY <2>5, Zenon DEF Added
    <3>2. Added(t, p).vocab = t.vocab
      BY <2>3, <3>1
    <3>. QED
      BY <2>1, <2>2, <3>2
  <2>. QED
    BY <2>4, <2>5
<1> HIDE DEF P, none
<1>3. ms \in P
  <2>1. <<>> \in P
    BY <1>1 DEF none
  <2>. QED
    BY <1>2, <2>1, SeqInduction
<1>. QED
  BY <1>3, <1>a DEF P, t0

-------------------------------------------------------------------------------
(* Saving and loading, in between trainings.                                   *)
LEMMA CleanIs ==
    ASSUME NEW t \in TokState, CleanFile(t)
    PROVE  CleanMerges(t.merges) /\ t = LearntFold(NewTokenizer, t.merges) /\ Sound(t)
<1> DEFINE l == LearntFold(NewTokenizer, t.merges)
<1>1. t.merges \in Seq(MergePair) /\ t = [merges |-> t.merges, vocab |-> t.vocab]
  BY DEF TokState
<1>2. l \in TokState /\ l.merges = t.merges /\ Sound(l)
  BY <1>1, LearntFromNew
<1>3. t.vocab = l.vocab
  BY DEF CleanFile, LearntFold
<1>4. CleanMerges(t.merges)
  BY DEF CleanFile, CleanMerges, CleanPair
<1> HIDE DEF l
<1>5. l = [merges |-> l.merges, vocab |-> l.vocab]
  BY <1>2 DEF TokState
<1>6. t = l
  BY <1>1, <1>2, <1>3, <1>5
<1>. QED
  BY <1>2, <1>4, <1>6 DEF l

(* What is written is the tokenizer that wrote it, escaped; a tokenizer that   *)
(* is clean when it is written leads only to sound ones: itself loaded again,  *)
(* and whatever is trained from it.                                            *)
FileInv ==
    /\ tok \in TokState /\ saved \in TokState
    /\ Len(tok.vocab) <= vocab_size /\ Len(saved.vocab) <= vocab_size
    /\ text \in Seq(TextByte) /\ words \in Seq(Seq(TextByte))
    /\ file.format = "merges" => file.merges = Written(saved.merges)
    /\ file.format = "hf" => /\ file.merges = Version \o Written(saved.merges)
                             /\ file.vocab = [i \in DOMAIN saved.vocab |-> Quoted(saved.vocab[i])]
    /\ CleanFile(saved) => Sound(tok)

LEMMA FileInvInit == TokInit => FileInv
<1> SUFFICES ASSUME TokInit PROVE FileInv
  OBVIOUS
<1>1. /\ tok = NewTokenizer /\ saved = NewTokenizer /\ text = <<>> /\ words = <<>>
      /\ file.format = "none"
  BY DEF TokInit
<1>. QED
  BY <1>1, NewTyped, NewIsSound, NoBytes, Zenon DEF FileInv

\* load makes the tokenizer that was saved, and one within bounds in any case.
LEMMA LoadReads ==
    ASSUME FileInv, load
    PROVE  /\ tok' \in TokState /\ Len(tok'.vocab) <= vocab_size
           /\ CleanFile(saved) => tok' = saved
<1> DEFINE ms == ReadMerges(file.merges)
<1>1. tok' = AddedFold(NewTokenizer, ms) /\ file.merges = Written(saved.merges)
  BY DEF load, AddedFold, FileInv
<1>2. saved \in TokState /\ Len(saved.vocab) <= vocab_size /\ saved.merges \in Seq(MergePair)
  BY DEF FileInv, TokState
<1>3. ms \in Seq(MergePair)
  <2>1. Written(saved.merges) \in Seq(TextByte)
    BY <1>2, WrittenFacts DEF WrittenFold
  <2>. QED
    BY <1>1, <2>1, MergesTyped
<1>4. tok' \in TokState /\ Len(tok'.vocab) <= vocab_size
  BY <1>1, <1>3, AddedBounded
<1>5. ASSUME CleanFile(saved) PROVE tok' = saved
  <2>1. CleanMerges(saved.merges) /\ saved = LearntFold(NewTokenizer, saved.merges)
    BY <1>2, <1>5, CleanIs
  <2>2. ms = saved.merges
    BY <1>1, <1>2, <2>1, MergesRead
  <2>3. AddedFold(NewTokenizer, saved.merges) = LearntFold(NewTokenizer, saved.merges)
    BY <1>2, <2>1, LearntFromNew
  <2>. QED
    BY <1>1, <2>1, <2>2, <2>3
<1>. QED
  BY <1>4, <1>5

\* load_hf makes its vocabulary whatever the tokens' bytes, and its merges when clean.
LEMMA LoadHfReads ==
    ASSUME FileInv, load_hf
    PROVE  /\ tok' \in TokState /\ tok'.vocab = saved.vocab
           /\ CleanFile(saved) => tok' = saved
<1> DEFINE ms == ReadMerges(file.merges)
           v == saved.vocab
           quoted == [i \in DOMAIN v |-> Quoted(v[i])]
           read == [i \in DOMAIN quoted |-> json_unescape(Key(quoted[i]))]
<1>1. /\ tok' = [merges |-> ms, vocab |-> [i \in DOMAIN file.vocab |-> json_unescape(Key(file.vocab[i]))]]
      /\ file.merges = Version \o Written(saved.merges) /\ file.vocab = quoted
  BY DEF load_hf, FileInv
<1>2. /\ saved \in TokState /\ saved.merges \in Seq(MergePair) /\ v \in Seq(Seq(TextByte))
      /\ saved = [merges |-> saved.merges, vocab |-> v]
  BY DEF FileInv, TokState
<1>3. read = v
  <2>1. \A i \in DOMAIN v : v[i] \in Seq(TextByte)
    BY <1>2
  <2>2. \A i \in DOMAIN v : json_unescape(Key(Quoted(v[i]))) = v[i]
    BY <2>1, TokenRead
  <2>3. read = [i \in DOMAIN v |-> json_unescape(Key(Quoted(v[i])))]
    OBVIOUS
  <2>4. v = [i \in DOMAIN v |-> v[i]]
    BY <1>2
  <2> HIDE DEF v
  <2>. QED
    BY <2>2, <2>3, <2>4
<1>4. tok' = [merges |-> ms, vocab |-> v]
  BY <1>1, <1>3
<1>5. ms \in Seq(MergePair)
  <2>1. Written(saved.merges) \in Seq(TextByte) /\ Version \in Seq(TextByte)
    BY <1>2, WrittenFacts, VersionRead DEF WrittenFold
  <2>2. Version \o Written(saved.merges) \in Seq(TextByte)
    BY <2>1, ConcatProperties
  <2>. QED
    BY <1>1, <2>2, MergesTyped
<1>6. ASSUME CleanFile(saved) PROVE ms = saved.merges
  <2>1. CleanMerges(saved.merges)
    BY <1>2, <1>6, CleanIs
  <2>. QED
    BY <1>1, <1>2, <2>1, MergesRead
<1> HIDE DEF ms, v
<1>7. tok' \in TokState /\ tok'.vocab = v
  BY <1>2, <1>4, <1>5 DEF TokState
<1>. QED
  BY <1>2, <1>4, <1>6, <1>7 DEF v

LEMMA FileInvMerge ==
    ASSUME FileInv, MergeMostFrequent
    PROVE  FileInv'
<1>1. /\ text' = text /\ file' = file /\ saved' = saved /\ Len(tok.vocab) < vocab_size
      /\ tok \in TokState /\ words \in Seq(Seq(TextByte)) /\ (CleanFile(saved) => Sound(tok))
  BY DEF MergeMostFrequent, FileInv
<1>2. PICK p \in Pairs : tok' = Learnt(tok, p) /\ words' = Merged(words, p)
  BY DEF MergeMostFrequent
<1>3. p \in MergePair
  <2>1. PICK i \in 1..(Len(words) - 1) : p = [a |-> words[i], b |-> words[i + 1]]
    BY DEF Pairs
  <2>2. words[i] \in Seq(TextByte) /\ words[i + 1] \in Seq(TextByte)
    BY <1>1
  <2>. QED
    BY <2>1, <2>2 DEF MergePair
<1>4. tok' \in TokState /\ (CleanFile(saved) => Sound(tok'))
  BY <1>1, <1>2, <1>3, LearntTyped, LearntIsSound
<1>5. Len(tok'.vocab) <= vocab_size
  <2>1. tok'.vocab = tok.vocab \/ tok'.vocab = Append(tok.vocab, p.a \o p.b)
    BY <1>2 DEF Learnt
  <2>2. Len(tok.vocab) \in Nat /\ vocab_size \in Nat /\ Len(Append(tok.vocab, p.a \o p.b)) = Len(tok.vocab) + 1
    BY <1>1, TokenizerAssumption DEF TokState
  <2>3. Len(tok'.vocab) = Len(tok.vocab) \/ Len(tok'.vocab) = Len(tok.vocab) + 1
    BY <2>1, <2>2, Zenon
  <2>. QED
    BY <1>1, <2>2, <2>3
<1>6. words' \in Seq(Seq(TextByte))
  BY <1>1, <1>2, <1>3, PairsJoin, MergedKeeps DEF Joins
<1>. QED
  BY <1>1, <1>4, <1>5, <1>6, Zenon DEF FileInv

LEMMA FileInvStep ==
    ASSUME FileInv, [TokNext]_tok_vars
    PROVE  FileInv'
<1>0. tok \in TokState /\ saved \in TokState /\ Len(tok.vocab) <= vocab_size /\ Len(saved.vocab) <= vocab_size
  BY DEF FileInv
<1>1. ASSUME NEW s \in Texts, NEW n \in 1..MaxMerges, Train(s, n) PROVE FileInv'
  <2>1. text' = s /\ words' = BytesOf(s) /\ tok' = tok /\ file' = file /\ saved' = saved
    BY <1>1 DEF Train
  <2>2. s \in Seq(TextByte)
    BY TokenizerAssumption DEF TextByte
  <2>3. BytesOf(s) \in Seq(Seq(TextByte))
    BY <2>2, BytesKnown
  <2>. QED
    BY <2>1, <2>2, <2>3, Zenon DEF FileInv
<1>2. CASE MergeMostFrequent
  BY <1>2, FileInvMerge
<1>3. CASE StopTraining \/ UNCHANGED tok_vars
  <2>1. tok' = tok /\ text' = text /\ words' = words /\ file' = file /\ saved' = saved
    BY <1>3, Zenon DEF StopTraining, tok_vars
  <2>. QED
    BY <2>1, Zenon DEF FileInv
<1>4. CASE save
  <2>1. /\ file' = [format |-> "merges", merges |-> WrittenMerges(tok), vocab |-> <<>>]
        /\ saved' = tok /\ tok' = tok /\ text' = text /\ words' = words
    BY <1>4 DEF save
  <2>2. file'.format = "merges" /\ file'.merges = Written(saved'.merges)
    BY <2>1 DEF WrittenMerges, Written
  <2>3. CleanFile(tok) => Sound(tok)
    BY <1>0, CleanIs
  <2>. QED
    BY <1>0, <2>1, <2>2, <2>3 DEF FileInv
<1>5. CASE save_hf
  <2>1. /\ file' = [format |-> "hf", merges |-> <<Hash, LetterN, Newline>> \o WrittenMerges(tok),
                    vocab |-> [i \in DOMAIN tok.vocab |-> json_escape(tok.vocab[i]) \o <<Quote>>]]
        /\ saved' = tok /\ tok' = tok /\ text' = text /\ words' = words
    BY <1>5 DEF save_hf
  <2>2. /\ file'.format = "hf" /\ file'.merges = Version \o Written(saved'.merges)
        /\ file'.vocab = [i \in DOMAIN saved'.vocab |-> Quoted(saved'.vocab[i])]
    BY <2>1 DEF WrittenMerges, Written, Version, Quoted
  <2>3. CleanFile(tok) => Sound(tok)
    BY <1>0, CleanIs
  <2>. QED
    BY <1>0, <2>1, <2>2, <2>3 DEF FileInv
<1>6. CASE load
  <2>1. tok' \in TokState /\ Len(tok'.vocab) <= vocab_size /\ (CleanFile(saved) => tok' = saved)
    BY <1>6, LoadReads
  <2>2. saved' = saved /\ file' = file /\ text' = text /\ words' = words
    BY <1>6 DEF load
  <2>3. CleanFile(saved) => Sound(tok')
    BY <1>0, <2>1, CleanIs
  <2>. QED
    BY <2>1, <2>2, <2>3, Zenon DEF FileInv
<1>7. CASE load_hf
  <2>1. tok' \in TokState /\ tok'.vocab = saved.vocab /\ (CleanFile(saved) => tok' = saved)
    BY <1>7, LoadHfReads
  <2>2. saved' = saved /\ file' = file /\ text' = text /\ words' = words
    BY <1>7 DEF load_hf
  <2>3. CleanFile(saved) => Sound(tok')
    BY <1>0, <2>1, CleanIs
  <2>4. Len(tok'.vocab) <= vocab_size
    BY <1>0, <2>1
  <2>. QED
    BY <2>1, <2>2, <2>3, <2>4, Zenon DEF FileInv
<1>. QED
  BY <1>1, <1>2, <1>3, <1>4, <1>5, <1>6, <1>7, Zenon DEF TokNext

(* A tokenizer loaded from its own file is the one that wrote it, merges, ids  *)
(* and all, in either format and whenever it was written, provided no merge    *)
(* starts with '#' or has a space in its first part or a newline; from the     *)
(* JSON vocabulary every token comes back with its id whatever bytes it has    *)
(* (LoadRestores).                                                             *)
THEOREM FilesRestore == TokSpec => LoadRestores
<1>1. FileInv /\ [TokNext]_tok_vars => FileInv'
  BY FileInvStep
<1>2. FileInv /\ [TokNext]_tok_vars =>
        [/\ load \/ load_hf => (CleanFile(saved) => tok' = saved)
         /\ load_hf => tok'.vocab = saved.vocab]_tok_vars
  BY LoadReads, LoadHfReads, Zenon
<1>. QED
  BY <1>1, <1>2, FileInvInit, PTL DEF TokSpec, LoadRestores

(* A tokenizer decodes every text to itself from its encoding, whether it was  *)
(* trained, loaded from a clean file of either format, or trained again after  *)
(* that, and in the middle of a training.                                      *)
THEOREM LoadedDecodes == TokSpec => [](CleanFile(saved) => DecodesAll)
<1>1. FileInv /\ [TokNext]_tok_vars => FileInv'
  BY FileInvStep
<1>2. FileInv => (CleanFile(saved) => DecodesAll)
  BY SoundDecodes DEF FileInv, DecodesAll
<1>. QED
  BY <1>1, <1>2, FileInvInit, PTL DEF TokSpec

(* The same of the probes and the text of the training in progress; and        *)
(* whatever was loaded there are no more than vocab_size tokens                *)
(* (EncodeDecode).                                                             *)
THEOREM EncodingsDecode == TokSpec => []EncodeDecode
<1>1. FileInv /\ [TokNext]_tok_vars => FileInv'
  BY FileInvStep
<1>2. FileInv => EncodeDecode
  <2> SUFFICES ASSUME FileInv PROVE EncodeDecode
    OBVIOUS
  <2>1. \A s \in Probes \cup {text} : s \in Seq(TextByte)
    BY TokenizerAssumption DEF TextByte, FileInv
  <2>. QED
    BY <2>1, SoundDecodes DEF FileInv, EncodeDecode
<1>. QED
  BY <1>1, <1>2, FileInvInit, PTL DEF TokSpec
===============================================================================
