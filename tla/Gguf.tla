-------------------------------- MODULE Gguf ----------------------------------
(* Where save_gguf and save_gguf_quant put the tensors of a file and where     *)
(* load_gguf looks for them.  The writer computes the offsets first, from the  *)
(* sizes the blocks of a dtype will have, and writes the data afterwards,      *)
(* block by block; the reader computes sizes a third time.  A tensor is its    *)
(* number of elements, a position a number of bytes.                           *)
EXTENDS Integers, Sequences

CONSTANTS Sizes, MaxTensors, Headers

ASSUME GgufAssumption == Sizes \subseteq Nat /\ Headers \subseteq Nat /\ MaxTensors \in Nat

VARIABLES dtype, quant, sizes, header,   \* the call: dtype, save_gguf_quant or save_gguf, tensors, bytes before the data
          offset, cur,                   \* infos[i].offset so far, current_offset
          at, pos, step                  \* where tensors were written, tellp(), progress

gguf_vars == <<dtype, quant, sizes, header, offset, cur, at, pos, step>>

-------------------------------------------------------------------------------
Dtypes == {"F32", "Q4_0", "Q8_0", "Q4_K"}
GGUF_QBLK == 32
GGUF_Q4K_BLK == 256
GGUF_ALIGN == 32

\* (offset + align - 1) & ~(align - 1), align a power of two
align_offset(x) == ((x + GGUF_ALIGN - 1) \div GGUF_ALIGN) * GGUF_ALIGN

gguf_nbytes(n, d) == CASE d = "Q8_0" -> (n \div GGUF_QBLK) * (4 + GGUF_QBLK)
                       [] d = "Q4_0" -> (n \div GGUF_QBLK) * (4 + (GGUF_QBLK \div 2))
                       [] d = "Q4_K" -> (n \div GGUF_Q4K_BLK) * 144
                       [] OTHER -> n * 4

\* Mutant: all quantized types are padded to 32 elements.
gguf_pad_len32(n, d) ==
    IF d = "F32" THEN n ELSE n + ((GGUF_QBLK - (n % GGUF_QBLK)) % GGUF_QBLK)

gguf_pad_len(n, d) ==
    LET blk == IF d = "Q4_K" THEN GGUF_Q4K_BLK ELSE GGUF_QBLK
    IN  IF d = "F32" THEN n ELSE n + ((blk - (n % blk)) % blk)

\* What write_encoded writes: it pushes zeros until the last block is full.
Blocks(n, blk) == (n + blk - 1) \div blk
write_encoded(n, d) == CASE d = "F32" -> n * 4
                         [] d = "Q8_0" -> Blocks(n, GGUF_QBLK) * (4 + GGUF_QBLK)
                         [] d = "Q4_K" -> Blocks(n, GGUF_Q4K_BLK) * 144
                         [] OTHER -> Blocks(n, GGUF_QBLK) * (4 + (GGUF_QBLK \div 2))

\* What read_decoded reads.
read_decoded(n, d) ==
    LET padded == n + ((GGUF_QBLK - (n % GGUF_QBLK)) % GGUF_QBLK)
    IN  CASE d = "F32" -> n * 4
          [] d = "Q4_K" -> (gguf_pad_len(n, d) \div GGUF_Q4K_BLK) * 144
          [] d = "Q8_0" -> (padded \div GGUF_QBLK) * (4 + GGUF_QBLK)
          [] OTHER -> (padded \div GGUF_QBLK) * (4 + (GGUF_QBLK \div 2))

-------------------------------------------------------------------------------
GgufInit == /\ quant \in BOOLEAN /\ dtype \in (IF quant THEN Dtypes ELSE {"F32"})
            /\ \E n \in 0..MaxTensors : sizes \in [1..n -> Sizes]
            /\ header \in Headers
            /\ offset = <<>> /\ cur = 0
            /\ at = <<>> /\ pos = header
            /\ step = "offsets"

Offset == /\ step = "offsets" /\ Len(offset) < Len(sizes)
          /\ LET o == align_offset(cur)
                 n == sizes[Len(offset) + 1]
             IN  /\ offset' = Append(offset, o)
                 /\ cur' = o + IF dtype = "F32" THEN n * 4 ELSE gguf_nbytes(gguf_pad_len(n, dtype), dtype)
          /\ UNCHANGED <<dtype, quant, sizes, header, at, pos, step>>

\* The infos are part of the header; the data section starts aligned.
StartData == /\ step = "offsets" /\ Len(offset) = Len(sizes)
             /\ pos' = align_offset(header)
             /\ step' = "data"
             /\ UNCHANGED <<dtype, quant, sizes, header, offset, cur, at>>

\* Pads up to the tensor's place.  Only save_gguf looks whether it is past it.
WriteTensor ==
    /\ step = "data" /\ Len(at) < Len(sizes)
    /\ LET i == Len(at) + 1
           target == align_offset(header) + offset[i]
           start == IF pos < target THEN target ELSE pos
       IN  IF ~quant /\ pos > target
           THEN step' = "miscalc" /\ UNCHANGED <<at, pos>>
           ELSE /\ at' = Append(at, start)
                /\ pos' = start + write_encoded(sizes[i], dtype)
                /\ UNCHANGED step
    /\ UNCHANGED <<dtype, quant, sizes, header, offset, cur>>

Done == /\ step = "data" /\ Len(at) = Len(sizes)
        /\ step' = "done"
        /\ UNCHANGED <<dtype, quant, sizes, header, offset, cur, at, pos>>

GgufNext == Offset \/ StartData \/ WriteTensor \/ Done
GgufSpec == GgufInit /\ [][GgufNext]_gguf_vars

-------------------------------------------------------------------------------
\* load_gguf: data_start + info.offset, data_start the aligned end of the infos
ReadAt(i) == align_offset(header) + offset[i]

(* The reader finds each tensor where the writer put it, aligned, and reads    *)
(* exactly the bytes that were written for it, none of the next tensor and     *)
(* none past the end; save_gguf never gives up with "offset miscalc".          *)
LayoutSound ==
    /\ step # "miscalc"
    /\ \A i \in 1..Len(at) :
         /\ at[i] = ReadAt(i)
         /\ at[i] % GGUF_ALIGN = 0
         /\ at[i] + read_decoded(sizes[i], dtype) <= IF i = Len(at) THEN pos ELSE at[i + 1]
         /\ read_decoded(sizes[i], dtype) = write_encoded(sizes[i], dtype)
===============================================================================
