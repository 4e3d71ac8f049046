----------------------------- MODULE TokenStream ------------------------------
(* Tokenizer::decode_incremental as generate --stream uses it: after each      *)
(* token its bytes are printed, but an incomplete UTF-8 character at the end   *)
(* is carried over to the next call.  A byte is known by its class; a lead     *)
(* byte announces the length of its character.                                 *)
EXTENDS Integers, Sequences

CONSTANTS MaxBytes, MaxChunk     \* bounds on the stream and on a token's bytes

ASSUME StreamAssumption == MaxBytes \in Nat /\ MaxChunk \in Nat

VARIABLES fed, out, carry, ended
stream_vars == <<fed, out, carry, ended>>

Class == {"ascii", "lead2", "lead3", "lead4", "cont", "bad"}
Chunks == UNION {[1..n -> Class] : n \in 1..MaxChunk}

\* the bytes a character with this first byte has; an invalid lead stands alone
Announced(byte) == CASE byte = "lead2" -> 2 [] byte = "lead3" -> 3 [] byte = "lead4" -> 4 [] OTHER -> 1
AllCont(s, first, last) == \A k \in first..last : s[k] = "cont"

\* at position i of raw, with what is available of it
utf8_need(raw, i) ==
    LET need == Announced(raw[i])
        avail == Len(raw) - i + 1
    IN  IF avail < need THEN need
        ELSE IF AllCont(raw, i + 1, i + need - 1) THEN need ELSE 1

\* Mutant: only the last two bytes are looked at.
HeldFromTwo(raw) ==
    {i \in 1..Len(raw) : /\ i > Len(raw) - 2
                         /\ utf8_need(raw, i) > Len(raw) - i + 1
                         /\ raw[i] \notin {"cont", "bad"}
                         /\ AllCont(raw, i + 1, Len(raw))}

\* Where an incomplete character may begin, among the last four bytes.
HeldFrom(raw) ==
    {i \in 1..Len(raw) : /\ i > Len(raw) - 4
                         /\ utf8_need(raw, i) > Len(raw) - i + 1
                         /\ raw[i] \notin {"cont", "bad"}
                         /\ AllCont(raw, i + 1, Len(raw))}

decode_incremental(bytes) ==
    LET raw == carry \o bytes
        held == HeldFrom(raw)
        i == IF held = {} THEN Len(raw) + 1 ELSE CHOOSE k \in held : \A l \in held : k <= l
    IN  /\ carry' = SubSeq(raw, i, Len(raw))
        /\ out' = out \o SubSeq(raw, 1, i - 1)

-------------------------------------------------------------------------------
StreamInit == fed = <<>> /\ out = <<>> /\ carry = <<>> /\ ended = FALSE

Token(bytes) == /\ ~ended /\ Len(fed) + Len(bytes) <= MaxBytes
                /\ decode_incremental(bytes)
                /\ fed' = fed \o bytes
                /\ UNCHANGED ended

\* What is still held back when the generation ends is printed as it is.
Finish == /\ ~ended /\ ended' = TRUE
          /\ out' = out \o carry /\ carry' = <<>>
          /\ UNCHANGED fed

StreamNext == Finish \/ \E bytes \in Chunks : Token(bytes)

StreamSpec == StreamInit /\ [][StreamNext]_stream_vars

-------------------------------------------------------------------------------
Character(s) == s # <<>> /\ Len(s) = Announced(s[1]) /\ s[1] \notin {"cont", "bad"} /\ AllCont(s, 2, Len(s))
Incomplete(s) == s = <<>> \/ (Len(s) < Announced(s[1]) /\ AllCont(s, 2, Len(s)))
\* s can be cut into whole characters
Text(s) == \E cuts \in SUBSET (0..Len(s)) :
              /\ Len(s) \in cuts
              /\ \A n \in cuts \ {0} : \E k \in cuts : k < n /\ Character(SubSeq(s, k + 1, n))

(* However the bytes are cut into tokens: none is lost, repeated or moved, at  *)
(* most an incomplete character is held back, and as long as the bytes so far  *)
(* are text, perhaps with an incomplete character at the end, what has been    *)
(* printed is all of the whole characters (decode_incremental).                *)
StreamWhole ==
    /\ out \o carry = fed
    /\ Incomplete(carry)
    /\ ~ended => \A n \in 0..Len(fed) :
                    LET head == SubSeq(fed, 1, n)
                        tail == SubSeq(fed, n + 1, Len(fed))
                    IN  Text(head) /\ Incomplete(tail) => out = head
===============================================================================
