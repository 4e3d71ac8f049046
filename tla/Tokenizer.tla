------------------------------ MODULE Tokenizer -------------------------------
(* Byte-pair encoding (tokenizer.cpp): training, encoding, decoding, and the   *)
(* two file formats.  A byte is a number below NBytes, a text a sequence of    *)
(* bytes, a token a nonempty text.  Texts do not contain the byte \x1F that    *)
(* train() joins pairs with.                                                   *)
EXTENDS Integers, SequencesExt

CONSTANTS NBytes, vocab_size,
          Space, Newline, Hash, Quote, Backslash, LetterN,
          Texts, Probes, MaxMerges, MaxTrainings

ASSUME TokenizerAssumption ==
    /\ NBytes \in Nat /\ vocab_size \in Nat /\ NBytes <= vocab_size
    /\ {Space, Newline, Hash, Quote, Backslash, LetterN} \subseteq 0..(NBytes - 1)
    /\ Space \notin {Newline, Hash, Quote, Backslash, LetterN}
    /\ Newline \notin {Hash, Quote, Backslash, LetterN} /\ Hash \notin {Quote, Backslash, LetterN}
    /\ Quote \notin {Backslash, LetterN} /\ Backslash # LetterN
    /\ Texts \subseteq Seq(0..(NBytes - 1)) /\ Probes \subseteq Seq(0..(NBytes - 1))

VARIABLES tok,              \* [merges, vocab]: merges_, and the tokens in the order of their ids
          text, words, left,    \* the training in progress: its text, words, merges still to do
          trainings,
          file, saved       \* what was written, and the tokenizer that wrote it

tok_vars == <<tok, text, words, left, trainings, file, saved>>

-------------------------------------------------------------------------------
NewTokenizer == [merges |-> <<>>, vocab |-> [i \in 1..NBytes |-> <<i - 1>>]]
BytesOf(s) == [i \in 1..Len(s) |-> <<s[i]>>]
Known(t, token) == token \in Range(t.vocab)
IdOf(t, token) == (CHOOSE i \in 1..Len(t.vocab) : t.vocab[i] = token) - 1

\* One pass over the tokens: a merged token is not merged again.
Merged(tokens, m) ==
    FoldLeft(LAMBDA done, w : IF done # <<>> /\ Last(done) = m.a /\ w = m.b
                              THEN Append(Front(done), m.a \o m.b) ELSE Append(done, w),
             <<>>, tokens)

UNK == 3
Tokens(t, s) == FoldLeft(Merged, BytesOf(s), t.merges)
encode(t, s) ==
    LET tokens == Tokens(t, s)
    IN  [i \in DOMAIN tokens |-> IF Known(t, tokens[i]) THEN IdOf(t, tokens[i]) ELSE UNK % vocab_size]

decode(t, ids) == FoldLeft(LAMBDA s, id : s \o t.vocab[id + 1], <<>>, ids)

-------------------------------------------------------------------------------
TokInit == /\ tok = NewTokenizer
           /\ text = <<>> /\ words = <<>> /\ left = 0 /\ trainings = 0
           /\ file = [format |-> "none", merges |-> <<>>, vocab |-> <<>>] /\ saved = NewTokenizer

\* train() starts from the bytes of its text, whatever merges are already known.
Train(s, num_merges) ==
    /\ left = 0 /\ trainings < MaxTrainings
    /\ trainings' = trainings + 1
    /\ text' = s /\ words' = BytesOf(s) /\ left' = num_merges
    /\ UNCHANGED <<tok, file, saved>>

Pairs == {[a |-> words[i], b |-> words[i + 1]] : i \in 1..(Len(words) - 1)}
freq(p) == Cardinality({i \in 1..(Len(words) - 1) : words[i] = p.a /\ words[i + 1] = p.b})

Learnt(t, p) == [merges |-> Append(t.merges, p),
                 vocab |-> IF Known(t, p.a \o p.b) THEN t.vocab ELSE Append(t.vocab, p.a \o p.b)]

\* Mutant: a full vocabulary stops new tokens, but not new merges.
MergeMostFrequentAlways ==
    /\ left > 0 /\ Pairs # {}
    /\ \E p \in Pairs :
         /\ \A other \in Pairs : freq(other) <= freq(p)
         /\ tok' = IF Len(tok.vocab) < vocab_size THEN Learnt(tok, p)
                   ELSE [tok EXCEPT !.merges = Append(@, p)]
         /\ words' = Merged(words, p)
    /\ left' = left - 1
    /\ UNCHANGED <<text, trainings, file, saved>>

\* Among pairs of the same frequency a hash map decides.
MergeMostFrequent ==
    /\ left > 0 /\ Pairs # {} /\ Len(tok.vocab) < vocab_size
    /\ \E p \in Pairs :
         /\ \A other \in Pairs : freq(other) <= freq(p)
         /\ tok' = Learnt(tok, p)
         /\ words' = Merged(words, p)
    /\ left' = left - 1
    /\ UNCHANGED <<text, trainings, file, saved>>

StopTraining == /\ left > 0 /\ (Pairs = {} \/ Len(tok.vocab) >= vocab_size)
                /\ left' = 0
                /\ UNCHANGED <<tok, text, words, trainings, file, saved>>

-------------------------------------------------------------------------------
(* Files.  A merge is a line "a b"; a reader splits it at the first space.     *)
Line(p) == p.a \o <<Space>> \o p.b \o <<Newline>>
LineRead(acc, c) == IF c = Newline THEN [done |-> Append(acc.done, acc.line), line |-> <<>>]
                    ELSE [acc EXCEPT !.line = Append(@, c)]
Lines(bytes) == LET split == FoldLeft(LineRead, [done |-> <<>>, line |-> <<>>], bytes)
                IN  IF split.line = <<>> THEN split.done ELSE Append(split.done, split.line)
Spaces(line) == {i \in DOMAIN line : line[i] = Space}
\* Mutant: at the last space.
SplitAtLast(line) == LET sp == Max(Spaces(line))
                     IN  [a |-> SubSeq(line, 1, sp - 1), b |-> SubSeq(line, sp + 1, Len(line))]
Split(line) == LET sp == Min(Spaces(line))
               IN  [a |-> SubSeq(line, 1, sp - 1), b |-> SubSeq(line, sp + 1, Len(line))]
IsMerge(line) == line # <<>> /\ line[1] # Hash /\ Spaces(line) # {}
MergeRead(ms, line) == IF IsMerge(line) THEN Append(ms, Split(line)) ELSE ms
ReadMerges(bytes) == FoldLeft(MergeRead, <<>>, Lines(bytes))
WrittenMerges(t) == FoldLeft(LAMBDA bytes, p : bytes \o Line(p), <<>>, t.merges)

Escaped(c) == CASE c = Quote -> <<Backslash, Quote>>
                [] c = Backslash -> <<Backslash, Backslash>>
                [] c = Newline -> <<Backslash, LetterN>>
                [] OTHER -> <<c>>
json_escape(token) == FoldLeft(LAMBDA s, c : s \o Escaped(c), <<>>, token)
\* A backslash takes the next byte with it.
Unescaped(c) == CASE c = LetterN -> <<Newline>>
                  [] c \in {Quote, Backslash} -> <<c>>
                  [] OTHER -> <<Backslash, c>>
UnescapeRead(acc, c) == IF acc.escaped THEN [s |-> acc.s \o Unescaped(c), escaped |-> FALSE]
                        ELSE IF c = Backslash THEN [acc EXCEPT !.escaped = TRUE]
                        ELSE [acc EXCEPT !.s = Append(@, c)]
json_unescape(s) == FoldLeft(UnescapeRead, [s |-> <<>>, escaped |-> FALSE], s).s
\* up to the first quote that no backslash takes
KeyRead(acc, c) == IF acc.closed THEN acc
                   ELSE IF acc.escaped THEN [acc EXCEPT !.s = Append(@, c), !.escaped = FALSE]
                   ELSE IF c = Quote THEN [acc EXCEPT !.closed = TRUE]
                   ELSE [acc EXCEPT !.s = Append(@, c), !.escaped = (c = Backslash)]
Key(bytes) == FoldLeft(KeyRead, [s |-> <<>>, escaped |-> FALSE, closed |-> FALSE], bytes).s

save == /\ left = 0
        /\ file' = [format |-> "merges", merges |-> WrittenMerges(tok), vocab |-> <<>>]
        /\ saved' = tok
        /\ UNCHANGED <<tok, text, words, left, trainings>>

\* vocab.json has the tokens by id; merges.txt starts with a #version line.
save_hf == /\ left = 0
           /\ file' = [format |-> "hf", merges |-> <<Hash, LetterN, Newline>> \o WrittenMerges(tok),
                       vocab |-> [i \in DOMAIN tok.vocab |-> json_escape(tok.vocab[i]) \o <<Quote>>]]
           /\ saved' = tok
           /\ UNCHANGED <<tok, text, words, left, trainings>>

\* Into a new tokenizer.  Tokens are added as long as there is room, merges always.
Added(t, p) == IF Len(t.vocab) < vocab_size THEN Learnt(t, p) ELSE [t EXCEPT !.merges = Append(@, p)]
load == /\ left = 0 /\ file.format = "merges"
        /\ tok' = FoldLeft(Added, NewTokenizer, ReadMerges(file.merges))
        /\ UNCHANGED <<text, words, left, trainings, file, saved>>

load_hf == /\ left = 0 /\ file.format = "hf"
           /\ tok' = [merges |-> ReadMerges(file.merges),
                      vocab |-> [i \in DOMAIN file.vocab |-> json_unescape(Key(file.vocab[i]))]]
           /\ UNCHANGED <<text, words, left, trainings, file, saved>>

TokNext == \/ \E s \in Texts, n \in 1..MaxMerges : Train(s, n)
           \/ MergeMostFrequent \/ StopTraining
           \/ save \/ save_hf \/ load \/ load_hf

TokSpec == TokInit /\ [][TokNext]_tok_vars

-------------------------------------------------------------------------------
\* The merges' lines are read as they were written, and made all of the vocabulary.
CleanFile(t) == /\ \A i \in DOMAIN t.merges :
                      LET p == t.merges[i]
                      IN  /\ p.a # <<>> /\ p.b # <<>> /\ p.a[1] # Hash
                          /\ Space \notin Range(p.a) /\ Newline \notin Range(p.a \o p.b)
                /\ t.vocab = FoldLeft(Learnt, NewTokenizer, t.merges).vocab

(* Every text is decoded to itself from its encoding, at any point of any      *)
(* training, also of a tokenizer that was trained or loaded before, and with   *)
(* the vocabulary full; ids stay below vocab_size.                             *)
EncodeDecode ==
    /\ Len(tok.vocab) <= vocab_size
    /\ CleanFile(saved) =>
          \A s \in Probes \cup {text} : decode(tok, encode(tok, s)) = s

(* The encoder cuts the text of a first training into the very words that the  *)
(* training counted its pairs in.                                              *)
SegmentsAsTrained ==
    trainings = 1 /\ file.format = "none" =>
        LET ids == encode(tok, text)
        IN  Len(ids) = Len(words) /\ \A i \in DOMAIN ids : tok.vocab[ids[i] + 1] = words[i]

(* A tokenizer loaded from its own file is the one that wrote it, merges, ids  *)
(* and all, provided no merge starts with '#' or has a space in its first part *)
(* or a newline; from the JSON vocabulary the ids come back whatever bytes the *)
(* tokens contain.                                                             *)
LoadRestores ==
    [][/\ load \/ load_hf => (CleanFile(saved) => tok' = saved)
       /\ load_hf => tok'.vocab = saved.vocab]_tok_vars
===============================================================================
