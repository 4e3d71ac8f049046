---------------------------- MODULE KVCache_proofs ----------------------------
(***************************************************************************)
(* Proofs about KVCache, for every set of caches, lengths, page size and   *)
(* number of layers.                                                       *)
(***************************************************************************)
EXTENDS KVCache, FiniteSetTheorems, WellFoundedInduction, TLAPS

-----------------------------------------------------------------------------
(* Induction over the natural numbers, the property being membership of a  *)
(* set.                                                                    *)

LEMMA Least ==
  ASSUME NEW T \in SUBSET Nat, T # {}
  PROVE  \E x \in T : \A y \in T : x <= y
<1> DEFINE R == OpToRel(<, Nat)
<1>1. IsWellFoundedOn(R, Nat)
  BY NatLessThanWellFounded
<1>2. \E x \in T : \A y \in T : ~(<<y, x>> \in R)
  BY <1>1, WFMin
<1>3. \A x, y \in Nat : <<x, y>> \in R <=> x < y
  BY DEF OpToRel
<1> HIDE DEF R
<1>4. \E x \in T : \A y \in T : ~(y < x)
  BY <1>2, <1>3
<1>. QED
  BY <1>4

LEMMA SetInduction ==
  ASSUME NEW P, 0 \in P, \A n \in Nat : n \in P => n + 1 \in P
  PROVE  \A n \in Nat : n \in P
<1> SUFFICES ASSUME NEW n \in Nat, n \notin P PROVE FALSE
  OBVIOUS
<1> DEFINE T == {m \in Nat : m \notin P}
<1>1. PICK x \in T : \A y \in T : x <= y
  BY Least
<1>2. x # 0 /\ x - 1 \in Nat
  BY <1>1
<1>3. x - 1 \in P
  BY <1>1, <1>2
<1>. QED
  BY <1>1, <1>2, <1>3

-----------------------------------------------------------------------------
(* FlattenSeq of the community modules: what is in the concatenation of a  *)
(* sequence of sequences.                                                  *)

FlatStep(seqs, f, i) == IF i = 1 THEN seqs[i] ELSE f[i-1] \o seqs[i]

Flat(seqs) == CHOOSE f : f = [i \in 1..Len(seqs) |-> FlatStep(seqs, f, i)]

LEMMA FlatUnfold ==
  ASSUME NEW B, NEW seqs \in Seq(Seq(B)), Len(seqs) > 0
  PROVE  /\ FlattenSeq(seqs) = Flat(seqs)[Len(seqs)]
         /\ Flat(seqs)[1] = seqs[1] /\ seqs[1] \in Seq(B)
         /\ \A i \in 1..Len(seqs)-1 : Flat(seqs)[i + 1] = Flat(seqs)[i] \o seqs[i + 1]
<1> DEFINE N == Len(seqs)
           Built(n) == \E g \in [1..n+1 -> Seq(B)] :
                         \A i \in 1..n+1 : g[i] = FlatStep(seqs, g, i)
           S == {n \in Nat : n < N => Built(n)}
<1>0. N \in Nat /\ N > 0 /\ \A i \in 1..N : seqs[i] \in Seq(B)
  OBVIOUS
<1> HIDE DEF N
<1>1. Built(0)
  <2> DEFINE g == [i \in 1..1 |-> seqs[1]]
  <2>1. g \in [1..0+1 -> Seq(B)] /\ \A i \in 1..0+1 : g[i] = FlatStep(seqs, g, i)
    BY <1>0 DEF FlatStep
  <2>. QED
    BY <2>1
<1>2. ASSUME NEW n \in Nat, Built(n), n + 1 < N PROVE Built(n + 1)
  <2>1. PICK g \in [1..n+1 -> Seq(B)] : \A i \in 1..n+1 : g[i] = FlatStep(seqs, g, i)
    BY <1>2
  <2> DEFINE t == g[n+1] \o seqs[n+2]
             h == [i \in 1..n+2 |-> IF i = n + 2 THEN t ELSE g[i]]
  <2>2. t \in Seq(B)
    <3>1. g[n+1] \in Seq(B)
      OBVIOUS
    <3>2. seqs[n+2] \in Seq(B)
      BY <1>0, <1>2
    <3>. QED
      BY <3>1, <3>2
  <2>3. h[n+2] = t /\ \A i \in 1..n+1 : h[i] = g[i]
    <3> HIDE DEF t
    <3>. QED
      OBVIOUS
  <2>4. h \in [1..n+2 -> Seq(B)]
    <3> HIDE DEF t
    <3>. QED
      BY <2>2
  <2>5. h[n+2] = FlatStep(seqs, h, n+2)
    BY <2>3 DEF FlatStep
  <2>6. ASSUME NEW i \in 1..n+1 PROVE h[i] = FlatStep(seqs, h, i)
    <3>1. i = 1 \/ i - 1 \in 1..n+1
      OBVIOUS
    <3> HIDE DEF h
    <3>. QED
      BY <2>1, <2>3, <3>1 DEF FlatStep
  <2>7. ASSUME NEW i \in 1..n+2 PROVE h[i] = FlatStep(seqs, h, i)
    <3>1. i = n + 2 \/ i \in 1..n+1
      OBVIOUS
    <3> HIDE DEF h
    <3>. QED
      BY <2>5, <2>6, <3>1
  <2> HIDE DEF h
  <2>8. n + 2 = (n + 1) + 1
    OBVIOUS
  <2>. QED
    BY <2>4, <2>7, <2>8
<1> HIDE DEF Built
<1>3. 0 \in S /\ \A n \in Nat : n \in S => n + 1 \in S
  BY <1>0, <1>1, <1>2
<1> HIDE DEF S
<1>4. \A n \in Nat : n \in S
  BY <1>3, SetInduction
<1>5. Built(N - 1)
  BY <1>0, <1>4 DEF S
<1>6. PICK g \in [1..N -> Seq(B)] : \A i \in 1..N : g[i] = FlatStep(seqs, g, i)
  <2>1. (N - 1) + 1 = N
    BY <1>0
  <2>. QED
    BY <1>5, <2>1 DEF Built
<1>7. g = [i \in 1..N |-> FlatStep(seqs, g, i)]
  BY <1>6
<1>8. Flat(seqs) = [i \in 1..N |-> FlatStep(seqs, Flat(seqs), i)]
  BY <1>7 DEF Flat, N
<1>9. FlattenSeq(seqs) = Flat(seqs)[N]
  BY <1>0 DEF FlattenSeq, Flat, FlatStep, N
<1>10. \A i \in 1..N : Flat(seqs)[i] = FlatStep(seqs, Flat(seqs), i)
  BY <1>8
<1>11. ASSUME NEW i \in 1..N-1 PROVE Flat(seqs)[i + 1] = Flat(seqs)[i] \o seqs[i + 1]
  <2>1. i + 1 \in 1..N /\ i + 1 # 1 /\ (i + 1) - 1 = i
    BY <1>0
  <2>. QED
    BY <1>10, <2>1 DEF FlatStep
<1>12. Flat(seqs)[1] = seqs[1] /\ seqs[1] \in Seq(B)
  BY <1>0, <1>10 DEF FlatStep
<1>. QED
  BY <1>9, <1>11, <1>12 DEF N

Distinct(s) == \A m, n \in 1..Len(s) : s[m] = s[n] => m = n

LEMMA ConcatElements ==
  ASSUME NEW B, NEW s \in Seq(B), NEW t \in Seq(B)
  PROVE  /\ s \o t \in Seq(B) /\ Len(s \o t) = Len(s) + Len(t)
         /\ \A j \in 1..Len(s \o t) :
              \/ j \in 1..Len(s) /\ (s \o t)[j] = s[j]
              \/ j - Len(s) \in 1..Len(t) /\ (s \o t)[j] = t[j - Len(s)]
<1>1. s \o t \in Seq(B) /\ Len(s \o t) = Len(s) + Len(t)
  OBVIOUS
<1>2. ASSUME NEW j \in 1..Len(s) + Len(t)
      PROVE  \/ j \in 1..Len(s) /\ (s \o t)[j] = s[j]
             \/ j - Len(s) \in 1..Len(t) /\ (s \o t)[j] = t[j - Len(s)]
  OBVIOUS
<1>. QED
  BY <1>1, <1>2

LEMMA ConcatDistinct ==
  ASSUME NEW B, NEW s \in Seq(B), NEW t \in Seq(B), Distinct(s), Distinct(t),
         \A m \in 1..Len(s), n \in 1..Len(t) : s[m] # t[n]
  PROVE  Distinct(s \o t)
<1> DEFINE u == s \o t
<1>1. ASSUME NEW m \in 1..Len(u), NEW n \in 1..Len(u), u[m] = u[n] PROVE m = n
  <2>1. /\ \/ m \in 1..Len(s) /\ u[m] = s[m]
           \/ m - Len(s) \in 1..Len(t) /\ u[m] = t[m - Len(s)]
        /\ \/ n \in 1..Len(s) /\ u[n] = s[n]
           \/ n - Len(s) \in 1..Len(t) /\ u[n] = t[n - Len(s)]
    BY ConcatElements
  <2>2. Len(s) \in Nat /\ m \in Int /\ n \in Int
    OBVIOUS
  <2> HIDE DEF u
  <2>3. CASE m \in 1..Len(s) /\ u[m] = s[m]
    BY <1>1, <2>1, <2>3 DEF Distinct
  <2>4. CASE m - Len(s) \in 1..Len(t) /\ u[m] = t[m - Len(s)]
    BY <1>1, <2>1, <2>2, <2>4 DEF Distinct
  <2>. QED
    BY <2>1, <2>3, <2>4
<1>. QED
  BY <1>1 DEF Distinct

\* No element is at two places of the sequences.
Apart(seqs) ==
    \A i, k \in 1..Len(seqs) : \A p \in 1..Len(seqs[i]), q \in 1..Len(seqs[k]) :
      seqs[i][p] = seqs[k][q] => i = k /\ p = q

From(seqs, n, s) ==
    \A j \in 1..Len(s) : \E i \in 1..n : \E p \in 1..Len(seqs[i]) : s[j] = seqs[i][p]

(***************************************************************************)
(* FlattenSeq holds elements of its sequences only, and holds none twice   *)
(* if they do not.                                                         *)
(***************************************************************************)
LEMMA FlattenFacts ==
  ASSUME NEW B, NEW seqs \in Seq(Seq(B)), Len(seqs) > 0
  PROVE  /\ FlattenSeq(seqs) \in Seq(B)
         /\ From(seqs, Len(seqs), FlattenSeq(seqs))
         /\ Apart(seqs) => Distinct(FlattenSeq(seqs))
<1> DEFINE N == Len(seqs)
           F(n) == Flat(seqs)[n]
           Good(n) == /\ F(n) \in Seq(B) /\ From(seqs, n, F(n))
                      /\ Apart(seqs) => Distinct(F(n))
           S == {n \in Nat : n < N => Good(n + 1)}
<1>0. /\ N \in Nat /\ N > 0 /\ \A i \in 1..N : seqs[i] \in Seq(B)
      /\ FlattenSeq(seqs) = F(N) /\ F(1) = seqs[1]
      /\ \A i \in 1..N-1 : F(i + 1) = F(i) \o seqs[i + 1]
  <2>1. N \in Nat /\ N > 0 /\ \A i \in 1..N : seqs[i] \in Seq(B)
    OBVIOUS
  <2>. QED
    BY <2>1, FlatUnfold
<1> HIDE DEF N, F
<1>1. Good(1)
  <2>1. 1 \in 1..N
    BY <1>0
  <2>2. seqs[1] \in Seq(B) /\ From(seqs, 1, seqs[1])
    BY <1>0, <2>1 DEF From
  <2>3. Apart(seqs) => Distinct(seqs[1])
    BY <2>1 DEF Apart, Distinct, N
  <2>. QED
    BY <1>0, <2>2, <2>3
<1>2. ASSUME NEW n \in 1..N-1, Good(n) PROVE Good(n + 1)
  <2> DEFINE s == F(n)
             t == seqs[n + 1]
  <2>1. /\ n \in Nat /\ n + 1 \in 1..N /\ F(n + 1) = s \o t /\ s \in Seq(B) /\ t \in Seq(B)
        /\ From(seqs, n, s)
    BY <1>0, <1>2
  <2> HIDE DEF s, t
  <2>2. From(seqs, n + 1, s \o t)
    <3> SUFFICES ASSUME NEW j \in 1..Len(s \o t)
                 PROVE  \E i \in 1..n+1 : \E p \in 1..Len(seqs[i]) : (s \o t)[j] = seqs[i][p]
      BY DEF From
    <3>1. CASE j \in 1..Len(s) /\ (s \o t)[j] = s[j]
      <4>1. PICK i \in 1..n : \E p \in 1..Len(seqs[i]) : s[j] = seqs[i][p]
        BY <2>1, <3>1 DEF From
      <4>2. i \in 1..n+1
        BY <2>1
      <4>. QED
        BY <3>1, <4>1, <4>2
    <3>2. CASE j - Len(s) \in 1..Len(t) /\ (s \o t)[j] = t[j - Len(s)]
      <4>1. n + 1 \in 1..n+1
        BY <2>1
      <4>. QED
        BY <3>2, <4>1 DEF t
    <3>. QED
      BY <2>1, <3>1, <3>2, ConcatElements
  <2>3. ASSUME Apart(seqs) PROVE Distinct(s \o t)
    <3>1. Distinct(s)
      BY <1>2, <2>3 DEF s
    <3>2. Distinct(t)
      BY <2>1, <2>3 DEF Apart, Distinct, t, N
    <3>3. ASSUME NEW m \in 1..Len(s), NEW q \in 1..Len(t), s[m] = t[q] PROVE FALSE
      <4>0. PICK i \in 1..n : \E p \in 1..Len(seqs[i]) : s[m] = seqs[i][p]
        BY <2>1 DEF From
      <4>1. PICK p \in 1..Len(seqs[i]) : s[m] = seqs[i][p]
        BY <4>0
      <4>2. i \in 1..N /\ i # n + 1
        BY <1>0, <2>1
      <4>3. seqs[i][p] = seqs[n+1][q] /\ q \in 1..Len(seqs[n+1])
        BY <3>3, <4>1 DEF t
      <4>. QED
        BY <2>1, <2>3, <4>2, <4>3 DEF Apart, N
    <3>. QED
      BY <2>1, <3>1, <3>2, <3>3, ConcatDistinct
  <2>4. s \o t \in Seq(B)
    BY <2>1, ConcatElements
  <2>. QED
    BY <2>1, <2>2, <2>3, <2>4
<1> HIDE DEF Good
<1>3. 0 \in S /\ \A n \in Nat : n \in S => n + 1 \in S
  <2>1. 0 \in S
    BY <1>1
  <2>2. ASSUME NEW n \in Nat, n \in S PROVE n + 1 \in S
    <3>1. n + 1 < N => Good(n + 1) /\ n + 1 \in 1..N-1
      BY <1>0, <2>2
    <3>2. n + 1 < N => Good((n + 1) + 1)
      BY <1>2, <3>1
    <3>. QED
      BY <3>2
  <2>. QED
    BY <2>1, <2>2
<1> HIDE DEF S
<1>4. \A n \in Nat : n \in S
  BY <1>3, SetInduction
<1>5. Good(N)
  <2>1. N - 1 \in Nat /\ N - 1 < N /\ (N - 1) + 1 = N
    BY <1>0
  <2>2. Good((N - 1) + 1)
    BY <1>4, <2>1 DEF S
  <2>. QED
    BY <2>1, <2>2
<1>. QED
  BY <1>0, <1>5 DEF Good, N

-----------------------------------------------------------------------------
(* Rows and pages: row p is row p % PageSize of page p \div PageSize.      *)

LEMMA Divided ==
  ASSUME NEW p \in Nat
  PROVE  /\ p \div PageSize \in Nat /\ p % PageSize \in 0..PageSize-1
         /\ p = PageSize * (p \div PageSize) + (p % PageSize)
BY KVCacheAssumption DEF KVCacheAssumption

LEMMA SamePage ==
  ASSUME NEW p \in Nat, NEW q \in Nat
  PROVE  /\ p <= q => p \div PageSize <= q \div PageSize
         /\ p \div PageSize = q \div PageSize /\ p % PageSize = q % PageSize => p = q
<1> DEFINE a == p \div PageSize
           b == q \div PageSize
<1>1. /\ a \in Nat /\ b \in Nat /\ PageSize \in Nat
      /\ p % PageSize \in 0..PageSize-1 /\ q % PageSize \in 0..PageSize-1
      /\ p = PageSize * a + (p % PageSize) /\ q = PageSize * b + (q % PageSize)
  BY Divided, KVCacheAssumption DEF KVCacheAssumption
<1> HIDE DEF a, b
<1>2. ASSUME p <= q, b < a PROVE FALSE
  <2>1. PageSize * (b + 1) <= PageSize * a
    <3>1. PICK d \in Nat : a = (b + 1) + d
      <4>1. a - (b + 1) \in Nat /\ a = (b + 1) + (a - (b + 1))
        BY <1>1, <1>2
      <4>. QED
        BY <4>1
    <3>2. PageSize * a = PageSize * (b + 1) + PageSize * d /\ PageSize * d \in Nat
      BY <1>1, <3>1
    <3>3. PageSize * (b + 1) \in Nat
      BY <1>1
    <3>. QED
      BY <3>2, <3>3
  <2>2. PageSize * (b + 1) = PageSize * b + PageSize /\ PageSize * b \in Nat /\ PageSize * a \in Nat
    BY <1>1
  <2>. QED
    BY <1>1, <1>2, <2>1, <2>2
<1>3. p <= q => a <= b
  BY <1>1, <1>2
<1>4. a = b /\ p % PageSize = q % PageSize => p = q
  BY <1>1
<1>. QED
  BY <1>3, <1>4 DEF a, b

-----------------------------------------------------------------------------
(* The pieces of NoSharing.                                                *)

Owned(b) == \E c \in Caches, s \in Stores, l \in Layers :
              \E p \in 1..Len(pages[c][s][l]) : pages[c][s][l][p] = b

OnePlace ==
    \A c, d \in Caches, s, t \in Stores, l, m \in Layers :
      \A p \in 1..Len(pages[c][s][l]), q \in 1..Len(pages[d][t][m]) :
        pages[c][s][l][p] = pages[d][t][m][q] => <<c, s, l, p>> = <<d, t, m, q>>

Apiece == /\ Distinct(free)
          /\ \A n \in 1..Len(free) : ~Owned(free[n])
          /\ OnePlace

LEMMA AtOnePlace ==
  ASSUME OnePlace, NEW c \in Caches, NEW d \in Caches, NEW s \in Stores, NEW t \in Stores,
         NEW l \in Layers, NEW m \in Layers,
         NEW p \in 1..Len(pages[c][s][l]), NEW q \in 1..Len(pages[d][t][m]),
         pages[c][s][l][p] = pages[d][t][m][q]
  PROVE  c = d /\ s = t /\ l = m /\ p = q
<1>1. \A i \in 1..Len(pages[c][s][l]), j \in 1..Len(pages[d][t][m]) :
        pages[c][s][l][i] = pages[d][t][m][j] => <<c, s, l, i>> = <<d, t, m, j>>
  BY DEF OnePlace
<1>2. <<c, s, l, p>> = <<d, t, m, q>>
  BY <1>1
<1>. QED
  BY <1>2

\* NoSharing is about the pages and the pool alone.
LEMMA SamePlaces ==
  ASSUME Apiece, UNCHANGED <<pages, free>>
  PROVE  Apiece'
<1>1. Distinct(free)'
  BY DEF Apiece, Distinct
<1>2. (\A n \in 1..Len(free) : ~Owned(free[n]))'
  BY DEF Apiece, Owned
<1>3. OnePlace'
  BY DEF Apiece, OnePlace
<1>. QED
  BY <1>1, <1>2, <1>3 DEF Apiece

LEMMA PageTypes ==
  ASSUME TypeOK, NEW c \in Caches, NEW s \in Stores, NEW l \in Layers
  PROVE  /\ pages[c][s][l] \in Seq(Buffers) /\ Len(pages[c][s][l]) \in Nat
         /\ DOMAIN pages[c][s][l] = 1..Len(pages[c][s][l])
BY DEF TypeOK

LEMMA InUseIsOwned ==
  ASSUME TypeOK
  PROVE  /\ \A b : b \in InUse <=> Owned(b)
         /\ \A b : b \in InPool <=> \E n \in 1..Len(free) : free[n] = b
         /\ \A b : b \in Heap <=>
              b \in Buffers /\ ~Owned(b) /\ \A n \in 1..Len(free) : free[n] # b
<1>1. \A b : b \in InUse <=> Owned(b)
  <2>1. ASSUME NEW b, b \in InUse PROVE Owned(b)
    <3>1. PICK c \in Caches, s \in Stores, l \in Layers : b \in Range(pages[c][s][l])
      BY <2>1 DEF InUse
    <3>2. PICK p \in 1..Len(pages[c][s][l]) : pages[c][s][l][p] = b
      BY <3>1, PageTypes DEF Range
    <3>. QED
      BY <3>2 DEF Owned
  <2>2. ASSUME NEW b, Owned(b) PROVE b \in InUse
    <3>1. PICK c \in Caches, s \in Stores, l \in Layers :
            \E p \in 1..Len(pages[c][s][l]) : pages[c][s][l][p] = b
      BY <2>2 DEF Owned
    <3>2. b \in Range(pages[c][s][l])
      BY <3>1, PageTypes DEF Range
    <3>. QED
      BY <3>2 DEF InUse
  <2>. QED
    BY <2>1, <2>2
<1>2. \A b : b \in InPool <=> \E n \in 1..Len(free) : free[n] = b
  <2>1. DOMAIN free = 1..Len(free)
    BY DEF TypeOK
  <2>. QED
    BY <2>1 DEF InPool, Range
<1>. QED
  BY <1>1, <1>2 DEF Heap

LEMMA NoSharingIsApiece ==
  ASSUME TypeOK
  PROVE  NoSharing <=> Apiece
<1>1. InUse \cap InPool = {} <=> \A n \in 1..Len(free) : ~Owned(free[n])
  BY InUseIsOwned
<1>. QED
  BY <1>1 DEF NoSharing, Apiece, OnePlace, Distinct

-----------------------------------------------------------------------------
(* What acquire hands out, and what an update and evict() do to the pages. *)

(***************************************************************************)
(* The n pages acquired are distinct, in no cache, and no longer in what   *)
(* is left of the pool.                                                    *)
(***************************************************************************)
LEMMA HitsBound ==
  ASSUME TypeOK, NEW c, NEW n \in Nat
  PROVE  /\ Hits(c, n) \in 0..Len(free) /\ Hits(c, n) <= n
         /\ c \in Pooled /\ Hits(c, n) < n => Hits(c, n) = Len(free)
         /\ c \notin Pooled => Hits(c, n) = 0
BY DEF TypeOK, Hits

LEMMA AcquiredFacts ==
  ASSUME TypeOK, Apiece, NEW c, NEW n \in Nat, NEW new \in Acquired(c, n)
  PROVE  /\ new \in Seq(Buffers) /\ Len(new) = n /\ Distinct(new)
         /\ \A i \in 1..n : ~Owned(new[i])
         /\ \A i \in 1..n, m \in 1..Len(free) - Hits(c, n) : new[i] # free[m]
         /\ \A i \in 1..n : i <= Hits(c, n) => new[i] = free[Len(free) + 1 - i]
<1> DEFINE h == Hits(c, n)
           top == [i \in 1..h |-> free[Len(free) + 1 - i]]
<1>0. /\ h \in 0..Len(free) /\ h <= n /\ Len(free) \in Nat /\ n - h \in Nat
      /\ free \in Seq(Buffers) /\ \A i \in 1..Len(free) : free[i] \in Buffers
  BY HitsBound DEF TypeOK
<1>1. PICK fresh \in Injection(1..n - h, Heap) : new = top \o fresh
  BY DEF Acquired
<1> HIDE DEF h
<1>2. /\ top \in Seq(Buffers) /\ Len(top) = h
      /\ \A i \in 1..h : top[i] = free[Len(free) + 1 - i] /\ Len(free) + 1 - i \in 1..Len(free)
  BY <1>0
<1>3. /\ fresh \in [1..n - h -> Heap]
      /\ \A i, j \in 1..n - h : fresh[i] = fresh[j] => i = j
  BY DEF Injection, IsInjective
<1>4. fresh \in Seq(Buffers) /\ Len(fresh) = n - h
  <2>1. fresh \in [1..n - h -> Buffers]
    BY <1>3 DEF Heap
  <2>. QED
    BY <1>0, <2>1
<1>5. \A i \in 1..n - h : ~Owned(fresh[i]) /\ \A m \in 1..Len(free) : free[m] # fresh[i]
  BY <1>3, InUseIsOwned
<1> HIDE DEF top
<1>6. Distinct(top)
  <2> SUFFICES ASSUME NEW i \in 1..h, NEW j \in 1..h, top[i] = top[j] PROVE i = j
    BY <1>2 DEF Distinct
  <2> DEFINE m == Len(free) + 1 - i
             k == Len(free) + 1 - j
  <2>1. free[m] = free[k] /\ m \in 1..Len(free) /\ k \in 1..Len(free)
    BY <1>2
  <2>2. m = k
    <3> HIDE DEF m, k
    <3>. QED
      BY <2>1 DEF Distinct, Apiece
  <2>. QED
    BY <1>0, <2>2
<1>7. Distinct(fresh)
  BY <1>3, <1>4 DEF Distinct
<1>8. \A i \in 1..Len(top), j \in 1..Len(fresh) : top[i] # fresh[j]
  BY <1>2, <1>4, <1>5
<1>9. new \in Seq(Buffers) /\ Len(new) = n /\ Distinct(new)
  <2>1. Distinct(top \o fresh)
    BY <1>2, <1>4, <1>6, <1>7, <1>8, ConcatDistinct
  <2>2. top \o fresh \in Seq(Buffers) /\ Len(top \o fresh) = h + (n - h)
    BY <1>2, <1>4, ConcatElements
  <2>. QED
    BY <1>0, <1>1, <2>1, <2>2
<1>10. ASSUME NEW i \in 1..n
       PROVE  \/ i \in 1..h /\ new[i] = free[Len(free) + 1 - i]
              \/ i - h \in 1..n - h /\ new[i] = fresh[i - h]
  <2>1. \/ i \in 1..Len(top) /\ new[i] = top[i]
        \/ i - Len(top) \in 1..Len(fresh) /\ new[i] = fresh[i - Len(top)]
    BY <1>1, <1>2, <1>4, <1>9, ConcatElements
  <2>. QED
    BY <1>2, <1>4, <2>1
<1>11. ASSUME NEW i \in 1..n PROVE ~Owned(new[i])
  BY <1>2, <1>5, <1>10 DEF Apiece
<1>12. ASSUME NEW i \in 1..n, NEW m \in 1..Len(free) - h PROVE new[i] # free[m]
  <2>1. m \in 1..Len(free) /\ h \in Nat
    BY <1>0
  <2>2. CASE i \in 1..h /\ new[i] = free[Len(free) + 1 - i]
    <3>1. Len(free) + 1 - i # m /\ Len(free) + 1 - i \in 1..Len(free)
      BY <1>0, <1>2, <2>2
    <3>. QED
      BY <2>1, <2>2, <3>1 DEF Apiece, Distinct
  <2>3. CASE i - h \in 1..n - h /\ new[i] = fresh[i - h]
    BY <1>5, <2>1, <2>3
  <2>. QED
    BY <1>10, <2>2, <2>3
<1>13. ASSUME NEW i \in 1..n, i <= h PROVE new[i] = free[Len(free) + 1 - i]
  BY <1>0, <1>10, <1>13
<1>. QED
  BY <1>9, <1>11, <1>12, <1>13 DEF h

Paired == \A c \in Caches, l \in Layers : Len(pages[c]["k"][l]) = Len(pages[c]["v"][l])

First(s) == IF s = "k" THEN 1 ELSE 0

\* The pairs of pages a store of n rows adds to the layer.
Grown(c, l, n) == IF len[c] > LastRow(c, n) THEN 0 ELSE Short(c, l, LastRow(c, n))

LEMMA GrownFacts ==
  ASSUME TypeOK, NEW c \in Caches, NEW l \in Layers, NEW n \in 1..MaxRows
  PROVE  /\ Grown(c, l, n) \in Nat /\ Wanted(c, l, n) = 2 * Grown(c, l, n)
         /\ LastRow(c, n) \in 0..MaxLen[c]-1 /\ LastRow(c, n) + 1 = Cut(c, len[c] + n)
         /\ len[c] \in Nat /\ MaxLen[c] \in Nat /\ n \in Nat
         /\ len[c] <= LastRow(c, n) =>
              LastRow(c, n) \div PageSize < Len(pages[c]["k"][l]) + Grown(c, l, n)
         /\ Grown(c, l, n) > 0 =>
              Len(pages[c]["k"][l]) + Grown(c, l, n) = LastRow(c, n) \div PageSize + 1
<1> DEFINE r == LastRow(c, n)
           have == Len(pages[c]["k"][l])
<1>1. len[c] \in 0..MaxLen[c] /\ MaxLen[c] \in Nat \ {0} /\ n \in Nat \ {0}
  BY KVCacheAssumption DEF KVCacheAssumption, TypeOK
<1>2. r \in 0..MaxLen[c]-1 /\ r + 1 = Cut(c, len[c] + n)
  BY <1>1 DEF LastRow, Cut
<1>3. have \in Nat /\ r \div PageSize \in Nat
  <2>1. have \in Nat
    BY PageTypes DEF Stores
  <2>2. r \in Nat
    BY <1>1, <1>2
  <2>. QED
    BY <2>1, <2>2, Divided
<1>4. /\ have < r \div PageSize + 1 => Short(c, l, r) = (r \div PageSize + 1) - have
      /\ ~(have < r \div PageSize + 1) => Short(c, l, r) = 0
  <2> HIDE DEF r
  <2>. QED
    BY DEF Short
<1> HIDE DEF r, have
<1>5. Short(c, l, r) \in Nat
  BY <1>3, <1>4
<1>6. r \div PageSize < have + Short(c, l, r)
  BY <1>3, <1>4
<1>7. Short(c, l, r) > 0 => have + Short(c, l, r) = r \div PageSize + 1
  BY <1>3, <1>4
<1>8. CASE len[c] > r
  <2>1. Grown(c, l, n) = 0 /\ Wanted(c, l, n) = 0
    BY <1>8 DEF Grown, Wanted, r
  <2>2. len[c] <= r => FALSE
    BY <1>1, <1>2, <1>8
  <2>. QED
    BY <1>1, <1>2, <2>1, <2>2 DEF r
<1>9. CASE ~(len[c] > r)
  <2>1. Grown(c, l, n) = Short(c, l, r) /\ Wanted(c, l, n) = 2 * Short(c, l, r)
    BY <1>9 DEF Grown, Wanted, r
  <2>. QED
    BY <1>1, <1>2, <1>5, <1>6, <1>7, <2>1 DEF r, have
<1>. QED
  BY <1>8, <1>9

\* m pairs of pages.
Pairs(new, m) == m \in Nat /\ new \in Seq(Buffers) /\ Len(new) = 2 * m

LEMMA EveryFacts ==
  ASSUME NEW new, NEW m, Pairs(new, m), NEW s \in Stores
  PROVE  /\ Every(new, First(s)) \in Seq(Buffers) /\ Len(Every(new, First(s))) = m
         /\ \A j \in 1..m : /\ Every(new, First(s))[j] = new[2 * j - First(s)]
                            /\ 2 * j - First(s) \in 1..2 * m
<1>0. m \in Nat /\ new \in Seq(Buffers) /\ Len(new) = 2 * m
  BY DEF Pairs
<1>1. First(s) \in {0, 1}
  BY DEF First
<1>2. Len(new) \div 2 = m
  BY <1>0
<1>3. \A j \in 1..m : 2 * j - First(s) \in 1..2 * m
  BY <1>0, <1>1
<1>4. \A j \in 1..m : new[2 * j - First(s)] \in Buffers
  BY <1>0, <1>3
<1>5. Every(new, First(s)) = [j \in 1..m |-> new[2 * j - First(s)]]
  BY <1>2 DEF Every
<1>6. [j \in 1..m |-> new[2 * j - First(s)]] \in Seq(Buffers)
  BY <1>0, <1>4
<1>. QED
  BY <1>0, <1>3, <1>5, <1>6

NewPages(c, l, new, s) == pages[c][s][l] \o Every(new, First(s))

LEMMA NewPagesFacts ==
  ASSUME TypeOK, NEW c \in Caches, NEW l \in Layers, NEW s \in Stores,
         NEW new, NEW m, Pairs(new, m)
  PROVE  /\ m \in Nat
         /\ NewPages(c, l, new, s) \in Seq(Buffers) /\ Len(pages[c][s][l]) \in Nat
         /\ Len(NewPages(c, l, new, s)) = Len(pages[c][s][l]) + m
         /\ \A p \in 1..Len(pages[c][s][l]) : NewPages(c, l, new, s)[p] = pages[c][s][l][p]
         /\ \A p \in 1..Len(NewPages(c, l, new, s)) : p > Len(pages[c][s][l]) =>
              /\ NewPages(c, l, new, s)[p] = new[2 * (p - Len(pages[c][s][l])) - First(s)]
              /\ 2 * (p - Len(pages[c][s][l])) - First(s) \in 1..2 * m
<1> DEFINE old == pages[c][s][l]
           L == Len(old)
           add == Every(new, First(s))
           own == NewPages(c, l, new, s)
<1>1. old \in Seq(Buffers) /\ L \in Nat /\ m \in Nat
  BY PageTypes DEF Pairs
<1>2. /\ add \in Seq(Buffers) /\ Len(add) = m
      /\ \A j \in 1..m : add[j] = new[2 * j - First(s)] /\ 2 * j - First(s) \in 1..2 * m
  BY EveryFacts
<1>3. own = old \o add
  BY DEF NewPages
<1> HIDE DEF old, add, own
<1>4. /\ own \in Seq(Buffers) /\ Len(own) = L + m
      /\ \A p \in 1..L : own[p] = old[p]
  <2>1. own \in Seq(Buffers) /\ Len(own) = L + m
    BY <1>1, <1>2, <1>3, ConcatElements DEF L
  <2>2. ASSUME NEW p \in 1..L PROVE own[p] = old[p]
    <3>1. p \in 1..Len(own) /\ ~(p - L \in 1..m)
      BY <1>1, <2>1
    <3>. QED
      BY <1>1, <1>2, <1>3, <3>1, ConcatElements DEF L
  <2>. QED
    BY <2>1, <2>2
<1>5. ASSUME NEW p \in 1..Len(own), p > L
      PROVE  own[p] = new[2 * (p - L) - First(s)] /\ 2 * (p - L) - First(s) \in 1..2 * m
  <2>1. p - L \in 1..m /\ ~(p \in 1..L)
    BY <1>1, <1>4, <1>5
  <2>2. own[p] = add[p - L]
    BY <1>1, <1>2, <1>3, <2>1, ConcatElements DEF L
  <2>. QED
    BY <1>2, <2>1, <2>2
<1>. QED
  BY <1>1, <1>4, <1>5 DEF old, own

\* Update's parts: new are the pages it takes; row o of page b is written.
WrittenAt(c, l, n, new, b, o) ==
    \E p \in len[c]..LastRow(c, n), s \in Stores :
      NewPages(c, l, new, s)[p \div PageSize + 1] = b /\ p % PageSize = o

Stored(c, l, n, x, new, m) ==
    /\ m \in Nat /\ new \in Acquired(c, 2 * m)
    /\ pages' \in [Caches -> [Stores -> [Layers -> Seq(Buffers)]]]
    /\ \A s \in Stores : pages'[c][s][l] = NewPages(c, l, new, s)
    /\ \A d \in Caches, s \in Stores, k \in Layers :
         (d # c \/ k # l) => pages'[d][s][k] = pages[d][s][k]
    /\ content' = [b \in Buffers |-> [o \in 0..PageSize-1 |->
                     IF WrittenAt(c, l, n, new, b, o) THEN x ELSE Filled(new)[b][o]]]
    /\ free' = SubSeq(free, 1, Len(free) - Hits(c, Len(new)))

LEMMA StoreFacts ==
  ASSUME TypeOK, Apiece, NEW c \in Caches, NEW l \in Layers, NEW n \in 1..MaxRows,
         NEW x, Update(c, l, n, x)
  PROVE  \E new : Stored(c, l, n, x, new, Grown(c, l, n))
<1> DEFINE m == Grown(c, l, n)
<1>1. m \in Nat /\ Wanted(c, l, n) = 2 * m
  BY GrownFacts
<1> HIDE DEF m
<1> DEFINE own(new) == [s \in Stores |->
                          pages[c][s][l] \o Every(new, IF s = "k" THEN 1 ELSE 0)]
           At(new, b, o) == \E p \in len[c]..LastRow(c, n), s \in Stores :
                              own(new)[s][p \div PageSize + 1] = b /\ p % PageSize = o
<1>2. PICK new \in Acquired(c, 2 * m) :
        /\ pages' = [pages EXCEPT ![c]["k"][l] = own(new)["k"], ![c]["v"][l] = own(new)["v"]]
        /\ content' = [b \in Buffers |-> [o \in 0..PageSize-1 |->
                         IF At(new, b, o) THEN x ELSE Filled(new)[b][o]]]
        /\ free' = SubSeq(free, 1, Len(free) - Hits(c, Len(new)))
  BY <1>1 DEF Update
<1>3. \A s \in Stores : own(new)[s] = NewPages(c, l, new, s)
  BY DEF NewPages, First
<1> HIDE DEF own
<1>4. Pairs(new, m)
  BY <1>1, AcquiredFacts DEF Pairs
<1>5. \A s \in Stores : NewPages(c, l, new, s) \in Seq(Buffers)
  BY <1>1, <1>4, NewPagesFacts
<1>6. own(new)["k"] \in Seq(Buffers) /\ own(new)["v"] \in Seq(Buffers)
  BY <1>3, <1>5 DEF Stores
<1>7. pages \in [Caches -> [Stores -> [Layers -> Seq(Buffers)]]]
  BY DEF TypeOK
<1>8. pages' \in [Caches -> [Stores -> [Layers -> Seq(Buffers)]]]
  BY <1>2, <1>6, <1>7 DEF Stores
<1>9. \A s \in Stores : pages'[c][s][l] = own(new)[s]
  BY <1>2, <1>7 DEF Stores
<1>10. \A d \in Caches, s \in Stores, k \in Layers :
         (d # c \/ k # l) => pages'[d][s][k] = pages[d][s][k]
  BY <1>2, <1>7 DEF Stores
<1>11. \A b, o : At(new, b, o) <=> WrittenAt(c, l, n, new, b, o)
  BY <1>3 DEF WrittenAt
<1> HIDE DEF At
<1>12. content' = [b \in Buffers |-> [o \in 0..PageSize-1 |->
                     IF WrittenAt(c, l, n, new, b, o) THEN x ELSE Filled(new)[b][o]]]
  BY <1>2, <1>11
<1>13. \A s \in Stores : pages'[c][s][l] = NewPages(c, l, new, s)
  BY <1>3, <1>9
<1>14. Stored(c, l, n, x, new, m)
  BY <1>1, <1>2, <1>8, <1>10, <1>12, <1>13 DEF Stored
<1>. QED
  BY <1>14 DEF m

LEMMA Taken ==
  ASSUME TypeOK, Apiece, NEW c, NEW l, NEW n, NEW x, NEW new, NEW m, Stored(c, l, n, x, new, m)
  PROVE  /\ Pairs(new, m) /\ Distinct(new)
         /\ \A i \in 1..2 * m : ~Owned(new[i])
         /\ \A i \in 1..2 * m, j \in 1..Len(free) - Hits(c, 2 * m) : new[i] # free[j]
<1> DEFINE k == 2 * m
<1>1. m \in Nat /\ k \in Nat /\ new \in Acquired(c, k)
  BY DEF Stored
<1> HIDE DEF k
<1>2. /\ new \in Seq(Buffers) /\ Len(new) = k /\ Distinct(new)
      /\ \A i \in 1..k : ~Owned(new[i])
      /\ \A i \in 1..k, j \in 1..Len(free) - Hits(c, k) : new[i] # free[j]
  BY <1>1, AcquiredFacts
<1>. QED
  BY <1>1, <1>2 DEF k, Pairs

NewIndex(c, l, s, p) == 2 * (p - Len(pages[c]["k"][l])) - First(s)

CameFrom(c, l, new, m, d, s, k, p) ==
    \/ p \in 1..Len(pages[d][s][k]) /\ pages'[d][s][k][p] = pages[d][s][k][p]
    \/ /\ d = c /\ k = l /\ NewIndex(c, l, s, p) \in 1..2 * m
       /\ pages'[d][s][k][p] = new[NewIndex(c, l, s, p)]

\* A page after the update is one of before or one of those acquired.
LEMMA PlacesStored ==
  ASSUME TypeOK, Apiece, Paired, NEW c \in Caches, NEW l \in Layers, NEW n \in 1..MaxRows,
         NEW x, NEW new, NEW m, Stored(c, l, n, x, new, m),
         NEW d \in Caches, NEW s \in Stores, NEW k \in Layers,
         NEW p \in 1..Len(pages'[d][s][k])
  PROVE  CameFrom(c, l, new, m, d, s, k, p)
<1> DEFINE L == Len(pages[c][s][l])
           own == NewPages(c, l, new, s)
<1>1. Pairs(new, m) /\ m \in Nat
  BY Taken DEF Pairs
<1>2. L \in Nat /\ Len(own) = L + m
  BY <1>1, NewPagesFacts
<1>3. L = Len(pages[c]["k"][l])
  BY DEF Paired, Stores
<1>4. CASE d = c /\ k = l
  <2>1. pages'[d][s][k] = own
    BY <1>4 DEF Stored
  <2>2. p \in 1..Len(own)
    BY <2>1
  <2>3. NewIndex(c, l, s, p) = 2 * (p - L) - First(s)
    BY <1>3 DEF NewIndex
  <2>4. CASE p \in 1..L
    <3>1. own[p] = pages[c][s][l][p]
      BY <1>1, <2>4, NewPagesFacts
    <3>. QED
      BY <1>4, <2>1, <2>4, <3>1 DEF CameFrom
  <2>5. CASE p > L
    <3>1. own[p] = new[2 * (p - L) - First(s)] /\ 2 * (p - L) - First(s) \in 1..2 * m
      BY <1>1, <2>2, <2>5, NewPagesFacts
    <3>. QED
      BY <1>4, <2>1, <2>3, <3>1 DEF CameFrom
  <2>6. p \in 1..L \/ p > L
    <3> HIDE DEF L, own
    <3>. QED
      BY <1>2, <2>2
  <2>. QED
    BY <2>4, <2>5, <2>6
<1>5. CASE d # c \/ k # l
  BY <1>5 DEF Stored, CameFrom
<1>. QED
  BY <1>4, <1>5

LEMMA SameNewIndex ==
  ASSUME TypeOK, NEW c \in Caches, NEW l \in Layers, NEW s \in Stores, NEW t \in Stores,
         NEW p \in Nat, NEW q \in Nat, NewIndex(c, l, s, p) = NewIndex(c, l, t, q)
  PROVE  s = t /\ p = q
<1>1. Len(pages[c]["k"][l]) \in Nat
  BY PageTypes DEF Stores
<1>2. \A r \in Stores : (r = "k" /\ First(r) = 1) \/ (r = "v" /\ First(r) = 0)
  BY DEF First, Stores
<1>3. /\ (s = "k" /\ First(s) = 1) \/ (s = "v" /\ First(s) = 0)
      /\ (t = "k" /\ First(t) = 1) \/ (t = "v" /\ First(t) = 0)
  BY <1>2
<1> DEFINE L == Len(pages[c]["k"][l])
<1>4. 2 * (p - L) - First(s) = 2 * (q - L) - First(t)
  BY DEF NewIndex
<1>5. L \in Nat
  BY <1>1
<1> HIDE DEF L
<1>. QED
  BY <1>3, <1>4, <1>5

LEMMA StoreKeepsOnePlace ==
  ASSUME TypeOK, Apiece, Paired, NEW c \in Caches, NEW l \in Layers, NEW n \in 1..MaxRows,
         NEW x, NEW new, NEW m, Stored(c, l, n, x, new, m)
  PROVE  OnePlace'
<1> SUFFICES ASSUME NEW d \in Caches, NEW e \in Caches, NEW s \in Stores, NEW t \in Stores,
                    NEW j \in Layers, NEW k \in Layers,
                    NEW p \in 1..Len(pages'[d][s][j]), NEW q \in 1..Len(pages'[e][t][k]),
                    pages'[d][s][j][p] = pages'[e][t][k][q]
             PROVE  <<d, s, j, p>> = <<e, t, k, q>>
  BY DEF OnePlace
<1> DEFINE a == pages'[d][s][j][p]
           b == pages'[e][t][k][q]
<1>1. /\ m \in Nat /\ Len(new) = 2 * m /\ Distinct(new)
      /\ \A i \in 1..2*m : ~Owned(new[i])
  BY Taken DEF Pairs
<1>2. \/ p \in 1..Len(pages[d][s][j]) /\ a = pages[d][s][j][p]
      \/ d = c /\ j = l /\ NewIndex(c, l, s, p) \in 1..2*m /\ a = new[NewIndex(c, l, s, p)]
  <2>1. CameFrom(c, l, new, m, d, s, j, p)
    BY PlacesStored
  <2>. QED
    BY <2>1 DEF CameFrom
<1>3. \/ q \in 1..Len(pages[e][t][k]) /\ b = pages[e][t][k][q]
      \/ e = c /\ k = l /\ NewIndex(c, l, t, q) \in 1..2*m /\ b = new[NewIndex(c, l, t, q)]
  <2>1. CameFrom(c, l, new, m, e, t, k, q)
    BY PlacesStored
  <2>. QED
    BY <2>1 DEF CameFrom
<1>4. a = b /\ p \in Nat /\ q \in Nat
  OBVIOUS
<1> HIDE DEF a, b
<1>5. CASE /\ p \in 1..Len(pages[d][s][j]) /\ a = pages[d][s][j][p]
           /\ q \in 1..Len(pages[e][t][k]) /\ b = pages[e][t][k][q]
  <2>1. pages[d][s][j][p] = pages[e][t][k][q]
    BY <1>4, <1>5
  <2>2. \A i \in 1..Len(pages[d][s][j]), r \in 1..Len(pages[e][t][k]) :
          pages[d][s][j][i] = pages[e][t][k][r] => <<d, s, j, i>> = <<e, t, k, r>>
    BY DEF Apiece, OnePlace
  <2>. QED
    BY <1>5, <2>1, <2>2
<1>6. CASE /\ d = c /\ j = l /\ NewIndex(c, l, s, p) \in 1..2*m /\ a = new[NewIndex(c, l, s, p)]
           /\ e = c /\ k = l /\ NewIndex(c, l, t, q) \in 1..2*m /\ b = new[NewIndex(c, l, t, q)]
  <2>1. NewIndex(c, l, s, p) = NewIndex(c, l, t, q)
    BY <1>1, <1>4, <1>6 DEF Distinct
  <2>. QED
    BY <1>4, <1>6, <2>1, SameNewIndex
<1>7. ASSUME p \in 1..Len(pages[d][s][j]), a = pages[d][s][j][p] PROVE Owned(a)
  BY <1>7 DEF Owned
<1>8. ASSUME q \in 1..Len(pages[e][t][k]), b = pages[e][t][k][q] PROVE Owned(b)
  BY <1>8 DEF Owned
<1>. QED
  BY <1>1, <1>2, <1>3, <1>4, <1>5, <1>6, <1>7, <1>8

LEMMA StoreKeepsApiece ==
  ASSUME TypeOK, Apiece, Paired, NEW c \in Caches, NEW l \in Layers, NEW n \in 1..MaxRows,
         NEW x, NEW new, NEW m, Stored(c, l, n, x, new, m)
  PROVE  Apiece' /\ Paired' /\ free' \in Seq(Buffers)
<1> DEFINE h == Hits(c, 2 * m)
<1>1. /\ m \in Nat /\ Len(new) = 2 * m /\ Pairs(new, m)
      /\ \A i \in 1..2*m, j \in 1..Len(free) - h : new[i] # free[j]
  BY Taken DEF Pairs
<1>2. h \in 0..Len(free) /\ free \in Seq(Buffers) /\ Len(free) \in Nat
  BY <1>1, HitsBound DEF TypeOK
<1>3. free' = SubSeq(free, 1, Len(free) - h)
  BY <1>1 DEF Stored
<1> HIDE DEF h
<1>4. /\ free' \in Seq(Buffers) /\ Len(free') = Len(free) - h
      /\ \A i \in 1..Len(free') : free'[i] = free[i] /\ i \in 1..Len(free)
  BY <1>2, <1>3
<1>5. Distinct(free')
  BY <1>4 DEF Apiece, Distinct
<1>6. ASSUME NEW i \in 1..Len(free') PROVE ~Owned(free[i])'
  <2> SUFFICES ASSUME NEW d \in Caches, NEW s \in Stores, NEW k \in Layers,
                      NEW p \in 1..Len(pages'[d][s][k]), pages'[d][s][k][p] = free'[i]
               PROVE  FALSE
    BY DEF Owned
  <2>1. free'[i] = free[i] /\ i \in 1..Len(free) /\ i \in 1..Len(free) - h
    BY <1>4
  <2>2. CASE p \in 1..Len(pages[d][s][k]) /\ pages'[d][s][k][p] = pages[d][s][k][p]
    <3>1. Owned(free[i])
      BY <2>1, <2>2 DEF Owned
    <3>. QED
      BY <2>1, <3>1 DEF Apiece
  <2>3. CASE /\ NewIndex(c, l, s, p) \in 1..2 * m
             /\ pages'[d][s][k][p] = new[NewIndex(c, l, s, p)]
    BY <1>1, <2>1, <2>3
  <2>4. CameFrom(c, l, new, m, d, s, k, p)
    BY PlacesStored
  <2>. QED
    BY <2>2, <2>3, <2>4 DEF CameFrom
<1>7. Apiece'
  BY <1>5, <1>6, StoreKeepsOnePlace DEF Apiece
<1>8. ASSUME NEW d \in Caches, NEW k \in Layers
      PROVE  Len(pages'[d]["k"][k]) = Len(pages'[d]["v"][k])
  <2>1. "k" \in Stores /\ "v" \in Stores
    BY DEF Stores
  <2>2. CASE d = c /\ k = l
    <3>1. \A s \in Stores : Len(NewPages(c, l, new, s)) = Len(pages[c][s][l]) + m
      BY <1>1, NewPagesFacts
    <3>2. Len(NewPages(c, l, new, "k")) = Len(NewPages(c, l, new, "v"))
      BY <2>1, <3>1 DEF Paired
    <3>. QED
      BY <2>1, <2>2, <3>2 DEF Stored
  <2>3. CASE d # c \/ k # l
    BY <2>1, <2>3 DEF Paired, Stored
  <2>. QED
    BY <2>2, <2>3
<1>9. Paired'
  BY <1>8 DEF Paired
<1>. QED
  BY <1>4, <1>7, <1>9

\* What evict() collects from one store: each of its pages at most once.
LEMMA AllPagesFacts ==
  ASSUME TypeOK, OnePlace, NEW c \in Caches, NEW s \in Stores
  PROVE  /\ AllPages(c, s) \in Seq(Buffers) /\ Distinct(AllPages(c, s))
         /\ \A j \in 1..Len(AllPages(c, s)) : \E l \in Layers :
              \E p \in 1..Len(pages[c][s][l]) : AllPages(c, s)[j] = pages[c][s][l][p]
<1> DEFINE seqs == [n \in 1..NLayers |-> pages[c][s][n - 1]]
<1>0. NLayers \in Nat /\ NLayers > 0 /\ \A n \in 1..NLayers : n - 1 \in Layers
  BY KVCacheAssumption DEF KVCacheAssumption, Layers
<1>1. \A n \in 1..NLayers : pages[c][s][n - 1] \in Seq(Buffers)
  BY <1>0, PageTypes
<1>2. seqs \in Seq(Seq(Buffers)) /\ Len(seqs) = NLayers
  BY <1>0, <1>1
<1>3. \A n \in 1..NLayers : seqs[n] = pages[c][s][n - 1]
  OBVIOUS
<1>4. AllPages(c, s) = FlattenSeq(seqs)
  BY DEF AllPages
<1> HIDE DEF seqs
<1>5. Apart(seqs)
  <2> SUFFICES ASSUME NEW i \in 1..NLayers, NEW k \in 1..NLayers,
                      NEW p \in 1..Len(seqs[i]), NEW q \in 1..Len(seqs[k]),
                      seqs[i][p] = seqs[k][q]
               PROVE  i = k /\ p = q
    BY <1>2 DEF Apart
  <2>1. /\ i - 1 \in Layers /\ p \in 1..Len(pages[c][s][i - 1])
        /\ k - 1 \in Layers /\ q \in 1..Len(pages[c][s][k - 1])
        /\ pages[c][s][i - 1][p] = pages[c][s][k - 1][q]
    BY <1>0, <1>3
  <2>2. i - 1 = k - 1 /\ p = q
    BY <2>1, AtOnePlace
  <2>. QED
    BY <1>0, <2>2
<1>6. /\ FlattenSeq(seqs) \in Seq(Buffers) /\ Distinct(FlattenSeq(seqs))
      /\ From(seqs, NLayers, FlattenSeq(seqs))
  BY <1>0, <1>2, <1>5, FlattenFacts
<1>7. ASSUME NEW j \in 1..Len(AllPages(c, s))
      PROVE  \E l \in Layers : \E p \in 1..Len(pages[c][s][l]) :
               AllPages(c, s)[j] = pages[c][s][l][p]
  <2>1. PICK i \in 1..NLayers : \E p \in 1..Len(seqs[i]) : AllPages(c, s)[j] = seqs[i][p]
    BY <1>4, <1>6 DEF From
  <2>2. i - 1 \in Layers /\ seqs[i] = pages[c][s][i - 1]
    BY <1>0, <1>3
  <2>. QED
    BY <2>1, <2>2
<1>. QED
  BY <1>4, <1>6, <1>7

OfCache(c, b) == \E s \in Stores, l \in Layers :
                   \E p \in 1..Len(pages[c][s][l]) : b = pages[c][s][l][p]

\* The pages the pool gets: those of K and those of V, none twice.
LEMMA ReleasedFacts ==
  ASSUME TypeOK, Apiece, NEW c \in Caches, DropPages(c)
  PROVE  /\ free' \in Seq(Buffers) /\ Distinct(free')
         /\ \A i \in 1..Len(free') :
              \/ i \in 1..Len(free) /\ free'[i] = free[i]
              \/ OfCache(c, free'[i])
         /\ c \notin Pooled => free' = free
<1>0. free \in Seq(Buffers) /\ Distinct(free)
  BY DEF TypeOK, Apiece
<1>1. CASE c \notin Pooled
  <2>1. free' = free
    BY <1>1 DEF DropPages
  <2>. QED
    BY <1>0, <2>1
<1>2. CASE c \in Pooled
  <2> DEFINE k == AllPages(c, "k")
             v == AllPages(c, "v")
             fk == free \o k
  <2>1. free' = fk \o v
    BY <1>2 DEF DropPages
  <2>2. OnePlace /\ "k" \in Stores /\ "v" \in Stores
    BY DEF Apiece, Stores
  <2>3. /\ k \in Seq(Buffers) /\ Distinct(k) /\ v \in Seq(Buffers) /\ Distinct(v)
        /\ \A j \in 1..Len(k) : \E l \in Layers :
             \E p \in 1..Len(pages[c]["k"][l]) : k[j] = pages[c]["k"][l][p]
        /\ \A j \in 1..Len(v) : \E l \in Layers :
             \E p \in 1..Len(pages[c]["v"][l]) : v[j] = pages[c]["v"][l][p]
    BY <2>2, AllPagesFacts
  <2> HIDE DEF k, v
  <2>4. \A j \in 1..Len(k) : OfCache(c, k[j])
    BY <2>2, <2>3 DEF OfCache
  <2>5. \A j \in 1..Len(v) : OfCache(c, v[j])
    BY <2>2, <2>3 DEF OfCache
  <2>6. \A b : OfCache(c, b) => Owned(b)
    BY DEF OfCache, Owned
  <2>7. \A m \in 1..Len(free) : ~Owned(free[m])
    BY DEF Apiece
  <2>8. fk \in Seq(Buffers) /\ Len(fk) = Len(free) + Len(k) /\ Distinct(fk)
    <3>1. \A m \in 1..Len(free), j \in 1..Len(k) : free[m] # k[j]
      BY <2>4, <2>6, <2>7
    <3>. QED
      BY <1>0, <2>3, <3>1, ConcatElements, ConcatDistinct
  <2>9. \A i \in 1..Len(fk) : \/ i \in 1..Len(free) /\ fk[i] = free[i]
                              \/ i - Len(free) \in 1..Len(k) /\ fk[i] = k[i - Len(free)]
    BY <1>0, <2>3, ConcatElements
  <2> HIDE DEF fk
  <2>10. \A m \in 1..Len(fk), j \in 1..Len(v) : fk[m] # v[j]
    <3> SUFFICES ASSUME NEW m \in 1..Len(fk), NEW j \in 1..Len(v), fk[m] = v[j] PROVE FALSE
      OBVIOUS
    <3>1. CASE m \in 1..Len(free) /\ fk[m] = free[m]
      BY <2>5, <2>6, <2>7, <3>1
    <3>2. CASE m - Len(free) \in 1..Len(k) /\ fk[m] = k[m - Len(free)]
      <4>1. PICK l \in Layers : \E p \in 1..Len(pages[c]["k"][l]) : fk[m] = pages[c]["k"][l][p]
        BY <2>3, <3>2
      <4>2. PICK p \in 1..Len(pages[c]["k"][l]) : fk[m] = pages[c]["k"][l][p]
        BY <4>1
      <4>3. PICK n \in Layers : \E q \in 1..Len(pages[c]["v"][n]) : v[j] = pages[c]["v"][n][q]
        BY <2>3
      <4>4. PICK q \in 1..Len(pages[c]["v"][n]) : v[j] = pages[c]["v"][n][q]
        BY <4>3
      <4>5. "k" = "v"
        <5>1. pages[c]["k"][l][p] = pages[c]["v"][n][q]
          BY <4>2, <4>4
        <5>. QED
          BY <2>2, <5>1, AtOnePlace
      <4>. QED
        BY <4>5
    <3>. QED
      BY <2>9, <3>1, <3>2
  <2>11. free' \in Seq(Buffers) /\ Len(free') = Len(fk) + Len(v) /\ Distinct(free')
    BY <2>1, <2>3, <2>8, <2>10, ConcatElements, ConcatDistinct
  <2>12. ASSUME NEW i \in 1..Len(free')
         PROVE  (i \in 1..Len(free) /\ free'[i] = free[i]) \/ OfCache(c, free'[i])
    <3>1. \/ i \in 1..Len(fk) /\ free'[i] = fk[i]
          \/ i - Len(fk) \in 1..Len(v) /\ free'[i] = v[i - Len(fk)]
      BY <2>1, <2>3, <2>8, ConcatElements
    <3>2. CASE i \in 1..Len(fk) /\ free'[i] = fk[i]
      BY <2>4, <2>9, <3>2
    <3>3. CASE i - Len(fk) \in 1..Len(v) /\ free'[i] = v[i - Len(fk)]
      BY <2>5, <3>3
    <3>. QED
      BY <3>1, <3>2, <3>3
  <2>. QED
    BY <1>2, <2>11, <2>12
<1>. QED
  BY <1>1, <1>2

LEMMA DropFacts ==
  ASSUME TypeOK, Apiece, Paired, NEW c \in Caches, DropPages(c)
  PROVE  /\ pages' \in [Caches -> [Stores -> [Layers -> Seq(Buffers)]]]
         /\ \A s \in Stores, l \in Layers : pages'[c][s][l] = <<>>
         /\ \A d \in Caches, s \in Stores, l \in Layers :
              d # c => pages'[d][s][l] = pages[d][s][l]
         /\ Apiece' /\ Paired' /\ free' \in Seq(Buffers)
<1>1. pages \in [Caches -> [Stores -> [Layers -> Seq(Buffers)]]]
  BY DEF TypeOK
<1>2. [s \in Stores |-> [l \in Layers |-> <<>>]] \in [Stores -> [Layers -> Seq(Buffers)]]
  OBVIOUS
<1>3. pages' = [pages EXCEPT ![c] = [s \in Stores |-> [l \in Layers |-> <<>>]]]
  BY DEF DropPages
<1>4. /\ pages' \in [Caches -> [Stores -> [Layers -> Seq(Buffers)]]]
      /\ \A s \in Stores, l \in Layers : pages'[c][s][l] = <<>>
      /\ \A d \in Caches, s \in Stores, l \in Layers : d # c => pages'[d][s][l] = pages[d][s][l]
  BY <1>1, <1>2, <1>3
<1>5. ASSUME NEW d \in Caches, NEW s \in Stores, NEW l \in Layers,
             NEW p \in 1..Len(pages'[d][s][l])
      PROVE  d # c /\ p \in 1..Len(pages[d][s][l]) /\ pages'[d][s][l][p] = pages[d][s][l][p]
  <2>1. d # c
    <3>1. d = c => Len(pages'[d][s][l]) = 0
      BY <1>4
    <3>. QED
      BY <3>1
  <2>. QED
    BY <1>4, <2>1
<1>6. OnePlace'
  <2> SUFFICES ASSUME NEW d \in Caches, NEW e \in Caches, NEW s \in Stores, NEW t \in Stores,
                      NEW j \in Layers, NEW k \in Layers,
                      NEW p \in 1..Len(pages'[d][s][j]), NEW q \in 1..Len(pages'[e][t][k]),
                      pages'[d][s][j][p] = pages'[e][t][k][q]
               PROVE  <<d, s, j, p>> = <<e, t, k, q>>
    BY DEF OnePlace
  <2>1. p \in 1..Len(pages[d][s][j]) /\ pages'[d][s][j][p] = pages[d][s][j][p]
    BY <1>5
  <2>2. q \in 1..Len(pages[e][t][k]) /\ pages'[e][t][k][q] = pages[e][t][k][q]
    BY <1>5
  <2>3. pages[d][s][j][p] = pages[e][t][k][q] /\ OnePlace
    BY <2>1, <2>2 DEF Apiece
  <2>. QED
    BY <2>1, <2>2, <2>3, AtOnePlace
<1>7. ASSUME NEW i \in 1..Len(free') PROVE ~Owned(free[i])'
  <2> SUFFICES ASSUME NEW d \in Caches, NEW s \in Stores, NEW l \in Layers,
                      NEW p \in 1..Len(pages'[d][s][l]), pages'[d][s][l][p] = free'[i]
               PROVE  FALSE
    BY DEF Owned
  <2>1. d # c /\ p \in 1..Len(pages[d][s][l]) /\ free'[i] = pages[d][s][l][p]
    BY <1>5
  <2>2. CASE i \in 1..Len(free) /\ free'[i] = free[i]
    BY <2>1, <2>2 DEF Apiece, Owned
  <2>3. CASE OfCache(c, free'[i])
    <3>1. PICK t \in Stores, k \in Layers :
            \E q \in 1..Len(pages[c][t][k]) : free'[i] = pages[c][t][k][q]
      BY <2>3 DEF OfCache
    <3>2. PICK q \in 1..Len(pages[c][t][k]) : free'[i] = pages[c][t][k][q]
      BY <3>1
    <3>3. pages[d][s][l][p] = pages[c][t][k][q] /\ OnePlace
      BY <2>1, <3>2 DEF Apiece
    <3>. QED
      BY <2>1, <3>3, AtOnePlace
  <2>. QED
    BY <2>2, <2>3, ReleasedFacts
<1>8. Apiece' /\ free' \in Seq(Buffers)
  BY <1>6, <1>7, ReleasedFacts DEF Apiece
<1>9. Paired'
  <2> SUFFICES ASSUME NEW d \in Caches, NEW l \in Layers
               PROVE  Len(pages'[d]["k"][l]) = Len(pages'[d]["v"][l])
    BY DEF Paired
  <2>1. "k" \in Stores /\ "v" \in Stores
    BY DEF Stores
  <2>2. CASE d = c
    BY <1>4, <2>1, <2>2
  <2>3. CASE d # c
    BY <1>4, <2>1, <2>3 DEF Paired
  <2>. QED
    BY <2>2, <2>3
<1>. QED
  BY <1>4, <1>8, <1>9

-----------------------------------------------------------------------------
(* The inductive invariant.                                                *)

StepOK == \A c \in Caches : step[c] = 0 => layer[c] = 0

\* Between two calls and in the middle of a step: the layers the step has
\* passed already have the pages of its rows.
Backed ==
    \A c \in Caches : ~evicted[c] =>
      \A s \in Stores, l \in Layers :
        /\ len[c] <= PageSize * Len(pages[c][s][l])
        /\ l < layer[c] => Cut(c, len[c] + step[c]) <= PageSize * Len(pages[c][s][l])

IInv == TypeOK /\ Apiece /\ Paired /\ StepOK /\ Backed

LEMMA PageBound ==
  ASSUME NEW p \in Nat, NEW m \in Nat, p \div PageSize < m
  PROVE  p + 1 <= PageSize * m
<1> DEFINE a == p \div PageSize
<1>1. /\ a \in Nat /\ PageSize \in Nat /\ p % PageSize \in 0..PageSize-1
      /\ p = PageSize * a + (p % PageSize)
  BY Divided, KVCacheAssumption DEF KVCacheAssumption
<1>2. a < m
  OBVIOUS
<1> HIDE DEF a
<1>3. PICK d \in Nat : m = (a + 1) + d
  <2>1. m - (a + 1) \in Nat /\ m = (a + 1) + (m - (a + 1))
    BY <1>1, <1>2
  <2>. QED
    BY <2>1
<1>4. PageSize * m = (PageSize * a + PageSize) + PageSize * d /\ PageSize * d \in Nat
  BY <1>1, <1>3
<1>5. PageSize * a \in Nat
  BY <1>1
<1>. QED
  BY <1>1, <1>4, <1>5

LEMMA PagesMore ==
  ASSUME NEW m \in Nat, NEW n \in Nat, m <= n
  PROVE  PageSize * m <= PageSize * n /\ PageSize * m \in Nat /\ PageSize * n \in Nat
<1>0. PageSize \in Nat
  BY KVCacheAssumption DEF KVCacheAssumption
<1>1. PICK d \in Nat : n = m + d
  <2>1. n - m \in Nat /\ n = m + (n - m)
    OBVIOUS
  <2>. QED
    BY <2>1
<1>2. PageSize * n = PageSize * m + PageSize * d
  BY <1>0, <1>1
<1>3. PageSize * d \in Nat /\ PageSize * m \in Nat
  BY <1>0
<1>. QED
  BY <1>2, <1>3

LEMMA CutFacts ==
  ASSUME NEW c \in Caches
  PROVE  /\ MaxLen[c] \in Nat \ {0}
         /\ \A n \in Nat : Cut(c, n) \in 0..MaxLen[c] /\ Cut(c, n) <= n
         /\ \A n \in 0..MaxLen[c] : Cut(c, n) = n
BY KVCacheAssumption DEF KVCacheAssumption, Cut

LEMMA StoreLayerFacts ==
  ASSUME TypeOK, Apiece, NEW c \in Caches, StoreLayer(c)
  PROVE  /\ layer[c] \in Layers /\ step[c] \in 1..MaxRows /\ value[c] \in Values
         /\ \E new : Stored(c, layer[c], step[c], value[c], new, Grown(c, layer[c], step[c]))
         /\ layer' = [layer EXCEPT ![c] = @ + 1]
         /\ UNCHANGED <<len, step, value, evicted>>
<1>1. NLayers \in Nat /\ MaxRows \in Nat
  BY KVCacheAssumption DEF KVCacheAssumption
<1>2. layer[c] \in Layers /\ step[c] \in 1..MaxRows /\ value[c] \in Values
  BY <1>1 DEF TypeOK, StoreLayer, Layers
<1>3. Update(c, layer[c], step[c], value[c])
  BY DEF StoreLayer
<1>4. \E new : Stored(c, layer[c], step[c], value[c], new, Grown(c, layer[c], step[c]))
  BY <1>2, <1>3, StoreFacts
<1>. QED
  BY <1>2, <1>4 DEF StoreLayer

LEMMA StoredContent ==
  ASSUME TypeOK, NEW c, NEW l, NEW n, NEW x \in Values, NEW new, NEW m,
         Stored(c, l, n, x, new, m)
  PROVE  content' \in [Buffers -> [0..PageSize-1 -> Values \cup {Zero}]]
<1>1. ASSUME NEW b \in Buffers, NEW o \in 0..PageSize-1
      PROVE  Filled(new)[b][o] \in Values \cup {Zero}
  <2>1. content[b][o] \in Values \cup {Zero} /\ BlankPage[o] = Zero
    <3>1. content \in [Buffers -> [0..PageSize-1 -> Values \cup {Zero}]]
      BY DEF TypeOK
    <3>2. content[b][o] \in Values \cup {Zero}
      BY <3>1
    <3>. QED
      BY <3>2 DEF BlankPage
  <2>2. Filled(new)[b] = BlankPage \/ Filled(new)[b] = content[b]
    BY DEF Filled
  <2>. QED
    BY <2>1, <2>2
<1>2. content' = [b \in Buffers |-> [o \in 0..PageSize-1 |->
                    IF WrittenAt(c, l, n, new, b, o) THEN x ELSE Filled(new)[b][o]]]
  BY DEF Stored
<1>. QED
  <2> DEFINE f == [b \in Buffers |-> [o \in 0..PageSize-1 |->
                     IF WrittenAt(c, l, n, new, b, o) THEN x ELSE Filled(new)[b][o]]]
  <2>1. ASSUME NEW b \in Buffers, NEW o \in 0..PageSize-1
        PROVE  (IF WrittenAt(c, l, n, new, b, o) THEN x ELSE Filled(new)[b][o])
                 \in Values \cup {Zero}
    BY <1>1
  <2>2. f \in [Buffers -> [0..PageSize-1 -> Values \cup {Zero}]]
    BY <2>1
  <2>. QED
    BY <1>2, <2>2

LEMMA TypesInit == Init => TypeOK
<1> SUFFICES ASSUME Init PROVE TypeOK
  OBVIOUS
<1>0. /\ MaxRows \in Nat /\ NLayers \in Nat /\ \A c \in Caches : MaxLen[c] \in Nat
  BY KVCacheAssumption DEF KVCacheAssumption
<1>1. pages \in [Caches -> [Stores -> [Layers -> Seq(Buffers)]]]
  BY DEF Init
<1>2. content \in [Buffers -> [0..PageSize-1 -> Values \cup {Zero}]]
  BY DEF Init, BlankPage
<1>3. free \in Seq(Buffers)
  BY DEF Init
<1>4. /\ len \in [Caches -> Nat] /\ \A c \in Caches : len[c] <= MaxLen[c]
      /\ step \in [Caches -> 0..MaxRows] /\ layer \in [Caches -> 0..NLayers]
      /\ value \in [Caches -> Values] /\ evicted \in [Caches -> BOOLEAN]
  BY <1>0 DEF Init
<1>. QED
  BY <1>1, <1>2, <1>3, <1>4 DEF TypeOK

LEMMA InvInit == Init => IInv
<1> SUFFICES ASSUME Init PROVE IInv
  OBVIOUS
<1>1. \A c \in Caches, s \in Stores, l \in Layers : pages[c][s][l] = <<>>
  BY DEF Init
<1>2. Apiece
  BY <1>1 DEF Init, Apiece, Distinct, Owned, OnePlace
<1>3. Paired /\ StepOK
  BY <1>1 DEF Init, Paired, StepOK, Stores
<1>4. Backed
  <2>1. ASSUME NEW c \in Caches, NEW s \in Stores, NEW l \in Layers
        PROVE  /\ len[c] <= PageSize * Len(pages[c][s][l])
               /\ l < layer[c] =>
                    Cut(c, len[c] + step[c]) <= PageSize * Len(pages[c][s][l])
    <3>1. len[c] = 0 /\ layer[c] = 0 /\ l \in Nat
      BY DEF Init, Layers
    <3>2. PageSize * Len(pages[c][s][l]) = 0
      BY <1>1, KVCacheAssumption DEF KVCacheAssumption
    <3>. QED
      BY <3>1, <3>2
  <2>. QED
    BY <2>1 DEF Backed
<1>. QED
  BY <1>2, <1>3, <1>4, TypesInit DEF IInv

LEMMA BeginKeeps ==
  ASSUME IInv, NEW c \in Caches, Begin(c)
  PROVE  IInv'
<1>1. PICK n \in 1..MaxRows, x \in Values :
        /\ step' = [step EXCEPT ![c] = n]
        /\ value' = [value EXCEPT ![c] = x]
  BY DEF Begin
<1>2. UNCHANGED <<pages, content, free, len, layer, evicted>> /\ step[c] = 0
  BY DEF Begin, cache
<1>3. TypeOK'
  BY <1>1, <1>2, KVCacheAssumption DEF KVCacheAssumption, IInv, TypeOK
<1>4. Apiece' /\ Paired'
  BY <1>2, SamePlaces DEF IInv, Paired
<1>5. StepOK'
  BY <1>1, <1>2 DEF IInv, StepOK, TypeOK
<1>6. Backed'
  <2> SUFFICES ASSUME NEW d \in Caches, ~evicted[d], NEW s \in Stores, NEW l \in Layers
               PROVE  /\ len[d] <= PageSize * Len(pages[d][s][l])
                      /\ l < layer[d] =>
                           Cut(d, len[d] + step'[d]) <= PageSize * Len(pages[d][s][l])
    BY <1>2 DEF Backed, Cut
  <2>1. CASE d = c
    <3>1. layer[d] = 0 /\ ~(l < layer[d])
      BY <1>2, <2>1 DEF IInv, StepOK, Layers
    <3>. QED
      BY <3>1 DEF IInv, Backed
  <2>2. CASE d # c
    <3>1. step'[d] = step[d]
      BY <1>1, <2>2 DEF IInv, TypeOK
    <3>. QED
      BY <3>1 DEF IInv, Backed
  <2>. QED
    BY <2>1, <2>2
<1>. QED
  BY <1>3, <1>4, <1>5, <1>6 DEF IInv

LEMMA StoreLayerKeeps ==
  ASSUME IInv, NEW c \in Caches, StoreLayer(c)
  PROVE  IInv'
<1> DEFINE l == layer[c]
           n == step[c]
           m == Grown(c, l, n)
<1>0. TypeOK /\ Apiece /\ Paired /\ StepOK /\ Backed
  BY DEF IInv
<1>1. /\ l \in Layers /\ n \in 1..MaxRows /\ value[c] \in Values
      /\ layer' = [layer EXCEPT ![c] = l + 1]
      /\ UNCHANGED <<len, step, value, evicted>>
  BY <1>0, StoreLayerFacts
<1>2. PICK new : Stored(c, l, n, value[c], new, m)
  BY <1>0, StoreLayerFacts
<1>3. /\ Apiece' /\ Paired' /\ free' \in Seq(Buffers)
      /\ pages' \in [Caches -> [Stores -> [Layers -> Seq(Buffers)]]]
      /\ content' \in [Buffers -> [0..PageSize-1 -> Values \cup {Zero}]]
      /\ Pairs(new, m)
  <2>1. Apiece' /\ Paired' /\ free' \in Seq(Buffers)
    BY <1>0, <1>1, <1>2, StoreKeepsApiece
  <2>2. pages' \in [Caches -> [Stores -> [Layers -> Seq(Buffers)]]]
    BY <1>2 DEF Stored
  <2>3. content' \in [Buffers -> [0..PageSize-1 -> Values \cup {Zero}]]
    BY <1>0, <1>1, <1>2, StoredContent
  <2>4. Pairs(new, m)
    BY <1>0, <1>2, Taken
  <2>. QED
    BY <2>1, <2>2, <2>3, <2>4
<1>4. l \in Nat /\ l + 1 \in 0..NLayers /\ layer \in [Caches -> 0..NLayers]
  <2>1. NLayers \in Nat
    BY KVCacheAssumption DEF KVCacheAssumption
  <2>. QED
    BY <1>0, <1>1, <2>1 DEF Layers, TypeOK
<1>5. TypeOK'
  <2>1. layer' \in [Caches -> 0..NLayers]
    BY <1>1, <1>4
  <2>. QED
    BY <1>0, <1>1, <1>3, <2>1 DEF TypeOK
<1>6. StepOK'
  BY <1>0, <1>1, <1>4 DEF StepOK
<1>7. ASSUME NEW d \in Caches, ~evicted[d], NEW s \in Stores, NEW k \in Layers
      PROVE  /\ len[d] <= PageSize * Len(pages'[d][s][k])
             /\ k < layer'[d] =>
                  Cut(d, len[d] + step[d]) <= PageSize * Len(pages'[d][s][k])
  <2>0. /\ len[d] <= PageSize * Len(pages[d][s][k])
        /\ k < layer[d] => Cut(d, len[d] + step[d]) <= PageSize * Len(pages[d][s][k])
    BY <1>0, <1>7 DEF Backed
  <2>1. CASE d # c
    BY <1>1, <1>2, <1>4, <2>0, <2>1 DEF Stored
  <2>2. CASE d = c /\ k # l
    <3>1. pages'[d][s][k] = pages[d][s][k]
      BY <1>2, <2>2 DEF Stored
    <3>2. layer'[d] = l + 1 /\ layer[d] = l
      BY <1>1, <1>4, <2>2
    <3>3. k < l + 1 => k < l
      BY <1>4, <2>2 DEF Layers
    <3>. QED
      BY <2>0, <3>1, <3>2, <3>3
  <2>3. CASE d = c /\ k = l
    <3> DEFINE L == Len(pages[c][s][l])
    <3>1. Len(pages'[d][s][k]) = L + m /\ L \in Nat /\ m \in Nat
      <4>1. Len(NewPages(c, l, new, s)) = L + m /\ L \in Nat /\ m \in Nat
        <5> HIDE DEF l, n, m
        <5>. QED
          BY <1>0, <1>1, <1>3, NewPagesFacts
      <4>2. pages'[c][s][l] = NewPages(c, l, new, s)
        BY <1>2 DEF Stored
      <4>. QED
        BY <2>3, <4>1, <4>2
    <3>2. L = Len(pages[c]["k"][l])
      BY <1>0, <1>1 DEF Paired, Stores
    <3> DEFINE r == LastRow(c, n)
    <3>3. /\ r \in Nat /\ r + 1 = Cut(c, len[c] + n) /\ len[c] \in Nat
          /\ len[c] <= r => r \div PageSize < L + m
      <4>1. /\ r \in 0..MaxLen[c]-1 /\ r + 1 = Cut(c, len[c] + n) /\ len[c] \in Nat
            /\ len[c] <= r => r \div PageSize < Len(pages[c]["k"][l]) + m
        BY <1>0, <1>1, GrownFacts
      <4>. QED
        BY <3>2, <4>1
    <3> HIDE DEF L, m, r
    <3>4. /\ PageSize * L <= PageSize * (L + m)
          /\ PageSize * L \in Nat /\ PageSize * (L + m) \in Nat
      BY <3>1, PagesMore
    <3>5. len[c] <= PageSize * L
      BY <2>0, <2>3 DEF L
    <3>6. len[c] <= r => r + 1 <= PageSize * (L + m)
      BY <3>1, <3>3, PageBound
    <3>7. len[c] <= PageSize * (L + m) /\ r + 1 <= PageSize * (L + m)
      BY <3>3, <3>4, <3>5, <3>6
    <3>. QED
      BY <2>3, <3>1, <3>3, <3>7
  <2>. QED
    BY <2>1, <2>2, <2>3
<1>8. Backed'
  BY <1>1, <1>7 DEF Backed, Cut
<1>. QED
  BY <1>3, <1>5, <1>6, <1>8 DEF IInv

LEMMA AdvanceKeeps ==
  ASSUME IInv, NEW c \in Caches, Advance(c)
  PROVE  IInv'
<1>0. TypeOK /\ Apiece /\ Paired /\ StepOK /\ Backed
  BY DEF IInv
<1>1. /\ layer[c] = NLayers
      /\ len' = [len EXCEPT ![c] = Cut(c, len[c] + step[c])]
      /\ step' = [step EXCEPT ![c] = 0] /\ layer' = [layer EXCEPT ![c] = 0]
      /\ UNCHANGED <<pages, content, free, value, evicted>>
  BY DEF Advance, cache
<1>2. /\ len \in [Caches -> Nat] /\ step[c] \in Nat /\ len[c] + step[c] \in Nat
      /\ NLayers \in Nat /\ step \in [Caches -> 0..MaxRows] /\ layer \in [Caches -> 0..NLayers]
      /\ MaxRows \in Nat
  BY <1>0, KVCacheAssumption DEF KVCacheAssumption, TypeOK
<1>3. Cut(c, len[c] + step[c]) \in Nat /\ Cut(c, len[c] + step[c]) <= MaxLen[c]
  BY <1>2, CutFacts
<1>4. TypeOK'
  BY <1>0, <1>1, <1>2, <1>3 DEF TypeOK
<1>5. Apiece' /\ Paired'
  BY <1>0, <1>1 DEF Apiece, Distinct, Owned, OnePlace, Paired
<1>6. StepOK'
  BY <1>0, <1>1, <1>2 DEF StepOK
<1>7. ASSUME NEW d \in Caches, ~evicted[d], NEW s \in Stores, NEW l \in Layers
      PROVE  /\ len'[d] <= PageSize * Len(pages[d][s][l])
             /\ l < layer'[d] =>
                  Cut(d, len'[d] + step'[d]) <= PageSize * Len(pages[d][s][l])
  <2>0. /\ len[d] <= PageSize * Len(pages[d][s][l])
        /\ l < layer[d] => Cut(d, len[d] + step[d]) <= PageSize * Len(pages[d][s][l])
    BY <1>0, <1>7 DEF Backed
  <2>1. CASE d # c
    BY <1>1, <1>2, <2>0, <2>1
  <2>2. CASE d = c
    <3>1. l < layer[d] /\ l \in Nat
      BY <1>1, <1>2, <2>2 DEF Layers
    <3>2. len'[d] = Cut(d, len[d] + step[d]) /\ layer'[d] = 0
      BY <1>1, <1>2, <2>2
    <3>. QED
      BY <2>0, <3>1, <3>2
  <2>. QED
    BY <2>1, <2>2
<1>8. Backed'
  BY <1>1, <1>7 DEF Backed, Cut
<1>. QED
  BY <1>4, <1>5, <1>6, <1>8 DEF IInv

LEMMA SetSizeKeeps ==
  ASSUME IInv, NEW c \in Caches, SetSize(c)
  PROVE  IInv'
<1>0. TypeOK /\ Apiece /\ Paired /\ StepOK /\ Backed
  BY DEF IInv
<1>1. /\ UNCHANGED <<pages, content, free, step, layer, value, evicted>> /\ step[c] = 0
  BY DEF SetSize, cache, driver
<1>2. PICK n \in 0..len[c] : len' = [len EXCEPT ![c] = n] /\ n <= MaxLen[c]
  <2>1. PICK n \in 0..len[c] : len' = [len EXCEPT ![c] = Cut(c, n)]
    BY DEF SetSize
  <2>2. MaxLen[c] \in Nat /\ len[c] \in Nat /\ len[c] <= MaxLen[c]
    BY <1>0, CutFacts DEF TypeOK
  <2>3. n \in 0..MaxLen[c]
    BY <2>2
  <2>4. Cut(c, n) = n
    BY <2>3, CutFacts
  <2>5. n \in 0..len[c] /\ len' = [len EXCEPT ![c] = n] /\ n <= MaxLen[c]
    BY <2>1, <2>2, <2>3, <2>4
  <2>. QED
    BY <2>5
<1>3. len \in [Caches -> Nat] /\ n \in Nat /\ n <= len[c]
  BY <1>0 DEF TypeOK
<1>4. TypeOK'
  BY <1>0, <1>1, <1>2, <1>3 DEF TypeOK
<1>5. Apiece' /\ Paired' /\ StepOK'
  BY <1>0, <1>1, SamePlaces DEF Paired, StepOK
<1>6. ASSUME NEW d \in Caches, ~evicted[d], NEW s \in Stores, NEW l \in Layers
      PROVE  /\ len'[d] <= PageSize * Len(pages[d][s][l])
             /\ l < layer[d] => Cut(d, len'[d] + step[d]) <= PageSize * Len(pages[d][s][l])
  <2>0. /\ len[d] <= PageSize * Len(pages[d][s][l])
        /\ l < layer[d] => Cut(d, len[d] + step[d]) <= PageSize * Len(pages[d][s][l])
    BY <1>0, <1>6 DEF Backed
  <2>1. CASE d # c
    BY <1>2, <1>3, <2>0, <2>1
  <2>2. CASE d = c
    <3>1. layer[d] = 0 /\ ~(l < layer[d])
      BY <1>0, <1>1, <2>2 DEF StepOK, Layers
    <3>2. len'[d] = n /\ len[d] \in Nat
      BY <1>2, <1>3, <2>2
    <3>3. PageSize * Len(pages[d][s][l]) \in Nat
      <4>1. Len(pages[d][s][l]) \in Nat /\ PageSize \in Nat
        BY <1>0, PageTypes, KVCacheAssumption DEF KVCacheAssumption
      <4>. QED
        BY <4>1
    <3>. QED
      BY <1>3, <2>0, <2>2, <3>1, <3>2, <3>3
  <2>. QED
    BY <2>1, <2>2
<1>7. Backed'
  BY <1>1, <1>6 DEF Backed, Cut
<1>. QED
  BY <1>4, <1>5, <1>7 DEF IInv

LEMMA DropKeeps ==
  ASSUME IInv, NEW c \in Caches, Evict(c) \/ Clear(c)
  PROVE  IInv'
<1>0. TypeOK /\ Apiece /\ Paired /\ StepOK /\ Backed
  BY DEF IInv
<1>1. /\ DropPages(c) /\ step[c] = 0 /\ UNCHANGED <<content, step, layer, value>>
      /\ \/ evicted' = [evicted EXCEPT ![c] = TRUE] /\ len' = len
         \/ evicted' = [evicted EXCEPT ![c] = FALSE] /\ len' = [len EXCEPT ![c] = 0]
  BY DEF Evict, Clear, DropPages, driver
<1>2. /\ pages' \in [Caches -> [Stores -> [Layers -> Seq(Buffers)]]]
      /\ \A s \in Stores, l \in Layers : pages'[c][s][l] = <<>>
      /\ \A d \in Caches, s \in Stores, l \in Layers : d # c => pages'[d][s][l] = pages[d][s][l]
      /\ Apiece' /\ Paired' /\ free' \in Seq(Buffers)
  BY <1>0, <1>1, DropFacts
<1>3. /\ len \in [Caches -> Nat] /\ len' \in [Caches -> Nat]
      /\ \A d \in Caches : len'[d] <= MaxLen[d]
  <2>1. len \in [Caches -> Nat] /\ \A d \in Caches : len[d] <= MaxLen[d]
    BY <1>0 DEF TypeOK
  <2>2. 0 <= MaxLen[c]
    BY CutFacts
  <2>. QED
    BY <1>1, <2>1, <2>2
<1>4. evicted \in [Caches -> BOOLEAN] /\ evicted' \in [Caches -> BOOLEAN]
  BY <1>0, <1>1 DEF TypeOK
<1>5. TypeOK'
  BY <1>0, <1>1, <1>2, <1>3, <1>4 DEF TypeOK
<1>6. StepOK'
  BY <1>0, <1>1 DEF StepOK
<1>7. ASSUME NEW d \in Caches, ~evicted'[d], NEW s \in Stores, NEW l \in Layers
      PROVE  /\ len'[d] <= PageSize * Len(pages'[d][s][l])
             /\ l < layer[d] => Cut(d, len'[d] + step[d]) <= PageSize * Len(pages'[d][s][l])
  <2>1. CASE d # c
    <3>1. ~evicted[d] /\ len'[d] = len[d] /\ pages'[d][s][l] = pages[d][s][l]
      BY <1>1, <1>2, <1>3, <1>4, <1>7, <2>1
    <3>. QED
      BY <1>0, <3>1 DEF Backed
  <2>2. CASE d = c
    <3>1. layer[d] = 0 /\ ~(l < layer[d])
      BY <1>0, <1>1, <2>2 DEF StepOK, Layers
    <3>2. len'[d] = 0
      BY <1>1, <1>3, <1>4, <1>7, <2>2
    <3>3. PageSize * Len(pages'[d][s][l]) = 0
      BY <1>2, <2>2, KVCacheAssumption DEF KVCacheAssumption
    <3>. QED
      BY <3>1, <3>2, <3>3
  <2>. QED
    BY <2>1, <2>2
<1>8. Backed'
  BY <1>1, <1>7 DEF Backed, Cut
<1>. QED
  BY <1>2, <1>5, <1>6, <1>8 DEF IInv

LEMMA InvNext ==
  ASSUME IInv, [Next]_vars
  PROVE  IInv'
<1>1. CASE Next
  BY <1>1, BeginKeeps, StoreLayerKeeps, AdvanceKeeps, SetSizeKeeps, DropKeeps DEF Next
<1>2. CASE UNCHANGED vars
  <2>1. UNCHANGED <<pages, content, free, len, step, layer, value, evicted>>
    BY <1>2 DEF vars, driver
  <2>2. TypeOK'
    BY <2>1 DEF IInv, TypeOK
  <2>3. Apiece' /\ Paired' /\ StepOK'
    BY <2>1, SamePlaces DEF IInv, Paired, StepOK
  <2>4. Backed'
    BY <2>1 DEF IInv, Backed, Cut
  <2>. QED
    BY <2>2, <2>3, <2>4 DEF IInv
<1>. QED
  BY <1>1, <1>2

LEMMA Inductive == Spec => []IInv
<1>1. Init => IInv
  BY InvInit
<1>2. IInv /\ [Next]_vars => IInv'
  BY InvNext
<1>. QED
  BY <1>1, <1>2, PTL DEF Spec

(***************************************************************************)
(* The state of every cache and of the pool is of its type.                *)
(***************************************************************************)
THEOREM TypesHold == Spec => []TypeOK
<1>1. IInv => TypeOK
  BY DEF IInv
<1>. QED
  BY <1>1, Inductive, PTL

(***************************************************************************)
(* For any number of caches, layers and pages, and any order of their      *)
(* steps, rollbacks and evictions: a buffer is a page of one cache, store  *)
(* and layer or waits in the pool, once.                                   *)
(***************************************************************************)
THEOREM PagesAreNotShared == Spec => []NoSharing
<1>1. IInv => NoSharing
  BY NoSharingIsApiece DEF IInv
<1>. QED
  BY <1>1, Inductive, PTL

(***************************************************************************)
(* Whatever was decoded, rolled back or cleared before, every row a slice  *)
(* reads lies in a page that exists, except between evict() and clear().   *)
(***************************************************************************)
THEOREM ReadsAreBacked == Spec => []ReadsBacked
<1>1. IInv => ReadsBacked
  BY DEF IInv, Backed, ReadsBacked
<1>. QED
  BY <1>1, Inductive, PTL

-----------------------------------------------------------------------------
(* The refinement: what the rows of a cache are after each step.           *)

RowAt(s, c, l, p) ==
    IF p \div PageSize < Len(pages[c][s][l])
    THEN content[pages[c][s][l][p \div PageSize + 1]][p % PageSize]
    ELSE Zero

LEMMA RowsAreRowAt ==
  ASSUME NEW s
  PROVE  /\ RowsOf(s) = [c \in Caches |-> [l \in Layers |-> [p \in 0..MaxLen[c]-1 |->
                           RowAt(s, c, l, p)]]]
         /\ RowsOf(s)' = [c \in Caches |-> [l \in Layers |-> [p \in 0..MaxLen[c]-1 |->
                           RowAt(s, c, l, p)']]]
BY DEF RowsOf, RowAt

\* Buffer b is page p of a layer after the step.
WillBeAt(b, c, s, l, p) ==
    /\ c \in Caches /\ s \in Stores /\ l \in Layers
    /\ p \in 1..Len(pages'[c][s][l]) /\ pages'[c][s][l][p] = b

LEMMA WillBeAtOnePlace ==
  ASSUME OnePlace', NEW b, NEW c, NEW d, NEW s, NEW t, NEW l, NEW m, NEW p, NEW q,
         WillBeAt(b, c, s, l, p), WillBeAt(b, d, t, m, q)
  PROVE  c = d /\ s = t /\ l = m /\ p = q
<1>1. \A r \in Stores, u \in Stores, k \in Layers, h \in Layers :
        \A i \in 1..Len(pages'[c][r][k]), j \in 1..Len(pages'[d][u][h]) :
          pages'[c][r][k][i] = pages'[d][u][h][j] => <<c, r, k, i>> = <<d, u, h, j>>
  BY DEF OnePlace, WillBeAt
<1>2. pages'[c][s][l][p] = pages'[d][t][m][q] => <<c, s, l, p>> = <<d, t, m, q>>
  BY <1>1 DEF WillBeAt
<1>. QED
  BY <1>2 DEF WillBeAt

\* The rows an update writes lie in pages of the layer.
LEMMA WrittenPlace ==
  ASSUME TypeOK, Apiece, Paired, NEW c \in Caches, NEW l \in Layers, NEW n \in 1..MaxRows,
         NEW x, NEW new, Stored(c, l, n, x, new, Grown(c, l, n)),
         NEW p \in len[c]..LastRow(c, n), NEW t \in Stores
  PROVE  /\ p \in Nat /\ p \div PageSize \in Nat
         /\ p \div PageSize < Len(NewPages(c, l, new, t))
         /\ p \div PageSize + 1 \in 1..Len(pages'[c][t][l])
<1> DEFINE m == Grown(c, l, n)
           L == Len(pages[c][t][l])
           r == LastRow(c, n)
<1>1. /\ len[c] \in Nat /\ m \in Nat /\ r \in 0..MaxLen[c]-1 /\ MaxLen[c] \in Nat
      /\ len[c] <= r => r \div PageSize < Len(pages[c]["k"][l]) + m
  BY GrownFacts
<1>2. L = Len(pages[c]["k"][l])
  BY DEF Paired, Stores
<1>3. Len(NewPages(c, l, new, t)) = L + m /\ L \in Nat
  <2>1. Pairs(new, m)
    BY Taken
  <2> HIDE DEF m
  <2>. QED
    BY <2>1, NewPagesFacts
<1>4. pages'[c][t][l] = NewPages(c, l, new, t)
  BY DEF Stored
<1> HIDE DEF m, L, r
<1>5. p \in Nat /\ r \in Nat /\ p <= r /\ len[c] <= r
  BY <1>1 DEF r
<1>6. p \div PageSize <= r \div PageSize /\ p \div PageSize \in Nat /\ r \div PageSize \in Nat
  BY <1>5, SamePage, Divided
<1>7. p \div PageSize < L + m
  BY <1>1, <1>2, <1>3, <1>5, <1>6
<1>. QED
  BY <1>1, <1>3, <1>4, <1>5, <1>6, <1>7

\* Row q of a page is written if and only if it is one of the update's rows.
LEMMA WrittenRows ==
  ASSUME TypeOK, Apiece, Paired, NEW c \in Caches, NEW l \in Layers, NEW n \in 1..MaxRows,
         NEW x, NEW new, Stored(c, l, n, x, new, Grown(c, l, n)),
         NEW d \in Caches, NEW s \in Stores, NEW k \in Layers, NEW q \in Nat,
         q \div PageSize < Len(pages'[d][s][k])
  PROVE  WrittenAt(c, l, n, new, pages'[d][s][k][q \div PageSize + 1], q % PageSize)
         <=> d = c /\ k = l /\ q \in len[c]..LastRow(c, n)
<1> DEFINE j == q \div PageSize + 1
           b == pages'[d][s][k][j]
           W == WrittenAt(c, l, n, new, b, q % PageSize)
<1>0. OnePlace'
  BY StoreKeepsOnePlace
<1>1. q \div PageSize \in Nat /\ j \in 1..Len(pages'[d][s][k])
  <2>1. pages' \in [Caches -> [Stores -> [Layers -> Seq(Buffers)]]]
    BY DEF Stored
  <2>2. Len(pages'[d][s][k]) \in Nat
    BY <2>1
  <2>3. q \div PageSize \in Nat
    BY Divided
  <2>. QED
    BY <2>2, <2>3
<1>2. \A t \in Stores : pages'[c][t][l] = NewPages(c, l, new, t)
  BY DEF Stored
<1>3. ASSUME W PROVE d = c /\ k = l /\ q \in len[c]..LastRow(c, n)
  <2>1. PICK p \in len[c]..LastRow(c, n), t \in Stores :
          NewPages(c, l, new, t)[p \div PageSize + 1] = b /\ p % PageSize = q % PageSize
    BY <1>3 DEF WrittenAt
  <2>2. p \in Nat /\ p \div PageSize \in Nat /\ p \div PageSize + 1 \in 1..Len(pages'[c][t][l])
    BY WrittenPlace
  <2> DEFINE i == p \div PageSize + 1
  <2>3. pages'[c][t][l][i] = pages'[d][s][k][j]
    BY <1>2, <2>1
  <2>4. c = d /\ l = k /\ i = j
    <3>1. WillBeAt(b, c, t, l, i)
      BY <2>2, <2>3 DEF WillBeAt
    <3>2. WillBeAt(b, d, s, k, j)
      BY <1>1 DEF WillBeAt
    <3> HIDE DEF i, j, b, W
    <3>. QED
      BY <1>0, <3>1, <3>2, WillBeAtOnePlace
  <2>5. p \div PageSize = q \div PageSize
    BY <1>1, <2>2, <2>4
  <2>6. p = q
    BY <2>1, <2>2, <2>5, SamePage
  <2>. QED
    BY <2>4, <2>6
<1>4. ASSUME d = c, k = l, q \in len[c]..LastRow(c, n) PROVE W
  BY <1>2, <1>4 DEF WrittenAt
<1>. QED
  BY <1>3, <1>4

AsBefore(new, d, s, k, q) ==
    Filled(new)[pages'[d][s][k][q \div PageSize + 1]][q % PageSize] = RowAt(s, d, k, q)

\* The other rows of a page: those of before, and zeros in a new page.
LEMMA FilledRows ==
  ASSUME TypeOK, Apiece, Paired, NEW c \in Caches, NEW l \in Layers, NEW n \in 1..MaxRows,
         NEW x, NEW new, NEW m, Stored(c, l, n, x, new, m),
         NEW d \in Caches, NEW s \in Stores, NEW k \in Layers, NEW q \in Nat,
         q \div PageSize < Len(pages'[d][s][k])
  PROVE  AsBefore(new, d, s, k, q)
<1> DEFINE i == q \div PageSize
           j == i + 1
           b == pages'[d][s][k][j]
           L == Len(pages[d][s][k])
<1> SUFFICES Filled(new)[b][q % PageSize] = RowAt(s, d, k, q)
  BY DEF AsBefore
<1>0. pages' \in [Caches -> [Stores -> [Layers -> Seq(Buffers)]]]
  BY DEF Stored
<1>1. /\ i \in Nat /\ q % PageSize \in 0..PageSize-1
      /\ j \in 1..Len(pages'[d][s][k]) /\ b \in Buffers
  <2>1. Len(pages'[d][s][k]) \in Nat
    BY <1>0
  <2>2. i \in Nat /\ q % PageSize \in 0..PageSize-1
    BY Divided
  <2>3. j \in 1..Len(pages'[d][s][k])
    BY <2>1, <2>2
  <2>. QED
    BY <1>0, <2>2, <2>3
<1>2. /\ Pairs(new, m) /\ \A h \in 1..2*m : ~Owned(new[h])
      /\ m \in Nat /\ Len(new) = 2 * m
  BY Taken DEF Pairs
<1>3. L \in Nat /\ \A h \in 1..L : Owned(pages[d][s][k][h])
  BY PageTypes DEF Owned
<1>4. RowAt(s, d, k, q) = IF i < L THEN content[pages[d][s][k][j]][q % PageSize] ELSE Zero
  BY DEF RowAt
<1>5. \/ j \in 1..L /\ b = pages[d][s][k][j]
      \/ /\ d = c /\ k = l
         /\ NewIndex(c, l, s, j) \in 1..2 * m /\ b = new[NewIndex(c, l, s, j)]
  <2>1. CameFrom(c, l, new, m, d, s, k, j)
    <3> HIDE DEF j
    <3>. QED
      BY <1>1, PlacesStored
  <2>. QED
    BY <2>1 DEF CameFrom
<1>6. CASE j \in 1..L /\ b = pages[d][s][k][j]
  <2>1. Owned(b) /\ i < L
    BY <1>1, <1>3, <1>6
  <2>2. ~\E h \in 1..Len(new) : new[h] = b
    BY <1>2, <2>1
  <2>3. Filled(new)[b] = content[b]
    BY <1>1, <2>2 DEF Filled
  <2>. QED
    BY <1>4, <1>6, <2>1, <2>3
<1>7. CASE /\ d = c /\ k = l /\ ~(j \in 1..L)
           /\ NewIndex(c, l, s, j) \in 1..2 * m /\ b = new[NewIndex(c, l, s, j)]
  <2>1. \E h \in 1..Len(new) : new[h] = b
    BY <1>2, <1>7
  <2>2. Filled(new)[b] = BlankPage
    BY <1>1, <2>1 DEF Filled
  <2>3. Filled(new)[b][q % PageSize] = Zero
    BY <1>1, <2>2 DEF BlankPage
  <2>4. ~(i < L)
    <3> HIDE DEF L, i
    <3>. QED
      BY <1>1, <1>3, <1>7
  <2>. QED
    BY <1>4, <2>3, <2>4
<1>8. CASE j \in 1..L /\ b # pages[d][s][k][j]
  <2>1. d = c /\ k = l /\ NewIndex(c, l, s, j) \in 1..2 * m
    BY <1>5, <1>8
  <2>2. NewIndex(c, l, s, j) = 2 * (j - L) - First(s) /\ First(s) \in {0, 1}
    BY <2>1 DEF NewIndex, Paired, Stores, First
  <2>3. 2 * (j - L) - First(s) <= 0
    <3> HIDE DEF L, j
    <3>. QED
      BY <1>3, <1>8, <2>2
  <2>. QED
    BY <1>2, <2>1, <2>2, <2>3
<1>. QED
  BY <1>5, <1>6, <1>7, <1>8

LEMMA StoredRow ==
  ASSUME TypeOK, Apiece, Paired, NEW c \in Caches, NEW l \in Layers, NEW n \in 1..MaxRows,
         NEW x, NEW new, Stored(c, l, n, x, new, Grown(c, l, n)),
         NEW d \in Caches, NEW s \in Stores, NEW k \in Layers, NEW q \in Nat
  PROVE  /\ d = c /\ k = l /\ q \in len[c]..LastRow(c, n) => RowAt(s, d, k, q)' = x
         /\ ~(d = c /\ k = l /\ q \in len[c]..LastRow(c, n)) =>
              RowAt(s, d, k, q)' = RowAt(s, d, k, q)
<1> DEFINE i == q \div PageSize
           b == pages'[d][s][k][i + 1]
           o == q % PageSize
           In == d = c /\ k = l /\ q \in len[c]..LastRow(c, n)
<1>0. pages' \in [Caches -> [Stores -> [Layers -> Seq(Buffers)]]]
  BY DEF Stored
<1>1. Len(pages'[d][s][k]) \in Nat /\ i \in Nat /\ o \in 0..PageSize-1
  <2>1. Len(pages'[d][s][k]) \in Nat
    BY <1>0
  <2>2. i \in Nat /\ o \in 0..PageSize-1
    BY Divided
  <2>. QED
    BY <2>1, <2>2
<1>2. CASE i < Len(pages'[d][s][k])
  <2>1. i + 1 \in 1..Len(pages'[d][s][k])
    BY <1>1, <1>2
  <2>2. b \in Buffers
    BY <1>0, <2>1
  <2>3. content'[b][o] = IF WrittenAt(c, l, n, new, b, o) THEN x ELSE Filled(new)[b][o]
    BY <1>1, <2>2 DEF Stored
  <2>4. WrittenAt(c, l, n, new, b, o) <=> In
    BY <1>2, WrittenRows
  <2>5. Filled(new)[b][o] = RowAt(s, d, k, q)
    <3>1. AsBefore(new, d, s, k, q)
      BY <1>2, FilledRows
    <3>. QED
      BY <3>1 DEF AsBefore
  <2>6. RowAt(s, d, k, q)' = content'[b][o]
    BY <1>2 DEF RowAt
  <2> HIDE DEF b, o, In
  <2>7. (In => RowAt(s, d, k, q)' = x) /\ (~In => RowAt(s, d, k, q)' = RowAt(s, d, k, q))
    BY <2>3, <2>4, <2>5, <2>6
  <2>. QED
    BY <2>7 DEF In
<1>3. CASE ~(i < Len(pages'[d][s][k]))
  <2>1. RowAt(s, d, k, q)' = Zero
    BY <1>3 DEF RowAt
  <2>2. ~In
    <3> SUFFICES ASSUME In PROVE FALSE
      OBVIOUS
    <3>1. i < Len(NewPages(c, l, new, s))
      BY WrittenPlace
    <3>2. pages'[c][s][l] = NewPages(c, l, new, s)
      BY DEF Stored
    <3>. QED
      BY <1>3, <3>1, <3>2
  <2>3. RowAt(s, d, k, q) = Zero
    <3>1. ~(i < Len(pages[d][s][k]))
      <4>1. CASE d = c /\ k = l
        <5>1. Pairs(new, Grown(c, l, n))
          BY Taken
        <5> DEFINE m == Grown(c, l, n)
        <5>2. Pairs(new, m)
          BY <5>1
        <5> HIDE DEF m
        <5>3. /\ Len(NewPages(c, l, new, s)) = Len(pages[c][s][l]) + m /\ m \in Nat
              /\ Len(pages[c][s][l]) \in Nat
          BY <5>2, NewPagesFacts
        <5>4. pages'[c][s][l] = NewPages(c, l, new, s)
          BY DEF Stored
        <5>. QED
          BY <1>1, <1>3, <4>1, <5>3, <5>4
      <4>2. CASE ~(d = c /\ k = l)
        BY <1>3, <4>2 DEF Stored
      <4>. QED
        BY <4>1, <4>2
    <3>. QED
      BY <3>1 DEF RowAt
  <2>. QED
    BY <2>1, <2>2, <2>3
<1>. QED
  BY <1>2, <1>3

\* RowStore's actions, for the rows of either store.
RowsWritten(s, c, l, n, x) ==
    RowsOf(s)' = [RowsOf(s) EXCEPT ![c][l] =
                    [p \in 0..MaxLen[c]-1 |-> IF p \in len[c]..len[c]+n-1 THEN x ELSE @[p]]]

RowsBlanked(s, c) ==
    RowsOf(s)' = [RowsOf(s) EXCEPT ![c] = [l \in Layers |-> [p \in 0..MaxLen[c]-1 |-> Zero]]]

LEMMA StoreLayerWrites ==
  ASSUME IInv, NEW c \in Caches, StoreLayer(c), NEW s \in Stores
  PROVE  \E l \in Layers, n \in 1..MaxLen[c], x \in Values :
           RowsWritten(s, c, l, n, x) /\ UNCHANGED len
<1> DEFINE l == layer[c]
           z == step[c]
           x == value[c]
           n == Cut(c, z)
           R == RowsOf(s)
<1>0. TypeOK /\ Apiece /\ Paired
  BY DEF IInv
<1>1. l \in Layers /\ z \in 1..MaxRows /\ x \in Values /\ UNCHANGED len
  BY <1>0, StoreLayerFacts
<1>2. PICK new : Stored(c, l, z, x, new, Grown(c, l, z))
  BY <1>0, StoreLayerFacts
<1> HIDE DEF l, z, x
<1>3. /\ len[c] \in Nat /\ z \in Nat /\ z > 0 /\ MaxLen[c] \in Nat /\ MaxLen[c] > 0
  <2>0. len[c] \in Nat
    BY <1>0 DEF TypeOK
  <2>1. MaxLen[c] \in Nat /\ MaxLen[c] > 0
    BY CutFacts
  <2>2. z \in Nat /\ z > 0
    BY <1>1, KVCacheAssumption DEF KVCacheAssumption
  <2>. QED
    BY <2>0, <2>1, <2>2
<1>4. n \in 1..MaxLen[c]
  BY <1>3 DEF Cut
<1>5. \A q \in 0..MaxLen[c]-1 : q \in len[c]..LastRow(c, z) <=> q \in len[c]..len[c]+n-1
  BY <1>3 DEF Cut, LastRow
<1> HIDE DEF n
<1> DEFINE F == [p \in 0..MaxLen[c]-1 |-> IF p \in len[c]..len[c]+n-1 THEN x ELSE R[c][l][p]]
<1>6. /\ R = [d \in Caches |-> [k \in Layers |-> [p \in 0..MaxLen[d]-1 |-> RowAt(s, d, k, p)]]]
      /\ R' = [d \in Caches |-> [k \in Layers |-> [p \in 0..MaxLen[d]-1 |-> RowAt(s, d, k, p)']]]
  BY RowsAreRowAt
<1> HIDE DEF R
<1>7. \A d \in Caches : MaxLen[d] \in Nat
  BY CutFacts
<1>8. ASSUME NEW d \in Caches, NEW k \in Layers, NEW q \in 0..MaxLen[d]-1
      PROVE  /\ d = c /\ k = l /\ q \in len[c]..LastRow(c, z) => RowAt(s, d, k, q)' = x
             /\ ~(d = c /\ k = l /\ q \in len[c]..LastRow(c, z)) =>
                  RowAt(s, d, k, q)' = RowAt(s, d, k, q)
  <2>1. q \in Nat
    BY <1>7
  <2>. QED
    BY <1>0, <1>1, <1>2, <2>1, StoredRow
<1>9. R'[c][l] = F
  <2>1. \A q \in 0..MaxLen[c]-1 : R'[c][l][q] = F[q]
    BY <1>1, <1>5, <1>6, <1>8
  <2>. QED
    BY <1>1, <1>6, <2>1
<1>10. ASSUME NEW d \in Caches, NEW k \in Layers, d # c \/ k # l PROVE R'[d][k] = R[d][k]
  BY <1>6, <1>8, <1>10
<1> HIDE DEF F
<1>11. R' = [R EXCEPT ![c][l] = F]
  <2>1. /\ R = [d \in Caches |-> R[d]] /\ R' = [d \in Caches |-> R'[d]]
        /\ \A d \in Caches : R[d] = [k \in Layers |-> R[d][k]] /\ R'[d] = [k \in Layers |-> R'[d][k]]
    BY <1>6
  <2>2. R'[c] = [R[c] EXCEPT ![l] = F]
    BY <1>1, <1>9, <1>10, <2>1
  <2>3. \A d \in Caches : d # c => R'[d] = R[d]
    BY <1>10, <2>1
  <2>4. R' = [R EXCEPT ![c] = [R[c] EXCEPT ![l] = F]]
    BY <2>1, <2>2, <2>3
  <2>. QED
    BY <2>4
<1>12. RowsWritten(s, c, l, n, x)
  BY <1>11 DEF RowsWritten, R, F
<1>. QED
  BY <1>1, <1>4, <1>12

LEMMA DropBlanks ==
  ASSUME IInv, NEW c \in Caches, DropPages(c), NEW s \in Stores
  PROVE  RowsBlanked(s, c)
<1> DEFINE R == RowsOf(s)
           B == [l \in Layers |-> [p \in 0..MaxLen[c]-1 |-> Zero]]
<1>1. /\ \A t \in Stores, l \in Layers : pages'[c][t][l] = <<>>
      /\ \A d \in Caches, t \in Stores, l \in Layers : d # c => pages'[d][t][l] = pages[d][t][l]
      /\ content' = content
  BY DropFacts DEF IInv, DropPages
<1>2. ASSUME NEW l \in Layers, NEW q \in 0..MaxLen[c]-1 PROVE RowAt(s, c, l, q)' = Zero
  <2>1. q \div PageSize \in Nat
    BY Divided, CutFacts
  <2>2. Len(pages'[c][s][l]) = 0
    BY <1>1
  <2>. QED
    BY <2>1, <2>2 DEF RowAt
<1>3. ASSUME NEW d \in Caches, d # c, NEW l \in Layers, NEW q
      PROVE  RowAt(s, d, l, q)' = RowAt(s, d, l, q)
  BY <1>1, <1>3 DEF RowAt
<1>4. /\ R = [d \in Caches |-> [k \in Layers |-> [p \in 0..MaxLen[d]-1 |-> RowAt(s, d, k, p)]]]
      /\ R' = [d \in Caches |-> [k \in Layers |-> [p \in 0..MaxLen[d]-1 |-> RowAt(s, d, k, p)']]]
  BY RowsAreRowAt
<1> HIDE DEF R
<1>5. R'[c] = B
  BY <1>2, <1>4
<1>6. \A d \in Caches : d # c => R'[d] = R[d]
  BY <1>3, <1>4
<1> HIDE DEF B
<1>7. R' = [R EXCEPT ![c] = B]
  BY <1>4, <1>5, <1>6
<1>. QED
  BY <1>7 DEF RowsBlanked, R, B

\* The abstract step each step is, for the rows of either store.
RowStep(s) ==
    \/ \E c \in Caches, l \in Layers : \E n \in 1..MaxLen[c], x \in Values :
         RowsWritten(s, c, l, n, x) /\ UNCHANGED len
    \/ \E c \in Caches : \E n \in 0..MaxLen[c] :
         /\ \/ len' = [len EXCEPT ![c] = Cut(c, len[c] + n)]
            \/ len' = [len EXCEPT ![c] = n]
         /\ RowsOf(s)' = RowsOf(s)
    \/ \E c \in Caches :
         RowsBlanked(s, c) /\ (len' = len \/ len' = [len EXCEPT ![c] = 0])
    \/ UNCHANGED <<RowsOf(s), len>>

LEMMA RowsNext ==
  ASSUME IInv, [Next]_vars, NEW s \in Stores
  PROVE  RowStep(s)
<1>1. ASSUME UNCHANGED <<pages, content>> PROVE RowsOf(s)' = RowsOf(s)
  BY <1>1 DEF RowsOf
<1>2. ASSUME NEW c \in Caches, Begin(c) PROVE RowStep(s)
  BY <1>1, <1>2 DEF Begin, cache, RowStep
<1>3. ASSUME NEW c \in Caches, StoreLayer(c) PROVE RowStep(s)
  BY <1>3, StoreLayerWrites DEF RowStep
<1>4. ASSUME NEW c \in Caches, Advance(c) PROVE RowStep(s)
  <2> DEFINE n == Cut(c, step[c])
  <2>1. /\ len[c] \in Nat /\ step[c] \in Nat /\ MaxLen[c] \in Nat
        /\ len[c] <= MaxLen[c]
    BY CutFacts, KVCacheAssumption DEF IInv, TypeOK, KVCacheAssumption
  <2>2. n \in 0..MaxLen[c] /\ Cut(c, len[c] + n) = Cut(c, len[c] + step[c])
    BY <2>1 DEF Cut
  <2>3. RowsOf(s)' = RowsOf(s) /\ len' = [len EXCEPT ![c] = Cut(c, len[c] + step[c])]
    BY <1>1, <1>4 DEF Advance, cache
  <2> HIDE DEF n
  <2>. QED
    BY <2>2, <2>3 DEF RowStep
<1>5. ASSUME NEW c \in Caches, SetSize(c) PROVE RowStep(s)
  <2>1. PICK n \in 0..len[c] : len' = [len EXCEPT ![c] = Cut(c, n)]
    BY <1>5 DEF SetSize
  <2>2. len[c] \in Nat /\ n \in Nat
    BY DEF IInv, TypeOK
  <2>3. Cut(c, n) \in 0..MaxLen[c]
    BY <2>2, CutFacts
  <2>4. RowsOf(s)' = RowsOf(s)
    BY <1>1, <1>5 DEF SetSize, cache
  <2>. QED
    BY <2>1, <2>3, <2>4 DEF RowStep
<1>6. ASSUME NEW c \in Caches, Evict(c) \/ Clear(c) PROVE RowStep(s)
  <2>1. DropPages(c) /\ (len' = len \/ len' = [len EXCEPT ![c] = 0])
    BY <1>6 DEF Evict, Clear
  <2>. QED
    BY <2>1, DropBlanks DEF RowStep
<1>7. CASE UNCHANGED vars
  BY <1>1, <1>7 DEF vars, RowStep
<1>. QED
  BY <1>2, <1>3, <1>4, <1>5, <1>6, <1>7 DEF Next

LEMMA RowsInit ==
  ASSUME Init, NEW s \in Stores
  PROVE  /\ RowsOf(s) = [c \in Caches |-> [l \in Layers |-> [p \in 0..MaxLen[c]-1 |-> Zero]]]
         /\ len = [c \in Caches |-> 0]
<1>1. ASSUME NEW c \in Caches, NEW l \in Layers, NEW p \in 0..MaxLen[c]-1
      PROVE  RowAt(s, c, l, p) = Zero
  <2>1. p \div PageSize \in Nat
    BY Divided, CutFacts
  <2>2. Len(pages[c][s][l]) = 0
    BY DEF Init
  <2>. QED
    BY <2>1, <2>2 DEF RowAt
<1>2. RowsOf(s) = [c \in Caches |-> [l \in Layers |-> [p \in 0..MaxLen[c]-1 |-> RowAt(s, c, l, p)]]]
  BY RowsAreRowAt
<1>3. len = [c \in Caches |-> 0]
  BY DEF Init
<1>. QED
  BY <1>1, <1>2, <1>3

LEMMA KRefines == Spec => K!Spec
<1>1. Init => K!Init
  <2> SUFFICES ASSUME Init PROVE K!Init
    OBVIOUS
  <2>1. "k" \in Stores
    BY DEF Stores
  <2>. QED
    BY <2>1, RowsInit DEF K!Init, K!Blank, K!Positions
<1>2. IInv /\ [Next]_vars => [K!Next]_(K!vars)
  <2> SUFFICES ASSUME IInv, [Next]_vars PROVE [K!Next]_(K!vars)
    OBVIOUS
  <2>1. RowStep("k")
    BY RowsNext DEF Stores
  <2>. QED
    BY <2>1 DEF RowStep, RowsWritten, RowsBlanked, Cut, K!Next, K!Update, K!Advance, K!SetSize,
       K!Clear, K!Evict, K!Blank, K!Positions, K!vars
<1>. QED
  BY <1>1, <1>2, Inductive, PTL DEF Spec, K!Spec

LEMMA VRefines == Spec => V!Spec
<1>1. Init => V!Init
  <2> SUFFICES ASSUME Init PROVE V!Init
    OBVIOUS
  <2>1. "v" \in Stores
    BY DEF Stores
  <2>. QED
    BY <2>1, RowsInit DEF V!Init, V!Blank, V!Positions
<1>2. IInv /\ [Next]_vars => [V!Next]_(V!vars)
  <2> SUFFICES ASSUME IInv, [Next]_vars PROVE [V!Next]_(V!vars)
    OBVIOUS
  <2>1. RowStep("v")
    BY RowsNext DEF Stores
  <2>. QED
    BY <2>1 DEF RowStep, RowsWritten, RowsBlanked, Cut, V!Next, V!Update, V!Advance, V!SetSize,
       V!Clear, V!Evict, V!Blank, V!Positions, V!vars
<1>. QED
  BY <1>1, <1>2, Inductive, PTL DEF Spec, V!Spec

(***************************************************************************)
(* Paging, the pool that several caches share and the recycling of pages   *)
(* are invisible: K and V of every cache are tables of rows of their own,  *)
(* written at the cursor, cut at max_seq_len and blank once evicted.       *)
(***************************************************************************)
THEOREM PagedIsRowStore == Spec => IsRowStore
BY KRefines, VRefines DEF IsRowStore

-----------------------------------------------------------------------------
(* The pages a cache can have in a layer, and their sum over the caches.   *)

Slots(c) == (MaxLen[c] + PageSize - 1) \div PageSize

Cells(C) == {x \in C \X Nat : x[2] \in 1..Slots(x[1])}

LEMMA SlotsNat ==
  ASSUME NEW c \in Caches
  PROVE  Slots(c) \in Nat /\ (MaxLen[c] - 1) \div PageSize + 1 = Slots(c)
<1> DEFINE r == MaxLen[c] - 1
           q == r \div PageSize
           s == r + PageSize
           u == s \div PageSize
<1>1. PageSize \in Nat \ {0} /\ r \in Nat /\ s \in Nat /\ s = MaxLen[c] + PageSize - 1
  BY KVCacheAssumption DEF KVCacheAssumption
<1>2. /\ q \in Nat /\ r % PageSize \in 0..PageSize-1 /\ r = PageSize * q + (r % PageSize)
      /\ u \in Nat /\ s % PageSize \in 0..PageSize-1 /\ s = PageSize * u + (s % PageSize)
  BY <1>1, Divided
<1> HIDE DEF q, u, s, r
<1>3. s = PageSize * (q + 1) + (r % PageSize)
  <2>1. PageSize * (q + 1) = PageSize * q + PageSize /\ PageSize * q \in Nat
    BY <1>1, <1>2
  <2>. QED
    BY <1>1, <1>2, <2>1 DEF s
<1>4. ASSUME u < q + 1 PROVE FALSE
  <2>1. PageSize * (u + 1) <= PageSize * (q + 1)
    BY <1>2, <1>4, PagesMore
  <2>2. PageSize * (u + 1) = PageSize * u + PageSize /\ PageSize * u \in Nat
        /\ PageSize * (q + 1) \in Nat
    BY <1>1, <1>2
  <2>. QED
    BY <1>1, <1>2, <1>3, <2>1, <2>2
<1>5. ASSUME q + 1 < u PROVE FALSE
  <2>1. PageSize * (q + 2) <= PageSize * u
    BY <1>2, <1>5, PagesMore
  <2>2. PageSize * (q + 2) = PageSize * (q + 1) + PageSize /\ PageSize * u \in Nat
        /\ PageSize * (q + 1) \in Nat
    BY <1>1, <1>2
  <2>. QED
    BY <1>1, <1>2, <1>3, <2>1, <2>2
<1>6. u = q + 1
  BY <1>2, <1>4, <1>5
<1>. QED
  BY <1>1, <1>2, <1>6 DEF Slots, q, r, u, s

LEMMA CellsAdd ==
  ASSUME NEW C \in SUBSET Caches, NEW x \in C, IsFiniteSet(Cells(C \ {x}))
  PROVE  /\ IsFiniteSet(Cells(C))
         /\ Cardinality(Cells(C)) = Slots(x) + Cardinality(Cells(C \ {x}))
<1> DEFINE A == Cells(C \ {x})
           R == {x} \X (1..Slots(x))
<1>1. Slots(x) \in Nat
  BY SlotsNat
<1>2. Cells(C) = A \cup R /\ A \cap R = {}
  BY <1>1 DEF Cells
<1>3. IsFiniteSet(R) /\ Cardinality(R) = Slots(x)
  <2>1. IsFiniteSet({x}) /\ Cardinality({x}) = 1
    BY FS_Singleton
  <2>2. IsFiniteSet(1..Slots(x)) /\ Cardinality(1..Slots(x)) = Slots(x)
    BY <1>1, FS_Interval
  <2>3. IsFiniteSet(R) /\ Cardinality(R) = 1 * Slots(x)
    BY <2>1, <2>2, FS_Product
  <2>. QED
    BY <1>1, <2>3
<1> HIDE DEF A, R
<1>4. IsFiniteSet(A) /\ Cardinality(A) \in Nat
  BY FS_CardinalityType DEF A
<1>5. IsFiniteSet(A \cup R)
      /\ Cardinality(A \cup R) = Cardinality(A) + Cardinality(R) - Cardinality(A \cap R)
  BY <1>3, <1>4, FS_Union
<1>6. Cardinality(A \cap R) = 0
  BY <1>2, FS_EmptySet
<1>. QED
  BY <1>1, <1>2, <1>3, <1>4, <1>5, <1>6 DEF A

LEMMA CellsFinite ==
  ASSUME NEW C \in SUBSET Caches
  PROVE  /\ IsFiniteSet(C) /\ Cardinality(C) \in Nat
         /\ IsFiniteSet(Cells(C)) /\ Cardinality(Cells(C)) \in Nat
<1> DEFINE P == {n \in Nat : \A D \in SUBSET Caches : Cardinality(D) = n => IsFiniteSet(Cells(D))}
<1>1. \A D \in SUBSET Caches : IsFiniteSet(D) /\ Cardinality(D) \in Nat
  BY KVCacheAssumption, FS_Subset, FS_CardinalityType DEF KVCacheAssumption
<1>2. 0 \in P
  <2>1. ASSUME NEW D \in SUBSET Caches, Cardinality(D) = 0 PROVE IsFiniteSet(Cells(D))
    <3>1. D = {}
      BY <1>1, <2>1, FS_EmptySet
    <3>2. Cells(D) = {}
      BY <3>1 DEF Cells
    <3>. QED
      BY <3>2, FS_EmptySet
  <2>. QED
    BY <2>1
<1>3. ASSUME NEW n \in Nat, n \in P PROVE n + 1 \in P
  <2>1. ASSUME NEW D \in SUBSET Caches, Cardinality(D) = n + 1 PROVE IsFiniteSet(Cells(D))
    <3>1. D # {}
      BY <2>1, FS_EmptySet
    <3>2. PICK x \in D : TRUE
      BY <3>1
    <3>3. Cardinality(D \ {x}) = n
      BY <1>1, <2>1, FS_RemoveElement
    <3>4. IsFiniteSet(Cells(D \ {x}))
      BY <1>3, <3>3
    <3>. QED
      BY <3>4, CellsAdd
  <2>. QED
    BY <2>1
<1> HIDE DEF P
<1>4. \A n \in Nat : n \in P
  BY <1>2, <1>3, SetInduction
<1>5. IsFiniteSet(Cells(C))
  BY <1>1, <1>4 DEF P
<1>. QED
  BY <1>1, <1>5, FS_CardinalityType

One(s) == CHOOSE x \in s : TRUE

SumStep(it, s) == IF s = {} THEN 0 ELSE Slots(One(s)) + it[s \ {One(s)}]

SlotSum == CHOOSE it : it = [s \in SUBSET Caches |-> SumStep(it, s)]

LEMMA SlotSumUnfold ==
  /\ MapThenSumSet(LAMBDA c : (MaxLen[c] + PageSize - 1) \div PageSize, Caches) = SlotSum[Caches]
BY DEF MapThenSumSet, MapThenFoldSet, SlotSum, SumStep, One, Slots

(***************************************************************************)
(* The sum PoolBounded is about counts the cells.                          *)
(***************************************************************************)
LEMMA SlotSumCounts ==
  ASSUME NEW C \in SUBSET Caches
  PROVE  SlotSum[C] = Cardinality(Cells(C))
<1> DEFINE g == [s \in SUBSET Caches |-> Cardinality(Cells(s))]
           P == {n \in Nat : \A D \in SUBSET Caches :
                   Cardinality(D) = n => SlotSum[D] = Cardinality(Cells(D))}
<1>1. Cells({}) = {} /\ Cardinality(Cells({})) = 0
  BY FS_EmptySet DEF Cells
<1>2. ASSUME NEW D \in SUBSET Caches, D # {}
      PROVE  /\ One(D) \in D /\ D \ {One(D)} \in SUBSET Caches
             /\ Cardinality(Cells(D)) = Slots(One(D)) + Cardinality(Cells(D \ {One(D)}))
             /\ Cardinality(D) = Cardinality(D \ {One(D)}) + 1
  <2>1. One(D) \in D /\ D \ {One(D)} \in SUBSET Caches
    BY <1>2 DEF One
  <2>2. IsFiniteSet(Cells(D \ {One(D)})) /\ IsFiniteSet(D) /\ Cardinality(D) \in Nat
    BY <2>1, CellsFinite
  <2>3. Cardinality(D \ {One(D)}) = Cardinality(D) - 1
    BY <2>1, <2>2, FS_RemoveElement
  <2>. QED
    BY <2>1, <2>2, <2>3, CellsAdd
<1>3. \A s \in SUBSET Caches : g[s] = SumStep(g, s)
  <2>1. ASSUME NEW s \in SUBSET Caches PROVE g[s] = SumStep(g, s)
    <3>1. CASE s = {}
      BY <1>1, <3>1 DEF SumStep
    <3>2. CASE s # {}
      BY <1>2, <3>2 DEF SumStep
    <3>. QED
      BY <3>1, <3>2
  <2>. QED
    BY <2>1
<1>4. g = [s \in SUBSET Caches |-> SumStep(g, s)]
  BY <1>3
<1> HIDE DEF g
<1>5. SlotSum = [s \in SUBSET Caches |-> SumStep(SlotSum, s)]
  BY <1>4 DEF SlotSum
<1>6. \A s \in SUBSET Caches : SlotSum[s] = SumStep(SlotSum, s)
  BY <1>5
<1>7. 0 \in P
  <2>1. ASSUME NEW D \in SUBSET Caches, Cardinality(D) = 0 PROVE SlotSum[D] = Cardinality(Cells(D))
    <3>1. D = {}
      BY <2>1, CellsFinite, FS_EmptySet
    <3>. QED
      BY <1>1, <1>6, <3>1 DEF SumStep
  <2>. QED
    BY <2>1
<1>8. ASSUME NEW n \in Nat, n \in P PROVE n + 1 \in P
  <2>1. ASSUME NEW D \in SUBSET Caches, Cardinality(D) = n + 1
        PROVE  SlotSum[D] = Cardinality(Cells(D))
    <3>1. D # {}
      BY <2>1, FS_EmptySet
    <3>2. Cardinality(D \ {One(D)}) = n
      <4>1. Cardinality(D \ {One(D)}) \in Nat
        BY <1>2, <3>1, CellsFinite
      <4>. QED
        BY <1>2, <2>1, <3>1, <4>1
    <3>3. SlotSum[D \ {One(D)}] = Cardinality(Cells(D \ {One(D)}))
      BY <1>2, <1>8, <3>1, <3>2
    <3>. QED
      BY <1>2, <1>6, <3>1, <3>3 DEF SumStep
  <2>. QED
    BY <2>1
<1> HIDE DEF P
<1>9. \A n \in Nat : n \in P
  BY <1>7, <1>8, SetInduction
<1>. QED
  BY <1>9, CellsFinite DEF P
-----------------------------------------------------------------------------
(* Buffers and the room of the caches: a place for each page a cache can   *)
(* ever have.                                                              *)

Room(C) == (Stores \X Layers) \X Cells(C)

\* The places filled when the caches' pages are pg, and the buffers there.
Filling(pg, C) == {u \in Room(C) : u[2][2] <= Len(pg[u[2][1]][u[1][1]][u[1][2]])}

Held(pg, C) == {b \in Buffers : \E c \in C, s \in Stores, l \in Layers :
                  \E p \in 1..Len(pg[c][s][l]) : pg[c][s][l][p] = b}

Cap(pg) == \A c \in Caches, s \in Stores, l \in Layers : Len(pg[c][s][l]) <= Slots(c)

AllPg == [Caches -> [Stores -> [Layers -> Seq(Buffers)]]]

LEMMA StoresSize == IsFiniteSet(Stores) /\ Cardinality(Stores) = 2
<1>1. IsFiniteSet({"k"}) /\ Cardinality({"k"}) = 1
  BY FS_Singleton
<1>2. IsFiniteSet({"k"} \cup {"v"}) /\ Cardinality({"k"} \cup {"v"}) = 2
  BY <1>1, FS_AddElement
<1>3. Stores = {"k"} \cup {"v"}
  BY DEF Stores
<1>. QED
  BY <1>2, <1>3

LEMMA RoomSize ==
  ASSUME NEW C \in SUBSET Caches
  PROVE  /\ IsFiniteSet(Room(C)) /\ Cardinality(Room(C)) \in Nat
         /\ Cardinality(Room(C)) = (2 * NLayers) * Cardinality(Cells(C))
<1>0. NLayers \in Nat \ {0}
  BY KVCacheAssumption DEF KVCacheAssumption
<1>1. IsFiniteSet(Stores) /\ Cardinality(Stores) = 2
  BY StoresSize
<1>2. IsFiniteSet(Layers) /\ Cardinality(Layers) = NLayers
  BY <1>0, FS_Interval DEF Layers
<1>3. IsFiniteSet(Stores \X Layers) /\ Cardinality(Stores \X Layers) = 2 * NLayers
  BY <1>1, <1>2, FS_Product
<1>4. IsFiniteSet(Cells(C)) /\ Cardinality(Cells(C)) \in Nat
  BY CellsFinite
<1>5. /\ IsFiniteSet(Room(C))
      /\ Cardinality(Room(C)) = Cardinality(Stores \X Layers) * Cardinality(Cells(C))
  BY <1>3, <1>4, FS_Product DEF Room
<1>. QED
  BY <1>3, <1>5, FS_CardinalityType

LEMMA HeldFits ==
  ASSUME NEW pg \in AllPg, Cap(pg), NEW C \in SUBSET Caches
  PROVE  /\ IsFiniteSet(Filling(pg, C)) /\ Cardinality(Filling(pg, C)) \in Nat
         /\ Cardinality(Filling(pg, C)) <= Cardinality(Room(C))
         /\ IsFiniteSet(Held(pg, C)) /\ Cardinality(Held(pg, C)) \in Nat
         /\ Cardinality(Held(pg, C)) <= Cardinality(Filling(pg, C))
<1> DEFINE F == Filling(pg, C)
           H == Held(pg, C)
           f == [u \in F |-> pg[u[2][1]][u[1][1]][u[1][2]][u[2][2]]]
<1>1. IsFiniteSet(F) /\ Cardinality(F) <= Cardinality(Room(C)) /\ Cardinality(F) \in Nat
  <2>1. F \in SUBSET Room(C)
    BY DEF Filling
  <2>. QED
    BY <2>1, RoomSize, FS_Subset, FS_CardinalityType
<1>2. ASSUME NEW u \in F PROVE f[u] \in H
  <2>1. PICK s \in Stores, l \in Layers, c \in C, p \in Nat :
          u = <<<<s, l>>, <<c, p>>>> /\ p \in 1..Slots(c)
    BY DEF Filling, Room, Cells
  <2>2. pg[c][s][l] \in Seq(Buffers) /\ p \in 1..Len(pg[c][s][l])
    <3>1. pg[c][s][l] \in Seq(Buffers) /\ Len(pg[c][s][l]) \in Nat
      BY DEF AllPg
    <3>2. p <= Len(pg[c][s][l])
      BY <2>1 DEF Filling
    <3>3. p >= 1
      BY <2>1
    <3>. QED
      BY <3>1, <3>2, <3>3
  <2>3. f[u] = pg[c][s][l][p]
    BY <2>1
  <2>4. pg[c][s][l][p] \in Buffers
    BY <2>2
  <2>. QED
    BY <2>2, <2>3, <2>4 DEF Held
<1>3. ASSUME NEW b \in H PROVE \E u \in F : f[u] = b
  <2>1. PICK c \in C, s \in Stores, l \in Layers :
          \E p \in 1..Len(pg[c][s][l]) : pg[c][s][l][p] = b
    BY DEF Held
  <2>2. PICK p \in 1..Len(pg[c][s][l]) : pg[c][s][l][p] = b
    BY <2>1
  <2> DEFINE u == <<<<s, l>>, <<c, p>>>>
  <2>3. Len(pg[c][s][l]) \in Nat /\ Len(pg[c][s][l]) <= Slots(c) /\ Slots(c) \in Nat
    BY SlotsNat DEF Cap, AllPg
  <2>4. p \in Nat /\ p \in 1..Slots(c)
    BY <2>3
  <2>5. u \in Room(C)
    BY <2>4 DEF Room, Cells
  <2>6. u \in F
    BY <2>5 DEF Filling
  <2>7. f[u] = b
    BY <2>2, <2>6
  <2>. QED
    BY <2>6, <2>7
<1>4. f \in Surjection(F, H)
  <2>1. f \in [F -> H]
    BY <1>2
  <2> HIDE DEF f
  <2>. QED
    BY <1>3, <2>1 DEF Surjection
<1> HIDE DEF F, H, f
<1>5. IsFiniteSet(H) /\ Cardinality(H) <= Cardinality(F) /\ Cardinality(H) \in Nat
  BY <1>1, <1>4, FS_Surjection, FS_CardinalityType
<1>. QED
  BY <1>1, <1>5 DEF F, H

\* m pages more in each store of a layer, if they fit, are places not filled.
LEMMA RoomLeft ==
  ASSUME NEW pg \in AllPg, Cap(pg), NEW C \in SUBSET Caches, NEW c \in C, NEW l \in Layers,
         NEW L \in Nat, NEW m \in Nat, L + m <= Slots(c),
         \A s \in Stores : Len(pg[c][s][l]) = L
  PROVE  Cardinality(Held(pg, C)) + 2 * m <= Cardinality(Room(C))
<1> DEFINE F == Filling(pg, C)
           N == (Stores \X {l}) \X ({c} \X (L+1..L+m))
<1>1. /\ IsFiniteSet(F) /\ Cardinality(F) \in Nat /\ Cardinality(Held(pg, C)) \in Nat
      /\ Cardinality(Held(pg, C)) <= Cardinality(F)
  BY HeldFits
<1>2. IsFiniteSet(N) /\ Cardinality(N) = 2 * m
  <2>1. IsFiniteSet({l}) /\ Cardinality({l}) = 1 /\ IsFiniteSet({c}) /\ Cardinality({c}) = 1
    BY FS_Singleton
  <2>2. IsFiniteSet(L+1..L+m) /\ Cardinality(L+1..L+m) = m
    BY FS_Interval
  <2>3. IsFiniteSet(Stores) /\ Cardinality(Stores) = 2
    BY StoresSize
  <2>4. IsFiniteSet(Stores \X {l}) /\ Cardinality(Stores \X {l}) = 2 * 1
    BY <2>1, <2>3, FS_Product
  <2>5. IsFiniteSet({c} \X (L+1..L+m)) /\ Cardinality({c} \X (L+1..L+m)) = 1 * m
    <3> DEFINE S == {c}
               T == L+1..L+m
    <3>1. IsFiniteSet(S) /\ Cardinality(S) = 1 /\ IsFiniteSet(T) /\ Cardinality(T) = m
      BY <2>1, <2>2
    <3> HIDE DEF S, T
    <3>2. IsFiniteSet(S \X T) /\ Cardinality(S \X T) = 1 * m
      BY <3>1, FS_Product
    <3>. QED
      BY <3>2 DEF S, T
  <2>6. IsFiniteSet(N) /\ Cardinality(N) = (2 * 1) * (1 * m)
    BY <2>4, <2>5, FS_Product
  <2>. QED
    BY <2>6
<1>3. N \subseteq Room(C)
  <2>1. Slots(c) \in Nat
    BY SlotsNat
  <2>2. \A p \in L+1..L+m : p \in Nat /\ p \in 1..Slots(c)
    BY <2>1
  <2>. QED
    BY <2>2 DEF Room, Cells
<1>4. F \cap N = {}
  <2> SUFFICES ASSUME NEW s \in Stores, NEW p \in L+1..L+m, <<<<s, l>>, <<c, p>>>> \in F
               PROVE  FALSE
    OBVIOUS
  <2>1. p <= Len(pg[c][s][l])
    BY DEF Filling
  <2>. QED
    BY <2>1
<1>5. F \subseteq Room(C)
  BY DEF Filling
<1> HIDE DEF F, N
<1>6. IsFiniteSet(F \cup N) /\ Cardinality(F \cup N) = Cardinality(F) + 2 * m
  <2>1. IsFiniteSet(F \cup N)
        /\ Cardinality(F \cup N) = Cardinality(F) + Cardinality(N) - Cardinality(F \cap N)
    BY <1>1, <1>2, FS_Union
  <2>2. Cardinality(F \cap N) = 0
    BY <1>4, FS_EmptySet
  <2>. QED
    BY <1>1, <1>2, <2>1, <2>2
<1>7. Cardinality(F \cup N) <= Cardinality(Room(C))
  <2>1. F \cup N \in SUBSET Room(C)
    BY <1>3, <1>5
  <2>. QED
    BY <2>1, RoomSize, FS_Subset
<1>8. Cardinality(Room(C)) \in Nat
  BY RoomSize
<1>. QED
  BY <1>1, <1>6, <1>7, <1>8

LEMMA InjectionExists ==
  ASSUME NEW H, IsFiniteSet(H), NEW k \in Nat, k <= Cardinality(H)
  PROVE  Injection(1..k, H) # {}
<1>1. Cardinality(H) \in Nat /\ ExistsBijection(1..Cardinality(H), H)
  BY FS_CardinalityType
<1>2. PICK f : f \in Bijection(1..Cardinality(H), H)
  BY <1>1 DEF ExistsBijection
<1>3. /\ f \in [1..Cardinality(H) -> H]
      /\ \A i, j \in 1..Cardinality(H) : f[i] = f[j] => i = j
  BY <1>2 DEF Bijection, Injection, IsInjective
<1> DEFINE g == [i \in 1..k |-> f[i]]
<1>4. g \in [1..k -> H]
  BY <1>1, <1>3
<1>5. \A i, j \in 1..k : g[i] = g[j] => i = j
  BY <1>1, <1>3
<1> HIDE DEF g
<1>6. g \in Injection(1..k, H)
  BY <1>4, <1>5 DEF Injection, IsInjective
<1>. QED
  BY <1>6
-----------------------------------------------------------------------------
(* PoolBounded: no layer has more pages than its rows need, and the pages  *)
(* of the pooled caches with those in the pool are never more than the     *)
(* pooled caches have room for.                                            *)

Capped == Cap(pages)

Recycled == Cardinality(Held(pages, Pooled) \cup InPool) <= Cardinality(Room(Pooled))

LEMMA GrownFits ==
  ASSUME TypeOK, Paired, Capped, NEW c \in Caches, NEW l \in Layers, NEW n \in 1..MaxRows
  PROVE  /\ Grown(c, l, n) \in Nat /\ Len(pages[c]["k"][l]) \in Nat
         /\ Len(pages[c]["k"][l]) + Grown(c, l, n) <= Slots(c)
         /\ \A s \in Stores : Len(pages[c][s][l]) = Len(pages[c]["k"][l])
<1> DEFINE m == Grown(c, l, n)
           L == Len(pages[c]["k"][l])
           r == LastRow(c, n)
<1>1. /\ m \in Nat /\ r \in 0..MaxLen[c]-1 /\ MaxLen[c] \in Nat
      /\ m > 0 => L + m = r \div PageSize + 1
  BY GrownFacts
<1>2. L \in Nat /\ L <= Slots(c)
  BY PageTypes DEF Stores, Capped, Cap
<1>3. r \div PageSize + 1 <= Slots(c)
  <2> DEFINE z == MaxLen[c] - 1
  <2>1. r \in Nat /\ z \in Nat /\ r <= z
    BY <1>1
  <2>2. z \div PageSize + 1 = Slots(c)
    BY SlotsNat
  <2> HIDE DEF r, z
  <2>3. r \div PageSize <= z \div PageSize /\ r \div PageSize \in Nat /\ z \div PageSize \in Nat
    BY <2>1, SamePage, Divided
  <2>. QED
    BY <2>2, <2>3
<1>4. \A s \in Stores : Len(pages[c][s][l]) = L
  BY DEF Paired, Stores
<1> HIDE DEF m, L, r
<1>5. L + m <= Slots(c)
  <2>1. CASE m > 0
    BY <1>1, <1>3, <2>1
  <2>2. CASE m = 0
    BY <1>2, <2>2
  <2>. QED
    BY <1>1, <2>1, <2>2
<1>. QED
  BY <1>1, <1>2, <1>4, <1>5 DEF m, L

LEMMA CappedNext ==
  ASSUME IInv, Capped, [Next]_vars
  PROVE  Capped'
<1>0. TypeOK /\ Apiece /\ Paired
  BY DEF IInv
<1>1. ASSUME UNCHANGED pages PROVE Capped'
  BY <1>1 DEF Capped, Cap
<1>2. ASSUME NEW c \in Caches, Begin(c) \/ Advance(c) \/ SetSize(c) PROVE UNCHANGED pages
  BY <1>2 DEF Begin, Advance, SetSize, cache
<1>3. ASSUME NEW c \in Caches, Evict(c) \/ Clear(c) PROVE Capped'
  <2>1. DropPages(c)
    BY <1>3 DEF Evict, Clear
  <2>2. /\ \A s \in Stores, l \in Layers : pages'[c][s][l] = <<>>
        /\ \A d \in Caches, s \in Stores, l \in Layers : d # c => pages'[d][s][l] = pages[d][s][l]
    BY <1>0, <2>1, DropFacts
  <2> SUFFICES ASSUME NEW d \in Caches, NEW s \in Stores, NEW l \in Layers
               PROVE  Len(pages'[d][s][l]) <= Slots(d)
    BY DEF Capped, Cap
  <2>3. CASE d = c
    <3>1. Len(pages'[d][s][l]) = 0
      BY <2>2, <2>3
    <3>. QED
      BY <3>1, SlotsNat
  <2>4. CASE d # c
    BY <2>2, <2>4 DEF Capped, Cap
  <2>. QED
    BY <2>3, <2>4
<1>4. ASSUME NEW c \in Caches, StoreLayer(c) PROVE Capped'
  <2> DEFINE l == layer[c]
             n == step[c]
  <2>1. l \in Layers /\ n \in 1..MaxRows
    BY <1>0, <1>4, StoreLayerFacts
  <2>2. PICK new : Stored(c, l, n, value[c], new, Grown(c, l, n))
    BY <1>0, <1>4, StoreLayerFacts
  <2> HIDE DEF l, n
  <2> SUFFICES ASSUME NEW d \in Caches, NEW s \in Stores, NEW k \in Layers
               PROVE  Len(pages'[d][s][k]) <= Slots(d)
    BY DEF Capped, Cap
  <2>3. CASE d = c /\ k = l
    <3>1. pages'[d][s][k] = NewPages(c, l, new, s)
      BY <2>2, <2>3 DEF Stored
    <3>2. Pairs(new, Grown(c, l, n))
      BY <1>0, <2>1, <2>2, Taken
    <3>3. Len(NewPages(c, l, new, s)) = Len(pages[c][s][l]) + Grown(c, l, n)
      BY <1>0, <2>1, <3>2, NewPagesFacts
    <3>4. /\ Len(pages[c][s][l]) = Len(pages[c]["k"][l])
          /\ Len(pages[c]["k"][l]) + Grown(c, l, n) <= Slots(c)
      BY <1>0, <2>1, GrownFits
    <3>. QED
      BY <2>3, <3>1, <3>3, <3>4
  <2>4. CASE d # c \/ k # l
    <3>1. pages'[d][s][k] = pages[d][s][k]
      BY <2>2, <2>4 DEF Stored
    <3>. QED
      BY <3>1 DEF Capped, Cap
  <2>. QED
    BY <2>3, <2>4
<1>5. CASE Next
  BY <1>1, <1>2, <1>3, <1>4, <1>5 DEF Next
<1>6. CASE UNCHANGED vars
  BY <1>1, <1>6 DEF vars
<1>. QED
  BY <1>5, <1>6

\* Recycled holds after a step that adds no buffer, and after one that leaves the pool empty.
LEMMA RecycledNext ==
  ASSUME TypeOK, TypeOK', Capped',
         \/ /\ Recycled
            /\ Held(pages', Pooled) \cup InPool' \subseteq Held(pages, Pooled) \cup InPool
         \/ InPool' = {}
  PROVE  Recycled'
<1> DEFINE A == Held(pages, Pooled) \cup InPool
           B == Held(pages', Pooled) \cup InPool'
<1>1. Recycled' <=> Cardinality(B) <= Cardinality(Room(Pooled))
  BY DEF Recycled
<1>2. CASE InPool' = {}
  <2>1. B = Held(pages', Pooled)
    BY <1>2
  <2>2. pages' \in AllPg /\ Cap(pages') /\ Pooled \in SUBSET Caches
    BY KVCacheAssumption DEF KVCacheAssumption, TypeOK, AllPg, Capped
  <2>3. /\ Cardinality(B) <= Cardinality(Filling(pages', Pooled))
        /\ Cardinality(Filling(pages', Pooled)) <= Cardinality(Room(Pooled))
        /\ Cardinality(B) \in Nat /\ Cardinality(Filling(pages', Pooled)) \in Nat
    BY <2>1, <2>2, HeldFits
  <2>4. Cardinality(Room(Pooled)) \in Nat
    BY <2>2, RoomSize
  <2>. QED
    BY <1>1, <2>3, <2>4
<1>3. CASE Recycled /\ B \subseteq A
  <2> HIDE DEF A, B
  <2>1. IsFiniteSet(A) /\ Cardinality(A) \in Nat
    <3>1. A \in SUBSET Buffers
      <4>1. InPool \subseteq Buffers
        BY DEF InPool, Range, TypeOK
      <4>. QED
        BY <4>1 DEF A, Held
    <3>2. IsFiniteSet(Buffers)
      BY KVCacheAssumption DEF KVCacheAssumption
    <3>. QED
      BY <3>1, <3>2, FS_Subset, FS_CardinalityType
  <2>2. Cardinality(B) <= Cardinality(A) /\ Cardinality(B) \in Nat
    BY <1>3, <2>1, FS_Subset, FS_CardinalityType
  <2>3. Cardinality(Room(Pooled)) \in Nat
    <3>1. Pooled \in SUBSET Caches
      BY KVCacheAssumption DEF KVCacheAssumption
    <3>. QED
      BY <3>1, RoomSize
  <2>4. Cardinality(A) <= Cardinality(Room(Pooled))
    BY <1>3 DEF Recycled, A
  <2>. QED
    BY <1>1, <2>1, <2>2, <2>3, <2>4
<1>. QED
  BY <1>2, <1>3

LEMMA HeldElements ==
  ASSUME NEW pg \in AllPg, NEW C \in SUBSET Caches
  PROVE  \A b : b \in Held(pg, C) <=>
           \E c \in C, s \in Stores, l \in Layers :
             \E p \in 1..Len(pg[c][s][l]) : pg[c][s][l][p] = b
<1> SUFFICES ASSUME NEW c \in C, NEW s \in Stores, NEW l \in Layers,
                    NEW p \in 1..Len(pg[c][s][l])
             PROVE  pg[c][s][l][p] \in Buffers
  BY DEF Held
<1>1. pg[c][s][l] \in Seq(Buffers)
  BY DEF AllPg
<1>. QED
  BY <1>1

LEMMA HeldWithin ==
  ASSUME NEW pg, NEW C, NEW Z,
         \A d \in C, s \in Stores, l \in Layers : \A p \in 1..Len(pg[d][s][l]) :
           pg[d][s][l][p] \in Buffers => pg[d][s][l][p] \in Z
  PROVE  Held(pg, C) \subseteq Z
<1> SUFFICES ASSUME NEW b \in Held(pg, C) PROVE b \in Z
  OBVIOUS
<1>1. PICK d \in C, s \in Stores, l \in Layers : \E p \in 1..Len(pg[d][s][l]) : pg[d][s][l][p] = b
  BY DEF Held
<1>2. b \in Buffers
  BY DEF Held
<1>. QED
  BY <1>1, <1>2

LEMMA RecycledDrop ==
  ASSUME IInv, IInv', Capped', Recycled, NEW c \in Caches, DropPages(c)
  PROVE  Recycled'
<1>0. TypeOK /\ Apiece /\ Paired /\ TypeOK' /\ Pooled \in SUBSET Caches
  BY KVCacheAssumption DEF KVCacheAssumption, IInv
<1>1. /\ \A s \in Stores, l \in Layers : pages'[c][s][l] = <<>>
      /\ \A d \in Caches, s \in Stores, l \in Layers : d # c => pages'[d][s][l] = pages[d][s][l]
  BY <1>0, DropFacts
<1>2. /\ \A i \in 1..Len(free') : \/ i \in 1..Len(free) /\ free'[i] = free[i]
                                  \/ OfCache(c, free'[i])
      /\ c \notin Pooled => free' = free
  BY <1>0, ReleasedFacts
<1>3. /\ \A b : b \in InPool <=> \E n \in 1..Len(free) : free[n] = b
      /\ \A b : b \in InPool' <=> \E n \in 1..Len(free') : free'[n] = b
  BY <1>0 DEF InPool, Range, TypeOK
<1>4. pages \in AllPg /\ pages' \in AllPg
  BY <1>0 DEF TypeOK, AllPg
<1>5. Held(pages', Pooled) \subseteq Held(pages, Pooled)
  <2> SUFFICES ASSUME NEW d \in Pooled, NEW s \in Stores, NEW l \in Layers,
                      NEW p \in 1..Len(pages'[d][s][l]), pages'[d][s][l][p] \in Buffers
               PROVE  pages'[d][s][l][p] \in Held(pages, Pooled)
    BY HeldWithin
  <2>1. d # c
    BY <1>1
  <2>2. pages'[d][s][l] = pages[d][s][l]
    BY <1>0, <1>1, <2>1
  <2>. QED
    BY <2>2 DEF Held
<1>6. InPool' \subseteq Held(pages, Pooled) \cup InPool
  <2> SUFFICES ASSUME NEW b \in InPool', b \notin InPool PROVE b \in Held(pages, Pooled)
    OBVIOUS
  <2>1. PICK i \in 1..Len(free') : free'[i] = b
    BY <1>3
  <2>2. OfCache(c, b)
    BY <1>2, <1>3, <2>1
  <2>3. c \in Pooled
    BY <1>3, <1>2
  <2>. QED
    BY <1>0, <1>4, <2>2, <2>3, HeldElements DEF OfCache
<1>. QED
  BY <1>0, <1>5, <1>6, RecycledNext

LEMMA RecycledStore ==
  ASSUME IInv, IInv', Capped', Recycled, NEW c \in Caches, StoreLayer(c)
  PROVE  Recycled'
<1>0. TypeOK /\ Apiece /\ Paired /\ TypeOK' /\ Pooled \in SUBSET Caches
  BY KVCacheAssumption DEF KVCacheAssumption, IInv
<1> DEFINE l == layer[c]
           n == step[c]
           m == Grown(c, l, n)
           w == 2 * m
           h == Hits(c, w)
<1>1. l \in Layers /\ n \in 1..MaxRows
  BY <1>0, StoreLayerFacts
<1>2. PICK new : Stored(c, l, n, value[c], new, m)
  BY <1>0, StoreLayerFacts
<1>3. /\ m \in Nat /\ new \in Acquired(c, w) /\ w \in Nat /\ Len(new) = w
      /\ free' = SubSeq(free, 1, Len(free) - h)
  <2>1. m \in Nat /\ new \in Acquired(c, w) /\ free' = SubSeq(free, 1, Len(free) - Hits(c, Len(new)))
    BY <1>2 DEF Stored
  <2>2. Pairs(new, m)
    BY <1>0, <1>1, <1>2, Taken
  <2>. QED
    BY <2>1, <2>2 DEF Pairs
<1> HIDE DEF w, h
<1>4. /\ h \in 0..Len(free) /\ h <= w /\ (c \in Pooled /\ h < w => h = Len(free))
      /\ c \notin Pooled => h = 0
  BY <1>0, <1>3, HitsBound DEF h
<1>5. free \in Seq(Buffers) /\ Len(free) \in Nat
  BY <1>0 DEF TypeOK
<1>6. /\ Len(free') = Len(free) - h
      /\ \A i \in 1..Len(free') : free'[i] = free[i] /\ i \in 1..Len(free)
  BY <1>3, <1>4, <1>5
<1>7. /\ \A b : b \in InPool <=> \E i \in 1..Len(free) : free[i] = b
      /\ \A b : b \in InPool' <=> \E i \in 1..Len(free') : free'[i] = b
  <2>1. DOMAIN free = 1..Len(free)
    BY <1>5
  <2>2. DOMAIN free' = 1..Len(free')
    BY <1>0 DEF TypeOK
  <2>. QED
    BY <2>1, <2>2, Zenon DEF InPool, Range
<1>8. InPool' \subseteq InPool
  BY <1>6, <1>7
<1>9. pages \in AllPg /\ pages' \in AllPg
  BY <1>0 DEF TypeOK, AllPg
<1>10. CASE c \notin Pooled
  <2>1. Held(pages', Pooled) \subseteq Held(pages, Pooled)
    <3> SUFFICES ASSUME NEW d \in Pooled, NEW s \in Stores, NEW k \in Layers,
                        NEW p \in 1..Len(pages'[d][s][k]), pages'[d][s][k][p] \in Buffers
                 PROVE  pages'[d][s][k][p] \in Held(pages, Pooled)
      BY HeldWithin
    <3>1. d \in Caches /\ d # c
      BY <1>0, <1>10
    <3>2. pages'[d][s][k] = pages[d][s][k]
      BY <1>2, <3>1 DEF Stored
    <3>. QED
      BY <3>2 DEF Held
  <2>. QED
    BY <1>0, <1>8, <2>1, RecycledNext
<1>11. CASE c \in Pooled /\ h < w
  <2>1. Len(free') = 0
    BY <1>4, <1>5, <1>6, <1>11
  <2>2. InPool' = {}
    BY <1>7, <2>1
  <2>. QED
    BY <1>0, <2>2, RecycledNext
<1>12. CASE c \in Pooled /\ h = w
  <2>1. \A i \in 1..w : new[i] = free[Len(free) + 1 - i] /\ Len(free) + 1 - i \in 1..Len(free)
    <3>1. \A i \in 1..w : i <= Hits(c, w) => new[i] = free[Len(free) + 1 - i]
      BY <1>0, <1>3, AcquiredFacts
    <3>2. \A i \in 1..w : i <= h /\ Len(free) + 1 - i \in 1..Len(free)
      BY <1>3, <1>4, <1>5, <1>12
    <3>. QED
      BY <3>1, <3>2 DEF h
  <2>2. Held(pages', Pooled) \subseteq Held(pages, Pooled) \cup InPool
    <3> SUFFICES ASSUME NEW d \in Pooled, NEW s \in Stores, NEW k \in Layers,
                        NEW p \in 1..Len(pages'[d][s][k]), pages'[d][s][k][p] \in Buffers
                 PROVE  pages'[d][s][k][p] \in Held(pages, Pooled) \cup InPool
      BY HeldWithin
    <3>1. CameFrom(c, l, new, m, d, s, k, p)
      BY <1>0, <1>1, <1>2, PlacesStored
    <3>2. CASE p \in 1..Len(pages[d][s][k]) /\ pages'[d][s][k][p] = pages[d][s][k][p]
      BY <3>2 DEF Held
    <3>3. CASE NewIndex(c, l, s, p) \in 1..w /\ pages'[d][s][k][p] = new[NewIndex(c, l, s, p)]
      BY <1>7, <2>1, <3>3
    <3>. QED
      BY <3>1, <3>2, <3>3 DEF CameFrom, w
  <2>. QED
    BY <1>0, <1>8, <2>2, RecycledNext
<1>. QED
  BY <1>3, <1>4, <1>5, <1>10, <1>11, <1>12

PoolInv == IInv /\ Capped /\ Recycled

LEMMA PoolInvInit == Init => PoolInv
<1> SUFFICES ASSUME Init PROVE PoolInv
  OBVIOUS
<1>0. IInv
  BY InvInit
<1>1. \A c \in Caches, s \in Stores, l \in Layers : Len(pages[c][s][l]) = 0
  BY DEF Init
<1>2. Capped
  BY <1>1, SlotsNat DEF Capped, Cap
<1>3. Held(pages, Pooled) \cup InPool = {}
  <2>1. Held(pages, Pooled) \subseteq {}
    <3>1. Pooled \subseteq Caches
      BY KVCacheAssumption DEF KVCacheAssumption
    <3>. QED
      BY <1>1, <3>1, HeldWithin
  <2>2. InPool = {}
    BY DEF Init, InPool, Range
  <2>. QED
    BY <2>1, <2>2
<1>4. Cardinality(Held(pages, Pooled) \cup InPool) = 0 /\ Cardinality(Room(Pooled)) \in Nat
  <2>1. Pooled \in SUBSET Caches
    BY KVCacheAssumption DEF KVCacheAssumption
  <2>. QED
    BY <1>3, <2>1, RoomSize, FS_EmptySet
<1>. QED
  BY <1>0, <1>2, <1>4 DEF PoolInv, Recycled

LEMMA PoolInvNext ==
  ASSUME PoolInv, [Next]_vars
  PROVE  PoolInv'
<1>1. IInv' /\ Capped' /\ TypeOK /\ TypeOK'
  BY InvNext, CappedNext DEF PoolInv, IInv
<1>2. ASSUME UNCHANGED <<pages, free>> PROVE Recycled'
  BY <1>2 DEF PoolInv, Recycled, Held, InPool
<1>3. ASSUME Next PROVE Recycled'
  <2>1. PICK c \in Caches : \/ Begin(c) \/ Advance(c) \/ SetSize(c)
                            \/ StoreLayer(c) \/ Evict(c) \/ Clear(c)
    BY <1>3 DEF Next
  <2>2. CASE Begin(c) \/ Advance(c) \/ SetSize(c)
    <3>1. UNCHANGED <<pages, free>>
      BY <2>2 DEF Begin, Advance, SetSize, cache
    <3>. QED
      BY <1>2, <3>1
  <2>3. CASE StoreLayer(c)
    BY <1>1, <2>3, RecycledStore DEF PoolInv
  <2>4. CASE Evict(c) \/ Clear(c)
    <3>1. DropPages(c)
      BY <2>4 DEF Evict, Clear
    <3>. QED
      BY <1>1, <3>1, RecycledDrop DEF PoolInv
  <2>. QED
    BY <2>1, <2>2, <2>3, <2>4
<1>4. ASSUME UNCHANGED vars PROVE Recycled'
  <2>1. UNCHANGED <<pages, free>>
    BY <1>4 DEF vars
  <2>. QED
    BY <1>2, <2>1
<1>5. Recycled'
  BY <1>3, <1>4
<1>. QED
  BY <1>1, <1>5 DEF PoolInv

LEMMA UnionAtMost ==
  ASSUME NEW A, NEW B, IsFiniteSet(A), IsFiniteSet(B)
  PROVE  /\ Cardinality(A \cup B) <= Cardinality(A) + Cardinality(B)
         /\ Cardinality(A) \in Nat /\ Cardinality(B) \in Nat
<1>1. Cardinality(A) \in Nat /\ Cardinality(B) \in Nat
  BY FS_CardinalityType
<1>2. Cardinality(A \cup B) = Cardinality(A) + Cardinality(B) - Cardinality(A \cap B)
  BY FS_Union
<1>3. Cardinality(A \cap B) \in Nat
  BY FS_Intersection, FS_CardinalityType
<1>. QED
  BY <1>1, <1>2, <1>3

LEMMA RoomSplits ==
  ASSUME NEW C \in SUBSET Caches
  PROVE  /\ Cardinality(Room(C)) + Cardinality(Room(Caches \ C)) = Cardinality(Room(Caches))
         /\ Cardinality(Room(C)) \in Nat /\ Cardinality(Room(Caches \ C)) \in Nat
<1> DEFINE A == Room(C)
           B == Room(Caches \ C)
<1>1. /\ IsFiniteSet(A) /\ IsFiniteSet(B)
      /\ Cardinality(A) \in Nat /\ Cardinality(B) \in Nat
  BY RoomSize
<1>2. A \cup B = Room(Caches) /\ A \cap B = {}
  BY DEF Room, Cells
<1>3. Cardinality(A \cup B) = Cardinality(A) + Cardinality(B) - Cardinality(A \cap B)
  BY <1>1, FS_Union
<1>4. Cardinality(A \cap B) = 0
  BY <1>2, FS_EmptySet
<1> HIDE DEF A, B
<1>5. Cardinality(Room(Caches)) = Cardinality(A) + Cardinality(B)
  BY <1>1, <1>2, <1>3, <1>4
<1>. QED
  BY <1>1, <1>5 DEF A, B

\* What the heap has room for once every cache has its pages and the pool its own.
LEMMA HeapLeft ==
  ASSUME PoolInv, NEW c \in Caches, NEW l \in Layers, NEW n \in 1..MaxRows,
         Cardinality(Buffers) >= Cardinality(Room(Caches)),
         NEW h, h = Hits(c, Wanted(c, l, n)), h < Wanted(c, l, n)
  PROVE  Wanted(c, l, n) - h <= Cardinality(Heap)
<1>0. TypeOK /\ Apiece /\ Paired /\ Capped /\ Recycled /\ Pooled \in SUBSET Caches
  BY KVCacheAssumption DEF KVCacheAssumption, PoolInv, IInv
<1> DEFINE m == Grown(c, l, n)
           L == Len(pages[c]["k"][l])
           All == Held(pages, Caches)
           Rest == Caches \ Pooled
<1>1. pages \in AllPg /\ Cap(pages) /\ IsFiniteSet(Buffers) /\ free \in Seq(Buffers)
  BY <1>0, KVCacheAssumption DEF KVCacheAssumption, TypeOK, AllPg, Capped
<1>2. /\ m \in Nat /\ L \in Nat /\ L + m <= Slots(c) /\ Wanted(c, l, n) = 2 * m
      /\ \A s \in Stores : Len(pages[c][s][l]) = L
  BY <1>0, GrownFits, GrownFacts
<1> HIDE DEF m, L
<1>3. Heap = Buffers \ (All \cup InPool)
  <2>1. \A b : b \in All <=> Owned(b)
    BY <1>1, HeldElements DEF Owned
  <2>2. \A b : b \in InUse <=> Owned(b)
    BY <1>0, InUseIsOwned
  <2> HIDE DEF All
  <2>. QED
    BY <2>1, <2>2 DEF Heap
<1>4. All \cup InPool \subseteq Buffers
  BY <1>1 DEF Held, InPool, Range
<1>5. /\ Cardinality(Buffers) \in Nat /\ Cardinality(All \cup InPool) \in Nat
      /\ IsFiniteSet(All \cup InPool) /\ IsFiniteSet(All) /\ IsFiniteSet(InPool)
      /\ Cardinality(Heap) = Cardinality(Buffers) - Cardinality(All \cup InPool)
  <2> HIDE DEF All
  <2>1. /\ IsFiniteSet(All \cup InPool) /\ IsFiniteSet(All) /\ IsFiniteSet(InPool)
    BY <1>1, <1>4, FS_Subset
  <2>2. Buffers \cap (All \cup InPool) = All \cup InPool
    BY <1>4
  <2>3. Cardinality(Heap) = Cardinality(Buffers) - Cardinality(Buffers \cap (All \cup InPool))
    BY <1>1, <1>3, FS_Difference
  <2>4. Cardinality(Buffers) \in Nat /\ Cardinality(All \cup InPool) \in Nat
    BY <1>1, <2>1, FS_CardinalityType
  <2>. QED
    BY <2>1, <2>2, <2>3, <2>4
<1>6. h \in 0..Len(free) /\ Len(free) \in Nat
      /\ (c \in Pooled => h = Len(free)) /\ (c \notin Pooled => h = 0)
  <2>1. 2 * m \in Nat
    BY <1>2
  <2>2. Len(free) \in Nat
    BY <1>1
  <2>. QED
    BY <1>0, <1>2, <2>1, <2>2, HitsBound
<1>7. CASE c \in Pooled
  <2>1. Cardinality(All) + 2 * m <= Cardinality(Room(Caches))
    BY <1>1, <1>2, RoomLeft
  <2>2. Cardinality(InPool) <= Len(free) /\ Cardinality(InPool) \in Nat
    <3>1. free \in Surjection(1..Len(free), InPool)
      BY <1>1 DEF Surjection, InPool, Range
    <3>2. IsFiniteSet(1..Len(free)) /\ Cardinality(1..Len(free)) = Len(free)
      <4> DEFINE k == Len(free)
      <4>1. k \in Nat
        BY <1>6
      <4> HIDE DEF k
      <4>2. IsFiniteSet(1..k) /\ Cardinality(1..k) = k
        BY <4>1, FS_Interval
      <4>. QED
        BY <4>2 DEF k
    <3>. QED
      BY <1>5, <3>1, <3>2, FS_Surjection, FS_CardinalityType
  <2>3. Cardinality(All \cup InPool) <= Cardinality(All) + Cardinality(InPool)
        /\ Cardinality(All) \in Nat
    BY <1>5, UnionAtMost
  <2>4. Cardinality(Room(Caches)) \in Nat
    BY RoomSize
  <2> HIDE DEF All
  <2>. QED
    BY <1>2, <1>5, <1>6, <1>7, <2>1, <2>2, <2>3, <2>4
<1>8. CASE c \notin Pooled
  <2> DEFINE A == Held(pages, Pooled) \cup InPool
             B == Held(pages, Rest)
  <2>1. Cardinality(A) <= Cardinality(Room(Pooled))
    BY <1>0 DEF Recycled
  <2>2. Cardinality(B) + 2 * m <= Cardinality(Room(Rest))
    BY <1>1, <1>2, <1>8, RoomLeft
  <2>3. All \cup InPool = A \cup B
    BY <1>0 DEF Held
  <2>4. IsFiniteSet(A) /\ IsFiniteSet(B) /\ A \cup B = All \cup InPool
    BY <1>5, <2>3, FS_Subset
  <2>5. Cardinality(A \cup B) <= Cardinality(A) + Cardinality(B)
        /\ Cardinality(A) \in Nat /\ Cardinality(B) \in Nat
    BY <2>4, UnionAtMost
  <2>6. Cardinality(Room(Pooled)) + Cardinality(Room(Rest)) = Cardinality(Room(Caches))
        /\ Cardinality(Room(Pooled)) \in Nat /\ Cardinality(Room(Rest)) \in Nat
    BY <1>0, RoomSplits
  <2> HIDE DEF A, B, All, Rest
  <2>7. Cardinality(All \cup InPool) + 2 * m <= Cardinality(Room(Caches))
    <3>1. /\ Cardinality(All \cup InPool) = Cardinality(A \cup B)
          /\ Cardinality(A \cup B) \in Nat
      BY <1>5, <2>4
    <3>. QED
      BY <1>2, <2>1, <2>2, <2>5, <2>6, <3>1
  <2>. QED
    BY <1>2, <1>5, <1>6, <1>8, <2>6, <2>7
<1>. QED
  BY <1>7, <1>8

\* The room PoolBounded asks of the heap is room for all caches' pages.
LEMMA RoomForAll ==
  ASSUME Cardinality(Buffers) >= 2 * NLayers *
           MapThenSumSet(LAMBDA c : (MaxLen[c] + PageSize - 1) \div PageSize, Caches)
  PROVE  Cardinality(Buffers) >= Cardinality(Room(Caches))
<1>1. Cardinality(Buffers) >= 2 * NLayers * SlotSum[Caches]
  BY SlotSumUnfold, Zenon
<1>2. SlotSum[Caches] = Cardinality(Cells(Caches))
  BY SlotSumCounts
<1>3. Cardinality(Room(Caches)) = (2 * NLayers) * Cardinality(Cells(Caches))
  BY RoomSize
<1>. QED
  BY ONLY <1>1, <1>2, <1>3

LEMMA UpdateHasPages ==
  ASSUME PoolInv, Cardinality(Buffers) >= Cardinality(Room(Caches)),
         NEW c \in Caches, step[c] > 0, layer[c] < NLayers
  PROVE  Acquired(c, Wanted(c, layer[c], step[c])) # {}
<1> DEFINE l == layer[c]
           n == step[c]
           w == Wanted(c, l, n)
           h == Hits(c, w)
<1>0. TypeOK
  BY DEF PoolInv, IInv
<1>1. l \in Layers /\ n \in 1..MaxRows
  <2>1. NLayers \in Nat /\ MaxRows \in Nat
    BY KVCacheAssumption DEF KVCacheAssumption
  <2>. QED
    BY <1>0, <2>1 DEF TypeOK, Layers
<1> HIDE DEF l, n
<1>2. w \in Nat
  <2>1. Grown(c, l, n) \in Nat /\ w = 2 * Grown(c, l, n)
    BY <1>0, <1>1, GrownFacts
  <2>. QED
    BY <2>1
<1> HIDE DEF w
<1>3. h \in Nat /\ h <= w
  <2>1. h \in 0..Len(free) /\ h <= w
    BY <1>0, <1>2, HitsBound
  <2>. QED
    BY <2>1
<1>4. w - h \in Nat /\ w - h <= Cardinality(Heap) /\ IsFiniteSet(Heap)
  <2>1. IsFiniteSet(Heap) /\ Cardinality(Heap) \in Nat
    <3>1. Heap \in SUBSET Buffers
      BY DEF Heap
    <3>. QED
      BY <3>1, KVCacheAssumption, FS_Subset, FS_CardinalityType DEF KVCacheAssumption
  <2>2. CASE h < w
    <3>1. w - h <= Cardinality(Heap)
      BY <1>1, <2>2, HeapLeft DEF w
    <3> HIDE DEF h
    <3>. QED
      BY <1>2, <1>3, <2>1, <2>2, <3>1
  <2>3. CASE ~(h < w)
    <3> HIDE DEF h
    <3>. QED
      BY <1>2, <1>3, <2>1, <2>3
  <2>. QED
    BY <2>2, <2>3
<1>5. PICK fresh : fresh \in Injection(1..w - h, Heap)
  <2> HIDE DEF h
  <2>. QED
    BY <1>4, InjectionExists
<1>. QED
  BY <1>5 DEF Acquired, l, n, w

(***************************************************************************)
(* PoolBounded: whatever was decoded, evicted and cleared before, a heap   *)
(* with room for the full pages of all caches has the pages the next       *)
(* update acquires (KVCache::ensure_page, TensorPool::acquire).            *)
(***************************************************************************)
THEOREM PoolIsBounded == Spec => []PoolBounded
<1>1. ASSUME PoolInv PROVE PoolBounded
  <2>1. Cardinality(Buffers) >= Cardinality(Room(Caches)) =>
          \A c \in Caches : step[c] > 0 /\ layer[c] < NLayers
            => Acquired(c, Wanted(c, layer[c], step[c])) # {}
    BY <1>1, UpdateHasPages
  <2>. QED
    BY <2>1, RoomForAll, Zenon DEF PoolBounded
<1>2. Spec => []PoolInv
  BY PoolInvInit, PoolInvNext, PTL DEF Spec
<1>. QED
  BY <1>1, <1>2, PTL
=============================================================================
