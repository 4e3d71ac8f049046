-------------------------------- MODULE KVCache --------------------------------
(***************************************************************************)
(* The paged layout of KVCache (src/src/kv_cache.cpp) over a TensorPool    *)
(* (src/src/pool.cpp) that several caches share.  The rows of a layer are  *)
(* kept in pages of PageSize rows, one buffer for K and one for V, taken   *)
(* from the pool when a row is first written and given back by evict().    *)
(*                                                                         *)
(* The caches are driven as the decoders of src/src/model.cpp drive them:  *)
(* a step stores the same number of rows in layer after layer and then     *)
(* advances the cursor (GPT::generate, forward_incremental).               *)
(***************************************************************************)
EXTENDS Naturals, Sequences, FiniteSets, SequencesExt

CONSTANTS
    Caches,     \* caches sharing the pool
    NLayers,    \* n_layers_
    MaxLen,     \* max_seq_len_ of each cache
    PageSize,   \* cfg_.page_size
    Pooled,     \* the caches set_pool was called on
    Values,     \* contents of a row
    Zero,       \* the content of a row filled with zeros
    MaxRows,    \* bound: rows stored by one update
    Buffers     \* page-sized tensors the heap can hold, a bound

ASSUME KVCacheAssumption ==
    /\ MaxLen \in [Caches -> Nat \ {0}]
    /\ NLayers \in Nat \ {0} /\ PageSize \in Nat \ {0}
    /\ MaxRows \in Nat \ {0} /\ IsFiniteSet(Buffers) /\ IsFiniteSet(Caches)
    /\ Pooled \subseteq Caches
    /\ Zero \notin Values

VARIABLES
    pages,    \* pages_k_, pages_v_: the buffers of each layer, first page first
    len,      \* cur_len_
    content,  \* what each buffer holds
    free,     \* TensorPool::free_ for this page size, the last one on top
    step,     \* rows the decoder's step under way stores (0: none under way)
    layer,    \* the next layer that step stores them in
    value,    \* the content it stores
    evicted   \* evict() was called since the last clear()

cache == <<pages, content, free>>
driver == <<step, layer, value>>
vars == <<pages, len, content, free, driver, evicted>>

-----------------------------------------------------------------------------
Layers == 0..NLayers-1
Stores == {"k", "v"}
BlankPage == [o \in 0..PageSize-1 |-> Zero]

InUse == UNION {Range(pages[c][s][l]) : c \in Caches, s \in Stores, l \in Layers}
InPool == Range(free)
Heap == Buffers \ (InUse \cup InPool)

Init == /\ pages = [c \in Caches |-> [s \in Stores |-> [l \in Layers |-> <<>>]]]
        /\ len = [c \in Caches |-> 0]
        /\ content = [b \in Buffers |-> BlankPage]
        /\ free = <<>>
        /\ step = [c \in Caches |-> 0]
        /\ layer = [c \in Caches |-> 0]
        /\ value \in [Caches -> Values]
        /\ evicted = [c \in Caches |-> FALSE]

-----------------------------------------------------------------------------
\* Mutant: acquire never finds what release gave back.
HitsNone(c, n) == 0

\* Acquiring n pages for cache c: a hit takes the top of the free list, a
\* miss takes a new tensor, any one the heap does not hold yet.
Hits(c, n) == IF c \notin Pooled THEN 0 ELSE IF n <= Len(free) THEN n ELSE Len(free)

Acquired(c, n) ==
    LET hits == Hits(c, n)
    IN  {[h \in 1..hits |-> free[Len(free) + 1 - h]] \o fresh :
           fresh \in Injection(1..n - hits, Heap)}

\* ensure_page(layer, page): how many pages a store of the layer is short of
\* before row p can be written.
Short(c, l, p) ==
    LET need == p \div PageSize + 1
        have == Len(pages[c]["k"][l])
    IN  IF have < need THEN need - have ELSE 0

\* K and V pages are acquired in turn.
Every(q, first) == [n \in 1..Len(q) \div 2 |-> q[2 * n - first]]

\* Mutant: a page from the free list is not filled with zeros.
FilledNot(q) == content

\* acquire fills a recycled buffer with zeros; a new one is zeroed as built.
Filled(q) == [b \in Buffers |-> IF \E n \in 1..Len(q) : q[n] = b
                                THEN BlankPage ELSE content[b]]

\* min(n, max_seq_len_)
Cut(c, n) == IF n <= MaxLen[c] THEN n ELSE MaxLen[c]

\* The last of the n rows an update stores, if any fits.
LastRow(c, n) == Cut(c, len[c] + n) - 1

\* The pages an update of n rows acquires for the layer, K and V together.
Wanted(c, l, n) == IF len[c] > LastRow(c, n) THEN 0 ELSE 2 * Short(c, l, LastRow(c, n))

\* update(l, k, v) with n rows of content x: ensure_page and the row, for
\* each row that fits.
Update(c, l, n, x) ==
  \E new \in Acquired(c, Wanted(c, l, n)) :
    LET own == [s \in Stores |->
                  pages[c][s][l] \o Every(new, IF s = "k" THEN 1 ELSE 0)]
        At(b, o) == \E p \in len[c]..LastRow(c, n), s \in Stores :
                      own[s][p \div PageSize + 1] = b /\ p % PageSize = o
    IN  /\ pages' = [pages EXCEPT ![c]["k"][l] = own["k"], ![c]["v"][l] = own["v"]]
        /\ content' = [b \in Buffers |-> [o \in 0..PageSize-1 |->
                         IF At(b, o) THEN x ELSE Filled(new)[b][o]]]
        /\ free' = SubSeq(free, 1, Len(free) - Hits(c, Len(new)))

\* A decoder starts a step: n rows of content x for every layer.
Begin(c) ==
    /\ step[c] = 0
    /\ \E n \in 1..MaxRows, x \in Values :
         /\ step' = [step EXCEPT ![c] = n]
         /\ value' = [value EXCEPT ![c] = x]
    /\ UNCHANGED <<cache, len, layer, evicted>>

StoreLayer(c) ==
    /\ step[c] > 0 /\ layer[c] < NLayers
    /\ Update(c, layer[c], step[c], value[c])
    /\ layer' = [layer EXCEPT ![c] = @ + 1]
    /\ UNCHANGED <<len, step, value, evicted>>

Advance(c) ==
    /\ step[c] > 0 /\ layer[c] = NLayers
    /\ len' = [len EXCEPT ![c] = Cut(c, @ + step[c])]
    /\ step' = [step EXCEPT ![c] = 0]
    /\ layer' = [layer EXCEPT ![c] = 0]
    /\ UNCHANGED <<cache, value, evicted>>

\* set_size(n), back to an earlier length.
SetSize(c) ==
    /\ step[c] = 0
    /\ \E n \in 0..len[c] : len' = [len EXCEPT ![c] = Cut(c, n)]
    /\ UNCHANGED <<cache, driver, evicted>>

\* The pages of one store, layer after layer.
AllPages(c, s) == FlattenSeq([n \in 1..NLayers |-> pages[c][s][n - 1]])

\* Mutant: the pages go to the pool and stay in the cache.
DropPagesKept(c) ==
    /\ free' = IF c \in Pooled
               THEN free \o AllPages(c, "k") \o AllPages(c, "v")
               ELSE free
    /\ UNCHANGED <<pages, content>>

\* evict(): all K pages, then all V pages, go to the pool or are freed.
DropPages(c) ==
    /\ free' = IF c \in Pooled
               THEN free \o AllPages(c, "k") \o AllPages(c, "v")
               ELSE free
    /\ pages' = [pages EXCEPT ![c] = [s \in Stores |-> [l \in Layers |-> <<>>]]]
    /\ UNCHANGED content

Evict(c) ==
    /\ step[c] = 0
    /\ DropPages(c)
    /\ evicted' = [evicted EXCEPT ![c] = TRUE]
    /\ UNCHANGED <<len, driver>>

\* Mutant: clear() gives the pages up and keeps the length.
ClearKeepsLength(c) ==
    /\ step[c] = 0
    /\ DropPages(c)
    /\ evicted' = [evicted EXCEPT ![c] = FALSE]
    /\ UNCHANGED <<len, driver>>

Clear(c) ==
    /\ step[c] = 0
    /\ len' = [len EXCEPT ![c] = 0]
    /\ DropPages(c)
    /\ evicted' = [evicted EXCEPT ![c] = FALSE]
    /\ UNCHANGED driver

Next == \E c \in Caches :
          Begin(c) \/ StoreLayer(c) \/ Advance(c) \/ SetSize(c) \/ Evict(c) \/ Clear(c)

Spec == Init /\ [][Next]_vars

-----------------------------------------------------------------------------
TypeOK ==
    /\ pages \in [Caches -> [Stores -> [Layers -> Seq(Buffers)]]]
    /\ len \in [Caches -> Nat] /\ \A c \in Caches : len[c] <= MaxLen[c]
    /\ content \in [Buffers -> [0..PageSize-1 -> Values \cup {Zero}]]
    /\ free \in Seq(Buffers)
    /\ step \in [Caches -> 0..MaxRows]
    /\ layer \in [Caches -> 0..NLayers]
    /\ value \in [Caches -> Values]
    /\ evicted \in [Caches -> BOOLEAN]

(***************************************************************************)
(* No buffer is at two places: two pages, of any cache, store and layer,   *)
(* never share one, and none of them is on the free list, which itself     *)
(* holds no buffer twice.                                                  *)
(***************************************************************************)
NoSharing ==
    /\ \A m, n \in 1..Len(free) : free[m] = free[n] => m = n
    /\ InUse \cap InPool = {}
    /\ \A c, d \in Caches, s, t \in Stores, l, m \in Layers :
         \A p \in 1..Len(pages[c][s][l]), q \in 1..Len(pages[d][t][m]) :
           pages[c][s][l][p] = pages[d][t][m][q] => <<c, s, l, p>> = <<d, t, m, q>>

(***************************************************************************)
(* Every row get_k_slice and get_v_slice read lies in a page that exists,  *)
(* whatever was decoded, rolled back or cleared before; only between       *)
(* evict() and clear() is the length ahead of the pages.                   *)
(***************************************************************************)
ReadsBacked ==
    \A c \in Caches : ~evicted[c] =>
      \A s \in Stores, l \in Layers : len[c] <= PageSize * Len(pages[c][s][l])

(***************************************************************************)
(* Recycling bounds the memory: however many sequences come and go, a heap *)
(* with room for all caches full at once always has the pages an update    *)
(* needs; none is leaked by evict() or left unused in the pool.            *)
(***************************************************************************)
PoolBounded ==
    Cardinality(Buffers) >= 2 * NLayers *
        MapThenSumSet(LAMBDA c : (MaxLen[c] + PageSize - 1) \div PageSize, Caches)
    => \A c \in Caches : step[c] > 0 /\ layer[c] < NLayers
         => Acquired(c, Wanted(c, layer[c], step[c])) # {}

-----------------------------------------------------------------------------
(* The refinement: row p of a layer is row p % PageSize of page            *)
(* p \div PageSize, and a row whose page does not exist yet is zero.       *)

RowsOf(s) ==
    [c \in Caches |-> [l \in Layers |-> [p \in 0..MaxLen[c]-1 |->
      IF p \div PageSize < Len(pages[c][s][l])
      THEN content[pages[c][s][l][p \div PageSize + 1]][p % PageSize]
      ELSE Zero]]]

K == INSTANCE RowStore WITH rows <- RowsOf("k")
V == INSTANCE RowStore WITH rows <- RowsOf("v")

\* Both stores of every cache are tables of rows of their own: paging,
\* recycling and the other caches are invisible.
IsRowStore == K!Spec /\ V!Spec
=============================================================================
