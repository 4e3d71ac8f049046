# Verification of llm-cpp

TLA+ models of the parts of llm-cpp that keep state across calls, threads or
processes, the TLC configurations that check them on small instances, and
proofs, checked by TLAPS, that the properties hold for every value of the
constants. Line numbers in comments and in `PROJECT.json` refer to the
repository this directory belongs to.

Contents: [the system](#1-the-system), [modules](#2-modules-and-the-code-they-model),
[runs](#3-runs), [fairness](#4-fairness), [proofs](#5-proofs),
[disagreements between code and docs](#6-disagreements-met),
[limits](#7-what-is-only-checked-and-what-is-not-modelled), [plan](#8-plan).

## 1. The system

llm-cpp is a C++ library and command-line program that trains, converts, runs
and serves small GPT and Mamba models. One process, no database; what persists
is files. Most of it is arithmetic on tensors. The logic that can go wrong
without a wrong formula is in the following parts.

| part | state | operations | talks to |
|---|---|---|---|
| `PrefetchLoader` (`prefetch.cpp`) | cursor, bounded queue, `stop_`, `done_`, a worker thread, one mutex, two condition variables | `next`, `has_next`, destructor, worker loop | `Dataset` (reads) and any number of consumers |
| `DataLoader`, `Dataset` (`dataset.cpp`) | start positions, index, tokens | `next_batch`, `reset`, `get_batch`, packing, splitting | `Trainer::train` |
| HTTP server (`server.cpp`), `serve` (`main.cpp`) | listening socket, `running_`, `in_flight_`, counters, audit log | `start`, accept loop, one detached thread per connection, `stop` | model and tokenizer (shared by handlers), signals |
| decoding (`model.cpp` `generate`) | tokens, cursor of the cache, logits | feed a token through every block, sample | `KVCache`, `MultiHeadAttention` |
| `KVCache` (`kv_cache.cpp`), `TensorPool` (`pool.cpp`) | pages per layer, length; free lists | `update`, `advance`, `set_size`, `clear`, `evict`; `acquire`, `release` | decoders; caches share a pool |
| `SpeculativeDecoder` (`speculative.cpp`) | output, proposal, verification pass | propose, trim, verify, accept, correct, bonus, cut | two `GPT`s |
| `Trainer` (`trainer.cpp`), `Adam` (`optimizer.cpp`) | weights, tied head, moments, step and skip counters, gradient sums, snapshot, three files | `train_step`, `train_step_accum`, snapshot, rollback, save, load | `GPT`, `Adam`, file system |
| checkpoints (`checkpoint.cpp`, `model.cpp`) | files, temporary file, best score | `save_binary`, `save_binary_atomic`, `load_binary`, safetensors, `BestKeeper` | file system |
| tokenizer (`tokenizer.cpp`) | merges, vocabulary; caller's carry | train, encode, decode, `decode_incremental`, two file formats | decoding, server |
| `GPT` forward and backward (`model.cpp`, `transformer.cpp`, `attention.cpp`, `mamba.cpp`, `tensor.cpp`, `loss.cpp`) | weights, gradient buffers | `forward`, `backward`, `zero_grad`, `tie_weights` | all trainers |
| callers of `backward`: `Trainer`, `distill_step`, `ppo_step`, `RewardModel`, `Pipeline::train_step` | what they accumulate between two optimizer steps | one step each | `GPT`, `Adam` |
| GGUF (`gguf.cpp`) | one file: offsets, blocks | `save_gguf`, `save_gguf_quant`, `load_gguf` | `GPT`, file system |
| GPU weights (`gpu_weights.cpp`) | uploaded copies, budget | upload, lookup | `GPT` |
| beam search, sampling, evaluation, LoRA, quantization, pruning, C API | little or none | one call each | `GPT` |

What is hard, and what correctness means there:

- **Threads.** Loader: batches are read outside the lock, consumers and worker
  park and wake one another, the destructor runs against both. Correct: every
  batch once, in order, bounded read-ahead, no lost wake-up, it ends. Server:
  a lock-free gate, handlers nobody joins, a stop that races accepts. Correct:
  the gate counts exactly, refuses only when full, reopens, `stop` returns.
- **Reuse.** Pages travel between sequences and caches through the pool.
  Correct: no page in two places, nobody sees another's rows, none leaks.
- **Two ways to one answer.** Cached decoding against full forward passes,
  speculative decoding against the target alone. Correct: token for token. The
  backward pass against the forward pass, the chunked scan against the plain
  one, three forms of attention, decoders against encoders, a reader against
  the writer of the same file. Correct: the same answer, exactly.
- **Interruption.** A NaN in the middle of an accumulation window, a process
  that dies between two of the three files it saves, a power failure between
  the writes and the rename of a checkpoint. Correct: a window is applied whole
  or not at all; what is loaded continues what was saved; a checkpoint is the
  old one or the new one.
- **Pieces.** A character whose bytes come in different tokens, a tensor whose
  last block is not full. Correct: nothing is lost, repeated or moved.

`PROJECT.json` lists every such hazard at its line with the properties that
would catch it, and every component with its status.

## 2. Modules and the code they model

| module | models | EXTENDS / refines |
|---|---|---|
| `DataLoader` | `next_batch` without shuffling: the contract of a loader | |
| `Prefetch` | `PrefetchLoader`, worker and consumers | implements `DataLoader` |
| `Server` | server and `serve` | |
| `GreedyDecode` | appending the target's choice, up to a budget: what greedy decoding means | |
| `Decode` | `GPT::generate` at temperature 0 with the KV cache | implements `GreedyDecode` |
| `Speculative` | `SpeculativeDecoder::generate` | implements `GreedyDecode` |
| `RowStore` | what a cache promises: a table of rows per layer | |
| `KVCache` | paged `KVCache`s over one `TensorPool` | implements `RowStore` twice, for K and for V |
| `Trainer` | `Trainer` and `Adam`, saved state on disk | |
| `Ring` | exact arithmetic with derivatives, in place of float; matrices | |
| `Layers` | norms, softmax, losses, feed-forward, attention, blocks, forward and backward | `Ring` |
| `MambaLayer` | the state-space block forward and backward, both scans | `Layers` |
| `Flash` | the three forms of flash attention | `Ring` |
| `Gradient` | `GPT` forward, backward, `zero_grad`, incremental decoding, and the callers of backward | `MambaLayer`, `Flash` |
| `Checkpoint` | the file formats of weights on a disk that fails | |
| `Gguf` | the layout of GGUF files, from three computations of a tensor's size | |
| `GgufBlocks` | the block codecs and half-precision factors | |
| `Tokenizer` | BPE training, encoding, decoding, merges files and Hugging Face files | |
| `TokenStream` | `decode_incremental` as `generate --stream` uses it | |
| `MC*` | instances for TLC: model values, small vocabularies, symmetry; `MCCodecs` puts the last four side by side | the modules they name |
| `*_proofs` | theorems; `Codecs_proofs` about the four modules of `MCCodecs`, `Trainer_proofs` also about the scan of `MambaLayer` and `Flash` | the module they name |

Conventions: variables and actions have the names of the code's members and
functions where there is one. A definition with the comment "Mutant:" is a
plausible bug; no behaviour of a module uses it. It shows that the property
next to it in `PROJECT.json` depends on the code.

**Prefetch.** Every access to the loader's state is under `mtx_`, so one action
is one critical section: it begins by taking the mutex and ends by releasing it
or by parking in a condition variable. The worker's turn is two sections,
`WorkerTurn` (claims a batch, moves `cursor_`) and `WorkerPush`, with the read
between them, when others run. `notify_one` wakes any one parked consumer, and
a parked thread may wake for no reason. `prefetch_ = 0` is the mode without a
worker. A batch is named by its first token.

**Server.** The main thread (`Start`, `StopFlag`, `StopClose`, `StopJoin`,
`Exit`), the accept loop, and a handler per connection. An action is one atomic
operation, one system call, or code between them that touches nothing shared:
`try_enter` is `Load`, `CasEnters`, `CasFails` (which may fail spuriously, as
`compare_exchange_weak` does) and the counters of a completion are separate
steps. Requests are reduced to their kind: a completion, one that validation
refuses, a probe, or bytes that never form a request. Clients connect, send
and close when they like or never. The process may exit under live handlers.

**Decode.** A row of the cache is named by the tokens it was computed from. A
block reads the slice, truncates the cursor and stores its own row, in the
order of `forward_incremental`; its output is right only if its input was and
it attended to the right row of every position. The logits of a wrong hidden
state may rank any token first, so a stale or missing row becomes visible as a
wrong token. The slice past the block is modelled as the code has it.

**Speculative.** One action per exit of a round: a fallback step of the target,
an accepted token, a correction, a bonus, and the final cut. The draft model
proposes any tokens at all. `MaxConcat` is the literal 4096 of the code.

**KVCache.** A page is two buffers (K and V) from the pool or the heap; a hit
takes the top of the pool's free list and fills it with zeros, which is what
keeps the rows of its last owner out of sight. The driver (`Begin`,
`StoreLayer`, `Advance`, `SetSize`) calls the cache in the order the decoders
do: a step stores its rows in layer after layer, then advances; `Evict` and
`Clear` come between steps.

**Trainer.** Weights, moments and the head are named by the list of updates
that produced them; an update by the micro-batches it averages and the step
whose learning rate it used. So "the same weights" is equality of histories and
a lost, doubled or misplaced update shows. Gradients and losses are finite or
not, independently. Files are written in place one after the other; each write
may fail unnoticed (open fails: the old file stays; write fails: a torn file)
and the process may die before, in or after any of them. A torn file gives any
value that the code's unchecked reads can make of it. The ghost variable
`origin` records where a loaded state came from: `exact`, `mixed` (the process
died between two files), `altered` (a rollback, or a damaged file).

**Gradient and the layers.** Floats are replaced by integers modulo P^2. A
number x + P v is "x moved infinitesimally by v": addition and multiplication
carry the derivative along in the coefficient of P, and exp, log, tanh, sigmoid
and 1/sqrt are tables on the residues modulo P that obey the differential
equation of the function they stand for (and exp(-x) exp(x) = 1), nothing else
about them being used. Every formula of a layer is then translated as it is
written in the code, and a backward pass is right when, for weights moved along
a direction, the change of the loss equals the gradient times the direction,
exactly. This is what the finite differences of the repository's tests check
with a tolerance on one configuration. `Gradient` has the gradient buffers as
its state and one action per caller: the trainer's step and micro-step,
distillation, the policy step, the pipeline's micro-batches, `zero_grad`, and
the optimizer step that must come before the next accumulation. Sums of
`float` are not associative; the models say nothing about rounding.

**Checkpoint.** A file is a format, the configuration and weights it was
written from, and how much of it is there. A process opens (which truncates),
writes piece by piece, closes, and for `save_binary_atomic` syncs and renames;
any of these calls may fail, in the way the code notices or does not. A killed
process leaves what it wrote. A power failure cuts what was not synced at any
point and may undo renames that the journal had not reached. The three readers
differ in what they check: `load_binary` almost nothing, `load_safetensors`
names, shapes and lengths, `load_gguf` everything but before rather than
after the first tensor. Weights are named by the training that produced them.

**Gguf, GgufBlocks.** The writer computes offsets from padded sizes, writes by
filling blocks, and the reader computes sizes once more; `Gguf` keeps the three
computations apart. `GgufBlocks` computes the factors of a Q4_K block as the
code does, bit by bit: the widest range as a float, divided by 15 and by 63 with
the rounding of floats, then stored as a half and read back for quantizing.
Elements are whole numbers of 2^-24 up to a quarter, for which the float sums,
differences and products of the code have no rounding of their own; what a
sub-block's scale and min are rounded from is an exact quotient. Elements of Q4_0
and Q8_0 are whole numbers of 1e-8, the amount the code adds to every scale, and
their scales and quotients exact fractions. A block may come with the parts it
was made of. Three things are said of it: what an encoder stores decodes to the
nearest its block can hold, with the factors as they are stored (`NearestLevels`);
of a block made of parts, scales, mins and elements come back, and the factors
but for a half's rounding (`PartsFound`: under the stored factor, not the
original, and for Q4_0 and Q8_0 under a scale that is 1e-8 too large); halves
are the nearest (`HalfNearest`).

**Tokenizer, TokenStream.** Texts are sequences over a few bytes: two letters
and those that mean something in a file (space, newline, `#`, quote, backslash
and the letter n). A pair's frequency, the merging pass, escapes and line
splitting are translated; ties between frequencies, which a hash map decides,
are a choice. `TokenStream` keeps of a byte only its class, which is all that
UTF-8 needs.

## 3. Runs

Passing runs explore all states of their instance.

| run | instance | shows |
|---|---|---|
| `prefetch` | 2 consumers, 7 tokens in batches of 2, read-ahead 2 and none | order (`InOrder`), `ReadAheadBounded`, `has_next() = true` kept (`HasNextKept`), every call returns (`NextReturns`), destructor returns, refinement of `DataLoader` |
| `server_gate` | 3 connections, 2 slots, stop at any moment | `GateExact`, `RefusedOnlyWhenFull`, counters and audit log exact when handlers are quiet (`Accounted`), `StopLeavesNobody` |
| `server_live` | 2 connections, 2 slots | `GateReopens`, `EntryDecided`, `StopReturns` |
| `speculative` | 2 tokens, 3 prompts, budgets 0..5, k 0..3, pass limit 5 | `GreedyPrefix`, `NoExtraCalls`, refinement of `GreedyDecode` with its termination |
| `kvcache` | 2 caches of 3 and 1 rows, pages of 2, 6 buffers | `NoSharing`, `ReadsBacked`, `PoolBounded`, refinement of `RowStore` for K and V |
| `decode` | 2 layers, block 5, 4 prompts, budgets 0..3 | `SeesPrefix`, refinement of `GreedyDecode` |
| `trainer` | 3 micro-batches, windows of 2, 2 saves, 2 crashes, 1 failed write | `WholeWindows`, `Aligned`, `NeverAhead` |
| `gradient` | 6 configurations, 3 sets of weights, 2 layers, 4 channels, 2 heads, up to 3 calls of backward | `ModelGradient`; `LayerGradients` (gated network, attention with biases, label smoothing, reward loss); `DecodeMatchesForward`; `ScanChunked`; `FlashIsSoftmax` |
| `checkpoint` | 4 configurations, 2 trainings, 2 saves, 1 failing call, 1 restart | `OldOrNew`, `GgufHonest`, `AllOrNothing` |
| `codecs` | texts of up to 4 bytes, two trainings of two merges; streams of 5 bytes; files of 3 tensors of 0 to 600 elements; blocks made of parts and others, halves at their boundaries | `EncodeDecode`, `LoadRestores`, `StreamWhole`, `LayoutSound`, `NearestLevels`, `PartsFound`, `HalfNearest` |
| `server_drain`, `checkpoint_safetensors` | | each exhibits one disagreement of section 6 |

Why the bounds are enough to be interesting:

- `prefetch`: the queue fills (three batches and a last short one against a
  read-ahead of two), the worker parks, both consumers park at once and are
  both woken at the end; the destructor meets each state of the worker.
- `server`: three connections for two slots is the least that makes a
  compare-and-swap fail on a changed count and a third be refused; symmetric.
  With `MaxTokens` 1 a completion has no token or one, so `tokens_total_`
  differs from `requests_total_`.
- `speculative`: the pass limit trims some proposals and empties others; one
  prompt is empty; k reaches past what is left of the budget; two tokens make
  matching and mismatching proposals of every shape.
- `decode`: prompt and budget reach one token past the block, the most that
  can be decoded within it, since the last token is never fed.
- `kvcache`: one cache has two pages of which the second is cut by the length,
  the other's single page is cut too; six buffers are exactly what all caches
  need when full, so that one leaked buffer makes an acquire fail. A step
  stores one row or two: it may begin and end anywhere within a page.
- `trainer`: two single steps, or a window and a single step, between two
  saves that may each be interrupted twice; one failed write lets every file
  be stale or torn alone. Further micro-batches only lengthen histories.
- `gradient`: two layers make a gradient pass through a whole block; four
  channels in two heads keep the heads' blocks of columns apart; three tokens,
  one of them outside the vocabulary and one target masked, make the causal
  mask, the scatter and the clamping matter; the six configurations cover each
  switch in both positions and rotary positions on both kinds of block. A
  wrong term survives a random direction with probability about 1/181 per set
  of weights and direction; there are three sets.
- `checkpoint`: the second save meets the file of the first at each path, torn
  or whole; each field of the configuration differs alone between the file and
  some model.
- `codecs`: the vocabulary has room for two tokens beside the bytes, so that
  it fills in the first training and is full in the second; five bytes hold a
  four-byte character and its neighbour, cut anywhere; the sizes are around
  both block sizes. Blocks have scales and mins at the edges of six bits in
  every sub-block, mins of one sign and of both, factors that a half holds, that
  lie between two halves and that are below 2^-14; ranges from 15 levels to 2^18
  beside each other; scales so small that the added 1e-8 counts; and a NaN.

`CHECK_DEADLOCK` is off in `MCCodecs` only, whose subjects are calls that end.
Elsewhere the only final states are stuttering actions (`Destroyed`, `Exited`,
`Returned`) for objects that are gone.

## 4. Fairness

Only what the scheduler owes a runnable thread:

- `Prefetch`: weak fairness of the worker, of each consumer *inside* `next()`,
  and of the destructor once begun. Calls are never forced. Weak fairness is
  enough because a parked thread is not runnable until notified: were a
  notification lost, the property would fail.
- `Server`: the accept loop, each handler's own steps, and `stop()` once begun.
  `recv` and `send` are *not* fair: a client may leave a handler waiting for
  ever. That `GateReopens` holds nonetheless is its point: no slot is held
  during either. A handler's weak fairness gives `EntryDecided` because
  every failed exchange is due to another handler that entered or left, which
  happens finitely often; a spurious failure changes nothing, so fairness rules
  out that it repeats for ever.
- `Decode`, `Speculative`: one thread that runs (`WF_vars(Next)`).
- The others: safety only, no fairness.

## 5. Proofs

The theorems of the `*_proofs` modules hold for every value of the constants
that satisfies the named assumption of the module they are about. Each comes
from an inductive invariant (`IInv`, or a conjunction of named parts), shown to
hold initially and to be kept by each action, one lemma or step per action. The
part named below is the strengthening without which the property is not
inductive.

| theorem | states | why the strengthening is needed |
|---|---|---|
| `Prefetch_proofs!TypeCorrect` | `TypeOK` | |
| `Prefetch_proofs!StreamInOrder` | `InOrder` | `Positions`: what was delivered, the queue, the batch in the worker's hands and `cursor_` follow one another without a gap; order of the deliveries alone says nothing of what is still queued |
| `Prefetch_proofs!BoundedReadAhead` | `ReadAheadBounded` | `Room`: a worker that has claimed a batch saw a free place, and only consumers touch the queue until it pushes |
| `Prefetch_proofs!EmptyBatchIsEnd` | `EmptyIsEnd` | `Exhausted`: `done_` is set only with the cursor at the end and nothing in the worker's hands |
| `Prefetch_proofs!HasNextIsPromise` | `HasNextKept` | `Owed`, `Begun`: a promised batch is in the queue or still to be read, and every batch taken begins within the dataset |
| `Prefetch_proofs!ImplementsLoader` | `IsSequentialLoader` | the above with `Positions`: a delivering step is `NextBatch` of the abstract loader, an empty return its `NextEmpty`, all else stutters |
| `Server_proofs!GateCounts` | `GateExact` | `GateInv`: a handler that compares and swaps carries the value it loaded, which was below the limit |
| `Server_proofs!RefusalsAreJustified` | `RefusedOnlyWhenFull` | `GateInv` |
| `Server_proofs!StopIsClean` | `StopLeavesNobody` | the order of the three steps of `stop()`, and what the accept loop can still hold after each |
| `Server_proofs!CountersAccount` | `Accounted` | `CountersExact` and `AuditBehind`: the counters are at every moment the completions whose handlers have passed the step that counts them, also while others are between two of these steps; `Unanswered`: nobody is answered 200 before it is counted |
| `Speculative_proofs!TokenForToken` | `GreedyPrefix` | `Pass`: the accepted tokens of a pass are the target's, and the rows read are those of the verified sequence |
| `Speculative_proofs!NeverOverruns` | `WithinBudget` | `Pass` |
| `Speculative_proofs!NeverDearer` | `NoExtraCalls` | `Thrift`: the extra call of an empty prompt is not spent before the first token, with `Pass` |
| `Speculative_proofs!ImplementsGreedy` | every step is one of `GreedyDecode` or a stutter | `Pass` |
| `Decode_proofs!SeesWholePrefix` | `SeesPrefix` | `Stage`: which layers already hold the row of the current position |
| `Decode_proofs!ImplementsGreedy` | every step is one of `GreedyDecode` or a stutter | `Stage` |
| `Trainer_proofs!TypeCorrect` | `TypeOK` | |
| `Trainer_proofs!ResumeExact` | `Aligned` | `SaveProgress` and `DiskAligned`: which files the save under way has replaced, and that files of one save belong together |
| `Trainer_proofs!ResumeBehind` | `NeverAhead` | `DiskBehind`, `FilesBehind`: files are written weights first, so an older file is one written later |
| `Trainer_proofs!WindowsAreWhole` | `WholeWindows` | `HistoriesClean`: the snapshot and the weights on disk share no micro-batch with the open window either, so that neither a rollback nor a reload lets one be applied again |
| `Trainer_proofs!SkipsAccountedFor` | `OneSkipEach` | `SkipsPaid`: a skip takes its micro-batch out of the window, so the poisoned ones outside it pay for all skips, in memory and on disk |
| `Trainer_proofs!ChunkedScanIsScan` | any coefficients, inputs and first state of the state-space scan, any number of threads: the parallel scan is the sequential one | `RunIsAffine`: a stretch of the scan that starts from zero differs from the same stretch started at h by h times the product of its coefficients; `ChunksCover`, `InItsChunk`: every position is in one chunk, also in a short last one |
| `Trainer_proofs!ScansCorrect` | `ScanChunked` | `seed` stays among the sets of weights; the above |
| `Trainer_proofs!FlashFormsAgree` | rows of any length, scores within 50 of zero, any values and block size: the one-pass and the incremental form give what the two-pass form gives | `Whole`, the loop invariant: after each block maximum, sum and output are those of all keys so far, relative to that maximum (`NextIsWhole`, from `Rescaled`: sums relative to one maximum times exp(old - new) are those relative to the other; `MaxSplit`, `SumSplit`); `BlockEnds`: the blocks tile the row, a short last one included; `BlockMaxima` |
| `Trainer_proofs!FlashNormalizes` | the same rows: the result is softmax(s) . V if the sum of the weights has an inverse | `ExpAdds`; `InvIsInverse`: modulo a prime squared every number that P does not divide has the inverse that `Inv` computes |
| `Trainer_proofs!FlashCorrect` | `FlashIsSoftmax` | the two above; `NearInvertible`: four weights of at least 1/8 have a sum that P does not divide |
| `Checkpoint_proofs!TypeCorrect` | `TypeOK` | |
| `Checkpoint_proofs!CrashSafe` | `OldOrNew` | how far the temporary file has come at each stage of the save, and that it is durable before the rename |
| `Checkpoint_proofs!LoadsAllOrNothing` | `AllOrNothing` | lemmas `WholeHasAll` and `TyingIgnoresHead`: a whole file has every tensor it names, and the one it does not name is the one tying overwrites |
| `Checkpoint_proofs!GgufTellsTheTruth` | `GgufHonest` | `Truth`: a save that writes has withdrawn the last answer, and no GGUF file is ever at `ckpt` or `tmp` |
| `KVCache_proofs!TypesHold` | | the length stays within `max_seq_len` because a step begins only where its rows fit or are dropped |
| `KVCache_proofs!PagesAreNotShared` | `NoSharing` | `Apiece`, which is the property place by place, holds because a new heap buffer is one that nobody holds; `Paired`: K and V of a layer have the same number of pages, so acquiring and releasing go in step |
| `KVCache_proofs!ReadsAreBacked` | `ReadsBacked` | `Backed`, `StepOK`: how many layers of the step under way have stored their rows, and that the pages of those layers reach to its end before the length does |
| `KVCache_proofs!PoolIsBounded` | `PoolBounded` | `Capped`: no layer has more pages than a full cache; `Recycled`: the pool only holds buffers that a cache on it gave back, so pool and pooled caches together stay within what the pooled caches can fill. The sum of the property is shown to be the cardinality of the set of page places |
| `KVCache_proofs!PagedIsRowStore` | `IsRowStore` | `NoSharing` with `Backed`: a write reaches the rows of its own cache and layer only, and a page from the pool is zero |
| `Codecs_proofs!LayoutAgrees` | `LayoutSound` | lemmas `AlignUp` and `SameSize`: aligned sizes, and that writer's and reader's byte counts are equal for every dtype |
| `Codecs_proofs!StreamIsWhole` | `StreamWhole` | `HeldBack`: if the end of what was fed cuts a character, that character is the one held back, so nothing printed ever has to be taken back |
| `Codecs_proofs!HalvesAreNearest`, `HalvesAreRounded` | `HalfNearest`, for every float from 2^-14 up | the carries into the exponent, case by case |
| `Codecs_proofs!ScalesArePacked`, `ElementsArePacked`, `PairsArePacked` | the Q4_K and Q4_0 layouts are one to one, whatever the elements, scales and mins | what `PartsFound` checks on some blocks |
| `Codecs_proofs!LevelsAreNearest` | `NearestLevels`, for every block | `EncodedDecodes`: the decoder reads the scales, mins, elements and factors that the encoder used, the factors because both take the half's value (`FactorsTyped`); `NearestMultiple`: the rounded quotient, clamped to 0..15, is the nearest of the sixteen; `QuotientFits`: with 1e-8 added to the scale no element of Q4_0 or Q8_0 needs to be clamped, and each is rounded by half a step at most |
| `Codecs_proofs!PartsAreFound` | `PartsFound`, for every block made of parts | `Widest`, `AnchorFound`: the widest range is 945 factors and the min anchor 63, whatever the signs; `ScalesFound`: hence every scale and min is found; `WholeOver15`, `WholeOver63`: the two divisions of such a range give the factor itself, without any rounding, so that only the half rounds it (`FactorNear`); `ElementFound`: an error of less than half a level leaves the element; `StepFound`: the same for the 1e-8 of the other formats |
| `Codecs_proofs!WordsAsTrained` | `SegmentsAsTrained` | `TokInv`: the merges known are exactly those the first training applied to its own words, in that order (lemma `AllMergedNext`: a merge appended is a merge applied last), and every word is in the vocabulary |
| `Codecs_proofs!TrainedDecodes` | every text is decoded to itself, and the vocabulary has at most `vocab_size` tokens, as long as no file is written | `TokInv` with `Sound`: the vocabulary has every byte and the token of every merge; `Spells`: a merge never changes the bytes that the tokens spell. It is `EncodeDecode` of all texts instead of the probes, for tokenizers that were trained but not loaded |
| `Codecs_proofs!FilesRestore` | `LoadRestores` | `FileInv`: the file is what the saved tokenizer writes, also after later trainings and loads. Then, token by token and merge by merge: `TokenRead` (the key of an escaped token ends at its own closing quote, and unescaping gives the token back, whatever its bytes), `BodyClean` and `ReadsWritten` (a clean merge is cut at the space that was written, and no line is lost or invented, with or without the `#version` line), `LearntFromNew` (what `load` adds as long as there is room is the vocabulary the merges make, when that fits) |
| `Codecs_proofs!EncodingsDecode` | `EncodeDecode` | `FileInv`: a clean file's tokenizer is sound (`Sound`), and so is all that is loaded or trained after it; an unclean file's merges are still pairs of texts and its vocabulary within bounds (`MergesTyped`, `AddedBounded`) |
| `Codecs_proofs!LoadedDecodes` | the second part of `EncodeDecode`, of every text instead of the probes | `FileInv` |

Sums and concatenations over a function are recursive functions in the
community modules (`SumFunctionOnSet`, `FlattenSeq`). The library's induction
theorems take the property as an operator, which the provers cannot
instantiate; these proofs take it as a set instead. `Least` and `SetInduction`
of `Server_proofs` and their like in `KVCache_proofs` say that a nonempty set of
naturals has a least element; from it follows that a function with the
recursive equation exists, hence that the library's CHOOSE finds one, and from
that what the sum or the concatenation is. `FoldExists` of `Codecs_proofs` does
the same for the tokenizer's folds (`FoldLeft`), whose values on the prefixes of
a text or of the merges the induction then follows. The file formats are eight
more folds (lines, merges, escapes, the vocabulary): each is shown once to be the
fold `Val` of a function, and `ValEmpty`, `ValAppend` and `ValConcat` say what
that does on nothing, on one more element and on two sequences in a row;
`SeqInduction` then follows a sequence element by element. `Text` of `TokenStream` is stated by
the set of its cuts, which needs no recursion.

The assumptions are `PrefetchAssumption`, `ServerAssumption` and so on, which
state what the code needs of its parameters (a batch size of at least one, say);
`BlocksAssumption` says what may be encoded: Q4_K blocks of numbers up to 2^-2
in steps of 2^-24, infinities and NaNs, any finite block of the other formats
(a NaN is cast to an integer there, which C++ leaves undefined), floats from
2^-14 up for `HalfNearest`; and that the parts named with a block are parts it
was made of, the largest element fixing the scale, the widest sub-block the factor;
`TokenizerAssumption` says that space, newline, `#`, quote, backslash and `n`
are different bytes; `ScanAssumption` that the scan has at least one thread;
`GradientAssumption` that the sets of weights are numbered; `PAssumption` and
`FlashAssumption` that P is a prime above 32, which is about the arithmetic that
stands for float and not about the code;
and for the decoding theorems `Fits`: prompt and budget lie within the target's
block (section 6 says what the code does beyond it). `ImplementsGreedy` covers
initial states and steps; that both decoders end is checked by TLC.
The type invariants proved here, `EmptyIsEnd`, `WithinBudget`, `OneSkipEach` and
`SegmentsAsTrained` have no run of their own.

## 6. Disagreements met

Each of the first two is the counterexample of a run; `PROJECT.json` quotes both
sides.

1. `stop()` says it drains; handlers are detached and may still use the model
   when `serve` destroys it (`server_drain`).
2. A tied model read from a safetensors file keeps the head it had before
   (`checkpoint_safetensors`).

The models show the following too, though no run is kept for them; the
properties are stated so as to exclude exactly these cases:

- `has_next()` answers false while the last batch is in the worker's hands
  (`prefetch.cpp:39` and `:82`), so a `while (has_next()) next()` loop may lose
  it; `HasNextKept` is the direction that holds.
- A verification pass is bounded by 4096 and not by the target's block
  (`speculative.cpp:47`); past the block, decoding attends to zeros because
  the cache stores nothing there (`kv_cache.cpp:203`, `attention.cpp:128`),
  where `model.cpp:397` speaks of a sliding window. Hence `Fits` below.
- `rollback_if_nonfinite` restores the parameters and leaves a tied head
  (`trainer.cpp:243`); the learning rate it halves lasts until the next step
  sets the schedule's. `Aligned` is claimed of states without a rollback.
- With rotary positions `GPT::backward` adds the gradient of the rotated rows
  to the embeddings (`model.cpp:319`); `ModelGradient` is claimed without them.
- `FeedForward` gives gradients to `b1_` and `b2_`, which its forward pass
  never adds: they are left out of `ModelGradient`, though the optimizer
  updates them and the clipping norm counts them.
- `save_binary_atomic` renames whatever is at the temporary path, written or
  not (`model.cpp:566`): `OldOrNew` is claimed when no call fails. A file of
  the other kind of block loads the embeddings and skips or misreads the
  blocks; `load_gguf` that fails half-way leaves a mixed model, as its answer
  says.
- Halves below 2^-14 are shifted by 1 - exp where 14 - exp is needed
  (`gguf.cpp:102`): Q4_K blocks whose values span less than about 0.058 get a
  wrong factor. `HalfNearest` and the factors of `PartsFound` are claimed from
  2^-14 up. A factor beyond the largest half becomes the largest, though
  the comment of line 98 says inf.
- A line of `merges.txt` is split at its first space (`tokenizer.cpp:208`): a
  merge whose first part contains a space or starts with `#`, or either part a
  newline, comes back as another or not at all. `load` keeps merges that found no
  room in the vocabulary, whose text is then encoded as UNK. `LoadRestores`
  and `EncodeDecode` are claimed for the other files.
- `gguf.h:12` says that type 2 is Q4_0; `save_gguf_quant` tests for 4 and
  writes F32 for 2.
- `ppo_step` and `Pipeline::train_step` run their optimizer without
  `tie_weights`; the policy's old logits come from the weights being updated,
  so its ratio is 1; the pipeline's micro-batches are separate sequences with
  unshifted targets. `train()` ignores `grad_accum_steps` (`trainer.cpp:29`).

## 7. What is only checked, and what is not modelled

Only model-checked: every liveness property and the termination of the decoders,
which are beyond this prover; `ModelGradient`, `LayerGradients` and
`DecodeMatchesForward` of `Gradient`, checked as exact arithmetic on finitely
many configurations, weights and directions.

Abstracted in the modules above: rounding of floats, text and JSON of requests,
log output, timers (a 200 ms poll may time out at any moment), memory order
(the code uses sequentially consistent atomics), the device copies of the
cache, allocation failure, exceptions that end the process. The random-gradient
training path behind `allow_untrained_params` is left out. `stop()` writes
`listen_fd_` while the accept loop reads it, a data race that `Select` models by
the outcomes in which the call returns. Nothing bounds the handlers' threads
(`server.cpp:357`): there is no property of it to state.

Not modelled, with reasons, in `PROJECT.json` `components`: sampling (its draw
is floating point and a random generator), beam search, schedules and clipping,
evaluation, LoRA, quantization of tensors in memory and pruning, routing and
masks of attention variants that `GPT` does not use, GPU weights, configuration
and command line, the C API, logging, scripts.

## 8. Plan

Done: loader, server, cache and pool, decoding, speculative decoding, trainer,
forward and backward arithmetic and its callers, checkpoints, GGUF, tokenizer.

What would come next, most important first:

1. `Weights`: the copies of one weight (tied head, device upload, optimizer
   moments of the old shape) across training, rollback, `extend_context`,
   `load_binary`, `ppo_step` and `Pipeline::train_step` with their
   function-local optimizers; with `GPUWeights` upload order and budget.
2. `Beam` against exhaustive search; `Sampling` filters as sets; masks of the
   attention variants against their definitions; MoE routing; pruning counts.
3. Shuffling and `reset` of `DataLoader`; `Pool` with several page sizes;
   `KVCache` in the contiguous layouts; `BestKeeper`; C API handles.
4. Proofs: the gradient identities of `Gradient`, with the sums of
   `MapThenFoldSet` taken apart like the sums of flash attention.

Runs are kept few: pure algorithms share one run that enumerates their inputs,
and a component's crash and failure cases are bounds of its main run rather
than runs of their own.
