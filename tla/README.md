# A TLA+ model of the HybridAI inference engine

HybridAI (`src/`) is a C++20 library that loads a Qwen3.5/3.8 hybrid
attention/DeltaNet checkpoint and generates text on CPU or HIP devices. This
directory holds TLA+ models of its stateful parts, the TLC configurations that
check them on small instances, and TLAPS proofs about them. `PROJECT.json` lists
every run, every mutant that a property was tested against, the source lines
each definition stands for, the hazards of the code and the proved theorems.

Paths below are relative to the repository: `src/generator.cc` is the file the
map calls `src/src/generator.cc`.

## 1. Inventory

| Component | State it keeps | Operations | Interacts with | What is hard |
|---|---|---|---|---|
| Generator (`src/generator.cc`, `include/hybrid.h`) | loaded weights and tokenizer, `attention_caches_`, `deltanet_caches_`, `mtp_attention_caches_` | `load_model`, `reset`, `generate` in four ways: plain, MTP probe, isolated, speculative | calls every layer through `target_forward` and the MTP forward, clones and swaps their caches | many ways for a round to end, committed against cloned caches, failures in mid-pass |
| Attention and KV cache (`src/ops/attention.*`) | key and value rows, `length`, `capacity` per layer | forward with cache, `truncate`, `clone`, `swap` | mutated by every pass | capacity, partial passes, buffer reuse by clones |
| DeltaNet and its cache (`src/ops/delta_net.*`) | convolution state, recurrent state, `length`; static workspace pools | `grouped_causal_conv`, `recurrent`, `checkpoint`, `restore`, `swap` | mutated by every pass; cannot be rewound by length | two states that must advance together, unlocked pools, asynchronous kernels |
| Memory pool (`src/memory/memory_pool.*`) | free lists per bucket, active blocks, byte counters | `allocate`, `deallocate`, `release_cache` | owns a backend allocator; one shared pool per HIP device and memory type | long sequences of reuse, limits, accounting, unlocked accessors |
| Memory planner (`src/memory/memory_planner.*`) | none | `select_policy` | reads sizes | boundaries between policies |
| Weight loader and placement (`src/models/*`) | open shards, half-filled outputs | `open`, `load_distributed`, `load_mtp`, `plan_distributed` | safetensors loader, backends | partial failure, byte arithmetic |
| Safetensors loader (`src/io/*`) | tensor index over shards | `open`, `load`, `load_as_fp32` | file system | offsets from the file |
| Tokenizer (`src/tokenizer/*`) | vocabulary, merge ranks, special tokens | `load`, `encode`, `decode`, `build_chat_prompt` | used by `generate` | greedy merging, overlapping special tokens |
| Backend registry (`src/backends/backend_registry.*`) | factories, cached instances | `register_backend`, `create_backend`, `get_backend`, `backend_names` | everything that touches a device | re-registration while instances are in use |
| Device manager (`src/core/device_manager.*`) | device list, `initialized_` | `initialize`, queries | registry | initialised once |
| HIP backend (`src/backends/hip/*`) | streams, events, shared rocBLAS handle, shared pools | copies, kernels, GEMM, `synchronize` | every layer | asynchronous execution, per-thread memory of a shared handle's stream |
| CPU backend (`src/backends/cpu/*`) | none | copies, GEMM, reference kernels | every layer | synchronous |
| Tensor and buffers (`src/core/tensor.*`) | shared buffer, offset | `to`, `contiguous`, `reshape` | backends | lifetimes across asynchronous copies |
| Kernel registry (`src/ops/registry.*`) | map of kernels | `register`, lookup | operators | none beyond a locked map |
| Numeric operators (`src/ops/*`) | none | linear, norms, rope, softmax, FP8 | backends | floating point |
| Configuration, CLI, demos, benchmarks | none that lasts | parsing and printing | the library | input handling |

What makes each correct, in a sentence: the **generator** returns the greedy
continuation whatever its strategy; the **caches** of all layers have absorbed the
same committed tokens whenever a pass begins; the **pool** grants every block to
one caller at a time and never too small; the **loader** holds
one whole model or none, and says OK only when all parts are of the directory it was given; the
**tokenizer** splits and merges as the model's training did, and gives the text back; the **HIP
backend** gives every queued command the memory contents that program order says, although
blocks are handed out again while commands on them are still queued.

The hazards, each at its line and with the properties that cover it, are in
`PROJECT.json`.

## 2. Modules

| Module | Models | Checked by | Proved in |
|---|---|---|---|
| `Decoding` | vocabulary, requests, the target model as a constant, greedy continuation | | |
| `GreedyDecode` | the promise of `Generator::generate` (abstract) | | |
| `TargetForward` | a forward pass over the layers' caches, and what a failed one leaves | | |
| `SpeculativeDecode` | `generate`, speculative branch (`generator.cc` 450-1117) | `MCSpeculativeDecode` | `SpeculativeDecodeProofs` |
| `PlainDecode` | `generate`, token-by-token branch (1119-1328) in three modes | `MCPlainDecode` | `PlainDecodeProofs` |
| `CacheValues` | the promise of the decoder caches: values that can be copied and exchanged (abstract) | | |
| `CacheObjects` | `AttentionKVCache` and `DeltaNetCache` over buffers: forward, clone, swap, truncate, restore | `MCCacheObjects` | `CacheObjectsProofs` |
| `Allocator` | the promise of the interface `Allocator` (abstract) | | |
| `BucketTable` | the pool's bucket sizes as a function | | `MemoryPoolProofs` |
| `MemoryPool` | `memory::MemoryPool` | `MCMemoryPool` | `MemoryPoolProofs` |
| `Placement` | the layer ranges of `plan_distributed` | | `LoadingProofs` |
| `Checkpoint` | what the loaders make of a model directory: `config.json`, index, shards, tensors of a layer, tokenizer files | | |
| `Loading` | `Generator::load_model` step by step, called repeatedly | `MCLoading` | `LoadingProofs` |
| `Unicode` | UTF-8 conversion and the category table | | `TokenizerProofs` |
| `Tokenizer` | `QwenTokenizer::encode` and `decode` | `MCTokenizer` | `TokenizerProofs` |
| `TokenizerReference` | what they are meant to compute, without their loops | `MCTokenizer` | `TokenizerProofs` |
| `DeviceStreams` | the inference thread, the null streams of the GPUs and the memory in between | `MCDeviceStreams` | `HipBackendProofs` |
| `RocblasHandle` | the shared rocBLAS handle and the threads' memory of its stream | `MCRocblasHandle` | `HipBackendProofs` |
| `SumFacts` | lemmas on sums over finite sets, and induction on numbers | | |

How they compose. `SpeculativeDecode` and `PlainDecode` extend `TargetForward`, which
treats caches as values; `CacheObjects` shows that the objects with their buffers
behave as such values (`RefinesCacheValues`). `CacheObjects` takes it that a buffer in
use is nobody else's, which `MemoryPool` and `Allocator` show, and that a copy has
happened when the next operation reads it, which `DeviceStreams` shows for streams
that run behind the host. `Loading` combines `Checkpoint` and `Placement` and says what
is loaded when `generate` begins.

Every safety property of the passing runs is a theorem (section 7). The liveness
properties are model-checked only.

## 3. The decoding modules

`Decoding` fixes a vocabulary `Token`, end-of-sequence ids `Eos`, a set `Model` of
checkpoints and `Target(m, s)`, the argmax of model `m` after reading `s`. A
sequence is greedy (`GreedyFrom`) when every token after the prompt is `Target`
of what precedes it and none follows an end-of-sequence token.

`TargetForward` gives the caches value semantics: a slot *is* the sequence of
tokens it has absorbed. An attention layer has one slot, a DeltaNet layer two,
because its convolution and its recurrent state are updated by different calls.
The slots stand in the order a pass updates them, so a pass that fails leaves a
prefix of them advanced (`FailedAdvances`). A pass over slots that disagree may
predict any token (`Predictions`): a model that lost track of its caches would
therefore break the refinement, not hide it. The capacity check
(`attention.cc` 326-330) is `FitsUpTo`.

`SpeculativeDecode` maps the code's control points to `pc`:

| `pc` | code |
|---|---|
| `idle` | between calls; `Generate`, `Reject`, `Reset` start from here |
| `prefill`, `seed` | prompt pass and its argmax (648-668), MTP prompt rows (670-699) |
| `head` | loop head: last token (724-729) or start of a round (730-762) |
| `propose` | one MTP forward, candidate and checkpoint per step (763-849) |
| `verify` | clone and one multi-row pass (853-907) |
| `accept` | acceptance count, then `CommitAll` (918-934) or `Replay` (935-979) |
| `recover` | one MTP forward of the correction (980-1020) |
| `return` | result (1029-1116) |

The MTP history is kept as a sequence of rows, each with its token and the hidden
row it was paired with, so that a row missing or taken from a rejected candidate
is visible. A candidate may be any token. `FailOnClones`, `FailPrefill`, `FailReplay`
and `FailRecover` let any backend call of a stage fail; `FailWithoutHidden` is the
one failure the code runs into by itself, after the unchecked row copy at line 929.

`PlainDecode` has the modes `plain`, `probe` (`enable_mtp`) and `isolated`
(`enable_speculative_mtp` when no MTP layers are loaded, which only a failed second
`load_model` can bring about).

Left out: wall-clock timings, profiling output, the decoded text, the second and
later MTP layers (`mtp_num_hidden_layers` is 1 in the supported checkpoints), and a
prompt that encodes to no token at all (every pass refuses it, so the call fails in
its prefill). On a CPU device `forward_impl` refuses every cached pass; such a
call is one that fails at its first attention slot. That one pass over several
rows predicts what several passes over one row do is the assumption the code
states at 871-874; it is built into `Target` being a function of the tokens, and
floating-point differences between the two kernels are outside the model.

## 4. The memory pool

`MemoryPool` has one action per exit of `allocate` (direct, cached, new) and
`deallocate` (to the backend, to the pool) and one for `release_cache`, which the
destructor also runs. Each public method holds the pool's mutex from start to end,
so it is one step. `heap` is the memory the backend allocator has given out (it may
return any address not in use), `held` is the ghost that records what callers were
promised; the other variables are the class's members. `bucket` 0 stands for the
marker `SIZE_MAX`. The counters are integers without width: `BytesAccounted` shows
they equal sums of block sizes, so the unsigned originals cannot wrap.
`total_allocs_` and `cache_hits_` are left out.

`BucketTable` computes the constructor's table for a rational growth factor, over integers
without width: a largest size close to `SIZE_MAX`, where the next size overflows, is left out.
`MCMemoryPool` assumes, and TLC evaluates, that for every pair of sizes and growth
factor it tries the table has what `MemoryPool`'s `BucketAssumption` asks for.

## 5. The other modules

**Cache objects.** A cache is the pair of buffers and the length (and capacity) of the
C++ object; a layer has one in the generator's own set ("live") and one in the scratch
set. Keys and values are rows per token, the DeltaNet states a function of all
tokens absorbed, so a buffer's content is a sequence of tokens, `Junk` where
nothing was written. Every buffer copy of `clone()` and every layer of a pass is a step of its own, and
`Finish` may come between any two: a failed call. `phase` says how the scratch caches
relate to the live ones, which guards the uses that the code makes of them: work on a
fresh copy, `Swap` after it. `Rollback` is the use `truncate()` and `restore()` are
documented for and that nothing in `src/` makes yet. Buffers are numbered and the lowest free ones are
allocated, as which buffer it is does not matter.

**Loading.** A directory is a record: `config.json`, the index, and per shard its entries
with begin, end and the bytes the shape asks for. Tensors that are loaded together stand for
one name (`norms`, `attention`, `linear`, `mlp` of a layer, and the shared ones). Of
`config.json` every field is there that something in `src/` reads: `sizes` and `gates` are
functions on the keys the file has with a value of the right type, the other keys are
sequences of at most one value. A missing key leaves the field as it was (`Overlay`), which
after an earlier load is the value of another directory; `head_dim`, `rope_theta` and
`rope_head_dim` may follow from other fields (`Derived`). What a file settles whatever
was there before is `Settled`: `OkMeansCoherent` claims these fields for the directory of
the call and nothing of the fields the file leaves open, and `FirstCallIsExact` is about
first calls, where they have the values of `qwen3_config.h`. Floating-point numbers
are integers here: they are only compared with zero, and the rotary factor is
counted in quarters.

Each stage of `Impl::load` is an action and writes its member of the generator before the
next one begins; `result` is the local of `load_distributed`. A stage ends the call with an
error (`Fail`), or an exception leaves it (`Throw`) and the caller may call again: `reserve()`
for a negative or too large number of layers (`qwen3_config.cc` 168), an element type that is no
string (`safetensor_loader.cc` 130), and an entry of another type than expected in the
tokenizer's vocabulary or merges (`qwen_tokenizer.cc` 103-128). Where a file has several faults, which of an
error and an exception is met first depends on the order of the names, and both are
possible. `EntryIsValid` compares sizes modulo `Word`, as the 64-bit product of
`safetensor_loader.cc` 160 does: a shape that asks for 2^64 bytes more than the file holds is
accepted. `BackendFails` may end the stages that read tensor data. A directory is replaced between calls
only. `IsDirectory` (`DirectoryAssumption`) says which records a directory can be:
what the parsers can hand over, before any of the checks that are modelled. Keys are absent or
have one value, offsets and sizes are unsigned, a shard of the index has a record, the
tensors are finitely many and have names the loader can tell apart. Any of the faults the
checks look for is still possible.

**Tokenizer.** The outer loops of `encode` are control points (`split`, `segment`,
`pre_tokenize`, `piece`, `bpe`), the branches of `pre_tokenize` one action each, tried in the code's
order. A token of the vocabulary is its sequence of code points. The category
table is that of `unicode_utils.cc` for the ranges listed in `Unicode`.
`TokenizerReference` writes the regular expression as the sets of lengths its
alternatives match, and the merges as a sweep per rank over the whole word. That the two
ways of merging agree needs a merge list as training produces it (`TrainedMerges`,
evaluated by TLC). Loops over a text are `Scan`s, recursive functions on its places, so that they can be reasoned about.
`NewIdsAssumption`: an added token has an id no token of the vocabulary has.
`CompleteAssumption`: every byte and every merged token is in the vocabulary, and no two
tokens share an id; `encode` silently drops a token it finds no id for, and
`id_to_token_` keeps one token per id. `ContentAssumption`: the content of an added token is
well-formed UTF-8 and no two of them share an id. A tokenizer file as training writes it is
like that, but `load` does not check it, so these are assumptions and no results. `FileAssumption` only gives the types of what the parser hands over.

**Device streams.** `val` of a tensor is what program order says, `memory` what its block
holds; a command that finds another value than it should writes `Garbage`. Enqueuing and
executing are separate steps, and `Execute` may lag behind as far as it likes. Dropping
the last tensor of a block puts it into the pool at once, with commands on it still
queued, as `HipBuffer`'s deleter does. Waiting calls (`Tensor::to`, upload, reading a token) are two actions, the second
guarded by the empty stream. `Lookup_embedding` allocates its buffers and drops the one of the ids
when it returns; `Lookup_embedding_into` is the proposal loop's use, with an output and an ids buffer
that are kept and overwritten by each proposal. `Generate` and `Return` are the life of the
token's buffer, a local of `generate()`: its creation may fail, and the first read then
tries again. What a DeltaNet kernel writes lies in a workspace, so that its block
belongs to the workspace pool and to a tensor at once: the one case `BuffersAreWhereTheySay`
excepts. The kernels' checks of their buffers' devices are the guards (`Inputs(d)`); the
error returns behind them are left out, as a call with a wrong buffer puts nothing on the
stream. Assumed of the HIP runtime, because the code relies on it:
a stream runs in order; a copy from pageable host memory has read it when it returns; a
copy between devices waits for what was put on the source's null stream before; no
kernel fails.

**rocBLAS handle.** `stream` is what the handle of a device is set to, `last_streams` the
`thread_local` map. Setting the stream may fail: the memory then stays as it was and `gemm` returns the
error before it starts anything. `Gemm` is one step: calls on a handle do not overlap.

## 6. Runs

| Run | Instance | Shows |
|---|---|---|
| `speculative` | 3 tokens, 3 models (ending at length 3, 5, 9), prompts of 1-3 tokens, budgets 1, 4, 6, width 3, one DeltaNet layer and one attention layer, context 8 | greedy refinement, caches follow the output, passes fit, MTP rows are committed, counts balance, every call returns |
| `plain` | the same models and prompts, budgets 1, 3, 5, context 7 | greedy refinement in three modes, each token read once, guesses balance, every call returns |
| `memory_pool` | 5 addresses (symmetric), requests 1, 3, 7, 9, buckets 2, 4, 8, mark 11 | ownership, fit, mark, accounting, refinement of an allocator |
| `cache_objects` | a DeltaNet and an attention layer, 10 buffers, capacities 2 and 3, passes of one or two tokens, FP32 activations | no shared or lost storage, layers in step, scratch work isolated, refinement of values |
| `loading` | 3 calls over 2 sound directories of different shape and 34 that differ from the larger one in one thing, wrong or at a boundary (two faults at once in one of them), 3 GPUs, 5 sets of options, a word of 1000 values | weights are one whole model, OK means coherent, bytes counted once, a first call succeeds exactly when it should |
| `tokenizer` | all texts of up to 4 characters over 8 kinds of character, 6 longer ones, 5 malformed ones | splitting matches the regular expression, merging the sweep by rank, added tokens are atomic, text comes back |
| `device_streams` | 2 devices with 3 and 2 blocks, up to 5 commands | memory holds what program order says, tokens read are final, staging outlives uploads, every block has one owner on its own device |
| `speculative_history` | as `speculative` | **violation**: the MTP history after a mismatch is a row short of what `tests/generator_mtp_test.cc` 111-118 says |
| `speculative_fallback` | as `speculative` | **violation**: after a mismatch the code speculates on, where `doc/plan.md` 232-234 says it falls back |
| `cache_restore` | as `cache_objects`, BF16 activations | **violation**: `restore()` refuses the checkpoints of a BF16 model |
| `tokenizer_numbers` | texts with Arabic-Indic digits | **violation**: digits classified as letters |
| `gemm_stream` | 2 threads, 2 devices, 2 streams | **violation**: a GEMM runs on the stream another thread has set |

Why the bounds are enough. With budget 6 and width 3 a call can have a full round,
another round after every candidate was accepted, a round cut short by the budget, and up to three rounds of which some mismatch at
every position; budget 1 skips speculation; the three models end inside the prompt
round, inside a proposal and never; the prompt `<<2, 0>>` holds an end-of-sequence
token, as chat prompts do; `<<1, 0, 2>>` with budget 6 exceeds the context. Two
consecutive calls are reached, so what a call leaves behind meets the next one.
Five blocks against a mark of 11 bytes allow every mixture of pooled, released and
direct blocks. Within a call both sets of caches have the call's capacity, so that a clone meets a
destination without buffers, which gets new ones, or one that fits; the two
capacities make consecutive calls differ. Two sets of two caches hold at most eight
buffers, so that one of ten would be missed. Three calls of `load_model` are a success, a failure half-way and a
success again, in every order. The smaller directory leaves most fields of its configuration
open and is loaded after the larger one, with its own `head_dim`; the larger one has fields a later load must
not take from the smaller; a size lies one word and one byte off. Four characters are more than the regular expression
looks ahead; every pair of its alternatives meets. Five commands let a block be written, dropped, handed
out again and written while a reader is still queued, on both devices, and are enough for
three tensors on a device and a lookup into two of them.

Deadlock is checked where a caller can always make another call. It is switched off in
`loading` (three calls), in the tokenizer runs (a behaviour ends with the
decoded text) and in `device_streams` (five commands), where the bound or the end of the
input stops the model.

Fairness. `FairSpec` of the decoding modules is weak fairness of `Step`, the moves of a call in progress: a
call is one thread that runs until it returns. `Step` holds no backend failure, so
`CallsReturn` says that calls end without one; nothing obliges a caller to call. The other
specifications have no fairness: their properties are about safety, and `load_model` is a
finite straight line of stages of which nothing waits for another.

### Findings

* **One row too few after a mismatch.** Checkpoint *k* of a proposal is taken after
  *k* MTP forwards, whose inputs are `next_target` and the first *k - 1* candidates.
  The code restores `mtp_prefix_checkpoints[accepted]`, so the row of the last accepted
  token is missing; the test that describes the history expects
  `base_length + 1 + accepted` rows. `MtpHistoryIsCommitted` states what does
  hold: only committed rows, one fewer per round. The output is unaffected.
* **No fallback after a mismatch.** The plan says that a request stops speculating
  after its first mismatch; the code recovers a row and goes on.
* **A BF16 checkpoint cannot be restored.** `DeltaNetCache::restore()` asks for equal element
  types of the convolution and the recurrent state. The first has the type of the
  activations, BF16 in the decoder, the second is FP32. `generate` commits by `swap` and
  is not affected.
* **Digits that are letters.** `codepoint_flags()` looks for letter ranges first, and these
  cover whole blocks with the digits in them; ten of the fifteen ranges of digits are
  never reached.
* **GEMM on another thread's stream.** Each thread remembers the stream it last gave to
  a handle that all threads share. With two threads and two streams the memory goes
  stale and `rocblas_set_stream` is skipped. The program itself uses one thread, for which
  `OneThreadRunsWhereAsked` proves that every GEMM runs where it was asked for.

## 7. Proofs

Every theorem is about all values of the constants that the named assumptions
allow. Both proofs about decoding begin with what they need of concatenation and prefixes
of sequences, and with what a forward pass over slots that agree predicts and leaves
behind (`PassFacts`, `FailedFacts`).

`SpeculativeDecodeProofs` proves, for every vocabulary, model, set of requests,
cache layout (`NumSlots`, `AttentionSlots`), context length and width:

* `SpeculationIsGreedy`: `Spec => RefinesGreedy`, the refinement of `GreedyDecode`;
* `SpeculativeCaches`: `Spec => []CachesFollowOutput`;
* `SpeculativeCapacity`: `Spec => []PassesFit`;
* `SpeculativeCounts`: `Spec => []CountsBalance`;
* `SpeculativeTypes`: `Spec => []TypeOK`.

The inductive invariant `SpeculativeInv` is `TypeOK` and four parts. `RequestInv`
relates `pc` to the request and to what is left of the budget; `RoundInv` ties the
lengths of the proposal, the scratch cache, the checkpoints and the MTP history
together, which is what keeps a verification, a replay and a recovery inside
`max_cache_len`; `CacheInv` says that the committed caches hold the output and the
clone the output and the proposal; `GreedyInv` that the output is greedy, that
`next_target` and the rows of the verification are the target's predictions, and
that a candidate that ends the sequence can only be the last. None stands alone:
the predictions of a pass are the target's only because all slots agree, and the
slots agree after a replay only because the correction always fits the budget.
`AcceptedFacts` shows that the accepted prefix exists, `CommittedGreedy` that what a
round commits is greedy, by `GreedyConcat`: a greedy output followed by the target's
predictions is greedy. The statistics need
`CountsInv` on top of `SpeculativeInv`: inside a round they run ahead of the output,
by the round's own token and by the candidates not yet decided. In the refinement
only `LastToken`, `CommitAll` and `Replay`
emit tokens (`EmitFacts`). Assumptions used: `VocabularyAssumption`,
`RequestAssumption`, `SlotAssumption` and `WidthAssumption`.

It also proves `SpeculativeHistory`: `Spec => []MtpHistoryIsCommitted`. The property speaks of loop heads only, so `HistoryInv` follows the history through a round:
`RowsInv` says that each checkpoint is the committed history and one row for each
token of a prefix of the proposal (`Drafts`), and that the scratch cache is the last of
them; `HiddenInv` that the hidden row handed to the MTP head is the one of the last
committed token; `RoundsInv` counts the missing rows. `DraftedHistory` (a committed proposal, or the
accepted prefix of a replayed one, extends a history) and `RecoveredHistory` (so does the
row of a correction) are the two ways a history grows.

`MemoryPoolProofs` proves, for every set of addresses and request sizes, every bucket
table with increasing sizes whose last one reaches `MaxBucketSize`, and every mark:

* `Spec => []TypeOK`, `[]Ownership`, `[]BlocksFit`, `[]WithinMark`;
* `BytesAreAccounted`: `Spec => []BytesAccounted`;
* `Spec => ImplementsAllocator`, the refinement of `Allocator`.

The inductive invariant of all but the counters is the conjunction `PoolInv` of the first four. None of them is
inductive alone: that a block handed out is not also free needs `FreeOnce`, that it
is large enough needs the recorded size of free blocks, and that an active block is
recognised as active needs sizes to be positive. One lemma per action shows
that it preserves `PoolInv`; `BucketIndexFits` shows that the index `bucket_index`
returns exists (a least element of a set of numbers, from the library's theorem on
well-founded orders) and is large enough. The counters need `AccountInv` on top:
`BytesAccounted`, and that finitely many blocks are in free lists or in use, without which
the sum over infinitely many addresses would say nothing. Each action moves one address
between the two sets, or empties one of them. Assumptions used: `SizeAssumption` and
`BucketAssumption`.

`ConstructorTable` justifies `BucketAssumption`: for every positive smallest and largest
size and every growth factor, also one that does not grow, the constructor's table holds
positive sizes, increases strictly and ends with the largest. `LoopEnds` shows that the
recursion in `Table` has a solution (the loop can be followed from its end back to any size,
since each size is above the one before it), `LoopClimbs` that what it pushes increases. The
recursion is over positive sizes: with a smallest size of 0 the constructor's loop does not end.

`SumFacts` holds the lemmas on sums. `SumFunctionOnSet` is a fold, that is a recursive function on
the subsets of a set that a `CHOOSE` picks. `SumsExist` and `SumsAgree` show, by induction on
the size of the set, that such a function exists and that two agree where both are
defined. The library's induction theorems take the predicate as an operator, so
`NumberInduction` states the principle with the set of numbers that satisfy it, and is
proved from the well-foundedness of the order of numbers. From there: any element may
be taken out first, sums of disjoint sets add, and a sum of sums over disjoint sets is the sum
over their union.

`PlainDecodeProofs` proves, for the same constants:

* `PlainIsGreedy`: `Spec => RefinesGreedy`;
* `PlainReadsOnce`: `Spec => []EachTokenReadOnce`;
* `PlainGuesses`: `Spec => []GuessesBalance`;
* `PlainTypes`: `Spec => []TypeOK`.

`PlainInv` is `TypeOK`, `RequestInv`, `CacheInv`, `GreedyInv` and `GuessInv`. `EachTokenReadOnce` is not
inductive: that no position is skipped rests on the caches being exactly the text
without the step's inputs (`CacheInv`, with `Read` the part read before), and the token
of a step is the target's only because all slots agree. Assumptions used:
`VocabularyAssumption`, `RequestAssumption`, `SlotAssumption`.

`HipBackendProofs` proves `OneThreadRunsWhereAsked`: when `Threads` has one element, every
GEMM runs on the stream asked for. The invariant says that the thread's memory of a
device, where it has one, is the stream the handle is set to; setting it may fail, which
leaves both. The run `gemm_stream`
shows that two threads are enough to break it.

`LoadingProofs` begins with `Placement`: `plan_distributed` gives each layer to exactly
one device (`LayersOwnedOnce`), leaves no device without a layer when there are enough
(`DevicesUsed`), and shares differ by at most one layer (`SharesAreFair`), for all
numbers of layers and devices. Products of variables are kept away from the SMT
solver: everything follows from `DivAtLeast`, `k <= x \div D <=> D * k <= x`. It then
proves, for every set of directories, machine and set of options:

* `LoadedWeightsAreWhole`: `Spec => []WeightsAreWhole`;
* `LoadedIsCoherent`: `Spec => []OkMeansCoherent`;
* `LoadingTypes`: `Spec => []TypeOK`;
* `PlannedOnce`: `Spec => []BytesPlannedOnce`;
* `FirstCallDecides`: `Spec => []FirstCallIsExact`.

The invariant `LoadInv` follows the stages of `load()`: `StageInv` says that a call in
progress still reads the directory it began with, `ConfigInv` that an accepted
configuration is valid, has the schedule of its own interval and agrees with its file in every
field the file settles, `ResultInv` that the layers loaded so
far are those of this directory on the devices of the partitions, `PublishInv` the same of
`weights_` once it has been replaced. That each layer has one device comes from
`LayersOwnedOnce`. `SettledAlike` is the lemma on the configuration: what a file settles is
read alike over any two earlier configurations, which for `head_dim` and `rope_head_dim`
holds only because the fields they follow from are settled too.

`TotalInv` adds `ValueInv`, the values each field can have, and `BytesInv`: from the
`layers` stage on, the planned total is the bytes of the model's tensors. A device's share
is a set of tensors; the shares are disjoint because the layer ranges are, and cover the
model because every layer is in one, so that `SumOfSums` gives the total.

`DecisionInv` adds `FirstInv`, about the first call. While it runs, `Passed` says which
checks it has passed on reaching its stage; when it returns, `Judged` says that it has decided
as `Accepts` does, the conjunction of all stages' checks. `AcceptsUsable` is the lemma on the
data: for every directory the conjunction of the checks is `Usable`, which is written without
regard to the stages. It needs that a configuration is accepted exactly when it is usable over the
defaults, and then has the schedule `Usable` asks for (`LoadJsonAccepts`), that files open exactly when they are sound
(`OpenIsHolds`, `FilesAccepted`), and the same for the tensors of a layer and the tokenizer (`LayerAccepted`, `TokenizerAccepted`).

Assumptions used: `CheckpointAssumption` (the limits are numbers), `LoadingAssumption`,
`ConfigAssumption` (the types of the defaults in
`qwen3_config.h`), `DirectoryAssumption` (what the parsers can hand over, see section 5) and
`SelectionAssumption` (the selected devices form a list, which for `SelectSeq` would need
induction over data; TLC evaluates it).

`CacheObjectsProofs` proves, for any number of layers and buffers, any text length, and
wherever a call fails:

* `CachesAreValues`: `Spec => RefinesCacheValues`, the refinement of `CacheValues`;
* `CachesApart`, `LayersAgree`, `ScratchFollows`, `StorageIsBounded` and `CachesTyped`:
  `Spec => []IndependentStorage`, `[]LayersInStep`, `[]ScratchFollowsPhase`,
  `[]StorageBound` and `[]TypeOK`;
* `ScratchIsolated`: `Spec => ScratchWorkIsIsolated`, an action property.

The inductive invariant is `CacheInv`. Between operations the properties almost say
enough; inside one they do not, so `CacheInv` follows each operation from buffer to
buffer. `OpInv` ties the operation's layer, step and buffers to its kind; `ShapeInv` says
that caches have all their buffers or none, but for the one an operation is filling;
`ApartInv` that the buffers in use are pairwise different, those of a clone under way
included; `CloneInv` that a clone's new buffers are the destination's or nobody's yet, and
how far they are copied; `TextInv` that there are two texts, of the live and the scratch
caches, such that each slot holds the old or the new one, according to whether the
operation has passed its layer. Every write to a buffer then changes one slot of one
object (`Only`), and swap and restore, which move buffers, are one lemma (`MoveStep`).
`StorageBound` follows by a surjection: each buffer in use has a place, and there are
four places per layer. Assumption used: `CacheAssumption`.

`HipBackendProofs` also proves, for any number of devices, blocks, tensors and queued
commands:

* `TensorValues`: `Spec => []TensorsHoldTheirValues`;
* `FinalAnswers`: `Spec => []AnswersAreFinal`;
* `UploadsFindTheirData`: `Spec => []StagingOutlivesCopies`;
* `OneOwnerPerBlock`: `Spec => []BuffersAreWhereTheySay`.

The values of the program lie in the future: a tensor's block holds its value only when
the stream has caught up. `StreamInv` therefore speaks of what a place holds after the
first `n` commands of its device's queue (`Holds`). `TensorInv` says that each tensor's
block holds its value after all of them and that no two tensors share a block, the one the
host is waiting for included; `BlockInv` is `Accounted` for each device: pool, heap,
workspaces, the token's buffer and the tensors are disjoint, but for tensors in a workspace, each
block is at home, and none is missing from all of them, so that a block handed out again gets its new writer queued behind its old readers
on the one stream that can reach it; `WaitInv` that a queued command either reads what
the commands before it leave, or is the copy from another device or from staging that the
host is waiting for, with nothing queued on its source; `ReadInv` that the result the host
waits for is the token; `OrderInv` that commands carry the order they were queued in.
Executing a command is then the step from `n + 1` to `n` of what is known already. Assumption used: `HomeAssumption` (every tensor
has a device).

`TokenizerProofs` proves, for every text and every tokenizer file:

* `AddedTokensAlwaysAtomic`: `Spec => []AddedTokensAreAtomic`;
* `PiecesAlwaysMatchRegex`: `Spec => []PiecesMatchRegex`;
* `WordsAlwaysMatchSweep`: `Spec => []WordsMatchRankSweep`;
* `TextAlwaysComesBack`: `Spec => []TextComesBack`, for the well-formed texts.

The inductive invariant `TokenizerInv` is `TypeInv`, `ControlInv` (which variables are in use
in which loop) and one part per property, each a sum of what is done and what is ahead.
`AddedInv`: the added ids already in `ids`, those of the segments waiting and those of the
text from the cut on are those of the whole text. `WordsInv`: the pieces so far and the
words of the segment from the place reached are the words of the whole segment. A `Scan` is
a recursive function, so that it means something only if one exists: `ScanIs` proves that
it does when each place is followed by a later one, by induction on the places that are left.
`BranchIsMatch` is the lemma on one step: of the eight branches the first that applies takes
what the first alternative of the expression that matches can take at most. Each branch has
a lemma of its own; code points that are not defined are excluded, as the expression counts
them as symbols and the table does not.

`WordsMatchRankSweep` needs `SweepInv` on top: while a piece is merged, the sweeps make of
`word` what they make of its bytes. A merge keeps it (`SweepsMerged`), because the sweeps of
smaller ranks change the word neither before nor after it, and the sweep of its own rank makes the
same of both (`SweepMerged`): the place merged is the first of its pair, and the new token is
part of no pair that is due yet. That is what `TrainedMerges` is for: if a token could also be made by
a pair that comes after one it is part of, the search would use it at once and the sweep would
not.

`TextComesBack` needs `BackInv` on top. `VisibleInv` is the sum of what is done and what is
ahead once more, in bytes: what decoding makes of `ids`, then the bytes of the piece, the pieces
and the code points still to be encoded, then the segments waiting, then the text from
the cut on, together are the text as a reader is to see it. Two things keep it. The way through the
code points loses no byte only for a segment that is well formed, and a text is cut where
an added token begins, byte by byte: `CleanInv` says that each segment that is complete lies between two
ends of characters (`Edge`), because the content of an added token begins and ends a
character wherever it is found (`EdgesOfAdded`); the segment that still grows may end within
one. And an id stands for the bytes of its token only if it is in the vocabulary: `WordInv` says that
the word being merged spells the bytes of the piece in tokens that have ids. `OutputInv` is
what `decode` has made of the ids.

Assumptions used: `FileAssumption`, `NewIdsAssumption` (without it a token of the vocabulary
could come out with the id of an added one), `MergesAssumption` (that is `TrainedMerges`, for the
sweeps), `CompleteAssumption` and `ContentAssumption` (for the way back).

Model-checked only:

* liveness (`CallsReturn`), which needs fairness and `ENABLED`;
* what the runs that expect a violation show.

## 8. Not modelled

* **Numeric operators, kernels of both backends**: floating point. What decoding relies on
  is the constant `Target`, a function of the tokens read.
* **CPU backend**: wrappers that finish before they return; nothing to interleave.
* **Kernel registry, backend registry, device manager**: maps behind one lock whose methods
  are single steps. Backends are registered by static initialisers, nothing in `src/`
  registers one again, and nothing depends on the order. The device list is the constant
  `Machine` of `Loading`; that two backend objects may exist for one device is in
  `DeviceStreams` and `RocblasHandle`.
* **Memory planner, `WeightPlacementPlanner`, `model_weight_schema`**: pure functions that no code
  in `src/` calls, only tests.
* **Accessors of the memory pool** that read a counter without the lock: only tests call them
  and no two values are related.
* **Streams and events created by callers**: used by tests and benchmarks only.
* **Second and later MTP layers, `build_chat_prompt`, CLI, demos, benchmarks**: data or input
  handling without state of their own.
* **Host memory running out** (`std::bad_alloc` anywhere but in the reservation of the
  layer types), and a `tokenizer.json` without the keys `vocab` or `merges`, which
  `operator[]` of a constant JSON object leaves undefined.
* **Fields of `config.json` that nothing in `src/` reads**: `bos_token_id`, `pad_token_id`,
  `use_cache`, `tie_word_embeddings`, `mtp_use_dedicated_embeddings`. The product of a shape's
  dimensions is signed 64-bit arithmetic in the code and taken to wrap.
* **Element types, shapes, strides and quantisation**: arithmetic on data.
