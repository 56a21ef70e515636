# A TLA+ model of Z3 Quantum-Flow

Z3 Quantum-Flow (binary `z1`) is a local LLM inference engine in Rust on top of ggml. This directory
holds TLA+ modules of its control (which call changes which state, in which order, and what
every early return leaves behind), TLC configurations that check them, and TLAPS proofs.
Tensor arithmetic is not modelled; what a pass reads and writes is.

Run a check with `tlc -config MCChat.cfg MCChat.tla`, a proof with `tlapm Chat_proofs.tla`.

## 1. Inventory of the system

All paths are under `src/src/`.

| Component | State it keeps | Operations | Calls |
|---|---|---|---|
| **KV cache and forward pass**, `graph.rs` | the K/V tensors (`n_ctx` = 512 rows per layer), `kv.head`, the persistent decode graph (`d_built` ...) | `prefill`/`forward`, `decode_one`/`execute_decode`/`build_decode_graph`, `reset_kv`, `Drop` | ggml |
| **Generation loop**, `generate.rs` `run_generation_inner` | the locals of one call: `next_token`, `generated`, `recent_tokens`, `text` | one call: check, prefill, then sample, emit, decode until a guard stops it | forward pass, sampler, tokenizer, stdout |
| **Chat REPL**, `main.rs` `run_chat`, `generate.rs` `generate_turn`, `Session` | `session.turn_count` | a message, `/reset`, `/quit`, end of input | generation loop, `reset_kv` |
| **Single-shot and benchmark**, `generate`, `run_prompt`, `run_bench` | the run of the benchmark | one prompt; a regression run and three speed runs | generation loop, `reset_kv` |
| **File mapping and prefetch thread**, `mapper.rs` | the mapping, `current_layer`, `stop`, the thread handle | `InferenceMapper::new`, `activate_layer`, `advance`, `shutdown`, drop; the thread's own loop | mmap/madvise/munmap |
| **Sampler**, `logits.rs` | the xorshift state and, in its caller, the recent tokens | `sample_token` (penalty, temperature, top-k, top-p, draw) | none |
| **Tokenizer**, `tokenizer.rs` | vocabulary, merge ranks, byte table (read-only) | `from_gguf_parts`, `encode`, `decode`, `decode_one` | none |
| **GGUF parser**, `gguf.rs` | none | `GgufHeader::from_file` | file |
| **Loader**, `loader.rs` | tensor descriptors over the mapping | `MappedModel::load`, `Drop` | parser, mapper, ggml |
| **Start-up**, `main.rs` `main` | its locals: header, model, tokenizer, forward pass | parse arguments, load, dispatch to one driver, drop | all of the above |

The program runs one driver on one thread; `kv.head` is the state its parts share. The drivers
reset it, the loop checks it and the forward pass moves it. The only second thread is the prefetch
thread of `mapper.rs`, a component that `main` does not start today: `loader.rs` opens a bare
`FileMapper`. The README of the repository also names an HTTP server, a web page and a sliding
window session manager; there is no code for them.

What is hard here:

* **Failure half way.** Every call into ggml, the sampler and stdout is followed by `?`. A turn
  that fails after its prefill leaves rows in the cache, and the caller only prints a message.
* **Stale rows.** A reset moves `head` and keeps the rows. The decode graph reads all `n_ctx` rows
  and relies on a mask; a prefill relies on the length of a view.
* **Boundaries.** Three capacity checks in two files have to agree to the row.
* **Two threads without a lock.** The mutex of the prefetcher guards nothing, so notifications can
  be lost, and the thread works on a layer number that may be stale and on an address that is
  valid only until the owner unmaps it.
* **Files from outside.** Offsets, alignments, counts and tables come from the model file, which is
  read twice and mapped in between; little of it is checked.
* **Order of teardown.** Five kinds of object in three files stand on one another and are dropped by
  the order in which `main` declares its locals.
* **Arithmetic at its edges.** Bytes laid out by hand, probabilities that round or underflow, a
  random state that must not become 0.
* **Documentation and code differ** on positions, masks, the end-of-turn token, resets and
  overflow (section 6).

The hazards, each at its line and with the properties that cover it, are in `PROJECT.json`.

## 2. Modules

```
ContextLog            the abstract context: a log of tokens, logits computed from all of it
    ^ refined by
ForwardPass           graph.rs: cache, head, prefill, decode_one, reset_kv, their failures
    ^ EXTENDS
Generation            generate.rs: run_generation_inner, one action per step
    ^ EXTENDS                      ^ EXTENDS
Chat  (run_chat, Session)          Oneshot  (generate, run_prompt, run_bench)

Chat also refines     Conversation: turns as the user sees them, without cache or passes

GraphResources        graph.rs: what the passes allocate and free by hand
Gguf                  gguf.rs: what a file parses to, where its data begins
    ^ EXTENDS both
Startup               main.rs, loader.rs: from the file to the last drop

BufferLayout          graph.rs, gguf.rs, mapper.rs: bytes laid out by hand
    ^ EXTENDS
Gguf, Prefetcher      (Prefetcher: mapper.rs, the owner's thread and the prefetch thread)

Tokenizer             tokenizer.rs: tables, encode step by step, decode_one
Sampler               logits.rs: the draws of one reply

MC*                   instances for TLC        *_proofs    TLAPS proofs
```

**ForwardPass.** `cache` is one row per cache index, standing for the K and V rows of all layers
(every pass writes them at the same index, from the same token and position); a row is its token
and its rotary position. `head` is `kv.head`, `decodeBuilt` is `d_built`. `Prefill(ids)` is
`forward` with position 0: it writes rows `head ..`, with positions from 0, and each query reads
rows `0 .. kv_len-1`, because no mask is given. `Decode(t)` reads the rows the mask lets through,
then copies its K/V to row `head`. The softmax of an all-equal mask masks nothing, so
`DecodeSpan` is all of `n_ctx` when the cache is empty. `PrefillFails` and `DecodeFails` are all
their error returns: none has written a row, because the capacity checks come before the
computation and ggml's CPU backend reports a failure before it runs a node. Either may be taken
at any time (allocations can fail), which includes the times the code is certain to fail. Three
history variables (`live`, `reads`, `basis`) record which rows belong to the conversation, what
the last pass read, and which tokens its logits were computed from. The step relation `FPNext` leaves out
`Decode` on an empty cache. That is the contract of the callers, and `UsesForwardPass` checks and
proves that they keep it.

**GraphResources.** The same calls seen from the allocator: `forward` and `build_decode_graph`
allocate `inp_buf`, `inp_ctx`, `ctx` and `galloc` in this order, and every early return frees a
list of its own (`FreedAt`, `Overflow`, `PlanFails`). An allocation returns any address that is
not live, also one just freed. `complete` says whether the model file has every tensor; if not,
the `?` behind the look-up returns and frees nothing. `built` and `graph` are `d_built` and the `d_*`
handles. It is a module of its own because it shares only `d_built` with `ForwardPass`.
`GraphSpec` has a graph that has been created; `Startup` creates one (`NewKVCache` settles
`complete` from the tensors the loader placed), runs `GraphCall` and drops it.

**Gguf.** A file is a record of its parts in the order they are read (magic, version, metadata,
tensor descriptors, size); a string is its length. `Parses` is `Ok` or `Err`, `HeaderEnd` the
position behind the last descriptor (an array without elements may declare any element type, since
no element is read), `Meta` the entry of a key that counts (the last), `U32Of` the
look-up that takes a number of another type for absent, `DataOffset` the padded position.

**Startup.** `stage` is the place in `main`, `load_model` and `MappedModel::load`; `owned` is what
the program has to give back; `placed` is `MappedModel.tensors`. Every `?` and `bail!` on the way is
an action, with what a failing load drops (its `FileMapper`) and what it forgets (buffer and
context, before the `process::exit(1)` that follows). `Replace` is another process that puts a new
file at the path while the program reads it twice and maps it; `FileCutShort` one that truncates the
mapped file, which ends the program at the next read of a lost page (SIGBUS). Addresses wrap at
`Word`, and so do sizes: `NBytes` is `ggml_nbytes` in a `size_t`, where the product of the first row
wraps before it is divided by the block, and `AllocFits` are the assertions of
`ggml_backend_tensor_alloc` (`ggml-backend.c:2048-2050`), whose sum wraps once more. A tensor that
fails them ends the program (`PlaceAsserts`); one whose size wraps may pass them and is placed.
A tensor of more than four dimensions would fail a plain `assert` (`ggml.c:3724`), but `build.rs:47`
compiles with `-DNDEBUG`: `ggml_new_tensor` then writes behind an array, so both a crash and a placed
tensor are outcomes. A panic is a `Crash` too; that its unwinding
would still run some drops is left out. An alignment or a head count of 0 is such a panic, a
division by zero.

**BufferLayout.** Operators only: the regions of the KV cache, of both input buffers and of the
windows of the mapping, as the code computes them.

**Tokenizer.** A tokenizer is its vocabulary (texts in bytes, and types) and its merge rules; the
tables of `from_gguf_parts` are operators on it. `encode` is a state machine: one `Match` or
`Fallback` per round of `initial_tokenise`, one `Merge` per round of `bpe_merge`. GPT-2's byte
encoding and its UTF-8 are modelled as they are, since properties are about them. `str::replace` is `Replaced`, byte by byte. `Fallback`
indexes the byte table by the *position* `orig_byte_at` returns, as the code does. The history
variables `ends` and `fell` say which piece of the text a token stands for.

**Sampler.** One action is one `sample_token`, followed by the loop's `recent_tokens.push`. Logits are integers; the exponential is a decreasing power of two that
underflows to zero, so probabilities are exact fractions, and wherever a rounded `f32` sum is compared the
model may also go the other way (`slack`, `Thresholds`). Equal logits may come in any order, as
both sorts are unstable. The random state is a set of bits, with the shifts of `xorshift64` at its
full width.

**Generation.** `pc` is the place in `run_generation_inner`; the other variables are its
arguments and locals. `ForwardPass` steps are conjoined to its own, so a failure of a call leaves
exactly what the calls before it did. `nextToken' \in Sampled` leaves the draw open. A failure of
stdout is `EmitError`. (`println!` at line 184 panics on a failed stdout and is left out.) Tokens
without text (`decode_one` returns `None`) are `Silent`. The module has no `Next`: drivers `Call`
it and take `GenStep`. `used` is the local of that name and tells later steps where the prompt
began.

**Chat.** `at` and `turnCount` are the place in `run_chat` and `session.turn_count`. The chat
template is its order of parts: BOS, the system turn, the user's header, the message, EOT, the
assistant's header, with each group of fixed tokens as one token. A blank line is a stutter. `Talk` is its refinement
mapping to `Conversation`: a turn is asked, answered token by token, and counted, or fails; the log
is the tokens in the cache.

**Oneshot.** `--prompt` and `--bench` are the two initial stages. `prompt` may be anything from
empty (a blank line, for which `generate` returns before its reset) to longer than `context_len`. The
reply of the regression run either contains "paris" or not, a free choice. The temperature of the
regression run is overridden, so the sampler may refuse the configuration of the speed runs after
it accepted the regression's: `RegressionPass` draws `samplingValid` anew.

**Prefetcher.** One action per step that another thread can come between: the store and the
notification of `advance` and of `shutdown` are separate, and so are the wake-up, the test of
`stop`, the load of `current_layer` and every `madvise`. A notification reaches a waiting thread
and is lost otherwise. The windows are those of `BufferLayout`, computed from the size of the file. `wanted` holds the windows last advised `MADV_WILLNEED`. `Close` is either
way out: dropping the mapper (one `shutdown`) or `shutdown()` followed by the drop (two).
`Advance` calls stand for any client: `Prefetcher::advance` is public, takes any `usize`, and no
code of the repository calls it yet. The thread's `cur + i` wraps at `Word`, as in a release build.

## 3. Runs that pass

| Run | Instance | What it shows |
|---|---|---|
| `forward_pass` | 2 tokens, 4 rows, prompts of 0 to 2 tokens | All orders of prefill, decode, failure and reset. `HeadCoversLive`, `NoStaleRead`, and the refinement `ImplementsContextLog`. |
| `chat` | 12 rows, messages of 1 and 2 tokens, at most 2 generated, window 1 | Conversations of any length. `ShownIsCached`, `PenaltyLooksBack`, `NeverOverrun`, `SystemPromptFirst`, the refinements `UsesForwardPass` and `HoldsConversation`, and `TurnEnds` under fairness. |
| `oneshot` | 6 rows, `context_len` 8, window 2, 2 speed runs | `AnswersItsPromptOnly`, `PositionsFollowRows`, `UsesForwardPass`, and `Terminates` under fairness. |
| `prefetcher` | 7 bytes in windows of 2, depth 2, numbers modulo 8 | `NoAdviseAfterUnmap`, `AdviceInsideMapping`, and under fairness `CloseCompletes` and `NextWindowPrefetched`. |
| `startup` | 21 files, 8 addresses, addresses and sizes modulo 4096, 3 rows | `NoBadFree`, `NothingLeaked`, `DecodeGraphAlive`, `DataBehindHeader`, `PassesReadTheMapping`, `NothingOutlivesItsBase`, `CleanExit`, `BuffersSound`. |
| `tokenizer` | 4 vocabularies, all texts of up to 3 bytes over 5 and some longer ones | `TokensCoverText`, `CompleteNeedsNoFallback`, `MergesAddNothing`, `PlainRoundTrip`, and `EncodeReturns` under fairness. |
| `sampler` | all logits of 3 tokens over 3 values, 3 calls, 3 seeds | `PenaltyNeverPromotes`, `KeptAreLikeliest`, `NucleusIsSmallest`, `NeverDrawsZero`, `RngNeverZero`. |

The type invariants of `Chat`, `Prefetcher` and `Tokenizer` are proved and not repeated in the runs.

What the properties say, beyond their comments in the modules:

* `ImplementsContextLog`: with the cache mapped to the tokens of its first `head` rows, every pass
  extends the log, logits come from all of it, a failure changes nothing.
* `ShownIsCached`: while a reply is generated, the screen, the sampler and the cache tell the same
  story, apart from the one token that is shown just before it is decoded.
* `HoldsConversation` and `SystemPromptFirst` relate the session to the cache over any sequence of
  complete, refused and failed turns and resets: the cache holds what was said, whole messages only,
  replies without an end token and no longer than allowed, and a turn counts when it is complete.
  This is the code's own conversation; where a comment and the repository's README promise another
  one (the end token cached, old turns dropped), the runs `chat_end_token` and `chat_full_context` of
  section 6 refute them.
* `AnswersItsPromptOnly`: whatever failed before, the logits of a call depend on its own prompt and
  reply. It is the resets of the drivers, seen from the result.
* `NoBadFree`, `NothingLeaked`, `DecodeGraphAlive`: the hand-written lists agree with what is
  allocated at their place.
* `PassesReadTheMapping`: whenever a pass runs, every tensor it can look up begins in the mapping, also
  when its offset has wrapped, or was read from one file and another one was mapped; and it ends there
  unless its size wraps in ggml's arithmetic (`SizeFits`). The exception is what the code does: the
  run places two such tensors.
* `NothingOutlivesItsBase` and `CleanExit`: the drops of three files, in the order the language gives
  them, leave nothing standing on air and nothing behind. (One thing does outlive: the buffer of the
  KV cache is freed after its backend, `graph.rs:761-774` and 185. For ggml's CPU backend this is
  harmless, so it is not part of the property.)
* `MergesAddNothing`: behind a longest match no merge rule applies any more, so `bpe_merge` never changes
  anything unless a token is longer than 64 bytes or a fallback came in between.
* `CompleteNeedsNoFallback`: longest matches never end inside a two-byte character, for any
  vocabulary that has its characters.
* `PlainRoundTrip` leaves out texts that spell a token which is not shown: `encode` makes the control
  token itself of the text `<|eot_id|>`, and `decode_one` shows nothing for it.
* `NeverDrawsZero`: neither rounding nor underflow gets a token of probability zero drawn.
* `NextWindowPrefetched`: a lost notification only delays the prefetch, thanks to the time-out.

**Bounds.** The chat instance has 12 rows because a first turn (6 or 7 rows), its reply (2) and a
follow-up (4 or 5) overfill it: both capacity outcomes, the `head >= n_ctx` stop and replies cut
by each of the three guards occur. Conversations are not bounded in length; the cache bounds the
state. `Window` = 1 (chat) and 2 (oneshot) stand for 64: a reply of 2 or 3 tokens exceeds it.
In `oneshot` the context length exceeds the cache, as in the program (4096 and 512), so that a prompt can
pass `generate`'s check and fail the loop's; one prompt fails both. Two speed runs stand for three: one
failure followed by one more run is the case that matters. Eight addresses are what a decode graph
and a prefill need together; a model with missing tensors leaks until they are used up. The
allocator of the instance hands out the lowest free address (`LowestFree`, an action constraint):
nothing asks more of an address than whether it is equal to another, and an address just freed is
still handed out again. The twenty-one files are five good ones (versions 3 and 1, two alignments
given, an alignment of another type, an empty array of arrays; each with a tensor of blocks and three
of single elements) and one for each way to be bad: alignment 0; a tensor missing, of unknown type, of
five dimensions, wrapping below, behind or across the end of the mapping, with a size that wraps to 0
or with a product that wraps on the way; cut short, empty, no magic number, an array with an array in
it, no heads, and two vocabularies that do not fit; `Replace` makes any pair
of them follow on one another. In the prefetcher 4 windows, the last
one shorter, with depth 2 allow a full look-ahead, one cut by the end of the file, and none; modulo 8
a client's layer may lie behind the last window, and its sums wrap back to the first. In the tokenizer a
match is at most 3 bytes (64) and the table has 5 entries (256), so that a token longer than the
match and an index behind the table both occur; the vocabularies have doubled tokens, doubled rules, a rule
whose result is no token, missing characters and byte tokens. In the sampler three tokens of which
two are kept give every outcome of the partial sort; 4 and -2 are far enough apart to underflow
at `Underflow` = 5 once heated; one of the seeds draws a threshold of 1. Sampled tokens are a word, a
silent token and the end of the turn. No symmetry is used.

**Fairness.** `Chat`: `WF_vars(Turn)`, as a submitted turn runs on the only thread and waits for
nobody; the user owes nothing. `Oneshot`: `WF_vars(Work)`, as the program waits for no input.
`Prefetcher`: `WF` of each thread's own steps. The operating system schedules both, and
`wait_timeout` ends after 100 ms. `Tokenizer`: `WF_vars(Encode)`, a call that waits for nobody. The calls of the client get no fairness. A call into ggml is
assumed to return.

Deadlock is checked in every run; `Exited` and `Gone` let a program that has ended stutter.

## 4. What is proved

TLAPS proves the following for every value of the constants, from these assumptions:

* `NoToken` is not a token; `NCtx`, `Window`, `TotalSize`, `LAYER_SIZE_BYTES` and `PREFETCH_DEPTH` are
  positive; prompts are sequences of tokens, sampled tokens are tokens, the template's tokens are
  tokens and its two forms are among the prompts; `Null` is not an address.
* `WordAssumption` of `Prefetcher`: a `usize` can count the bytes of the file. `AddressAssumption` of
  `Startup`: the mapping begins at an address.
* `FilesAssumption`: a file consists of parts of the right kinds (`IsFile`), well-formed or not. Its
  counts and lengths are naturals, and a block of a type has an element at least.
* `TokenizersAssumption`: a vocabulary is not empty and its texts are byte strings. A text longer than
  one byte does not end with the first byte of a longer character, because it comes from a `String`
  (`gguf.rs:218`); single bytes, which `<0xNN>` gives, are free. A match may have two bytes
  (`MaxMatch`, 64 in the code).
* `SamplerAssumption`: logits are finite sequences of integers, `top_k`, the penalty and the window
  are at least 1, seeds are not 0.

TLC evaluates all of them on its instances.

| Theorem | Establishes |
|---|---|
| `ForwardPassTypes`, `HeadCoversLiveHolds`, `NoStaleReadHolds` | the invariants of `ForwardPass` |
| `ForwardPassImplementsContextLog` | `FPSpec` implements `Log!CLSpec` |
| `ChatTypes`, `ChatNeverOverruns`, `ChatSystemPromptFirst`, `ChatShownIsCached`, `ChatPenaltyLooksBack` | the invariants of `Chat` |
| `ChatUsesForwardPass`, `ChatImplementsContextLog` | `Chat!Spec` implements `FPSpec`, and so the abstract log |
| `ChatHoldsConversation` | `Chat!Spec` implements `Conversation` |
| `OneshotTypes`, `OneshotNeverOverruns`, `OneshotShownIsCached`, `OneshotPositionsFollowRows`, `OneshotAnswersItsPromptOnly` | the invariants of `Oneshot` |
| `OneshotUsesForwardPass`, `OneshotImplementsContextLog` | the same refinements for the other two drivers |
| `StartupTypes`, `StartupNoBadFree`, `StartupNothingLeaked`, `StartupDecodeGraphAlive` | the hand-made allocations, in a run of the whole program, for any set of addresses |
| `StartupDataBehindHeader`, `StartupPassesReadTheMapping`, `StartupNothingOutlivesItsBase`, `StartupCleanExit`, `StartupBuffersSound` | loading and leaving, for every set of files |
| `PrefetcherTypes`, `NoAdviseAfterUnmapHolds`, `AdviceInsideMappingHolds` | the safety of the two threads, for every size of file and window |
| `KVCellsSoundHolds`, `InputsSoundHolds`, `DecodeInputsSoundHolds` | the buffers laid out by hand, for every geometry |
| `RoundUpLeast`, `WindowSoundHolds` | the padding of the header, the windows of the file |
| `TokenizerTypes`, `TokensCoverTextHolds`, `MergesAddNothingHolds`, `CompleteNeedsNoFallbackHolds`, `PlainRoundTripHolds` | the safety of `encode` and `decode_one`, for every vocabulary, merge table and text |
| `SamplerTypes`, `SamplerPenaltyNeverPromotes`, `SamplerKeptAreLikeliest`, `SamplerNucleusIsSmallest`, `SamplerNeverDrawsZero`, `RngNeverZeroHolds` | the draws of a reply of any length, for all logits and configurations |
| `EncodeAdvancesHolds`, `ChatTurnAdvances`, `OneshotAdvances`, `CloseAdvancesHolds` | how many steps an `encode`, a turn, a driver and a shutdown can take at most |

*ForwardPass* (in `Generation_proofs`). The inductive invariant `FPInv` is the type invariant,
`HeadCoversLive`, `NoStaleRead` and `RowsHoldTokens` (rows below the head hold tokens, never the
initial zeros). `NoStaleRead` is not inductive alone: that a pass reads only live rows follows from
`live = 0 .. head-1` before it. The refinement needs `RowsHoldTokens` to know that the log is a
sequence over `Token`; `TokensExtend` is the lemma that a write at `head` leaves the log below.

*Generation.* `CallInv` says what each program point relies on: the capacity check still holds at
the prefill, and behind a prefill the cache is not empty. `LoopInv` adds what ties screen, penalty
window and cache together: `head` is the history, the prompt and the tokens generated, and the
logits are those of exactly these rows. `ShownIsCached` and `PenaltyLooksBack` are inductive with it.
What they need of the data are two lemmas: `PrintableAppend` (filtering an appended sequence
appends, or does not) and `LookBackAppend` (the window of an appended reply is the old window,
shifted). All of this holds under every driver; `GenStepKeepsInv`, `GenStepKeepsLoop` and
`GenStepUsesForwardPass` are the lemmas a driver's proof cites.

*Chat.* `ConversationInv` relates driver and loop: a prompt about to go into an empty cache is a
first turn's. It also needs `head # 1`: a template is written as a whole, so the cache never holds
BOS without the system turn. `ChatInv` is the conjunction of all the parts. For `HoldsConversation`
the steps of the loop map to the abstract turn's: the prefill asks, each decode says one token,
what ends the loop decides whether the turn counts; everything else stutters.

*Oneshot.* `DriverInv`: a call begins on an empty cache. Positions then follow rows, since prefill
counts from 0 and so does the cache, and the history of a call is empty.

*Startup.* `GraphInv` is that of the allocations: `LocalsLive` says which locals are allocated at
each place (`HeldAt`), that they are distinct and none of the decode graph's; `ReleaseKeepsInv` then
covers every early return that frees exactly `HeldAt(pc)`. `BuildOnlyOnce` is needed so that a build
does not overwrite handles. `StartInv` adds what the program owns at each stage (`OwnedByStage`),
that passes run between start-up and drop only (`PassesWhenReady`), that the loader goes on with a
file it could parse (`ModelParsed`), and what is known of each tensor that was placed
(`TensorsMapped`): it begins in the mapping and, if its size fits the word (`SizeFits`), ends there.
`AllocFitsMeansMapped` derives this from ggml's assertions: where neither the product of the first
row nor the end of the tensor reaches `Word`, no operation of `NBytes` or of the assertion wraps
(`NoWrap`), so that the sum compared is the true end. `BytesNat` is that the true size is not
negative, though rows are counted less one; `WholeBlocks`, on which it rests, that the blocks of a
row are no longer than the row.
That the header has an end is an induction over its parts (`BehindStart`, `HeaderEndNat`); the rest of
`DataBehindHeader` is `RoundUpLeast`, and `BuffersSound` is the theorems of `BufferLayout`.

*BufferLayout.* Row `r` of tensor `t` is slot `t * rows + r` of equal slots; two lemmas on products
carry slots to bytes, and everything else is linear arithmetic.

*Tokenizer.* `TokensCoverText` needs only the types. `MergesAddNothing` is not inductive: the
invariant adds `NothingLonger`, that behind each token already cut no longer vocabulary entry
matches the text. If a rule could join two neighbours, their joined text would be such an entry, at
the place of the first. For `CompleteNeedsNoFallback`, `EncodedMadeOf` shows by induction along the text
that its encoding is made of one-byte and two-byte characters and what may follow what; `CutInv` is
that the cut stands between two of them. A longest match keeps it there: it is at least as long as the
character's own token, and longer ones do not end with a first byte. For `PlainRoundTrip` the same
observation is needed of each token that was cut (`EndsWhole`): none ends with the first byte of a
two-byte character. Replacing in each token is then replacing in the whole text (`ShownConcat`, along
the tokens in `StreamedIsShown`), the whole text is the encoded input (`TextIsBytes`, from
`TokensCoverText`), and `ShownEncoded` undoes the encoding, by induction along the text. Below these lie
lemmas on `FlattenSeq` and on what `Replaced` makes of one byte and of its neighbours.

*Sampler.* `SamplerInv` needs of earlier calls only that the recent tokens are ids of the vocabulary.
The rest are lemmas on one call, each an induction along a sequence: the penalty lowers used tokens
and leaves fresh ones (`PenalisedFalls`), division by the temperature keeps order (`DivMonotone`), a
sorted sequence descends between any two places (`SortedDown`), the sums grow by the weights
(`MassSteps`), and the top token has weight, so a sum that reaches a threshold the one before did
not reach ends in a token that has some (`DrawnHasWeight`). For `RngNeverZero`, `x ^ (x << n)` keeps the lowest bit of `x`,
and `x ^ (x >> n)` its highest, so none of the three assignments of `xorshift64` can make 0 of a
word that is not.

*Prefetcher.* `JoinBeforeUnmap`: a handle is given up only for a thread that has exited, the
mapping goes only after the handle, and a shutdown in progress is counted, so that a second call
that finds no handle is still known to come after the first one's join.

*Measures.* For each bounded piece of work a natural number is stated that falls with every step:
`Left` for `encode` (bytes to cut, then tokens to merge; at most `2 * Len(bytes) + 2`), `TurnLeft` for
a turn (`3 * MaxNew + 6`), `WorkLeft` for `--prompt` (`3 * MaxNew + 7`) and `--bench`
(`Rounds(SPEED_RUNS) + 3 * RegressionNew + 8`, where a round is `3 * SpeedNew + 8` steps), and
`CloseLeft` for a shutdown, over the steps of both threads (`PREFETCH_DEPTH + 11`, once `stop` is set).
The middle two rest on `CallLeft`, the steps left of a call of the loop, three for each token still
allowed; `GenStepLeaves` shows that every step of the loop lowers it, failures included. `CloseLeft`
needs `ClosingInv`: behind the store to `stop` the owner is closing and makes no other call. So none of
these can loop, and what is left of `EncodeReturns`, `TurnEnds`, `Terminates` and `CloseCompletes` is
that a step can be and is taken. `NextWindowPrefetched` has no measure: the client may go on calling
`advance`.

*Induction.* The library's induction theorems take an operator as a parameter, which the installed
provers cannot instantiate. `SetInduction` states induction for a set of naturals instead, and is
proved from the well-foundedness of `<`; a recursive function is then shown to exist, and its
values to have the property, by induction on the set of the arguments for which this is so.

**Only model-checked.** Liveness (`TurnEnds`, `Terminates`, `CloseCompletes`,
`NextWindowPrefetched`, `EncodeReturns`) is beyond TLAPS here: the installed prover cannot reason
about fairness and `ENABLED`. The measures above are the part of the first three and of `EncodeReturns`
that needs neither. Every other property of the passing runs is a theorem.

## 5. Modelled by abstraction, or not at all

* The values of logits and of K/V rows; `basis` and `reads` stand for what they depend on.
* The content of a failed write to stdout: the turn ends either way.
* Undefined behaviour of ggml (out-of-memory in `ggml_init`); `ggml_new_tensor` does not return null
  in a context with room for every descriptor.
* `f32` beyond rounding and underflow: NaN, which passes every comparison of `validate`, and an
  overflow of `1.0 / temperature` at a tiny temperature.
* `decode` of `tokenizer.rs`, called by its own test only: it changes no state.
* `rms_norm_inplace` and `project_to_logits` of `logits.rs`: numeric, and called by their own tests only.
* Errors of `madvise` (logged, nothing else); the drops a panic still runs while it unwinds.
* Strings of a file that are not UTF-8 (an `Err` like the others), and memory exhausted by counts
  read from a file.
* Tensors with a dimension of 2^63 or more, which ggml takes for negative, and what a tensor of more
  than eight dimensions overwrites behind its own sizes and strides.
* A truncated file while it is loaded: the loader maps the file without reading its pages.
* `ggml_ffi.rs`, `build.rs`, `parse_args` and `print_help`, and `vendor/llama.cpp` apart from `ggml_nbytes` and the
  assertions of `ggml_backend_tensor_alloc`: no control of their own, or third-party.

## 6. Where the code and its documentation differ

Each of these runs checks one statement of a document or comment and TLC refutes it.

| Run | The document says | The code does |
|---|---|---|
| `chat_positions` | turns are appended "starting at the current kv.head" (`generate.rs:5-7`) | `prefill` passes position 0 (`graph.rs:749`): the rotary positions of every follow-up start again at 0 |
| `causal_attention` | "with a causal mask" (`README.md:25`) | `soft_max_ext` gets a null mask (`graph.rs:653`): in a prefill of two tokens the first reads the row of the second |
| `chat_system_prompt` | "The first turn includes BOS + system prompt; follow-ups are just the user message" (`generate.rs:255-257`) | after a failed first turn the next message brings a second BOS and system prompt |
| `chat_end_token` | the cache "already holds everything before this point (including the model's previous EOT from its last reply)" (`generate.rs:322-325`) | the loop ends when the end token is drawn and never decodes it (`generate.rs:187`): the row before a follow-up is the last word of the reply, or its header |
| `chat_full_context` | "when context fills, drops oldest turns and re-prefills from the system prompt, seamlessly" (`README.md:27`) | the message is refused and the cache stays full (`generate.rs:156`) until `/reset` |

Visible in the models, without a run of their own:

* After an error `generate` keeps the rows of the call, although it "Resets the KV cache before AND
  after" (`generate.rs:220`, `GenerateError`).
* A notification sent while the prefetch thread works is lost (`mapper.rs:247`, `Notify`), so that it
  does not always "wake immediately" (`mapper.rs:190-191`). It also loads the layer once per round and may
  advise windows that are no longer "ahead of the current window" (`mapper.rs:189`, `LoadCurrent`).
* The `?` behind a missing tensor frees nothing of what the pass has allocated (`graph.rs:305`,
  `393`, `575`, `599`, `673` ..., `TensorMissing`), where `README.md:61` speaks of a "single-point
  teardown".
* "Uses GPT-2/tiktoken-style BPE", "each UTF-8 char → token id(s)" (`tokenizer.rs:159`, `164`): the
  longest match decides (`tokenizer.rs:231`, `Match`), and no merge rule applies behind it
  (`MergesAddNothing`), so a text may get other tokens than the merges make of its characters.
* "Byte fallback: use the original input byte" (`tokenizer.rs:241`): the table is indexed by the
  byte's position (`Fallback`), and the index leaves the table from position 256 on (`FallbackPanics`).
* "should never reach here" (`logits.rs:250`): rounding can lead there (`Drawn`), and the token
  returned is a good one.
* The repeat penalty counts every occurrence of a token (`logits.rs:160`, `Penalised`).
* In a GGUF file of version 1 the length of a string is read with 64 bits although counts have 32
  (`gguf.rs:215`, `StringBytes`).

Seen while reading and not modelled: `activate_layer` does not "advance the prefetch pointer"
(`mapper.rs:288`); `decode`, which only its own test calls, leaves GPT-2's encoding in (a newline comes
back as U+010A, a space as U+0120, `tokenizer.rs:193`) where `tokenizer.rs:9` says "id sequence back to
UTF-8 text"; the decode graph is persistent and copies through host memory where
`README.md:24-26` says neither; a decoded token does not attend to itself (the mask covers rows
below `head`); `decode_one` maps back space and newline only, so the two bytes of U+00E9 are shown
as two characters; `extract_u32_array` (`main.rs:195`) drops token types that are I32 in the file;
`n_vocab` is 0 without `llama.vocab_size` (`graph.rs:88`), which ends in `EmptyLogits`.

## 7. Plan

1. Done: the modules of section 2, their runs, and the proofs of section 4. Every component with
   control of its own is modelled, every invariant and refinement of the passing runs is a theorem,
   and the work that must end has a proved bound.
2. Open: the liveness properties themselves, for a prover that handles fairness and `ENABLED`; with
   the measures each is an induction over a bounded number.
3. When `main` starts the prefetch thread: compose `Prefetcher` with `Startup`, so that the order of
   drops covers the thread.
