# Verification of CFR-Atlas

CFR-Atlas (the Rust workspace next to this directory) computes exact causal
attention while keeping only a bounded part of the K/V history resident: cold
K/V pages are regenerated on demand by the embedding runtime, folded into an
online-softmax reducer, and possibly admitted to a bounded hot cache.  This
directory holds TLA+ models of it, the TLC configurations that check them, and
TLAPS proofs about them.  Every definition is translated from the Rust source;
`PROJECT.json` ("map") names the lines each one stands for.

## Inventory

| component | code | state | operations | what is hard | what makes it correct |
|---|---|---|---|---|---|
| `HotCache` | `src/cache.rs` | resident pages, running byte counters (global and per layer), per-layer budgets, a u64 use clock | `insert`, `get`, `remove`, `clear`, `set_layer_budget`, `clear_layer_budget` | counters kept by saturating arithmetic in five places and read by the loops that call them; checked additions after pages were already evicted; the clock wraps | accounting exact, budgets kept, LRU order kept, eviction counts exact |
| `CfrAtlas` page loop | `src/atlas.rs`, `src/execution.rs`, `src/scratch.rs`, `src/stats.rs` | cache, scratch buffers, reducer, counters | `attend_exact(_with_policy)`, `insert_hot_page`, budgets, `reset_counters`, `hot_cache_mut` | stale partial pages, eight return paths, a regenerator that panics, state left by failed calls | output independent of residency, counters balance, scratch wiped |
| Residency policies | `src/policy.rs` | none | `decide`, `decide_with_context` | boundary comparisons, integer ratios | never affects the output; admits what it documents |
| `ThreadPoolExecutor` | `src/executor.rs` | batches, worker threads, first error | `run` | threads end in any order, errors and panics with siblings still running | same result as running the jobs one by one |
| `FoldedAttention` | `src/attention.rs` | running maximum, denominator, accumulator, logits buffer | `reset`, `consume_page`, `finish_into` | rescaling at every new maximum; a page that fails half way; a logits buffer longer than the page | equals the two-pass softmax; transactional |
| `DoubleBufferedPipeline` | `src/pipeline.rs` | two page buffers, next slot | `regenerate_next` | a regeneration that fails or panics while the other page is in use | the other slot is untouched; a slot holds exactly its page |
| Page conformance | `src/conformance.rs`, `src/scratch.rs`, `src/regenerator.rs` | regenerated page, scratch matrices, report | `compare_regenerated_page`, `outputs`, `page`, `wipe` | the check gives an adapter zeroed buffers, the atlas gives it dirty ones; values that are not finite | a report that passes is true, and stays true of the pages that are used |
| Decode validation | `src/validation.rs` | plan cursor, temporary K/V, output and logit buffers, report | `validate_decode_step`, `validate_decode_loop` | sixteen early returns with up to five live buffers to wipe; one step called in the loop or alone | nothing left behind; Ok only when every step agreed, with the numbers measured |
| `AttentionTopology` | `src/topology.rs` | none | `mha/mqa/gqa`, `map_query_head` | divisibility, boundaries | groups partition the query heads |
| `PageSizeTuner` | `src/tuning.rs` | candidate list, selected candidate | `tune` | doubling loop with three ends, clamped targets | the largest candidate that fits, else the smallest that fits scratch |
| Ollama client | `crates/cfr-atlas-ollama` | HTTP exchange, chunk decoder, the list's summary during `show_model` | `show_model`, `list_models`, `generate`, `embed`, transport | two requests make one record while models are replaced; chunk framing; unreachable addresses; silent servers | a body is complete or refused; a record was true during the call; a call returns |
| `TokenLedger`, reference backend | `src/token.rs`, `crates/cfr-atlas-backend-ref` | ledger records, output slices, two matrices of a comparison | `push`, `push_with_position`, `regenerate_page`, `conformance_report` | a row that fails half way, position overflow | replay is deterministic, all-or-nothing |
| Positions and dtypes | `src/position.rs`, `src/dtype.rs` | none | `apply_key`, `alibi_bias`, rounding | a pair rotated in place, differences of unsigned positions, ties, subnormals | a key turns by its position alone; rounding is to nearest even |
| Kernels, layout helpers | `src/kernel.rs`, `src/layout.rs` | none | dot products, checked shapes and row ranges | remainders of the eight lanes, products past `usize` | every element counts once |
| Benchmarks, memory estimate | `bench/*.rs`, `examples/bench_cfr.rs`, `src/bench.rs` | one atlas, timings | warm-up, measured runs, summary, estimate | counters divided by runs, a warm-up that counts | what is printed is what happened |
| `VersionedConfig`, `Config` | `src/schema.rs`, `src/config.rs` | parsed fields | `encode`, `decode`, `validate` | duplicates, unknown fields, versions | decode inverts encode; only complete, valid configurations pass |
| stabilization report, errors, exports, toy example | `src/stabilization.rs`, `src/error.rs`, `src/lib.rs`, `examples/toy_cpu.rs` | none | tables and types | none | see "Not modelled" |

How they interact: `CfrAtlas` owns a `HotCache`, `ScratchBuffers`, a
`FoldedAttention` and counters, all behind `&mut self`; it calls the
regenerator and the policy of the embedding runtime.  The executor and the
pipeline are used by runtimes around it.  The validation loop drives an atlas
next to a full-K/V baseline.  One adapter of the runtime (`KvRegenerator`) serves
the conformance check, the pipeline and the atlas.  The only threads are the executor's.

## Modules

| module | models | state and actions against the code |
|---|---|---|
| `LruCache` | what a hot cache promises | a cache is a map of pages, the order of their last use (a relation) and budgets; `Inserted` says in one step what an insert displaces |
| `HotCache` | `src/cache.rs` | the fields of `HotCache` under their names; a call is a frame (`call`), and every turn of an eviction loop is a step, so that counters are seen in the middle of a call |
| `HotCacheRefinement` | `HotCache` implements `LruCache` | a page is older than another when its `last_touch` is; during a call it is what the call found, and the last step of the call is the abstract step |
| `ResidencyPolicy`, `CfrAtlas` | `src/policy.rs`; `src/atlas.rs`, `src/execution.rs`, `src/scratch.rs`, `src/stats.rs` | `attend` runs page by page, each page being a hit, a stale page or a regeneration, and each return path an action; the cache is `LruCache`'s, which `HotCacheRefinement` justifies; rows are named by the token they belong to |
| `SequentialMap`, `ThreadPoolExecutor` | `src/executor.rs` | jobs are taken in batches, every worker thread ends by itself with a value, an error or a panic, and is joined in order; `SequentialMap` is the meaning: the jobs one by one |
| `FoldedAttention` | `src/attention.rs` | a page is consumed row by row; exp is exact on a small range of logits (a power of two) |
| `DoubleBufferedPipeline` | `src/pipeline.rs`, `src/regenerator.rs` | a page is regenerated cell by cell by an adapter of any kind and swapped in |
| `AdapterGate` | `src/conformance.rs`, the use of `src/scratch.rs` by `src/execution.rs` | composes the pipeline, the conformance check and the cold pages of the atlas over one adapter; a value is named by its cell and how far it is off |
| `PureFunctions`, `MachineInts` | callers of the functions without state | one action for a call of each function, and what callers do with results: rounding a stored row again, storing and editing a text; `MachineInts` is the width of `usize` |
| `PageSizeTuner` | `src/tuning.rs` | `Turn` is one turn of the loop, `Tuned` folds it until it returns |
| `AttentionTopology` | `src/topology.rs` | operators |
| `StorageRounding` | `src/dtype.rs` | operators; bits of a float as a number; formats as constants |
| `PositionEncoding` | `src/position.rs` | operators over exact numbers: multiples of an angle whose cosine and sine are fractions (those of the triangle `Cosine`, `Sine`, `Radius`), and rows in a unit small enough for them; `Rates` says how fast each pair turns |
| `Layout` | `src/layout.rs`, `src/kernel.rs`, the adapters of the benchmarks | operators: which offsets are written from which token and dimension, which products are added |
| `Benchmark` | `bench/bench_cfr.rs`, `bench/bench_transformers_cfr.rs`, `examples/bench_cfr.rs`, `src/bench.rs` | operators: a call of the atlas as a fold of its pages over `LruCache`, runs as a fold of calls |
| `PromptCorpus`, `DecodeValidation` | `src/validation.rs` | prompts as operators; one step between any two return points; `live` holds the buffers with data in them; a step runs in the loop or alone |
| `TokenLedger`, `ReferenceBackend` | `src/token.rs`, `crates/cfr-atlas-backend-ref` | a page is generated row by row from the ledger the backend was created with, for a caller or twice for a comparison |
| `ConfigSchema` | `src/config.rs`, `src/schema.rs` | operators: build, validate, encode, and decode as a fold of its lines |
| `HttpBody` | `crates/cfr-atlas-ollama`, reception | one exchange: the server sends a body plain or chunk by chunk, each with its size in digits of base `Radix`, until it is whole or the connection breaks; then the client takes the chunks apart |
| `OllamaClient` | `crates/cfr-atlas-ollama`, the client | extends `HttpBody`: a call is one exchange, `show_model` two; the server replaces models in between; a model is told by its version |

`MC*` modules give constants to TLC.  Operators that a comment calls a mutant
are the definitions that `PROJECT.json` ("mutants") puts in the place of
another one to see that a property notices.

Abstractions that hold throughout: one K and one V row of `head_dim` 1 are the
unit of bytes (8 bytes); counters that saturate at `u64::MAX` are not bounded;
the clock of the cache wraps at `ClockMax`, which stands for `u64::MAX`;
`UsizeMax` stands for `usize::MAX` wherever arithmetic is checked.  `HotCache`,
`CfrAtlas`, reducer and pipeline sit behind `&mut self`: calls on one object do
not interleave.  The client may do anything between calls, `hot_cache_mut()`
included.  A panic of the regenerator unwinds a call and leaves the object to
later calls.


## Checks

Run from this directory: `tlc -workers 2 -config <cfg> <module>`.

| run | module | properties | shows |
|---|---|---|---|
| `HotCache.cfg` | `MCHotCache` | `TypeOK`, `AccountingExact`, `BudgetsHold`, `CommitFits`, `EvictedCountExact`, `LayerIsolation`, `RecencyKept`, `ImplementsLru`, `CallReturns` | Three keys in two layers under every sequence of calls: running byte counters, budgets, the late additions of an insert, the use clock across its wrap, the eviction count and the isolation of layers; the clock-and-loop cache implements the abstract LRU cache with budgets, and every call returns. |
| `CfrAtlas.cfg` | `MCCfrAtlas` | `OutputExact`, `CountersTrue`, `FailsForCause`, `AttendReturns` | Three client calls of any kind over two streams in two layers: the page loop is exact whatever is resident, its counters balance, nothing left behind makes it fail, and it ends. |
| `CfrAtlasEdges.cfg` | `MCCfrAtlas` | `CountersTrue`, `ScratchWiped` | The counters at the edges, and no path leaves K/V in scratch: page ends and admissions overflow usize, the shipped policies decide, and the client puts in rows of another width. |
| `CfrAtlasShape.cfg` (violated) | `MCCfrAtlas` | `HotPageShapeChecked` | A resident page with the right token count and rows of another width is not regenerated: attend fails on it. |
| `ThreadPool.cfg` | `ThreadPoolExecutor` | `WorkersBounded`, `NoWorkerLeft`, `FailureStopsBatches`, `ImplementsMap`, `RunEnds` | Seven jobs on three threads, every way and order in which they end: the run returns what running them one by one would, leaves no thread behind and ends. |
| `FoldedAttention.cfg` | `MCFoldedAttention` | `FoldIsSoftmax`, `OutputIsSoftmax` | Pages of every logit and value in any order, refused and half-read pages among them: the running maximum, denominator and accumulator are those of the whole softmax, and the output is that of the direct formula. |
| `AdapterGate.cfg` | `AdapterGate` | `SlotsHoldLastPages`, `VerdictIsTrue`, `GateHolds` | An adapter of any kind behind the pipeline, the conformance check and the atlas: the slots hold the last two pages, a verdict is true, and with wiping it carries over to scratch that is reused. |
| `PureFunctions.cfg` | `MCPureFunctions` | `RoundedToNearestEven`, `SelectionIsBest`, `MappingsSound`, `DecodingIsFaithful`, `PositionsEncoded`, `EachElementOnce`, `BenchmarksAreTrue` | The functions without state over all inputs of small formats and bounds: rounding is to nearest even, tuning ends with the best page size, head groups are what mappings say, only whole, unambiguous and valid configuration texts are accepted, keys turn by their position alone, every element counts once, and the benchmarks print what happened. |
| `DecodeValidation.cfg` | `MCDecodeValidation` | `PassedIsWhole`, `NothingLeft` | Plans of several steps, layers and heads, and steps called alone, with every failure at every point: a report that passes covers the whole plan and says what was measured, and no buffer keeps data. |
| `ReferenceBackend.cfg` | `ReferenceBackend` | `AllOrNothing`, `PagesAgree` | A growing ledger, a backend that is created anew, every request for pages and comparisons of two regenerations: positions stay ordered, a page is written whole or wiped, and pages agree on the tokens they share. |
| `OllamaClient.cfg` | `OllamaClient` | `RefusedForCause`, `RecordWasTrue`, `ReplyIsWhole`, `CallReturns` | Every call against a server whose models change, and every body cut into chunks in every way and lost from any byte on: an answer is whole or refused, for cause, a record was true during the call, and every call returns. |
| `HttpBodySplit.cfg` (violated) | `HttpBody` | `IntactIsDecoded` | A chunk boundary inside a character makes the client refuse an intact response. |

The runs marked as violated check one statement each that the repository makes
of the program and that the code does not keep; `PROJECT.json` ("findings")
quotes it.

### Bounds, and why they are enough

* `HotCache`: three keys in two layers, pages of one and two units with two
  contents (and empty ones, which are refused) against a budget of three, layer
  budgets of one and two, and a clock that wraps after a few calls.  Every order
  of three pages by use, every eviction of up to two pages, replacement by the
  same and by other contents, both loops in one insert, an insert that the
  preflight refuses, and the renumbering of the clock all happen.
* `CfrAtlas*`: pages of two tokens, contexts of three and four, two streams:
  a partial page, a full page, a stale page met by a longer context and the
  reverse.  Three client requests are needed for the deepest history: fill,
  fail or change, read.  `CfrAtlasEdges` moves `UsizeMax` down until page ends
  and admissions overflow.
* `ThreadPool`: seven jobs on three threads: two full batches and a short one.
* `FoldedAttention`: three rows in pages of one or two; the maximum rises, stays or falls
  within and between pages.  The logits can overflow only `f32`, at the end.
* `AdapterGate`: pages of up to two rows and two columns for two keys, which grow
  and shrink; `OneFault`: one of the two matrices is written wrong, the other right,
  so that each is seen to be looked at.  `Piped`: the pipeline is not interleaved
  with check and atlas, with which it shares no state.
* `PureFunctions`: all 1024 values of a small float format for each policy (the
  definitions are those of the code with its constants named, so each boundary,
  subnormals, ties, carries and infinity, is there); a ten-bit `usize` with
  tuning inputs zero, equal, crossed and maximal; all topologies of up to twelve
  heads; two edits of a text, which is what changing, moving or doubling a line
  takes, at every place in it.
* `PureFunctions`, other calls: row lengths to 20, on both sides of eight and
  sixteen; matrices of up to four tokens and three dimensions; two pairs of which one turns
  twice as fast, and up to four turns by the angle of the 3-4-5 triangle, of rows of
  multiples of 5^4 (a third pair would only turn at another rate);
  benchmarks of up to nine tokens with caches of no page up to all of them.
* `DecodeValidation`: up to four samples, grouped and multi-query heads, and steps
  called alone with every field wrong in turn.
* `ReferenceBackend`: three records, positions up to the last one; the slices of a
  request have the length of its page or none, a key the start of its page or zero.
* `OllamaClient`: bodies of up to two bytes (digits, line ends, the halves of a
  two-byte character) and the closing brace of their JSON text, three bytes and a
  brace in `HttpBodySplit`; the body of a failure is the brace alone.  Sizes are written
  in base two (`Radix`), so that chunks this small have sizes of one and of two digits.  Two versions
  of a model and its absence: a change between the two requests of `show_model`, and
  one back.  The server chooses its reply when it has the request.  Two addresses.


## Fairness

* `HotCache!FairSpec`: weak fairness of the steps of a call in progress. A call
  runs on its caller's thread behind `&mut self` and waits for nothing.
* `CfrAtlas!FairSpec`: weak fairness of the steps of `attend`. It also assumes
  that the regenerator returns or panics, which its contract asks of it.
* `ThreadPoolExecutor!FairSpec`: weak fairness of `run` and of every worker
  thread: the operating system schedules every thread, and every job ends.
* `OllamaClient!Spec`: weak fairness of the steps of a call, the server's answer
  among them: connecting, writing and reading each have the transport's timeout,
  so a server that stays silent is a read that fails. The changes of the server
  and the beginning of a call are not fair.  (A server that sends one byte per
  timeout for ever is outside the model: what arrives is a finite string.)

No fairness is assumed of clients: they may stop calling at any time.

## Proofs

`tlapm <module>.tla` checks them.  Assumptions are the named `ASSUME`s of the
modules: sizes and budgets are naturals, `Threads` and page sizes are what the
constructors admit.  TLC evaluates them in every run.

* `HotCacheProofs`.  Inductive invariant `TypeOK /\ Accounts /\ BudgetsHold /\
  CallFits`.  The counters alone are not inductive: a saturating subtraction is
  exact only if the counter is at least the size of the page, so `Accounts`
  counts the bytes of every layer as the cells of its pages (a finite set whose
  cardinality changes by exactly one page), and `CallFits` carries from the
  start of an insert to its end that the page fits the budgets and that the
  preflight additions did not overflow.  From it: `TypeCorrect`,
  `AccountingIsExact`, `BudgetsAreKept`, `CommitAlwaysFits`.
  `LayersAreIsolated` adds that, once the layer is trimmed, the loop over the whole
  cache has nothing to do: numbering the bytes of each layer within its budget
  (an injection chosen per layer, in place of a sum) shows that the bytes of all
  layers and of the incoming page are no more than the budgets together.
  On recency: touches are distinct and not after the clock; the
  renumbering of the clock is a strictly increasing map of touches to ranks.
  From it: `TouchesAreDistinct`, `RecencyIsKept`, `EvictedCountIsExact`.
  `ImplementsLruCache` is the refinement of `LruCache`.  The definitions of `LruCache`
  say at once which pages go; the loops take one at a time.  Between the two stands
  the invariant `Tracks`: what a call has evicted so far had to go by the definition, and
  is older than all that the loop it is in may still take.  The loop evicts the oldest page while
  the counters, which are exact, exceed the room; by that it takes a page only
  if the definition does, and when it ends, none of those it left is among the
  displaced.  Sums of bytes are compared as sizes of sets of cells.  The last step
  of a call is the abstract step; of every operation a lemma says so (`CommitInserts`,
  `BudgetDoneBudgets`, `GetTouches`, ...), the renumbering of the clock
  included, since it changes no pair of the order.
* `ThreadPoolProofs`.  The state of a run determines what was joined: outputs
  are those of a prefix of the jobs, and the first error is the first failure of
  the batch.  Batches start at multiples of `Threads` and nothing behind the
  current one has started, so a failure stops the run at its batch.  From it the
  type invariant, the bound on workers, the absence of left workers,
  `FailureStopsTheRun`, and that every step is a step of `SequentialMap` or a stutter.
  The last assumes `Threads # 0`, which `ThreadPoolConfig::new` checks and the
  public field does not: with `threads == 0` the first batch is empty and `run`
  returns `Ok` without running a job.
* `CfrAtlasProofs`.  Of the cache nothing is used but that it holds finitely many
  pages, so exactness owes nothing to residency.  Inductive: the rows folded are
  those before `start`; the pages behind are whole, but for the last of the
  context; and the cache holds as many pages as were admitted less those evicted
  (the victims of an insert are a set of residents, counted by cardinality).  From
  it: `AttentionIsExact`, `CountersAreTrue`, `ScratchIsWiped`.
  `FailuresHaveCauses` needs to know what calls leave behind: `Sound`, that every
  resident page has rows of the atlas's width, that the order of use is
  a strict total order, and that the pages fit `MaxBytes` (the definition of what an
  insert displaces leaves room, because the oldest of the rest was not displaced).
  It assumes `Roomy`: a client of `hot_cache_mut()` puts in rows of that
  width only, and a context and a page, and twice the budget, fit a `usize`.
  The run `CfrAtlas` satisfies it; `CfrAtlasShape` shows the first part needed, and
  without the others the code returns its overflow errors, as `CfrAtlasEdges` does.
* `AdapterProofs`, the gate.  While an adapter writes, the local page holds its cells up
  to the current one and zeroes after.  With wiping, and no caught panic, scratch
  is zero beyond what the current call wrote, so a page in reused scratch is what
  the adapter makes of fresh zeroes, which is what the check looked at.  From
  it: `SlotsAlwaysHold`, `VerdictAlwaysTrue`, `GateAlwaysHolds`.
* `AdapterProofs`, the backend.  A backend's ledger is a prefix of the records of the
  runtime; within a call the rows before the current one are those that the
  records give, and so is the page kept from an earlier call.  Two such pages agree
  where they overlap.  From it: `PageIsAllOrNothing`, `PagesAlwaysAgree`.
* `DecodeValidationProofs`.  Division brackets its quotient, so the groups of
  an accepted topology tile its query heads, whichever its kind:
  `MappingIsSound`, `GroupsAreShared`.  Between two stages no buffer holds data but
  those named for that stage, and each exit wipes them: `NothingIsLeft`.
  `PassedAreWhole` takes a second invariant, `LoopInv`: the sample in hand is at the
  place of the nested loops that the number of reports gives (mixed radix, by
  uniqueness of quotients), the steps reported agree with the history of what was
  measured, and the checks that a sample must pass are those it has passed.  What the folds
  over the reports compute (`WorstIsLeastBound`, `BestIsBound`) is shown by
  induction over the steps folded.
* `FoldedAttentionProofs`.  Inductive: the buffer holds the logits of the rows that
  the first loop has been over, and with `W = 2^(LogitSpan - max_logit)` the denominator
  is `W` times the mass of the rows folded and the accumulator `W` times their
  moment.  So no rescaling has a remainder (`RescaleIsExact`), and folding a row adds that row
  (`FoldAddsRow`): `ReducerIsSoftmax`.  Direct attention has the very same sums,
  and a mean is between the extremes: `OutputsAreSoftmax`.  That `2^(m + n)` is `2^m * 2^n` is
  shown by counting subsets, since the provers know nothing of powers.
* `OllamaClientProofs`.  Nothing bounds a body, a chunk or the digits of a size.
  A function `at` marks where in the stream each chunk began, by how much of the body
  was sent before it; between two marks stand the size line, the bytes and the
  terminator of one chunk (`Whole`), and behind the last one the empty chunk, a part of a chunk or
  nothing.  Each action of the server extends the stream and the marks.  The place of the decoding
  loop is always a mark, and what was decoded is the body up to there; a digit
  is no line end, so the loop finds the end of the size line, reads the size (`ChunkRead`) and
  takes the data, and never data for framing; behind a part of a chunk it refuses.  The closing
  byte, which is nowhere else in a body (`BodyAssumption`, for the end that a JSON text needs),
  tells a whole body from a part: `NoneRefusedWithoutCause`, `RepliesAreWhole`.  For `RecordsWereTrue` the invariant adds that what was listed, and
  the body on its way, was true at some moment since the call began.

* `PureFunctionsProofs`.  The inductive invariant `IInv` is what is asked of the last call and `CallFacts`,
  what calls go on from: `RoundAgain` from a float of the format, `EncodeText` from a
  configuration, `EditText` from a list of lines, and `MoveKey` from a row
  that is the first one turned by the distance so far.  The work is in the functions.  What the code does in a loop is a fold or a
  recursive function; each is unfolded once, and then followed by induction on its turns
  (`NatSetInduction`, the library's induction with a set in place of an operator).
  - `RoundingIsNearest`: adding half a unit and the parity of the last bit kept, then
    cutting, gives the nearest multiple of a power of two, the even one on a tie; a
    carry out of the mantissa is the next exponent, because the bits are one number.
    Normal halves, subnormal halves, bf16 and the ends of the range are cases of it.
  - `TunedSelectionIsBest`: at each turn the candidates are the doublings so far and
    `selected` is the last of them that fits both; 2 to the number of turns is no more
    than the page size, so the loop returns before it runs out of the bits of `usize`, and at
    its end the candidates are all page sizes in range: what was selected is the largest, and
    the first that fits the scratch budget the smallest.
  - `HeadsAreMapped`: from the lemmas on division and groups, for calls.
  - `TextsAreFaithful`: after each line, the fields parsed are those of the lines read, each
    from one line.  Eight fields from eight lines leave no line over (a counting
    argument on finite sets), and lines of an encoded text in any order give what was encoded.
  - `KeysArePositioned`: for every `MaxDims`, `Rates`, `MaxPosition` and angle.  Turning once keeps
    the norm where the divisions by `Radius` leave no rest (the product of two sums of two squares),
    turns add up, and the loop over the pairs turns pair after pair by its own
    angle and changes no other element.
    It assumes of the rows given to the model that those divisions are exact up to
    the last position (`IsKeyRow`).  That is a matter of the unit: finitely many rows of
    fractions are exact in a small enough one.  Angles whose cosine is no fraction,
    and the rounding of `f64`, are not reached.
  - `RowsAreTiled`: for every `MaxTokens`, `MaxWidth`, `MaxRow` and `FileBytes`.  The writes of row after row, each `head_dim` long, are numbered
    by quotient and remainder; eight lanes of the chunks and the remainder
    partition the indices of a dot product.
  - `BenchmarksRepeat`: what an LRU cache comes to under the same scan again and again.
    The pages that the policy admits and that fit the budget alone (`Kept`) are the only
    ones ever resident.  If together they fit (`RoomyRun`), nothing is displaced: after the warm-up they
    are all resident, and every run hits just these.  If not, the scan goes in
    circles (`Circles`): the order of use is the order of the scan, begun where the loop
    is, and with a resident page those used after it are resident.  The page that the loop
    is at would be the least recently used, so with it all would be
    resident, which the budget forbids: no run has a hit (`TightRun`).  In both cases the state after a run is of the kind that the run
    began with (`SettledStates`), so the counters of `n` runs are `n` times those of
    one and the division by `runs` has no rest.  Bytes are again counted as
    cells.  For the summary, the values in order exist (induction on their
    number, the largest last), and those on a side of the median are counted
    through the permutation that sorts them.

`TouchesDistinct`, the `TypeOK` of the executor and the two statements about
topologies as operators are proved without a run of their own; `MappingsSound`
checks the latter on calls.

Out of the prover's reach and left to TLC: liveness under fairness (`CallReturns`,
`AttendReturns`, `RunEnds`).  Induction over data is done by hand where a proof needs it, as
the existence of a least counterexample among the naturals (`WFMin`), anew for each fold.
Every safety invariant and every action property of the passing runs is stated by a
theorem.
`OutputExact` of `CfrAtlas` rests on pages being exact: it takes a regenerated
row, and a row that a client inserts, to be the row of its token.
`PagesAgree` shows this for the reference backend.


## Not modelled

* Floating point beyond storage rounding: sums of products, sines and cosines, the
  rounding of the softmax.  Which terms a dot product adds, the rotation of a pair
  and the algebra of the softmax are checked with exact numbers.
* The text of the scale in a configuration: what `{:?}` writes of an `f32`, `parse` reads
  as the same number, and the model writes the number.
* The syntax of URLs, HTTP headers and JSON, the option texts, files and output of
  the benchmark programs, and the texts of errors: parsing and printing without
  state.  What is accepted and what becomes of it is modelled.
* The stabilization report (constant tables), error types, feature flags and
  exports: there is nothing for a property to be about.
* The toy example, the fuzz target and the scripts: clients of what is modelled.

## Met while modelling

Two checks of the code never fail.  The early exit of the tuner's loop when its
doubling overflows is never taken, since the bytes of the candidate overflow
first (`SelectionIsBest`).  The checked additions after the evictions of an insert
cannot fail (`CommitFits`, proved).  A third cannot fail either: sums of products of
finite `f32`s in `f64` are finite, so no kernel of the crate gives a logit that
`consume_page` would refuse (`src/attention.rs:113`); the model has that return none the less.

Observations that no run checks:

* `KeepRecent` tests `end >= frontier` (`src/policy.rs:88`): it admits a page
  that ends exactly where the recent tokens begin and holds none of them.
* `threads` is a public field of `ThreadPoolConfig`; set to zero, `run` takes an
  empty batch at once and returns `Ok` without running a job
  (`src/executor.rs:69`).
* `regenerate_next` regenerates into a fresh buffer and drops an old one
  (`src/pipeline.rs:148`), where `docs/GLOSSARY.md:72` speaks of two reusable
  buffers.
* `show_model` may pair the digest of one version of a model with the metadata
  of another, if the model is pulled between its two requests
  (`crates/cfr-atlas-ollama/src/lib.rs:496`).  `RecordWasTrue` is therefore stated
  field by field.
* A plain (not chunked) response that breaks off is returned as it is:
  `content-length` is not compared (`crates/cfr-atlas-ollama/src/lib.rs:222`).
  The JSON text then lacks its end, which is what `ReplyIsWhole` rests on.
* `generate` does not look at `done` of the response it returns.
* The conformance check carries over to the pages of the atlas only with
  `wipe_scratch_after_use`, and not after a caught panic, for an adapter that
  relies on zeroed buffers; `GateHolds` states both conditions.
* `apply_key` of RoPE leaves a row half rotated when a value leaves the range of
  `f32` (`src/position.rs:97`); the reference backend wipes such a page.
* `max_abs_diff` of `bench/bench_transformers_cfr.rs:194` folds with `f32::max`
  from 0, so differences that are NaN are printed as 0.
* `run_hot` of the same program (line 234) has no hit at all when the context is longer
  than a page and no multiple of `page_tokens`: its cache holds one page, its policy admits the
  last two, and they displace each other in every run.

## Plan

1. Done: the cache and its abstract specification; the page loop over the
   abstract cache; the executor; the reducer; pipeline, conformance check and
   scratch over one adapter; tuner, topology, validation, ledger and reference
   backend, configuration, positions, layout, benchmarks, the Ollama client; the
   theorems above.
2. `CfrAtlas` over `FoldedAttention` in place of its set of folded rows, and
   over `HotCache` in place of `LruCache`.
