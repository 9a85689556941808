------------------------------ MODULE CfrAtlas ------------------------------
(***************************************************************************)
(* CfrAtlas of src/atlas.rs with its execution path src/execution.rs: the  *)
(* page loop of exact attention over a hot cache, a scratch buffer and the *)
(* folded-attention reducer, and the calls a client makes in between.      *)
(*                                                                         *)
(* A stream is a (layer, K/V head) pair.  The page of a stream that starts *)
(* at token `start` and holds `tokens` rows is the rows start ..           *)
(* start + tokens - 1 of the stream, exactly: the regenerator and the      *)
(* client that inserts hot pages are bound to that (their code is not      *)
(* here), but a page may hold fewer rows than a later request needs, or    *)
(* have rows of another width.  Folded attention is the sequence of token  *)
(* rows it has consumed; the weights it computes from them are abstracted. *)
(*                                                                         *)
(* The cache is a value of LruCache, which HotCache implements (module     *)
(* HotCacheRefinement).                                                    *)
(***************************************************************************)
EXTENDS Integers, Sequences, FiniteSets, ResidencyPolicy

CONSTANTS
  Streams,         (* (layer, head) pairs                                   *)
  StreamLayer,     (* the layer of a stream                                 *)
  PageTokens,      (* config.page_tokens                                    *)
  HeadDim,         (* config.head_dim                                       *)
  MaxBytes,        (* config.hot_cache_bytes, in units of 8 bytes           *)
  AdmitPages,      (* config.admit_regenerated_pages                        *)
  WipeScratch,     (* config.wipe_scratch_after_use                         *)
  UsizeMax,        (* usize::MAX                                            *)
  Contexts,        (* the context_tokens of the requests                    *)
  Policies,        (* the residency policies of the requests                *)
  PageSizes,       (* the token counts of client-inserted pages             *)
  RawHeadDims,     (* the row widths of pages put in by hot_cache_mut()     *)
  LayerBudgets,    (* the per-layer budgets clients set                     *)
  MaxRequests      (* bound of the model on the number of client calls      *)

ASSUME CfrAtlasAssumption ==
  /\ PageTokens \in Nat \ {0}
  /\ HeadDim \in Nat \ {0}
  /\ MaxBytes \in Nat
  /\ UsizeMax \in Nat
  /\ Contexts \subseteq 1 .. UsizeMax
  /\ PageSizes \subseteq Nat \ {0}
  /\ RawHeadDims \subseteq Nat \ {0}

VARIABLES
  cache,      (* the hot cache, a value of LruCache                         *)
  scratch,    (* ScratchBuffers: its length in rows and what it holds       *)
  folded,     (* FoldedAttention: the token rows consumed since reset       *)
  counters,   (* CfrCounters                                                *)
  call,       (* the frame of the attend call in progress                   *)
  result,     (* how the last attend call ended                             *)
  output,     (* the caller's output slice; << >> is "as it was"            *)
  unbooked,   (* history: pages the client added or took without a counter  *)
  requests    (* number of client calls so far                              *)

vars == <<cache, scratch, folded, counters, call, result, output, unbooked, requests>>

(* Where the pages of some request start.                                  *)
Starts == {t \in UNION {0 .. (c - 1) : c \in Contexts} : t % PageTokens = 0}
PageKeys == Streams \X Starts
LayerOf == [key \in PageKeys |-> StreamLayer[key[1]]]
Layers == {StreamLayer[s] : s \in Streams}

Page(tokens, head_dim) ==
  [tokens |-> tokens, head_dim |-> head_dim, bytes |-> tokens * head_dim]

Lru == INSTANCE LruCache
         WITH PageValues <- {Page(t, d) : t \in PageSizes, d \in RawHeadDims},
              BudgetValues <- LayerBudgets

Resident == Lru!Resident(cache)

Idle == [pc |-> "idle"]

Counters == [hot_hits : Nat, cold_regenerations : Nat, cache_admissions : Nat,
             cache_admission_rejections : Nat, cache_evictions : Nat,
             consumed_tokens : Nat]
ZeroCounters == [hot_hits |-> 0, cold_regenerations |-> 0, cache_admissions |-> 0,
                 cache_admission_rejections |-> 0, cache_evictions |-> 0,
                 consumed_tokens |-> 0]

-----------------------------------------------------------------------------
(* The result of HotCache::insert_internal for a valid page: the outcome,  *)
(* the cache afterwards and the number of pages evicted.                   *)
InsertOutcome(c, key, page) ==
  LET replaced == IF key \in DOMAIN c.pages THEN c.pages[key].bytes ELSE 0
  IN  IF Lru!TooLarge(c, key, page)
        THEN [kind |-> "rejected", cache |-> c, evicted |-> 0]
      ELSE IF Lru!UsedBytes(c) - replaced + page.bytes > UsizeMax
        THEN [kind |-> "overflow", cache |-> c, evicted |-> 0]
      ELSE [kind |-> "inserted", cache |-> Lru!Inserted(c, key, page),
            evicted |-> Cardinality(Lru!Victims(c, key, page))]

(* Mutant: any answer of the cache counts as an admission.                 *)
BookedAlways(c, outcome) ==
  [c EXCEPT !.cache_admissions = @ + 1, !.cache_evictions = @ + outcome.evicted]

(* What admission counters make of an outcome.                             *)
Booked(c, outcome) ==
  CASE outcome.kind = "inserted" ->
         [c EXCEPT !.cache_admissions = @ + 1, !.cache_evictions = @ + outcome.evicted]
    [] outcome.kind = "rejected" -> [c EXCEPT !.cache_admission_rejections = @ + 1]
    [] OTHER -> c

Held(c) == Cardinality(Lru!Resident(c))

ClientCall ==
  /\ call = Idle
  /\ requests < MaxRequests
  /\ requests' = requests + 1

-----------------------------------------------------------------------------
(* attend_exact_with_policy: the checks before the loop, and the loop.     *)

(* A query or output slice of the wrong length, or an empty context.       *)
AttendRefused ==
  /\ ClientCall
  /\ result' = [status |-> "refused", context |-> 0]
  /\ output' = << >>
  /\ UNCHANGED <<cache, scratch, folded, counters, call, unbooked>>

(* Mutant: the reducer is not reset.                                       *)
AttendBeginUnreset(stream, context, policy, query) ==
  /\ ClientCall
  /\ output' = << >>
  /\ result' = [status |-> "none", context |-> context]
  /\ call' = [pc |-> "pages", stream |-> stream, context |-> context, start |-> 0,
              policy |-> policy, query |-> query, base |-> counters]
  /\ UNCHANGED <<cache, scratch, folded, counters, unbooked>>

AttendBegin(stream, context, policy, query) ==
  /\ ClientCall
  /\ folded' = << >>
  /\ output' = << >>
  /\ result' = [status |-> "none", context |-> context]
  /\ call' = [pc |-> "pages", stream |-> stream, context |-> context, start |-> 0,
              policy |-> policy, query |-> query, base |-> counters]
  /\ UNCHANGED <<cache, scratch, counters, unbooked>>

Return(status) ==
  /\ call' = Idle
  /\ result' = [result EXCEPT !.status = status]

AtPage == call.pc = "pages" /\ call.start < call.context

PageEndOverflows == call.start + PageTokens > UsizeMax

PageEnd ==
  IF call.start + PageTokens <= call.context THEN call.start + PageTokens ELSE call.context

NeededTokens == PageEnd - call.start

Key == <<call.stream, call.start>>

Rows(start, tokens) == [i \in 1 .. tokens |-> start + i - 1]

Advance == call' = [call EXCEPT !.start = PageEnd]

(* checked_add("attention page end") fails.                                *)
AttendOverflows ==
  /\ AtPage /\ PageEndOverflows
  /\ Return("page_end_overflow")
  /\ UNCHANGED <<cache, scratch, folded, counters, output, unbooked, requests>>

(* Mutant: residency is enough.                                            *)
HotMatchByKey == Key \in Resident

(* The test of consume_hot_page_if_shape_matches: token counts only.       *)
HotMatch == Key \in Resident /\ cache.pages[Key].tokens = NeededTokens

(* The checks of consume_page: its slices have NeededTokens rows of HeadDim *)
(* elements.                                                               *)
HotPageUsable ==
  call.query = "finite" /\ cache.pages[Key].bytes = NeededTokens * HeadDim

(* Mutant: a full page is counted where the last one is partial.           *)
ConsumeHotPageFull ==
  /\ AtPage /\ ~PageEndOverflows
  /\ HotMatch /\ HotPageUsable
  /\ cache' = Lru!Touched(cache, Key)
  /\ folded' = folded \o Rows(call.start, cache.pages[Key].tokens)
  /\ counters' = [counters EXCEPT !.hot_hits = @ + 1, !.consumed_tokens = @ + PageTokens]
  /\ Advance
  /\ UNCHANGED <<scratch, result, output, unbooked, requests>>

ConsumeHotPage ==
  /\ AtPage /\ ~PageEndOverflows
  /\ HotMatch /\ HotPageUsable
  /\ cache' = Lru!Touched(cache, Key)
  /\ folded' = folded \o Rows(call.start, cache.pages[Key].tokens)
  /\ counters' = [counters EXCEPT !.hot_hits = @ + 1, !.consumed_tokens = @ + NeededTokens]
  /\ Advance
  /\ UNCHANGED <<scratch, result, output, unbooked, requests>>

(* consume_page fails: the page has been touched, nothing is counted.      *)
ConsumeHotPageFails ==
  /\ AtPage /\ ~PageEndOverflows
  /\ HotMatch /\ ~HotPageUsable
  /\ cache' = Lru!Touched(cache, Key)
  /\ Return(IF call.query = "finite" THEN "hot_page_shape" ELSE "query")
  /\ UNCHANGED <<scratch, folded, counters, output, unbooked, requests>>

-----------------------------------------------------------------------------
(* A page that is not resident, or resident with another token count: the  *)
(* stale page goes, the page is regenerated into scratch, folded, and      *)
(* offered to the cache.                                                   *)

Stale == Key \in Resident

(* Mutant: the loop waits for a stale page to go.                          *)
ColdPageAbsent == AtPage /\ ~PageEndOverflows /\ Key \notin Resident

FreshCache == Lru!Without(cache, {Key})

FreshCounters ==
  IF Stale THEN [counters EXCEPT !.cache_evictions = @ + 1] ELSE counters

Regenerated == [FreshCounters EXCEPT !.cold_regenerations = @ + 1]

Consumed == [Regenerated EXCEPT !.consumed_tokens = @ + NeededTokens]

ColdPage == AtPage /\ ~PageEndOverflows /\ ~HotMatch

(* Scratch only grows; left says what it holds when the page is done with. *)
UseScratch(left) ==
  scratch' = [rows |-> IF scratch.rows < NeededTokens THEN NeededTokens ELSE scratch.rows,
              holds |-> left]

Wiped == IF WipeScratch THEN "zeroes" ELSE "page"

RegenerationFails ==
  /\ ColdPage
  /\ cache' = FreshCache
  /\ counters' = FreshCounters
  /\ UseScratch(Wiped)
  /\ Return("regenerator")
  /\ UNCHANGED <<folded, output, unbooked, requests>>

(* The regenerator unwinds through attend: no later statement runs.        *)
RegenerationPanics ==
  /\ ColdPage
  /\ cache' = FreshCache
  /\ counters' = FreshCounters
  /\ UseScratch("abandoned")
  /\ Return("panic")
  /\ UNCHANGED <<folded, output, unbooked, requests>>

(* consume_page fails: the query, or a regenerated row, is not finite.     *)
ConsumeColdPageFails ==
  /\ ColdPage
  /\ cache' = FreshCache
  /\ counters' = Regenerated
  /\ UseScratch(Wiped)
  /\ Return(IF call.query = "finite" THEN "regenerated_page" ELSE "query")
  /\ UNCHANGED <<folded, output, unbooked, requests>>

(* ResidencyContext, taken after the page was folded.                      *)
Telemetries ==
  [max_bytes |-> MaxBytes, used_bytes |-> Lru!UsedBytes(FreshCache), pages |-> Held(FreshCache),
   hot_hits |-> Consumed.hot_hits, cold_regenerations |-> Consumed.cold_regenerations]

Decisions ==
  IF AdmitPages
    THEN Admissions(call.policy, call.start, NeededTokens, call.context, Telemetries)
    ELSE {FALSE}

Folded ==
  /\ ColdPage
  /\ call.query = "finite"
  /\ folded' = folded \o Rows(call.start, NeededTokens)
  /\ UseScratch(Wiped)
  /\ UNCHANGED <<output, unbooked, requests>>

DropColdPage ==
  /\ Folded
  /\ FALSE \in Decisions
  /\ cache' = FreshCache
  /\ counters' = Consumed
  /\ Advance
  /\ UNCHANGED result

(* Mutant: a failed admission returns before it wipes.                     *)
AdmitColdPageUnwiped ==
  LET outcome == InsertOutcome(FreshCache, Key, Page(NeededTokens, HeadDim))
  IN  /\ ColdPage
      /\ call.query = "finite"
      /\ TRUE \in Decisions
      /\ folded' = folded \o Rows(call.start, NeededTokens)
      /\ UseScratch(IF outcome.kind = "overflow" THEN "page" ELSE Wiped)
      /\ cache' = outcome.cache
      /\ counters' = Booked(Consumed, outcome)
      /\ IF outcome.kind = "overflow"
           THEN Return("admission")
           ELSE Advance /\ UNCHANGED result
      /\ UNCHANGED <<output, unbooked, requests>>

AdmitColdPage ==
  LET outcome == InsertOutcome(FreshCache, Key, Page(NeededTokens, HeadDim))
  IN  /\ Folded
      /\ TRUE \in Decisions
      /\ cache' = outcome.cache
      /\ counters' = Booked(Consumed, outcome)
      /\ IF outcome.kind = "overflow"
           THEN Return("admission")
           ELSE Advance /\ UNCHANGED result

(* finish_into, once every page was folded.                                *)
AttendFinish ==
  /\ call.pc = "pages"
  /\ call.start >= call.context
  /\ output' = folded
  /\ Return("ok")
  /\ UNCHANGED <<cache, scratch, folded, counters, unbooked, requests>>

(* A quotient just past the range of f32: the output is not written.       *)
AttendFinishFails ==
  /\ call.pc = "pages"
  /\ call.start >= call.context
  /\ Return("output_range")
  /\ UNCHANGED <<cache, scratch, folded, counters, output, unbooked, requests>>

-----------------------------------------------------------------------------
(* The other calls of a client.                                            *)

InsertHotPage(key, tokens) ==
  LET outcome == InsertOutcome(cache, key, Page(tokens, HeadDim))
  IN  /\ ClientCall
      /\ cache' = outcome.cache
      /\ counters' = Booked(counters, outcome)
      /\ unbooked' = unbooked - (IF outcome.kind = "inserted" /\ key \in Resident
                                   THEN 1 ELSE 0)
      /\ UNCHANGED <<scratch, folded, call, result, output>>

SetLayerHotCacheBytes(layer, bytes) ==
  /\ ClientCall
  /\ cache' = Lru!Budgeted(cache, layer, bytes)
  /\ counters' = [counters EXCEPT !.cache_evictions = @ + Held(cache) - Held(cache')]
  /\ UNCHANGED <<scratch, folded, call, result, output, unbooked>>

ClearLayerHotCacheBytes(layer) ==
  /\ ClientCall
  /\ cache' = Lru!Unbudgeted(cache, layer)
  /\ UNCHANGED <<scratch, folded, counters, call, result, output, unbooked>>

ResetCounters ==
  /\ ClientCall
  /\ counters' = ZeroCounters
  /\ unbooked' = Held(cache)
  /\ UNCHANGED <<cache, scratch, folded, call, result, output>>

(* hot_cache_mut(): the client works on the cache directly, past the       *)
(* counters and with rows of any width.                                    *)
UseHotCacheMut ==
  /\ ClientCall
  /\ \/ \E key \in PageKeys, tokens \in PageSizes, head_dim \in RawHeadDims :
          cache' = InsertOutcome(cache, key, Page(tokens, head_dim)).cache
     \/ \E key \in Resident : cache' \in {Lru!Without(cache, {key}), Lru!Touched(cache, key)}
     \/ cache' = Lru!Cleared(cache)
     \/ \E layer \in Layers, bytes \in LayerBudgets : cache' = Lru!Budgeted(cache, layer, bytes)
  /\ unbooked' = unbooked + Held(cache') - Held(cache)
  /\ UNCHANGED <<scratch, folded, counters, call, result, output>>

-----------------------------------------------------------------------------
Init ==
  /\ cache = Lru!EmptyCache
  /\ scratch = [rows |-> 0, holds |-> "zeroes"]
  /\ folded = << >>
  /\ counters = ZeroCounters
  /\ call = Idle
  /\ result = [status |-> "none", context |-> 0]
  /\ output = << >>
  /\ unbooked = 0
  /\ requests = 0

AttendStep ==
  \/ AttendOverflows
  \/ ConsumeHotPage
  \/ ConsumeHotPageFails
  \/ RegenerationFails
  \/ RegenerationPanics
  \/ ConsumeColdPageFails
  \/ DropColdPage
  \/ AdmitColdPage
  \/ AttendFinish
  \/ AttendFinishFails

Next ==
  \/ AttendRefused
  \/ \E stream \in Streams, context \in Contexts, policy \in Policies,
        query \in {"finite", "non_finite"} : AttendBegin(stream, context, policy, query)
  \/ AttendStep
  \/ \E key \in PageKeys, tokens \in PageSizes : InsertHotPage(key, tokens)
  \/ \E layer \in Layers :
       \/ \E bytes \in LayerBudgets : SetLayerHotCacheBytes(layer, bytes)
       \/ ClearLayerHotCacheBytes(layer)
  \/ ResetCounters
  \/ UseHotCacheMut

Spec == Init /\ [][Next]_vars

(* An attend call runs on its caller's thread; it stops for nothing but    *)
(* the regenerator, which is taken to return or to panic.                  *)
FairSpec == Spec /\ WF_vars(AttendStep)

-----------------------------------------------------------------------------
(* Properties.                                                             *)

(* Exactness does not depend on residency: whatever pages were hot, stale, *)
(* evicted, admitted or left over from calls that failed, an attend that   *)
(* returns Ok has folded every token of its context once and in order, and *)
(* one that does not leaves the caller's output alone.                     *)
OutputExact ==
  output = IF result.status = "ok" THEN Rows(0, result.context) ELSE << >>

(* The reducer and the counters tell the same story at every page of a     *)
(* call: the tokens counted are the tokens folded, and hits and            *)
(* regenerations are the pages behind.                                     *)
WorkAccounted ==
  call # Idle =>
    /\ folded = Rows(0, call.start)
    /\ counters.consumed_tokens - call.base.consumed_tokens = Len(folded)
    /\ (counters.hot_hits + counters.cold_regenerations)
         - (call.base.hot_hits + call.base.cold_regenerations)
         = (call.start + PageTokens - 1) \div PageTokens

(* The admission and eviction counters balance with the pages that are     *)
(* resident, replacements by the client and its direct use of the cache    *)
(* aside: stale pages, loop evictions and budget cuts are all counted, and *)
(* counted once.                                                           *)
TelemetryBalanced ==
  Held(cache) = counters.cache_admissions - counters.cache_evictions + unbooked

(* What stats() tells is true, in the middle of a call too and after       *)
(* whatever errors: of the work, and of what became of the pages.          *)
CountersTrue == WorkAccounted /\ TelemetryBalanced

(* Cold K/V does not linger: with wiping configured, no return path leaves *)
(* a page in scratch; only a regenerator that unwinds does.                *)
ScratchWiped == WipeScratch /\ call = Idle => scratch.holds # "page"

(* The hit path only consumes pages of a compatible shape; one with rows   *)
(* of another width is regenerated, not an error (ARCHITECTURE, "Execution *)
(* path", 2 to 4).                                                         *)
HotPageShapeChecked == result.status # "hot_page_shape"

(* A call fails only for a reason outside the atlas: its arguments, the    *)
(* query, the regenerator or rows at the limits of f32.  Nothing that      *)
(* calls before it left behind, failed or not, makes it fail.              *)
FailsForCause ==
  result.status \in {"none", "ok", "refused", "regenerator", "panic", "query",
                     "regenerated_page", "output_range"}

(* Every attend call ends.                                                 *)
AttendReturns == (call # Idle) ~> (call = Idle)

=============================================================================
