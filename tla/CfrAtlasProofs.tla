---------------------------- MODULE CfrAtlasProofs ----------------------------
(***************************************************************************)
(* Theorems about CfrAtlas, for any streams, page size, context, policy    *)
(* and any number of calls: attention is exact and the counters are true,  *)
(* whatever the cache does, and where no machine word is too narrow a call *)
(* fails only for a reason that lies outside the atlas.                    *)
(***************************************************************************)
EXTENDS CfrAtlas, FiniteSetTheorems, SequenceTheorems, TLAPS

(* Of the cache, only that it is one and holds finitely many pages.        *)
CacheOK(c) ==
  /\ {"pages", "older", "budgets"} \subseteq DOMAIN c
  /\ IsFiniteSet(Lru!Resident(c))

CounterRecords ==
  [hot_hits : Nat, cold_regenerations : Nat, cache_admissions : Int,
   cache_admission_rejections : Int, cache_evictions : Int, consumed_tokens : Nat]

Frames ==
  [pc : {"pages"}, stream : Streams, context : Contexts, start : Nat, policy : Policies,
   query : {"finite", "non_finite"}, base : CounterRecords]

PagesDone ==
  (counters.hot_hits + counters.cold_regenerations)
    - (call.base.hot_hits + call.base.cold_regenerations)

(* All pages before call.start were whole, but for the last of the context. *)
PagesFill(n) ==
  \/ call.start = n * PageTokens
  \/ /\ call.start = call.context
     /\ n * PageTokens < call.start + PageTokens /\ call.start < n * PageTokens

Statuses ==
  {"none", "ok", "refused", "page_end_overflow", "hot_page_shape", "query", "regenerator",
   "panic", "regenerated_page", "admission", "output_range"}

TypeInv ==
  /\ CacheOK(cache)
  /\ counters \in CounterRecords
  /\ call = Idle \/ call \in Frames
  /\ result \in [status : Statuses, context : Nat]
  /\ unbooked \in Int

LoopInv ==
  call # Idle =>
    /\ call.start <= call.context
    /\ result = [status |-> "none", context |-> call.context]
    /\ folded = Rows(0, call.start)
    /\ counters.consumed_tokens - call.base.consumed_tokens = call.start
    /\ PagesDone \in Nat /\ PagesFill(PagesDone)

WipeInv == WipeScratch => scratch.holds # "page"

Inv == TypeInv /\ LoopInv /\ OutputExact /\ TelemetryBalanced /\ WipeInv

-----------------------------------------------------------------------------
(* The cache.                                                              *)

LEMMA WithoutFacts ==
  ASSUME NEW c, CacheOK(c), NEW S
  PROVE  /\ CacheOK(Lru!Without(c, S))
         /\ Lru!Resident(Lru!Without(c, S)) = Lru!Resident(c) \ S
         /\ Lru!Without(c, S).budgets = c.budgets
<1>1. PICK order : Lru!Without(c, S) =
        [pages |-> [k \in Lru!Resident(c) \ S |-> c.pages[k]], older |-> order,
         budgets |-> c.budgets]
  BY DEF Lru!Without
<1>2. IsFiniteSet(Lru!Resident(c) \ S)
  BY FS_Subset DEF CacheOK
<1> QED
  BY <1>1, <1>2 DEF CacheOK, Lru!Resident

LEMMA VictimsResident ==
  ASSUME NEW c, CacheOK(c), NEW key, NEW page
  PROVE  Lru!Victims(c, key, page) \subseteq Lru!Resident(c) \ {key}
<1> DEFINE others == Lru!Without(c, {key})
           mine == Lru!LayerDisplaced(others, LayerOf[key], page.bytes)
           rest == Lru!Without(others, mine)
<1>1. CacheOK(others) /\ Lru!Resident(others) = Lru!Resident(c) \ {key}
  BY WithoutFacts
<1>2. \A d, S, room : Lru!Displaced(d, S, room) \subseteq S
  BY DEF Lru!Displaced
<1>3. mine \subseteq Lru!Resident(others)
  <2>1. Lru!InLayer(others, LayerOf[key]) \subseteq Lru!Resident(others)
    BY DEF Lru!InLayer
  <2> QED
    BY <1>2, <2>1 DEF Lru!LayerDisplaced
<1>4. Lru!Resident(rest) \subseteq Lru!Resident(others)
  BY <1>1, WithoutFacts
<1>5. Lru!Victims(c, key, page) =
        mine \cup Lru!Displaced(rest, Lru!Resident(rest), MaxBytes - page.bytes)
  BY DEF Lru!Victims
<1> HIDE DEF others, mine, rest
<1> QED
  BY <1>1, <1>2, <1>3, <1>4, <1>5

LEMMA InsertedFacts ==
  ASSUME NEW c, CacheOK(c), NEW key, NEW page
  PROVE  /\ CacheOK(Lru!Inserted(c, key, page))
         /\ Lru!Resident(Lru!Inserted(c, key, page))
              = (Lru!Resident(c) \ Lru!Victims(c, key, page)) \cup {key}
<1> DEFINE kept == Lru!Without(c, Lru!Victims(c, key, page) \cup {key})
<1>1. /\ CacheOK(kept)
      /\ Lru!Resident(kept) = Lru!Resident(c) \ (Lru!Victims(c, key, page) \cup {key})
  BY WithoutFacts
<1>2. PICK order, pages :
        /\ Lru!Inserted(c, key, page) = [pages |-> pages, older |-> order, budgets |-> c.budgets]
        /\ DOMAIN pages = Lru!Resident(kept) \cup {key}
  <2> DEFINE p == [k \in Lru!Resident(kept) \cup {key} |->
                     IF k = key THEN page ELSE kept.pages[k]]
  <2>1. Lru!Inserted(c, key, page) =
          [pages |-> p, older |-> Lru!UsedLast(kept.older, Lru!Resident(kept), key),
           budgets |-> c.budgets]
    BY Zenon DEF Lru!Inserted
  <2>2. DOMAIN p = Lru!Resident(kept) \cup {key}
    OBVIOUS
  <2> HIDE DEF p, kept
  <2> QED
    BY <2>1, <2>2
<1>3. IsFiniteSet(Lru!Resident(kept) \cup {key})
  BY <1>1, FS_AddElement DEF CacheOK
<1> HIDE DEF kept
<1>4. DOMAIN Lru!Inserted(c, key, page) = {"pages", "older", "budgets"}
  BY <1>2
<1>5. Lru!Inserted(c, key, page).pages = pages
  BY <1>2
<1> QED
  BY <1>1, <1>2, <1>3, <1>4, <1>5 DEF CacheOK, Lru!Resident

(* The pages resident after an insertion are those before it, the victims  *)
(* not, and the new one.                                                   *)
LEMMA InsertedHeld ==
  ASSUME NEW c, CacheOK(c), NEW key, NEW page
  PROVE  /\ Cardinality(Lru!Victims(c, key, page)) \in Nat
         /\ Held(c) \in Nat
         /\ Held(Lru!Inserted(c, key, page))
              = Held(c) - Cardinality(Lru!Victims(c, key, page))
                  + (IF key \in Lru!Resident(c) THEN 0 ELSE 1)
<1> DEFINE R == Lru!Resident(c)
           V == Lru!Victims(c, key, page)
<1>1. IsFiniteSet(R) /\ V \subseteq R /\ key \notin V
  BY VictimsResident DEF CacheOK
<1>2. Lru!Resident(Lru!Inserted(c, key, page)) = (R \ V) \cup {key}
  BY InsertedFacts
<1> HIDE DEF R, V
<1>3. IsFiniteSet(V) /\ IsFiniteSet(R \ V)
  BY <1>1, FS_Subset
<1>4. Cardinality(V) \in Nat /\ Cardinality(R) \in Nat /\ Cardinality(R \ V) \in Nat
  BY <1>1, <1>3, FS_CardinalityType
<1>5. Cardinality(R \ V) = Cardinality(R) - Cardinality(V)
  <2>1. R \cap V = V
    BY <1>1
  <2> QED
    BY <1>1, <1>3, <2>1, FS_Difference
<1>6. Cardinality((R \ V) \cup {key})
        = IF key \in R \ V THEN Cardinality(R \ V) ELSE Cardinality(R \ V) + 1
  BY <1>3, FS_AddElement
<1>7. key \in R \ V <=> key \in R
  BY <1>1
<1> QED
  BY <1>2, <1>4, <1>5, <1>6, <1>7 DEF Held, R, V

LEMMA TouchedFacts ==
  ASSUME NEW c, CacheOK(c), NEW key
  PROVE  CacheOK(Lru!Touched(c, key)) /\ Lru!Resident(Lru!Touched(c, key)) = Lru!Resident(c)
<1>1. PICK order : Lru!Touched(c, key) = [c EXCEPT !.older = order]
  BY DEF Lru!Touched
<1> QED
  BY <1>1 DEF CacheOK, Lru!Resident

LEMMA BudgetFacts ==
  ASSUME NEW c, CacheOK(c), NEW layer, NEW bytes
  PROVE  /\ CacheOK(Lru!Budgeted(c, layer, bytes))
         /\ CacheOK(Lru!Unbudgeted(c, layer))
         /\ Lru!Resident(Lru!Unbudgeted(c, layer)) = Lru!Resident(c)
<1>1. PICK budgets : Lru!Unbudgeted(c, layer) = [c EXCEPT !.budgets = budgets]
  BY DEF Lru!Unbudgeted
<1>2. PICK limits, S : Lru!Budgeted(c, layer, bytes) = Lru!Without([c EXCEPT !.budgets = limits], S)
  BY DEF Lru!Budgeted
<1>3. \A b : CacheOK([c EXCEPT !.budgets = b])
             /\ Lru!Resident([c EXCEPT !.budgets = b]) = Lru!Resident(c)
  BY DEF CacheOK, Lru!Resident
<1>4. CacheOK(Lru!Without([c EXCEPT !.budgets = limits], S))
  BY <1>3, WithoutFacts
<1> QED
  BY <1>1, <1>2, <1>3, <1>4

(* What an insertion does to the number of pages, and what is counted.     *)
Gained(outcome, key, c) ==
  IF outcome.kind = "inserted" /\ key \notin Lru!Resident(c) THEN 1 ELSE 0

LEMMA InsertOutcomeFacts ==
  ASSUME NEW c, CacheOK(c), NEW key, NEW page
  PROVE  LET outcome == InsertOutcome(c, key, page)
         IN  /\ outcome.kind \in {"rejected", "overflow", "inserted"}
             /\ CacheOK(outcome.cache)
             /\ outcome.evicted \in Nat
             /\ outcome.kind # "inserted" => outcome.evicted = 0
             /\ Held(c) \in Nat
             /\ Held(outcome.cache) = Held(c) - outcome.evicted + Gained(outcome, key, c)
<1> DEFINE outcome == InsertOutcome(c, key, page)
           n == Cardinality(Lru!Victims(c, key, page))
           after == Lru!Inserted(c, key, page)
<1>1. /\ n \in Nat /\ Held(c) \in Nat /\ CacheOK(after)
      /\ Held(after) = Held(c) - n + (IF key \in Lru!Resident(c) THEN 0 ELSE 1)
  BY InsertedFacts, InsertedHeld
<1>2. \/ outcome = [kind |-> "rejected", cache |-> c, evicted |-> 0]
      \/ outcome = [kind |-> "overflow", cache |-> c, evicted |-> 0]
      \/ outcome = [kind |-> "inserted", cache |-> after, evicted |-> n]
  BY Zenon DEF InsertOutcome
<1> HIDE DEF outcome, n, after
<1> SUFFICES /\ outcome.kind \in {"rejected", "overflow", "inserted"}
             /\ CacheOK(outcome.cache)
             /\ outcome.evicted \in Nat
             /\ outcome.kind # "inserted" => outcome.evicted = 0
             /\ Held(c) \in Nat
             /\ Held(outcome.cache) = Held(c) - outcome.evicted + Gained(outcome, key, c)
  BY DEF outcome
<1> QED
  BY <1>1, <1>2 DEF Gained

LEMMA BookedFacts ==
  ASSUME NEW c \in CounterRecords, NEW outcome,
         outcome.kind \in {"rejected", "overflow", "inserted"},
         outcome.evicted \in Nat, outcome.kind # "inserted" => outcome.evicted = 0
  PROVE  /\ Booked(c, outcome) \in CounterRecords
         /\ Booked(c, outcome).hot_hits = c.hot_hits
         /\ Booked(c, outcome).cold_regenerations = c.cold_regenerations
         /\ Booked(c, outcome).consumed_tokens = c.consumed_tokens
         /\ Booked(c, outcome).cache_admissions - Booked(c, outcome).cache_evictions
              = c.cache_admissions - c.cache_evictions - outcome.evicted
                  + (IF outcome.kind = "inserted" THEN 1 ELSE 0)
<1>1. CASE outcome.kind = "inserted"
  <2>1. Booked(c, outcome) =
          [hot_hits |-> c.hot_hits, cold_regenerations |-> c.cold_regenerations,
           cache_admissions |-> c.cache_admissions + 1,
           cache_admission_rejections |-> c.cache_admission_rejections,
           cache_evictions |-> c.cache_evictions + outcome.evicted,
           consumed_tokens |-> c.consumed_tokens]
    BY <1>1 DEF Booked, CounterRecords
  <2> QED
    BY <1>1, <2>1 DEF CounterRecords
<1>2. CASE outcome.kind = "rejected"
  BY <1>2 DEF Booked, CounterRecords
<1>3. CASE outcome.kind = "overflow"
  BY <1>3 DEF Booked, CounterRecords
<1> QED
  BY <1>1, <1>2, <1>3

-----------------------------------------------------------------------------
(* The pages of a call.                                                    *)

LEMMA RowsJoin ==
  ASSUME NEW m \in Nat, NEW n \in Nat
  PROVE  /\ Rows(0, m) \o Rows(m, n) = Rows(0, m + n)
         /\ Len(Rows(0, m)) = m
<1> DEFINE A == Rows(0, m)
           B == Rows(m, n)
<1>1. A \in Seq(Int) /\ Len(A) = m /\ B \in Seq(Int) /\ Len(B) = n
  BY DEF Rows
<1>2. /\ \A i \in 1 .. m : A[i] = i - 1
      /\ \A i \in 1 .. n : B[i] = m + i - 1
  BY DEF Rows
<1> HIDE DEF A, B
<1>3. /\ A \o B \in Seq(Int) /\ Len(A \o B) = m + n
      /\ \A i \in 1 .. m + n : (A \o B)[i] = IF i <= m THEN A[i] ELSE B[i - m]
  BY <1>1, ConcatProperties
<1>4. ASSUME NEW i \in 1 .. m + n
      PROVE  (A \o B)[i] = i - 1
  <2>1. CASE i <= m
    BY <1>2, <1>3, <2>1
  <2>2. CASE ~(i <= m)
    <3>1. i - m \in 1 .. n /\ m + (i - m) - 1 = i - 1
      BY <2>2
    <3>2. (A \o B)[i] = B[i - m]
      BY <1>3, <2>2
    <3>3. B[i - m] = m + (i - m) - 1
      BY <1>2, <3>1
    <3> QED
      BY <3>1, <3>2, <3>3
  <2> QED
    BY <2>1, <2>2
<1>5. A \o B = Rows(0, m + n)
  <2> DEFINE C == Rows(0, m + n)
  <2>1. C \in Seq(Int) /\ Len(C) = m + n /\ \A i \in 1 .. m + n : C[i] = i - 1
    BY DEF Rows
  <2> HIDE DEF C
  <2>2. A \o B = C
    BY <1>3, <1>4, <2>1, SeqEqual
  <2> QED
    BY <2>2 DEF C
<1> QED
  BY <1>1, <1>5 DEF A, B

LEMMA FrameFields ==
  ASSUME call \in Frames
  PROVE  /\ call # Idle /\ call.pc = "pages" /\ call.start \in Nat
         /\ call.context \in Nat \ {0} /\ call.base \in CounterRecords
<1>1. call.context \in 1 .. UsizeMax
  BY CfrAtlasAssumption DEF Frames
<1>2. call.pc = "pages" /\ call.start \in Nat /\ call.base \in CounterRecords
  BY DEF Frames
<1>3. call # Idle
  BY <1>2 DEF Idle
<1> QED
  BY <1>1, <1>2, <1>3, CfrAtlasAssumption

LEMMA PageFacts ==
  ASSUME Inv, AtPage
  PROVE  /\ call \in Frames /\ call # Idle
         /\ NeededTokens \in Nat \ {0} /\ PageEnd = call.start + NeededTokens
         /\ PageEnd <= call.context
         /\ \/ NeededTokens = PageTokens
            \/ NeededTokens < PageTokens /\ PageEnd = call.context
<1>1. call \in Frames
  BY DEF Inv, TypeInv, AtPage, Idle
<1> QED
  BY <1>1, FrameFields, CfrAtlasAssumption DEF AtPage, PageEnd, NeededTokens

LEMMA AdvanceTyped ==
  ASSUME Inv, AtPage, Advance
  PROVE  call' \in Frames
BY PageFacts DEF Advance, Frames

(* One page further: its tokens are folded and counted, and so is the page. *)
LEMMA AdvanceKeeps ==
  ASSUME Inv, AtPage, TypeInv', TelemetryBalanced', WipeInv', Advance,
         folded' = folded \o Rows(call.start, NeededTokens),
         counters'.consumed_tokens = counters.consumed_tokens + NeededTokens,
         counters'.hot_hits + counters'.cold_regenerations
           = counters.hot_hits + counters.cold_regenerations + 1,
         UNCHANGED <<result, output>>
  PROVE  Inv'
<1>1. /\ call \in Frames /\ call # Idle
      /\ NeededTokens \in Nat \ {0} /\ PageEnd = call.start + NeededTokens
      /\ PageEnd <= call.context
      /\ \/ NeededTokens = PageTokens
         \/ NeededTokens < PageTokens /\ PageEnd = call.context
  BY PageFacts
<1>2. call.start \in Nat /\ call.context \in Nat /\ call.base \in CounterRecords
  BY <1>1, FrameFields
<1>3. /\ call' # Idle /\ call'.start = PageEnd
      /\ call'.context = call.context /\ call'.base = call.base
  BY <1>1 DEF Advance, Frames, Idle
<1>4. /\ folded = Rows(0, call.start)
      /\ counters.consumed_tokens - call.base.consumed_tokens = call.start
      /\ PagesDone \in Nat /\ PagesFill(PagesDone)
      /\ result = [status |-> "none", context |-> call.context]
      /\ counters \in CounterRecords /\ counters' \in CounterRecords
  BY <1>1 DEF Inv, LoopInv, TypeInv
<1>5. folded' = Rows(0, call'.start)
  <2>1. Rows(0, call.start) \o Rows(call.start, NeededTokens) = Rows(0, call.start + NeededTokens)
    BY <1>1, <1>2, RowsJoin
  <2> QED
    BY <1>1, <1>3, <1>4, <2>1
<1>6. counters'.consumed_tokens - call'.base.consumed_tokens = call'.start
  <2>1. /\ counters.consumed_tokens \in Nat /\ call.base.consumed_tokens \in Nat
    BY <1>2, <1>4 DEF CounterRecords
  <2> QED
    BY <1>1, <1>2, <1>3, <1>4, <2>1
<1>7. PagesDone' = PagesDone + 1
  <2>1. /\ counters.hot_hits \in Nat /\ counters.cold_regenerations \in Nat
        /\ call.base.hot_hits \in Nat /\ call.base.cold_regenerations \in Nat
    BY <1>2, <1>4 DEF CounterRecords
  <2>2. PagesDone' = (counters'.hot_hits + counters'.cold_regenerations)
                       - (call.base.hot_hits + call.base.cold_regenerations)
    BY <1>3 DEF PagesDone
  <2> QED
    BY <2>1, <2>2 DEF PagesDone
<1>8. PagesFill(PagesDone)'
  <2>1. PICK n \in Nat : n = PagesDone
    BY <1>4
  <2>2. call.start = n * PageTokens
    BY <1>2, <1>4, <2>1 DEF PagesFill, AtPage
  <2>3. (n + 1) * PageTokens = n * PageTokens + PageTokens
    BY <2>1, CfrAtlasAssumption
  <2>4. PagesDone' = n + 1
    BY <1>7, <2>1
  <2>5. /\ \/ call'.start = (n + 1) * PageTokens
           \/ /\ call'.start = call'.context
              /\ (n + 1) * PageTokens < call'.start + PageTokens
              /\ call'.start < (n + 1) * PageTokens
    BY <1>1, <1>2, <1>3, <2>2, <2>3, CfrAtlasAssumption
  <2> QED
    BY <2>4, <2>5 DEF PagesFill
<1>9. call'.start <= call'.context /\ PagesDone' \in Nat
      /\ result' = [status |-> "none", context |-> call'.context]
  BY <1>1, <1>3, <1>4, <1>7
<1>10. LoopInv'
  BY <1>3, <1>5, <1>6, <1>8, <1>9 DEF LoopInv
<1>11. OutputExact'
  BY DEF Inv, OutputExact
<1> QED
  BY <1>10, <1>11 DEF Inv

(* A call that ends without Ok leaves the caller's output alone.           *)
LEMMA ReturnKeeps ==
  ASSUME Inv, call.pc = "pages", NEW status \in Statuses, Return(status), status # "ok",
         CacheOK(cache'), counters' \in CounterRecords, unbooked' = unbooked,
         TelemetryBalanced', WipeInv', output' = output
  PROVE  Inv'
<1>1. call # Idle
  BY DEF Idle
<1>2. /\ result = [status |-> "none", context |-> call.context]
      /\ result \in [status : Statuses, context : Nat] /\ unbooked \in Int
      /\ output = << >>
  BY <1>1 DEF Inv, LoopInv, TypeInv, OutputExact
<1>3. result' = [status |-> status, context |-> result.context] /\ call' = Idle
  BY <1>2 DEF Return
<1>4. TypeInv'
  BY <1>2, <1>3 DEF TypeInv
<1>5. LoopInv' /\ OutputExact'
  BY <1>2, <1>3 DEF LoopInv, OutputExact
<1> QED
  BY <1>4, <1>5 DEF Inv

(* A call that a client makes in between.                                  *)
LEMMA ClientKeeps ==
  ASSUME Inv, call = Idle, UNCHANGED <<scratch, call, result, output>>,
         CacheOK(cache'), counters' \in CounterRecords, unbooked' \in Int, TelemetryBalanced'
  PROVE  Inv'
BY DEF Inv, TypeInv, LoopInv, OutputExact, WipeInv

(* The stale page is gone, and counted.                                    *)
Balances(c, counted) == Held(c) = counted.cache_admissions - counted.cache_evictions + unbooked

LEMMA FreshFacts ==
  ASSUME Inv, AtPage
  PROVE  /\ CacheOK(FreshCache) /\ Key \notin Lru!Resident(FreshCache)
         /\ \A counted \in {FreshCounters, Regenerated, Consumed} :
              counted \in CounterRecords /\ Balances(FreshCache, counted)
         /\ Consumed.hot_hits = counters.hot_hits
         /\ Consumed.cold_regenerations = counters.cold_regenerations + 1
         /\ Consumed.consumed_tokens = counters.consumed_tokens + NeededTokens
<1>1. CacheOK(cache) /\ counters \in CounterRecords /\ unbooked \in Int
  BY DEF Inv, TypeInv
<1>2. /\ CacheOK(FreshCache)
      /\ Lru!Resident(FreshCache) = Lru!Resident(cache) \ {Key}
  BY <1>1, WithoutFacts DEF FreshCache
<1>3. /\ Held(cache) \in Nat
      /\ Held(FreshCache) = Held(cache) - (IF Stale THEN 1 ELSE 0)
  <2>1. Cardinality(Lru!Resident(cache)) \in Nat
    BY <1>1, FS_CardinalityType DEF CacheOK
  <2>2. Cardinality(Lru!Resident(cache) \ {Key})
          = IF Key \in Lru!Resident(cache) THEN Cardinality(Lru!Resident(cache)) - 1
            ELSE Cardinality(Lru!Resident(cache))
    BY <1>1, FS_RemoveElement DEF CacheOK
  <2> QED
    BY <1>2, <2>1, <2>2 DEF Held, Stale, Resident
<1>4. /\ FreshCounters \in CounterRecords
      /\ FreshCounters.hot_hits = counters.hot_hits
      /\ FreshCounters.cold_regenerations = counters.cold_regenerations
      /\ FreshCounters.consumed_tokens = counters.consumed_tokens
      /\ FreshCounters.cache_admissions = counters.cache_admissions
      /\ FreshCounters.cache_evictions = counters.cache_evictions + (IF Stale THEN 1 ELSE 0)
  BY <1>1 DEF FreshCounters, CounterRecords
<1>5. /\ Regenerated \in CounterRecords
      /\ Regenerated.hot_hits = FreshCounters.hot_hits
      /\ Regenerated.cold_regenerations = FreshCounters.cold_regenerations + 1
      /\ Regenerated.consumed_tokens = FreshCounters.consumed_tokens
      /\ Regenerated.cache_admissions = FreshCounters.cache_admissions
      /\ Regenerated.cache_evictions = FreshCounters.cache_evictions
  BY <1>4 DEF Regenerated, CounterRecords
<1>6. NeededTokens \in Nat
  BY PageFacts
<1>7. /\ Consumed \in CounterRecords
      /\ Consumed.hot_hits = Regenerated.hot_hits
      /\ Consumed.cold_regenerations = Regenerated.cold_regenerations
      /\ Consumed.consumed_tokens = Regenerated.consumed_tokens + NeededTokens
      /\ Consumed.cache_admissions = Regenerated.cache_admissions
      /\ Consumed.cache_evictions = Regenerated.cache_evictions
  BY <1>5, <1>6 DEF Consumed, CounterRecords
<1>8. Balances(FreshCache, FreshCounters)
  <2>1. counters.cache_admissions \in Int /\ counters.cache_evictions \in Int
    BY <1>1 DEF CounterRecords
  <2>2. Held(cache) = counters.cache_admissions - counters.cache_evictions + unbooked
    BY DEF Inv, TelemetryBalanced
  <2> QED
    BY <1>1, <1>3, <1>4, <2>1, <2>2 DEF Balances
<1>9. Balances(FreshCache, Regenerated) /\ Balances(FreshCache, Consumed)
  BY <1>5, <1>7, <1>8 DEF Balances
<1> QED
  BY <1>2, <1>4, <1>5, <1>7, <1>8, <1>9

LEMMA ScratchFacts ==
  ASSUME NEW left, UseScratch(left), WipeScratch => left # "page"
  PROVE  WipeInv'
BY DEF UseScratch, WipeInv

LEMMA ConsumeHotPageKeeps ==
  ASSUME Inv, ConsumeHotPage
  PROVE  Inv'
<1> DEFINE n == NeededTokens
<1>1. AtPage /\ n \in Nat /\ counters \in CounterRecords /\ CacheOK(cache)
  BY PageFacts DEF ConsumeHotPage, Inv, TypeInv
<1>2. /\ counters' = [counters EXCEPT !.hot_hits = @ + 1, !.consumed_tokens = @ + n]
      /\ folded' = folded \o Rows(call.start, n)
      /\ cache' = Lru!Touched(cache, Key)
      /\ Advance /\ UNCHANGED <<scratch, result, output, unbooked>>
  BY DEF ConsumeHotPage, HotMatch
<1> HIDE DEF n
<1>3. /\ counters' \in CounterRecords
      /\ counters'.consumed_tokens = counters.consumed_tokens + n
      /\ counters'.hot_hits = counters.hot_hits + 1
      /\ counters'.cold_regenerations = counters.cold_regenerations
      /\ counters'.cache_admissions = counters.cache_admissions
      /\ counters'.cache_evictions = counters.cache_evictions
  <2>1. counters' = [hot_hits |-> counters.hot_hits + 1,
                     cold_regenerations |-> counters.cold_regenerations,
                     cache_admissions |-> counters.cache_admissions,
                     cache_admission_rejections |-> counters.cache_admission_rejections,
                     cache_evictions |-> counters.cache_evictions,
                     consumed_tokens |-> counters.consumed_tokens + n]
    BY <1>1, <1>2 DEF CounterRecords
  <2> QED
    BY <1>1, <2>1 DEF CounterRecords
<1>4. CacheOK(cache') /\ Held(cache') = Held(cache)
  BY <1>1, <1>2, TouchedFacts DEF Held
<1>5. TelemetryBalanced' /\ WipeInv'
  BY <1>2, <1>3, <1>4 DEF Inv, TelemetryBalanced, WipeInv
<1>6. counters'.hot_hits + counters'.cold_regenerations
        = counters.hot_hits + counters.cold_regenerations + 1
  BY <1>1, <1>3 DEF CounterRecords
<1>7. TypeInv'
  <2>1. call' \in Frames
    BY <1>1, <1>2, AdvanceTyped
  <2> QED
    BY <1>2, <1>3, <1>4, <2>1 DEF Inv, TypeInv
<1> QED
  BY <1>1, <1>2, <1>3, <1>5, <1>6, <1>7, AdvanceKeeps DEF n

(* A page that was regenerated and folded, whether the cache takes it or   *)
(* not.                                                                    *)
LEMMA FoldedKeeps ==
  ASSUME Inv, Folded, Advance, UNCHANGED result,
         CacheOK(cache'), counters' \in CounterRecords, Balances(cache', counters'),
         counters'.hot_hits = Consumed.hot_hits,
         counters'.cold_regenerations = Consumed.cold_regenerations,
         counters'.consumed_tokens = Consumed.consumed_tokens
  PROVE  Inv'
<1>1. AtPage /\ UseScratch(Wiped) /\ UNCHANGED <<output, unbooked>>
      /\ folded' = folded \o Rows(call.start, NeededTokens)
  BY DEF Folded, ColdPage
<1>2. TypeInv'
  <2>1. call' \in Frames
    BY <1>1, AdvanceTyped
  <2> QED
    BY <1>1, <2>1 DEF Inv, TypeInv
<1>3. TelemetryBalanced'
  BY <1>1 DEF TelemetryBalanced, Balances
<1>4. WipeInv'
  BY <1>1, ScratchFacts DEF Wiped
<1>5. /\ counters'.consumed_tokens = counters.consumed_tokens + NeededTokens
      /\ counters'.hot_hits + counters'.cold_regenerations
           = counters.hot_hits + counters.cold_regenerations + 1
  <2>1. counters.hot_hits \in Nat /\ counters.cold_regenerations \in Nat
    BY DEF Inv, TypeInv, CounterRecords
  <2> QED
    BY <1>1, <2>1, FreshFacts
<1> QED
  BY <1>1, <1>2, <1>3, <1>4, <1>5, AdvanceKeeps

LEMMA AdmissionFacts ==
  ASSUME Inv, AtPage
  PROVE  LET outcome == InsertOutcome(FreshCache, Key, Page(NeededTokens, HeadDim))
             counted == Booked(Consumed, outcome)
         IN  /\ CacheOK(outcome.cache) /\ counted \in CounterRecords
             /\ Balances(outcome.cache, counted)
             /\ counted.hot_hits = Consumed.hot_hits
             /\ counted.cold_regenerations = Consumed.cold_regenerations
             /\ counted.consumed_tokens = Consumed.consumed_tokens
<1> DEFINE page == Page(NeededTokens, HeadDim)
           outcome == InsertOutcome(FreshCache, Key, page)
           counted == Booked(Consumed, outcome)
<1>1. /\ CacheOK(FreshCache) /\ Key \notin Lru!Resident(FreshCache)
      /\ Consumed \in CounterRecords /\ Balances(FreshCache, Consumed)
  BY FreshFacts
<1>2. /\ outcome.kind \in {"rejected", "overflow", "inserted"}
      /\ CacheOK(outcome.cache)
      /\ outcome.evicted \in Nat
      /\ outcome.kind # "inserted" => outcome.evicted = 0
      /\ Held(FreshCache) \in Nat
      /\ Held(outcome.cache) = Held(FreshCache) - outcome.evicted
                                 + Gained(outcome, Key, FreshCache)
  <2> HIDE DEF page
  <2> QED
    BY <1>1, InsertOutcomeFacts
<1> HIDE DEF outcome
<1>3. /\ counted \in CounterRecords
      /\ counted.hot_hits = Consumed.hot_hits
      /\ counted.cold_regenerations = Consumed.cold_regenerations
      /\ counted.consumed_tokens = Consumed.consumed_tokens
      /\ counted.cache_admissions - counted.cache_evictions
           = Consumed.cache_admissions - Consumed.cache_evictions - outcome.evicted
               + (IF outcome.kind = "inserted" THEN 1 ELSE 0)
  BY <1>1, <1>2, BookedFacts
<1> HIDE DEF counted
<1>4. Balances(outcome.cache, counted)
  <2>1. /\ Consumed.cache_admissions \in Int /\ Consumed.cache_evictions \in Int
        /\ counted.cache_admissions \in Int /\ counted.cache_evictions \in Int
        /\ unbooked \in Int
    BY <1>1, <1>3 DEF CounterRecords, Inv, TypeInv
  <2>2. Gained(outcome, Key, FreshCache) = IF outcome.kind = "inserted" THEN 1 ELSE 0
    BY <1>1 DEF Gained
  <2> QED
    BY <1>1, <1>2, <1>3, <2>1, <2>2 DEF Balances
<1> QED
  BY <1>2, <1>3, <1>4 DEF outcome, counted

LEMMA AdmitColdPageKeeps ==
  ASSUME Inv, AdmitColdPage
  PROVE  Inv'
<1> DEFINE outcome == InsertOutcome(FreshCache, Key, Page(NeededTokens, HeadDim))
           counted == Booked(Consumed, outcome)
<1>1. Folded /\ AtPage /\ call.pc = "pages"
  BY DEF AdmitColdPage, Folded, ColdPage, AtPage
<1>2. /\ cache' = outcome.cache /\ counters' = counted
      /\ outcome.kind = "overflow" => Return("admission")
      /\ outcome.kind # "overflow" => Advance /\ UNCHANGED result
  BY DEF AdmitColdPage
<1>3. /\ CacheOK(outcome.cache) /\ counted \in CounterRecords
      /\ Balances(outcome.cache, counted)
      /\ counted.hot_hits = Consumed.hot_hits
      /\ counted.cold_regenerations = Consumed.cold_regenerations
      /\ counted.consumed_tokens = Consumed.consumed_tokens
  BY <1>1, AdmissionFacts
<1> HIDE DEF outcome, counted
<1>4. CASE outcome.kind = "overflow"
  <2>1. UNCHANGED <<output, unbooked>> /\ UseScratch(Wiped)
    BY <1>1 DEF Folded
  <2>2. WipeInv'
    BY <2>1, ScratchFacts DEF Wiped
  <2>3. TelemetryBalanced'
    BY <1>2, <1>3, <2>1 DEF TelemetryBalanced, Balances
  <2>4. CacheOK(cache') /\ counters' \in CounterRecords
    BY <1>2, <1>3
  <2>5. "admission" \in Statuses /\ "admission" # "ok"
    BY DEF Statuses
  <2>6. Return("admission")
    BY <1>2, <1>4
  <2> QED
    BY <1>1, <2>1, <2>2, <2>3, <2>4, <2>5, <2>6, ReturnKeeps
<1>5. CASE outcome.kind # "overflow"
  BY <1>1, <1>2, <1>3, <1>5, FoldedKeeps
<1> QED
  BY <1>4, <1>5

LEMMA DropColdPageKeeps ==
  ASSUME Inv, DropColdPage
  PROVE  Inv'
<1>1. Folded /\ AtPage /\ Advance /\ UNCHANGED result
      /\ cache' = FreshCache /\ counters' = Consumed
  BY DEF DropColdPage, Folded, ColdPage
<1> QED
  BY <1>1, FreshFacts, FoldedKeeps

(* The page is gone on which a call fails before it was folded.            *)
LEMMA ColdPageFailsKeeps ==
  ASSUME Inv, RegenerationFails \/ RegenerationPanics \/ ConsumeColdPageFails
  PROVE  Inv'
<1>1. /\ AtPage /\ call.pc = "pages" /\ cache' = FreshCache
      /\ counters' \in {FreshCounters, Regenerated} /\ UNCHANGED <<output, unbooked>>
  BY DEF RegenerationFails, RegenerationPanics, ConsumeColdPageFails, ColdPage, AtPage
<1>2. PICK status \in {"regenerator", "panic", "regenerated_page", "query"} : Return(status)
  BY DEF RegenerationFails, RegenerationPanics, ConsumeColdPageFails
<1>3. WipeInv'
  <2>1. UseScratch(Wiped) \/ UseScratch("abandoned")
    BY DEF RegenerationFails, RegenerationPanics, ConsumeColdPageFails
  <2> QED
    BY <2>1, ScratchFacts DEF Wiped
<1>4. CacheOK(cache') /\ counters' \in CounterRecords /\ Balances(cache', counters')
  BY <1>1, FreshFacts
<1>5. TelemetryBalanced'
  BY <1>1, <1>4 DEF TelemetryBalanced, Balances
<1>6. status \in Statuses /\ status # "ok"
  BY <1>2 DEF Statuses
<1> QED
  BY <1>1, <1>2, <1>3, <1>4, <1>5, <1>6, ReturnKeeps

(* Calls that fail on a hot page, or with nothing done to a page.          *)
LEMMA OtherFailsKeeps ==
  ASSUME Inv, AttendOverflows \/ ConsumeHotPageFails \/ AttendFinishFails
  PROVE  Inv'
<1>1. /\ call.pc = "pages" /\ UNCHANGED <<counters, output, unbooked, scratch>>
      /\ cache' = cache \/ cache' = Lru!Touched(cache, Key)
  BY DEF AttendOverflows, ConsumeHotPageFails, AttendFinishFails, AtPage
<1>2. PICK status \in {"page_end_overflow", "hot_page_shape", "query", "output_range"} :
        Return(status)
  BY DEF AttendOverflows, ConsumeHotPageFails, AttendFinishFails
<1>3. CacheOK(cache') /\ counters' \in CounterRecords /\ Held(cache') = Held(cache)
  BY <1>1, TouchedFacts DEF Inv, TypeInv, Held
<1>4. TelemetryBalanced' /\ WipeInv'
  BY <1>1, <1>3 DEF Inv, TelemetryBalanced, WipeInv
<1>5. status \in Statuses /\ status # "ok"
  BY <1>2 DEF Statuses
<1> QED
  BY <1>1, <1>2, <1>3, <1>4, <1>5, ReturnKeeps

LEMMA AttendFinishKeeps ==
  ASSUME Inv, AttendFinish
  PROVE  Inv'
<1>1. call \in Frames /\ call # Idle
  BY DEF Inv, TypeInv, AttendFinish, Idle
<1>2. call.start = call.context
  BY <1>1, FrameFields DEF Inv, LoopInv, AttendFinish
<1>3. /\ result = [status |-> "none", context |-> call.context]
      /\ folded = Rows(0, call.context)
  BY <1>1, <1>2 DEF Inv, LoopInv
<1>4. result' = [status |-> "ok", context |-> call.context] /\ call' = Idle /\ output' = folded
  BY <1>3 DEF AttendFinish, Return
<1>5. OutputExact' /\ LoopInv'
  BY <1>3, <1>4 DEF OutputExact, LoopInv, Rows
<1>6. TypeInv'
  BY <1>1, <1>4, FrameFields DEF AttendFinish, Inv, TypeInv, Statuses
<1>7. TelemetryBalanced' /\ WipeInv'
  BY DEF AttendFinish, Inv, TelemetryBalanced, WipeInv, Held
<1> QED
  BY <1>5, <1>6, <1>7 DEF Inv

LEMMA AttendStepKeeps ==
  ASSUME Inv, AttendStep
  PROVE  Inv'
BY ConsumeHotPageKeeps, DropColdPageKeeps, AdmitColdPageKeeps, ColdPageFailsKeeps,
   OtherFailsKeeps, AttendFinishKeeps DEF AttendStep

-----------------------------------------------------------------------------
(* The calls of a client.                                                  *)

LEMMA AttendRefusedKeeps ==
  ASSUME Inv, AttendRefused
  PROVE  Inv'
<1>1. /\ UNCHANGED <<cache, scratch, counters, call, unbooked>> /\ call = Idle
      /\ result' = [status |-> "refused", context |-> 0] /\ output' = << >>
  BY DEF AttendRefused, ClientCall
<1> QED
  BY <1>1 DEF Inv, TypeInv, LoopInv, OutputExact, TelemetryBalanced, WipeInv, Statuses, Held

LEMMA AttendBeginKeeps ==
  ASSUME Inv, NEW stream \in Streams, NEW context \in Contexts, NEW policy \in Policies,
         NEW query \in {"finite", "non_finite"}, AttendBegin(stream, context, policy, query)
  PROVE  Inv'
<1>1. /\ UNCHANGED <<cache, scratch, counters, unbooked>>
      /\ folded' = << >> /\ output' = << >>
      /\ result' = [status |-> "none", context |-> context]
      /\ call' = [pc |-> "pages", stream |-> stream, context |-> context, start |-> 0,
                  policy |-> policy, query |-> query, base |-> counters]
  BY DEF AttendBegin
<1>2. context \in Nat \ {0}
  <2>1. context \in 1 .. UsizeMax
    BY CfrAtlasAssumption
  <2> QED
    BY <2>1, CfrAtlasAssumption
<1>3. TypeInv'
  BY <1>1, <1>2 DEF Inv, TypeInv, Frames, Statuses
<1>4. PagesDone' = 0 /\ counters.consumed_tokens - counters.consumed_tokens = 0
  BY <1>1 DEF Inv, TypeInv, CounterRecords, PagesDone
<1>5. PagesFill(PagesDone)'
  BY <1>1, <1>4, CfrAtlasAssumption DEF PagesFill
<1>6. LoopInv'
  BY <1>1, <1>2, <1>4, <1>5 DEF LoopInv, Rows
<1>7. OutputExact' /\ TelemetryBalanced' /\ WipeInv'
  BY <1>1 DEF Inv, OutputExact, TelemetryBalanced, WipeInv, Held
<1> QED
  BY <1>3, <1>6, <1>7 DEF Inv

(* The number of resident pages is one.                                    *)
LEMMA HeldIsNat ==
  ASSUME NEW c, CacheOK(c)
  PROVE  Held(c) \in Nat
BY FS_CardinalityType DEF CacheOK, Held

LEMMA InsertHotPageKeeps ==
  ASSUME Inv, NEW key, NEW tokens, InsertHotPage(key, tokens)
  PROVE  Inv'
<1> DEFINE page == Page(tokens, HeadDim)
           outcome == InsertOutcome(cache, key, page)
           counted == Booked(counters, outcome)
<1>1. CacheOK(cache) /\ counters \in CounterRecords /\ unbooked \in Int
  BY DEF Inv, TypeInv
<1>2. /\ call = Idle /\ cache' = outcome.cache /\ counters' = counted
      /\ UNCHANGED <<scratch, call, result, output>>
      /\ unbooked' = unbooked - (IF outcome.kind = "inserted" /\ key \in Resident THEN 1 ELSE 0)
  BY DEF InsertHotPage, ClientCall
<1>3. /\ outcome.kind \in {"rejected", "overflow", "inserted"}
      /\ CacheOK(outcome.cache)
      /\ outcome.evicted \in Nat
      /\ outcome.kind # "inserted" => outcome.evicted = 0
      /\ Held(cache) \in Nat
      /\ Held(outcome.cache) = Held(cache) - outcome.evicted + Gained(outcome, key, cache)
  <2> HIDE DEF page
  <2> QED
    BY <1>1, InsertOutcomeFacts
<1> HIDE DEF outcome
<1>4. /\ counted \in CounterRecords
      /\ counted.cache_admissions - counted.cache_evictions
           = counters.cache_admissions - counters.cache_evictions - outcome.evicted
               + (IF outcome.kind = "inserted" THEN 1 ELSE 0)
  BY <1>1, <1>3, BookedFacts
<1> HIDE DEF counted
<1>5. TelemetryBalanced'
  <2>1. /\ counters.cache_admissions \in Int /\ counters.cache_evictions \in Int
        /\ counted.cache_admissions \in Int /\ counted.cache_evictions \in Int
    BY <1>1, <1>4 DEF CounterRecords
  <2>2. Held(cache) = counters.cache_admissions - counters.cache_evictions + unbooked
    BY DEF Inv, TelemetryBalanced
  <2>3. CASE outcome.kind = "inserted" /\ key \in Resident
    <3>1. Gained(outcome, key, cache) = 0
      BY <2>3 DEF Gained, Resident
    <3> QED
      BY <1>1, <1>2, <1>3, <1>4, <2>1, <2>2, <2>3, <3>1 DEF TelemetryBalanced
  <2>4. CASE ~(outcome.kind = "inserted" /\ key \in Resident)
    <3>1. Gained(outcome, key, cache) = IF outcome.kind = "inserted" THEN 1 ELSE 0
      BY <2>4 DEF Gained, Resident
    <3> QED
      BY <1>1, <1>2, <1>3, <1>4, <2>1, <2>2, <2>4, <3>1 DEF TelemetryBalanced
  <2> QED
    BY <2>3, <2>4
<1>6. unbooked' \in Int /\ CacheOK(cache') /\ counters' \in CounterRecords
  BY <1>1, <1>2, <1>3, <1>4
<1> QED
  BY <1>2, <1>5, <1>6, ClientKeeps

(* A budget change: what it evicts is counted, lifting it evicts nothing.  *)
LEMMA BudgetCallKeeps ==
  ASSUME Inv, NEW layer, NEW bytes,
         SetLayerHotCacheBytes(layer, bytes) \/ ClearLayerHotCacheBytes(layer)
  PROVE  Inv'
<1>1. CacheOK(cache) /\ counters \in CounterRecords /\ unbooked \in Int
      /\ Held(cache) = counters.cache_admissions - counters.cache_evictions + unbooked
  BY DEF Inv, TypeInv, TelemetryBalanced
<1>2. /\ call = Idle /\ UNCHANGED <<scratch, call, result, output, unbooked>>
      /\ cache' \in {Lru!Budgeted(cache, layer, bytes), Lru!Unbudgeted(cache, layer)}
  BY DEF SetLayerHotCacheBytes, ClearLayerHotCacheBytes, ClientCall
<1>3. CacheOK(cache') /\ Held(cache) \in Nat /\ Held(cache') \in Nat
  BY <1>1, <1>2, BudgetFacts, HeldIsNat
<1>4. /\ counters' \in CounterRecords
      /\ counters'.cache_admissions = counters.cache_admissions
      /\ counters'.cache_evictions = counters.cache_evictions + Held(cache) - Held(cache')
  <2>1. CASE SetLayerHotCacheBytes(layer, bytes)
    <3>1. counters' = [counters EXCEPT !.cache_evictions = @ + Held(cache) - Held(cache')]
      BY <2>1 DEF SetLayerHotCacheBytes
    <3> QED
      BY <1>1, <1>3, <3>1 DEF CounterRecords
  <2>2. CASE ClearLayerHotCacheBytes(layer)
    <3>1. counters' = counters /\ Held(cache') = Held(cache)
      BY <1>1, <2>2, BudgetFacts DEF ClearLayerHotCacheBytes, Held
    <3>2. counters.cache_evictions \in Int
      BY <1>1 DEF CounterRecords
    <3> QED
      BY <1>1, <1>3, <3>1, <3>2
  <2> QED
    BY <2>1, <2>2
<1>5. TelemetryBalanced'
  <2>1. counters.cache_admissions \in Int /\ counters.cache_evictions \in Int
    BY <1>1 DEF CounterRecords
  <2> QED
    BY <1>1, <1>2, <1>3, <1>4, <2>1 DEF TelemetryBalanced
<1> QED
  BY <1>1, <1>2, <1>3, <1>4, <1>5, ClientKeeps

LEMMA ResetCountersKeeps ==
  ASSUME Inv, ResetCounters
  PROVE  Inv'
<1>1. /\ call = Idle /\ UNCHANGED <<cache, scratch, call, result, output>>
      /\ counters' = ZeroCounters /\ unbooked' = Held(cache)
  BY DEF ResetCounters, ClientCall
<1>2. CacheOK(cache') /\ Held(cache) \in Nat /\ Held(cache') = Held(cache)
  BY <1>1, HeldIsNat DEF Inv, TypeInv, Held
<1>3. counters' \in CounterRecords /\ TelemetryBalanced'
  BY <1>1, <1>2 DEF ZeroCounters, CounterRecords, TelemetryBalanced
<1> QED
  BY <1>1, <1>2, <1>3, ClientKeeps

(* Whatever a client does to the cache directly leaves a cache.            *)
LEMMA UseHotCacheMutKeeps ==
  ASSUME Inv, UseHotCacheMut
  PROVE  Inv'
<1>1. CacheOK(cache) /\ counters \in CounterRecords /\ unbooked \in Int
      /\ Held(cache) = counters.cache_admissions - counters.cache_evictions + unbooked
  BY DEF Inv, TypeInv, TelemetryBalanced
<1>2. /\ call = Idle /\ UNCHANGED <<scratch, call, result, output, counters>>
      /\ unbooked' = unbooked + Held(cache') - Held(cache)
  BY DEF UseHotCacheMut, ClientCall
<1>3. CacheOK(cache')
  <2>1. ASSUME NEW key, NEW page, cache' = InsertOutcome(cache, key, page).cache
        PROVE  CacheOK(cache')
    BY <1>1, <2>1, InsertOutcomeFacts
  <2>2. ASSUME NEW S, cache' = Lru!Without(cache, S)
        PROVE  CacheOK(cache')
    BY <1>1, <2>2, WithoutFacts
  <2>3. ASSUME NEW key, cache' = Lru!Touched(cache, key)
        PROVE  CacheOK(cache')
    BY <1>1, <2>3, TouchedFacts
  <2>4. ASSUME NEW layer, NEW bytes, cache' = Lru!Budgeted(cache, layer, bytes)
        PROVE  CacheOK(cache')
    BY <1>1, <2>4, BudgetFacts
  <2>5. \/ \E key, page : cache' = InsertOutcome(cache, key, page).cache
        \/ \E S : cache' = Lru!Without(cache, S)
        \/ \E key : cache' = Lru!Touched(cache, key)
        \/ \E layer, bytes : cache' = Lru!Budgeted(cache, layer, bytes)
    BY Zenon DEF UseHotCacheMut, Lru!Cleared
  <2> QED
    BY <2>1, <2>2, <2>3, <2>4, <2>5
<1>4. Held(cache) \in Nat /\ Held(cache') \in Nat
  BY <1>1, <1>3, HeldIsNat
<1>5. TelemetryBalanced'
  <2>1. counters.cache_admissions \in Int /\ counters.cache_evictions \in Int
    BY <1>1 DEF CounterRecords
  <2> QED
    BY <1>1, <1>2, <1>4, <2>1 DEF TelemetryBalanced
<1> QED
  BY <1>1, <1>2, <1>3, <1>4, <1>5, ClientKeeps

-----------------------------------------------------------------------------
LEMMA InitInv == Init => Inv
<1> SUFFICES ASSUME Init PROVE Inv
  OBVIOUS
<1>1. CacheOK(cache) /\ Held(cache) = 0
  <2>1. /\ cache = [pages |-> [k \in {} |-> k], older |-> {}, budgets |-> [l \in {} |-> l]]
    BY DEF Init, Lru!EmptyCache
  <2>2. Lru!Resident(cache) = {}
    BY <2>1 DEF Lru!Resident
  <2> QED
    BY <2>1, <2>2, FS_EmptySet DEF CacheOK, Held
<1>2. TypeInv /\ LoopInv /\ OutputExact /\ TelemetryBalanced /\ WipeInv
  BY <1>1 DEF Init, TypeInv, LoopInv, OutputExact, TelemetryBalanced, WipeInv, ZeroCounters,
     CounterRecords, Statuses
<1> QED
  BY <1>2 DEF Inv

LEMMA NextInv == Inv /\ [Next]_vars => Inv'
<1> SUFFICES ASSUME Inv, [Next]_vars PROVE Inv'
  OBVIOUS
<1>1. CASE AttendRefused
  BY <1>1, AttendRefusedKeeps
<1>2. ASSUME NEW stream \in Streams, NEW context \in Contexts, NEW policy \in Policies,
             NEW query \in {"finite", "non_finite"}, AttendBegin(stream, context, policy, query)
      PROVE  Inv'
  BY <1>2, AttendBeginKeeps
<1>3. CASE AttendStep
  BY <1>3, AttendStepKeeps
<1>4. ASSUME NEW key \in PageKeys, NEW tokens \in PageSizes, InsertHotPage(key, tokens)
      PROVE  Inv'
  BY <1>4, InsertHotPageKeeps
<1>5. ASSUME NEW layer \in Layers,
             (\E bytes \in LayerBudgets : SetLayerHotCacheBytes(layer, bytes))
               \/ ClearLayerHotCacheBytes(layer)
      PROVE  Inv'
  BY <1>5, BudgetCallKeeps
<1>6. CASE ResetCounters
  BY <1>6, ResetCountersKeeps
<1>7. CASE UseHotCacheMut
  BY <1>7, UseHotCacheMutKeeps
<1>8. CASE UNCHANGED vars
  BY <1>8 DEF vars, Inv, TypeInv, LoopInv, PagesDone, PagesFill, OutputExact, TelemetryBalanced,
     WipeInv, Held
<1> QED
  BY <1>1, <1>2, <1>3, <1>4, <1>5, <1>6, <1>7, <1>8 DEF Next

LEMMA Inductive == Spec => []Inv
BY InitInv, NextInv, PTL DEF Spec

-----------------------------------------------------------------------------
(* Attention is exact whatever the cache held and did, for contexts and    *)
(* pages of any length and after any calls before, failed ones among them: *)
(* a call that returns Ok has folded every token of its context once and   *)
(* in order, and another leaves the caller's output alone.                 *)
THEOREM AttentionIsExact == Spec => []OutputExact
BY Inductive, PTL DEF Inv

(* A number is the quotient of whatever it fills up to.                    *)
LEMMA QuotientIs ==
  ASSUME NEW n \in Nat, NEW a \in Nat, NEW b \in Nat \ {0}, b * n <= a, a < b * n + b
  PROVE  a \div b = n
<1> DEFINE d == a \div b
<1>1. d \in Nat /\ b * d <= a /\ a < b * d + b
  BY SMT
<1> HIDE DEF d
<1>2. ASSUME d < n PROVE FALSE
  <2>1. b * (d + 1) <= b * n
    BY <1>1, <1>2, SMT
  <2> QED
    BY <1>1, <2>1, SMT
<1>3. ASSUME n < d PROVE FALSE
  <2>1. b * (n + 1) <= b * d
    BY <1>1, <1>3, SMT
  <2> QED
    BY <1>1, <2>1, SMT
<1>4. d = n
  BY <1>1, <1>2, <1>3, SMT
<1> QED
  BY <1>4 DEF d

(* What stats() tells of the work and of the pages is true at every page   *)
(* of every call, and the pages of a context are as many as its tokens     *)
(* need.                                                                   *)
THEOREM CountersAreTrue == Spec => []CountersTrue
<1>1. Inv => CountersTrue
  <2> SUFFICES ASSUME Inv, call # Idle
               PROVE  WorkAccounted
    BY DEF Inv, CountersTrue, WorkAccounted
  <2>1. /\ call.start \in Nat /\ folded = Rows(0, call.start)
        /\ counters.consumed_tokens - call.base.consumed_tokens = call.start
        /\ PagesDone \in Nat /\ PagesFill(PagesDone)
    BY FrameFields DEF Inv, TypeInv, LoopInv
  <2>2. Len(folded) = call.start
    BY <2>1, RowsJoin
  <2>3. (call.start + PageTokens - 1) \div PageTokens = PagesDone
    <3>1. PICK n \in Nat, p \in Nat \ {0}, s \in Nat :
            n = PagesDone /\ p = PageTokens /\ s = call.start
      BY <2>1, CfrAtlasAssumption
    <3>2. p * n \in Nat /\ n * p = p * n
      BY <3>1
    <3>3. p * n <= s + p - 1 /\ s + p - 1 < p * n + p /\ s + p - 1 \in Nat
      BY <2>1, <3>1, <3>2 DEF PagesFill
    <3> QED
      BY <3>1, <3>3, QuotientIs
  <2> QED
    BY <2>1, <2>2, <2>3 DEF WorkAccounted, PagesDone
<1> QED
  BY <1>1, Inductive, PTL

(* With wiping configured, no return path of any call leaves a page in     *)
(* scratch.                                                                *)
THEOREM ScratchIsWiped == Spec => []ScratchWiped
<1>1. Inv => ScratchWiped
  BY DEF Inv, WipeInv, ScratchWiped
<1> QED
  BY <1>1, Inductive, PTL

-----------------------------------------------------------------------------
(* What a call leaves behind.                                              *)
(*                                                                         *)
(* The bytes of a set of pages, as the elements of a set.                  *)
Cells(c, S) == UNION {{k} \X (1 .. c.pages[k].bytes) : k \in S}

Weight(c, S) == Cardinality(Cells(c, S))

(* A page of rows of the atlas's own width.                                *)
PageOK(page) == page.bytes \in Nat /\ page.bytes = page.tokens * HeadDim

Sized(c) == CacheOK(c) /\ \A k \in Lru!Resident(c) : PageOK(c.pages[k])

(* A strict total order of the elements of S.                              *)
OrderedBy(older, S) ==
  /\ older \subseteq S \X S
  /\ \A j, k \in S : <<j, k>> \in older => <<k, j>> \notin older
  /\ \A i, j, k \in S : <<i, j>> \in older /\ <<j, k>> \in older => <<i, k>> \in older
  /\ \A j, k \in S : j = k \/ <<j, k>> \in older \/ <<k, j>> \in older

(* What every operation leaves behind: pages of the right shape, each      *)
(* older or younger than every other, and within the budget.               *)
Sound(c) ==
  /\ Sized(c)
  /\ OrderedBy(c.older, Lru!Resident(c))
  /\ Lru!UsedBytes(c) <= MaxBytes

LEMMA RowCells ==
  ASSUME NEW k, NEW n \in Nat
  PROVE  IsFiniteSet({k} \X (1 .. n)) /\ Cardinality({k} \X (1 .. n)) = n
<1>1. IsFiniteSet(1 .. n) /\ Cardinality(1 .. n) = n
  <2>1. 1 \in Int /\ n \in Int
    OBVIOUS
  <2>2. /\ IsFiniteSet(1 .. n)
        /\ Cardinality(1 .. n) = IF 1 > n THEN 0 ELSE n - 1 + 1
    BY <2>1, FS_Interval, Zenon
  <2> QED
    BY <2>2
<1>2. IsFiniteSet({k}) /\ Cardinality({k}) = 1
  BY FS_Singleton, Zenon
<1>3. /\ IsFiniteSet({k} \X (1 .. n))
      /\ Cardinality({k} \X (1 .. n)) = Cardinality({k}) * Cardinality(1 .. n)
  BY <1>1, <1>2, FS_Product, Zenon
<1> QED
  BY <1>1, <1>2, <1>3

LEMMA WeightFinite ==
  ASSUME NEW c, Sized(c), NEW S \in SUBSET Lru!Resident(c)
  PROVE  IsFiniteSet(S) /\ IsFiniteSet(Cells(c, S)) /\ Weight(c, S) \in Nat
<1>1. IsFiniteSet(S)
  BY FS_Subset DEF Sized, CacheOK
<1>2. \A k \in S : IsFiniteSet({k} \X (1 .. c.pages[k].bytes))
  <2>1. \A k \in S : c.pages[k].bytes \in Nat
    BY DEF Sized, PageOK
  <2> QED
    BY <2>1, RowCells
<1>3. IsFiniteSet({{k} \X (1 .. c.pages[k].bytes) : k \in S})
  <2> DEFINE row == [k \in S |-> {k} \X (1 .. c.pages[k].bytes)]
  <2>1. row \in Surjection(S, {{k} \X (1 .. c.pages[k].bytes) : k \in S})
    BY DEF Surjection
  <2> QED
    BY <1>1, <2>1, FS_Surjection
<1>4. IsFiniteSet(Cells(c, S))
  BY <1>2, <1>3, FS_UNION DEF Cells
<1> QED
  BY <1>1, <1>4, FS_CardinalityType DEF Weight

(* More pages have more bytes.                                             *)
LEMMA WeightGrows ==
  ASSUME NEW c, Sized(c), NEW S \in SUBSET Lru!Resident(c), NEW T \in SUBSET S
  PROVE  Weight(c, T) <= Weight(c, S)
<1>1. Cells(c, T) \subseteq Cells(c, S)
  BY DEF Cells
<1>2. IsFiniteSet(Cells(c, S))
  BY WeightFinite
<1> QED
  BY <1>1, <1>2, FS_Subset DEF Weight

(* One page more.                                                          *)
LEMMA WeightOf ==
  ASSUME NEW c, Sized(c), NEW S \in SUBSET Lru!Resident(c), NEW k \in S
  PROVE  Weight(c, S) = c.pages[k].bytes + Weight(c, S \ {k})
<1> DEFINE A == Cells(c, S \ {k})
           B == {k} \X (1 .. c.pages[k].bytes)
<1>1. Cells(c, S) = A \cup B /\ A \cap B = {}
  BY DEF Cells
<1>2. IsFiniteSet(B) /\ Cardinality(B) = c.pages[k].bytes /\ Cardinality(B) \in Nat
  <2>1. c.pages[k].bytes \in Nat
    BY DEF Sized, PageOK
  <2> QED
    BY <2>1, RowCells
<1>3. IsFiniteSet(A) /\ Cardinality(A) \in Nat
  <2>1. S \ {k} \in SUBSET Lru!Resident(c)
    OBVIOUS
  <2> QED
    BY <2>1, WeightFinite, FS_CardinalityType
<1> HIDE DEF A, B
<1>4. Cardinality(A \cup B) = Cardinality(A) + Cardinality(B)
  <2>1. Cardinality(A \cup B) = Cardinality(A) + Cardinality(B) - Cardinality(A \cap B)
    BY <1>2, <1>3, FS_Union
  <2>2. Cardinality(A \cap B) = 0
    BY <1>1, FS_EmptySet
  <2> QED
    BY <1>2, <1>3, <2>1, <2>2
<1> QED
  BY <1>1, <1>2, <1>3, <1>4 DEF Weight, A

(* The sum by which LruCache counts bytes counts them.                     *)
LEMMA BytesAreCells ==
  ASSUME NEW c, Sized(c), NEW S \in SUBSET Lru!Resident(c)
  PROVE  Lru!BytesOf(c, S) = Weight(c, S)
<1> DEFINE any(s) == CHOOSE x \in s : TRUE
           Iterates(f) ==
             f = [s \in SUBSET S |->
                    IF s = {} THEN 0 ELSE LET x == any(s) IN c.pages[x].bytes + f[s \ {x}]]
           it == CHOOSE f : Iterates(f)
           weights == [s \in SUBSET S |-> Weight(c, s)]
<1>1. Lru!BytesOf(c, S) = it[S]
  BY Zenon DEF Lru!BytesOf, Lru!MapThenSumSet, Lru!MapThenFoldSet
<1>2. \A s \in SUBSET S : s # {} =>
        any(s) \in s /\ Weight(c, s) = c.pages[any(s)].bytes + Weight(c, s \ {any(s)})
  <2> SUFFICES ASSUME NEW s \in SUBSET S, s # {}
               PROVE  any(s) \in s /\ Weight(c, s) = c.pages[any(s)].bytes + Weight(c, s \ {any(s)})
    OBVIOUS
  <2>1. any(s) \in s /\ s \in SUBSET Lru!Resident(c)
    OBVIOUS
  <2> HIDE DEF any
  <2> QED
    BY <2>1, WeightOf
<1> HIDE DEF any
<1>3. Weight(c, {}) = 0
  BY FS_EmptySet DEF Weight, Cells
<1>4. Iterates(weights)
  <2>1. \A s \in SUBSET S : Weight(c, s) =
          IF s = {} THEN 0 ELSE c.pages[any(s)].bytes + weights[s \ {any(s)}]
    BY <1>2, <1>3
  <2> QED
    BY <2>1
<1>5. Iterates(it)
  <2> HIDE DEF Iterates, weights
  <2> QED
    BY <1>4
<1> HIDE DEF it
<1>6. \A s \in SUBSET S : it[s] = IF s = {} THEN 0 ELSE c.pages[any(s)].bytes + it[s \ {any(s)}]
  BY <1>5
<1>7. ASSUME NEW n \in Nat, \A s \in SUBSET S : Cardinality(s) < n => it[s] = Weight(c, s)
      PROVE  \A s \in SUBSET S : Cardinality(s) = n => it[s] = Weight(c, s)
  <2> SUFFICES ASSUME NEW s \in SUBSET S, Cardinality(s) = n, s # {}
               PROVE  it[s] = Weight(c, s)
    BY <1>3, <1>6
  <2>1. IsFiniteSet(s) /\ Cardinality(s \ {any(s)}) = Cardinality(s) - 1
    <3>1. s \in SUBSET Lru!Resident(c) /\ any(s) \in s
      BY <1>2
    <3> QED
      BY <3>1, WeightFinite, FS_RemoveElement
  <2>2. it[s \ {any(s)}] = Weight(c, s \ {any(s)})
    BY <1>7, <2>1
  <2> QED
    BY <1>2, <1>6, <2>2
<1> DEFINE Wrong == {Cardinality(s) : s \in {t \in SUBSET S : it[t] # Weight(c, t)}}
<1>8. Wrong \subseteq Nat
  <2>1. \A s \in SUBSET S : s \in SUBSET Lru!Resident(c)
    OBVIOUS
  <2> QED
    BY <2>1, WeightFinite, FS_CardinalityType
<1>9. Wrong = {}
  <2> SUFFICES ASSUME Wrong # {} PROVE FALSE
    OBVIOUS
  <2> HIDE DEF Wrong
  <2>1. PICK n \in Wrong : \A m \in Wrong : ~ (<<m, n>> \in OpToRel(<, Nat))
    BY <1>8, WFMin, NatLessThanWellFounded
  <2>2. n \in Nat /\ \A m \in Wrong : ~(m < n)
    BY <1>8, <2>1 DEF OpToRel
  <2>3. \A s \in SUBSET S : Cardinality(s) < n => it[s] = Weight(c, s)
    BY <2>2 DEF Wrong
  <2>4. \A s \in SUBSET S : Cardinality(s) = n => it[s] = Weight(c, s)
    BY <1>7, <2>2, <2>3
  <2> QED
    BY <2>4 DEF Wrong
<1>10. it[S] = Weight(c, S)
  BY <1>9
<1> QED
  BY <1>1, <1>10

(* A nonempty set of ordered pages has an oldest.                          *)
LEMMA OldestOf ==
  ASSUME NEW older, NEW S, OrderedBy(older, S), NEW R \in SUBSET S, R # {}, IsFiniteSet(R)
  PROVE  \E v \in R : \A k \in R : k = v \/ <<v, k>> \in older
<1> DEFINE Below(v) == {k \in R : <<k, v>> \in older}
           Counted == {Cardinality(Below(v)) : v \in R}
<1>1. \A v \in R : IsFiniteSet(Below(v)) /\ Cardinality(Below(v)) \in Nat
  BY FS_Subset, FS_CardinalityType
<1>2. Counted \subseteq Nat /\ Counted # {}
  BY <1>1
<1> HIDE DEF Counted
<1>3. PICK n \in Counted : \A m \in Counted : ~ (<<m, n>> \in OpToRel(<, Nat))
  BY <1>2, WFMin, NatLessThanWellFounded
<1>4. n \in Nat /\ \A m \in Counted : m \in Nat /\ ~(m < n)
  BY <1>2, <1>3 DEF OpToRel
<1>5. PICK v \in R : n = Cardinality(Below(v))
  BY <1>3 DEF Counted
<1>6. ASSUME NEW k \in R, <<k, v>> \in older
      PROVE  FALSE
  <2>1. Below(k) \subseteq Below(v)
    BY <1>6 DEF OrderedBy
  <2>2. k \in Below(v) /\ k \notin Below(k)
    BY <1>6 DEF OrderedBy
  <2>3. Cardinality(Below(k)) \in Counted
    BY DEF Counted
  <2>4. IsFiniteSet(Below(v)) /\ IsFiniteSet(Below(k))
    BY <1>1
  <2> HIDE DEF Below
  <2>5. Below(k) # Below(v)
    BY <2>2
  <2>6. Cardinality(Below(k)) < Cardinality(Below(v))
    BY <2>1, <2>4, <2>5, FS_Subset, FS_CardinalityType
  <2> QED
    BY <1>4, <1>5, <2>3, <2>6
<1>7. \A k \in R : k = v \/ <<v, k>> \in older
  BY <1>6 DEF OrderedBy
<1> QED
  BY <1>7

(* What is left of S when its displaced pages go fits into the room.       *)
LEMMA RestFits ==
  ASSUME NEW c, Sized(c), OrderedBy(c.older, Lru!Resident(c)),
         NEW S \in SUBSET Lru!Resident(c), NEW room \in Nat
  PROVE  Weight(c, S \ Lru!Displaced(c, S, room)) <= room
<1> DEFINE R == S \ Lru!Displaced(c, S, room)
           Younger(v) == {k \in S : Lru!AtLeastAsRecent(c, k, v)}
<1>1. R \subseteq S /\ R \in SUBSET Lru!Resident(c)
  OBVIOUS
<1>2. \A v \in R : ~(Lru!BytesOf(c, Younger(v)) > room)
  BY Zenon DEF Lru!Displaced
<1> HIDE DEF R
<1>3. CASE R = {}
  <2>1. Weight(c, R) = 0
    BY <1>3, FS_EmptySet DEF Weight, Cells
  <2> QED
    BY <2>1 DEF R
<1>4. CASE R # {}
  <2>1. IsFiniteSet(R)
    BY <1>1, WeightFinite
  <2>2. PICK v \in R : \A k \in R : k = v \/ <<v, k>> \in c.older
    BY <1>1, <1>4, <2>1, OldestOf
  <2>3. R \subseteq Younger(v) /\ Younger(v) \in SUBSET Lru!Resident(c)
    BY <1>1, <2>2 DEF Lru!AtLeastAsRecent
  <2>4. ~(Lru!BytesOf(c, Younger(v)) > room)
    BY <1>2
  <2> HIDE DEF Younger
  <2>5. Lru!BytesOf(c, Younger(v)) = Weight(c, Younger(v)) /\ Weight(c, Younger(v)) \in Nat
    BY <2>3, BytesAreCells, WeightFinite
  <2>6. Weight(c, R) <= Weight(c, Younger(v)) /\ Weight(c, R) \in Nat
    BY <1>1, <2>3, WeightGrows, WeightFinite
  <2> QED
    BY <2>4, <2>5, <2>6 DEF R
<1> QED
  BY <1>3, <1>4

LEMMA SameWeight ==
  ASSUME NEW c, NEW d, NEW S, \A k \in S : d.pages[k] = c.pages[k]
  PROVE  Weight(d, S) = Weight(c, S)
<1>1. Cells(d, S) = Cells(c, S)
  BY DEF Cells
<1> QED
  BY <1>1 DEF Weight

(* Every operation of the cache leaves it sound.                           *)
LEMMA WithoutSound ==
  ASSUME NEW c, Sound(c), NEW S
  PROVE  LET d == Lru!Without(c, S)
         IN  /\ Sound(d) /\ Lru!Resident(d) = Lru!Resident(c) \ S
             /\ \A k \in Lru!Resident(d) : d.pages[k] = c.pages[k]
<1> DEFINE d == Lru!Without(c, S)
           kept == Lru!Resident(c) \ S
<1>1. CacheOK(c) /\ CacheOK(d) /\ Lru!Resident(d) = kept
  BY WithoutFacts DEF Sound, Sized
<1>2. d = [pages |-> [k \in kept |-> c.pages[k]], older |-> Lru!Among(c.older, kept),
           budgets |-> c.budgets]
  BY Zenon DEF Lru!Without
<1>3. d.older = c.older \cap (kept \X kept) /\ \A k \in kept : d.pages[k] = c.pages[k]
  BY <1>2 DEF Lru!Among
<1> HIDE DEF d
<1>4. Sized(d)
  BY <1>1, <1>3 DEF Sound, Sized
<1>5. OrderedBy(d.older, kept)
  BY <1>3 DEF Sound, OrderedBy
<1>6. Lru!UsedBytes(d) <= MaxBytes
  <2>1. kept \in SUBSET Lru!Resident(c) /\ Lru!Resident(c) \in SUBSET Lru!Resident(c)
    OBVIOUS
  <2> HIDE DEF kept
  <2>2. Lru!UsedBytes(d) = Weight(d, kept)
    BY <1>1, <1>4, BytesAreCells DEF Lru!UsedBytes
  <2>3. Weight(d, kept) = Weight(c, kept)
    BY <1>3, SameWeight
  <2>4. Lru!UsedBytes(c) = Weight(c, Lru!Resident(c))
    BY <2>1, BytesAreCells DEF Lru!UsedBytes, Sound
  <2>5. /\ Weight(c, kept) <= Weight(c, Lru!Resident(c))
        /\ Weight(c, kept) \in Nat /\ Weight(c, Lru!Resident(c)) \in Nat
    BY <2>1, WeightGrows, WeightFinite DEF Sound
  <2> QED
    BY <2>2, <2>3, <2>4, <2>5, CfrAtlasAssumption DEF Sound
<1> QED
  BY <1>1, <1>3, <1>4, <1>5, <1>6 DEF Sound, d

LEMMA UsedLastOrdered ==
  ASSUME NEW older, NEW S, OrderedBy(older, S), NEW key
  PROVE  OrderedBy(Lru!UsedLast(older, S, key), S \cup {key})
<1> DEFINE T == S \ {key}
           N == (older \cap (T \X T)) \cup (T \X {key})
<1>1. Lru!UsedLast(older, S, key) = N
  BY DEF Lru!UsedLast, Lru!Among
<1>2. \A j, k : <<j, k>> \in N <=>
        \/ j \in T /\ k \in T /\ <<j, k>> \in older
        \/ j \in T /\ k = key
  OBVIOUS
<1>3. N \subseteq (S \cup {key}) \X (S \cup {key})
  OBVIOUS
<1>4. key \notin T /\ T \subseteq S /\ \A k \in S \cup {key} : k \in T \/ k = key
  OBVIOUS
<1> HIDE DEF N, T
<1>5. \A j, k \in S \cup {key} : <<j, k>> \in N => <<k, j>> \notin N
  BY <1>2, <1>4 DEF OrderedBy
<1>6. \A i, j, k \in S \cup {key} : <<i, j>> \in N /\ <<j, k>> \in N => <<i, k>> \in N
  BY <1>2, <1>4 DEF OrderedBy
<1>7. \A j, k \in S \cup {key} : j = k \/ <<j, k>> \in N \/ <<k, j>> \in N
  BY <1>2, <1>4 DEF OrderedBy
<1> QED
  BY <1>1, <1>3, <1>5, <1>6, <1>7 DEF OrderedBy

LEMMA TouchedSound ==
  ASSUME NEW c, Sound(c), NEW key \in Lru!Resident(c)
  PROVE  Sound(Lru!Touched(c, key))
<1> DEFINE d == Lru!Touched(c, key)
<1>1. CacheOK(c) /\ CacheOK(d) /\ Lru!Resident(d) = Lru!Resident(c)
  BY TouchedFacts DEF Sound, Sized
<1>2. d = [c EXCEPT !.older = Lru!UsedLast(c.older, Lru!Resident(c), key)]
  BY Zenon DEF Lru!Touched
<1>3. d.older = Lru!UsedLast(c.older, Lru!Resident(c), key) /\ d.pages = c.pages
  <2> HIDE DEF d
  <2> QED
    BY <1>1, <1>2 DEF CacheOK
<1> HIDE DEF d
<1>4. Sized(d)
  BY <1>1, <1>3 DEF Sound, Sized
<1>5. OrderedBy(d.older, Lru!Resident(d))
  <2>1. Lru!Resident(c) \cup {key} = Lru!Resident(c)
    OBVIOUS
  <2>2. OrderedBy(Lru!UsedLast(c.older, Lru!Resident(c), key), Lru!Resident(c) \cup {key})
    BY UsedLastOrdered DEF Sound
  <2> QED
    BY <1>1, <1>3, <2>1, <2>2
<1>6. Lru!UsedBytes(d) = Lru!UsedBytes(c)
  <2>1. Lru!UsedBytes(d) = Weight(d, Lru!Resident(c))
    BY <1>1, <1>4, BytesAreCells DEF Lru!UsedBytes
  <2>2. Lru!UsedBytes(c) = Weight(c, Lru!Resident(c))
    BY BytesAreCells DEF Lru!UsedBytes, Sound
  <2>3. Weight(d, Lru!Resident(c)) = Weight(c, Lru!Resident(c))
    BY <1>3, SameWeight
  <2> QED
    BY <2>1, <2>2, <2>3
<1> QED
  BY <1>4, <1>5, <1>6 DEF Sound, d

(* Other budgets, the same pages.                                          *)
LEMMA SamePagesSound ==
  ASSUME NEW c, Sound(c), NEW d, CacheOK(d), d.pages = c.pages, d.older = c.older
  PROVE  Sound(d)
<1>1. Lru!Resident(d) = Lru!Resident(c)
  BY DEF Lru!Resident
<1>2. Sized(d)
  BY <1>1 DEF Sound, Sized
<1>3. Weight(d, Lru!Resident(c)) = Weight(c, Lru!Resident(c))
  BY SameWeight
<1>4. Lru!UsedBytes(d) = Lru!UsedBytes(c)
  BY <1>1, <1>2, <1>3, BytesAreCells DEF Lru!UsedBytes, Sound
<1> QED
  BY <1>1, <1>2, <1>4 DEF Sound

LEMMA BudgetsSound ==
  ASSUME NEW c, Sound(c), NEW layer, NEW bytes
  PROVE  Sound(Lru!Budgeted(c, layer, bytes)) /\ Sound(Lru!Unbudgeted(c, layer))
<1>1. PICK budgets : Lru!Unbudgeted(c, layer) = [c EXCEPT !.budgets = budgets]
  BY DEF Lru!Unbudgeted
<1>2. PICK limits, S : Lru!Budgeted(c, layer, bytes) = Lru!Without([c EXCEPT !.budgets = limits], S)
  BY DEF Lru!Budgeted
<1>3. ASSUME NEW b PROVE Sound([c EXCEPT !.budgets = b])
  <2> DEFINE d == [c EXCEPT !.budgets = b]
  <2>1. CacheOK(d) /\ d.pages = c.pages /\ d.older = c.older
    BY DEF CacheOK, Lru!Resident, Sound, Sized
  <2> HIDE DEF d
  <2>2. Sound(d)
    BY <2>1, SamePagesSound
  <2> QED
    BY <2>2 DEF d
<1>4. Sound(Lru!Without([c EXCEPT !.budgets = limits], S))
  BY <1>3, WithoutSound
<1> QED
  BY <1>1, <1>2, <1>3, <1>4

LEMMA InsertedSound ==
  ASSUME NEW c, Sound(c), NEW key, NEW page, PageOK(page), page.bytes <= MaxBytes
  PROVE  Sound(Lru!Inserted(c, key, page))
<1> DEFINE V == Lru!Victims(c, key, page)
           others == Lru!Without(c, {key})
           mine == Lru!LayerDisplaced(others, LayerOf[key], page.bytes)
           rest == Lru!Without(others, mine)
           room == MaxBytes - page.bytes
           kept == Lru!Without(c, V \cup {key})
           D == Lru!Resident(kept)
           d == Lru!Inserted(c, key, page)
<1>1. /\ Sound(others) /\ Lru!Resident(others) = Lru!Resident(c) \ {key}
      /\ \A k \in Lru!Resident(others) : others.pages[k] = c.pages[k]
  BY WithoutSound
<1>2. /\ Sound(rest) /\ Lru!Resident(rest) = Lru!Resident(others) \ mine
      /\ \A k \in Lru!Resident(rest) : rest.pages[k] = others.pages[k]
  <2> HIDE DEF others, mine
  <2> QED
    BY <1>1, WithoutSound
<1>3. V = mine \cup Lru!Displaced(rest, Lru!Resident(rest), room)
  BY DEF Lru!Victims
<1>4. /\ Sound(kept) /\ D = Lru!Resident(c) \ (V \cup {key})
      /\ \A k \in D : kept.pages[k] = c.pages[k]
  <2> HIDE DEF V
  <2> QED
    BY WithoutSound
<1>5. room \in Nat /\ page.bytes \in Nat
  BY CfrAtlasAssumption DEF PageOK
<1>6. d = [pages |-> [k \in D \cup {key} |-> IF k = key THEN page ELSE kept.pages[k]],
           older |-> Lru!UsedLast(kept.older, D, key), budgets |-> c.budgets]
  BY Zenon DEF Lru!Inserted
<1>7. CacheOK(d)
  BY InsertedFacts DEF Sound, Sized
<1> HIDE DEF V, others, mine, rest, kept, room
<1>8. D = Lru!Resident(rest) \ Lru!Displaced(rest, Lru!Resident(rest), room) /\ key \notin D
  BY <1>1, <1>2, <1>3, <1>4
<1>9. /\ Weight(rest, D) <= room /\ Weight(rest, D) \in Nat
  <2>1. Lru!Resident(rest) \in SUBSET Lru!Resident(rest) /\ D \in SUBSET Lru!Resident(rest)
    BY <1>8
  <2> HIDE DEF D
  <2> QED
    BY <1>2, <1>5, <1>8, <2>1, RestFits, WeightFinite DEF Sound
<1> HIDE DEF D, d
<1>10. /\ Lru!Resident(d) = D \cup {key} /\ d.pages[key] = page
       /\ \A k \in D : d.pages[k] = kept.pages[k]
       /\ d.older = Lru!UsedLast(kept.older, D, key)
  BY <1>6, <1>8 DEF Lru!Resident
<1>11. Sized(d)
  BY <1>4, <1>7, <1>10 DEF Sized, Sound, D
<1>12. OrderedBy(d.older, Lru!Resident(d))
  BY <1>4, <1>10, UsedLastOrdered DEF Sound, D
<1>13. Weight(d, D) = Weight(rest, D)
  <2>1. \A k \in D : d.pages[k] = rest.pages[k]
    BY <1>1, <1>2, <1>4, <1>8, <1>10
  <2> QED
    BY <2>1, SameWeight
<1>14. Lru!UsedBytes(d) <= MaxBytes
  <2>1. /\ D \cup {key} \in SUBSET Lru!Resident(d) /\ key \in D \cup {key}
        /\ (D \cup {key}) \ {key} = D
    BY <1>8, <1>10
  <2>2. Lru!UsedBytes(d) = Weight(d, D \cup {key})
    BY <1>10, <1>11, <2>1, BytesAreCells DEF Lru!UsedBytes
  <2>3. Weight(d, D \cup {key}) = d.pages[key].bytes + Weight(d, (D \cup {key}) \ {key})
    BY <1>11, <2>1, WeightOf
  <2>4. Lru!UsedBytes(d) = page.bytes + Weight(rest, D)
    BY <1>10, <1>13, <2>1, <2>2, <2>3
  <2> QED
    BY <1>5, <1>9, <2>4, CfrAtlasAssumption DEF room
<1> QED
  BY <1>11, <1>12, <1>14 DEF Sound, d

(* So does an insertion, which never finds the machine's words too narrow  *)
(* when they hold twice the budget.                                        *)
LEMMA OutcomeSound ==
  ASSUME NEW c, Sound(c), NEW key, NEW page, PageOK(page), 2 * MaxBytes <= UsizeMax
  PROVE  LET outcome == InsertOutcome(c, key, page)
         IN  Sound(outcome.cache) /\ outcome.kind # "overflow"
<1> DEFINE outcome == InsertOutcome(c, key, page)
           replaced == IF key \in DOMAIN c.pages THEN c.pages[key].bytes ELSE 0
<1>1. CASE Lru!TooLarge(c, key, page)
  <2>1. outcome = [kind |-> "rejected", cache |-> c, evicted |-> 0]
    BY <1>1, Zenon DEF InsertOutcome
  <2> QED
    BY <2>1
<1>2. CASE ~Lru!TooLarge(c, key, page)
  <2>1. page.bytes \in Nat /\ page.bytes <= MaxBytes /\ MaxBytes \in Nat /\ UsizeMax \in Nat
    BY <1>2, CfrAtlasAssumption DEF Lru!TooLarge, PageOK
  <2>2. replaced \in Nat
    BY DEF Sound, Sized, PageOK, Lru!Resident
  <2>3. Lru!UsedBytes(c) \in Nat /\ Lru!UsedBytes(c) <= MaxBytes
    BY BytesAreCells, WeightFinite DEF Lru!UsedBytes, Sound
  <2> HIDE DEF replaced
  <2>4. ~(Lru!UsedBytes(c) - replaced + page.bytes > UsizeMax)
    BY <2>1, <2>2, <2>3
  <2>5. outcome.kind = "inserted" /\ outcome.cache = Lru!Inserted(c, key, page)
    <3>1. outcome = [kind |-> "inserted", cache |-> Lru!Inserted(c, key, page),
                     evicted |-> Cardinality(Lru!Victims(c, key, page))]
      BY <1>2, <2>4, Zenon DEF InsertOutcome, replaced
    <3> HIDE DEF outcome
    <3> QED
      BY <3>1
  <2>6. Sound(Lru!Inserted(c, key, page))
    BY <2>1, InsertedSound
  <2> QED
    BY <2>5, <2>6
<1> QED
  BY <1>1, <1>2

(* No machine word is too narrow for the contexts and the cache, and       *)
(* whoever puts pages into the cache directly gives them rows of the width *)
(* that the atlas is configured for.                                       *)
Roomy ==
  /\ RawHeadDims \subseteq {HeadDim}
  /\ \A context \in Contexts : context + PageTokens <= UsizeMax
  /\ 2 * MaxBytes <= UsizeMax

LEMMA PageIsOK ==
  ASSUME NEW tokens \in Nat
  PROVE  PageOK(Page(tokens, HeadDim))
<1>1. tokens * HeadDim \in Nat
  BY CfrAtlasAssumption
<1> QED
  BY <1>1 DEF PageOK, Page

LEMMA ReturnStatus ==
  ASSUME Inv, NEW status, Return(status)
  PROVE  result'.status = status
BY DEF Return, Inv, TypeInv

(* The steps of a call.                                                    *)
LEMMA AttendCause ==
  ASSUME Roomy, Inv, Sound(cache), FailsForCause, AttendStep
  PROVE  Sound(cache') /\ FailsForCause'
<1>1. CASE AttendOverflows
  <2>1. call \in Frames
    BY <1>1, PageFacts DEF AttendOverflows
  <2>2. call.context \in Contexts
    BY <2>1 DEF Frames
  <2>3. call.start \in Nat /\ call.context \in Nat
    BY <2>1, FrameFields
  <2>4. call.start < call.context /\ call.start + PageTokens > UsizeMax
    BY <1>1 DEF AttendOverflows, AtPage, PageEndOverflows
  <2>5. call.context + PageTokens <= UsizeMax
    BY <2>2 DEF Roomy
  <2> QED
    BY <2>3, <2>4, <2>5, CfrAtlasAssumption
<1>2. CASE ConsumeHotPage
  BY <1>2, TouchedSound DEF ConsumeHotPage, HotMatch, Resident, FailsForCause
<1>3. CASE ConsumeHotPageFails
  <2>1. /\ Key \in Lru!Resident(cache) /\ cache.pages[Key].tokens = NeededTokens
        /\ cache' = Lru!Touched(cache, Key)
        /\ ~(call.query = "finite" /\ cache.pages[Key].bytes = NeededTokens * HeadDim)
        /\ Return(IF call.query = "finite" THEN "hot_page_shape" ELSE "query")
    BY <1>3 DEF ConsumeHotPageFails, HotMatch, HotPageUsable, Resident
  <2>2. cache.pages[Key].bytes = NeededTokens * HeadDim
    BY <2>1 DEF Sound, Sized, PageOK
  <2>3. result'.status = "query"
    BY <2>1, <2>2, ReturnStatus
  <2> QED
    BY <2>1, <2>3, TouchedSound DEF FailsForCause
<1>4. CASE RegenerationFails \/ RegenerationPanics \/ ConsumeColdPageFails
  <2>1. PICK status \in {"regenerator", "panic", "regenerated_page", "query"} : Return(status)
    BY <1>4 DEF RegenerationFails, RegenerationPanics, ConsumeColdPageFails
  <2>2. cache' = FreshCache
    BY <1>4 DEF RegenerationFails, RegenerationPanics, ConsumeColdPageFails
  <2> QED
    BY <2>1, <2>2, ReturnStatus, WithoutSound DEF FreshCache, FailsForCause
<1>5. CASE DropColdPage
  BY <1>5, WithoutSound DEF DropColdPage, FreshCache, FailsForCause
<1>6. CASE AdmitColdPage
  <2> DEFINE outcome == InsertOutcome(FreshCache, Key, Page(NeededTokens, HeadDim))
  <2>1. /\ cache' = outcome.cache
        /\ outcome.kind # "overflow" => UNCHANGED result
    BY <1>6 DEF AdmitColdPage
  <2>2. Sound(FreshCache)
    BY WithoutSound DEF FreshCache
  <2>3. NeededTokens \in Nat
    BY <1>6, PageFacts DEF AdmitColdPage, Folded, ColdPage
  <2>4. Sound(outcome.cache) /\ outcome.kind # "overflow"
    BY <2>2, <2>3, PageIsOK, OutcomeSound DEF Roomy
  <2> QED
    BY <2>1, <2>4 DEF FailsForCause
<1>7. CASE AttendFinish \/ AttendFinishFails
  <2>1. cache' = cache /\ (Return("ok") \/ Return("output_range"))
    BY <1>7 DEF AttendFinish, AttendFinishFails
  <2> QED
    BY <2>1, ReturnStatus DEF FailsForCause
<1> QED
  BY <1>1, <1>2, <1>3, <1>4, <1>5, <1>6, <1>7 DEF AttendStep

(* The calls of a client.                                                  *)
LEMMA UseHotCacheMutSound ==
  ASSUME Roomy, Sound(cache), UseHotCacheMut
  PROVE  Sound(cache')
<1>1. ASSUME NEW key \in PageKeys, NEW tokens \in PageSizes, NEW head_dim \in RawHeadDims,
             cache' = InsertOutcome(cache, key, Page(tokens, head_dim)).cache
      PROVE  Sound(cache')
  <2>1. head_dim = HeadDim /\ tokens \in Nat
    BY CfrAtlasAssumption DEF Roomy
  <2>2. PageOK(Page(tokens, head_dim))
    BY <2>1, PageIsOK
  <2> QED
    BY <1>1, <2>2, OutcomeSound DEF Roomy
<1>2. ASSUME NEW S, cache' = Lru!Without(cache, S) PROVE Sound(cache')
  BY <1>2, WithoutSound
<1>3. ASSUME NEW key \in Lru!Resident(cache), cache' = Lru!Touched(cache, key)
      PROVE  Sound(cache')
  BY <1>3, TouchedSound
<1>4. ASSUME NEW layer, NEW bytes, cache' = Lru!Budgeted(cache, layer, bytes)
      PROVE  Sound(cache')
  BY <1>4, BudgetsSound
<1>5. \/ \E key \in PageKeys, tokens \in PageSizes, head_dim \in RawHeadDims :
           cache' = InsertOutcome(cache, key, Page(tokens, head_dim)).cache
      \/ \E S : cache' = Lru!Without(cache, S)
      \/ \E key \in Lru!Resident(cache) : cache' = Lru!Touched(cache, key)
      \/ \E layer, bytes : cache' = Lru!Budgeted(cache, layer, bytes)
  BY Zenon DEF UseHotCacheMut, Lru!Cleared, Resident
<1> QED
  BY <1>1, <1>2, <1>3, <1>4, <1>5

LEMMA CauseNext ==
  ASSUME Roomy, Inv, Sound(cache), FailsForCause, [Next]_vars
  PROVE  Sound(cache') /\ FailsForCause'
<1>1. ASSUME UNCHANGED <<cache, result>> PROVE Sound(cache') /\ FailsForCause'
  BY <1>1 DEF FailsForCause
<1>2. CASE AttendRefused \/ \E stream \in Streams, context \in Contexts, policy \in Policies,
             query \in {"finite", "non_finite"} : AttendBegin(stream, context, policy, query)
  <2>1. cache' = cache /\ result'.status \in {"refused", "none"}
    BY <1>2 DEF AttendRefused, AttendBegin
  <2> QED
    BY <2>1 DEF FailsForCause
<1>3. CASE AttendStep
  BY <1>3, AttendCause
<1>4. ASSUME NEW key \in PageKeys, NEW tokens \in PageSizes, InsertHotPage(key, tokens)
      PROVE  Sound(cache') /\ FailsForCause'
  <2>1. cache' = InsertOutcome(cache, key, Page(tokens, HeadDim)).cache /\ result' = result
    BY <1>4 DEF InsertHotPage
  <2>2. tokens \in Nat
    BY CfrAtlasAssumption
  <2>3. Sound(cache')
    BY <2>1, <2>2, PageIsOK, OutcomeSound DEF Roomy
  <2> QED
    BY <2>1, <2>3 DEF FailsForCause
<1>5. ASSUME NEW layer \in Layers,
             (\E bytes \in LayerBudgets : SetLayerHotCacheBytes(layer, bytes))
               \/ ClearLayerHotCacheBytes(layer)
      PROVE  Sound(cache') /\ FailsForCause'
  <2>1. /\ result' = result
        /\ \/ \E bytes : cache' = Lru!Budgeted(cache, layer, bytes)
           \/ cache' = Lru!Unbudgeted(cache, layer)
    BY <1>5, Zenon DEF SetLayerHotCacheBytes, ClearLayerHotCacheBytes
  <2> QED
    BY <2>1, BudgetsSound DEF FailsForCause
<1>6. CASE ResetCounters
  BY <1>1, <1>6 DEF ResetCounters
<1>7. CASE UseHotCacheMut
  <2>1. result' = result
    BY <1>7 DEF UseHotCacheMut
  <2> QED
    BY <1>7, <2>1, UseHotCacheMutSound DEF FailsForCause
<1>8. CASE UNCHANGED vars
  BY <1>1, <1>8 DEF vars
<1> QED
  BY <1>2, <1>3, <1>4, <1>5, <1>6, <1>7, <1>8 DEF Next

LEMMA CauseInit == Init => Sound(cache) /\ FailsForCause
<1> SUFFICES ASSUME Init PROVE Sound(cache) /\ FailsForCause
  OBVIOUS
<1>1. /\ cache = [pages |-> [k \in {} |-> k], older |-> {}, budgets |-> [l \in {} |-> l]]
      /\ FailsForCause
  BY DEF Init, Lru!EmptyCache, FailsForCause
<1>2. Lru!Resident(cache) = {} /\ CacheOK(cache)
  <2>1. Lru!Resident(cache) = {}
    BY <1>1 DEF Lru!Resident
  <2> QED
    BY <1>1, <2>1, FS_EmptySet DEF CacheOK
<1>3. Sized(cache) /\ OrderedBy(cache.older, {})
  BY <1>1, <1>2 DEF Sized, OrderedBy
<1>4. Lru!UsedBytes(cache) <= MaxBytes
  <2>1. Lru!UsedBytes(cache) = Weight(cache, {})
    BY <1>2, <1>3, BytesAreCells DEF Lru!UsedBytes
  <2>2. Weight(cache, {}) = 0
    BY FS_EmptySet DEF Weight, Cells
  <2> QED
    BY <2>1, <2>2, CfrAtlasAssumption
<1> QED
  BY <1>1, <1>2, <1>3, <1>4 DEF Sound

(* When no machine word is too narrow, a call fails only for a reason that *)
(* lies outside the atlas: whatever calls before it did and left behind in *)
(* the cache, however they ended, its pages have the shape that the next   *)
(* call expects and what it admits has room.                               *)
THEOREM FailuresHaveCauses ==
  ASSUME Roomy
  PROVE  Spec => []FailsForCause
<1>1. Init => Sound(cache) /\ FailsForCause
  BY CauseInit
<1>2. Inv /\ Sound(cache) /\ FailsForCause /\ [Next]_vars
        => Sound(cache)' /\ FailsForCause'
  BY CauseNext, Zenon
<1> QED
  BY <1>1, <1>2, Inductive, PTL DEF Spec

=============================================================================
