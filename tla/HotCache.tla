------------------------------ MODULE HotCache ------------------------------
(***************************************************************************)
(* HotCache of src/cache.rs: the bounded map of resident K/V pages, with   *)
(* its running byte counters, its u64 use clock and its eviction loops.    *)
(*                                                                         *)
(* A call that may evict is a frame: one step enters it, every iteration   *)
(* of an eviction loop is a step, and one step leaves it, so that the      *)
(* counters are seen where the loop conditions read them.  Calls that      *)
(* cannot evict are single steps.  `before` is a history variable: the     *)
(* entries and budgets that the call in progress found.                    *)
(*                                                                         *)
(* Bytes are counted in pairs of one K and one V element (8 bytes).  A     *)
(* page's contents are an opaque value of Contents.                        *)
(***************************************************************************)
EXTENDS Integers, FiniteSets

CONSTANTS
  PageKeys,      (* the page keys callers name                              *)
  LayerOf,       (* LayerOf[k] is the field PageKey::layer of key k         *)
  TokenCounts,   (* the `tokens` arguments callers pass, 0 possibly one     *)
  HeadDims,      (* the `head_dim` arguments callers pass                   *)
  Contents,      (* what a page's K and V rows hold                         *)
  MaxBytes,      (* max_bytes                                               *)
  LayerBudgets,  (* the budgets callers set for a layer                     *)
  UsizeMax,      (* usize::MAX, in the same unit as MaxBytes                *)
  ClockMax       (* u64::MAX                                                *)

ASSUME HotCacheAssumption ==
  /\ IsFiniteSet(PageKeys)
  /\ TokenCounts \subseteq Nat
  /\ HeadDims \subseteq Nat
  /\ MaxBytes \in Nat
  /\ LayerBudgets \subseteq Nat
  /\ UsizeMax \in Nat /\ MaxBytes <= UsizeMax
  /\ ClockMax \in Nat /\ Cardinality(PageKeys) < ClockMax

VARIABLES
  entries,           (* HashMap<PageKey, HotPage>                           *)
  used_bytes,
  clock,
  layer_budgets,     (* HashMap<u32, usize>                                 *)
  layer_used_bytes,  (* HashMap<u32, usize>, no entry for an empty layer    *)
  call,              (* the frame of the call in progress                   *)
  before             (* history: what that call found                       *)

cache_vars == <<entries, used_bytes, clock, layer_budgets, layer_used_bytes>>
vars == <<entries, used_bytes, clock, layer_budgets, layer_used_bytes, call, before>>

Layers == {LayerOf[k] : k \in PageKeys}

HotPage == [tokens : Nat \ {0}, kv : Contents, bytes : Nat \ {0}, last_touch : Nat]

(* The frames: no call, set_layer_budget in its loop, an insert in its     *)
(* first loop (its layer) and in its second one (the whole cache).         *)
Idle == [pc |-> "idle"]
BudgetCalls == [pc : {"budget"}, layer : Layers, evicted : Nat]
InsertCalls == [pc : {"insert_layer", "insert_global"}, key : PageKeys,
                tokens : Nat \ {0}, kv : Contents, bytes : Nat \ {0}, evicted : Nat]

Inserting == call.pc \in {"insert_layer", "insert_global"}

NoSnapshot == Idle
Snapshot == [entries |-> entries, layer_budgets |-> layer_budgets]

SatSub(a, b) == IF a >= b THEN a - b ELSE 0

AtMost(a, b) == IF a <= b THEN a ELSE b

LayerUsed(layer) ==
  IF layer \in DOMAIN layer_used_bytes THEN layer_used_bytes[layer] ELSE 0

InLayer(layer) == {k \in DOMAIN entries : LayerOf[k] = layer}

-----------------------------------------------------------------------------
(* Accounting and the clock.                                               *)

SubLayerUsage(layer, bytes) ==
  LET used == SatSub(LayerUsed(layer), bytes)
  IN  layer_used_bytes' =
        [l \in (DOMAIN layer_used_bytes \ {layer}) \cup (IF used = 0 THEN {} ELSE {layer}) |->
           IF l = layer THEN used ELSE layer_used_bytes[l]]

(* Mutant: the layer counter is forgotten.                                  *)
RemovePageGlobalOnly(key) ==
  /\ entries' = [k \in DOMAIN entries \ {key} |-> entries[k]]
  /\ used_bytes' = SatSub(used_bytes, entries[key].bytes)
  /\ UNCHANGED layer_used_bytes

(* remove_page for a resident page.                                        *)
RemovePage(key) ==
  /\ entries' = [k \in DOMAIN entries \ {key} |-> entries[k]]
  /\ used_bytes' = SatSub(used_bytes, entries[key].bytes)
  /\ SubLayerUsage(LayerOf[key], entries[key].bytes)

(* renormalize_clock: last touches become their ranks 1, 2, ...            *)
Renormalized ==
  [k \in DOMAIN entries |->
     [entries[k] EXCEPT !.last_touch =
        AtMost(Cardinality({j \in DOMAIN entries : entries[j].last_touch <= @}),
               ClockMax - 1)]]

TickedEntries == IF clock = ClockMax THEN Renormalized ELSE entries

(* Mutant: the clock is not renormalised.                                  *)
TickedForever == clock + 1

TickedClock ==
  (IF clock = ClockMax THEN AtMost(Cardinality(DOMAIN entries), ClockMax - 1) ELSE clock) + 1

-----------------------------------------------------------------------------
(* Eviction: the loop conditions and one iteration.  A victim is any page  *)
(* of minimal last touch, as the iteration order of the map decides.       *)

(* Mutant: the layer is trimmed to its budget without the incoming page.   *)
LayerOverNow(layer, incoming) ==
  /\ layer \in DOMAIN layer_budgets
  /\ LayerUsed(layer) > layer_budgets[layer]

LayerOver(layer, incoming) ==
  /\ layer \in DOMAIN layer_budgets
  /\ LayerUsed(layer) > SatSub(layer_budgets[layer], incoming)

(* Mutant: the same for the global budget.                                 *)
GlobalOverNow(incoming) == used_bytes > MaxBytes

GlobalOver(incoming) == used_bytes > SatSub(MaxBytes, incoming)

(* Mutant: max_by_key for min_by_key.                                      *)
Youngest(S) == {v \in S : \A k \in S : entries[v].last_touch >= entries[k].last_touch}

Oldest(S) == {v \in S : \A k \in S : entries[v].last_touch <= entries[k].last_touch}

(* Mutant: the victim is looked up under another key and not found.        *)
EvictMissed(victim) == UNCHANGED vars

Evict(victim) ==
  /\ RemovePage(victim)
  /\ call' = [call EXCEPT !.evicted = @ + 1]
  /\ UNCHANGED <<clock, layer_budgets, before>>

-----------------------------------------------------------------------------
(* insert / insert_internal.                                               *)

(* preflight_insert_accounting fails.                                      *)
PreflightOverflows(key, bytes) ==
  LET replaced == IF key \in DOMAIN entries THEN entries[key].bytes ELSE 0
  IN  \/ SatSub(used_bytes, replaced) + bytes > UsizeMax
      \/ SatSub(LayerUsed(LayerOf[key]), replaced) + bytes > UsizeMax

(* The early exits.  rows says what the K and V slices are like.           *)
InvalidPage(tokens, head_dim, rows) ==
  tokens = 0 \/ head_dim = 0 \/ rows # "valid"

(* Mutant: only the global budget rejects.                                 *)
RejectedGlobally(key, bytes) == bytes > MaxBytes

RejectedTooLarge(key, bytes) ==
  \/ bytes > MaxBytes
  \/ LayerOf[key] \in DOMAIN layer_budgets /\ bytes > layer_budgets[LayerOf[key]]

InsertRefused(key, tokens, head_dim, rows) ==
  /\ call = Idle
  /\ \/ InvalidPage(tokens, head_dim, rows)
     \/ RejectedTooLarge(key, tokens * head_dim)
     \/ PreflightOverflows(key, tokens * head_dim)
  /\ UNCHANGED vars

(* Mutant: the replaced page stays until the new one overwrites it.        *)
InsertBeginOver(key, tokens, head_dim, rows, kv) ==
  LET bytes == tokens * head_dim
  IN  /\ call = Idle
      /\ ~InvalidPage(tokens, head_dim, rows)
      /\ ~RejectedTooLarge(key, bytes)
      /\ ~PreflightOverflows(key, bytes)
      /\ call' = [pc |-> "insert_layer", key |-> key, tokens |-> tokens, kv |-> kv,
                  bytes |-> bytes, evicted |-> 0]
      /\ before' = Snapshot
      /\ UNCHANGED cache_vars

(* Past the last check: the page it replaces goes, without being counted   *)
(* as an eviction.                                                         *)
InsertBegin(key, tokens, head_dim, rows, kv) ==
  LET bytes == tokens * head_dim
  IN  /\ call = Idle
      /\ ~InvalidPage(tokens, head_dim, rows)
      /\ ~RejectedTooLarge(key, bytes)
      /\ ~PreflightOverflows(key, bytes)
      /\ IF key \in DOMAIN entries
           THEN RemovePage(key)
           ELSE UNCHANGED <<entries, used_bytes, layer_used_bytes>>
      /\ call' = [pc |-> "insert_layer", key |-> key, tokens |-> tokens, kv |-> kv,
                  bytes |-> bytes, evicted |-> 0]
      /\ before' = Snapshot
      /\ UNCHANGED <<clock, layer_budgets>>

InsertEvictLayer ==
  /\ call.pc = "insert_layer"
  /\ LayerOver(LayerOf[call.key], call.bytes)
  /\ \E victim \in Oldest(InLayer(LayerOf[call.key])) : Evict(victim)

InsertLayerDone ==
  /\ call.pc = "insert_layer"
  /\ \/ ~LayerOver(LayerOf[call.key], call.bytes)
     \/ InLayer(LayerOf[call.key]) = {}
  /\ call' = [call EXCEPT !.pc = "insert_global"]
  /\ UNCHANGED <<entries, used_bytes, clock, layer_budgets, layer_used_bytes, before>>

InsertEvictGlobal ==
  /\ call.pc = "insert_global"
  /\ GlobalOver(call.bytes)
  /\ \E victim \in Oldest(DOMAIN entries) : Evict(victim)

(* The end of insert_internal.  The two checked additions before it cannot *)
(* fail: see CommitFits.                                                   *)
InsertCommit ==
  /\ call.pc = "insert_global"
  /\ ~GlobalOver(call.bytes) \/ DOMAIN entries = {}
  /\ LET page == [tokens |-> call.tokens, kv |-> call.kv, bytes |-> call.bytes,
                  last_touch |-> TickedClock]
     IN  entries' = [k \in DOMAIN entries \cup {call.key} |->
                       IF k = call.key THEN page ELSE TickedEntries[k]]
  /\ clock' = TickedClock
  /\ used_bytes' = used_bytes + call.bytes
  /\ layer_used_bytes' =
       [l \in DOMAIN layer_used_bytes \cup {LayerOf[call.key]} |->
          IF l = LayerOf[call.key] THEN LayerUsed(l) + call.bytes ELSE layer_used_bytes[l]]
  /\ call' = Idle
  /\ before' = NoSnapshot
  /\ UNCHANGED layer_budgets

-----------------------------------------------------------------------------
(* The other operations.                                                   *)

SetLayerBudget(layer, bytes) ==
  /\ call = Idle
  /\ layer_budgets' = [l \in DOMAIN layer_budgets \cup {layer} |->
                         IF l = layer THEN bytes ELSE layer_budgets[l]]
  /\ call' = [pc |-> "budget", layer |-> layer, evicted |-> 0]
  /\ before' = Snapshot
  /\ UNCHANGED <<entries, used_bytes, clock, layer_used_bytes>>

BudgetEvict ==
  /\ call.pc = "budget"
  /\ LayerOver(call.layer, 0)
  /\ \E victim \in Oldest(InLayer(call.layer)) : Evict(victim)

BudgetDone ==
  /\ call.pc = "budget"
  /\ ~LayerOver(call.layer, 0) \/ InLayer(call.layer) = {}
  /\ call' = Idle
  /\ before' = NoSnapshot
  /\ UNCHANGED cache_vars

ClearLayerBudget(layer) ==
  /\ call = Idle
  /\ layer_budgets' = [l \in DOMAIN layer_budgets \ {layer} |-> layer_budgets[l]]
  /\ UNCHANGED <<entries, used_bytes, clock, layer_used_bytes, call, before>>

Clear ==
  /\ call = Idle
  /\ entries' = [k \in {} |-> k]
  /\ used_bytes' = 0
  /\ layer_used_bytes' = [l \in {} |-> l]
  /\ clock' = 0
  /\ UNCHANGED <<layer_budgets, call, before>>

Remove(key) ==
  /\ call = Idle
  /\ key \in DOMAIN entries
  /\ RemovePage(key)
  /\ UNCHANGED <<clock, layer_budgets, call, before>>

(* Mutant: a hit advances the clock but does not stamp the page.           *)
GetUnstamped(key) ==
  /\ call = Idle
  /\ key \in DOMAIN entries
  /\ entries' = TickedEntries
  /\ clock' = TickedClock
  /\ UNCHANGED <<used_bytes, layer_budgets, layer_used_bytes, call, before>>

Get(key) ==
  /\ call = Idle
  /\ key \in DOMAIN entries
  /\ entries' = [TickedEntries EXCEPT ![key].last_touch = TickedClock]
  /\ clock' = TickedClock
  /\ UNCHANGED <<used_bytes, layer_budgets, layer_used_bytes, call, before>>

-----------------------------------------------------------------------------
Init ==
  /\ entries = [k \in {} |-> k]
  /\ used_bytes = 0
  /\ clock = 0
  /\ layer_budgets = [l \in {} |-> l]
  /\ layer_used_bytes = [l \in {} |-> l]
  /\ call = Idle
  /\ before = NoSnapshot

Rows == {"valid", "wrong_length", "non_finite"}

CallStep ==
  \/ InsertEvictLayer
  \/ InsertLayerDone
  \/ InsertEvictGlobal
  \/ InsertCommit
  \/ BudgetEvict
  \/ BudgetDone

Next ==
  \/ \E key \in PageKeys, tokens \in TokenCounts, head_dim \in HeadDims, rows \in Rows :
       \/ InsertRefused(key, tokens, head_dim, rows)
       \/ \E kv \in Contents : InsertBegin(key, tokens, head_dim, rows, kv)
  \/ CallStep
  \/ \E layer \in Layers :
       \/ \E bytes \in LayerBudgets : SetLayerBudget(layer, bytes)
       \/ ClearLayerBudget(layer)
  \/ \E key \in PageKeys : Remove(key) \/ Get(key)
  \/ Clear

Spec == Init /\ [][Next]_vars

(* A call that has begun runs to its end: HotCache is a sequential         *)
(* structure behind &mut self and its loops wait for nothing.              *)
FairSpec == Spec /\ WF_vars(CallStep)

-----------------------------------------------------------------------------
(* Properties.                                                             *)

(* Every variable has its type; a frame belongs to a snapshot.             *)
TypeOK ==
  /\ DOMAIN entries \subseteq PageKeys
  /\ entries \in [DOMAIN entries -> HotPage]
  /\ used_bytes \in Nat
  /\ clock \in 0 .. ClockMax
  /\ DOMAIN layer_budgets \subseteq Layers
  /\ layer_budgets \in [DOMAIN layer_budgets -> LayerBudgets]
  /\ DOMAIN layer_used_bytes \subseteq Layers
  /\ layer_used_bytes \in [DOMAIN layer_used_bytes -> Nat]
  /\ \/ call = Idle /\ before = NoSnapshot
     \/ /\ call \in BudgetCalls \cup InsertCalls
        /\ DOMAIN entries \subseteq DOMAIN before.entries

(* The bytes of the pages of S, as a set with one element per byte.        *)
ByteCells(pages, S) == UNION {{k} \X (1 .. pages[k].bytes) : k \in S}

BytesOf(S) == Cardinality(ByteCells(entries, S))

(* The running counters are never wrong, not even between two iterations   *)
(* of an eviction loop, whose condition reads them: used_bytes and         *)
(* layer_used_bytes are the bytes of the resident pages, although every    *)
(* update of them is a saturating subtraction or an addition, and a layer  *)
(* without resident bytes has no map entry.                                *)
AccountingExact ==
  /\ used_bytes = BytesOf(DOMAIN entries)
  /\ \A layer \in Layers : LayerUsed(layer) = BytesOf(InLayer(layer))
  /\ \A layer \in DOMAIN layer_used_bytes : layer_used_bytes[layer] > 0

(* The resident bytes never exceed the global budget, and those of a layer *)
(* never exceed its budget, also after budgets were lowered, raised,       *)
(* cleared and set again; only set_layer_budget may find a layer too large *)
(* and it does not return before the layer fits.                           *)
BudgetsHold ==
  /\ used_bytes <= MaxBytes
  /\ \A layer \in DOMAIN layer_budgets :
       \/ call.pc = "budget" /\ call.layer = layer
       \/ LayerUsed(layer) <= layer_budgets[layer]

(* When an insert leaves its second loop the page fits: the checked        *)
(* additions that follow, past the removal of the replaced page and of the *)
(* victims, cannot fail and lose those pages for nothing.                  *)
CommitFits ==
  call.pc = "insert_global" /\ (~GlobalOver(call.bytes) \/ DOMAIN entries = {}) =>
    /\ used_bytes + call.bytes <= MaxBytes
    /\ LayerUsed(LayerOf[call.key]) + call.bytes <= UsizeMax
    /\ LayerOf[call.key] \in DOMAIN layer_budgets =>
         LayerUsed(LayerOf[call.key]) + call.bytes <= layer_budgets[LayerOf[call.key]]

(* No two pages share a last touch and none lies in the future of the      *)
(* clock, so that "least recently used" always names one page, whatever    *)
(* the iteration order of the map and however often the clock wrapped.     *)
TouchesDistinct ==
  /\ \A k \in DOMAIN entries : entries[k].last_touch \in 1 .. clock
  /\ \A j, k \in DOMAIN entries :
       entries[j].last_touch = entries[k].last_touch => j = k

(* What InsertOutcome::Inserted reports as evicted is what went missing,   *)
(* without the page that the insert replaced.                              *)
EvictedCountExact ==
  /\ call.pc = "budget" =>
       call.evicted = Cardinality(DOMAIN before.entries \ DOMAIN entries)
  /\ Inserting =>
       call.evicted = Cardinality((DOMAIN before.entries \ {call.key}) \ DOMAIN entries)

(* Layer budgets isolate layers: when every layer has one and they add up  *)
(* to no more than the global budget, an insert displaces pages of its own *)
(* layer only.  The insert trims its layer first for this to hold.         *)
LayerIsolation ==
  /\ Inserting
  /\ DOMAIN layer_budgets = Layers
  /\ Cardinality(UNION {{l} \X (1 .. layer_budgets[l]) : l \in Layers}) <= MaxBytes
  => \A k \in DOMAIN before.entries \ DOMAIN entries : LayerOf[k] = LayerOf[call.key]

(* A step never reorders the pages it does not use: of two resident pages  *)
(* that stay and are not the youngest one afterwards, the older stays the  *)
(* older, also in the step that renormalises the clock; and a page that is *)
(* read or inserted becomes the youngest.                                  *)
KeepsOrder ==
  \A j, k \in DOMAIN entries \cap DOMAIN entries' :
    /\ entries'[j].last_touch # clock'
    /\ entries'[k].last_touch # clock'
    => (entries[j].last_touch < entries[k].last_touch
          <=> entries'[j].last_touch < entries'[k].last_touch)

BecomesYoungest(key) ==
  \A j \in DOMAIN entries' \ {key} : entries'[j].last_touch < entries'[key].last_touch

RecencyKept ==
  [][/\ KeepsOrder
     /\ \A key \in PageKeys : Get(key) => BecomesYoungest(key)
     /\ InsertCommit => BecomesYoungest(call.key)]_vars

(* Every call returns: the eviction loops end.                             *)
CallReturns == (call # Idle) ~> (call = Idle)

=============================================================================
