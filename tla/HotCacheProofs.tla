--------------------------- MODULE HotCacheProofs ---------------------------
(***************************************************************************)
(* Theorems about HotCache, for every set of page keys, every budget and   *)
(* every clock width: its accounts are exact and its budgets kept, a layer *)
(* is isolated from the others, last touches stay distinct and in the past *)
(* of the clock however often it is renormalised, no step reorders pages   *)
(* it does not use, the evicted count is exact, and all of it together     *)
(* implements the LRU cache of LruCache.                                   *)
(***************************************************************************)
EXTENDS HotCacheRefinement, FiniteSetTheorems, TLAPS

(* The cells of one page.                                                  *)
LEMMA RowCells ==
  ASSUME NEW k, NEW n \in Nat
  PROVE  IsFiniteSet({k} \X (1 .. n)) /\ Cardinality({k} \X (1 .. n)) = n
<1>1. IsFiniteSet(1 .. n) /\ Cardinality(1 .. n) = n
  <2>1. 1 \in Int /\ n \in Int
    OBVIOUS
  <2>2. /\ IsFiniteSet(1 .. n)
        /\ Cardinality(1 .. n) = IF 1 > n THEN 0 ELSE n - 1 + 1
    BY <2>1, FS_Interval, Zenon
  <2> QED
    BY <2>2
<1>2. IsFiniteSet({k}) /\ Cardinality({k}) = 1
  BY FS_Singleton, Zenon
<1>3. /\ IsFiniteSet({k} \X (1 .. n))
      /\ Cardinality({k} \X (1 .. n)) = Cardinality({k}) * Cardinality(1 .. n)
  BY <1>1, <1>2, FS_Product, Zenon
<1> QED
  BY <1>1, <1>2, <1>3

(* The cells of a set of pages without one of them: as many fewer as the   *)
(* page has bytes.                                                         *)
LEMMA ByteCellsRemove ==
  ASSUME NEW pages, NEW S, NEW k \in S, pages[k].bytes \in Nat,
         IsFiniteSet(ByteCells(pages, S))
  PROVE  /\ IsFiniteSet(ByteCells(pages, S \ {k}))
         /\ Cardinality(ByteCells(pages, S)) =
              Cardinality(ByteCells(pages, S \ {k})) + pages[k].bytes
         /\ Cardinality(ByteCells(pages, S \ {k})) \in Nat
<1> DEFINE A == ByteCells(pages, S \ {k})
           B == {k} \X (1 .. pages[k].bytes)
<1>1. ByteCells(pages, S) = A \cup B
  BY Zenon DEF ByteCells
<1>2. A \cap B = {}
  BY DEF ByteCells
<1>3. IsFiniteSet(A)
  BY <1>1, FS_Subset
<1>4. IsFiniteSet(B) /\ Cardinality(B) = pages[k].bytes
  BY RowCells
<1>5. Cardinality(A \cup B) = Cardinality(A) + Cardinality(B) - Cardinality(A \cap B)
  BY <1>3, <1>4, FS_Union
<1>6. Cardinality(A \cap B) = 0
  BY <1>2, FS_EmptySet
<1>7. Cardinality(A) \in Nat
  BY <1>3, FS_CardinalityType
<1> QED
  BY <1>1, <1>3, <1>4, <1>5, <1>6, <1>7

(* Cells depend on the sizes of the pages of the set only.                 *)
LEMMA ByteCellsSame ==
  ASSUME NEW pages, NEW others, NEW S, \A k \in S : pages[k].bytes = others[k].bytes
  PROVE  ByteCells(pages, S) = ByteCells(others, S)
BY DEF ByteCells

(* A set of pages with one more: as many more cells as the page has bytes. *)
LEMMA ByteCellsAdd ==
  ASSUME NEW pages, NEW S, NEW k, k \notin S, pages[k].bytes \in Nat,
         IsFiniteSet(ByteCells(pages, S))
  PROVE  /\ IsFiniteSet(ByteCells(pages, S \cup {k}))
         /\ Cardinality(ByteCells(pages, S \cup {k})) =
              Cardinality(ByteCells(pages, S)) + pages[k].bytes
<1> DEFINE T == S \cup {k}
           B == {k} \X (1 .. pages[k].bytes)
<1>1. ByteCells(pages, T) = ByteCells(pages, S) \cup B
  BY DEF ByteCells
<1>2. IsFiniteSet(B)
  BY RowCells
<1>3. IsFiniteSet(ByteCells(pages, T))
  <2> HIDE DEF B, T
  <2> QED
    BY <1>1, <1>2, FS_Union
<1>4. T \ {k} = S
  OBVIOUS
<1> HIDE DEF T
<1>5. k \in T
  BY DEF T
<1> QED
  BY <1>3, <1>4, <1>5, ByteCellsRemove DEF T

-----------------------------------------------------------------------------
(* The inductive invariant.  To the counters' exactness it adds that the   *)
(* cells are finite (so that cardinalities add up), and to the budgets     *)
(* what a frame remembers of the checks that let it begin.                 *)

Accounts ==
  /\ AccountingExact
  /\ IsFiniteSet(ByteCells(entries, DOMAIN entries))

CallFits ==
  Inserting =>
    /\ call.key \notin DOMAIN entries
    /\ call.bytes <= MaxBytes
    /\ LayerOf[call.key] \in DOMAIN layer_budgets =>
         /\ call.bytes <= layer_budgets[LayerOf[call.key]]
         /\ call.pc = "insert_global" =>
              LayerUsed(LayerOf[call.key]) + call.bytes <= layer_budgets[LayerOf[call.key]]

Inv == TypeOK /\ Accounts /\ BudgetsHold /\ CallFits

(* The layer of a resident page is a layer; byte counts are numbers.       *)
LEMMA LayerFacts ==
  ASSUME TypeOK
  PROVE  /\ \A k \in PageKeys : LayerOf[k] \in Layers
         /\ \A l \in Layers : LayerUsed(l) \in Nat
         /\ \A k \in DOMAIN entries : k \in PageKeys /\ entries[k] \in HotPage
BY DEF TypeOK, Layers, LayerUsed

(* SubLayerUsage changes the use of one layer and drops empty ones.        *)
LEMMA SubLayerUsageFacts ==
  ASSUME TypeOK, NEW layer \in Layers, NEW bytes \in Nat, SubLayerUsage(layer, bytes)
  PROVE  /\ DOMAIN layer_used_bytes' \subseteq Layers
         /\ layer_used_bytes' \in [DOMAIN layer_used_bytes' -> Nat]
         /\ \A l \in Layers :
              LayerUsed(l)' = IF l = layer THEN SatSub(LayerUsed(layer), bytes) ELSE LayerUsed(l)
         /\ (\A l \in DOMAIN layer_used_bytes : layer_used_bytes[l] > 0) =>
              (\A l \in DOMAIN layer_used_bytes' : layer_used_bytes'[l] > 0)
<1> DEFINE used == SatSub(LayerUsed(layer), bytes)
           D == (DOMAIN layer_used_bytes \ {layer}) \cup (IF used = 0 THEN {} ELSE {layer})
<1>1. used \in Nat
  BY LayerFacts DEF SatSub
<1>2. layer_used_bytes' = [l \in D |-> IF l = layer THEN used ELSE layer_used_bytes[l]]
  BY DEF SubLayerUsage
<1>3. /\ DOMAIN layer_used_bytes \subseteq Layers
      /\ layer_used_bytes \in [DOMAIN layer_used_bytes -> Nat]
  BY DEF TypeOK
<1> HIDE DEF used
<1>4. DOMAIN layer_used_bytes' = D
  BY <1>2
<1>5. \A l \in Layers : LayerUsed(l)' = IF l = layer THEN used ELSE LayerUsed(l)
  BY <1>2, <1>4 DEF LayerUsed
<1>6. layer_used_bytes' \in [D -> Nat]
  BY <1>1, <1>2, <1>3
<1>7. (\A l \in DOMAIN layer_used_bytes : layer_used_bytes[l] > 0) =>
        (\A l \in D : layer_used_bytes'[l] > 0)
  BY <1>1, <1>2, <1>3
<1> QED
  BY <1>3, <1>4, <1>5, <1>6, <1>7 DEF used

(* Removing a page keeps the types and the accounting, and only lowers the *)
(* counters.                                                               *)
LEMMA RemovePageFacts ==
  ASSUME TypeOK, Accounts, NEW key \in DOMAIN entries, RemovePage(key)
  PROVE  /\ Accounts'
         /\ DOMAIN entries' = DOMAIN entries \ {key}
         /\ \A k \in DOMAIN entries' : entries'[k] = entries[k]
         /\ entries' \in [DOMAIN entries' -> HotPage]
         /\ used_bytes' \in Nat /\ used_bytes' <= used_bytes
         /\ DOMAIN layer_used_bytes' \subseteq Layers
         /\ layer_used_bytes' \in [DOMAIN layer_used_bytes' -> Nat]
         /\ \A l \in Layers : LayerUsed(l)' <= LayerUsed(l)
<1> DEFINE bytes == entries[key].bytes
           L == LayerOf[key]
           D == DOMAIN entries
           Cells(S) == ByteCells(entries, S)
<1>1. /\ key \in PageKeys /\ bytes \in Nat /\ L \in Layers
      /\ \A k \in D : LayerOf[k] \in Layers /\ entries[k].bytes \in Nat
      /\ used_bytes \in Nat /\ \A l \in Layers : LayerUsed(l) \in Nat
  BY LayerFacts DEF TypeOK, HotPage
<1>2. /\ DOMAIN entries' = D \ {key}
      /\ \A k \in D \ {key} : entries'[k] = entries[k]
      /\ used_bytes' = SatSub(used_bytes, bytes)
      /\ SubLayerUsage(L, bytes)
  BY DEF RemovePage
<1>3. entries' \in [D \ {key} -> HotPage]
  BY <1>2 DEF RemovePage, TypeOK
<1>4. /\ DOMAIN layer_used_bytes' \subseteq Layers
      /\ layer_used_bytes' \in [DOMAIN layer_used_bytes' -> Nat]
      /\ \A l \in Layers :
           LayerUsed(l)' = IF l = L THEN SatSub(LayerUsed(L), bytes) ELSE LayerUsed(l)
      /\ \A l \in DOMAIN layer_used_bytes' : layer_used_bytes'[l] > 0
  BY <1>1, <1>2, SubLayerUsageFacts DEF Accounts, AccountingExact
<1>5. \A S : S \subseteq D \ {key} => ByteCells(entries', S) = Cells(S)
  <2> SUFFICES ASSUME NEW S, S \subseteq D \ {key}
               PROVE  ByteCells(entries', S) = ByteCells(entries, S)
    OBVIOUS
  <2> QED
    BY <1>2, ByteCellsSame
<1>6. IsFiniteSet(Cells(D))
  BY DEF Accounts
<1>7. /\ IsFiniteSet(Cells(D \ {key}))
      /\ Cardinality(Cells(D)) = Cardinality(Cells(D \ {key})) + bytes
      /\ Cardinality(Cells(D \ {key})) \in Nat
  BY <1>1, <1>6, ByteCellsRemove
<1>8. used_bytes' = Cardinality(ByteCells(entries', DOMAIN entries'))
  <2>1. used_bytes = Cardinality(Cells(D))
    BY DEF Accounts, AccountingExact, BytesOf
  <2> HIDE DEF Cells, bytes
  <2>2. used_bytes' = Cardinality(Cells(D \ {key}))
    BY <2>1, <1>1, <1>2, <1>7 DEF SatSub
  <2> QED
    BY <2>2, <1>2, <1>5
<1>9. \A l \in Layers : LayerUsed(l)' = Cardinality(ByteCells(entries', InLayer(l)'))
  <2> SUFFICES ASSUME NEW l \in Layers
               PROVE  LayerUsed(l)' = Cardinality(ByteCells(entries', InLayer(l)'))
    OBVIOUS
  <2>1. LayerUsed(l) = Cardinality(Cells(InLayer(l)))
    BY DEF Accounts, AccountingExact, BytesOf
  <2>2. InLayer(l)' = InLayer(l) \ {key} /\ InLayer(l)' \subseteq D \ {key}
    BY <1>2 DEF InLayer
  <2>3. ByteCells(entries', InLayer(l)') = Cells(InLayer(l) \ {key})
    BY <2>2, <1>5
  <2>4. CASE l = L
    <3>1. key \in InLayer(l)
      BY <2>4 DEF InLayer
    <3>2. IsFiniteSet(Cells(InLayer(l)))
      <4>1. Cells(InLayer(l)) \subseteq Cells(D)
        BY DEF ByteCells, InLayer
      <4> QED
        BY <4>1, <1>6, FS_Subset
    <3>3. /\ Cardinality(Cells(InLayer(l))) = Cardinality(Cells(InLayer(l) \ {key})) + bytes
          /\ Cardinality(Cells(InLayer(l) \ {key})) \in Nat
      BY <3>1, <3>2, <1>1, ByteCellsRemove
    <3> HIDE DEF Cells, bytes
    <3>4. LayerUsed(l)' = Cardinality(Cells(InLayer(l) \ {key}))
      BY <2>1, <2>4, <3>3, <1>1, <1>4 DEF SatSub
    <3> QED
      BY <3>4, <2>3
  <2>5. CASE l # L
    <3>1. InLayer(l) \ {key} = InLayer(l)
      BY <2>5 DEF InLayer
    <3> QED
      BY <3>1, <2>1, <2>3, <2>5, <1>4
  <2> QED
    BY <2>4, <2>5
<1>10. IsFiniteSet(ByteCells(entries', DOMAIN entries'))
  BY <1>2, <1>5, <1>7
<1>11. Accounts'
  BY <1>4, <1>8, <1>9, <1>10 DEF Accounts, AccountingExact, BytesOf
<1>12. used_bytes' \in Nat /\ used_bytes' <= used_bytes
  BY <1>1, <1>2 DEF SatSub
<1>13. \A l \in Layers : LayerUsed(l)' <= LayerUsed(l)
  BY <1>1, <1>4 DEF SatSub
<1> QED
  BY <1>2, <1>3, <1>4, <1>11, <1>12, <1>13

-----------------------------------------------------------------------------
(* The frames.                                                             *)

(* What a frame holds, by its program counter.                             *)
LEMMA FrameFacts ==
  ASSUME TypeOK
  PROVE  /\ call.pc = "budget" =>
              call \in BudgetCalls /\ call.layer \in Layers /\ call.evicted \in Nat
         /\ Inserting =>
              /\ call \in InsertCalls
              /\ call.key \in PageKeys /\ LayerOf[call.key] \in Layers
              /\ call.bytes \in Nat \ {0} /\ call.tokens \in Nat \ {0}
              /\ call.kv \in Contents /\ call.evicted \in Nat
         /\ call # Idle => DOMAIN entries \subseteq DOMAIN before.entries
         /\ Idle.pc = "idle"
BY DEF TypeOK, BudgetCalls, InsertCalls, Inserting, Idle, Layers

(* One iteration of an eviction loop: the incoming page stays out of the   *)
(* map and the counters only fall, so that every budget that held holds.   *)
LEMMA EvictInv ==
  ASSUME Inv, call.pc = "budget" \/ Inserting,
         NEW victim \in DOMAIN entries, Evict(victim)
  PROVE  Inv'
<1> USE DEF Inv
<1>1. RemovePage(victim) /\ UNCHANGED <<clock, layer_budgets, before>>
  BY DEF Evict
<1>2. /\ Accounts'
      /\ DOMAIN entries' = DOMAIN entries \ {victim}
      /\ entries' \in [DOMAIN entries' -> HotPage]
      /\ used_bytes' \in Nat /\ used_bytes' <= used_bytes
      /\ DOMAIN layer_used_bytes' \subseteq Layers
      /\ layer_used_bytes' \in [DOMAIN layer_used_bytes' -> Nat]
      /\ \A l \in Layers : LayerUsed(l)' <= LayerUsed(l)
  BY <1>1, RemovePageFacts
<1>3. /\ call' \in BudgetCalls \cup InsertCalls
      /\ call'.pc = call.pc
      /\ call.pc = "budget" => call'.layer = call.layer
      /\ Inserting => call'.key = call.key /\ call'.bytes = call.bytes
  <2>1. call' = [call EXCEPT !.evicted = @ + 1]
    BY DEF Evict
  <2>2. CASE call.pc = "budget"
    BY <2>1, <2>2, FrameFacts DEF BudgetCalls, Inserting
  <2>3. CASE Inserting
    BY <2>1, <2>3, FrameFacts DEF InsertCalls, Inserting
  <2> QED
    BY <2>2, <2>3
<1>4. TypeOK'
  <2>1. call # Idle
    BY DEF Inserting, Idle
  <2> QED
    BY <1>1, <1>2, <1>3, <2>1, FrameFacts DEF TypeOK
<1>5. \A l \in Layers : LayerUsed(l) \in Nat /\ LayerUsed(l)' \in Nat
  BY <1>4, LayerFacts DEF TypeOK, LayerUsed
<1>6. DOMAIN layer_budgets \subseteq Layers /\ \A l \in DOMAIN layer_budgets : layer_budgets[l] \in Nat
  BY HotCacheAssumption DEF TypeOK
<1>7. BudgetsHold'
  <2>1. used_bytes' <= MaxBytes
    BY <1>2, HotCacheAssumption DEF BudgetsHold, TypeOK
  <2>2. ASSUME NEW l \in DOMAIN layer_budgets', ~(call'.pc = "budget" /\ call'.layer = l)
        PROVE  LayerUsed(l)' <= layer_budgets'[l]
    <3>1. l \in Layers /\ layer_budgets'[l] = layer_budgets[l] /\ l \in DOMAIN layer_budgets
      BY <1>1, <1>6
    <3>2. ~(call.pc = "budget" /\ call.layer = l)
      BY <1>3, <2>2
    <3>3. LayerUsed(l) <= layer_budgets[l]
      BY <3>1, <3>2 DEF BudgetsHold
    <3> QED
      BY <3>1, <3>3, <1>2, <1>5, <1>6
  <2> QED
    BY <2>1, <2>2 DEF BudgetsHold
<1>8. CallFits'
  <2> SUFFICES ASSUME Inserting' PROVE CallFits'
    BY DEF CallFits
  <2>1. Inserting /\ call'.key = call.key /\ call'.bytes = call.bytes
    BY <1>3 DEF Inserting
  <2>2. LayerOf[call.key] \in Layers
    BY <2>1, FrameFacts
  <2> QED
    BY <1>1, <1>2, <1>3, <1>5, <1>6, <2>1, <2>2, FrameFacts DEF CallFits
<1> QED
  BY <1>2, <1>4, <1>7, <1>8

(* The clock stays a u64, and renormalising changes nothing but touches.   *)
LEMMA TickFacts ==
  ASSUME TypeOK
  PROVE  /\ TickedClock \in 1 .. ClockMax
         /\ DOMAIN TickedEntries = DOMAIN entries
         /\ \A k \in DOMAIN entries :
              /\ TickedEntries[k] \in HotPage
              /\ TickedEntries[k].bytes = entries[k].bytes
              /\ AbstractPage(TickedEntries[k]) = AbstractPage(entries[k])
<1> DEFINE Rank(k) ==
      AtMost(Cardinality({j \in DOMAIN entries : entries[j].last_touch <= entries[k].last_touch}),
             ClockMax - 1)
<1>1. IsFiniteSet(DOMAIN entries) /\ Cardinality(DOMAIN entries) \in Nat
  BY HotCacheAssumption, FS_Subset, FS_CardinalityType DEF TypeOK
<1>2. ClockMax \in Nat \ {0}
  <2>1. Cardinality(PageKeys) \in Nat
    BY HotCacheAssumption, FS_CardinalityType
  <2> QED
    BY <2>1, HotCacheAssumption
<1>3. \A k \in DOMAIN entries : Rank(k) \in Nat
  <2> SUFFICES ASSUME NEW k \in DOMAIN entries PROVE Rank(k) \in Nat
    OBVIOUS
  <2> DEFINE S == {j \in DOMAIN entries : entries[j].last_touch <= entries[k].last_touch}
  <2>1. IsFiniteSet(S) /\ Cardinality(S) \in Nat
    BY <1>1, FS_Subset, FS_CardinalityType
  <2> HIDE DEF S
  <2>2. AtMost(Cardinality(S), ClockMax - 1) \in Nat
    BY <2>1, <1>2 DEF AtMost
  <2> QED
    BY <2>2 DEF S
<1>4. TickedClock \in 1 .. ClockMax
  BY <1>1, <1>2 DEF TickedClock, AtMost, TypeOK
<1>5. \A k \in DOMAIN entries : entries[k] \in HotPage
  BY DEF TypeOK
<1> HIDE DEF Rank
<1>6. Renormalized = [k \in DOMAIN entries |-> [entries[k] EXCEPT !.last_touch = Rank(k)]]
  BY DEF Renormalized, Rank
<1>7. \A k \in DOMAIN entries :
        /\ Renormalized[k] \in HotPage
        /\ Renormalized[k].bytes = entries[k].bytes
        /\ AbstractPage(Renormalized[k]) = AbstractPage(entries[k])
  BY <1>3, <1>5, <1>6 DEF HotPage, AbstractPage
<1> QED
  BY <1>4, <1>5, <1>6, <1>7 DEF TickedEntries

(* An insert that passes its checks begins within the budgets.             *)
LEMMA InsertBeginInv ==
  ASSUME Inv, NEW key \in PageKeys, NEW tokens \in TokenCounts, NEW head_dim \in HeadDims,
         NEW rows, NEW kv \in Contents, InsertBegin(key, tokens, head_dim, rows, kv)
  PROVE  Inv'
<1> USE DEF Inv
<1> DEFINE bytes == tokens * head_dim
           L == LayerOf[key]
<1>1. /\ call = Idle
      /\ tokens # 0 /\ head_dim # 0
      /\ bytes <= MaxBytes
      /\ L \in DOMAIN layer_budgets => bytes <= layer_budgets[L]
      /\ call' = [pc |-> "insert_layer", key |-> key, tokens |-> tokens, kv |-> kv,
                  bytes |-> bytes, evicted |-> 0]
      /\ before' = Snapshot
      /\ UNCHANGED <<clock, layer_budgets>>
  <2>1. tokens \in Nat /\ head_dim \in Nat /\ MaxBytes \in Nat
    BY HotCacheAssumption
  <2>2. bytes \in Nat
    BY <2>1
  <2>3. L \in DOMAIN layer_budgets => layer_budgets[L] \in Nat
    BY HotCacheAssumption DEF TypeOK
  <2> HIDE DEF bytes
  <2>4. /\ call = Idle /\ ~InvalidPage(tokens, head_dim, rows) /\ ~RejectedTooLarge(key, bytes)
        /\ call' = [pc |-> "insert_layer", key |-> key, tokens |-> tokens, kv |-> kv,
                    bytes |-> bytes, evicted |-> 0]
        /\ before' = Snapshot
        /\ UNCHANGED <<clock, layer_budgets>>
    BY DEF InsertBegin, bytes
  <2> QED
    BY <2>1, <2>2, <2>3, <2>4 DEF InvalidPage, RejectedTooLarge
<1>2. tokens \in Nat \ {0} /\ bytes \in Nat \ {0}
  <2>1. tokens \in Nat \ {0} /\ head_dim \in Nat \ {0}
    BY <1>1, HotCacheAssumption
  <2> QED
    BY <2>1
<1> HIDE DEF bytes
<1>3. /\ Accounts'
      /\ DOMAIN entries' = DOMAIN entries \ {key}
      /\ entries' \in [DOMAIN entries' -> HotPage]
      /\ used_bytes' \in Nat /\ used_bytes' <= used_bytes
      /\ DOMAIN layer_used_bytes' \subseteq Layers
      /\ layer_used_bytes' \in [DOMAIN layer_used_bytes' -> Nat]
      /\ \A l \in Layers : LayerUsed(l)' <= LayerUsed(l)
  <2>1. CASE key \in DOMAIN entries
    <3>1. RemovePage(key)
      BY <2>1 DEF InsertBegin
    <3> QED
      BY <2>1, <3>1, RemovePageFacts
  <2>2. CASE key \notin DOMAIN entries
    <3>1. UNCHANGED <<entries, used_bytes, layer_used_bytes>>
      BY <2>2 DEF InsertBegin
    <3>2. Accounts'
      BY <3>1 DEF Accounts, AccountingExact, LayerUsed, InLayer, BytesOf
    <3>3. \A l \in Layers : LayerUsed(l) \in Nat /\ LayerUsed(l)' = LayerUsed(l)
      BY <3>1, LayerFacts DEF LayerUsed
    <3>4. \A l \in Layers : LayerUsed(l)' <= LayerUsed(l)
      BY <3>3
    <3>5. DOMAIN entries \ {key} = DOMAIN entries
      BY <2>2
    <3>6. /\ entries' \in [DOMAIN entries' -> HotPage]
          /\ DOMAIN layer_used_bytes' \subseteq Layers
          /\ layer_used_bytes' \in [DOMAIN layer_used_bytes' -> Nat]
      BY <3>1, Zenon DEF TypeOK
    <3>7. used_bytes' \in Nat /\ used_bytes' <= used_bytes
      BY <3>1 DEF TypeOK
    <3> QED
      BY <3>1, <3>2, <3>4, <3>5, <3>6, <3>7, Zenon
  <2> QED
    BY <2>1, <2>2
<1>4. call' \in InsertCalls /\ call'.pc = "insert_layer" /\ call'.key = key /\ call'.bytes = bytes
  BY <1>1, <1>2 DEF InsertCalls
<1>5. TypeOK'
  <2>1. DOMAIN entries' \subseteq DOMAIN before'.entries
    BY <1>1, <1>3 DEF Snapshot
  <2> QED
    BY <1>1, <1>3, <1>4, <2>1 DEF TypeOK
<1>6. BudgetsHold'
  <2>1. used_bytes' <= MaxBytes
    BY <1>3, HotCacheAssumption DEF BudgetsHold, TypeOK
  <2>2. ASSUME NEW l \in DOMAIN layer_budgets
        PROVE  LayerUsed(l)' <= layer_budgets[l]
    <3>1. l \in Layers /\ layer_budgets[l] \in Nat
      BY HotCacheAssumption DEF TypeOK
    <3>2. LayerUsed(l) <= layer_budgets[l]
      BY <1>1 DEF BudgetsHold, Idle
    <3>3. LayerUsed(l) \in Nat /\ LayerUsed(l)' \in Nat
      BY <1>5, <3>1, LayerFacts DEF TypeOK, LayerUsed
    <3> QED
      BY <1>3, <3>1, <3>2, <3>3
  <2> QED
    BY <1>1, <2>1, <2>2 DEF BudgetsHold
<1>7. CallFits'
  BY <1>1, <1>3, <1>4 DEF CallFits
<1> QED
  BY <1>3, <1>5, <1>6, <1>7

(* What a frame leaves the eviction loops with: the incoming page fits.    *)
LEMMA LoopsMakeRoom ==
  ASSUME Inv
  PROVE  /\ CommitFits
         /\ Inserting /\ (~LayerOver(LayerOf[call.key], call.bytes) \/ InLayer(LayerOf[call.key]) = {}) =>
              (LayerOf[call.key] \in DOMAIN layer_budgets =>
                 LayerUsed(LayerOf[call.key]) + call.bytes <= layer_budgets[LayerOf[call.key]])
         /\ call.pc = "budget" /\ (~LayerOver(call.layer, 0) \/ InLayer(call.layer) = {}) =>
              (call.layer \in DOMAIN layer_budgets =>
                 LayerUsed(call.layer) <= layer_budgets[call.layer])
<1> USE DEF Inv
<1>1. \A l \in Layers : LayerUsed(l) \in Nat
  BY LayerFacts
<1>2. \A l \in DOMAIN layer_budgets : l \in Layers /\ layer_budgets[l] \in Nat
  BY HotCacheAssumption DEF TypeOK
<1>3. \A pages : Cardinality(ByteCells(pages, {})) = 0
  <2>1. \A pages : ByteCells(pages, {}) = {}
    BY DEF ByteCells
  <2> QED
    BY <2>1, FS_EmptySet
<1>4. \A l \in Layers : InLayer(l) = {} => LayerUsed(l) = 0
  BY <1>3 DEF Accounts, AccountingExact, BytesOf
<1>5. DOMAIN entries = {} => used_bytes = 0
  BY <1>3 DEF Accounts, AccountingExact, BytesOf
<1>6. used_bytes \in Nat /\ MaxBytes \in Nat /\ UsizeMax \in Nat /\ MaxBytes <= UsizeMax
  BY HotCacheAssumption DEF TypeOK
<1>7. Inserting /\ (~LayerOver(LayerOf[call.key], call.bytes) \/ InLayer(LayerOf[call.key]) = {}) =>
        (LayerOf[call.key] \in DOMAIN layer_budgets =>
           LayerUsed(LayerOf[call.key]) + call.bytes <= layer_budgets[LayerOf[call.key]])
  <2> SUFFICES ASSUME Inserting, LayerOf[call.key] \in DOMAIN layer_budgets,
                      \/ ~LayerOver(LayerOf[call.key], call.bytes)
                      \/ InLayer(LayerOf[call.key]) = {}
               PROVE  LayerUsed(LayerOf[call.key]) + call.bytes <= layer_budgets[LayerOf[call.key]]
    OBVIOUS
  <2> DEFINE L == LayerOf[call.key]
  <2>1. /\ L \in Layers /\ L \in DOMAIN layer_budgets
        /\ call.bytes \in Nat /\ call.bytes <= layer_budgets[L]
    BY FrameFacts DEF CallFits
  <2>2. L \in DOMAIN layer_budgets /\ (~LayerOver(L, call.bytes) \/ InLayer(L) = {})
    OBVIOUS
  <2> HIDE DEF L
  <2>3. LayerUsed(L) + call.bytes <= layer_budgets[L]
    BY <2>1, <2>2, <1>1, <1>2, <1>4 DEF LayerOver, SatSub
  <2> QED
    BY <2>3 DEF L
<1>8. call.pc = "budget" /\ (~LayerOver(call.layer, 0) \/ InLayer(call.layer) = {}) =>
        (call.layer \in DOMAIN layer_budgets =>
           LayerUsed(call.layer) <= layer_budgets[call.layer])
  BY <1>1, <1>2, <1>4, FrameFacts DEF LayerOver, SatSub
<1>9. CommitFits
  <2> SUFFICES ASSUME call.pc = "insert_global",
                      ~GlobalOver(call.bytes) \/ DOMAIN entries = {}
               PROVE  /\ used_bytes + call.bytes <= MaxBytes
                      /\ LayerUsed(LayerOf[call.key]) + call.bytes <= UsizeMax
                      /\ LayerOf[call.key] \in DOMAIN layer_budgets =>
                           LayerUsed(LayerOf[call.key]) + call.bytes
                             <= layer_budgets[LayerOf[call.key]]
    BY DEF CommitFits
  <2> DEFINE L == LayerOf[call.key]
  <2>1. Inserting
    BY DEF Inserting
  <2>2. L \in Layers /\ call.bytes \in Nat /\ call.bytes <= MaxBytes
    BY <2>1, FrameFacts DEF CallFits
  <2>3. used_bytes + call.bytes <= MaxBytes
    BY <2>2, <1>5, <1>6 DEF GlobalOver, SatSub
  <2>4. LayerUsed(L) <= used_bytes
    <3>1. LayerUsed(L) = Cardinality(ByteCells(entries, InLayer(L)))
      BY <2>2 DEF Accounts, AccountingExact, BytesOf
    <3>2. ByteCells(entries, InLayer(L)) \subseteq ByteCells(entries, DOMAIN entries)
      BY DEF ByteCells, InLayer
    <3>3. IsFiniteSet(ByteCells(entries, DOMAIN entries))
      BY DEF Accounts
    <3>4. used_bytes = Cardinality(ByteCells(entries, DOMAIN entries))
      BY DEF Accounts, AccountingExact, BytesOf
    <3> QED
      BY <3>1, <3>2, <3>3, <3>4, FS_Subset
  <2>5. LayerUsed(L) + call.bytes <= UsizeMax
    BY <2>2, <2>3, <2>4, <1>1, <1>6
  <2>6. L \in DOMAIN layer_budgets => LayerUsed(L) + call.bytes <= layer_budgets[L]
    BY <2>1 DEF CallFits
  <2> QED
    BY <2>3, <2>5, <2>6
<1> QED
  BY <1>7, <1>8, <1>9

(* The last step of an insert: its page joins pages whose sizes the clock  *)
(* does not touch, and fits.                                               *)
LEMMA InsertCommitInv ==
  ASSUME Inv, InsertCommit
  PROVE  Inv'
<1> USE DEF Inv
<1> DEFINE key == call.key
           bytes == call.bytes
           L == LayerOf[call.key]
           D == DOMAIN entries
           page == [tokens |-> call.tokens, kv |-> call.kv, bytes |-> call.bytes,
                    last_touch |-> TickedClock]
<1>1. Inserting /\ call.pc = "insert_global" /\ (~GlobalOver(bytes) \/ D = {})
  BY DEF InsertCommit, Inserting
<1>2. /\ key \in PageKeys /\ L \in Layers /\ key \notin D
      /\ bytes \in Nat \ {0} /\ call.tokens \in Nat \ {0} /\ call.kv \in Contents
  BY <1>1, FrameFacts DEF CallFits
<1>3. page \in HotPage
  BY <1>2, TickFacts DEF HotPage
<1> HIDE DEF page
<1>4. /\ entries' = [k \in D \cup {key} |-> IF k = key THEN page ELSE TickedEntries[k]]
      /\ clock' = TickedClock
      /\ used_bytes' = used_bytes + bytes
      /\ layer_used_bytes' = [l \in DOMAIN layer_used_bytes \cup {L} |->
                                IF l = L THEN LayerUsed(l) + bytes ELSE layer_used_bytes[l]]
      /\ call' = Idle /\ before' = NoSnapshot /\ layer_budgets' = layer_budgets
  BY DEF InsertCommit, page
<1>5. /\ used_bytes + bytes <= MaxBytes
      /\ L \in DOMAIN layer_budgets => LayerUsed(L) + bytes <= layer_budgets[L]
  BY <1>1, LoopsMakeRoom DEF CommitFits
<1>6. /\ DOMAIN entries' = D \cup {key}
      /\ entries' \in [D \cup {key} -> HotPage]
      /\ entries'[key].bytes = bytes
      /\ \A k \in D : entries'[k].bytes = entries[k].bytes
  BY <1>2, <1>3, <1>4, TickFacts DEF page
<1>7. \A l \in Layers : LayerUsed(l) \in Nat
  BY LayerFacts
<1>8. /\ DOMAIN layer_used_bytes' = DOMAIN layer_used_bytes \cup {L}
      /\ layer_used_bytes' \in [DOMAIN layer_used_bytes \cup {L} -> Nat]
      /\ DOMAIN layer_used_bytes \subseteq Layers
  BY <1>2, <1>4, <1>7 DEF TypeOK
<1>9. \A l \in Layers : LayerUsed(l)' = IF l = L THEN LayerUsed(l) + bytes ELSE LayerUsed(l)
  BY <1>2, <1>4, <1>8 DEF LayerUsed
<1>10. TypeOK'
  <2>1. D \subseteq PageKeys /\ used_bytes \in Nat /\ layer_budgets' \in [DOMAIN layer_budgets' -> LayerBudgets]
        /\ DOMAIN layer_budgets' \subseteq Layers
    BY <1>4 DEF TypeOK
  <2>2. clock' \in 0 .. ClockMax
    BY <1>4, TickFacts
  <2> QED
    BY <2>1, <2>2, <1>2, <1>4, <1>6, <1>8 DEF TypeOK
<1>11. \A S : S \subseteq D => ByteCells(entries', S) = ByteCells(entries, S)
  <2> SUFFICES ASSUME NEW S, S \subseteq D
               PROVE  ByteCells(entries', S) = ByteCells(entries, S)
    OBVIOUS
  <2> QED
    BY <1>6, ByteCellsSame
<1>12. \A S : S \subseteq D => /\ IsFiniteSet(ByteCells(entries', S \cup {key}))
                               /\ Cardinality(ByteCells(entries', S \cup {key})) =
                                    Cardinality(ByteCells(entries, S)) + bytes
  <2> SUFFICES ASSUME NEW S, S \subseteq D
               PROVE  /\ IsFiniteSet(ByteCells(entries', S \cup {key}))
                      /\ Cardinality(ByteCells(entries', S \cup {key})) =
                           Cardinality(ByteCells(entries, S)) + bytes
    OBVIOUS
  <2>1. ByteCells(entries', S) = ByteCells(entries, S)
    BY <1>11
  <2>2. IsFiniteSet(ByteCells(entries, S))
    <3>1. ByteCells(entries, S) \subseteq ByteCells(entries, D)
      BY DEF ByteCells
    <3> QED
      BY <3>1, FS_Subset DEF Accounts
  <2>3. key \notin S /\ entries'[key].bytes \in Nat
    BY <1>2, <1>6
  <2> HIDE DEF key, bytes
  <2>4. /\ IsFiniteSet(ByteCells(entries', S \cup {key}))
        /\ Cardinality(ByteCells(entries', S \cup {key})) =
             Cardinality(ByteCells(entries', S)) + entries'[key].bytes
    BY <2>1, <2>2, <2>3, ByteCellsAdd
  <2> QED
    BY <2>1, <2>4, <1>6
<1>13. Accounts'
  <2>1. used_bytes' = Cardinality(ByteCells(entries', DOMAIN entries'))
        /\ IsFiniteSet(ByteCells(entries', DOMAIN entries'))
    BY <1>4, <1>6, <1>12 DEF Accounts, AccountingExact, BytesOf
  <2>2. \A l \in Layers : LayerUsed(l)' = Cardinality(ByteCells(entries', InLayer(l)'))
    <3> SUFFICES ASSUME NEW l \in Layers
                 PROVE  LayerUsed(l)' = Cardinality(ByteCells(entries', InLayer(l)'))
      OBVIOUS
    <3>1. LayerUsed(l) = Cardinality(ByteCells(entries, InLayer(l))) /\ InLayer(l) \subseteq D
      BY DEF Accounts, AccountingExact, BytesOf, InLayer
    <3>2. CASE l = L
      <4>1. InLayer(l)' = InLayer(l) \cup {key}
        BY <3>2, <1>6 DEF InLayer
      <4> QED
        BY <4>1, <3>1, <3>2, <1>9, <1>12
    <3>3. CASE l # L
      <4>1. InLayer(l)' = InLayer(l)
        BY <3>3, <1>6 DEF InLayer
      <4> QED
        BY <4>1, <3>1, <3>3, <1>9, <1>11
    <3> QED
      BY <3>2, <3>3
  <2>3. \A l \in DOMAIN layer_used_bytes' : layer_used_bytes'[l] > 0
    <3>1. \A l \in DOMAIN layer_used_bytes : l \in Layers /\ layer_used_bytes[l] > 0
      BY <1>8 DEF Accounts, AccountingExact
    <3>2. LayerUsed(L) + bytes > 0
      BY <1>2, <1>7
    <3> QED
      BY <3>1, <3>2, <1>4, <1>8
  <2> QED
    BY <2>1, <2>2, <2>3 DEF Accounts, AccountingExact, BytesOf
<1>14. BudgetsHold'
  <2>1. \A l \in DOMAIN layer_budgets : l \in Layers /\ LayerUsed(l) <= layer_budgets[l]
    BY <1>1 DEF BudgetsHold, TypeOK
  <2>2. \A l \in DOMAIN layer_budgets : LayerUsed(l)' <= layer_budgets[l]
    BY <2>1, <1>5, <1>9
  <2> QED
    BY <2>2, <1>4, <1>5 DEF BudgetsHold
<1>15. CallFits'
  BY <1>4 DEF CallFits, Inserting, Idle
<1> QED
  BY <1>10, <1>13, <1>14, <1>15

(* A step between the loops of a call: nothing but the frame moves on.     *)
LEMMA FrameDoneInv ==
  ASSUME Inv, InsertLayerDone \/ BudgetDone
  PROVE  Inv'
<1> USE DEF Inv
<1>1. UNCHANGED cache_vars
  BY DEF InsertLayerDone, BudgetDone, cache_vars
<1>2. /\ Accounts' /\ \A l : LayerUsed(l)' = LayerUsed(l)
  BY <1>1 DEF cache_vars, Accounts, AccountingExact, LayerUsed, InLayer, BytesOf
<1>3. CASE InsertLayerDone
  <2>1. Inserting /\ call.pc = "insert_layer" /\ call' = [call EXCEPT !.pc = "insert_global"]
        /\ before' = before
    BY <1>3 DEF InsertLayerDone, Inserting
  <2>2. /\ call' \in InsertCalls /\ call'.pc = "insert_global"
        /\ call'.key = call.key /\ call'.bytes = call.bytes
    BY <2>1, FrameFacts DEF InsertCalls
  <2>3. LayerOf[call.key] \in DOMAIN layer_budgets =>
          LayerUsed(LayerOf[call.key]) + call.bytes <= layer_budgets[LayerOf[call.key]]
    BY <2>1, <1>3, LoopsMakeRoom DEF InsertLayerDone
  <2>4. TypeOK'
    <3>1. DOMAIN entries \subseteq DOMAIN before.entries
      BY <2>1, FrameFacts DEF Inserting, Idle
    <3> QED
      BY <1>1, <2>1, <2>2, <3>1 DEF TypeOK, cache_vars
  <2>5. BudgetsHold'
    BY <1>1, <1>2, <2>1, <2>2 DEF BudgetsHold, cache_vars
  <2>6. CallFits'
    BY <1>1, <1>2, <2>1, <2>2, <2>3 DEF CallFits, cache_vars
  <2> QED
    BY <1>2, <2>4, <2>5, <2>6
<1>4. CASE BudgetDone
  <2>1. call.pc = "budget" /\ call' = Idle /\ before' = NoSnapshot
    BY <1>4 DEF BudgetDone
  <2>2. call.layer \in DOMAIN layer_budgets => LayerUsed(call.layer) <= layer_budgets[call.layer]
    BY <1>4, LoopsMakeRoom DEF BudgetDone
  <2>3. TypeOK'
    BY <1>1, <2>1 DEF TypeOK, cache_vars
  <2>4. BudgetsHold'
    BY <1>1, <1>2, <2>1, <2>2 DEF BudgetsHold, cache_vars
  <2>5. CallFits'
    BY <2>1 DEF CallFits, Inserting, Idle
  <2> QED
    BY <1>2, <2>3, <2>4, <2>5
<1> QED
  BY <1>3, <1>4

(* Setting or clearing a budget does not touch the pages.                  *)
LEMMA BudgetCallInv ==
  ASSUME Inv, NEW layer \in Layers,
         \/ \E bytes \in LayerBudgets : SetLayerBudget(layer, bytes)
         \/ ClearLayerBudget(layer)
  PROVE  Inv'
<1> USE DEF Inv
<1>1. call = Idle /\ UNCHANGED <<entries, used_bytes, clock, layer_used_bytes>>
  BY DEF SetLayerBudget, ClearLayerBudget
<1>2. /\ Accounts' /\ \A l : LayerUsed(l)' = LayerUsed(l)
  BY <1>1 DEF Accounts, AccountingExact, LayerUsed, InLayer, BytesOf
<1>3. CASE \E bytes \in LayerBudgets : SetLayerBudget(layer, bytes)
  <2>1. PICK bytes \in LayerBudgets : SetLayerBudget(layer, bytes)
    BY <1>3
  <2>2. /\ layer_budgets' = [l \in DOMAIN layer_budgets \cup {layer} |->
                               IF l = layer THEN bytes ELSE layer_budgets[l]]
        /\ call' = [pc |-> "budget", layer |-> layer, evicted |-> 0]
        /\ before' = Snapshot
    BY <2>1 DEF SetLayerBudget
  <2>3. TypeOK'
    <3>1. call' \in BudgetCalls /\ DOMAIN entries' \subseteq DOMAIN before'.entries
      BY <1>1, <2>2 DEF BudgetCalls, Snapshot
    <3>2. /\ DOMAIN layer_budgets' \subseteq Layers
          /\ layer_budgets' \in [DOMAIN layer_budgets' -> LayerBudgets]
      BY <2>2 DEF TypeOK
    <3> QED
      BY <1>1, <3>1, <3>2 DEF TypeOK
  <2>4. BudgetsHold'
    BY <1>1, <1>2, <2>2 DEF BudgetsHold, Idle
  <2>5. CallFits'
    BY <2>2 DEF CallFits, Inserting
  <2> QED
    BY <1>2, <2>3, <2>4, <2>5
<1>4. CASE ClearLayerBudget(layer)
  <2>1. /\ layer_budgets' = [l \in DOMAIN layer_budgets \ {layer} |-> layer_budgets[l]]
        /\ call' = call /\ before' = before
    BY <1>4 DEF ClearLayerBudget
  <2>2. TypeOK'
    BY <1>1, <2>1 DEF TypeOK
  <2>3. BudgetsHold'
    BY <1>1, <1>2, <2>1 DEF BudgetsHold, Idle
  <2>4. CallFits'
    BY <1>1, <2>1 DEF CallFits, Inserting, Idle
  <2> QED
    BY <1>2, <2>2, <2>3, <2>4
<1> QED
  BY <1>3, <1>4

(* Clear, remove and get: calls of a single step.                          *)
LEMMA SingleStepInv ==
  ASSUME Inv, Clear \/ (\E key \in PageKeys : Remove(key) \/ Get(key))
  PROVE  Inv'
<1> USE DEF Inv
<1>1. call = Idle /\ before = NoSnapshot /\ UNCHANGED <<layer_budgets, call, before>>
  BY DEF Clear, Remove, Get, TypeOK, BudgetCalls, InsertCalls, Idle
<1>2. CallFits'
  BY <1>1 DEF CallFits, Inserting, Idle
<1>3. \A l \in DOMAIN layer_budgets :
        l \in Layers /\ layer_budgets[l] \in Nat /\ LayerUsed(l) <= layer_budgets[l]
  BY <1>1, HotCacheAssumption DEF BudgetsHold, TypeOK, Idle
<1>4. ASSUME TypeOK', used_bytes' <= used_bytes,
             \A l \in Layers : LayerUsed(l)' <= LayerUsed(l)
      PROVE  BudgetsHold'
  <2>1. used_bytes' <= MaxBytes
    BY <1>4, HotCacheAssumption DEF TypeOK, BudgetsHold
  <2>2. \A l \in Layers : LayerUsed(l) \in Nat /\ LayerUsed(l)' \in Nat
    BY <1>4 DEF TypeOK, LayerUsed
  <2>3. \A l \in DOMAIN layer_budgets : LayerUsed(l)' <= layer_budgets[l]
    BY <1>3, <1>4, <2>2
  <2> QED
    BY <1>1, <2>1, <2>3 DEF BudgetsHold
<1>5. CASE Clear
  <2>1. /\ entries' = [k \in {} |-> k] /\ layer_used_bytes' = [l \in {} |-> l]
        /\ used_bytes' = 0 /\ clock' = 0
    BY <1>5 DEF Clear
  <2>2. DOMAIN entries' = {} /\ DOMAIN layer_used_bytes' = {}
    BY <2>1
  <2>3. ClockMax \in Nat
    BY HotCacheAssumption
  <2>4. TypeOK'
    <3>1. entries' \in [DOMAIN entries' -> HotPage] /\ layer_used_bytes' \in [DOMAIN layer_used_bytes' -> Nat]
      BY <2>1
    <3> QED
      BY <1>1, <2>1, <2>2, <2>3, <3>1 DEF TypeOK
  <2>5. \A l : LayerUsed(l)' = 0 /\ InLayer(l)' = {}
    BY <2>2 DEF LayerUsed, InLayer
  <2>6. ByteCells(entries', {}) = {}
    BY DEF ByteCells
  <2>7. Accounts'
    BY <2>1, <2>2, <2>5, <2>6, FS_EmptySet DEF Accounts, AccountingExact, BytesOf
  <2>8. BudgetsHold'
    BY <1>1, <1>3, <2>1, <2>5, HotCacheAssumption DEF BudgetsHold
  <2> QED
    BY <1>2, <2>4, <2>7, <2>8
<1>6. ASSUME NEW key \in PageKeys, Remove(key)
      PROVE  Inv'
  <2>1. key \in DOMAIN entries /\ RemovePage(key) /\ clock' = clock
    BY <1>6 DEF Remove
  <2>2. /\ Accounts'
        /\ DOMAIN entries' = DOMAIN entries \ {key}
        /\ entries' \in [DOMAIN entries' -> HotPage]
        /\ used_bytes' \in Nat /\ used_bytes' <= used_bytes
        /\ DOMAIN layer_used_bytes' \subseteq Layers
        /\ layer_used_bytes' \in [DOMAIN layer_used_bytes' -> Nat]
        /\ \A l \in Layers : LayerUsed(l)' <= LayerUsed(l)
    BY <2>1, RemovePageFacts
  <2>3. TypeOK'
    BY <1>1, <2>1, <2>2 DEF TypeOK
  <2> QED
    BY <1>2, <1>4, <2>2, <2>3
<1>7. ASSUME NEW key \in PageKeys, Get(key)
      PROVE  Inv'
  <2>1. /\ key \in DOMAIN entries
        /\ entries' = [TickedEntries EXCEPT ![key].last_touch = TickedClock]
        /\ clock' = TickedClock
        /\ UNCHANGED <<used_bytes, layer_used_bytes>>
    BY <1>7 DEF Get
  <2>2. /\ DOMAIN entries' = DOMAIN entries
        /\ \A k \in DOMAIN entries : entries'[k] \in HotPage /\ entries'[k].bytes = entries[k].bytes
    BY <2>1, TickFacts DEF HotPage
  <2>3. entries' \in [DOMAIN entries' -> HotPage]
    <3>1. entries' = [k \in DOMAIN entries' |-> entries'[k]]
      BY <2>1
    <3> QED
      BY <2>2, <3>1
  <2>4. clock' \in 0 .. ClockMax
    BY <2>1, TickFacts
  <2>5. TypeOK'
    BY <1>1, <2>1, <2>2, <2>3, <2>4 DEF TypeOK
  <2>6. \A S : S \subseteq DOMAIN entries => ByteCells(entries', S) = ByteCells(entries, S)
    <3> SUFFICES ASSUME NEW S, S \subseteq DOMAIN entries
                 PROVE  ByteCells(entries', S) = ByteCells(entries, S)
      OBVIOUS
    <3> QED
      BY <2>2, ByteCellsSame
  <2>7. \A l : InLayer(l)' = InLayer(l) /\ LayerUsed(l)' = LayerUsed(l) /\ InLayer(l) \subseteq DOMAIN entries
    BY <2>1, <2>2 DEF InLayer, LayerUsed
  <2>8. Accounts'
    BY <2>1, <2>2, <2>6, <2>7 DEF Accounts, AccountingExact, BytesOf
  <2>9. BudgetsHold'
    BY <1>1, <2>1, <2>7 DEF BudgetsHold
  <2> QED
    BY <1>2, <2>5, <2>8, <2>9
<1> QED
  BY <1>5, <1>6, <1>7

-----------------------------------------------------------------------------
(* The invariant holds initially and every step keeps it.                  *)

(* HotCache::new is an empty cache.                                        *)
LEMMA InitInv == Init => Inv
<1> SUFFICES ASSUME Init PROVE Inv
  OBVIOUS
<1>1. /\ entries = [k \in {} |-> k] /\ layer_used_bytes = [l \in {} |-> l]
      /\ layer_budgets = [l \in {} |-> l]
      /\ used_bytes = 0 /\ clock = 0 /\ call = Idle /\ before = NoSnapshot
  BY DEF Init
<1>2. DOMAIN entries = {} /\ DOMAIN layer_used_bytes = {} /\ DOMAIN layer_budgets = {}
  BY <1>1
<1>3. ClockMax \in Nat /\ MaxBytes \in Nat
  BY HotCacheAssumption
<1>4. TypeOK
  <2>1. /\ entries \in [DOMAIN entries -> HotPage]
        /\ layer_used_bytes \in [DOMAIN layer_used_bytes -> Nat]
        /\ layer_budgets \in [DOMAIN layer_budgets -> LayerBudgets]
    BY <1>1
  <2> QED
    BY <1>1, <1>2, <1>3, <2>1 DEF TypeOK
<1>5. \A l : LayerUsed(l) = 0 /\ InLayer(l) = {}
  BY <1>2 DEF LayerUsed, InLayer
<1>6. ByteCells(entries, {}) = {}
  BY DEF ByteCells
<1>7. Accounts
  BY <1>1, <1>2, <1>5, <1>6, FS_EmptySet DEF Accounts, AccountingExact, BytesOf
<1>8. BudgetsHold
  BY <1>1, <1>2, <1>3 DEF BudgetsHold
<1>9. CallFits
  BY <1>1 DEF CallFits, Inserting, Idle
<1> QED
  BY <1>4, <1>7, <1>8, <1>9 DEF Inv

(* A step that changes nothing.                                            *)
LEMMA StutterInv ==
  ASSUME Inv, UNCHANGED vars
  PROVE  Inv'
<1>1. /\ entries' = entries /\ used_bytes' = used_bytes /\ clock' = clock
      /\ layer_budgets' = layer_budgets /\ layer_used_bytes' = layer_used_bytes
      /\ call' = call /\ before' = before
  BY DEF vars
<1>2. TypeOK'
  BY <1>1 DEF Inv, TypeOK
<1>3. Accounts'
  BY <1>1 DEF Inv, Accounts, AccountingExact, LayerUsed, InLayer, BytesOf
<1>4. BudgetsHold'
  BY <1>1 DEF Inv, BudgetsHold, LayerUsed
<1>5. CallFits'
  BY <1>1 DEF Inv, CallFits, Inserting, LayerUsed
<1> QED
  BY <1>2, <1>3, <1>4, <1>5 DEF Inv

(* Every action keeps the invariant.                                       *)
LEMMA NextInv == Inv /\ [Next]_vars => Inv'
<1> SUFFICES ASSUME Inv, [Next]_vars PROVE Inv'
  OBVIOUS
<1>1. ASSUME NEW key \in PageKeys, NEW tokens \in TokenCounts, NEW head_dim \in HeadDims,
             NEW rows \in Rows, InsertRefused(key, tokens, head_dim, rows)
      PROVE  Inv'
  BY <1>1, StutterInv DEF InsertRefused
<1>2. ASSUME NEW key \in PageKeys, NEW tokens \in TokenCounts, NEW head_dim \in HeadDims,
             NEW rows \in Rows, NEW kv \in Contents,
             InsertBegin(key, tokens, head_dim, rows, kv)
      PROVE  Inv'
  BY <1>2, InsertBeginInv
<1>3. CASE InsertEvictLayer
  <2>1. PICK victim \in Oldest(InLayer(LayerOf[call.key])) : Evict(victim)
    BY <1>3 DEF InsertEvictLayer
  <2>2. victim \in DOMAIN entries /\ Inserting
    BY <1>3 DEF Oldest, InLayer, Inserting, InsertEvictLayer
  <2> QED
    BY <2>1, <2>2, EvictInv
<1>4. CASE InsertEvictGlobal
  <2>1. PICK victim \in Oldest(DOMAIN entries) : Evict(victim)
    BY <1>4 DEF InsertEvictGlobal
  <2>2. victim \in DOMAIN entries /\ Inserting
    BY <1>4 DEF Oldest, Inserting, InsertEvictGlobal
  <2> QED
    BY <2>1, <2>2, EvictInv
<1>5. CASE BudgetEvict
  <2>1. PICK victim \in Oldest(InLayer(call.layer)) : Evict(victim)
    BY <1>5 DEF BudgetEvict
  <2>2. victim \in DOMAIN entries /\ call.pc = "budget"
    BY <1>5 DEF Oldest, InLayer, BudgetEvict
  <2> QED
    BY <2>1, <2>2, EvictInv
<1>6. CASE InsertLayerDone \/ BudgetDone
  BY <1>6, FrameDoneInv
<1>7. CASE InsertCommit
  BY <1>7, InsertCommitInv
<1>8. ASSUME NEW layer \in Layers,
             \/ \E bytes \in LayerBudgets : SetLayerBudget(layer, bytes)
             \/ ClearLayerBudget(layer)
      PROVE  Inv'
  BY <1>8, BudgetCallInv
<1>9. CASE Clear \/ (\E key \in PageKeys : Remove(key) \/ Get(key))
  BY <1>9, SingleStepInv
<1>10. CASE UNCHANGED vars
  BY <1>10, StutterInv
<1> QED
  BY <1>1, <1>2, <1>3, <1>4, <1>5, <1>6, <1>7, <1>8, <1>9, <1>10 DEF Next, CallStep

(* Every reachable state of the cache satisfies the inductive invariant.   *)
THEOREM Invariant == Spec => []Inv
<1>1. Init => Inv
  BY InitInv
<1>2. Inv /\ [Next]_vars => Inv'
  BY NextInv
<1> QED
  BY <1>1, <1>2, PTL DEF Spec

(* Every variable has its type, and the clock never leaves its u64.        *)
THEOREM TypeCorrect == Spec => []TypeOK
<1>1. Inv => TypeOK
  BY DEF Inv
<1> QED
  BY <1>1, Invariant, PTL

(* used_bytes and layer_used_bytes count the resident bytes in every       *)
(* state, between the iterations of the eviction loops too.                *)
THEOREM AccountingIsExact == Spec => []AccountingExact
<1>1. Inv => AccountingExact
  BY DEF Inv, Accounts
<1> QED
  BY <1>1, Invariant, PTL

(* The global budget and, outside set_layer_budget, the layer budgets hold *)
(* in every state.                                                         *)
THEOREM BudgetsAreKept == Spec => []BudgetsHold
<1>1. Inv => BudgetsHold
  BY DEF Inv
<1> QED
  BY <1>1, Invariant, PTL

(* An insert whose loops have ended always has room: the checked additions *)
(* at the end of insert_internal never fail.                               *)
THEOREM CommitAlwaysFits == Spec => []CommitFits
<1>1. Inv => CommitFits
  BY LoopsMakeRoom
<1> QED
  BY <1>1, Invariant, PTL

-----------------------------------------------------------------------------
(* Isolation of the layers.                                                *)

(* The budgets of all layers, as a set with one element per byte.          *)
BudgetCells(budgets) == UNION {{l} \X (1 .. budgets[l]) : l \in Layers}

(* They are finite, as the layers of finitely many keys are.               *)
LEMMA BudgetCellsFinite ==
  ASSUME NEW budgets, \A l \in Layers : budgets[l] \in Nat
  PROVE  IsFiniteSet(BudgetCells(budgets))
<1> DEFINE Row(l) == {l} \X (1 .. budgets[l])
           Rowset == {Row(l) : l \in Layers}
           f == [k \in PageKeys |-> Row(LayerOf[k])]
<1>1. f \in Surjection(PageKeys, Rowset)
  BY Zenon DEF Surjection, Layers
<1>2. IsFiniteSet(PageKeys)
  BY HotCacheAssumption
<1>3. IsFiniteSet(Rowset)
  <2> HIDE DEF f, Rowset
  <2> QED
    BY <1>1, <1>2, FS_Surjection
<1>4. \A l \in Layers : IsFiniteSet(Row(l))
  BY RowCells
<1>5. \A row \in Rowset : IsFiniteSet(row)
  <2> HIDE DEF Row
  <2> QED
    BY <1>4
<1>6. IsFiniteSet(UNION Rowset)
  <2> HIDE DEF Rowset
  <2> QED
    BY <1>3, <1>5, FS_UNION
<1> QED
  BY <1>6 DEF BudgetCells

(* A set whose elements number at most n can be told apart by 1 .. n.      *)
LEMMA NumberedWithin ==
  ASSUME NEW S, IsFiniteSet(S), NEW n \in Nat, Cardinality(S) <= n
  PROVE  Injection(S, 1 .. n) # {}
<1> DEFINE c == Cardinality(S)
<1>1. c \in Nat
  BY FS_CardinalityType
<1>2. IsFiniteSet(1 .. c) /\ Cardinality(1 .. c) = c
  <2> HIDE DEF c
  <2> QED
    BY <1>1, FS_Interval
<1>3. PICK g : g \in Bijection(S, 1 .. c)
  BY <1>2, FS_SameCardinalityBij DEF ExistsBijection
<1>4. 1 .. c \subseteq 1 .. n
  BY <1>1
<1>5. g \in [S -> 1 .. c] /\ IsInjective(g)
  BY <1>3 DEF Bijection, Injection
<1>6. g \in [S -> 1 .. n]
  BY <1>4, <1>5
<1> QED
  BY <1>5, <1>6 DEF Injection

(* When the pages of every layer fit its budget, all pages fit the sum.    *)
LEMMA LayersAddUp ==
  ASSUME NEW pages, NEW S \in SUBSET PageKeys, NEW budgets,
         \A l \in Layers : budgets[l] \in Nat,
         IsFiniteSet(ByteCells(pages, S)),
         \A l \in Layers :
           Cardinality(ByteCells(pages, {k \in S : LayerOf[k] = l})) <= budgets[l]
  PROVE  Cardinality(ByteCells(pages, S)) <= Cardinality(BudgetCells(budgets))
<1> DEFINE C == ByteCells(pages, S)
           Part(l) == ByteCells(pages, {k \in S : LayerOf[k] = l})
           Number == [l \in Layers |-> CHOOSE g : g \in Injection(Part(l), 1 .. budgets[l])]
           Placed == [c \in C |-> <<LayerOf[c[1]], Number[LayerOf[c[1]]][c]>>]
<1>1. \A l \in Layers : Number[l] \in Injection(Part(l), 1 .. budgets[l])
  <2> SUFFICES ASSUME NEW l \in Layers
               PROVE  Number[l] \in Injection(Part(l), 1 .. budgets[l])
    OBVIOUS
  <2>1. Part(l) \subseteq C
    BY DEF ByteCells
  <2>2. IsFiniteSet(Part(l))
    BY <2>1, FS_Subset
  <2>3. Injection(Part(l), 1 .. budgets[l]) # {}
    BY <2>2, NumberedWithin
  <2> HIDE DEF Part
  <2> QED
    BY <2>3
<1>2. \A c \in C : LayerOf[c[1]] \in Layers /\ c \in Part(LayerOf[c[1]])
  BY DEF ByteCells, Layers
<1> HIDE DEF C, Part, Number
<1>3. \A l \in Layers :
        /\ Number[l] \in [Part(l) -> 1 .. budgets[l]]
        /\ \A c, d \in Part(l) : Number[l][c] = Number[l][d] => c = d
  BY <1>1 DEF Injection, IsInjective
<1>4. \A c \in C : Placed[c] \in BudgetCells(budgets)
  <2> SUFFICES ASSUME NEW c \in C PROVE Placed[c] \in BudgetCells(budgets)
    OBVIOUS
  <2>1. LayerOf[c[1]] \in Layers /\ Number[LayerOf[c[1]]][c] \in 1 .. budgets[LayerOf[c[1]]]
    BY <1>2, <1>3
  <2> QED
    BY <2>1 DEF BudgetCells
<1>5. \A c, d \in C : Placed[c] = Placed[d] => c = d
  <2> SUFFICES ASSUME NEW c \in C, NEW d \in C, Placed[c] = Placed[d] PROVE c = d
    OBVIOUS
  <2>1. /\ LayerOf[c[1]] = LayerOf[d[1]]
        /\ Number[LayerOf[c[1]]][c] = Number[LayerOf[d[1]]][d]
    OBVIOUS
  <2> QED
    BY <2>1, <1>2, <1>3
<1>6. Placed \in Injection(C, BudgetCells(budgets))
  BY <1>4, <1>5 DEF Injection, IsInjective
<1>7. IsFiniteSet(BudgetCells(budgets))
  BY BudgetCellsFinite
<1> HIDE DEF Placed
<1> QED
  BY <1>6, <1>7, FS_Injection DEF C

(* Every layer has a budget, and they add up to no more than the global one. *)
Partitioned ==
  /\ DOMAIN layer_budgets = Layers
  /\ Cardinality(BudgetCells(layer_budgets)) <= MaxBytes

(* Then an insert whose layer was trimmed finds room without evicting: the *)
(* pages and the incoming one, layer by layer, are within the budgets.     *)
LEMMA NoGlobalEviction ==
  ASSUME Inv, call.pc = "insert_global", Partitioned
  PROVE  ~GlobalOver(call.bytes)
<1> USE DEF Inv
<1> DEFINE key == call.key
           L == LayerOf[key]
           D == DOMAIN entries
           pages == [k \in D \cup {key} |-> IF k = key THEN call ELSE entries[k]]
           Of(l) == {k \in D \cup {key} : LayerOf[k] = l}
<1>1. /\ key \in PageKeys /\ L \in Layers /\ call.bytes \in Nat /\ call.bytes <= MaxBytes
      /\ key \notin D /\ D \subseteq PageKeys
      /\ LayerUsed(L) + call.bytes <= layer_budgets[L]
  BY FrameFacts DEF CallFits, Inserting, Partitioned, TypeOK
<1>2. \A l \in Layers : /\ layer_budgets[l] \in Nat
                        /\ LayerUsed(l) <= layer_budgets[l]
  BY HotCacheAssumption DEF Partitioned, TypeOK, BudgetsHold
<1>3. /\ used_bytes = Cardinality(ByteCells(entries, D)) /\ IsFiniteSet(ByteCells(entries, D))
      /\ \A l \in Layers : LayerUsed(l) = Cardinality(ByteCells(entries, InLayer(l)))
  BY DEF Accounts, AccountingExact, BytesOf
<1>4. \A S \in SUBSET D : ByteCells(pages, S) = ByteCells(entries, S)
  <2> SUFFICES ASSUME NEW S \in SUBSET D PROVE ByteCells(pages, S) = ByteCells(entries, S)
    OBVIOUS
  <2>1. \A k \in S : pages[k].bytes = entries[k].bytes
    BY <1>1
  <2> HIDE DEF pages
  <2> QED
    BY <2>1, ByteCellsSame
<1>5. pages[key].bytes = call.bytes
  OBVIOUS
<1> HIDE DEF pages, key
<1>6. /\ IsFiniteSet(ByteCells(pages, D \cup {key}))
      /\ Cardinality(ByteCells(pages, D \cup {key})) = used_bytes + call.bytes
  <2>1. ByteCells(pages, D) = ByteCells(entries, D)
    BY <1>4
  <2>2. IsFiniteSet(ByteCells(pages, D)) /\ Cardinality(ByteCells(pages, D)) = used_bytes
    BY <2>1, <1>3
  <2>3. pages[key].bytes \in Nat
    BY <1>1, <1>5
  <2> HIDE DEF D
  <2>4. /\ IsFiniteSet(ByteCells(pages, D \cup {key}))
        /\ Cardinality(ByteCells(pages, D \cup {key}))
             = Cardinality(ByteCells(pages, D)) + pages[key].bytes
    BY <1>1, <2>2, <2>3, ByteCellsAdd
  <2> QED
    BY <2>2, <2>4, <1>5
<1>7. \A l \in Layers : Cardinality(ByteCells(pages, Of(l))) <= layer_budgets[l]
  <2> SUFFICES ASSUME NEW l \in Layers
               PROVE  Cardinality(ByteCells(pages, Of(l))) <= layer_budgets[l]
    OBVIOUS
  <2>1. InLayer(l) \in SUBSET D /\ key \notin InLayer(l)
    BY <1>1 DEF InLayer
  <2>2. ByteCells(pages, InLayer(l)) = ByteCells(entries, InLayer(l))
    BY <2>1, <1>4
  <2>3. CASE l = L
    <3>1. Of(l) = InLayer(l) \cup {key}
      BY <2>3 DEF InLayer
    <3>2. ByteCells(entries, InLayer(l)) \subseteq ByteCells(entries, D)
      BY <2>1 DEF ByteCells
    <3>3. IsFiniteSet(ByteCells(pages, InLayer(l)))
      BY <3>2, <2>2, <1>3, FS_Subset
    <3>4. Cardinality(ByteCells(pages, InLayer(l) \cup {key}))
            = Cardinality(ByteCells(pages, InLayer(l))) + call.bytes
      <4>1. pages[key].bytes \in Nat
        BY <1>1, <1>5
      <4>2. Cardinality(ByteCells(pages, InLayer(l) \cup {key}))
              = Cardinality(ByteCells(pages, InLayer(l))) + pages[key].bytes
        BY <2>1, <3>3, <4>1, ByteCellsAdd
      <4> QED
        BY <4>2, <1>5
    <3> HIDE DEF Of
    <3> QED
      BY <3>1, <3>4, <2>2, <2>3, <1>1, <1>3
  <2>4. CASE l # L
    <3>1. Of(l) = InLayer(l)
      BY <2>4 DEF InLayer
    <3> HIDE DEF Of
    <3> QED
      BY <3>1, <2>2, <1>2, <1>3
  <2> QED
    BY <2>3, <2>4
<1>8. Cardinality(ByteCells(pages, D \cup {key})) <= Cardinality(BudgetCells(layer_budgets))
  <2>1. D \cup {key} \in SUBSET PageKeys
    BY <1>1
  <2> QED
    BY <2>1, <1>2, <1>6, <1>7, LayersAddUp
<1>9. Cardinality(BudgetCells(layer_budgets)) \in Nat
  BY <1>2, BudgetCellsFinite, FS_CardinalityType
<1>10. used_bytes \in Nat /\ MaxBytes \in Nat
  BY HotCacheAssumption DEF TypeOK
<1>11. used_bytes + call.bytes <= MaxBytes
  BY <1>1, <1>6, <1>8, <1>9, <1>10 DEF Partitioned
<1> QED
  BY <1>1, <1>10, <1>11 DEF GlobalOver, SatSub

(* What an insert has displaced so far is of its own layer.                *)
OwnLayerOnly ==
  Inserting => \A k \in DOMAIN before.entries \ DOMAIN entries : LayerOf[k] = LayerOf[call.key]

LEMMA IsolationMeaning == LayerIsolation <=> (Partitioned => OwnLayerOnly)
BY DEF LayerIsolation, Partitioned, OwnLayerOnly, BudgetCells

(* No step displaces a page of another layer.                              *)
LEMMA IsolationInv ==
  Inv /\ (Partitioned => OwnLayerOnly) /\ [Next]_vars => (Partitioned => OwnLayerOnly)'
<1> SUFFICES ASSUME Inv, Partitioned => OwnLayerOnly, [Next]_vars, Partitioned'
             PROVE  OwnLayerOnly'
  OBVIOUS
<1>1. ASSUME UNCHANGED <<layer_budgets, entries, before, call>>
      PROVE  OwnLayerOnly'
  BY <1>1 DEF Partitioned, OwnLayerOnly, Inserting
<1>2. ASSUME ~Inserting'
      PROVE  OwnLayerOnly'
  BY <1>2 DEF OwnLayerOnly
<1>3. ASSUME NEW key \in PageKeys, NEW tokens \in TokenCounts, NEW head_dim \in HeadDims,
             NEW rows \in Rows, NEW kv \in Contents,
             InsertBegin(key, tokens, head_dim, rows, kv)
      PROVE  OwnLayerOnly'
  <2>1. IF key \in DOMAIN entries THEN RemovePage(key) ELSE entries' = entries
    BY <1>3 DEF InsertBegin
  <2>2. DOMAIN entries' = DOMAIN entries \ {key}
    BY <2>1 DEF RemovePage
  <2>3. before'.entries = entries /\ call'.key = key
    BY <1>3 DEF InsertBegin, Snapshot
  <2> QED
    BY <2>2, <2>3 DEF OwnLayerOnly
<1>4. ASSUME NEW victim \in DOMAIN entries, Evict(victim), Inserting,
             LayerOf[victim] = LayerOf[call.key]
      PROVE  OwnLayerOnly'
  <2>1. UNCHANGED <<layer_budgets, before>> /\ DOMAIN entries' = DOMAIN entries \ {victim}
    BY <1>4 DEF Evict, RemovePage
  <2>2. call'.key = call.key
    BY <1>4, FrameFacts DEF Evict, InsertCalls, Inv
  <2>3. OwnLayerOnly
    BY <2>1 DEF Partitioned
  <2> QED
    BY <1>4, <2>1, <2>2, <2>3 DEF OwnLayerOnly
<1>5. CASE InsertEvictLayer
  <2>1. PICK victim \in DOMAIN entries : Evict(victim) /\ LayerOf[victim] = LayerOf[call.key]
    BY <1>5 DEF InsertEvictLayer, Oldest, InLayer
  <2> QED
    BY <1>4, <1>5, <2>1 DEF InsertEvictLayer, Inserting
<1>6. CASE InsertEvictGlobal
  <2>1. layer_budgets' = layer_budgets
    BY <1>6 DEF InsertEvictGlobal, Evict
  <2>2. Partitioned
    BY <2>1 DEF Partitioned
  <2> QED
    BY <1>6, <2>2, NoGlobalEviction DEF InsertEvictGlobal
<1>7. CASE InsertLayerDone
  <2>1. UNCHANGED <<layer_budgets, entries, before>> /\ Inserting
    BY <1>7 DEF InsertLayerDone, Inserting
  <2>2. call'.key = call.key
    BY <1>7, <2>1, FrameFacts DEF InsertLayerDone, InsertCalls, Inv
  <2> QED
    BY <2>1, <2>2 DEF OwnLayerOnly, Partitioned
<1>8. CASE BudgetEvict
  <2>1. PICK victim \in DOMAIN entries : Evict(victim)
    BY <1>8 DEF BudgetEvict, Oldest, InLayer
  <2>2. call'.pc = "budget"
    BY <1>8, <2>1, FrameFacts DEF BudgetEvict, Evict, BudgetCalls, Inv
  <2> QED
    BY <1>2, <2>2 DEF Inserting
<1>9. ASSUME call' = Idle \/ call'.pc = "budget"
      PROVE  OwnLayerOnly'
  BY <1>2, <1>9 DEF Inserting, Idle
<1>10. CASE InsertCommit \/ BudgetDone
  BY <1>9, <1>10 DEF InsertCommit, BudgetDone
<1>11. ASSUME NEW layer \in Layers,
              \/ \E bytes \in LayerBudgets : SetLayerBudget(layer, bytes)
              \/ ClearLayerBudget(layer)
       PROVE  OwnLayerOnly'
  BY <1>9, <1>11 DEF SetLayerBudget, ClearLayerBudget
<1>12. ASSUME Clear \/ \E key \in PageKeys : Remove(key) \/ Get(key)
       PROVE  OwnLayerOnly'
  BY <1>9, <1>12 DEF Clear, Remove, Get
<1>13. ASSUME \/ UNCHANGED vars
              \/ \E key \in PageKeys, tokens \in TokenCounts, head_dim \in HeadDims,
                    rows \in Rows : InsertRefused(key, tokens, head_dim, rows)
       PROVE  OwnLayerOnly'
  BY <1>1, <1>13 DEF InsertRefused, vars
<1> QED
  BY <1>3, <1>5, <1>6, <1>7, <1>8, <1>10, <1>11, <1>12, <1>13 DEF Next, CallStep

(* When the budgets of the layers add up to no more than the global one,   *)
(* no insert ever displaces a page of another layer.                       *)
THEOREM LayersAreIsolated == Spec => []LayerIsolation
<1>1. Init => (Partitioned => OwnLayerOnly)
  BY DEF Init, OwnLayerOnly, Inserting, Idle
<1>2. Inv /\ (Partitioned => OwnLayerOnly) /\ [Next]_vars => (Partitioned => OwnLayerOnly)'
  BY IsolationInv
<1>3. (Partitioned => OwnLayerOnly) => LayerIsolation
  BY IsolationMeaning
<1> QED
  BY <1>1, <1>2, <1>3, Invariant, PTL DEF Spec

-----------------------------------------------------------------------------
(* Renormalisation.                                                        *)

(* The rank of a page among the resident ones is between 1 and their       *)
(* number, and ranks are ordered like the touches they replace.            *)
LEMMA RankFacts ==
  ASSUME TypeOK
  PROVE  /\ Cardinality(DOMAIN entries) \in 0 .. ClockMax - 1
         /\ \A k \in DOMAIN entries :
              Renormalized[k].last_touch \in 1 .. Cardinality(DOMAIN entries)
         /\ \A j, k \in DOMAIN entries :
              entries[j].last_touch < entries[k].last_touch
                <=> Renormalized[j].last_touch < Renormalized[k].last_touch
<1> DEFINE D == DOMAIN entries
           Below(k) == {i \in D : entries[i].last_touch <= entries[k].last_touch}
           Rank(k) == AtMost(Cardinality(Below(k)), ClockMax - 1)
<1>1. /\ IsFiniteSet(D) /\ Cardinality(D) \in Nat
      /\ Cardinality(D) <= Cardinality(PageKeys) /\ Cardinality(PageKeys) \in Nat
  BY HotCacheAssumption, FS_Subset, FS_CardinalityType DEF TypeOK
<1>2. ClockMax \in Nat /\ Cardinality(PageKeys) < ClockMax
  BY HotCacheAssumption
<1>3. Cardinality(D) \in 0 .. ClockMax - 1
  BY <1>1, <1>2
<1>4. \A k \in D : entries[k] \in HotPage /\ entries[k].last_touch \in Nat
  BY DEF TypeOK, HotPage
<1>5. \A k \in D : /\ IsFiniteSet(Below(k)) /\ Cardinality(Below(k)) \in 1 .. Cardinality(D)
  <2> SUFFICES ASSUME NEW k \in D
               PROVE  IsFiniteSet(Below(k)) /\ Cardinality(Below(k)) \in 1 .. Cardinality(D)
    OBVIOUS
  <2>1. Below(k) \subseteq D /\ k \in Below(k)
    BY <1>4
  <2> HIDE DEF Below, D
  <2>2. /\ IsFiniteSet(Below(k)) /\ Cardinality(Below(k)) \in Nat
        /\ Cardinality(Below(k)) <= Cardinality(D)
    BY <2>1, <1>1, FS_Subset, FS_CardinalityType
  <2>3. Cardinality(Below(k)) # 0
    BY <2>1, <2>2, FS_EmptySet
  <2> QED
    BY <2>2, <2>3, <1>1
<1>6. \A j, k \in D : entries[j].last_touch <= entries[k].last_touch =>
        Cardinality(Below(j)) <= Cardinality(Below(k))
  <2> SUFFICES ASSUME NEW j \in D, NEW k \in D,
                      entries[j].last_touch <= entries[k].last_touch
               PROVE  Cardinality(Below(j)) <= Cardinality(Below(k))
    OBVIOUS
  <2>1. Below(j) \subseteq Below(k)
    BY <1>4
  <2> HIDE DEF Below
  <2> QED
    BY <2>1, <1>5, FS_Subset
<1>7. \A j, k \in D : entries[j].last_touch < entries[k].last_touch =>
        Cardinality(Below(j)) < Cardinality(Below(k))
  <2> SUFFICES ASSUME NEW j \in D, NEW k \in D,
                      entries[j].last_touch < entries[k].last_touch
               PROVE  Cardinality(Below(j)) < Cardinality(Below(k))
    OBVIOUS
  <2>1. Below(j) \subseteq Below(k) /\ k \in Below(k) /\ k \notin Below(j)
    BY <1>4
  <2> HIDE DEF Below
  <2>2. /\ Cardinality(Below(j)) <= Cardinality(Below(k))
        /\ Cardinality(Below(j)) # Cardinality(Below(k))
    BY <2>1, <1>5, FS_Subset
  <2> QED
    BY <2>2, <1>1, <1>5
<1> HIDE DEF Below
<1>8. \A k \in D : Rank(k) = Cardinality(Below(k))
  BY <1>3, <1>5, <1>2, <1>1 DEF AtMost
<1> HIDE DEF Rank
<1>9. Renormalized = [k \in D |-> [entries[k] EXCEPT !.last_touch = Rank(k)]]
  BY DEF Renormalized, Rank, Below
<1>10. \A k \in D : Renormalized[k].last_touch = Cardinality(Below(k))
  BY <1>4, <1>8, <1>9 DEF HotPage
<1>11. \A j, k \in D : entries[j].last_touch < entries[k].last_touch
                         <=> Cardinality(Below(j)) < Cardinality(Below(k))
  <2> SUFFICES ASSUME NEW j \in D, NEW k \in D
               PROVE  entries[j].last_touch < entries[k].last_touch
                        <=> Cardinality(Below(j)) < Cardinality(Below(k))
    OBVIOUS
  <2>1. CASE entries[j].last_touch < entries[k].last_touch
    BY <2>1, <1>7
  <2>2. CASE ~(entries[j].last_touch < entries[k].last_touch)
    <3>1. entries[k].last_touch <= entries[j].last_touch
      BY <2>2, <1>4
    <3>2. Cardinality(Below(k)) <= Cardinality(Below(j))
      BY <3>1, <1>6
    <3> QED
      BY <2>2, <3>2, <1>1, <1>5
  <2> QED
    BY <2>1, <2>2
<1> QED
  BY <1>3, <1>5, <1>10, <1>11

(* A tick keeps every touch positive, before the new clock value and in    *)
(* order.                                                                  *)
LEMMA TickOrder ==
  ASSUME TypeOK, TouchesDistinct
  PROVE  /\ \A k \in DOMAIN entries : TickedEntries[k].last_touch \in 1 .. TickedClock - 1
         /\ \A j, k \in DOMAIN entries :
              entries[j].last_touch < entries[k].last_touch
                <=> TickedEntries[j].last_touch < TickedEntries[k].last_touch
<1>1. clock \in Nat /\ ClockMax \in Nat /\ TickedClock \in Nat
  BY HotCacheAssumption, TickFacts DEF TypeOK
<1>2. CASE clock = ClockMax
  <2>1. TickedClock = Cardinality(DOMAIN entries) + 1
    BY <1>1, <1>2, RankFacts DEF TickedClock, AtMost
  <2>2. TickedEntries = Renormalized
    BY <1>2 DEF TickedEntries
  <2>3. Cardinality(DOMAIN entries) \in Nat
    BY RankFacts
  <2> QED
    BY <2>1, <2>2, <2>3, RankFacts
<1>3. CASE clock # ClockMax
  <2>1. TickedClock = clock + 1 /\ TickedEntries = entries
    BY <1>3 DEF TickedClock, TickedEntries
  <2> QED
    BY <1>1, <2>1 DEF TouchesDistinct
<1> QED
  BY <1>2, <1>3

-----------------------------------------------------------------------------
(* Distinct touches.                                                       *)

(* A map whose pages are a part of the old ones, touches and clock kept.   *)
LEMMA TouchesOfPart ==
  ASSUME TouchesDistinct, clock' = clock, DOMAIN entries' \subseteq DOMAIN entries,
         \A k \in DOMAIN entries' : entries'[k] = entries[k]
  PROVE  TouchesDistinct'
BY DEF TouchesDistinct

(* A map of ticked pages, one of them (perhaps a new one) stamped with the *)
(* new clock value.                                                        *)
LEMMA TouchesStamped ==
  ASSUME TypeOK, TouchesDistinct, clock' = TickedClock, NEW key,
         DOMAIN entries' = DOMAIN entries \cup {key},
         entries'[key].last_touch = TickedClock,
         \A k \in DOMAIN entries \ {key} :
           entries'[k].last_touch = TickedEntries[k].last_touch
  PROVE  TouchesDistinct'
<1>1. TickedClock \in Nat \ {0}
  BY TickFacts, HotCacheAssumption
<1>2. \A k \in DOMAIN entries \ {key} : entries'[k].last_touch \in 1 .. TickedClock - 1
  BY TickOrder
<1>3. \A j, k \in DOMAIN entries \ {key} :
        entries'[j].last_touch = entries'[k].last_touch => j = k
  <2> SUFFICES ASSUME NEW j \in DOMAIN entries \ {key}, NEW k \in DOMAIN entries \ {key},
                      entries'[j].last_touch = entries'[k].last_touch
               PROVE  j = k
    OBVIOUS
  <2>1. TickedEntries[j].last_touch = TickedEntries[k].last_touch
    OBVIOUS
  <2>2. TickedEntries[j].last_touch \in Int
    BY <1>2
  <2>3. /\ ~(entries[j].last_touch < entries[k].last_touch)
        /\ ~(entries[k].last_touch < entries[j].last_touch)
    BY <2>1, <2>2, TickOrder
  <2>4. entries[j].last_touch \in Nat /\ entries[k].last_touch \in Nat
    BY DEF TypeOK, HotPage
  <2> QED
    BY <2>3, <2>4 DEF TouchesDistinct
<1>4. \A k \in DOMAIN entries' : entries'[k].last_touch \in 1 .. clock'
  BY <1>1, <1>2
<1>5. \A j, k \in DOMAIN entries' :
        entries'[j].last_touch = entries'[k].last_touch => j = k
  BY <1>1, <1>2, <1>3
<1> QED
  BY <1>4, <1>5 DEF TouchesDistinct

(* A step that stamps a page: a hit, or the end of an insert.              *)
Stamps(key) ==
  /\ clock' = TickedClock
  /\ DOMAIN entries' = DOMAIN entries \cup {key}
  /\ entries'[key].last_touch = TickedClock
  /\ \A k \in DOMAIN entries \ {key} :
       entries'[k].last_touch = TickedEntries[k].last_touch

(* A hit stamps the page it returns.                                       *)
LEMMA GetStamps ==
  ASSUME TypeOK, NEW key \in PageKeys, Get(key)
  PROVE  Stamps(key)
<1>1. /\ key \in DOMAIN entries /\ clock' = TickedClock
      /\ entries' = [TickedEntries EXCEPT ![key].last_touch = TickedClock]
  BY DEF Get
<1>2. DOMAIN TickedEntries = DOMAIN entries /\ TickedEntries[key] \in HotPage
  BY <1>1, TickFacts
<1>3. entries'[key].last_touch = TickedClock
  BY <1>1, <1>2 DEF HotPage
<1> QED
  BY <1>1, <1>2, <1>3 DEF Stamps

(* The end of an insert stamps the page it inserts, which was not resident.*)
LEMMA InsertCommitStamps ==
  ASSUME Inv, InsertCommit
  PROVE  Stamps(call.key) /\ call.key \in PageKeys
<1>1. Inserting
  BY DEF InsertCommit, Inserting
<1>2. call.key \in PageKeys /\ call.key \notin DOMAIN entries
  BY <1>1, FrameFacts DEF Inv, CallFits
<1> QED
  BY <1>2 DEF InsertCommit, Stamps

(* A step stamps a page, or empties the map, or keeps the clock and a part *)
(* of the pages as they are.                                               *)
LEMMA StepShape ==
  ASSUME Inv, [Next]_vars
  PROVE  \/ /\ clock' = clock /\ DOMAIN entries' \subseteq DOMAIN entries
            /\ \A k \in DOMAIN entries' : entries'[k] = entries[k]
         \/ DOMAIN entries' = {}
         \/ \E key \in PageKeys : Stamps(key)
<1> DEFINE Part == /\ clock' = clock /\ DOMAIN entries' \subseteq DOMAIN entries
                   /\ \A k \in DOMAIN entries' : entries'[k] = entries[k]
<1> SUFFICES Part \/ DOMAIN entries' = {} \/ \E key \in PageKeys : Stamps(key)
  OBVIOUS
<1>1. ASSUME NEW key \in DOMAIN entries, RemovePage(key), clock' = clock
      PROVE  Part
  BY <1>1, RemovePageFacts DEF Inv
<1>2. ASSUME entries' = entries, clock' = clock
      PROVE  Part
  BY <1>2
<1> HIDE DEF Part
<1>3. CASE \E key \in PageKeys, tokens \in TokenCounts, head_dim \in HeadDims, rows \in Rows :
             \/ InsertRefused(key, tokens, head_dim, rows)
             \/ \E kv \in Contents : InsertBegin(key, tokens, head_dim, rows, kv)
  <2>1. PICK key \in PageKeys, tokens \in TokenCounts, head_dim \in HeadDims, rows \in Rows :
             \/ InsertRefused(key, tokens, head_dim, rows)
             \/ \E kv \in Contents : InsertBegin(key, tokens, head_dim, rows, kv)
    BY <1>3
  <2>2. CASE InsertRefused(key, tokens, head_dim, rows)
    BY <2>2, <1>2 DEF InsertRefused, vars
  <2>3. CASE \E kv \in Contents : InsertBegin(key, tokens, head_dim, rows, kv)
    <3>1. /\ clock' = clock
          /\ IF key \in DOMAIN entries THEN RemovePage(key) ELSE entries' = entries
      BY <2>3 DEF InsertBegin
    <3> QED
      BY <3>1, <1>1, <1>2
  <2> QED
    BY <2>1, <2>2, <2>3
<1>4. CASE InsertEvictLayer \/ InsertEvictGlobal \/ BudgetEvict
  <2>1. PICK victim \in DOMAIN entries : Evict(victim)
    BY <1>4 DEF InsertEvictLayer, InsertEvictGlobal, BudgetEvict, Oldest, InLayer
  <2> QED
    BY <2>1, <1>1 DEF Evict
<1>5. CASE InsertLayerDone \/ BudgetDone
  BY <1>5, <1>2 DEF InsertLayerDone, BudgetDone, cache_vars
<1>6. CASE InsertCommit
  BY <1>6, InsertCommitStamps
<1>7. ASSUME NEW layer \in Layers,
             \/ \E bytes \in LayerBudgets : SetLayerBudget(layer, bytes)
             \/ ClearLayerBudget(layer)
      PROVE  Part
  BY <1>7, <1>2 DEF SetLayerBudget, ClearLayerBudget
<1>8. ASSUME NEW key \in PageKeys, Remove(key)
      PROVE  Part
  BY <1>8, <1>1 DEF Remove
<1>9. ASSUME NEW key \in PageKeys, Get(key)
      PROVE  Stamps(key)
  BY <1>9, GetStamps DEF Inv
<1>10. CASE Clear
  BY <1>10 DEF Clear
<1>11. CASE UNCHANGED vars
  BY <1>11, <1>2 DEF vars
<1> QED
  BY <1>3, <1>4, <1>5, <1>6, <1>7, <1>8, <1>9, <1>10, <1>11 DEF Next, CallStep

(* No step makes two touches equal.                                        *)
LEMMA TouchesInv == Inv /\ TouchesDistinct /\ [Next]_vars => TouchesDistinct'
<1> SUFFICES ASSUME Inv, TouchesDistinct, [Next]_vars PROVE TouchesDistinct'
  OBVIOUS
<1>1. CASE DOMAIN entries' = {}
  BY <1>1 DEF TouchesDistinct
<1>2. CASE \E key \in PageKeys : Stamps(key)
  BY <1>2, TouchesStamped DEF Stamps, Inv
<1>3. CASE /\ clock' = clock /\ DOMAIN entries' \subseteq DOMAIN entries
           /\ \A k \in DOMAIN entries' : entries'[k] = entries[k]
  BY <1>3, TouchesOfPart
<1> QED
  BY <1>1, <1>2, <1>3, StepShape

(* Of the resident pages there is always exactly one that was used least   *)
(* recently, however often the clock was renormalised.                     *)
THEOREM TouchesAreDistinct == Spec => []TouchesDistinct
<1>1. Init => TouchesDistinct
  BY DEF Init, TouchesDistinct
<1>2. Inv /\ TouchesDistinct /\ [Next]_vars => TouchesDistinct'
  BY TouchesInv
<1> QED
  BY <1>1, <1>2, Invariant, PTL DEF Spec

-----------------------------------------------------------------------------
(* Order.                                                                  *)

(* A stamped page is younger than every other page.                        *)
LEMMA StampedYoungest ==
  ASSUME TypeOK, TouchesDistinct, NEW key, Stamps(key)
  PROVE  BecomesYoungest(key)
<1>1. TickedClock \in Nat
  BY TickFacts, HotCacheAssumption
<1>2. \A k \in DOMAIN entries : TickedEntries[k].last_touch \in 1 .. TickedClock - 1
  BY TickOrder
<1> QED
  BY <1>1, <1>2 DEF Stamps, BecomesYoungest

(* No step reorders the pages that it does not use, and a page that is     *)
(* read or inserted becomes the youngest, in the step that renormalises    *)
(* the clock too.                                                          *)
THEOREM RecencyIsKept == Spec => RecencyKept
<1>1. Inv /\ TouchesDistinct /\ [Next]_vars =>
        /\ KeepsOrder
        /\ \A key \in PageKeys : Get(key) => BecomesYoungest(key)
        /\ InsertCommit => BecomesYoungest(call.key)
  <2> SUFFICES ASSUME Inv, TouchesDistinct, [Next]_vars
               PROVE  /\ KeepsOrder
                      /\ \A key \in PageKeys : Get(key) => BecomesYoungest(key)
                      /\ InsertCommit => BecomesYoungest(call.key)
    OBVIOUS
  <2>1. KeepsOrder
    <3>1. CASE DOMAIN entries' = {}
      BY <3>1 DEF KeepsOrder
    <3>2. CASE \E key \in PageKeys : Stamps(key)
      BY <3>2, TickOrder DEF Stamps, KeepsOrder, Inv
    <3>3. CASE /\ clock' = clock /\ DOMAIN entries' \subseteq DOMAIN entries
               /\ \A k \in DOMAIN entries' : entries'[k] = entries[k]
      BY <3>3 DEF KeepsOrder
    <3> QED
      BY <3>1, <3>2, <3>3, StepShape
  <2>2. \A key \in PageKeys : Get(key) => BecomesYoungest(key)
    BY GetStamps, StampedYoungest DEF Inv
  <2>3. InsertCommit => BecomesYoungest(call.key)
    BY InsertCommitStamps, StampedYoungest DEF Inv
  <2> QED
    BY <2>1, <2>2, <2>3
<1> QED
  BY <1>1, Invariant, TouchesAreDistinct, PTL DEF Spec, RecencyKept

-----------------------------------------------------------------------------
(* The evicted count.                                                      *)

(* The pages that went missing are finitely many.                          *)
Counts ==
  /\ EvictedCountExact
  /\ call # Idle => DOMAIN before.entries \subseteq PageKeys

(* One more page missing is one more.                                      *)
LEMMA OneMoreMissing ==
  ASSUME NEW B, NEW D, NEW v \in D, D \subseteq B, IsFiniteSet(B)
  PROVE  Cardinality(B \ (D \ {v})) = Cardinality(B \ D) + 1
<1>1. B \ (D \ {v}) = (B \ D) \cup {v} /\ v \notin B \ D
  OBVIOUS
<1>2. IsFiniteSet(B \ D)
  BY FS_Difference
<1>3. Cardinality((B \ D) \cup {v}) = Cardinality(B \ D) + 1
  BY <1>1, <1>2, FS_AddElement
<1> QED
  BY <1>1, <1>3

(* Every iteration of an eviction loop counts the page it removes.         *)
LEMMA EvictCounts ==
  ASSUME Inv, Counts, call.pc = "budget" \/ Inserting,
         NEW victim \in DOMAIN entries, Evict(victim)
  PROVE  Counts'
<1> DEFINE B == DOMAIN before.entries
           D == DOMAIN entries
<1>1. /\ D \subseteq B /\ B \subseteq PageKeys /\ call # Idle
      /\ call.evicted \in Nat
  BY FrameFacts DEF Inserting, Idle, Inv, Counts
<1>2. D \subseteq B \ {call.key} \/ ~Inserting
  BY <1>1 DEF Inv, CallFits
<1>3. /\ D' = D \ {victim} /\ before' = before /\ call' = [call EXCEPT !.evicted = @ + 1]
  BY DEF Evict, RemovePage
<1>4. call \in BudgetCalls \cup InsertCalls
  BY <1>1 DEF Inv, TypeOK
<1>5. /\ call'.pc = call.pc /\ call'.evicted = call.evicted + 1
      /\ Inserting => call'.key = call.key
  <2>1. CASE call \in BudgetCalls
    BY <2>1, <1>3 DEF BudgetCalls, Inserting
  <2>2. CASE call \in InsertCalls
    BY <2>2, <1>3 DEF InsertCalls
  <2> QED
    BY <1>4, <2>1, <2>2
<1>6. IsFiniteSet(B) /\ IsFiniteSet(B \ {call.key})
  BY <1>1, HotCacheAssumption, FS_Subset
<1> HIDE DEF B, D
<1>7. CASE Inserting
  <2>1. Cardinality((B \ {call.key}) \ (D \ {victim})) = Cardinality((B \ {call.key}) \ D) + 1
    BY <1>2, <1>6, <1>7, OneMoreMissing DEF D
  <2>2. call.evicted = Cardinality((B \ {call.key}) \ D)
    BY <1>7 DEF Counts, EvictedCountExact, B, D
  <2>3. /\ call'.pc # "budget" /\ before'.entries = before.entries
        /\ call'.evicted = Cardinality((B \ {call'.key}) \ D')
    BY <1>3, <1>5, <1>7, <2>1, <2>2 DEF Inserting
  <2> QED
    BY <2>3, <1>1, <1>3 DEF Counts, EvictedCountExact, B, D
<1>8. CASE call.pc = "budget"
  <2>1. Cardinality(B \ (D \ {victim})) = Cardinality(B \ D) + 1
    BY <1>1, <1>6, OneMoreMissing DEF D
  <2>2. call.evicted = Cardinality(B \ D)
    BY <1>8 DEF Counts, EvictedCountExact, B, D
  <2>3. ~Inserting' /\ call'.evicted = Cardinality(B \ D')
    BY <1>3, <1>5, <1>8, <2>1, <2>2 DEF Inserting
  <2> QED
    BY <2>3, <1>1, <1>3 DEF Counts, EvictedCountExact, B, D
<1> QED
  BY <1>7, <1>8

(* No step makes the count wrong.                                          *)
LEMMA CountsInv == Inv /\ Counts /\ [Next]_vars => Counts'
<1> SUFFICES ASSUME Inv, Counts, [Next]_vars PROVE Counts'
  OBVIOUS
<1>1. Cardinality({}) = 0
  BY FS_EmptySet
<1>2. ASSUME UNCHANGED <<entries, call, before>> PROVE Counts'
  BY <1>2 DEF Counts, EvictedCountExact, Inserting
<1>3. ASSUME call' = Idle PROVE Counts'
  BY <1>3 DEF Counts, EvictedCountExact, Inserting, Idle
<1>4. ASSUME NEW key \in PageKeys, NEW tokens \in TokenCounts, NEW head_dim \in HeadDims,
             NEW rows \in Rows, NEW kv \in Contents,
             InsertBegin(key, tokens, head_dim, rows, kv)
      PROVE  Counts'
  <2>1. /\ call'.pc = "insert_layer" /\ call'.key = key /\ call'.evicted = 0
        /\ before'.entries = entries
        /\ DOMAIN entries' = DOMAIN entries \ {key}
    <3>1. IF key \in DOMAIN entries THEN RemovePage(key) ELSE entries' = entries
      BY <1>4 DEF InsertBegin
    <3>2. DOMAIN entries' = DOMAIN entries \ {key}
      BY <3>1 DEF RemovePage
    <3> QED
      BY <1>4, <3>2 DEF InsertBegin, Snapshot
  <2>2. DOMAIN entries \subseteq PageKeys
    BY DEF Inv, TypeOK
  <2>3. (DOMAIN entries \ {key}) \ DOMAIN entries' = {}
    BY <2>1
  <2> QED
    BY <1>1, <2>1, <2>2, <2>3 DEF Counts, EvictedCountExact, Inserting
<1>5. CASE InsertEvictLayer \/ InsertEvictGlobal \/ BudgetEvict
  <2>1. PICK victim \in DOMAIN entries : Evict(victim)
    BY <1>5 DEF InsertEvictLayer, InsertEvictGlobal, BudgetEvict, Oldest, InLayer
  <2>2. call.pc = "budget" \/ Inserting
    BY <1>5 DEF InsertEvictLayer, InsertEvictGlobal, BudgetEvict, Inserting
  <2> QED
    BY <2>1, <2>2, EvictCounts
<1>6. CASE InsertLayerDone
  <2>1. /\ call \in InsertCalls /\ call.pc = "insert_layer"
        /\ call' = [call EXCEPT !.pc = "insert_global"]
        /\ UNCHANGED <<entries, before>>
    BY <1>6, FrameFacts DEF InsertLayerDone, Inserting, Inv
  <2>2. /\ call'.pc = "insert_global" /\ call'.key = call.key
        /\ call'.evicted = call.evicted
    BY <2>1 DEF InsertCalls
  <2>3. call # Idle
    BY <2>1 DEF Idle
  <2> QED
    BY <2>1, <2>2, <2>3 DEF Counts, EvictedCountExact, Inserting
<1>7. CASE InsertCommit \/ BudgetDone
  BY <1>7, <1>3 DEF InsertCommit, BudgetDone
<1>8. ASSUME NEW layer \in Layers, NEW bytes \in LayerBudgets, SetLayerBudget(layer, bytes)
      PROVE  Counts'
  <2>1. /\ call'.pc = "budget" /\ call'.evicted = 0
        /\ before'.entries = entries /\ entries' = entries
    BY <1>8 DEF SetLayerBudget, Snapshot
  <2>2. DOMAIN entries \subseteq PageKeys /\ DOMAIN entries \ DOMAIN entries = {}
    BY DEF Inv, TypeOK
  <2> QED
    BY <1>1, <2>1, <2>2 DEF Counts, EvictedCountExact, Inserting
<1>9. ASSUME \/ \E layer \in Layers : ClearLayerBudget(layer)
             \/ Clear
             \/ \E key \in PageKeys : Remove(key) \/ Get(key)
      PROVE  Counts'
  BY <1>3, <1>9 DEF ClearLayerBudget, Clear, Remove, Get
<1>10. ASSUME \/ UNCHANGED vars
              \/ \E key \in PageKeys, tokens \in TokenCounts, head_dim \in HeadDims,
                    rows \in Rows : InsertRefused(key, tokens, head_dim, rows)
       PROVE  Counts'
  BY <1>2, <1>10 DEF InsertRefused, vars
<1> QED
  BY <1>4, <1>5, <1>6, <1>7, <1>8, <1>9, <1>10 DEF Next, CallStep

(* What a call reports as evicted is exactly what went missing.            *)
THEOREM EvictedCountIsExact == Spec => []EvictedCountExact
<1>1. Init => Counts
  BY DEF Init, Counts, EvictedCountExact, Inserting, Idle
<1>2. Inv /\ Counts /\ [Next]_vars => Counts'
  BY CountsInv
<1>3. Counts => EvictedCountExact
  BY DEF Counts
<1> QED
  BY <1>1, <1>2, <1>3, Invariant, PTL DEF Spec

-----------------------------------------------------------------------------
(* HotCache implements LruCache.                                           *)
(*                                                                         *)
(* Lemmas about the abstract cache that entries stand for: its operations, *)
(* in terms of the entries.                                                *)

(* What TypeOK and TouchesDistinct say of a map of pages.                  *)
IsPages(B) ==
  /\ DOMAIN B \subseteq PageKeys
  /\ B \in [DOMAIN B -> HotPage]
  /\ \A j, k \in DOMAIN B : B[j].last_touch = B[k].last_touch => j = k

Part(B, S) == [k \in S |-> B[k]]

Used(B, S) == Cardinality(ByteCells(B, S))

(* Pages of S that must go before the rest of it fits into room.           *)
Needed(B, S, room) ==
  {v \in S : Used(B, {k \in S : B[v].last_touch <= B[k].last_touch}) > room}

LEMMA PagesFinite ==
  ASSUME NEW B, IsPages(B), NEW S \in SUBSET DOMAIN B
  PROVE  /\ IsFiniteSet(S) /\ IsFiniteSet(ByteCells(B, S)) /\ Used(B, S) \in Nat
         /\ \A k \in S : B[k] \in HotPage /\ B[k].bytes \in Nat /\ B[k].last_touch \in Nat
<1>1. \A k \in S : B[k] \in HotPage /\ B[k].bytes \in Nat /\ B[k].last_touch \in Nat
  BY DEF IsPages, HotPage
<1>2. IsFiniteSet(S)
  BY HotCacheAssumption, FS_Subset DEF IsPages
<1>3. \A k \in S : IsFiniteSet({k} \X (1 .. B[k].bytes))
  BY <1>1, RowCells
<1>4. IsFiniteSet({{k} \X (1 .. B[k].bytes) : k \in S})
  <2> DEFINE row == [k \in S |-> {k} \X (1 .. B[k].bytes)]
  <2>1. row \in Surjection(S, {{k} \X (1 .. B[k].bytes) : k \in S})
    BY DEF Surjection
  <2>2. QED
    BY <1>2, <2>1, FS_Surjection
<1>5. IsFiniteSet(ByteCells(B, S))
  BY <1>3, <1>4, FS_UNION DEF ByteCells
<1>6. QED
  BY <1>1, <1>2, <1>5, FS_CardinalityType DEF Used

(* More pages have more bytes.                                             *)
LEMMA UsedGrows ==
  ASSUME NEW B, IsPages(B), NEW S \in SUBSET DOMAIN B, NEW T \in SUBSET S
  PROVE  Used(B, T) <= Used(B, S)
<1>1. ByteCells(B, T) \subseteq ByteCells(B, S)
  BY DEF ByteCells
<1>2. IsFiniteSet(ByteCells(B, S))
  BY PagesFinite
<1>3. QED
  BY <1>1, <1>2, FS_Subset DEF Used

(* The sum by which LruCache counts bytes counts their cells.              *)
LEMMA BytesAreCells ==
  ASSUME NEW B, IsPages(B), NEW c, NEW S \in SUBSET DOMAIN B,
         \A k \in S : c.pages[k].bytes = B[k].bytes
  PROVE  Lru!BytesOf(c, S) = Used(B, S)
<1> DEFINE any(s) == CHOOSE x \in s : TRUE
           Iterates(f) ==
             f = [s \in SUBSET S |->
                    IF s = {} THEN 0 ELSE LET x == any(s) IN c.pages[x].bytes + f[s \ {x}]]
           it == CHOOSE f : Iterates(f)
           cells == [s \in SUBSET S |-> Used(B, s)]
<1>1. Lru!BytesOf(c, S) = it[S]
  BY Zenon DEF Lru!BytesOf, Lru!MapThenSumSet, Lru!MapThenFoldSet
<1>2. \A s \in SUBSET S : s # {} =>
        /\ any(s) \in s
        /\ Used(B, s) = B[any(s)].bytes + Used(B, s \ {any(s)})
  <2> SUFFICES ASSUME NEW s \in SUBSET S, s # {}
               PROVE  any(s) \in s /\ Used(B, s) = B[any(s)].bytes + Used(B, s \ {any(s)})
    OBVIOUS
  <2>1. any(s) \in s
    OBVIOUS
  <2> HIDE DEF any
  <2>2. IsFiniteSet(ByteCells(B, s)) /\ B[any(s)].bytes \in Nat
    BY <2>1, PagesFinite
  <2>3. /\ Used(B, s) = Used(B, s \ {any(s)}) + B[any(s)].bytes
        /\ Used(B, s \ {any(s)}) \in Nat
    BY <2>1, <2>2, ByteCellsRemove DEF Used
  <2>4. QED
    BY <2>1, <2>2, <2>3
<1> HIDE DEF any
<1>3. Used(B, {}) = 0
  BY FS_EmptySet DEF Used, ByteCells
<1>4. Iterates(cells)
  <2>1. \A s \in SUBSET S : Used(B, s) =
          IF s = {} THEN 0 ELSE c.pages[any(s)].bytes + cells[s \ {any(s)}]
    BY <1>2, <1>3
  <2>2. QED
    BY <2>1
<1>5. Iterates(it)
  <2> HIDE DEF Iterates, cells
  <2>1. QED
    BY <1>4
<1> HIDE DEF it
<1>6. \A s \in SUBSET S : it[s] = IF s = {} THEN 0 ELSE c.pages[any(s)].bytes + it[s \ {any(s)}]
  BY <1>5
<1>7. ASSUME NEW n \in Nat, \A s \in SUBSET S : Cardinality(s) < n => it[s] = Used(B, s)
      PROVE  \A s \in SUBSET S : Cardinality(s) = n => it[s] = Used(B, s)
  <2> SUFFICES ASSUME NEW s \in SUBSET S, Cardinality(s) = n, s # {}
               PROVE  it[s] = Used(B, s)
    BY <1>3, <1>6
  <2>1. IsFiniteSet(s) /\ Cardinality(s \ {any(s)}) = Cardinality(s) - 1
    BY <1>2, PagesFinite, FS_RemoveElement
  <2>2. it[s \ {any(s)}] = Used(B, s \ {any(s)})
    BY <1>7, <2>1
  <2>3. QED
    BY <1>2, <1>6, <2>2
<1> DEFINE Wrong == {Cardinality(s) : s \in {t \in SUBSET S : it[t] # Used(B, t)}}
<1>8. Wrong \subseteq Nat
  BY PagesFinite, FS_CardinalityType
<1>9. Wrong = {}
  <2> SUFFICES ASSUME Wrong # {} PROVE FALSE
    OBVIOUS
  <2> HIDE DEF Wrong
  <2>1. PICK n \in Wrong : \A m \in Wrong : ~ (<<m, n>> \in OpToRel(<, Nat))
    BY <1>8, WFMin, NatLessThanWellFounded
  <2>2. n \in Nat /\ \A m \in Wrong : ~(m < n)
    BY <1>8, <2>1 DEF OpToRel
  <2>3. \A s \in SUBSET S : Cardinality(s) < n => it[s] = Used(B, s)
    BY <2>2 DEF Wrong
  <2>4. \A s \in SUBSET S : Cardinality(s) = n => it[s] = Used(B, s)
    BY <1>7, <2>2, <2>3
  <2>5. QED
    BY <2>4 DEF Wrong
<1>10. it[S] = Used(B, S)
  BY <1>9
<1>11. QED
  BY <1>1, <1>10

LEMMA ResidentAbstract ==
  ASSUME NEW B, NEW b
  PROVE  /\ Lru!Resident(Abstract(B, b)) = DOMAIN B
         /\ Abstract(B, b).budgets = b
         /\ \A l : Lru!InLayer(Abstract(B, b), l) = {k \in DOMAIN B : LayerOf[k] = l}
BY DEF Abstract, Lru!Resident, Lru!InLayer

LEMMA PartIsPages ==
  ASSUME NEW B, IsPages(B), NEW S \in SUBSET DOMAIN B
  PROVE  IsPages(Part(B, S)) /\ DOMAIN Part(B, S) = S /\ \A k \in S : Part(B, S)[k] = B[k]
BY DEF IsPages, Part

LEMMA WithoutAbstract ==
  ASSUME NEW B, NEW b, NEW S
  PROVE  Lru!Without(Abstract(B, b), S) = Abstract(Part(B, DOMAIN B \ S), b)
<1> DEFINE kept == DOMAIN B \ S
           c == Abstract(B, b)
           P == Part(B, kept)
<1>2. Lru!Without(c, S) =
        [pages |-> [k \in kept |-> c.pages[k]], older |-> c.older \cap (kept \X kept), budgets |-> b]
  <2>1. Lru!Resident(c) = DOMAIN B /\ c.budgets = b
    BY ResidentAbstract
  <2> HIDE DEF c
  <2>2. QED
    BY <2>1, Zenon DEF Lru!Without, Lru!Among
<1>3. [k \in kept |-> c.pages[k]] = [k \in DOMAIN P |-> AbstractPage(P[k])]
  BY DEF Abstract, Part
<1>4. c.older \cap (kept \X kept)
        = {jk \in (DOMAIN P) \X (DOMAIN P) : P[jk[1]].last_touch < P[jk[2]].last_touch}
  <2>1. DOMAIN P = kept /\ kept \subseteq DOMAIN B /\ \A k \in kept : P[k] = B[k]
    BY DEF Part
  <2>2. c.older = {jk \in (DOMAIN B) \X (DOMAIN B) : B[jk[1]].last_touch < B[jk[2]].last_touch}
    BY DEF Abstract
  <2> HIDE DEF P, kept, c
  <2>3. QED
    BY <2>1, <2>2
<1>5. QED
  BY <1>2, <1>3, <1>4 DEF Abstract

(* Displaced, of a part of the pages.                                      *)
LEMMA DisplacedAbstract ==
  ASSUME NEW B, IsPages(B), NEW b, NEW D \in SUBSET DOMAIN B, NEW S \in SUBSET D, NEW room
  PROVE  Lru!Displaced(Abstract(Part(B, D), b), S, room) = Needed(B, S, room)
<1> DEFINE c == Abstract(Part(B, D), b)
           Younger(v) == {k \in S : B[v].last_touch <= B[k].last_touch}
<1>1. \A k \in D : c.pages[k].bytes = B[k].bytes
  BY DEF Abstract, AbstractPage, Part
<1>2. \A j, k \in S : Lru!AtLeastAsRecent(c, k, j) <=> B[j].last_touch <= B[k].last_touch
  <2> SUFFICES ASSUME NEW j \in S, NEW k \in S
               PROVE  Lru!AtLeastAsRecent(c, k, j) <=> B[j].last_touch <= B[k].last_touch
    OBVIOUS
  <2>1. <<j, k>> \in c.older <=> B[j].last_touch < B[k].last_touch
    BY DEF Abstract, Part
  <2>2. /\ B[j].last_touch \in Nat /\ B[k].last_touch \in Nat
        /\ B[j].last_touch = B[k].last_touch => j = k
    BY PagesFinite DEF IsPages
  <2> HIDE DEF c
  <2>3. QED
    BY <2>1, <2>2 DEF Lru!AtLeastAsRecent
<1> HIDE DEF c
<1>3. \A v \in S : {k \in S : Lru!AtLeastAsRecent(c, k, v)} = Younger(v)
  BY <1>2
<1>4. \A v \in S : Lru!BytesOf(c, Younger(v)) = Used(B, Younger(v))
  <2> SUFFICES ASSUME NEW v \in S PROVE Lru!BytesOf(c, Younger(v)) = Used(B, Younger(v))
    OBVIOUS
  <2>1. Younger(v) \in SUBSET DOMAIN B /\ Younger(v) \subseteq D
    OBVIOUS
  <2> HIDE DEF Younger
  <2>2. QED
    BY <1>1, <2>1, BytesAreCells
<1>5. QED
  BY <1>3, <1>4 DEF Lru!Displaced, Needed, c

(* The pages that trimming a layer displaces, given its budget; and those  *)
(* that an insertion does.                                                 *)
LayerNeeded(B, b, D, layer, incoming) ==
  IF layer \in DOMAIN b
    THEN Needed(B, {k \in D : LayerOf[k] = layer}, b[layer] - incoming)
    ELSE {}

Others(B, key) == DOMAIN B \ {key}

Mine(B, b, key, bytes) == LayerNeeded(B, b, Others(B, key), LayerOf[key], bytes)

Rest(B, b, key, bytes) == Others(B, key) \ Mine(B, b, key, bytes)

LEMMA LayerDisplacedAbstract ==
  ASSUME NEW B, IsPages(B), NEW b, NEW D \in SUBSET DOMAIN B, NEW layer, NEW incoming
  PROVE  /\ Lru!LayerDisplaced(Abstract(Part(B, D), b), layer, incoming)
              = LayerNeeded(B, b, D, layer, incoming)
         /\ LayerNeeded(B, b, D, layer, incoming) \subseteq {k \in D : LayerOf[k] = layer}
<1>1. /\ Abstract(Part(B, D), b).budgets = b
      /\ Lru!InLayer(Abstract(Part(B, D), b), layer) = {k \in D : LayerOf[k] = layer}
  BY ResidentAbstract, PartIsPages
<1>2. CASE layer \in DOMAIN b
  <2>1. Lru!Displaced(Abstract(Part(B, D), b), {k \in D : LayerOf[k] = layer}, b[layer] - incoming)
          = Needed(B, {k \in D : LayerOf[k] = layer}, b[layer] - incoming)
    BY DisplacedAbstract
  <2>2. QED
    BY <1>1, <1>2, <2>1 DEF Lru!LayerDisplaced, LayerNeeded, Needed
<1>3. CASE layer \notin DOMAIN b
  BY <1>1, <1>3 DEF Lru!LayerDisplaced, LayerNeeded
<1>4. QED
  BY <1>2, <1>3

LEMMA VictimsAbstract ==
  ASSUME NEW B, IsPages(B), NEW b, NEW key, NEW page
  PROVE  /\ Lru!Victims(Abstract(B, b), key, page)
              = Mine(B, b, key, page.bytes)
                  \cup Needed(B, Rest(B, b, key, page.bytes), MaxBytes - page.bytes)
         /\ Mine(B, b, key, page.bytes) \subseteq {k \in Others(B, key) : LayerOf[k] = LayerOf[key]}
<1> DEFINE D == Others(B, key)
           M == Mine(B, b, key, page.bytes)
           R == Rest(B, b, key, page.bytes)
           others == Lru!Without(Abstract(B, b), {key})
           mine == Lru!LayerDisplaced(others, LayerOf[key], page.bytes)
           rest == Lru!Without(others, mine)
<1>1. others = Abstract(Part(B, D), b) /\ D \in SUBSET DOMAIN B
  BY WithoutAbstract DEF Others
<1>2. mine = M /\ M \subseteq {k \in D : LayerOf[k] = LayerOf[key]}
  BY <1>1, LayerDisplacedAbstract DEF Mine
<1>3. R = D \ M /\ R \in SUBSET DOMAIN B
  BY <1>1 DEF Rest
<1>4. rest = Abstract(Part(B, R), b)
  <2>1. rest = Abstract(Part(Part(B, D), D \ M), b)
    BY <1>1, <1>2, WithoutAbstract, PartIsPages
  <2>2. Part(Part(B, D), D \ M) = Part(B, D \ M)
    BY DEF Part
  <2>3. QED
    BY <1>3, <2>1, <2>2
<1>5. Lru!Resident(rest) = R
  BY <1>3, <1>4, ResidentAbstract, PartIsPages
<1> HIDE DEF R, M, D
<1>6. Lru!Displaced(rest, R, MaxBytes - page.bytes) = Needed(B, R, MaxBytes - page.bytes)
  BY <1>3, <1>4, DisplacedAbstract
<1>7. Lru!Victims(Abstract(B, b), key, page)
        = mine \cup Lru!Displaced(rest, Lru!Resident(rest), MaxBytes - page.bytes)
  BY DEF Lru!Victims
<1>8. QED
  BY <1>2, <1>5, <1>6, <1>7 DEF R, M, D

-----------------------------------------------------------------------------
(* The invariant.                                                          *)

(* Every page of S was used before every page of T.                        *)
Before(B, S, T) == \A e \in S, k \in T : B[e].last_touch < B[k].last_touch

(* Evicting the oldest of the pages R that are left of S, when they are    *)
(* too many: it had to go, and what has gone is still older than the rest. *)
LEMMA EvictOldest ==
  ASSUME NEW B, IsPages(B), NEW S \in SUBSET DOMAIN B, NEW R \in SUBSET S,
         NEW room \in Nat, NEW v \in R,
         \A k \in R : B[v].last_touch <= B[k].last_touch,
         Used(B, R) > room, Before(B, S \ R, R)
  PROVE  /\ v \in Needed(B, S, room)
         /\ Before(B, S \ (R \ {v}), R \ {v})
<1> DEFINE Younger == {k \in S : B[v].last_touch <= B[k].last_touch}
<1>1. R \subseteq Younger /\ Younger \in SUBSET DOMAIN B
  OBVIOUS
<1>2. Used(B, R) <= Used(B, Younger)
  <2> HIDE DEF Younger
  <2> QED
    BY <1>1, UsedGrows
<1>3. Used(B, R) \in Nat /\ Used(B, Younger) \in Nat
  <2> HIDE DEF Younger
  <2> QED
    BY <1>1, PagesFinite
<1>4. v \in Needed(B, S, room)
  <2>1. Used(B, Younger) > room
    <3> HIDE DEF Younger
    <3> QED
      BY <1>2, <1>3
  <2> QED
    BY <2>1, Zenon DEF Needed
<1>5. Before(B, S \ (R \ {v}), R \ {v})
  <2> SUFFICES ASSUME NEW e \in S \ (R \ {v}), NEW k \in R \ {v}
               PROVE  B[e].last_touch < B[k].last_touch
    BY DEF Before
  <2>1. CASE e = v
    <3>1. B[v].last_touch # B[k].last_touch /\ B[v].last_touch <= B[k].last_touch
      BY DEF IsPages
    <3>2. B[v].last_touch \in Nat /\ B[k].last_touch \in Nat
      BY PagesFinite
    <3> QED
      BY <2>1, <3>1, <3>2
  <2>2. CASE e # v
    BY <2>2 DEF Before
  <2> QED
    BY <2>1, <2>2
<1> QED
  BY <1>4, <1>5

(* When the loop ends, what is left of S is what had not to go.            *)
LEMMA LoopLeaves ==
  ASSUME NEW B, IsPages(B), NEW S \in SUBSET DOMAIN B, NEW R \in SUBSET S,
         NEW room \in Nat, Used(B, R) <= room \/ R = {},
         S \ R \subseteq Needed(B, S, room), Before(B, S \ R, R)
  PROVE  Needed(B, S, room) = S \ R
<1> SUFFICES ASSUME NEW v \in R, v \in Needed(B, S, room) PROVE FALSE
  BY DEF Needed
<1> DEFINE Younger == {k \in S : B[v].last_touch <= B[k].last_touch}
<1>1. Used(B, Younger) > room
  BY DEF Needed
<1>2. Younger \subseteq R
  <2> SUFFICES ASSUME NEW k \in S \ R PROVE ~(B[v].last_touch <= B[k].last_touch)
    OBVIOUS
  <2>1. B[k].last_touch < B[v].last_touch
    BY DEF Before
  <2>2. B[v].last_touch \in Nat /\ B[k].last_touch \in Nat
    BY PagesFinite
  <2> QED
    BY <2>1, <2>2
<1> HIDE DEF Younger
<1>3. Used(B, Younger) <= Used(B, R) /\ Used(B, R) \in Nat /\ Used(B, Younger) \in Nat
  <2>1. R \in SUBSET DOMAIN B /\ Younger \in SUBSET R /\ Younger \in SUBSET DOMAIN B
    BY <1>2
  <2> QED
    BY <2>1, UsedGrows, PagesFinite
<1> QED
  BY <1>1, <1>3

(* Bytes of pages that two maps share.                                     *)
LEMMA UsedSame ==
  ASSUME NEW B, NEW C, NEW S, \A k \in S : B[k] = C[k]
  PROVE  Used(B, S) = Used(C, S)
BY ByteCellsSame DEF Used

(* What a call in progress has done so far to the pages B and the budgets  *)
(* b that it found: what has gone had to go, and is older than what the    *)
(* loop it is in may still take.                                           *)
IncomingPage == [tokens |-> call.tokens, kv |-> call.kv, bytes |-> call.bytes]

TracksLayerLoop(B, b) ==
  /\ Others(B, call.key) \ DOMAIN entries \subseteq Mine(B, b, call.key, call.bytes)
  /\ Before(B, Others(B, call.key) \ DOMAIN entries, InLayer(LayerOf[call.key]))

TracksGlobalLoop(B, b) ==
  LET rest == Rest(B, b, call.key, call.bytes)
  IN  /\ Mine(B, b, call.key, call.bytes) \cap DOMAIN entries = {}
      /\ rest \ DOMAIN entries \subseteq Needed(B, rest, MaxBytes - call.bytes)
      /\ Before(B, rest \ DOMAIN entries, DOMAIN entries)

TracksInsert(B, b) ==
  /\ layer_budgets = b
  /\ IncomingPage \in AbstractPages
  /\ call.pc = "insert_layer" => TracksLayerLoop(B, b)
  /\ call.pc = "insert_global" => TracksGlobalLoop(B, b)

Limited(b, layer, bytes) ==
  [l \in DOMAIN b \cup {layer} |-> IF l = layer THEN bytes ELSE b[l]]

TracksBudget(B, b) ==
  /\ \E bytes \in LayerBudgets : layer_budgets = Limited(b, call.layer, bytes)
  /\ DOMAIN B \ DOMAIN entries \subseteq LayerNeeded(B, layer_budgets, DOMAIN B, call.layer, 0)
  /\ Before(B, DOMAIN B \ DOMAIN entries, InLayer(call.layer))

Tracks ==
  call # Idle =>
    /\ IsPages(before.entries)
    /\ \A k \in DOMAIN entries : k \in DOMAIN before.entries /\ entries[k] = before.entries[k]
    /\ Inserting => TracksInsert(before.entries, before.layer_budgets)
    /\ call.pc = "budget" => TracksBudget(before.entries, before.layer_budgets)

(* The counters count the bytes of the pages that are left.                *)
LEMMA UsedNow ==
  ASSUME Inv, Tracks, call # Idle
  PROVE  /\ used_bytes = Used(before.entries, DOMAIN entries)
         /\ \A l \in Layers : LayerUsed(l) = Used(before.entries, InLayer(l))
<1>1. /\ used_bytes = Used(entries, DOMAIN entries)
      /\ \A l \in Layers : LayerUsed(l) = Used(entries, InLayer(l))
  BY DEF Inv, Accounts, AccountingExact, BytesOf, Used
<1>2. \A k \in DOMAIN entries : entries[k] = before.entries[k]
  BY DEF Tracks
<1>3. \A l : InLayer(l) \subseteq DOMAIN entries
  BY DEF InLayer
<1>4. Used(entries, DOMAIN entries) = Used(before.entries, DOMAIN entries)
  BY <1>2, UsedSame
<1>5. ASSUME NEW l PROVE Used(entries, InLayer(l)) = Used(before.entries, InLayer(l))
  <2>1. \A k \in InLayer(l) : entries[k] = before.entries[k]
    BY <1>2, <1>3
  <2> QED
    BY <2>1, UsedSame
<1> QED
  BY <1>1, <1>4, <1>5

(* An iteration of a loop changes nothing in its frame but the count.      *)
LEMMA EvictFrame ==
  ASSUME TypeOK, call.pc = "budget" \/ Inserting, NEW victim \in DOMAIN entries, Evict(victim)
  PROVE  /\ call'.pc = call.pc /\ call # Idle
         /\ call.pc = "budget" => call'.layer = call.layer
         /\ Inserting => /\ call'.key = call.key /\ call'.tokens = call.tokens
                         /\ call'.kv = call.kv /\ call'.bytes = call.bytes
         /\ layer_budgets' = layer_budgets /\ before' = before
         /\ DOMAIN entries' = DOMAIN entries \ {victim}
         /\ \A k \in DOMAIN entries' : entries'[k] = entries[k]
<1>1. /\ call' = [call EXCEPT !.evicted = @ + 1]
      /\ layer_budgets' = layer_budgets /\ before' = before
      /\ DOMAIN entries' = DOMAIN entries \ {victim}
      /\ \A k \in DOMAIN entries' : entries'[k] = entries[k]
  BY DEF Evict, RemovePage
<1>2. CASE call.pc = "budget"
  BY <1>1, <1>2, FrameFacts DEF BudgetCalls, Inserting, Idle
<1>3. CASE Inserting
  BY <1>1, <1>3, FrameFacts DEF InsertCalls, Inserting, Idle
<1> QED
  BY <1>1, <1>2, <1>3

(* The frame of an insertion, and what the call found.                     *)
LEMMA InsertFrame ==
  ASSUME Inv, Tracks, Inserting
  PROVE  /\ IsPages(before.entries)
         /\ \A k \in DOMAIN entries :
              k \in DOMAIN before.entries /\ entries[k] = before.entries[k]
         /\ layer_budgets = before.layer_budgets /\ IncomingPage \in AbstractPages
         /\ call.key \notin DOMAIN entries /\ LayerOf[call.key] \in Layers
         /\ call.bytes \in Nat /\ MaxBytes - call.bytes \in Nat
         /\ SatSub(MaxBytes, call.bytes) = MaxBytes - call.bytes
<1>1. call # Idle
  BY DEF Inserting, Idle
<1>2. MaxBytes \in Nat
  BY HotCacheAssumption
<1> QED
  BY <1>1, <1>2, FrameFacts DEF Inv, Tracks, TracksInsert, CallFits, SatSub

(* The loop that trims the layer of the incoming page, when the layer has  *)
(* a budget.                                                               *)
LayerOthers == {k \in Others(before.entries, call.key) : LayerOf[k] = LayerOf[call.key]}

LayerRoom == before.layer_budgets[LayerOf[call.key]] - call.bytes

LEMMA LayerLoop ==
  ASSUME Inv, Tracks, call.pc = "insert_layer",
         LayerOf[call.key] \in DOMAIN before.layer_budgets
  PROVE  LET B == before.entries
             R == InLayer(LayerOf[call.key])
         IN  /\ Mine(B, before.layer_budgets, call.key, call.bytes)
                  = Needed(B, LayerOthers, LayerRoom)
             /\ R \subseteq LayerOthers /\ LayerOthers \in SUBSET DOMAIN B
             /\ LayerOthers \ R = Others(B, call.key) \ DOMAIN entries
             /\ LayerOthers \ R \subseteq Needed(B, LayerOthers, LayerRoom)
             /\ Before(B, LayerOthers \ R, R)
             /\ LayerRoom \in Nat
             /\ LayerOver(LayerOf[call.key], call.bytes) <=> Used(B, R) > LayerRoom
<1> DEFINE B == before.entries
           b == before.layer_budgets
           key == call.key
           L == LayerOf[key]
           D == DOMAIN entries
           S == LayerOthers
           R == InLayer(L)
<1>1. Inserting /\ call # Idle
  BY DEF Inserting, Idle
<1>2. TracksLayerLoop(B, b)
  BY <1>1 DEF Tracks, TracksInsert
<1>3. /\ IsPages(B) /\ \A k \in D : k \in DOMAIN B /\ entries[k] = B[k]
      /\ layer_budgets = b /\ key \notin D /\ L \in Layers /\ call.bytes \in Nat
  BY <1>1, InsertFrame
<1>4. b[L] \in Nat /\ call.bytes <= b[L]
  <2>1. b[L] \in Nat
    BY <1>3, HotCacheAssumption DEF Inv, TypeOK
  <2> QED
    BY <1>1, <1>3, <2>1 DEF Inv, CallFits
<1>5. /\ LayerRoom \in Nat
      /\ LayerOver(L, call.bytes) <=> Used(B, R) > LayerRoom
  <2>1. LayerUsed(L) = Used(B, R)
    BY <1>1, <1>3, UsedNow
  <2>2. SatSub(b[L], call.bytes) = LayerRoom /\ LayerRoom \in Nat
    BY <1>3, <1>4 DEF SatSub, LayerRoom
  <2> QED
    BY <1>3, <2>1, <2>2 DEF LayerOver
<1>6. R \subseteq S /\ S \in SUBSET DOMAIN B
  BY <1>3 DEF InLayer, Others, LayerOthers
<1>7. Mine(B, b, key, call.bytes) = Needed(B, S, LayerRoom)
  BY DEF Mine, LayerNeeded, LayerOthers, LayerRoom
<1>8. Others(B, key) \ D \subseteq Needed(B, S, LayerRoom) /\ Before(B, Others(B, key) \ D, R)
  BY <1>2, <1>7 DEF TracksLayerLoop
<1>9. S \ R = Others(B, key) \ D
  <2>1. Needed(B, S, LayerRoom) \subseteq S
    BY DEF Needed
  <2>2. R = {k \in D : LayerOf[k] = L}
    BY DEF InLayer
  <2> QED
    BY <1>6, <1>8, <2>1, <2>2 DEF LayerOthers
<1> HIDE DEF S, R
<1> QED
  BY <1>5, <1>6, <1>7, <1>8, <1>9 DEF S, R

(* An iteration of that loop.                                              *)
LEMMA TracksEvictLayer ==
  ASSUME Inv, Tracks, InsertEvictLayer
  PROVE  Tracks'
<1> DEFINE B == before.entries
           b == before.layer_budgets
           key == call.key
           L == LayerOf[key]
           D == DOMAIN entries
           S == LayerOthers
           R == InLayer(L)
           room == LayerRoom
<1>1. PICK v \in Oldest(R) : Evict(v)
  BY DEF InsertEvictLayer
<1>2. /\ Inserting /\ call.pc = "insert_layer" /\ call # Idle /\ v \in D
      /\ v \in R /\ \A k \in R : entries[v].last_touch <= entries[k].last_touch
  BY <1>1 DEF InsertEvictLayer, Inserting, Oldest, InLayer, Idle
<1>3. /\ IsPages(B) /\ \A k \in D : k \in DOMAIN B /\ entries[k] = B[k]
      /\ layer_budgets = b /\ IncomingPage \in AbstractPages
  BY <1>2, InsertFrame
<1>4. /\ call'.pc = call.pc /\ call'.key = call.key /\ call'.tokens = call.tokens
      /\ call'.kv = call.kv /\ call'.bytes = call.bytes
      /\ layer_budgets' = b /\ before' = before
      /\ DOMAIN entries' = D \ {v}
      /\ \A k \in DOMAIN entries' : entries'[k] = entries[k]
  BY <1>1, <1>2, <1>3, EvictFrame DEF Inv
<1>5. L \in DOMAIN b /\ LayerOver(L, call.bytes)
  BY <1>3 DEF InsertEvictLayer, LayerOver
<1>6. /\ Mine(B, b, key, call.bytes) = Needed(B, S, room)
      /\ R \subseteq S /\ S \in SUBSET DOMAIN B
      /\ S \ R = Others(B, key) \ D /\ S \ R \subseteq Needed(B, S, room)
      /\ Before(B, S \ R, R) /\ room \in Nat /\ Used(B, R) > room
  BY <1>2, <1>5, LayerLoop
<1>7. \A k \in R : B[v].last_touch <= B[k].last_touch
  BY <1>2, <1>3 DEF InLayer
<1> HIDE DEF S, R, room
<1>8. v \in Needed(B, S, room) /\ Before(B, S \ (R \ {v}), R \ {v})
  <2> HIDE DEF B
  <2> QED
    BY <1>2, <1>3, <1>6, <1>7, EvictOldest
<1>9. Others(B, key) \ (D \ {v}) \subseteq Needed(B, S, room)
  BY <1>6, <1>8
<1>10. Others(B, key) \ (D \ {v}) \subseteq S \ (R \ {v})
  BY <1>2, <1>6
<1>11. Before(B, Others(B, key) \ (D \ {v}), R \ {v})
  BY <1>8, <1>10 DEF Before
<1>12. InLayer(L)' = R \ {v}
  BY <1>4 DEF InLayer, R
<1>13. TracksLayerLoop(B, b)'
  BY <1>4, <1>6, <1>9, <1>11, <1>12 DEF TracksLayerLoop
<1>14. IncomingPage' = IncomingPage
  BY <1>4 DEF IncomingPage
<1>15. TracksInsert(B, b)'
  BY <1>2, <1>3, <1>4, <1>13, <1>14 DEF TracksInsert
<1> QED
  BY <1>2, <1>3, <1>4, <1>15 DEF Tracks

(* The end of that loop: what is left of the layer stays.                  *)
LEMMA TracksLayerDone ==
  ASSUME Inv, Tracks, InsertLayerDone
  PROVE  Tracks'
<1> DEFINE B == before.entries
           b == before.layer_budgets
           key == call.key
           L == LayerOf[key]
           D == DOMAIN entries
           M == Mine(B, b, key, call.bytes)
           rest == Rest(B, b, key, call.bytes)
<1>1. Inserting /\ call.pc = "insert_layer" /\ call # Idle
  BY DEF InsertLayerDone, Inserting, Idle
<1>2. /\ IsPages(B) /\ \A k \in D : k \in DOMAIN B /\ entries[k] = B[k]
      /\ layer_budgets = b /\ IncomingPage \in AbstractPages
  BY <1>1, InsertFrame
<1>3. /\ call'.pc = "insert_global" /\ call'.key = key /\ call'.tokens = call.tokens
      /\ call'.kv = call.kv /\ call'.bytes = call.bytes
      /\ layer_budgets' = layer_budgets /\ before' = before /\ entries' = entries
  BY <1>1, FrameFacts DEF InsertLayerDone, InsertCalls, Inv
<1>4. Others(B, key) \ D \subseteq M
  BY <1>1 DEF Tracks, TracksInsert, TracksLayerLoop
<1>5. M \cap D = {}
  <2>1. CASE L \notin DOMAIN b
    BY <2>1 DEF Mine, LayerNeeded
  <2>2. CASE L \in DOMAIN b
    <3> DEFINE S == LayerOthers
               R == InLayer(L)
    <3>1. /\ M = Needed(B, S, LayerRoom)
          /\ R \subseteq S /\ S \in SUBSET DOMAIN B
          /\ S \ R = Others(B, key) \ D /\ S \ R \subseteq Needed(B, S, LayerRoom)
          /\ Before(B, S \ R, R) /\ LayerRoom \in Nat
          /\ LayerOver(L, call.bytes) <=> Used(B, R) > LayerRoom
      BY <1>1, <2>2, LayerLoop
    <3>2. Used(B, R) <= LayerRoom \/ R = {}
      <4>1. ~LayerOver(L, call.bytes) \/ R = {}
        BY DEF InsertLayerDone
      <4>2. R \in SUBSET DOMAIN B
        BY <3>1
      <4> HIDE DEF R, B
      <4>3. Used(B, R) \in Nat
        BY <1>2, <4>2, PagesFinite
      <4> QED
        BY <3>1, <4>1, <4>3
    <3> HIDE DEF S, R, B
    <3>3. Needed(B, S, LayerRoom) = S \ R
      BY <1>2, <3>1, <3>2, LoopLeaves
    <3> QED
      BY <3>1, <3>3
  <2> QED
    BY <2>1, <2>2
<1>6. rest \ D = {}
  BY <1>4 DEF Rest
<1>7. IncomingPage' = IncomingPage
  BY <1>3 DEF IncomingPage
<1>8. TracksGlobalLoop(B, b)'
  <2> HIDE DEF rest, M
  <2>1. rest \ D \subseteq Needed(B, rest, MaxBytes - call.bytes) /\ Before(B, rest \ D, D)
    BY <1>6 DEF Before
  <2>2. TracksGlobalLoop(B, b)
    BY <1>5, <2>1 DEF TracksGlobalLoop, rest, M
  <2> QED
    BY <1>3, <2>2 DEF TracksGlobalLoop
<1>9. TracksInsert(B, b)'
  BY <1>2, <1>3, <1>7, <1>8 DEF TracksInsert
<1> QED
  BY <1>1, <1>2, <1>3, <1>9 DEF Tracks

(* The second loop.                                                        *)
LEMMA GlobalLoop ==
  ASSUME Inv, Tracks, call.pc = "insert_global"
  PROVE  LET B == before.entries
             S == Rest(B, before.layer_budgets, call.key, call.bytes)
             R == DOMAIN entries
             room == MaxBytes - call.bytes
         IN  /\ R \subseteq S /\ S \in SUBSET DOMAIN B
             /\ S \ R \subseteq Needed(B, S, room) /\ Before(B, S \ R, R)
             /\ room \in Nat
             /\ GlobalOver(call.bytes) <=> Used(B, R) > room
<1> DEFINE B == before.entries
           S == Rest(B, before.layer_budgets, call.key, call.bytes)
           R == DOMAIN entries
           room == MaxBytes - call.bytes
<1>1. Inserting /\ call # Idle
  BY DEF Inserting, Idle
<1>2. /\ \A k \in R : k \in DOMAIN B
      /\ call.key \notin R /\ room \in Nat /\ SatSub(MaxBytes, call.bytes) = room
  BY <1>1, InsertFrame
<1>3. TracksGlobalLoop(B, before.layer_budgets)
  BY <1>1 DEF Tracks, TracksInsert
<1>4. S \ R \subseteq Needed(B, S, room) /\ Before(B, S \ R, R)
  BY <1>3 DEF TracksGlobalLoop
<1>5. R \subseteq S /\ S \in SUBSET DOMAIN B
  BY <1>2, <1>3 DEF TracksGlobalLoop, Rest, Others
<1>6. GlobalOver(call.bytes) <=> Used(B, R) > room
  BY <1>1, <1>2, UsedNow DEF GlobalOver
<1> HIDE DEF S, room
<1> QED
  BY <1>2, <1>4, <1>5, <1>6 DEF S, room

(* An iteration of the second loop.                                        *)
LEMMA TracksEvictGlobal ==
  ASSUME Inv, Tracks, InsertEvictGlobal
  PROVE  Tracks'
<1> DEFINE B == before.entries
           b == before.layer_budgets
           key == call.key
           S == Rest(B, b, key, call.bytes)
           R == DOMAIN entries
           room == MaxBytes - call.bytes
<1>1. PICK v \in Oldest(R) : Evict(v)
  BY DEF InsertEvictGlobal
<1>2. /\ Inserting /\ call.pc = "insert_global" /\ call # Idle
      /\ v \in R /\ \A k \in R : entries[v].last_touch <= entries[k].last_touch
  BY <1>1 DEF InsertEvictGlobal, Inserting, Oldest, Idle
<1>3. /\ IsPages(B) /\ \A k \in R : k \in DOMAIN B /\ entries[k] = B[k]
      /\ layer_budgets = b /\ IncomingPage \in AbstractPages
  BY <1>2, InsertFrame
<1>4. /\ call'.pc = call.pc /\ call'.key = call.key /\ call'.tokens = call.tokens
      /\ call'.kv = call.kv /\ call'.bytes = call.bytes
      /\ layer_budgets' = b /\ before' = before
      /\ DOMAIN entries' = R \ {v}
      /\ \A k \in DOMAIN entries' : entries'[k] = entries[k]
  BY <1>1, <1>2, <1>3, EvictFrame DEF Inv
<1>5. /\ R \subseteq S /\ S \in SUBSET DOMAIN B
      /\ S \ R \subseteq Needed(B, S, room) /\ Before(B, S \ R, R)
      /\ room \in Nat /\ Used(B, R) > room
  BY <1>2, GlobalLoop DEF InsertEvictGlobal
<1>6. \A k \in R : B[v].last_touch <= B[k].last_touch
  BY <1>2, <1>3
<1> HIDE DEF S, R, room
<1>7. v \in Needed(B, S, room) /\ Before(B, S \ (R \ {v}), R \ {v})
  <2> HIDE DEF B
  <2> QED
    BY <1>2, <1>3, <1>5, <1>6, EvictOldest
<1>8. S \ (R \ {v}) \subseteq Needed(B, S, room)
  BY <1>5, <1>7
<1>9. Mine(B, b, key, call.bytes) \cap R = {}
  BY <1>2 DEF Tracks, TracksInsert, TracksGlobalLoop, R
<1>10. TracksGlobalLoop(B, b)'
  BY <1>4, <1>7, <1>8, <1>9 DEF TracksGlobalLoop, S, room
<1>11. IncomingPage' = IncomingPage
  BY <1>4 DEF IncomingPage
<1>12. TracksInsert(B, b)'
  BY <1>2, <1>3, <1>4, <1>10, <1>11 DEF TracksInsert
<1> QED
  BY <1>2, <1>3, <1>4, <1>12 DEF Tracks, R

(* The loop of set_layer_budget.                                           *)
BudgetPages == {k \in DOMAIN before.entries : LayerOf[k] = call.layer}

LEMMA BudgetLoop ==
  ASSUME Inv, Tracks, call.pc = "budget"
  PROVE  LET B == before.entries
             R == InLayer(call.layer)
             room == layer_budgets[call.layer]
         IN  /\ IsPages(B) /\ \A k \in DOMAIN entries : k \in DOMAIN B /\ entries[k] = B[k]
             /\ LayerNeeded(B, layer_budgets, DOMAIN B, call.layer, 0)
                  = Needed(B, BudgetPages, room)
             /\ R \subseteq BudgetPages /\ BudgetPages \in SUBSET DOMAIN B
             /\ BudgetPages \ R = DOMAIN B \ DOMAIN entries
             /\ BudgetPages \ R \subseteq Needed(B, BudgetPages, room)
             /\ Before(B, BudgetPages \ R, R)
             /\ room \in Nat
             /\ LayerOver(call.layer, 0) <=> Used(B, R) > room
<1> DEFINE B == before.entries
           D == DOMAIN entries
           S == BudgetPages
           R == InLayer(call.layer)
           room == layer_budgets[call.layer]
<1>1. call # Idle /\ call.layer \in Layers
  BY FrameFacts DEF Idle, Inv
<1>2. /\ IsPages(B) /\ \A k \in D : k \in DOMAIN B /\ entries[k] = B[k]
      /\ TracksBudget(B, before.layer_budgets)
  BY <1>1 DEF Tracks
<1>3. call.layer \in DOMAIN layer_budgets
  BY <1>2 DEF TracksBudget, Limited
<1>4. room \in Nat
  BY <1>3, HotCacheAssumption DEF Inv, TypeOK
<1>5. LayerOver(call.layer, 0) <=> Used(B, R) > room
  <2>1. LayerUsed(call.layer) = Used(B, R)
    BY <1>1, UsedNow
  <2>2. SatSub(room, 0) = room
    BY <1>4 DEF SatSub
  <2> QED
    BY <1>3, <2>1, <2>2 DEF LayerOver
<1>6. LayerNeeded(B, layer_budgets, DOMAIN B, call.layer, 0) = Needed(B, S, room)
  <2>1. room - 0 = room
    BY <1>4
  <2> QED
    BY <1>3, <2>1 DEF LayerNeeded, BudgetPages
<1>7. R \subseteq S /\ S \in SUBSET DOMAIN B
  BY <1>2 DEF InLayer, BudgetPages
<1>8. DOMAIN B \ D \subseteq Needed(B, S, room) /\ Before(B, DOMAIN B \ D, R)
  BY <1>2, <1>6 DEF TracksBudget
<1>9. S \ R = DOMAIN B \ D
  <2>1. Needed(B, S, room) \subseteq S
    BY DEF Needed
  <2>2. R = {k \in D : LayerOf[k] = call.layer}
    BY DEF InLayer
  <2> QED
    BY <1>7, <1>8, <2>1, <2>2 DEF BudgetPages
<1> HIDE DEF S, R, room
<1> QED
  BY <1>2, <1>4, <1>5, <1>6, <1>7, <1>8, <1>9 DEF S, R, room

(* An iteration of that loop.                                              *)
LEMMA TracksBudgetEvict ==
  ASSUME Inv, Tracks, BudgetEvict
  PROVE  Tracks'
<1> DEFINE B == before.entries
           layer == call.layer
           D == DOMAIN entries
           S == BudgetPages
           R == InLayer(layer)
           room == layer_budgets[layer]
<1>1. PICK v \in Oldest(R) : Evict(v)
  BY DEF BudgetEvict
<1>2. /\ call.pc = "budget" /\ ~Inserting /\ call # Idle /\ v \in D
      /\ v \in R /\ \A k \in R : entries[v].last_touch <= entries[k].last_touch
  BY <1>1 DEF BudgetEvict, Inserting, Oldest, InLayer, Idle
<1>3. /\ IsPages(B) /\ \A k \in D : k \in DOMAIN B /\ entries[k] = B[k]
      /\ LayerNeeded(B, layer_budgets, DOMAIN B, layer, 0) = Needed(B, S, room)
      /\ R \subseteq S /\ S \in SUBSET DOMAIN B
      /\ S \ R = DOMAIN B \ D
      /\ S \ R \subseteq Needed(B, S, room)
      /\ Before(B, S \ R, R) /\ room \in Nat
      /\ Used(B, R) > room
  BY <1>2, BudgetLoop DEF BudgetEvict
<1>4. /\ call'.pc = call.pc /\ call'.layer = layer
      /\ layer_budgets' = layer_budgets /\ before' = before
      /\ DOMAIN entries' = D \ {v}
      /\ \A k \in DOMAIN entries' : entries'[k] = entries[k]
  BY <1>1, <1>2, EvictFrame DEF Inv
<1>5. \A k \in R : B[v].last_touch <= B[k].last_touch
  BY <1>2, <1>3 DEF InLayer
<1> HIDE DEF S, R, room
<1>6. v \in Needed(B, S, room) /\ Before(B, S \ (R \ {v}), R \ {v})
  <2> HIDE DEF B
  <2> QED
    BY <1>2, <1>3, <1>5, EvictOldest
<1>7. DOMAIN B \ (D \ {v}) \subseteq S \ (R \ {v})
  BY <1>2, <1>3
<1>8. DOMAIN B \ (D \ {v}) \subseteq Needed(B, S, room)
  BY <1>3, <1>6
<1>9. Before(B, DOMAIN B \ (D \ {v}), R \ {v})
  BY <1>6, <1>7 DEF Before
<1>10. InLayer(layer)' = R \ {v}
  BY <1>4 DEF InLayer, R
<1>11. \E bytes \in LayerBudgets : layer_budgets = Limited(before.layer_budgets, layer, bytes)
  BY <1>2 DEF Tracks, TracksBudget
<1>12. TracksBudget(B, before.layer_budgets)'
  BY <1>3, <1>4, <1>8, <1>9, <1>10, <1>11 DEF TracksBudget
<1> QED
  BY <1>2, <1>3, <1>4, <1>12 DEF Tracks, Inserting

(* A call begins with nothing gone but the page that an insert replaces.   *)
LEMMA TracksBegin ==
  ASSUME Inv, TouchesDistinct, NEW key \in PageKeys, NEW tokens \in TokenCounts,
         NEW head_dim \in HeadDims, NEW rows, NEW kv \in Contents,
         InsertBegin(key, tokens, head_dim, rows, kv)
  PROVE  Tracks'
<1>1. /\ tokens # 0 /\ head_dim # 0
      /\ call' = [pc |-> "insert_layer", key |-> key, tokens |-> tokens, kv |-> kv,
                  bytes |-> tokens * head_dim, evicted |-> 0]
      /\ before'.entries = entries /\ before'.layer_budgets = layer_budgets
      /\ layer_budgets' = layer_budgets
  BY DEF InsertBegin, InvalidPage, Snapshot
<1>2. /\ DOMAIN entries' = DOMAIN entries \ {key}
      /\ \A k \in DOMAIN entries' : k \in DOMAIN entries /\ entries'[k] = entries[k]
  <2>1. IF key \in DOMAIN entries THEN RemovePage(key) ELSE entries' = entries
    BY DEF InsertBegin
  <2> QED
    BY <2>1 DEF RemovePage
<1>3. IsPages(before.entries)'
  BY <1>1 DEF IsPages, Inv, TypeOK, TouchesDistinct
<1>4. IncomingPage' \in AbstractPages
  BY <1>1 DEF IncomingPage, AbstractPages
<1>5. (Others(before.entries, call.key) \ DOMAIN entries)' = {}
  BY <1>1, <1>2 DEF Others
<1>6. TracksLayerLoop(before.entries, before.layer_budgets)'
  BY <1>5 DEF TracksLayerLoop, Before
<1>7. TracksInsert(before.entries, before.layer_budgets)'
  BY <1>1, <1>4, <1>6 DEF TracksInsert
<1>8. call'.pc = "insert_layer"
  BY <1>1
<1> QED
  BY <1>1, <1>2, <1>3, <1>7, <1>8 DEF Tracks

LEMMA TracksSetBudget ==
  ASSUME Inv, TouchesDistinct, NEW layer \in Layers, NEW bytes \in LayerBudgets,
         SetLayerBudget(layer, bytes)
  PROVE  Tracks'
<1>1. /\ layer_budgets' = Limited(layer_budgets, layer, bytes)
      /\ call'.pc = "budget" /\ call'.layer = layer /\ entries' = entries
      /\ before'.entries = entries /\ before'.layer_budgets = layer_budgets
  BY DEF SetLayerBudget, Snapshot, Limited
<1>2. IsPages(before.entries)'
  BY <1>1 DEF IsPages, Inv, TypeOK, TouchesDistinct
<1>3. (DOMAIN before.entries \ DOMAIN entries)' = {}
  BY <1>1
<1>4. TracksBudget(before.entries, before.layer_budgets)'
  BY <1>1, <1>3 DEF TracksBudget, Before
<1> QED
  BY <1>1, <1>2, <1>4 DEF Tracks, Inserting

(* Every action keeps the invariant.                                       *)
LEMMA TracksNext == Inv /\ TouchesDistinct /\ Tracks /\ [Next]_vars => Tracks'
<1> SUFFICES ASSUME Inv, TouchesDistinct, Tracks, [Next]_vars PROVE Tracks'
  OBVIOUS
<1>1. ASSUME call' = Idle PROVE Tracks'
  BY <1>1 DEF Tracks
<1>2. ASSUME NEW key \in PageKeys, NEW tokens \in TokenCounts, NEW head_dim \in HeadDims,
             NEW rows \in Rows, NEW kv \in Contents,
             InsertBegin(key, tokens, head_dim, rows, kv)
      PROVE  Tracks'
  BY <1>2, TracksBegin
<1>3. CASE InsertEvictLayer
  BY <1>3, TracksEvictLayer
<1>4. CASE InsertLayerDone
  BY <1>4, TracksLayerDone
<1>5. CASE InsertEvictGlobal
  BY <1>5, TracksEvictGlobal
<1>6. CASE BudgetEvict
  BY <1>6, TracksBudgetEvict
<1>7. CASE InsertCommit \/ BudgetDone
  BY <1>1, <1>7 DEF InsertCommit, BudgetDone
<1>8. ASSUME NEW layer \in Layers, NEW bytes \in LayerBudgets, SetLayerBudget(layer, bytes)
      PROVE  Tracks'
  BY <1>8, TracksSetBudget
<1>9. ASSUME \/ \E layer \in Layers : ClearLayerBudget(layer)
             \/ Clear
             \/ \E key \in PageKeys : Remove(key) \/ Get(key)
      PROVE  Tracks'
  BY <1>1, <1>9 DEF ClearLayerBudget, Clear, Remove, Get
<1>10. CASE \/ UNCHANGED vars
            \/ \E key \in PageKeys, tokens \in TokenCounts, head_dim \in HeadDims,
                  rows \in Rows : InsertRefused(key, tokens, head_dim, rows)
  <2>1. /\ entries' = entries /\ layer_budgets' = layer_budgets /\ call' = call
        /\ before' = before
    BY <1>10 DEF InsertRefused, vars
  <2> QED
    BY <2>1 DEF Tracks, TracksInsert, TracksBudget, TracksLayerLoop, TracksGlobalLoop,
                IncomingPage, Inserting, InLayer
<1> QED
  BY <1>2, <1>3, <1>4, <1>5, <1>6, <1>7, <1>8, <1>9, <1>10 DEF Next, CallStep

(* The operations of LruCache, on what entries stand for.                  *)

(* The pages of B and the page of key make C: key is the youngest, and the *)
(* others keep their order.                                                *)
StampedAs(B, key, C) ==
  /\ DOMAIN C = DOMAIN B \cup {key}
  /\ \A j, k \in DOMAIN B \ {key} :
       B[j].last_touch < B[k].last_touch <=> C[j].last_touch < C[k].last_touch
  /\ \A j \in DOMAIN B \ {key} : C[j].last_touch < C[key].last_touch
  /\ \A j \in DOMAIN C : C[j].last_touch \in Nat

LEMMA StampedOlder ==
  ASSUME NEW B, NEW C, NEW b, NEW key, StampedAs(B, key, C)
  PROVE  Abstract(C, b).older = Lru!UsedLast(Abstract(B, b).older, DOMAIN B, key)
<1> DEFINE O == Abstract(B, b).older
           N == Abstract(C, b).older
           S == DOMAIN B \ {key}
<1> USE DEF StampedAs
<1>1. \A j, k \in DOMAIN B : <<j, k>> \in O <=> B[j].last_touch < B[k].last_touch
  BY DEF Abstract
<1>2. \A j, k \in DOMAIN C : <<j, k>> \in N <=> C[j].last_touch < C[k].last_touch
  BY DEF Abstract
<1>3. N \subseteq (S \cup {key}) \X (S \cup {key})
  BY DEF Abstract
<1>4. Lru!UsedLast(O, DOMAIN B, key) = (O \cap (S \X S)) \cup (S \X {key})
  BY DEF Lru!UsedLast, Lru!Among
<1>5. \A j \in S : ~(C[key].last_touch < C[j].last_touch)
  BY SMT
<1>6. ~(C[key].last_touch < C[key].last_touch)
  OBVIOUS
<1>7. \A j, k \in S \cup {key} : <<j, k>> \in N <=> <<j, k>> \in (O \cap (S \X S)) \cup (S \X {key})
  <2> SUFFICES ASSUME NEW j \in S \cup {key}, NEW k \in S \cup {key}
               PROVE  <<j, k>> \in N <=> <<j, k>> \in (O \cap (S \X S)) \cup (S \X {key})
    OBVIOUS
  <2> HIDE DEF O, N
  <2>1. CASE j \in S /\ k \in S
    BY <2>1, <1>1, <1>2
  <2>2. CASE j \in S /\ k = key
    BY <2>2, <1>2
  <2>3. CASE j = key
    BY <2>3, <1>2, <1>5, <1>6
  <2> QED
    BY <2>1, <2>2, <2>3
<1> HIDE DEF O, N
<1>8. N = (O \cap (S \X S)) \cup (S \X {key})
  <2>1. (O \cap (S \X S)) \cup (S \X {key}) \subseteq (S \cup {key}) \X (S \cup {key})
    OBVIOUS
  <2>2. \A X, Y, Z : X \subseteq Z \X Z /\ Y \subseteq Z \X Z
                       /\ (\A j, k \in Z : <<j, k>> \in X <=> <<j, k>> \in Y) => X = Y
    OBVIOUS
  <2> DEFINE Y == (O \cap (S \X S)) \cup (S \X {key})
             Z == S \cup {key}
  <2>3. N \subseteq Z \X Z /\ Y \subseteq Z \X Z /\ \A j, k \in Z : <<j, k>> \in N <=> <<j, k>> \in Y
    BY <1>3, <1>7, <2>1
  <2> HIDE DEF S, Y, Z
  <2>4. N = Y
    BY <2>2, <2>3
  <2> QED
    BY <2>4 DEF Y
<1> QED
  BY <1>4, <1>8 DEF O, N

(* Inserting and reading a page, when the other pages keep their order and *)
(* the page becomes the youngest.                                          *)
LEMMA InsertedAbstract ==
  ASSUME NEW B, IsPages(B), NEW b, NEW key, NEW page, NEW C, NEW D,
         D = Others(B, key) \ Lru!Victims(Abstract(B, b), key, page),
         C = [k \in D \cup {key} |-> C[k]],
         AbstractPage(C[key]) = page,
         \A k \in D : AbstractPage(C[k]) = AbstractPage(B[k]),
         StampedAs(Part(B, D), key, C)
  PROVE  Lru!Inserted(Abstract(B, b), key, page) = Abstract(C, b)
<1> DEFINE c == Abstract(B, b)
           V == Lru!Victims(c, key, page)
           kept == Lru!Without(c, V \cup {key})
           Q == Part(B, D)
           pages == [k \in D \cup {key} |-> IF k = key THEN page ELSE kept.pages[k]]
<1>1. /\ D \in SUBSET DOMAIN B /\ key \notin D /\ DOMAIN B \ (V \cup {key}) = D
      /\ DOMAIN C = D \cup {key}
  BY DEF Others
<1>2. kept = Abstract(Q, b)
  <2>1. kept = Abstract(Part(B, DOMAIN B \ (V \cup {key})), b)
    BY WithoutAbstract
  <2> QED
    BY <1>1, <2>1
<1>3. DOMAIN Q = D /\ \A k \in D : Q[k] = B[k]
  BY DEF Part
<1> HIDE DEF Q
<1>4. Lru!Resident(kept) = D
  BY <1>2, <1>3, ResidentAbstract
<1>5. c.budgets = b
  BY DEF Abstract
<1> HIDE DEF c
<1>6. Lru!Inserted(c, key, page) =
        [pages |-> pages, older |-> Lru!UsedLast(kept.older, D, key), budgets |-> b]
  <2> HIDE DEF kept
  <2>1. kept = Lru!Without(c, V \cup {key})
    BY DEF kept
  <2> QED
    BY <1>4, <1>5, <2>1, Zenon DEF Lru!Inserted
<1>7. pages = [k \in DOMAIN C |-> AbstractPage(C[k])]
  <2> HIDE DEF kept
  <2>1. \A k \in D : kept.pages[k] = AbstractPage(B[k])
    BY <1>2, <1>3 DEF Abstract
  <2> QED
    BY <1>1, <2>1
<1>8. Abstract(C, b).older = Lru!UsedLast(Abstract(Q, b).older, D, key)
  <2>1. StampedAs(Q, key, C)
    BY DEF Q
  <2> QED
    BY <1>3, <2>1, StampedOlder
<1>9. Abstract(C, b) = [pages |-> [k \in DOMAIN C |-> AbstractPage(C[k])],
                        older |-> Abstract(C, b).older, budgets |-> b]
  BY DEF Abstract
<1> QED
  BY <1>2, <1>6, <1>7, <1>8, <1>9 DEF c

LEMMA TouchedAbstract ==
  ASSUME NEW B, NEW b, NEW key \in DOMAIN B, NEW C, StampedAs(B, key, C),
         \A k \in DOMAIN B : AbstractPage(C[k]) = AbstractPage(B[k])
  PROVE  Lru!Touched(Abstract(B, b), key) = Abstract(C, b)
<1> DEFINE p == Abstract(B, b).pages
           o == Abstract(B, b).older
           n == Abstract(C, b).older
<1>1. n = Lru!UsedLast(o, DOMAIN B, key)
  BY StampedOlder
<1>2. Lru!Resident(Abstract(B, b)) = DOMAIN B
  BY ResidentAbstract
<1>3. Abstract(C, b) = [pages |-> p, older |-> n, budgets |-> b]
  BY DEF Abstract, StampedAs
<1>4. Abstract(B, b) = [pages |-> p, older |-> o, budgets |-> b]
  BY DEF Abstract
<1>5. Lru!Touched(Abstract(B, b), key)
        = [Abstract(B, b) EXCEPT !.older = Lru!UsedLast(o, DOMAIN B, key)]
  BY <1>2, Zenon DEF Lru!Touched
<1> HIDE DEF p, o, n
<1>6. [Abstract(B, b) EXCEPT !.older = n] = [pages |-> p, older |-> n, budgets |-> b]
  BY <1>4
<1> QED
  BY <1>1, <1>3, <1>5, <1>6

(* Setting and clearing a budget.                                          *)
LEMMA BudgetedAbstract ==
  ASSUME NEW B, IsPages(B), NEW b, NEW layer, NEW bytes
  PROVE  Lru!Budgeted(Abstract(B, b), layer, bytes) =
           Abstract(Part(B, DOMAIN B \ LayerNeeded(B, Limited(b, layer, bytes), DOMAIN B, layer, 0)),
                    Limited(b, layer, bytes))
<1> DEFINE limited == Abstract(B, Limited(b, layer, bytes))
           needed == LayerNeeded(B, Limited(b, layer, bytes), DOMAIN B, layer, 0)
<1>1. [Abstract(B, b) EXCEPT !.budgets =
         [l \in DOMAIN @ \cup {layer} |-> IF l = layer THEN bytes ELSE @[l]]] = limited
  <2> DEFINE c == Abstract(B, b)
             p == c.pages
             o == c.older
             n == Limited(b, layer, bytes)
  <2>1. c = [pages |-> p, older |-> o, budgets |-> b] /\ c.budgets = b
    BY DEF Abstract
  <2>2. limited = [pages |-> p, older |-> o, budgets |-> n]
    BY DEF Abstract
  <2>3. [l \in DOMAIN c.budgets \cup {layer} |-> IF l = layer THEN bytes ELSE c.budgets[l]] = n
    BY <2>1 DEF Limited
  <2> HIDE DEF c, p, o, n, limited
  <2>4. [c EXCEPT !.budgets = n] = [pages |-> p, older |-> o, budgets |-> n]
    BY <2>1
  <2>5. [c EXCEPT !.budgets =
           [l \in DOMAIN @ \cup {layer} |-> IF l = layer THEN bytes ELSE @[l]]] = limited
    BY <2>2, <2>3, <2>4, Zenon
  <2> QED
    BY <2>5, Zenon DEF c
<1>2. Lru!Budgeted(Abstract(B, b), layer, bytes) =
        Lru!Without(limited, Lru!LayerDisplaced(limited, layer, 0))
  BY <1>1, Zenon DEF Lru!Budgeted
<1>3. Part(B, DOMAIN B) = B
  BY DEF Part, IsPages
<1>4. Lru!LayerDisplaced(limited, layer, 0) = needed
  <2>1. Lru!LayerDisplaced(Abstract(Part(B, DOMAIN B), Limited(b, layer, bytes)), layer, 0) = needed
    BY LayerDisplacedAbstract
  <2> QED
    BY <1>3, <2>1
<1> HIDE DEF needed
<1>5. Lru!Without(limited, needed) =
        Abstract(Part(B, DOMAIN B \ needed), Limited(b, layer, bytes))
  BY WithoutAbstract
<1> QED
  BY <1>2, <1>4, <1>5 DEF needed

LEMMA UnbudgetedAbstract ==
  ASSUME NEW B, NEW b, NEW layer
  PROVE  Lru!Unbudgeted(Abstract(B, b), layer)
           = Abstract(B, [l \in DOMAIN b \ {layer} |-> b[l]])
<1> DEFINE c == Abstract(B, b)
           p == c.pages
           o == c.older
           n == [l \in DOMAIN b \ {layer} |-> b[l]]
<1>1. c = [pages |-> p, older |-> o, budgets |-> b] /\ c.budgets = b
  BY DEF Abstract
<1>2. Abstract(B, n) = [pages |-> p, older |-> o, budgets |-> n]
  BY DEF Abstract
<1>3. [l \in DOMAIN c.budgets \ {layer} |-> c.budgets[l]] = n
  BY <1>1
<1> HIDE DEF c, p, o, n
<1>4. [c EXCEPT !.budgets = n] = [pages |-> p, older |-> o, budgets |-> n]
  BY <1>1
<1>5. Lru!Unbudgeted(c, layer)
        = [c EXCEPT !.budgets = [l \in DOMAIN c.budgets \ {layer} |-> c.budgets[l]]]
  BY Zenon DEF Lru!Unbudgeted
<1>6. Lru!Unbudgeted(c, layer) = Abstract(B, n)
  BY <1>2, <1>3, <1>4, <1>5
<1> QED
  BY <1>6, Zenon DEF c, n

(* The steps.                                                              *)

(* What the abstract cache is, between calls and during one.               *)
LEMMA Shown ==
  /\ call = Idle => AbstractCache = Abstract(entries, layer_budgets)
  /\ call # Idle => AbstractCache = Abstract(before.entries, before.layer_budgets)
  /\ call' = Idle => AbstractCache' = Abstract(entries', layer_budgets')
  /\ call' # Idle => AbstractCache' = Abstract(before'.entries, before'.layer_budgets)
BY DEF AbstractCache, Found, Snapshot, Abstract

(* Stamping a page makes it the youngest.                                  *)
LEMMA StampsAs ==
  ASSUME TypeOK, TouchesDistinct, NEW key, Stamps(key)
  PROVE  StampedAs(entries, key, entries')
<1>1. TickedClock \in Nat
  BY TickFacts, HotCacheAssumption
<1>2. /\ DOMAIN entries' = DOMAIN entries \cup {key}
      /\ entries'[key].last_touch = TickedClock
      /\ \A k \in DOMAIN entries \ {key} :
           entries'[k].last_touch = TickedEntries[k].last_touch
  BY DEF Stamps
<1>3. \A k \in DOMAIN entries : TickedEntries[k].last_touch \in 1 .. TickedClock - 1
  BY TickOrder
<1>4. \A j, k \in DOMAIN entries \ {key} :
        entries[j].last_touch < entries[k].last_touch
          <=> entries'[j].last_touch < entries'[k].last_touch
  BY <1>2, TickOrder
<1>5. \A j \in DOMAIN entries \ {key} :
        /\ entries'[j].last_touch < entries'[key].last_touch
        /\ entries'[j].last_touch \in Nat
  BY <1>1, <1>2, <1>3
<1> QED
  BY <1>1, <1>2, <1>4, <1>5 DEF StampedAs

(* The end of an insertion displaces the pages that the abstract one does. *)
LEMMA CommitInserts ==
  ASSUME Inv, TouchesDistinct, Tracks, InsertCommit
  PROVE  Lru!Insert(call.key, IncomingPage)
<1> DEFINE B == before.entries
           b == before.layer_budgets
           key == call.key
           D == DOMAIN entries
           rest == Rest(B, b, key, call.bytes)
           M == Mine(B, b, key, call.bytes)
           V == Lru!Victims(Abstract(B, b), key, IncomingPage)
<1>1. Inserting /\ call.pc = "insert_global" /\ call # Idle /\ call' = Idle
  BY DEF InsertCommit, Inserting, Idle
<1>2. /\ IsPages(B) /\ \A k \in D : k \in DOMAIN B /\ entries[k] = B[k]
      /\ layer_budgets = b /\ key \notin D
  BY <1>1, InsertFrame
<1>3. IncomingPage.bytes = call.bytes
  BY DEF IncomingPage
<1>4. rest \ Needed(B, rest, MaxBytes - call.bytes) = D
  <2> DEFINE room == MaxBytes - call.bytes
  <2>1. /\ D \subseteq rest /\ rest \in SUBSET DOMAIN B
        /\ rest \ D \subseteq Needed(B, rest, room) /\ Before(B, rest \ D, D)
        /\ room \in Nat
        /\ GlobalOver(call.bytes) <=> Used(B, D) > room
    BY <1>1, GlobalLoop
  <2>2. ~GlobalOver(call.bytes) \/ D = {}
    BY DEF InsertCommit
  <2> HIDE DEF B, D, rest, room
  <2>3. Used(B, D) \in Nat
    BY <1>2, <2>1, PagesFinite
  <2>4. Needed(B, rest, room) = rest \ D
    BY <1>2, <2>1, <2>2, <2>3, LoopLeaves
  <2> QED
    BY <2>1, <2>4 DEF room
<1>5. Others(B, key) \ V = D
  <2>1. V = M \cup Needed(B, rest, MaxBytes - call.bytes)
    BY <1>2, <1>3, VictimsAbstract
  <2>2. rest = Others(B, key) \ M
    BY DEF Rest
  <2> HIDE DEF rest, M, V, B, D
  <2> QED
    BY <1>4, <2>1, <2>2
<1>6. Part(B, D) = entries
  <2>1. entries = [k \in D |-> entries[k]]
    BY DEF Inv, TypeOK
  <2> QED
    BY <1>2, <2>1 DEF Part
<1>7. StampedAs(Part(B, D), key, entries')
  <2>1. StampedAs(entries, key, entries')
    BY InsertCommitStamps, StampsAs DEF Inv
  <2> QED
    BY <1>6, <2>1
<1>8. /\ entries' = [k \in D \cup {key} |-> entries'[k]]
      /\ AbstractPage(entries'[key]) = IncomingPage
      /\ \A k \in D : entries'[k] = TickedEntries[k]
  BY <1>2 DEF InsertCommit, AbstractPage, IncomingPage
<1>9. \A k \in D : AbstractPage(entries'[k]) = AbstractPage(B[k])
  BY <1>2, <1>8, TickFacts DEF Inv
<1>10. Lru!Inserted(Abstract(B, b), key, IncomingPage) = Abstract(entries', b)
  <2> HIDE DEF B, b, D, key
  <2> QED
    BY <1>2, <1>5, <1>7, <1>8, <1>9, InsertedAbstract DEF V
<1>11. ~Lru!TooLarge(Abstract(B, b), key, IncomingPage)
  <2>1. Abstract(B, b).budgets = b
    BY DEF Abstract
  <2>2. /\ call.bytes \in Nat /\ call.bytes <= MaxBytes /\ MaxBytes \in Nat
        /\ LayerOf[key] \in DOMAIN b => call.bytes <= b[LayerOf[key]] /\ b[LayerOf[key]] \in Nat
    BY <1>1, <1>2, FrameFacts, HotCacheAssumption DEF Inv, CallFits, TypeOK
  <2> QED
    BY <1>3, <2>1, <2>2 DEF Lru!TooLarge
<1>12. layer_budgets' = b
  BY <1>2 DEF InsertCommit
<1>13. AbstractCache = Abstract(B, b) /\ AbstractCache' = Abstract(entries', b)
  BY <1>1, <1>12, Shown
<1> QED
  BY <1>10, <1>11, <1>13, Zenon DEF Lru!Insert

(* set_layer_budget returns when the layer fits, without having evicted    *)
(* more than that took.                                                    *)
LEMMA BudgetDoneBudgets ==
  ASSUME Inv, Tracks, BudgetDone
  PROVE  \E bytes \in LayerBudgets : Lru!SetLayerBudget(call.layer, bytes)
<1> DEFINE B == before.entries
           b == before.layer_budgets
           layer == call.layer
           D == DOMAIN entries
           S == BudgetPages
           R == InLayer(layer)
           room == layer_budgets[layer]
<1>1. /\ call.pc = "budget" /\ call # Idle /\ call' = Idle
      /\ entries' = entries /\ layer_budgets' = layer_budgets
      /\ ~LayerOver(layer, 0) \/ R = {}
  BY DEF BudgetDone, cache_vars, Idle
<1>2. PICK bytes \in LayerBudgets : layer_budgets = Limited(b, layer, bytes)
  BY <1>1 DEF Tracks, TracksBudget
<1>3. /\ IsPages(B) /\ \A k \in D : k \in DOMAIN B /\ entries[k] = B[k]
      /\ LayerNeeded(B, layer_budgets, DOMAIN B, layer, 0) = Needed(B, S, room)
      /\ R \subseteq S /\ S \in SUBSET DOMAIN B
      /\ S \ R = DOMAIN B \ D
      /\ S \ R \subseteq Needed(B, S, room)
      /\ Before(B, S \ R, R) /\ room \in Nat
      /\ LayerOver(layer, 0) <=> Used(B, R) > room
  BY <1>1, BudgetLoop
<1>4. Needed(B, S, room) = DOMAIN B \ D
  <2> HIDE DEF S, R, B, room
  <2>1. Used(B, R) \in Nat
    BY <1>3, PagesFinite
  <2>2. Used(B, R) <= room \/ R = {}
    BY <1>1, <1>3, <2>1
  <2> QED
    BY <1>3, <2>2, LoopLeaves
<1>5. DOMAIN B \ LayerNeeded(B, Limited(b, layer, bytes), DOMAIN B, layer, 0) = D
  <2> HIDE DEF S, room
  <2> QED
    BY <1>2, <1>3, <1>4
<1>6. Part(B, D) = entries
  <2>1. entries = [k \in D |-> entries[k]]
    BY DEF Inv, TypeOK
  <2> QED
    BY <1>3, <2>1 DEF Part
<1>7. Lru!Budgeted(Abstract(B, b), layer, bytes) = Abstract(entries, layer_budgets)
  <2>1. Lru!Budgeted(Abstract(B, b), layer, bytes) =
          Abstract(Part(B, DOMAIN B \ LayerNeeded(B, Limited(b, layer, bytes), DOMAIN B, layer, 0)),
                   Limited(b, layer, bytes))
    BY <1>3, BudgetedAbstract
  <2> QED
    BY <1>2, <1>5, <1>6, <2>1
<1>8. AbstractCache = Abstract(B, b) /\ AbstractCache' = Abstract(entries, layer_budgets)
  BY <1>1, Shown
<1> QED
  BY <1>7, <1>8, Zenon DEF Lru!SetLayerBudget

(* The calls that are single steps.                                        *)
LEMMA GetTouches ==
  ASSUME Inv, TouchesDistinct, NEW key \in PageKeys, Get(key)
  PROVE  Lru!Touch(key)
<1>1. /\ call = Idle /\ call' = Idle /\ layer_budgets' = layer_budgets
      /\ key \in DOMAIN entries
      /\ entries' = [TickedEntries EXCEPT ![key].last_touch = TickedClock]
  BY DEF Get
<1>2. StampedAs(entries, key, entries')
  BY GetStamps, StampsAs DEF Inv
<1>3. \A k \in DOMAIN entries :
        /\ TickedEntries[k] \in HotPage
        /\ AbstractPage(TickedEntries[k]) = AbstractPage(entries[k])
  BY TickFacts DEF Inv
<1>4. DOMAIN TickedEntries = DOMAIN entries
  BY TickFacts DEF Inv
<1>5. \A k \in DOMAIN entries : AbstractPage(entries'[k]) = AbstractPage(entries[k])
  <2>1. ASSUME NEW k \in DOMAIN entries, k # key
        PROVE  AbstractPage(entries'[k]) = AbstractPage(entries[k])
    BY <1>1, <1>3, <1>4, <2>1
  <2>2. entries'[key] = [TickedEntries[key] EXCEPT !.last_touch = TickedClock]
    BY <1>1, <1>4
  <2>3. AbstractPage(entries'[key]) = AbstractPage(TickedEntries[key])
    BY <1>1, <1>3, <2>2 DEF AbstractPage, HotPage
  <2> QED
    BY <1>1, <1>3, <2>1, <2>3
<1>6. Lru!Touched(Abstract(entries, layer_budgets), key) = Abstract(entries', layer_budgets)
  <2>1. key \in DOMAIN entries
    BY <1>1
  <2> QED
    BY <2>1, <1>2, <1>5, TouchedAbstract, Zenon
<1>7. /\ AbstractCache = Abstract(entries, layer_budgets)
      /\ AbstractCache' = Abstract(entries', layer_budgets)
  BY <1>1, Shown
<1>8. key \in Lru!Resident(AbstractCache)
  BY <1>1, <1>7, ResidentAbstract
<1> QED
  BY <1>6, <1>7, <1>8, Zenon DEF Lru!Touch

LEMMA RemoveRemoves ==
  ASSUME Inv, NEW key \in PageKeys, Remove(key)
  PROVE  Lru!Remove(key)
<1>1. /\ call = Idle /\ call' = Idle /\ layer_budgets' = layer_budgets
      /\ key \in DOMAIN entries
      /\ entries' = Part(entries, DOMAIN entries \ {key})
  BY DEF Remove, RemovePage, Part
<1>2. /\ AbstractCache = Abstract(entries, layer_budgets)
      /\ AbstractCache' = Abstract(entries', layer_budgets)
  BY <1>1, Shown
<1>3. Lru!Without(AbstractCache, {key}) = AbstractCache'
  BY <1>1, <1>2, WithoutAbstract
<1>4. key \in Lru!Resident(AbstractCache)
  BY <1>1, <1>2, ResidentAbstract
<1> QED
  BY <1>3, <1>4, Zenon DEF Lru!Remove

LEMMA ClearClears ==
  ASSUME Clear
  PROVE  Lru!Clear
<1>1. /\ call = Idle /\ call' = Idle /\ layer_budgets' = layer_budgets
      /\ entries' = Part(entries, {})
  BY DEF Clear, Part
<1>2. /\ AbstractCache = Abstract(entries, layer_budgets)
      /\ AbstractCache' = Abstract(entries', layer_budgets)
  BY <1>1, Shown
<1>3. Lru!Resident(AbstractCache) = DOMAIN entries
  BY <1>2, ResidentAbstract
<1>4. Lru!Without(AbstractCache, DOMAIN entries) = AbstractCache'
  <2>1. DOMAIN entries \ DOMAIN entries = {}
    OBVIOUS
  <2>2. Lru!Without(AbstractCache, DOMAIN entries)
          = Abstract(Part(entries, DOMAIN entries \ DOMAIN entries), layer_budgets)
    BY <1>2, WithoutAbstract
  <2> QED
    BY <1>1, <1>2, <2>1, <2>2
<1> QED
  BY <1>3, <1>4, Zenon DEF Lru!Clear, Lru!Cleared

LEMMA ClearLayerBudgetUnbudgets ==
  ASSUME NEW layer, ClearLayerBudget(layer)
  PROVE  Lru!ClearLayerBudget(layer)
<1>1. /\ call = Idle /\ call' = Idle /\ entries' = entries
      /\ layer_budgets' = [l \in DOMAIN layer_budgets \ {layer} |-> layer_budgets[l]]
  BY DEF ClearLayerBudget
<1>2. /\ AbstractCache = Abstract(entries, layer_budgets)
      /\ AbstractCache' = Abstract(entries, layer_budgets')
  BY <1>1, Shown
<1> QED
  BY <1>1, <1>2, UnbudgetedAbstract, Zenon DEF Lru!ClearLayerBudget

(* Every step is a step of the abstract cache or leaves it as it is.       *)
LEMMA StepImplements ==
  Inv /\ TouchesDistinct /\ Tracks /\ [Next]_vars => [Lru!Next]_AbstractCache
<1> SUFFICES ASSUME Inv, TouchesDistinct, Tracks, [Next]_vars
             PROVE  Lru!Next \/ AbstractCache' = AbstractCache
  BY Zenon
<1>1. ASSUME call # Idle, call' # Idle, before' = before
      PROVE  AbstractCache' = AbstractCache
  BY <1>1, Shown
<1>2. ASSUME NEW key \in PageKeys, NEW tokens \in TokenCounts, NEW head_dim \in HeadDims,
             NEW rows \in Rows, NEW kv \in Contents,
             InsertBegin(key, tokens, head_dim, rows, kv)
      PROVE  AbstractCache' = AbstractCache
  <2>1. /\ call = Idle /\ call'.pc = "insert_layer"
        /\ before'.entries = entries /\ before'.layer_budgets = layer_budgets
    BY <1>2 DEF InsertBegin, Snapshot
  <2>2. call' # Idle
    BY <2>1 DEF Idle
  <2> QED
    BY <2>1, <2>2, Shown
<1>3. CASE InsertEvictLayer \/ InsertEvictGlobal \/ BudgetEvict
  <2>1. PICK victim \in DOMAIN entries : Evict(victim)
    BY <1>3 DEF InsertEvictLayer, InsertEvictGlobal, BudgetEvict, Oldest, InLayer
  <2>2. call.pc = "budget" \/ Inserting
    BY <1>3 DEF InsertEvictLayer, InsertEvictGlobal, BudgetEvict, Inserting
  <2>3. call # Idle /\ call'.pc = call.pc /\ before' = before
    BY <2>1, <2>2, EvictFrame DEF Inv
  <2>4. call' # Idle
    BY <2>2, <2>3 DEF Idle, Inserting
  <2> QED
    BY <1>1, <2>3, <2>4
<1>4. CASE InsertLayerDone
  <2>1. /\ call.pc = "insert_layer" /\ call'.pc = "insert_global" /\ before' = before
    BY <1>4, FrameFacts DEF InsertLayerDone, InsertCalls, Inserting, Inv
  <2>2. call # Idle /\ call' # Idle
    BY <2>1 DEF Idle
  <2> QED
    BY <1>1, <2>1, <2>2
<1>5. CASE InsertCommit
  <2>1. Inserting
    BY <1>5 DEF InsertCommit, Inserting
  <2>2. call.key \in PageKeys /\ IncomingPage \in AbstractPages
    BY <2>1, FrameFacts, InsertFrame DEF Inv
  <2>3. Lru!Insert(call.key, IncomingPage)
    BY <1>5, CommitInserts
  <2> QED
    BY <2>2, <2>3, Zenon DEF Lru!Next
<1>6. ASSUME NEW layer \in Layers, NEW bytes \in LayerBudgets, SetLayerBudget(layer, bytes)
      PROVE  AbstractCache' = AbstractCache
  <2>1. /\ call = Idle /\ call'.pc = "budget"
        /\ before'.entries = entries /\ before'.layer_budgets = layer_budgets
    BY <1>6 DEF SetLayerBudget, Snapshot
  <2>2. call' # Idle
    BY <2>1 DEF Idle
  <2> QED
    BY <2>1, <2>2, Shown
<1>7. CASE BudgetDone
  <2>1. call.layer \in Layers
    BY <1>7, FrameFacts DEF BudgetDone, Inv
  <2>2. PICK bytes \in LayerBudgets : Lru!SetLayerBudget(call.layer, bytes)
    BY <1>7, BudgetDoneBudgets
  <2>3. call.layer \in Lru!Layers
    BY <2>1 DEF Layers, Lru!Layers
  <2> QED
    BY <2>2, <2>3, Zenon DEF Lru!Next
<1>8. ASSUME NEW layer \in Layers, ClearLayerBudget(layer) PROVE Lru!Next
  <2>1. layer \in Lru!Layers
    BY DEF Layers, Lru!Layers
  <2> QED
    BY <1>8, <2>1, ClearLayerBudgetUnbudgets, Zenon DEF Lru!Next
<1>9. ASSUME NEW key \in PageKeys, Remove(key) \/ Get(key) PROVE Lru!Next
  BY <1>9, RemoveRemoves, GetTouches, Zenon DEF Lru!Next
<1>10. CASE Clear
  BY <1>10, ClearClears, Zenon DEF Lru!Next
<1>11. CASE \/ UNCHANGED vars
            \/ \E key \in PageKeys, tokens \in TokenCounts, head_dim \in HeadDims,
                  rows \in Rows : InsertRefused(key, tokens, head_dim, rows)
  <2>1. /\ entries' = entries /\ layer_budgets' = layer_budgets /\ call' = call
        /\ before' = before
    BY <1>11 DEF InsertRefused, vars
  <2> QED
    BY <2>1, Shown
<1> QED
  BY <1>2, <1>3, <1>4, <1>5, <1>6, <1>7, <1>8, <1>9, <1>10, <1>11 DEF Next, CallStep

LEMMA InitImplements == Init => Lru!Init
<1> SUFFICES ASSUME Init PROVE AbstractCache = Lru!EmptyCache
  BY Zenon DEF Lru!Init
<1>1. AbstractCache = Abstract([k \in {} |-> k], [l \in {} |-> l])
  BY Shown DEF Init
<1>2. [k \in {} |-> AbstractPage([j \in {} |-> j][k])] = [k \in {} |-> k]
  OBVIOUS
<1>3. Abstract([k \in {} |-> k], [l \in {} |-> l])
        = [pages |-> [k \in {} |-> k], older |-> {}, budgets |-> [l \in {} |-> l]]
  BY <1>2 DEF Abstract
<1> QED
  BY <1>1, <1>3 DEF Lru!EmptyCache

(* HotCache implements the abstract cache: its eviction loops, counters    *)
(* and clock displace exactly the pages that recency and the budgets       *)
(* demand, whatever the budgets, the sizes and the width of the clock.     *)
THEOREM ImplementsLruCache == Spec => ImplementsLru
<1>1. Init => Tracks
  BY DEF Init, Tracks
<1>2. Inv /\ TouchesDistinct /\ Tracks /\ [Next]_vars => Tracks'
  BY TracksNext
<1>3. Inv /\ TouchesDistinct /\ Tracks /\ [Next]_vars => [Lru!Next]_AbstractCache
  BY StepImplements
<1>4. Init => Lru!Init
  BY InitImplements
<1> QED
  BY <1>1, <1>2, <1>3, <1>4, Invariant, TouchesAreDistinct, PTL
  DEF Spec, ImplementsLru, Lru!Spec

=============================================================================
