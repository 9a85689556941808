------------------------------ MODULE LruCache ------------------------------
(***************************************************************************)
(* What the hot-page cache of CFR-Atlas promises its callers: a map of     *)
(* resident pages, the order of their last use (a relation: the pairs of   *)
(* which the first was last used before the second), and byte budgets.     *)
(* Every operation is one atomic step and the pages an insertion displaces *)
(* are given by a definition, not by a loop.                               *)
(*                                                                         *)
(* The operators work on a cache VALUE, a record                           *)
(*     [pages |-> .., older |-> .., budgets |-> ..],                       *)
(* so that a composition (CfrAtlas) can keep such a value as a part of its *)
(* own state, and HotCacheRefinement can show that the clock-and-loop      *)
(* implementation of HotCache computes the same values.                    *)
(***************************************************************************)
EXTENDS Integers, FiniteSets, FiniteSetsExt

CONSTANTS
  PageKeys,      (* the page keys a caller names                           *)
  LayerOf,       (* LayerOf[k] is the layer that page key k belongs to     *)
  PageValues,    (* the pages a caller inserts: records with a bytes field *)
  MaxBytes,      (* the global byte budget                                 *)
  BudgetValues   (* the per-layer byte budgets a caller sets               *)

VARIABLE cache

Layers == {LayerOf[k] : k \in PageKeys}

Resident(c) == DOMAIN c.pages

(* Bytes of the resident pages in S.                                       *)
BytesOf(c, S) == MapThenSumSet(LAMBDA k : c.pages[k].bytes, S)

InLayer(c, layer) == {k \in Resident(c) : LayerOf[k] = layer}

UsedBytes(c) == BytesOf(c, Resident(c))

LayerUsed(c, layer) == BytesOf(c, InLayer(c, layer))

(* j was used at least as recently as k.                                   *)
AtLeastAsRecent(c, j, k) == j = k \/ <<k, j>> \in c.older

(* The least recently used pages of S that must go before the rest of S    *)
(* fits into room bytes: those whose younger siblings in S, with           *)
(* themselves, are too many.                                               *)
Displaced(c, S, room) ==
  {v \in S : BytesOf(c, {k \in S : AtLeastAsRecent(c, k, v)}) > room}

(* What is left of an order when only the pages of S stay; and when key is *)
(* used among them.                                                        *)
Among(older, S) == older \cap (S \X S)
UsedLast(older, S, key) == Among(older, S \ {key}) \cup (S \ {key}) \X {key}

Without(c, S) ==
  LET kept == Resident(c) \ S
  IN  [pages   |-> [k \in kept |-> c.pages[k]],
       older   |-> Among(c.older, kept),
       budgets |-> c.budgets]

(* The bytes of layer that an incoming page leaves to its siblings; a      *)
(* layer without a budget is only held by the global one.                  *)
LayerDisplaced(c, layer, incoming) ==
  IF layer \in DOMAIN c.budgets
    THEN Displaced(c, InLayer(c, layer), c.budgets[layer] - incoming)
    ELSE {}

TooLarge(c, key, page) ==
  \/ page.bytes > MaxBytes
  \/ /\ LayerOf[key] \in DOMAIN c.budgets
     /\ page.bytes > c.budgets[LayerOf[key]]

(* The pages other than the replaced one that an insertion displaces: the  *)
(* layer's own first, then whatever the global budget still demands.       *)
Victims(c, key, page) ==
  LET others == Without(c, {key})
      mine   == LayerDisplaced(others, LayerOf[key], page.bytes)
      rest   == Without(others, mine)
  IN  mine \cup Displaced(rest, Resident(rest), MaxBytes - page.bytes)

Inserted(c, key, page) ==
  LET kept == Without(c, Victims(c, key, page) \cup {key})
  IN  [pages   |-> [k \in Resident(kept) \cup {key} |->
                      IF k = key THEN page ELSE kept.pages[k]],
       older   |-> UsedLast(kept.older, Resident(kept), key),
       budgets |-> c.budgets]

Touched(c, key) == [c EXCEPT !.older = UsedLast(@, Resident(c), key)]

Cleared(c) == Without(c, Resident(c))

Budgeted(c, layer, bytes) ==
  LET limited == [c EXCEPT !.budgets = [l \in DOMAIN @ \cup {layer} |->
                                          IF l = layer THEN bytes ELSE @[l]]]
  IN  Without(limited, LayerDisplaced(limited, layer, 0))

Unbudgeted(c, layer) ==
  [c EXCEPT !.budgets = [l \in DOMAIN @ \ {layer} |-> @[l]]]

EmptyCache ==
  [pages |-> [k \in {} |-> k], older |-> {}, budgets |-> [l \in {} |-> l]]

-----------------------------------------------------------------------------
Insert(key, page) ==
  /\ ~TooLarge(cache, key, page)
  /\ cache' = Inserted(cache, key, page)

Touch(key) ==
  /\ key \in Resident(cache)
  /\ cache' = Touched(cache, key)

Remove(key) ==
  /\ key \in Resident(cache)
  /\ cache' = Without(cache, {key})

Clear == cache' = Cleared(cache)

SetLayerBudget(layer, bytes) == cache' = Budgeted(cache, layer, bytes)

ClearLayerBudget(layer) == cache' = Unbudgeted(cache, layer)

Init == cache = EmptyCache

Next ==
  \/ \E key \in PageKeys, page \in PageValues : Insert(key, page)
  \/ \E key \in PageKeys : Touch(key) \/ Remove(key)
  \/ \E layer \in Layers, bytes \in BudgetValues : SetLayerBudget(layer, bytes)
  \/ \E layer \in Layers : ClearLayerBudget(layer)
  \/ Clear

Spec == Init /\ [][Next]_cache

=============================================================================
