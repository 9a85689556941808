------------------------- MODULE HotCacheRefinement -------------------------
(***************************************************************************)
(* HotCache implements LruCache.  A call in progress maps to the cache it  *)
(* found (`before`) and takes effect with its last step; a page is older   *)
(* than another when its last touch is.                                    *)
(***************************************************************************)
EXTENDS HotCache

Found == IF call = Idle THEN Snapshot ELSE before

AbstractPage(page) == [tokens |-> page.tokens, kv |-> page.kv, bytes |-> page.bytes]

(* The abstract cache that the entries and budgets of a HotCache stand for. *)
Abstract(pages, budgets) ==
  [pages   |-> [k \in DOMAIN pages |-> AbstractPage(pages[k])],
   older   |-> {jk \in (DOMAIN pages) \X (DOMAIN pages) :
                  pages[jk[1]].last_touch < pages[jk[2]].last_touch},
   budgets |-> budgets]

AbstractCache == Abstract(Found.entries, Found.layer_budgets)

AbstractPages ==
  {[tokens |-> t, kv |-> c, bytes |-> t * d] :
     t \in TokenCounts \ {0}, c \in Contents, d \in HeadDims \ {0}}

Lru == INSTANCE LruCache
         WITH cache <- AbstractCache, PageValues <- AbstractPages,
              BudgetValues <- LayerBudgets

(* HotCache implements the LRU cache with budgets that its callers rely    *)
(* on: the clock, the loops and the counters displace exactly the pages    *)
(* that recency and the budgets demand, an insert that is refused changes  *)
(* nothing, and one that replaces a page keeps nothing of the old one.     *)
ImplementsLru == Lru!Spec

=============================================================================
