--------------------------- MODULE MCPureFunctions ---------------------------
EXTENDS PureFunctions

(* Bounds that are equal, crossed, zero and at usize::MAX; cache estimates *)
(* and budgets below, at and above the bytes of the page sizes.            *)
MCInputs ==
  [head_dim : {0, 1, 2}, min_page_tokens : {0, 1, 3}, max_page_tokens : {1, 7, UsizeMax},
   l2_bytes : {0, 33, 200}, l3_bytes : {0, 600}, max_scratch_bytes : {0, 8, 24, 50},
   context_tokens : {0, 2, 6, UsizeMax}]

(* Zeroes, a page longer than the scratch, products past usize::MAX, and a *)
(* scale or a scratch length that is left to the builder.                  *)
MCBuilders ==
  [page_tokens : {0, 2}, head_dim : {0, 1, 64}, hot_cache_bytes : {UsizeMax},
   scale : {Unset, MaxScale + 1}, admit_regenerated_pages : {1},
   max_scratch_tokens : {Unset, 1, 16}, wipe_scratch_after_use : {0}]

(* The first pair turns twice as fast as the second.                       *)
MCRates == [dims \in 0 .. 4 |-> [pair \in 0 .. 4 |-> IF pair = 0 THEN 2 ELSE 1]]

(* Multiples of 5^4 in the ratio of 3 to 4, so that four turns are exact   *)
(* and some leave the range; a tail that is not turned.                    *)
MCKeyRows == [1 .. 4 -> {0, 1875, -2500}] \cup {<<2500, 1875, 625>>, <<1875>>}

MCSlopes == {<<0, 1>>, <<2>>, <<1, -1>>, << >>}

(* Contexts that end in a page and at its end, pages longer than the       *)
(* context, caches of no page up to all pages, and a width whose bytes     *)
(* usize cannot hold.                                                      *)
MCOptions ==
  [context_tokens : {0, 1, 5, 6, 7, 9}, head_dim : {0, 1, 64}, page_tokens : {1, 2, 3, 4, 12},
   hot_cache_bytes : {0, 8, 16, 24, 32, 40, 56, UsizeMax}, recent_tokens : {0, 2, 4, 5, UsizeMax},
   runs : {0, 1, 3}, admit : BOOLEAN]

=============================================================================
