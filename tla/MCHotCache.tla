----------------------------- MODULE MCHotCache -----------------------------
EXTENDS HotCacheRefinement

CONSTANTS a1, a2, b1

MCLayerOf == [k \in {a1, a2, b1} |-> IF k = b1 THEN 2 ELSE 1]
=============================================================================
