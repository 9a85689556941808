\* Three keys in two layers, pages of 1 and 2 units with two contents against a
\* global budget of 3; the clock is renormalised every few operations.  UsizeMax
\* is so tight that the preflight refuses some inserts that eviction would have
\* made room for.
CONSTANTS
  a1 = a1
  a2 = a2
  b1 = b1
  PageKeys = {a1, a2, b1}
  LayerOf <- MCLayerOf
  TokenCounts = {0, 1, 2}
  HeadDims = {0, 1}
  Contents = {"x", "y"}
  MaxBytes = 3
  LayerBudgets = {1, 2}
  UsizeMax = 4
  ClockMax = 4
SPECIFICATION FairSpec
INVARIANTS
  TypeOK
  AccountingExact
  BudgetsHold
  CommitFits
  EvictedCountExact
  LayerIsolation
PROPERTIES
  RecencyKept
  ImplementsLru
  CallReturns
