\* Two streams in two layers, pages of two tokens, contexts that end inside
\* a page and at its end; a cache of three token rows.
CONSTANTS
  s1 = s1
  s2 = s2
  Streams = {s1, s2}
  StreamLayer <- TwoLayers
  PageTokens = 2
  HeadDim = 1
  MaxBytes = 3
  AdmitPages = TRUE
  WipeScratch = TRUE
  UsizeMax = 100
  Contexts = {3, 4}
  Policies <- AnyPolicy
  PageSizes = {1, 2}
  RawHeadDims = {1}
  LayerBudgets = {1, 2}
  MaxRequests = 3
SPECIFICATION FairSpec
INVARIANTS
  OutputExact
  CountersTrue
  FailsForCause
PROPERTIES
  AttendReturns
CHECK_DEADLOCK FALSE
