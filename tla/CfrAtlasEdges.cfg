\* Tight machine words: the end of the last page and the bytes of an
\* admission overflow UsizeMax.  The shipped policies decide, and the client
\* puts in rows of another width.
CONSTANTS
  s1 = s1
  s2 = s2
  Streams = {s1}
  StreamLayer <- OneStream
  PageTokens = 2
  HeadDim = 1
  MaxBytes = 3
  AdmitPages = TRUE
  WipeScratch = TRUE
  UsizeMax = 3
  Contexts = {2, 3}
  Policies <- ShippedPolicies
  PageSizes = {1, 2}
  RawHeadDims = {1, 2}
  LayerBudgets = {1, 2}
  MaxRequests = 3
SPECIFICATION Spec
INVARIANTS
  CountersTrue
  ScratchWiped
CHECK_DEADLOCK FALSE
