\* A client that puts in pages of another row width by hot_cache_mut().
CONSTANTS
  s1 = s1
  s2 = s2
  Streams = {s1}
  StreamLayer <- OneStream
  PageTokens = 2
  HeadDim = 1
  MaxBytes = 3
  AdmitPages = TRUE
  WipeScratch = TRUE
  UsizeMax = 100
  Contexts = {3, 4}
  Policies <- AnyPolicy
  PageSizes = {1, 2}
  RawHeadDims = {1, 2}
  LayerBudgets = {1, 2}
  MaxRequests = 3
SPECIFICATION Spec
INVARIANTS
  HotPageShapeChecked
CHECK_DEADLOCK FALSE
