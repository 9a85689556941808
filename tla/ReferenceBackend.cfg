\* Three tokens, one id and one position of which do not fit f32.
CONSTANTS
  TokenIds = {a, big}
  MaxPosition = 3
  MaxRecords = 3
  Layers = 1
  KvHeads = 2
  InexactIds = {big}
  MaxExactPosition = 2
  BackendDims = {2, 4}
  HeadDim = 4
  RopeDims = 4
SPECIFICATION BackendSpec
INVARIANTS
  AllOrNothing
  PagesAgree
