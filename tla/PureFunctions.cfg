\* Every float of 4 exponent and 6 mantissa bits, rounded to a half of 2 and 3;
\* every accepted topology of up to twelve query heads; page sizes that come to
\* the end of a usize of ten bits; configurations whose pages of two tokens fit
\* that usize with one dimension and overflow it with 64, as a scratch of
\* sixteen tokens does, and texts changed by up to two edits; key rows of two
\* pairs that turn at two rates, up to four times; row lengths on both sides of
\* eight and sixteen, ranges of up to four rows, matrices of up to four rows of
\* up to three heads; benchmarks with caches of no page up to all.
CONSTANTS
  WideMant = 6
  WideExpMax = 15
  WideBias = 7
  HalfMant = 3
  HalfExpMax = 3
  HalfBias = 1
  Dropped = 3
  MaxHeads = 12
  UsizeBits = 10
  Inputs <- MCInputs
  Unset = Unset
  VersionMax = 15
  MaxScale = 5
  Builders <- MCBuilders
  EditValues = {1, 1024}
  MaxEdits = 2
  MaxKey = 2600
  ExactMax = 4
  MaxDims = 4
  Rates <- MCRates
  Cosine = 3
  Sine = 4
  Radius = 5
  KeyRows <- MCKeyRows
  MaxPosition = 2
  Slopes <- MCSlopes
  MaxRow = 20
  MaxTokens = 4
  MaxWidth = 3
  FileBytes = {0, 12, 22, 24, 36}
  Options <- MCOptions
  MaxSamples = 4
  Times = {1, 2, 3}
SPECIFICATION Spec
INVARIANTS
  RoundedToNearestEven
  SelectionIsBest
  MappingsSound
  DecodingIsFaithful
  PositionsEncoded
  EachElementOnce
  BenchmarksAreTrue
CHECK_DEADLOCK FALSE
