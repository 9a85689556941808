\* Three tokens in pages of one or two rows: three logits, a negative and a
\* positive value; the fourth overflows the count.
CONSTANTS
  Logits = {0, 1, 3}
  Values <- MCValues
  LogitSpan = 3
  PageRows = 2
  UsizeMax = 3
SPECIFICATION Spec
INVARIANTS
  FoldIsSoftmax
PROPERTIES
  OutputIsSoftmax
