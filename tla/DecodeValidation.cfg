\* Up to four samples, by two decode steps, two layers out of order or two heads.
\* The long contexts of the grouped topology overflow the telemetry; rows of 70
\* dimensions have indices that are no exact f32.
CONSTANTS
  Plans <- MCPlans
  Steps <- MCSteps
  Drifts = {0, 1, 2}
  HotBytes = {0, 1}
  ScratchBytes = 2
  RowDims = {2, 70}
  ExactMax = 64
  UsizeMax = 11
  U32Max = 7
SPECIFICATION Spec
INVARIANTS
  PassedIsWhole
  NothingLeft
CHECK_DEADLOCK FALSE
