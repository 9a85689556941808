\* Pages of up to two rows and two columns in every order, of two keys, with failed calls among
\* them, and adapters that break the contract in every way.
CONSTANTS
  Keys = {zero, q}
  ZeroKey = zero
  MaxToken = 2
  HeadDims = {0, 1, 2}
  Adapters = {"overwrites", "accumulates", "skips_zeroes", "near", "far", "non_finite"}
SPECIFICATION Spec
INVARIANTS
  SlotsHoldLastPages
  VerdictIsTrue
  GateHolds
