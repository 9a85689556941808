\* Bodies of up to three bytes and a brace, in chunks of up to three bytes; see
\* IntactIsDecoded.
CONSTANTS
  Radix = 2
  BodyBytes = {"cr", "lf", "1", "lead", "tail"}
  MaxBody = 3
  MaxDigits = 2
SPECIFICATION HttpSpec
INVARIANT
  IntactIsDecoded
CHECK_DEADLOCK FALSE
