\* Bodies of up to two bytes and a brace, whose chunks have sizes of one and two
\* digits in base two; two versions of a model; two addresses.
CONSTANTS
  Radix = 2
  BodyBytes = {"cr", "lf", "1", "lead", "tail"}
  MaxBody = 2
  MaxDigits = 2
  Fields = {"digest", "format"}
  MaxVersion = 2
  MaxAddresses = 2
SPECIFICATION Spec
INVARIANTS
  RefusedForCause
  RecordWasTrue
PROPERTIES
  ReplyIsWhole
  CallReturns
