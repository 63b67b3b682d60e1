SPECIFICATION Spec
CONSTANTS
  d1 = d1
  d2 = d2
  a1 = a1
  a2 = a2
  a3 = a3
  b1 = b1
  b2 = b2
  Devices = {d1, d2}
  Blocks = {a1, a2, a3, b1, b2}
  Home <- MCHome
  MaxOps = 5
SYMMETRY BlockSymmetry
INVARIANTS
  TensorsHoldTheirValues
  AnswersAreFinal
  StagingOutlivesCopies
  BuffersAreWhereTheySay
\* The number of commands is bounded.
CHECK_DEADLOCK FALSE
