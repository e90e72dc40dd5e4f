SPECIFICATION NodesSpec
CONSTANTS
  W = 4
  MaxHeight = 4
  Time = {0, 1, 2, 3, 5}
  MedianSpan = 3
  MaxInputs = 3
INVARIANTS
  AcceptedAgain
  OnePlace
  VerdictByHash
  VerdictIsTheKernels
CHECK_DEADLOCK FALSE
