SPECIFICATION WidthsSpec
CONSTANTS
  Var = {x, y}
  W = 3
  A = 8
  Amounts <- TwoOutputs
  MaxConfirmed = 1
  R = 4
  MaxSize = 100
SYMMETRY Symmetry
INVARIANTS
  ReceivedIsSent
  SameCoins
  CoinbaseForAll
  KernelSeesTheWire
  OneForm
  NothingLost
  AllocatesLess
CHECK_DEADLOCK FALSE
