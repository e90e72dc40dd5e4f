SPECIFICATION Spec
CONSTANTS
  W = 3
  MaxHeight = 3
  Time = {0, 1, 2, 3, 4}
  MedianSpan = 3
INVARIANT
  Progressive
