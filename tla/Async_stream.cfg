\* A parameter of a stream; finite.
SPECIFICATION FairSpec
CONSTANTS
  Users = {u1, u2}
  Hal = Hal
  Values = {1, 2, 3}
  Valid = {1, 2}
  OfStream = TRUE
  NoThread = NoThread
  MaxCalls = 3
CHECK_DEADLOCK FALSE
PROPERTY EveryFunctionEnds
