\* A parameter of a device, with a value that is not valid; finite.
SPECIFICATION FairSpec
CONSTANTS
  Users = {u1, u2}
  Hal = Hal
  Values = {1, 2, 3}
  Valid = {1, 2}
  OfStream = FALSE
  NoThread = NoThread
  MaxCalls = 4
CHECK_DEADLOCK FALSE
INVARIANTS LastAcceptedWins
PROPERTY EveryFunctionEnds
