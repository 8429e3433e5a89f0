\* Two users move two devices and request changes, two of them from a
\* function; finite.
SPECIFICATION FairSpec
CONSTANTS
  Users = {u1, u2}
  Hal = Hal
  d1 = d1
  d2 = d2
  c1 = c1
  c2 = c2
  c3 = c3
  c4 = c4
  Devices = {d1, d2}
  Changes = {c1, c2, c3, c4}
  Nested = {c3, c4}
  NoChange = NoChange
  Target <- NestedTarget
  Body <- NestedBody
  MaxMoves = 3
CHECK_DEADLOCK FALSE
INVARIANTS OneFate InOrder PendingIsAwaited
PROPERTIES RunsOnlyWhenSafe EveryChangeEnds
