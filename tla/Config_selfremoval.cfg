\* A function removes the device it is a change of; finite.
SPECIFICATION Spec
CONSTANTS
  Users = {u1, u2}
  Hal = Hal
  d1 = d1
  d2 = d2
  c1 = c1
  c2 = c2
  c3 = c3
  c4 = c4
  Devices = {d1}
  Changes = {c1}
  Nested = {}
  NoChange = NoChange
  Target <- RemovingTarget
  Body <- RemovingBody
  MaxMoves = 2
CHECK_DEADLOCK FALSE
INVARIANT RunsOnce
