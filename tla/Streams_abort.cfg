\* The same, with a smaller number of calls.
SPECIFICATION Spec
CONSTANTS
  Users = {u1}
  Hal = Hal
  s1 = s1
  s2 = s2
  s3 = s3
  v2 = v2
  m2 = m2
  Streams = {s1, s2, s3}
  Controls = {v2, m2}
  Scope <- Directions
  Bundle <- Bundles
  Mixing = TRUE
  CounterSize = 4
  MaxWidth = 2
  MaxCalls = 2
  MaxMoves = 1
  MaxAborts = 1
CHECK_DEADLOCK FALSE
INVARIANTS WillDoMatchesStreams
