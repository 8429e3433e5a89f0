\* A user adds and removes two output streams, one with its controls, and an
\* input stream, while the device is published and unpublished; one change is
\* aborted.
SPECIFICATION FairSpec
CONSTANTS
  Users = {u1}
  Hal = Hal
  s1 = s1
  s2 = s2
  s3 = s3
  v2 = v2
  m2 = m2
  Streams = {s1, s2, s3}
  Controls = {v2, m2}
  Scope <- Directions
  Bundle <- Bundles
  Mixing = TRUE
  CounterSize = 4
  MaxWidth = 2
  MaxCalls = 4
  MaxMoves = 2
  MaxAborts = 1
CHECK_DEADLOCK FALSE
INVARIANTS OwnedFollowsListed CountersMatch PublishedStreamWorks ControlsAttached ChannelsDisjoint
PROPERTIES AddedIsPublished
