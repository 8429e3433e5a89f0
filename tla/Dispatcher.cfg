\* Threads look up, construct and destroy, and may stop anywhere: three with
\* one identifier, or two with two.
SPECIFICATION FairSpec
CONSTANTS
  Threads = {t1, t2, t3}
  Objects = {o1, o2}
  IDs = {i1, i2}
  Owner = Owner
  NoObject = NoObject
  NoThread = NoThread
  NoID = NoID
  NoMap = NoMap
  OneID = i1
  Pair = {t1, t2}
CONSTRAINT Bound
INVARIANTS NotAccessedAfterUnregister FindsWhatIsAlive FoundIsWhatWasAsked
PROPERTIES FindNeedsNoOther RegistrationEnds
