\* Chunks of 4 bits, a hint of 6: objects fill more than one chunk, the
\* allocator wraps around, and the maximum is raised.
SPECIFICATION Spec
CONSTANTS
  BitsPerChunk = 4
  HintMaximumID = 6
  MaxID = 31
  CountModulus = 256
  ExplicitIDs = {1}
  Permanent = {1}
  MaxObjects = 6
INVARIANTS NoLeak
PROPERTIES NewIdIsUnique
