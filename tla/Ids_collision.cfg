\* An object registers itself with an identifier of its own.
SPECIFICATION Spec
CONSTANTS
  BitsPerChunk = 4
  HintMaximumID = 6
  MaxID = 31
  CountModulus = 256
  ExplicitIDs = {3}
  Permanent = {}
  MaxObjects = 3
PROPERTY NewIdIsUnique
