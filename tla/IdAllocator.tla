---------------------------- MODULE IdAllocator ----------------------------
(***************************************************************************)
(* The identifiers of aspl::Dispatcher: RegisterObject and UnregisterObject*)
(* with AllocateID, FreeID, FindFreeID, IsFree and SetFree.  All of it runs*)
(* under registrationMutex_, so a call is one step.                        *)
(*                                                                         *)
(* Definitions named Bug... are faulty variants of the definition that     *)
(* follows them, kept to show that the properties can fail.                *)
(***************************************************************************)
EXTENDS Integers, Sequences, FiniteSets

CONSTANTS
  BitsPerChunk,   \* 64 in the code
  HintMaximumID,  \* hintMaximumID, 1000 by default
  MaxID,          \* the largest AudioObjectID, 2^32 - 1
  CountModulus,   \* size_t counts modulo this, 2^64
  ExplicitIDs,    \* identifiers that objects register themselves with
  Permanent,      \* those whose objects live as long as the dispatcher
  MaxObjects      \* bound: the number of objects alive at a time

Unknown == 0                       \* kAudioObjectUnknown
PlugInObject == 1                  \* kAudioObjectPlugInObject
reservedIDs == {Unknown, PlugInObject}

ASSUME AllocatorAssumption ==
  /\ {BitsPerChunk, MaxID, CountModulus, MaxObjects} \subseteq Nat \ {0}
  /\ HintMaximumID \in 0..MaxID
  /\ ExplicitIDs \subseteq 1..MaxID /\ Permanent \subseteq ExplicitIDs

VARIABLES
  allocatedBits,     \* allocatedBits_: per chunk, the bits that are set
  numAllocatedIDs,   \* numAllocatedIDs_
  lastAllocatedID,   \* lastAllocatedID_
  desiredMaximumID,  \* desiredMaximumID_
  registered,        \* the keys of registeredObjects_
  result             \* what the last RegisterObject returned

vars == <<allocatedBits, numAllocatedIDs, lastAllocatedID, desiredMaximumID,
          registered, result>>

Init ==
  /\ allocatedBits = <<>>
  /\ numAllocatedIDs = 0
  /\ lastAllocatedID = 0
  /\ desiredMaximumID = HintMaximumID
  /\ registered = {}
  /\ result = Unknown

Size == Len(allocatedBits)
Chunk(id) == id \div BitsPerChunk
Bit(id) == id % BitsPerChunk
IsSet(id) == Chunk(id) < Size /\ Bit(id) \in allocatedBits[Chunk(id) + 1]

IsFree(id) == id \notin reservedIDs /\ ~IsSet(id)

(* SetFree, which grows the bitset even when it clears a bit.              *)
Resized(id) ==
  [c \in 1 .. (IF Size > Chunk(id) THEN Size ELSE Chunk(id) + 1) |->
     IF c <= Size THEN allocatedBits[c] ELSE {}]

SetFree(id, free) ==
  allocatedBits' =
    [Resized(id) EXCEPT ![Chunk(id) + 1] =
       IF free THEN @ \ {Bit(id)} ELSE @ \union {Bit(id)}]

(* The scan of FindFreeID visits chunk number n, 0 <= n <= Size, counted   *)
(* from the chunk of startID and around the end; in the first visit it     *)
(* skips what is below startID.  A start beyond the bitset wraps around.   *)
Visits(startID, id) ==
  {n \in 0..Size :
     /\ Chunk(id) = (Chunk(startID) + n) % Size
     /\ n = 0 => id >= startID}

FirstVisit(startID, id) ==
  CHOOSE n \in Visits(startID, id) : \A m \in Visits(startID, id) : n <= m

VisitedBefore(startID, id, other) ==
  \/ FirstVisit(startID, id) < FirstVisit(startID, other)
  \/ FirstVisit(startID, id) = FirstVisit(startID, other) /\ id <= other

FirstBeyond ==
  CHOOSE id \in Size * BitsPerChunk .. Size * BitsPerChunk + 2 :
    /\ id \notin reservedIDs
    /\ \A lower \in Size * BitsPerChunk .. id - 1 : lower \in reservedIDs

BugFindFreeID(startID) ==
  LET Free == {id \in 0 .. Size * BitsPerChunk - 1 : ~IsSet(id)}
  IN  IF Free = {}
      THEN FirstBeyond
      ELSE CHOOSE id \in Free : \A other \in Free : VisitedBefore(startID, id, other)
FindFreeID(startID) ==
  LET Free == {id \in 0 .. Size * BitsPerChunk - 1 : IsFree(id)}
  IN  IF Free = {}
      THEN FirstBeyond
      ELSE CHOOSE id \in Free : \A other \in Free : VisitedBefore(startID, id, other)

nextID == lastAllocatedID + 1

(* The maximum is raised when more than half of the identifiers below it   *)
(* are in use.                                                             *)
GrownMaximum ==
  IF /\ nextID >= desiredMaximumID
     /\ numAllocatedIDs > desiredMaximumID \div 2
     /\ desiredMaximumID <= MaxID \div 2
  THEN 2 * desiredMaximumID
  ELSE desiredMaximumID

(* The identifier AllocateID returns, given the maximum it may have raised.*)
AllocatedID(maximum) ==
  IF nextID >= maximum THEN FindFreeID(0)
  ELSE IF ~IsFree(nextID) THEN FindFreeID(nextID + 1) ELSE nextID

AllocateID(id) ==
  /\ desiredMaximumID' = GrownMaximum
  /\ SetFree(id, FALSE)
  /\ numAllocatedIDs' = (numAllocatedIDs + 1) % CountModulus
  /\ lastAllocatedID' = id

BugFreeID(id) ==
  /\ SetFree(id, TRUE)
  /\ UNCHANGED <<numAllocatedIDs, lastAllocatedID, desiredMaximumID>>
FreeID(id) ==
  /\ SetFree(id, TRUE)
  /\ numAllocatedIDs' = (numAllocatedIDs - 1) % CountModulus
  /\ UNCHANGED <<lastAllocatedID, desiredMaximumID>>

(* The end of RegisterObject: an identifier in use is refused.             *)
Insert(id) ==
  /\ registered' = registered \union {id}
  /\ result' = IF id \in registered THEN Unknown ELSE id

(* RegisterObject(object): the identifier is allocated.                    *)
RegisterUnknown ==
  /\ Cardinality(registered) < MaxObjects
  /\ LET id == AllocatedID(GrownMaximum)
     IN  AllocateID(id) /\ Insert(id)

(* RegisterObject(object, id): the allocator is not told.                  *)
RegisterExplicit(id) ==
  /\ Cardinality(registered) < MaxObjects
  /\ Insert(id)
  /\ UNCHANGED <<allocatedBits, numAllocatedIDs, lastAllocatedID, desiredMaximumID>>

(* UnregisterObject(id); without effect if id is not registered.           *)
UnregisterObject(id) ==
  /\ id \in registered \ Permanent
  /\ registered' = registered \ {id}
  /\ FreeID(id)
  /\ UNCHANGED result

Next ==
  \/ RegisterUnknown
  \/ \E id \in ExplicitIDs : RegisterExplicit(id)
  \/ \E id \in registered : UnregisterObject(id)

Spec == Init /\ [][Next]_vars

-----------------------------------------------------------------------------
AllocatedIDs == {id \in 0 .. Size * BitsPerChunk - 1 : IsSet(id)}

(* "Each object has a unique numeric identifier", and a reserved one is    *)
(* never handed out: after any history of registrations an object that     *)
(* asks for an identifier gets one that nobody has.                        *)
NewIdIsUnique ==
  [][RegisterUnknown => result' \notin registered \union reservedIDs]_vars

(* Identifiers do not leak: the bits that are set are those of the living  *)
(* objects that asked for an identifier, and the counter that decides about*)
(* growth is their number.  However long objects come and go, the bitset   *)
(* does not outgrow what MaxObjects of them need.                          *)
NoLeak ==
  LET living == registered \ ExplicitIDs
      Larger(a, b) == IF a > b THEN a ELSE b
  IN  /\ AllocatedIDs = living
      /\ numAllocatedIDs = Cardinality(living)
      /\ Size * BitsPerChunk <
           Larger(Larger(HintMaximumID, 4 * MaxObjects), MaxObjects + 2) + BitsPerChunk
=============================================================================
