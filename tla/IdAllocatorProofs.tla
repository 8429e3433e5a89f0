------------------------- MODULE IdAllocatorProofs -------------------------
(***************************************************************************)
(* Proofs about the identifiers of aspl::Dispatcher, for chunks of any     *)
(* width, any hint of a maximum and any bound on the objects alive.        *)
(*                                                                         *)
(* The scan of FindFreeID is a CHOOSE, which says something only when what *)
(* it chooses exists: the lemmas on visits show that a scan that starts    *)
(* anywhere reaches every chunk, so that it finds a free identifier when   *)
(* there is one.                                                           *)
(***************************************************************************)
EXTENDS IdAllocator, SequenceTheorems, FiniteSetTheorems, WellFoundedInduction,
        TLAPS

LEMMA Parameters ==
  /\ BitsPerChunk \in Nat \ {0}
  /\ CountModulus \in Nat \ {0}
  /\ MaxObjects \in Nat \ {0}
  /\ HintMaximumID \in Nat
  /\ ExplicitIDs \subseteq Nat \ {0}
  BY AllocatorAssumption

-----------------------------------------------------------------------------
(* Division.                                                               *)

LEMMA ProductMonotone ==
  ASSUME NEW a \in Int, NEW b \in Int, NEW c \in Int, a <= b, 0 <= c
  PROVE  a * c <= b * c
  BY SMTT(30)

(* The quotient and the remainder of a division are determined by what     *)
(* they add up to.                                                         *)
LEMMA Division ==
  ASSUME NEW n \in Int, NEW k \in Nat \ {0}
  PROVE  /\ n \div k \in Int
         /\ n % k \in 0..k - 1
         /\ n = (n \div k) * k + (n % k)
  BY SMTT(30)

LEMMA DivisionUnique ==
  ASSUME NEW k \in Nat \ {0}, NEW q \in Int, NEW r \in 0..k - 1
  PROVE  (q * k + r) \div k = q /\ (q * k + r) % k = r
<1>1. PICK n \in Int : n = q * k + r  OBVIOUS
<1>2. PICK d \in Int, m \in 0..k - 1 : d = n \div k /\ m = n % k /\ n = d * k + m
  BY Division
<1>3. ~ (d < q)
  <2> SUFFICES ASSUME d + 1 <= q  PROVE FALSE  OBVIOUS
  <2>1. (d + 1) * k <= q * k  BY ProductMonotone
  <2>2. (d + 1) * k = d * k + k  OBVIOUS
  <2>q. QED  BY <1>1, <1>2, <2>1, <2>2
<1>4. ~ (q < d)
  <2> SUFFICES ASSUME q + 1 <= d  PROVE FALSE  OBVIOUS
  <2>1. (q + 1) * k <= d * k  BY ProductMonotone
  <2>2. (q + 1) * k = q * k + k  OBVIOUS
  <2>q. QED  BY <1>1, <1>2, <2>1, <2>2
<1>5. d = q  BY <1>3, <1>4
<1>q. QED  BY <1>1, <1>2, <1>5

-----------------------------------------------------------------------------
(* Chunks and bits.                                                        *)

Bits == 0 .. BitsPerChunk - 1

LEMMA ChunkAndBit ==
  ASSUME NEW id \in Nat
  PROVE  /\ Chunk(id) \in Nat
         /\ Bit(id) \in Bits
         /\ id = Chunk(id) * BitsPerChunk + Bit(id)
<1>1. /\ id \div BitsPerChunk \in Int
      /\ id % BitsPerChunk \in 0..BitsPerChunk - 1
      /\ id = (id \div BitsPerChunk) * BitsPerChunk + (id % BitsPerChunk)
  BY Division, Parameters
<1>2. id \div BitsPerChunk >= 0
  <2> SUFFICES ASSUME id \div BitsPerChunk <= -1  PROVE FALSE  BY <1>1
  <2>1. (id \div BitsPerChunk) * BitsPerChunk <= (-1) * BitsPerChunk
    BY <1>1, ProductMonotone, Parameters
  <2>q. QED  BY <1>1, <2>1, Parameters
<1>q. QED  BY <1>1, <1>2 DEF Chunk, Bit, Bits

(* Two identifiers do not share a bit.                                     *)
LEMMA SameBit ==
  ASSUME NEW id \in Nat, NEW other \in Nat,
         Chunk(id) = Chunk(other), Bit(id) = Bit(other)
  PROVE  id = other
  BY ChunkAndBit, Zenon

(* The identifiers of the first n chunks are those below n * BitsPerChunk. *)
LEMMA ChunkBelow ==
  ASSUME NEW id \in Nat, NEW n \in Nat
  PROVE  Chunk(id) < n <=> id < n * BitsPerChunk
<1>1. /\ Chunk(id) \in Nat
      /\ Bit(id) \in 0..BitsPerChunk - 1
      /\ id = Chunk(id) * BitsPerChunk + Bit(id)
  BY ChunkAndBit DEF Bits
<1>2. ASSUME Chunk(id) < n  PROVE id < n * BitsPerChunk
  <2>1. (Chunk(id) + 1) * BitsPerChunk <= n * BitsPerChunk
    BY <1>1, <1>2, ProductMonotone, Parameters
  <2>2. (Chunk(id) + 1) * BitsPerChunk = Chunk(id) * BitsPerChunk + BitsPerChunk
    BY <1>1, Parameters
  <2>3. PICK a \in Int : a = Chunk(id) * BitsPerChunk  BY <1>1, Parameters
  <2>4. PICK b \in Int : b = n * BitsPerChunk  BY Parameters
  <2>q. QED  BY <1>1, <2>1, <2>2, <2>3, <2>4, Parameters
<1>3. ASSUME n <= Chunk(id)  PROVE n * BitsPerChunk <= id
  <2>1. n * BitsPerChunk <= Chunk(id) * BitsPerChunk
    BY <1>1, <1>3, ProductMonotone, Parameters
  <2>2. PICK a \in Int : a = Chunk(id) * BitsPerChunk  BY <1>1, Parameters
  <2>3. PICK b \in Int : b = n * BitsPerChunk  BY Parameters
  <2>q. QED  BY <1>1, <2>1, <2>2, <2>3, Parameters
<1>4. n * BitsPerChunk \in Int  BY Parameters
<1>q. QED  BY <1>1, <1>2, <1>3, <1>4

-----------------------------------------------------------------------------
(* The bitset.                                                             *)

BitsType == allocatedBits \in Seq(SUBSET Bits)

LEMMA SizeType ==
  ASSUME BitsType
  PROVE  Size \in Nat /\ Size * BitsPerChunk \in Nat
<1>1. Size \in Nat  BY DEF BitsType, Size
<1>2. 0 * BitsPerChunk <= Size * BitsPerChunk
  BY <1>1, ProductMonotone, Parameters
<1>q. QED  BY <1>1, <1>2, Parameters

LEMMA AllocatedIsSet ==
  ASSUME BitsType
  PROVE  AllocatedIDs = {id \in Nat : IsSet(id)}
<1>1. ASSUME NEW id \in Nat, IsSet(id)
      PROVE  id \in 0 .. Size * BitsPerChunk - 1
  BY <1>1, SizeType, ChunkBelow DEF IsSet
<1>q. QED  BY <1>1, SizeType DEF AllocatedIDs

(* SetFree changes the one bit and none of the others, whether it grows    *)
(* the bitset or not; it grows it just enough.                             *)
LEMMA SetFreeEffect ==
  ASSUME BitsType, NEW id \in Nat, NEW free \in BOOLEAN, SetFree(id, free)
  PROVE  /\ BitsType'
         /\ Size' = IF Size > Chunk(id) THEN Size ELSE Chunk(id) + 1
         /\ \A other \in Nat :
              IsSet(other)' <=> IF other = id THEN ~free ELSE IsSet(other)
<1>1. Chunk(id) \in Nat /\ Bit(id) \in Bits  BY ChunkAndBit
<1>2. PICK k \in Nat \ {0} :
        /\ k = IF Size > Chunk(id) THEN Size ELSE Chunk(id) + 1
        /\ Chunk(id) + 1 \in 1..k /\ Size <= k
  BY <1>1, SizeType
<1>3. \A c \in 1..Size : allocatedBits[c] \in SUBSET Bits
  BY SizeType DEF BitsType, Size
<1>4. Resized(id) = [c \in 1..k |-> IF c <= Size THEN allocatedBits[c] ELSE {}]
  BY <1>2 DEF Resized
<1>5. \A c \in 1..k : Resized(id)[c] \in SUBSET Bits
  BY <1>2, <1>3, <1>4, SizeType
<1> DEFINE Changed(c) ==
      IF c = Chunk(id) + 1
      THEN IF free THEN Resized(id)[c] \ {Bit(id)} ELSE Resized(id)[c] \union {Bit(id)}
      ELSE Resized(id)[c]
<1>6. allocatedBits' = [c \in 1..k |-> Changed(c)]
  BY <1>2, <1>4 DEF SetFree
<1>7. \A c \in 1..k : Changed(c) \in SUBSET Bits  BY <1>1, <1>5
<1>8. allocatedBits' \in [1..k -> SUBSET Bits]
  <2> HIDE DEF Changed
  <2>q. QED  BY <1>6, <1>7
<1>9. allocatedBits' \in Seq(SUBSET Bits)  BY <1>8, <1>2, SeqDef
<1>10. Size' = k  BY <1>8, <1>9, LenProperties, <1>2 DEF Size
<1>11. ASSUME NEW other \in Nat
       PROVE  IsSet(other)' <=> IF other = id THEN ~free ELSE IsSet(other)
  <2>1. Chunk(other) \in Nat /\ Bit(other) \in Bits  BY ChunkAndBit
  <2>2. IsSet(other)' <=> Chunk(other) < k /\ Bit(other) \in allocatedBits'[Chunk(other) + 1]
    BY <1>10 DEF IsSet, Chunk, Bit
  <2>3. CASE other = id
    <3>1. allocatedBits'[Chunk(id) + 1] = Changed(Chunk(id) + 1)
      BY <1>2, <1>6
    <3>2. Chunk(id) < k  BY <1>1, <1>2
    <3>q. QED  BY <2>2, <2>3, <3>1, <3>2, Zenon
  <2>4. CASE other # id /\ Chunk(other) >= k
    BY <2>1, <2>2, <2>4, <1>2, SizeType DEF IsSet
  <2>5. CASE other # id /\ Chunk(other) < k
    <3>1. Chunk(other) + 1 \in 1..k  BY <2>1, <2>5
    <3>2. Bit(other) \in allocatedBits'[Chunk(other) + 1]
            <=> Bit(other) \in Resized(id)[Chunk(other) + 1]
      <4>1. CASE Chunk(other) = Chunk(id)
        <5>1. Bit(other) # Bit(id)  BY <2>5, <4>1, SameBit
        <5>q. QED  BY <1>6, <3>1, <5>1
      <4>2. CASE Chunk(other) # Chunk(id)
        <5>1. Chunk(other) + 1 # Chunk(id) + 1  BY <1>1, <2>1, <4>2
        <5>q. QED  BY <1>6, <3>1, <5>1
      <4>q. QED  BY <4>1, <4>2
    <3>3. Resized(id)[Chunk(other) + 1] =
            IF Chunk(other) + 1 <= Size THEN allocatedBits[Chunk(other) + 1] ELSE {}
      BY <1>4, <3>1
    <3>4. Chunk(other) + 1 <= Size <=> Chunk(other) < Size  BY <2>1, SizeType
    <3>5. Bit(other) \in Resized(id)[Chunk(other) + 1] <=> IsSet(other)
      BY <3>3, <3>4 DEF IsSet
    <3>q. QED  BY <2>2, <2>5, <3>2, <3>5
  <2>q. QED  BY <2>1, <1>2, <2>3, <2>4, <2>5
<1>q. QED  BY <1>2, <1>9, <1>10, <1>11 DEF BitsType

LEMMA SetFreeAllocated ==
  ASSUME BitsType, NEW id \in Nat, NEW free \in BOOLEAN, SetFree(id, free)
  PROVE  AllocatedIDs' = IF free THEN AllocatedIDs \ {id} ELSE AllocatedIDs \union {id}
<1>1. Size' \in Nat  BY SetFreeEffect, LenProperties DEF BitsType, Size
<1>2. AllocatedIDs = {o \in Nat : IsSet(o)}  BY AllocatedIsSet
<1>3. AllocatedIDs' = {o \in Nat : IsSet(o)'}
  <2>1. AllocatedIDs' = {o \in 0 .. Size' * BitsPerChunk - 1 : IsSet(o)'}
    BY DEF AllocatedIDs
  <2>2. Size' * BitsPerChunk \in Int  BY <1>1, Parameters
  <2>3. ASSUME NEW o \in Nat, IsSet(o)'
        PROVE  o \in 0 .. Size' * BitsPerChunk - 1
    BY <1>1, <2>2, <2>3, ChunkBelow DEF IsSet, Chunk
  <2>q. QED  BY <2>1, <2>2, <2>3
<1>4. \A o \in Nat : IsSet(o)' <=> IF o = id THEN ~free ELSE IsSet(o)
  BY SetFreeEffect
<1>q. QED  BY <1>2, <1>3, <1>4, Zenon
-----------------------------------------------------------------------------
(* The scan.                                                               *)

LEMMA Smallest ==
  ASSUME NEW T \in SUBSET Nat, T # {}
  PROVE  \E n \in T : \A k \in T : n <= k
<1>1. PICK n \in T : \A k \in T : ~ (<<k, n>> \in OpToRel(<, Nat))
  BY NatLessThanWellFounded, WFMin
<1>2. ASSUME NEW k \in T  PROVE n <= k
  <2>1. k \in Nat /\ n \in Nat  OBVIOUS
  <2>2. ~ (<<k, n>> \in OpToRel(<, Nat))  BY <1>1
  <2>3. k < n => <<k, n>> \in {ss \in Nat \X Nat : ss[1] < ss[2]}  BY <2>1
  <2>4. ~ (k < n)  BY <2>2, <2>3 DEF OpToRel
  <2>q. QED  BY <2>1, <2>4
<1>q. QED  BY <1>2

(* The scan comes to every chunk, wherever it starts: after the chunk of   *)
(* the start it goes around once.                                          *)
LEMMA ScanReachesEveryChunk ==
  ASSUME BitsType, NEW startID \in Nat, NEW id \in 0 .. Size * BitsPerChunk - 1
  PROVE  \E n \in 1..Size : Chunk(id) = (Chunk(startID) + n) % Size
<1>1. id \in Nat /\ Size \in Nat /\ Size * BitsPerChunk \in Nat  BY SizeType
<1>2. Chunk(id) \in 0..Size - 1  BY <1>1, ChunkBelow, ChunkAndBit
<1>3. Size \in Nat \ {0}  BY <1>1, <1>2
<1>4. PICK c \in Int : c = Chunk(id) /\ c \in 0..Size - 1  BY <1>2
<1>5. PICK q \in Int, r \in 0..Size - 1 : Chunk(startID) = q * Size + r
  <2>1. Chunk(startID) \in Int  BY ChunkAndBit
  <2>2. /\ Chunk(startID) \div Size \in Int
        /\ Chunk(startID) % Size \in 0..Size - 1
        /\ Chunk(startID) = (Chunk(startID) \div Size) * Size + (Chunk(startID) % Size)
    BY <1>3, <2>1, Division
  <2>q. QED  BY <2>2
<1>6. CASE r < c
  <2>1. c - r \in 1..Size  BY <1>1, <1>4, <1>6
  <2>2. Chunk(startID) + (c - r) = q * Size + c
    <3>1. PICK a \in Int : a = q * Size  BY <1>1
    <3>q. QED  BY <1>4, <1>5, <3>1
  <2>3. (q * Size + c) % Size = c  BY <1>3, <1>4, DivisionUnique
  <2>q. QED  BY <1>4, <2>1, <2>2, <2>3
<1>7. CASE c <= r
  <2>1. (c - r) + Size \in 1..Size  BY <1>1, <1>4, <1>7
  <2>2. Chunk(startID) + ((c - r) + Size) = (q + 1) * Size + c
    <3>1. PICK a \in Int : a = q * Size  BY <1>1
    <3>2. (q + 1) * Size = a + Size  BY <1>1, <3>1
    <3>q. QED  BY <1>1, <1>4, <1>5, <3>1, <3>2
  <2>3. ((q + 1) * Size + c) % Size = c
    <3>1. q + 1 \in Int  OBVIOUS
    <3>q. QED  BY <1>3, <1>4, <3>1, DivisionUnique
  <2>q. QED  BY <1>4, <2>1, <2>2, <2>3
<1>q. QED  BY <1>4, <1>6, <1>7

LEMMA FirstVisitType ==
  ASSUME BitsType, NEW startID \in Nat, NEW id \in 0 .. Size * BitsPerChunk - 1
  PROVE  FirstVisit(startID, id) \in Nat
<1>1. Visits(startID, id) \subseteq Nat  BY SizeType DEF Visits
<1>2. Visits(startID, id) # {}
  <2>1. PICK n \in 1..Size : Chunk(id) = (Chunk(startID) + n) % Size
    BY ScanReachesEveryChunk
  <2>2. n \in 0..Size /\ n # 0  BY SizeType
  <2>q. QED  BY <2>1, <2>2 DEF Visits
<1> HIDE DEF Visits
<1>3. PICK n \in Visits(startID, id) : \A m \in Visits(startID, id) : n <= m
  BY <1>1, <1>2, Smallest
<1>4. FirstVisit(startID, id) \in Visits(startID, id)  BY <1>3 DEF FirstVisit
<1>q. QED  BY <1>1, <1>4

(* Of the free identifiers below the end of the bitset one comes first.    *)
LEMMA FirstFreeExists ==
  ASSUME BitsType, NEW startID \in Nat,
         NEW Free \in SUBSET (0 .. Size * BitsPerChunk - 1), Free # {}
  PROVE  \E id \in Free : \A other \in Free : VisitedBefore(startID, id, other)
<1> DEFINE V(id) == FirstVisit(startID, id)
<1>1. \A id \in Free : id \in Nat /\ V(id) \in Nat  BY SizeType, FirstVisitType
<1> HIDE DEF V
<1>2. PICK n \in {V(id) : id \in Free} : \A k \in {V(id) : id \in Free} : n <= k
  <2>1. {V(id) : id \in Free} \in SUBSET Nat /\ {V(id) : id \in Free} # {}  BY <1>1
  <2>q. QED  BY <2>1, Smallest
<1>3. PICK id \in {i \in Free : V(i) = n} : \A other \in {i \in Free : V(i) = n} : id <= other
  <2>1. {i \in Free : V(i) = n} \in SUBSET Nat /\ {i \in Free : V(i) = n} # {}
    BY <1>1, <1>2
  <2>q. QED  BY <2>1, Smallest
<1>4. ASSUME NEW other \in Free
      PROVE  VisitedBefore(startID, id, other)
  <2>1. V(id) = n /\ n <= V(other) /\ V(other) \in Nat /\ n \in Nat  BY <1>1, <1>2, <1>3
  <2>2. CASE n = V(other)  BY <2>1, <2>2, <1>3 DEF VisitedBefore, V
  <2>3. CASE n # V(other)
    <3>1. V(id) < V(other)  BY <2>1, <2>3
    <3>q. QED  BY <3>1 DEF VisitedBefore, V
  <2>q. QED  BY <2>2, <2>3
<1>q. QED  BY <1>3, <1>4

LEMMA FirstBeyondFacts ==
  ASSUME BitsType
  PROVE  /\ FirstBeyond \in Nat /\ FirstBeyond \notin reservedIDs
         /\ FirstBeyond >= Size * BitsPerChunk
         /\ FirstBeyond <= 2 \/ FirstBeyond = Size * BitsPerChunk
<1>1. PICK z \in Nat : z = Size * BitsPerChunk  BY SizeType
<1> DEFINE First(id) == /\ id \notin reservedIDs
                        /\ \A lower \in z .. id - 1 : lower \in reservedIDs
<1>2. reservedIDs = {0, 1}  BY DEF reservedIDs, Unknown, PlugInObject
<1>3. \E id \in z .. z + 2 : First(id)
  <2>1. CASE z >= 2
    <3>1. z \in z .. z + 2 /\ First(z)  BY <1>2, <2>1
    <3>q. QED  BY <3>1
  <2>2. CASE z < 2
    <3>1. 2 \in z .. z + 2 /\ First(2)  BY <1>2, <2>2
    <3>q. QED  BY <3>1
  <2>q. QED  BY <2>1, <2>2
<1>4. FirstBeyond = CHOOSE id \in z .. z + 2 : First(id)  BY <1>1 DEF FirstBeyond
<1>5. FirstBeyond \in z .. z + 2 /\ First(FirstBeyond)
  <2> HIDE DEF First
  <2>q. QED  BY <1>3, <1>4
<1>6. FirstBeyond > z => FirstBeyond <= 2
  <2> SUFFICES ASSUME FirstBeyond > z  PROVE FirstBeyond <= 2  OBVIOUS
  <2>1. FirstBeyond - 1 \in z .. FirstBeyond - 1  BY <1>5
  <2>q. QED  BY <1>2, <1>5, <2>1
<1>q. QED  BY <1>1, <1>5, <1>6

(* What FindFreeID finds is free; it is beyond the bitset only when there  *)
(* is nothing free in it, and then as near as can be.                      *)
NothingFree == \A id \in 0 .. Size * BitsPerChunk - 1 : ~IsFree(id)
JustBeyond(id) == NothingFree /\ (id <= 2 \/ id = Size * BitsPerChunk)

LEMMA FindFreeIDFinds ==
  ASSUME BitsType, NEW startID \in Nat
  PROVE  /\ FindFreeID(startID) \in Nat
         /\ IsFree(FindFreeID(startID))
         /\ \/ FindFreeID(startID) < Size * BitsPerChunk
            \/ JustBeyond(FindFreeID(startID))
<1> DEFINE Free == {id \in 0 .. Size * BitsPerChunk - 1 : IsFree(id)}
<1>1. CASE Free = {}
  <2>1. FindFreeID(startID) = FirstBeyond  BY <1>1 DEF FindFreeID
  <2>2. ~IsSet(FirstBeyond)
    BY FirstBeyondFacts, SizeType, ChunkBelow DEF IsSet
  <2>3. NothingFree  BY <1>1 DEF NothingFree
  <2>q. QED  BY <2>1, <2>2, <2>3, FirstBeyondFacts DEF IsFree, JustBeyond
<1>2. CASE Free # {}
  <2>1. FindFreeID(startID) =
          CHOOSE id \in Free : \A other \in Free : VisitedBefore(startID, id, other)
    BY <1>2 DEF FindFreeID
  <2>2. \E id \in Free : \A other \in Free : VisitedBefore(startID, id, other)
    <3>1. Free \in SUBSET (0 .. Size * BitsPerChunk - 1)  OBVIOUS
    <3> HIDE DEF Free
    <3>q. QED  BY <1>2, <3>1, FirstFreeExists
  <2>3. FindFreeID(startID) \in Free
    <3> HIDE DEF Free
    <3>q. QED  BY <2>1, <2>2
  <2>q. QED  BY <2>3, SizeType
<1>q. QED  BY <1>1, <1>2

(* AllocateID returns a free identifier, whatever the maximum.             *)
LEMMA AllocatedIDIsFree ==
  ASSUME BitsType, lastAllocatedID \in Nat, NEW maximum \in Nat
  PROVE  /\ AllocatedID(maximum) \in Nat
         /\ IsFree(AllocatedID(maximum))
         /\ \/ AllocatedID(maximum) < Size * BitsPerChunk
            \/ AllocatedID(maximum) < maximum
            \/ JustBeyond(AllocatedID(maximum))
<1>1. nextID \in Nat  BY DEF nextID
<1>2. CASE nextID >= maximum
  <2>1. AllocatedID(maximum) = FindFreeID(0)  BY <1>2 DEF AllocatedID
  <2>q. QED  BY <2>1, FindFreeIDFinds
<1>3. CASE ~ (nextID >= maximum) /\ ~IsFree(nextID)
  <2>1. AllocatedID(maximum) = FindFreeID(nextID + 1)  BY <1>3 DEF AllocatedID
  <2>2. nextID + 1 \in Nat  BY <1>1
  <2>q. QED  BY <2>1, <2>2, FindFreeIDFinds
<1>4. CASE ~ (nextID >= maximum) /\ IsFree(nextID)
  <2>1. AllocatedID(maximum) = nextID  BY <1>4 DEF AllocatedID
  <2>q. QED  BY <1>1, <1>4, <2>1
<1>q. QED  BY <1>2, <1>3, <1>4
-----------------------------------------------------------------------------
(* The identifiers known to the allocator.                                 *)

TypeOK ==
  /\ BitsType
  /\ numAllocatedIDs \in Nat
  /\ lastAllocatedID \in Nat
  /\ desiredMaximumID \in Nat
  /\ registered \in SUBSET Nat /\ IsFiniteSet(registered)

BitsAreLiving == AllocatedIDs = registered \ ExplicitIDs

IInv == TypeOK /\ BitsAreLiving

(* Only the plug-in object registers itself with an identifier of its own  *)
(* (src/src/Plugin.cpp), and that identifier is a reserved one.            *)
OnlyReservedIDsAreExplicit == ExplicitIDs \subseteq reservedIDs

LEMMA InitIInv == Init => IInv
<1> SUFFICES ASSUME Init  PROVE IInv  OBVIOUS
<1>1. BitsType /\ Size = 0
  BY EmptySeq DEF Init, BitsType, Size
<1>2. registered \in SUBSET Nat /\ IsFiniteSet(registered) /\ registered = {}
  BY FS_EmptySet DEF Init
<1>3. AllocatedIDs = {}  BY <1>1, Parameters DEF AllocatedIDs
<1>q. QED  BY <1>1, <1>2, <1>3, Parameters DEF Init, IInv, TypeOK, BitsAreLiving

LEMMA GrownMaximumType ==
  ASSUME TypeOK
  PROVE  GrownMaximum \in Nat
  BY DEF TypeOK, GrownMaximum

(* The identifier that is handed out.                                      *)
LEMMA NewIDIsUnknown ==
  ASSUME IInv, OnlyReservedIDsAreExplicit
  PROVE  LET id == AllocatedID(GrownMaximum)
         IN  id \in Nat /\ id \notin registered \union reservedIDs \union ExplicitIDs
<1> DEFINE id == AllocatedID(GrownMaximum)
<1>1. id \in Nat /\ IsFree(id)
  BY GrownMaximumType, AllocatedIDIsFree DEF IInv, TypeOK
<1>2. id \notin AllocatedIDs  BY <1>1, AllocatedIsSet DEF IInv, TypeOK, IsFree
<1>3. id \notin reservedIDs  BY <1>1 DEF IsFree
<1>q. QED  BY <1>1, <1>2, <1>3 DEF IInv, BitsAreLiving, OnlyReservedIDsAreExplicit

LEMMA CountType ==
  ASSUME NEW n \in Int
  PROVE  n % CountModulus \in Nat
  BY Division, Parameters

LEMMA RegisterUnknownIInv ==
  ASSUME IInv, OnlyReservedIDsAreExplicit, RegisterUnknown
  PROVE  IInv'
<1>1. PICK id : id = AllocatedID(GrownMaximum) /\ AllocateID(id) /\ Insert(id)
  BY DEF RegisterUnknown
<1>2. id \in Nat /\ id \notin registered \union reservedIDs \union ExplicitIDs
  BY <1>1, NewIDIsUnknown
<1>3. SetFree(id, FALSE) /\ BitsType  BY <1>1 DEF AllocateID, IInv, TypeOK
<1>4. registered' = registered \union {id}  BY <1>1 DEF Insert
<1>5. TypeOK'
  <2>1. BitsType'  BY <1>2, <1>3, SetFreeEffect
  <2>2. numAllocatedIDs' \in Nat
    BY <1>1, CountType DEF AllocateID, IInv, TypeOK
  <2>3. lastAllocatedID' \in Nat /\ desiredMaximumID' \in Nat
    BY <1>1, <1>2, GrownMaximumType DEF AllocateID, IInv
  <2>4. registered' \in SUBSET Nat /\ IsFiniteSet(registered')
    BY <1>2, <1>4, FS_AddElement DEF IInv, TypeOK
  <2>q. QED  BY <2>1, <2>2, <2>3, <2>4 DEF TypeOK
<1>6. AllocatedIDs' = AllocatedIDs \union {id}
  BY <1>2, <1>3, SetFreeAllocated
<1>q. QED  BY <1>2, <1>4, <1>5, <1>6 DEF IInv, BitsAreLiving

LEMMA RegisterExplicitIInv ==
  ASSUME IInv, NEW id \in ExplicitIDs, RegisterExplicit(id)
  PROVE  IInv'
<1>1. registered' = registered \union {id}  BY DEF RegisterExplicit, Insert
<1>2. UNCHANGED <<allocatedBits, numAllocatedIDs, lastAllocatedID, desiredMaximumID>>
  BY DEF RegisterExplicit
<1>3. registered' \in SUBSET Nat /\ IsFiniteSet(registered')
  BY <1>1, Parameters, FS_AddElement DEF IInv, TypeOK
<1>4. AllocatedIDs' = AllocatedIDs  BY <1>2 DEF AllocatedIDs, Size, IsSet
<1>q. QED
  BY <1>1, <1>2, <1>3, <1>4 DEF IInv, TypeOK, BitsType, BitsAreLiving

(* It is enough that the identifier is that of a known object: freeing     *)
(* the one of the plug-in object clears a bit that is not set.             *)
LEMMA UnregisterObjectIInv ==
  ASSUME IInv, NEW id \in registered, UnregisterObject(id)
  PROVE  IInv'
<1>1. id \in Nat  BY DEF IInv, TypeOK
<1>2. SetFree(id, TRUE) /\ BitsType  BY DEF UnregisterObject, FreeID, IInv, TypeOK
<1>3. registered' = registered \ {id}  BY DEF UnregisterObject
<1>4. TypeOK'
  <2>1. BitsType'  BY <1>1, <1>2, SetFreeEffect
  <2>2. numAllocatedIDs' \in Nat
    BY CountType DEF UnregisterObject, FreeID, IInv, TypeOK
  <2>3. lastAllocatedID' \in Nat /\ desiredMaximumID' \in Nat
    BY DEF UnregisterObject, FreeID, IInv, TypeOK
  <2>4. registered' \in SUBSET Nat /\ IsFiniteSet(registered')
    BY <1>3, FS_RemoveElement DEF IInv, TypeOK
  <2>q. QED  BY <2>1, <2>2, <2>3, <2>4 DEF TypeOK
<1>5. AllocatedIDs' = AllocatedIDs \ {id}  BY <1>1, <1>2, SetFreeAllocated
<1>q. QED  BY <1>3, <1>4, <1>5 DEF IInv, BitsAreLiving

LEMMA StutterIInv ==
  ASSUME IInv, UNCHANGED vars
  PROVE  IInv'
  BY DEF IInv, TypeOK, BitsAreLiving, BitsType, AllocatedIDs, IsSet, Size, vars

LEMMA NextIInv ==
  ASSUME IInv, OnlyReservedIDsAreExplicit, [Next]_vars
  PROVE  IInv'
  BY RegisterUnknownIInv, RegisterExplicitIInv, UnregisterObjectIInv, StutterIInv
     DEF Next

(* The bits that are set are those of the living objects that asked for an *)
(* identifier, in every reachable state.                                   *)
THEOREM Invariance ==
  ASSUME OnlyReservedIDsAreExplicit
  PROVE  Spec => []IInv
<1>1. IInv /\ [Next]_vars => IInv'  BY NextIInv
<1>q. QED  BY InitIInv, <1>1, PTL DEF Spec

(* An object that asks for an identifier gets one that nobody has, and     *)
(* none of the reserved ones: RegisterObject and AllocateID of             *)
(* src/src/Dispatcher.cpp, after any history, even one in which the        *)
(* counter of identifiers wraps around.                                    *)
THEOREM NewIdIsAlwaysUnique ==
  ASSUME OnlyReservedIDsAreExplicit
  PROVE  Spec => NewIdIsUnique
<1>1. IInv /\ [Next]_vars
        => [RegisterUnknown => result' \notin registered \union reservedIDs]_vars
  <2> SUFFICES ASSUME IInv, RegisterUnknown
               PROVE  result' \notin registered \union reservedIDs
    OBVIOUS
  <2>1. PICK id : id = AllocatedID(GrownMaximum) /\ Insert(id)
    BY DEF RegisterUnknown
  <2>2. id \notin registered \union reservedIDs  BY <2>1, NewIDIsUnknown
  <2>q. QED  BY <2>1, <2>2 DEF Insert
<1>q. QED  BY Invariance, <1>1, PTL DEF Spec, NewIdIsUnique
-----------------------------------------------------------------------------
(* Nothing leaks.                                                          *)

(* The plug-in object lives as long as the dispatcher, and a size_t counts *)
(* the objects that are alive without wrapping around.                     *)
PlugInStays ==
  /\ OnlyReservedIDsAreExplicit
  /\ Permanent = ExplicitIDs
  /\ MaxObjects < CountModulus

living == registered \ ExplicitIDs

Larger(a, b) == IF a > b THEN a ELSE b
IDBound == Larger(Larger(HintMaximumID, 4 * MaxObjects), MaxObjects + 2)

LEMMA IDBoundFacts ==
  /\ IDBound \in Nat
  /\ HintMaximumID <= IDBound
  /\ 4 * MaxObjects <= IDBound
  /\ MaxObjects + 2 <= IDBound
  BY Parameters DEF IDBound, Larger

CountInv ==
  /\ numAllocatedIDs = Cardinality(living)
  /\ Cardinality(registered) <= MaxObjects
  /\ desiredMaximumID <= IDBound
  /\ Size * BitsPerChunk < IDBound + BitsPerChunk

LeakInv == IInv /\ CountInv

LEMMA LivingIsFinite ==
  ASSUME IInv
  PROVE  /\ IsFiniteSet(living) /\ Cardinality(living) \in Nat
         /\ Cardinality(registered) \in Nat
         /\ Cardinality(living) <= Cardinality(registered)
<1>1. IsFiniteSet(registered) /\ living \in SUBSET registered
  BY DEF IInv, TypeOK, living
<1>q. QED  BY <1>1, FS_Subset, FS_CardinalityType

LEMMA InitCountInv == Init => CountInv
<1> SUFFICES ASSUME Init  PROVE CountInv  OBVIOUS
<1>1. registered = {} /\ living = {}  BY DEF Init, living
<1>2. Cardinality(registered) = 0 /\ Cardinality(living) = 0
  BY <1>1, FS_EmptySet
<1>3. Size = 0  BY EmptySeq DEF Init, Size
<1>q. QED
  BY <1>2, <1>3, IDBoundFacts, Parameters DEF Init, CountInv

(* The maximum is doubled only while it is less than twice the number of   *)
(* objects.                                                                *)
LEMMA GrownMaximumBounded ==
  ASSUME LeakInv, Cardinality(registered) < MaxObjects
  PROVE  GrownMaximum <= IDBound
<1>1. numAllocatedIDs \in Nat /\ numAllocatedIDs < MaxObjects
  BY LivingIsFinite, Parameters DEF LeakInv, CountInv
<1>2. desiredMaximumID \in Nat /\ desiredMaximumID <= IDBound
  BY DEF LeakInv, CountInv, IInv, TypeOK
<1>3. CASE numAllocatedIDs > desiredMaximumID \div 2
  <2>1. 2 * desiredMaximumID <= 4 * MaxObjects
    BY <1>1, <1>2, <1>3, Parameters
  <2>q. QED  BY <1>2, <2>1, IDBoundFacts, Parameters DEF GrownMaximum
<1>4. CASE ~ (numAllocatedIDs > desiredMaximumID \div 2)
  BY <1>2, <1>4 DEF GrownMaximum
<1>q. QED  BY <1>3, <1>4

(* A bitset with nothing free in it is full of living objects.             *)
LEMMA FullBitsetIsSmall ==
  ASSUME LeakInv, Cardinality(registered) < MaxObjects, NothingFree
  PROVE  Size * BitsPerChunk <= MaxObjects + 1
<1>1. PICK z \in Nat : z = Size * BitsPerChunk
  BY SizeType DEF LeakInv, IInv, TypeOK
<1>2. 2 .. z - 1 \subseteq living
  <2> SUFFICES ASSUME NEW id \in 2 .. z - 1  PROVE id \in living  OBVIOUS
  <2>1. id \in 0 .. Size * BitsPerChunk - 1  BY <1>1
  <2>2. id \notin reservedIDs  BY DEF reservedIDs, Unknown, PlugInObject
  <2>3. id \in AllocatedIDs  BY <2>1, <2>2 DEF NothingFree, IsFree, AllocatedIDs
  <2>q. QED  BY <2>3 DEF LeakInv, IInv, BitsAreLiving, living
<1>3. Cardinality(2 .. z - 1) = IF 2 > z - 1 THEN 0 ELSE (z - 1) - 2 + 1
  BY FS_Interval
<1>4. Cardinality(2 .. z - 1) <= Cardinality(living)
  BY <1>2, LivingIsFinite, FS_Subset DEF LeakInv
<1>5. Cardinality(living) < MaxObjects  BY LivingIsFinite, Parameters DEF LeakInv
<1>6. Cardinality(living) \in Nat  BY LivingIsFinite DEF LeakInv
<1>q. QED  BY <1>1, <1>3, <1>4, <1>5, <1>6, Parameters

(* The bitset grows to the chunk of the identifier and no further.         *)
LEMMA SizeBounded ==
  ASSUME BitsType, NEW id \in Nat, NEW free \in BOOLEAN, SetFree(id, free),
         Size * BitsPerChunk < IDBound + BitsPerChunk,
         id < IDBound \/ id < Size * BitsPerChunk
  PROVE  Size' * BitsPerChunk < IDBound + BitsPerChunk
<1>1. Size' = IF Size > Chunk(id) THEN Size ELSE Chunk(id) + 1
  BY SetFreeEffect
<1>2. CASE Size > Chunk(id)  BY <1>1, <1>2
<1>3. CASE ~ (Size > Chunk(id))
  <2>1. PICK a \in Int : a = Chunk(id) * BitsPerChunk
    BY ChunkAndBit, Parameters
  <2>2. a <= id  BY <2>1, ChunkAndBit, Parameters DEF Bits
  <2>3. ~ (id < Size * BitsPerChunk)  BY <1>3, SizeType, ChunkBelow, ChunkAndBit
  <2>4. Size' * BitsPerChunk = a + BitsPerChunk
    <3>1. (Chunk(id) + 1) * BitsPerChunk = Chunk(id) * BitsPerChunk + BitsPerChunk
      BY ChunkAndBit, Parameters
    <3>q. QED  BY <1>1, <1>3, <2>1, <3>1
  <2>q. QED  BY <2>2, <2>3, <2>4, IDBoundFacts, Parameters
<1>q. QED  BY <1>2, <1>3

LEMMA Unwrapped ==
  ASSUME PlugInStays, NEW n \in 0..MaxObjects
  PROVE  n % CountModulus = n
<1>1. n \in 0..CountModulus - 1  BY Parameters DEF PlugInStays
<1>2. (0 * CountModulus + n) % CountModulus = n
  BY <1>1, DivisionUnique, Parameters
<1>3. 0 * CountModulus + n = n  BY Parameters
<1>q. QED  BY <1>2, <1>3

LEMMA RegisterUnknownCountInv ==
  ASSUME LeakInv, PlugInStays, RegisterUnknown
  PROVE  CountInv'
<1>1. PICK id : id = AllocatedID(GrownMaximum) /\ AllocateID(id) /\ Insert(id)
  BY DEF RegisterUnknown
<1>2. id \in Nat /\ id \notin registered \union reservedIDs \union ExplicitIDs
  BY <1>1, NewIDIsUnknown DEF LeakInv, PlugInStays
<1>3. Cardinality(registered) < MaxObjects  BY DEF RegisterUnknown
<1>4. SetFree(id, FALSE) /\ BitsType
  BY <1>1 DEF AllocateID, LeakInv, IInv, TypeOK
<1>5. registered' = registered \union {id} /\ living' = living \union {id}
  BY <1>1, <1>2 DEF Insert, living
<1>6. /\ Cardinality(registered') = Cardinality(registered) + 1
      /\ Cardinality(living') = Cardinality(living) + 1
  <2>1. IsFiniteSet(registered) /\ IsFiniteSet(living)
    BY LivingIsFinite DEF LeakInv, IInv, TypeOK
  <2>2. id \notin registered /\ id \notin living  BY <1>2 DEF living
  <2>q. QED  BY <1>5, <2>1, <2>2, FS_AddElement
<1>7. Cardinality(registered') <= MaxObjects
  BY <1>3, <1>6, LivingIsFinite, Parameters DEF LeakInv
<1>8. numAllocatedIDs' = Cardinality(living')
  <2>1. Cardinality(living) + 1 \in 0..MaxObjects
    BY <1>3, LivingIsFinite, Parameters DEF LeakInv
  <2>2. numAllocatedIDs' = (numAllocatedIDs + 1) % CountModulus
    BY <1>1 DEF AllocateID
  <2>3. numAllocatedIDs = Cardinality(living)  BY DEF LeakInv, CountInv
  <2>q. QED  BY <1>6, <2>1, <2>2, <2>3, Unwrapped
<1>9. desiredMaximumID' <= IDBound
  BY <1>1, <1>3, GrownMaximumBounded DEF AllocateID
<1>10. id < IDBound \/ id < Size * BitsPerChunk
  <2>1. CASE id < Size * BitsPerChunk  BY <2>1
  <2>2. CASE id < GrownMaximum
    BY <1>2, <1>3, <2>2, GrownMaximumBounded, GrownMaximumType, IDBoundFacts
       DEF LeakInv, IInv
  <2>3. CASE JustBeyond(id)
    <3>1. Size * BitsPerChunk <= MaxObjects + 1
      BY <1>3, <2>3, FullBitsetIsSmall DEF JustBeyond
    <3>2. id <= MaxObjects + 1
      BY <2>3, <3>1, <1>2, Parameters DEF JustBeyond
    <3>q. QED  BY <3>2, <1>2, IDBoundFacts, Parameters
  <2>4. lastAllocatedID \in Nat /\ GrownMaximum \in Nat
    BY GrownMaximumType DEF LeakInv, IInv, TypeOK
  <2>q. QED  BY <1>1, <1>4, <2>1, <2>2, <2>3, <2>4, AllocatedIDIsFree
<1>11. (Size * BitsPerChunk < IDBound + BitsPerChunk)'
  BY <1>2, <1>4, <1>10, SizeBounded DEF LeakInv, CountInv
<1>q. QED  BY <1>7, <1>8, <1>9, <1>11 DEF CountInv

LEMMA RegisterExplicitCountInv ==
  ASSUME LeakInv, NEW id \in ExplicitIDs, RegisterExplicit(id)
  PROVE  CountInv'
<1>1. registered' = registered \union {id} /\ living' = living
  BY DEF RegisterExplicit, Insert, living
<1>2. Cardinality(registered') <= MaxObjects
  <2>1. IsFiniteSet(registered)  BY DEF LeakInv, IInv, TypeOK
  <2>2. Cardinality(registered') = IF id \in registered
                                   THEN Cardinality(registered)
                                   ELSE Cardinality(registered) + 1
    BY <1>1, <2>1, FS_AddElement
  <2>3. Cardinality(registered) \in Nat  BY LivingIsFinite DEF LeakInv
  <2>4. Cardinality(registered) < MaxObjects  BY DEF RegisterExplicit
  <2>q. QED  BY <2>2, <2>3, <2>4, Parameters
<1>q. QED
  BY <1>1, <1>2 DEF RegisterExplicit, LeakInv, CountInv, Size

LEMMA UnregisterObjectCountInv ==
  ASSUME LeakInv, PlugInStays, NEW id \in registered, UnregisterObject(id)
  PROVE  CountInv'
<1>1. id \in Nat /\ id \in living
  BY DEF LeakInv, IInv, TypeOK, PlugInStays, UnregisterObject, living
<1>2. SetFree(id, TRUE) /\ BitsType
  BY DEF UnregisterObject, FreeID, LeakInv, IInv, TypeOK
<1>3. registered' = registered \ {id} /\ living' = living \ {id}
  BY DEF UnregisterObject, living
<1>4. /\ Cardinality(registered') = Cardinality(registered) - 1
      /\ Cardinality(living') = Cardinality(living) - 1
  <2>1. IsFiniteSet(registered) /\ IsFiniteSet(living)
    BY LivingIsFinite DEF LeakInv, IInv, TypeOK
  <2>q. QED  BY <1>1, <1>3, <2>1, FS_RemoveElement
<1>5. numAllocatedIDs' = Cardinality(living')
  <2>1. Cardinality(living) # 0
    BY <1>1, LivingIsFinite, FS_EmptySet DEF LeakInv
  <2>2. Cardinality(living) - 1 \in 0..MaxObjects
    BY <2>1, LivingIsFinite, Parameters DEF LeakInv, CountInv
  <2>3. numAllocatedIDs' = (numAllocatedIDs - 1) % CountModulus
    BY DEF UnregisterObject, FreeID
  <2>4. numAllocatedIDs = Cardinality(living)  BY DEF LeakInv, CountInv
  <2>q. QED  BY <1>4, <2>2, <2>3, <2>4, Unwrapped
<1>6. id < Size * BitsPerChunk
  <2>1. id \in AllocatedIDs  BY <1>1 DEF LeakInv, IInv, BitsAreLiving, living
  <2>q. QED  BY <1>2, <2>1, SizeType DEF AllocatedIDs
<1>7. (Size * BitsPerChunk < IDBound + BitsPerChunk)'
  BY <1>1, <1>2, <1>6, SizeBounded DEF LeakInv, CountInv
<1>q. QED
  BY <1>4, <1>5, <1>7, LivingIsFinite, Parameters
     DEF UnregisterObject, FreeID, LeakInv, CountInv

LEMMA NextLeakInv ==
  ASSUME LeakInv, PlugInStays, [Next]_vars
  PROVE  LeakInv'
<1>1. IInv'  BY NextIInv DEF LeakInv, PlugInStays
<1>2. CountInv'
  <2>1. CASE Next
    BY <2>1, RegisterUnknownCountInv, RegisterExplicitCountInv,
       UnregisterObjectCountInv DEF Next
  <2>2. CASE UNCHANGED vars
    BY <2>2 DEF LeakInv, CountInv, living, Size, vars
  <2>q. QED  BY <2>1, <2>2
<1>q. QED  BY <1>1, <1>2 DEF LeakInv

(* Identifiers do not leak: the set bits are those of the living objects,  *)
(* the counter is their number, and the bitset stays as small as the       *)
(* number of objects alive at a time makes it, however many come and go    *)
(* (RegisterObject, UnregisterObject, AllocateID, FreeID and FindFreeID of *)
(* src/src/Dispatcher.cpp).                                                *)
THEOREM NothingLeaks ==
  ASSUME PlugInStays
  PROVE  Spec => []NoLeak
<1>1. Init => LeakInv  BY InitIInv, InitCountInv DEF LeakInv
<1>2. LeakInv /\ [Next]_vars => LeakInv'  BY NextLeakInv
<1>3. LeakInv => NoLeak
  BY DEF LeakInv, CountInv, IInv, BitsAreLiving, NoLeak, living, IDBound, Larger
<1>q. QED  BY <1>1, <1>2, <1>3, PTL DEF Spec
=============================================================================
