---------------------------- MODULE HalViewProofs ----------------------------
(***************************************************************************)
(* Proofs about what the HAL sees of a plugin, for any threads and any     *)
(* scales of the volume: the calls of the plugin use the tree of objects as*)
(* its contract asks, so that the tree is whole; the containers of the     *)
(* plugin agree between calls; a HAL that sets what it has read changes    *)
(* nothing; and the five methods of an object agree with each other, with  *)
(* replies that fit.                                                       *)
(*                                                                         *)
(* First the tree of ObjectTree by itself, with one lemma per action and a *)
(* step for each conjunct of TreeInv; then the scales of VolumeCurve, where*)
(* a raw value that is converted to scalar or to decibels, rounded to a    *)
(* Float32, and converted back, is the same; then the steps of HalView:    *)
(* those of the tree, those of the plugin's calls, and those that touch    *)
(* neither (Aside); then the tables of PropertyTables, class by class, what*)
(* follows for the five methods, and the calls of a session.               *)
(***************************************************************************)
EXTENDS HalView, FiniteSetTheorems, WellFoundedInduction, TLAPS

-----------------------------------------------------------------------------
(* Two threads are in methods of two objects.                              *)
LEMMA OneThreadPerObject ==
  ASSUME TreeInv, NEW t \in Threads, NEW u \in Threads,
         at[t] # "idle", at[u] # "idle", parent[t] = parent[u]
  PROVE  t = u
  BY DEF TreeInv, MutexInv

(* An object that is listed twice is listed by one owner.                  *)
LEMMA OneOwner ==
  ASSUME TreeInv, NEW o \in Objects, NEW p \in Objects, NEW c \in Objects,
         c \in owned[o], c \in owned[p]
  PROVE  o = p
  BY DEF TreeInv, TreeIsWhole, ListedOnce

(* Entering a method, for AddOwnedObject of an object nobody has claimed   *)
(* and for RemoveOwnedObject.                                              *)
LEMMA EnterKeeps ==
  ASSUME TreeInv, NEW t \in Threads, NEW o \in Objects, NEW c \in Objects,
         NEW step \in {"adding", "removing"}, Enter(t, o, c, step),
         step = "adding" => Unclaimed(c)
  PROVE  TreeInv'
<1> USE DEF Enter
<1>1. TreeTypeOK'  BY DEF TreeInv, TreeTypeOK, Steps
<1>2. OwnerListsIt'  BY DEF TreeInv, TreeIsWhole, OwnerListsIt
<1>3. ListedOnce'
  BY DEF TreeInv, TreeTypeOK, TreeIsWhole, ListedOnce, Joining, Parting
<1>4. MutexInv'  BY TreeAssumption DEF TreeInv, TreeTypeOK, MutexInv
<1>5. AddingInv'
  <2>1. ASSUME step = "adding"  PROVE owner[c] = NoObject
    BY <2>1 DEF TreeInv, TreeTypeOK, TreeIsWhole, OwnerListsIt, Unclaimed
  <2>q. QED  BY <2>1 DEF TreeInv, TreeTypeOK, AddingInv, Unclaimed
<1>6. HalfInv'  BY DEF TreeInv, TreeTypeOK, HalfInv
<1>q. QED  BY <1>1, <1>2, <1>3, <1>4, <1>5, <1>6 DEF TreeInv, TreeIsWhole

LEMMA AddToMapKeeps ==
  ASSUME TreeInv, NEW t \in Threads, AddToMap(t)
  PROVE  TreeInv'
<1> USE DEF AddToMap
<1>a. /\ parent[t] \in Objects /\ child[t] \in Objects
      /\ owner[child[t]] = NoObject
      /\ \A o \in Objects : child[t] \notin owned[o]
  BY DEF TreeInv, MutexInv, AddingInv
<1>1. TreeTypeOK'  BY <1>a DEF TreeInv, TreeTypeOK, Steps
<1>2. OwnerListsIt'  BY DEF TreeInv, TreeTypeOK, TreeIsWhole, OwnerListsIt
<1>3. ListedOnce'
  <2> SUFFICES ASSUME NEW o \in Objects, NEW c \in Objects, c \in owned'[o]
               PROVE  /\ \A other \in Objects \ {o} : c \notin owned'[other]
                      /\ owner'[c] # o =>
                           \E u \in Threads : Joining(u, o, c)' \/ Parting(u, o, c)'
    BY DEF ListedOnce
  <2>1. CASE c = child[t]
    <3>1. o = parent[t]  BY <1>a, <2>1 DEF TreeInv, TreeTypeOK
    <3>2. Joining(t, o, c)'  BY <2>1, <3>1 DEF TreeInv, TreeTypeOK, Joining
    <3>q. QED  BY <1>a, <2>1, <3>1, <3>2 DEF TreeInv, TreeTypeOK
  <2>2. CASE c # child[t]
    <3>1. \A p \in Objects : c \in owned'[p] <=> c \in owned[p]
      BY <2>2 DEF TreeInv, TreeTypeOK
    <3>2. ASSUME NEW u \in Threads, Joining(u, o, c) \/ Parting(u, o, c)
          PROVE  Joining(u, o, c)' \/ Parting(u, o, c)'
      BY <3>2 DEF TreeInv, TreeTypeOK, Joining, Parting
    <3>q. QED  BY <3>1, <3>2 DEF TreeInv, TreeIsWhole, ListedOnce
  <2>q. QED  BY <2>1, <2>2
<1>4. MutexInv'  BY DEF TreeInv, TreeTypeOK, MutexInv
<1>5. AddingInv'  BY <1>a DEF TreeInv, TreeTypeOK, AddingInv
<1>6. HalfInv'  BY <1>a DEF TreeInv, TreeTypeOK, MutexInv, HalfInv
<1>q. QED  BY <1>1, <1>2, <1>3, <1>4, <1>5, <1>6 DEF TreeInv, TreeIsWhole

LEMMA AttachOwnerKeeps ==
  ASSUME TreeInv, NEW t \in Threads, AttachOwner(t)
  PROVE  TreeInv'
<1> USE DEF AttachOwner, Leave
<1>a. /\ parent[t] \in Objects /\ child[t] \in Objects
      /\ child[t] \in owned[parent[t]]
  BY DEF TreeInv, MutexInv, HalfInv
<1>1. TreeTypeOK'  BY <1>a DEF TreeInv, TreeTypeOK, Steps
<1>2. OwnerListsIt'  BY <1>a DEF TreeInv, TreeTypeOK, TreeIsWhole, OwnerListsIt
<1>3. ListedOnce'
  <2> SUFFICES ASSUME NEW o \in Objects, NEW c \in Objects, c \in owned[o], owner'[c] # o
               PROVE  \E u \in Threads : Joining(u, o, c)' \/ Parting(u, o, c)'
    BY DEF TreeInv, TreeIsWhole, ListedOnce
  <2>1. c # child[t]
    BY <1>a, OneOwner DEF TreeInv, TreeTypeOK
  <2>2. PICK u \in Threads : Joining(u, o, c) \/ Parting(u, o, c)
    BY <2>1 DEF TreeInv, TreeTypeOK, TreeIsWhole, ListedOnce
  <2>3. u # t  BY <2>1, <2>2 DEF Joining, Parting
  <2>q. QED  BY <2>2, <2>3 DEF TreeInv, TreeTypeOK, Joining, Parting
<1>4. MutexInv'
  BY <1>a, OneThreadPerObject DEF TreeInv, TreeTypeOK, MutexInv
<1>5. AddingInv'  BY <1>a DEF TreeInv, TreeTypeOK, AddingInv
<1>6. HalfInv'
  <2> SUFFICES ASSUME NEW u \in Threads, at'[u] \in {"attaching", "detached"}
               PROVE  child'[u] \in owned'[parent'[u]] /\ owner'[child'[u]] = NoObject
    BY DEF HalfInv
  <2>1. u # t  BY DEF TreeInv, TreeTypeOK
  <2>2. /\ at'[u] = at[u] /\ parent'[u] = parent[u] /\ child'[u] = child[u]
        /\ parent[u] \in Objects /\ child[u] \in Objects
        /\ child[u] \in owned[parent[u]] /\ owner[child[u]] = NoObject
    BY <2>1 DEF TreeInv, TreeTypeOK, MutexInv, HalfInv
  <2>3. child[u] # child[t]
    BY <1>a, <2>1, <2>2, OneOwner, OneThreadPerObject
  <2>q. QED  BY <1>a, <2>2, <2>3 DEF TreeInv, TreeTypeOK
<1>q. QED  BY <1>1, <1>2, <1>3, <1>4, <1>5, <1>6 DEF TreeInv, TreeIsWhole

LEMMA RemoveAbsentKeeps ==
  ASSUME TreeInv, NEW t \in Threads, RemoveAbsent(t)
  PROVE  TreeInv'
<1> USE DEF RemoveAbsent, Leave
<1>a. parent[t] \in Objects  BY DEF TreeInv, MutexInv
<1>1. TreeTypeOK'  BY <1>a DEF TreeInv, TreeTypeOK, Steps
<1>2. OwnerListsIt'  BY DEF TreeInv, TreeIsWhole, OwnerListsIt
<1>3. ListedOnce'
  BY DEF TreeInv, TreeTypeOK, TreeIsWhole, ListedOnce, Joining, Parting
<1>4. MutexInv'
  BY <1>a, OneThreadPerObject DEF TreeInv, TreeTypeOK, MutexInv
<1>5. AddingInv'  BY DEF TreeInv, TreeTypeOK, AddingInv
<1>6. HalfInv'  BY DEF TreeInv, TreeTypeOK, HalfInv
<1>q. QED  BY <1>1, <1>2, <1>3, <1>4, <1>5, <1>6 DEF TreeInv, TreeIsWhole

LEMMA DetachOwnerKeeps ==
  ASSUME TreeInv, NEW t \in Threads, DetachOwner(t)
  PROVE  TreeInv'
<1> USE DEF DetachOwner
<1>a. parent[t] \in Objects /\ child[t] \in Objects  BY DEF TreeInv, MutexInv
<1>1. TreeTypeOK'  BY <1>a DEF TreeInv, TreeTypeOK, Steps
<1>2. OwnerListsIt'
  BY TreeAssumption DEF TreeInv, TreeTypeOK, TreeIsWhole, OwnerListsIt
<1>3. ListedOnce'
  <2> SUFFICES ASSUME NEW o \in Objects, NEW c \in Objects, c \in owned[o], owner'[c] # o
               PROVE  \E u \in Threads : Joining(u, o, c)' \/ Parting(u, o, c)'
    BY DEF TreeInv, TreeIsWhole, ListedOnce
  <2>1. CASE c = child[t]
    <3>1. o = parent[t]  BY <1>a, <2>1, OneOwner
    <3>q. QED  BY <2>1, <3>1 DEF TreeInv, TreeTypeOK, Parting
  <2>2. CASE c # child[t]
    BY <2>2 DEF TreeInv, TreeTypeOK, TreeIsWhole, ListedOnce, Joining, Parting
  <2>q. QED  BY <2>1, <2>2
<1>4. MutexInv'  BY DEF TreeInv, TreeTypeOK, MutexInv
<1>5. AddingInv'  BY <1>a DEF TreeInv, TreeTypeOK, AddingInv
<1>6. HalfInv'  BY <1>a DEF TreeInv, TreeTypeOK, HalfInv
<1>q. QED  BY <1>1, <1>2, <1>3, <1>4, <1>5, <1>6 DEF TreeInv, TreeIsWhole

LEMMA RemoveFromMapKeeps ==
  ASSUME TreeInv, NEW t \in Threads, RemoveFromMap(t)
  PROVE  TreeInv'
<1> USE DEF RemoveFromMap, Leave
<1>a. /\ parent[t] \in Objects /\ child[t] \in Objects
      /\ owner[child[t]] = NoObject /\ child[t] \in owned[parent[t]]
  BY DEF TreeInv, MutexInv, HalfInv
<1>b. \A o \in Objects : owned'[o] \subseteq owned[o]
  BY <1>a DEF TreeInv, TreeTypeOK
<1>1. TreeTypeOK'  BY <1>a DEF TreeInv, TreeTypeOK, Steps
<1>2. OwnerListsIt'
  BY <1>a, TreeAssumption DEF TreeInv, TreeTypeOK, TreeIsWhole, OwnerListsIt
<1>3. ListedOnce'
  <2> SUFFICES ASSUME NEW o \in Objects, NEW c \in Objects, c \in owned'[o]
               PROVE  /\ \A other \in Objects \ {o} : c \notin owned'[other]
                      /\ owner'[c] # o =>
                           \E u \in Threads : Joining(u, o, c)' \/ Parting(u, o, c)'
    BY DEF ListedOnce
  <2>1. c \in owned[o]  BY <1>b
  <2>2. c # child[t]  BY <1>a, <2>1, OneOwner DEF TreeInv, TreeTypeOK
  <2>3. \A other \in Objects \ {o} : c \notin owned'[other]
    BY <1>b, <2>1 DEF TreeInv, TreeIsWhole, ListedOnce
  <2>4. ASSUME owner[c] # o
        PROVE  \E u \in Threads : Joining(u, o, c)' \/ Parting(u, o, c)'
    <3>1. PICK u \in Threads : Joining(u, o, c) \/ Parting(u, o, c)
      BY <2>1, <2>4 DEF TreeInv, TreeIsWhole, ListedOnce
    <3>2. u # t  BY <2>2, <3>1 DEF Joining, Parting
    <3>q. QED  BY <3>1, <3>2 DEF TreeInv, TreeTypeOK, Joining, Parting
  <2>q. QED  BY <2>3, <2>4
<1>4. MutexInv'
  BY <1>a, OneThreadPerObject DEF TreeInv, TreeTypeOK, MutexInv
<1>5. AddingInv'  BY <1>b DEF TreeInv, TreeTypeOK, AddingInv
<1>6. HalfInv'
  <2> SUFFICES ASSUME NEW u \in Threads, at'[u] \in {"attaching", "detached"}
               PROVE  child'[u] \in owned'[parent'[u]] /\ owner'[child'[u]] = NoObject
    BY DEF HalfInv
  <2>1. u # t  BY DEF TreeInv, TreeTypeOK
  <2>2. /\ at[u] # "idle" /\ parent'[u] = parent[u] /\ child'[u] = child[u]
        /\ parent[u] \in Objects
        /\ child[u] \in owned[parent[u]] /\ owner[child[u]] = NoObject
    BY <2>1 DEF TreeInv, TreeTypeOK, MutexInv, HalfInv
  <2>3. parent[u] # parent[t]  BY <2>1, <2>2, OneThreadPerObject
  <2>q. QED  BY <1>a, <2>2, <2>3 DEF TreeInv, TreeTypeOK
<1>q. QED  BY <1>1, <1>2, <1>3, <1>4, <1>5, <1>6 DEF TreeInv, TreeIsWhole

-----------------------------------------------------------------------------
LEMMA TreeInitially == TreeInit => TreeInv
  BY TreeAssumption
  DEF TreeInit, TreeInv, TreeTypeOK, TreeIsWhole, OwnerListsIt, ListedOnce,
      MutexInv, AddingInv, HalfInv, Steps

LEMMA TreeNextKeeps ==
  ASSUME TreeInv, [TreeNext]_treeVars
  PROVE  TreeInv'
<1>1. ASSUME NEW t \in Threads, NEW o \in Objects, NEW c \in Objects,
             Unclaimed(c), AddOwnedObject(t, o, c)
      PROVE  TreeInv'
  <2>1. Enter(t, o, c, "adding")  BY <1>1 DEF AddOwnedObject
  <2>q. QED  BY <1>1, <2>1, EnterKeeps
<1>2. ASSUME NEW t \in Threads, NEW o \in Objects, NEW c \in Objects,
             RemoveOwnedObject(t, o, c)
      PROVE  TreeInv'
  <2>1. Enter(t, o, c, "removing")  BY <1>2 DEF RemoveOwnedObject
  <2>q. QED  BY <2>1, EnterKeeps
<1>3. ASSUME NEW t \in Threads, TreeStep(t)  PROVE TreeInv'
  BY <1>3, AddToMapKeeps, AttachOwnerKeeps, RemoveAbsentKeeps, DetachOwnerKeeps,
     RemoveFromMapKeeps DEF TreeStep
<1>4. CASE UNCHANGED treeVars
  BY <1>4 DEF treeVars, TreeInv, TreeTypeOK, TreeIsWhole, OwnerListsIt, ListedOnce,
     MutexInv, AddingInv, HalfInv, Joining, Parting
<1>q. QED  BY <1>1, <1>2, <1>3, <1>4 DEF TreeNext

LEMMA TreeInvariance == TreeSpec => []TreeInv
  BY TreeInitially, TreeNextKeeps, PTL DEF TreeSpec

(* Whatever threads add and remove, in whatever order their steps fall, an *)
(* object never names an owner that does not list it, is never listed by   *)
(* two, and a half edge is always being completed by a call on its way.    *)
THEOREM TreeIsAlwaysWhole == TreeSpec => []TreeIsWhole
<1>1. TreeInv => TreeIsWhole  BY DEF TreeInv
<1>q. QED  BY <1>1, TreeInvariance, PTL

-----------------------------------------------------------------------------
(* The quotient of a division.                                             *)
LEMMA DivisionFacts ==
  ASSUME NEW a \in Int, NEW b \in Int, b > 0
  PROVE  /\ a \div b \in Int
         /\ b * (a \div b) <= a
         /\ a < b * (a \div b) + b
<1>1. a \div b \in Int  OBVIOUS
<1>q. QED  BY <1>1, SMTT(30)

LEMMA ProductMonotone ==
  ASSUME NEW a \in Int, NEW b \in Int, NEW c \in Int, a <= b, c >= 0
  PROVE  a * c \in Int /\ b * c \in Int /\ a * c <= b * c
  BY SMTT(30)

(* A quotient is found by its bounds.                                      *)
LEMMA QuotientIs ==
  ASSUME NEW a \in Int, NEW b \in Int, b > 0, NEW q \in Int,
         b * q <= a, a < b * q + b
  PROVE  a \div b = q
  BY DivisionFacts, SMTT(30)

(* roundf is off by half at most, and is found by that.                    *)
LEMMA RoundBounds ==
  ASSUME NEW n \in Int, NEW d \in Int, d > 0
  PROVE  /\ Round(n, d) \in Int
         /\ 2 * (d * Round(n, d)) <= 2 * n + d
         /\ 2 * n < 2 * (d * Round(n, d)) + d
<1>1. 2 * n + d \in Int /\ 2 * d \in Int /\ 2 * d > 0  OBVIOUS
<1>q. QED  BY <1>1, DivisionFacts DEF Round

LEMMA RoundIs ==
  ASSUME NEW n \in Int, NEW d \in Int, d > 0, NEW q \in Int,
         2 * (d * q) <= 2 * n + d, 2 * n < 2 * (d * q) + d
  PROVE  Round(n, d) = q
<1>1. 2 * n + d \in Int /\ 2 * d \in Int /\ 2 * d > 0  OBVIOUS
<1>2. (2 * d) * q <= 2 * n + d /\ 2 * n + d < (2 * d) * q + 2 * d  BY SMTT(30)
<1>q. QED  BY <1>1, <1>2, QuotientIs DEF Round

(* The ranges.                                                             *)
LEMMA Ranges ==
  /\ RawRange \in Int /\ RawRange >= 1
  /\ DBRange \in Int /\ DBRange >= 1
  /\ Unit \in Int /\ Unit > RawRange
  /\ MinRaw + RawRange = MaxRaw /\ MinDB + DBRange = MaxDB
  BY VolumeAssumption DEF RawRange, DBRange

-----------------------------------------------------------------------------
(* The transfer function: a square, and the square root.                   *)

Near(k, x) ==
  /\ k > 0 => (2 * k - 1) * (2 * k - 1) * Unit <= 4 * RawRange * RawRange * x
  /\ 4 * RawRange * RawRange * x < (2 * k + 1) * (2 * k + 1) * Unit

LEMMA OddSquares ==
  ASSUME NEW j \in Int, NEW k \in Int, 0 <= j, j < k
  PROVE  /\ (2 * j + 1) * (2 * j + 1) * Unit \in Int
         /\ (2 * k - 1) * (2 * k - 1) * Unit \in Int
         /\ (2 * j + 1) * (2 * j + 1) * Unit <= (2 * k - 1) * (2 * k - 1) * Unit
<1>1. PICK a \in Int : a = 2 * j + 1  OBVIOUS
<1>2. PICK b \in Int : b = 2 * k - 1  OBVIOUS
<1>3. 0 <= a /\ a <= b  BY <1>1, <1>2
<1>4. a * a \in Int /\ b * b \in Int /\ a * b \in Int  OBVIOUS
<1>5. a * a <= a * b /\ a * b <= b * b  BY <1>3, SMTT(30)
<1>6. a * a <= b * b  BY <1>4, <1>5
<1>q. QED  BY <1>1, <1>2, <1>4, <1>6, ProductMonotone, Ranges

LEMMA NearIsUnique ==
  ASSUME NEW x \in Int, NEW j \in 0..RawRange, NEW k \in 0..RawRange,
         Near(j, x), Near(k, x)
  PROVE  j = k
<1> PICK y \in Int : y = 4 * RawRange * RawRange * x  BY Ranges
<1>1. ASSUME NEW a \in 0..RawRange, NEW b \in 0..RawRange, Near(a, x), Near(b, x), a < b
      PROVE  FALSE
  <2>1. y < (2 * a + 1) * (2 * a + 1) * Unit  BY <1>1 DEF Near
  <2>2. (2 * b - 1) * (2 * b - 1) * Unit <= y  BY <1>1, Ranges DEF Near
  <2>q. QED  BY <1>1, <2>1, <2>2, OddSquares, Ranges
<1>q. QED  BY <1>1, Ranges

(* There is a root for every scalar: the least n whose next square is      *)
(* beyond it.                                                              *)
LEMMA RootExists ==
  ASSUME NEW x \in 0..Unit
  PROVE  RootSteps(x) \in 0..RawRange
<1>a. x \in Int /\ 0 <= x /\ x <= Unit  BY Ranges
<1>b. PICK y \in Int : y = 4 * RawRange * RawRange * x  BY <1>a, Ranges
<1> DEFINE Beyond == {k \in Nat : y < (2 * k + 1) * (2 * k + 1) * Unit}
<1>1. RawRange \in Beyond
  <2>1. PICK s \in Int : s = 4 * RawRange * RawRange  BY Ranges
  <2>2. s >= 0  BY <2>1, Ranges, SMTT(30)
  <2>3. y <= s * Unit
    <3>1. y = x * s  BY <1>a, <1>b, <2>1, SMTT(30)
    <3>2. x * s <= Unit * s  BY <1>a, <2>2, ProductMonotone, Ranges
    <3>q. QED  BY <3>1, <3>2, <2>1, Ranges, SMTT(30)
  <2>4. (2 * RawRange + 1) * (2 * RawRange + 1) * Unit = s * Unit + 4 * (RawRange * Unit) + Unit
    BY <2>1, Ranges, SMTT(30)
  <2>5. RawRange * Unit \in Int /\ RawRange * Unit >= 0 /\ s * Unit \in Int
    BY <2>1, Ranges, SMTT(30)
  <2>6. y < (2 * RawRange + 1) * (2 * RawRange + 1) * Unit
    BY <2>3, <2>4, <2>5, <1>b, Ranges
  <2>q. QED  BY <2>6, Ranges
<1>2. PICK n \in Beyond : \A k \in Beyond : ~ (<<k, n>> \in OpToRel(<, Nat))
  <2>1. Beyond \subseteq Nat /\ Beyond # {}  BY <1>1
  <2> HIDE DEF Beyond
  <2>q. QED  BY <2>1, NatLessThanWellFounded, WFMin
<1>3. ASSUME NEW k \in Beyond  PROVE n <= k
  <2>1. k \in Nat /\ n \in Nat  OBVIOUS
  <2>2. ~ (<<k, n>> \in OpToRel(<, Nat))  BY <1>2
  <2>3. k < n => <<k, n>> \in {ss \in Nat \X Nat : ss[1] < ss[2]}  BY <2>1
  <2>4. ~ (k < n)  BY <2>2, <2>3 DEF OpToRel
  <2>q. QED  BY <2>1, <2>4
<1>4. n \in Nat /\ n <= RawRange  BY <1>1, <1>3
<1>5. ASSUME n > 0  PROVE (2 * n - 1) * (2 * n - 1) * Unit <= y
  <2>1. PICK k \in Nat : k = n - 1  BY <1>4, <1>5
  <2>2. k \notin Beyond  BY <1>3, <1>4, <2>1
  <2>3. PICK z \in Int : z = (2 * k + 1) * (2 * k + 1) * Unit  BY Ranges
  <2>4. z <= y  BY <1>b, <2>2, <2>3
  <2>5. 2 * n - 1 = 2 * k + 1  BY <1>4, <2>1
  <2>q. QED  BY <2>3, <2>4, <2>5
<1>6. n \in 0..RawRange /\ Near(n, x)  BY <1>b, <1>4, <1>5, Ranges DEF Near
<1>q. QED  BY <1>6 DEF RootSteps, Near

LEMMA SquareIsNear ==
  ASSUME NEW n \in 0..RawRange
  PROVE  LET x == Round(Unit * n * n, RawRange * RawRange)
         IN  x \in 0..Unit /\ Near(n, x)
<1> DEFINE x == Round(Unit * n * n, RawRange * RawRange)
<1>a. n \in Int /\ 0 <= n /\ n <= RawRange  BY Ranges
<1>b. PICK s \in Int : s = RawRange * RawRange  BY Ranges
<1>c. PICK a \in Int : a = Unit * n * n  BY <1>a, Ranges
<1>d. s > 0  BY <1>b, Ranges, SMTT(30)
<1>1. /\ x \in Int
      /\ 2 * (s * x) <= 2 * a + s
      /\ 2 * a < 2 * (s * x) + s
  BY <1>b, <1>c, <1>d, RoundBounds
<1>2. n * n <= s
  <2>1. n * n <= RawRange * n  BY <1>a, ProductMonotone, Ranges
  <2>2. n * RawRange <= RawRange * RawRange  BY <1>a, ProductMonotone, Ranges
  <2>q. QED  BY <1>a, <1>b, <2>1, <2>2, Ranges, SMTT(30)
<1>3. 0 <= a /\ a <= Unit * s
  <2>1. n * n \in Int /\ 0 <= n * n  BY <1>a, SMTT(30)
  <2>q. QED  BY <1>2, <1>a, <1>c, <2>1, ProductMonotone, Ranges, SMTT(30)
<1>4. 0 <= x  BY <1>1, <1>3, <1>d, SMTT(30)
<1>5. x <= Unit  BY <1>1, <1>3, <1>d, Ranges, SMTT(30)
<1>6. 3 * Unit >= 2 * s  BY <1>b, Ranges, VolumeAssumption
<1>7. PICK y \in Int : y = s * x  BY <1>1
<1>8. PICK p \in Int : p = Unit * n  BY <1>a, Ranges
<1>9. 4 * RawRange * RawRange * x = 4 * y  BY <1>b, <1>1, <1>7, Ranges, SMTT(30)
<1>10. /\ (2 * n - 1) * (2 * n - 1) * Unit = 4 * a - 4 * p + Unit
       /\ (2 * n + 1) * (2 * n + 1) * Unit = 4 * a + 4 * p + Unit
  BY <1>a, <1>c, <1>8, Ranges, SMTT(30)
<1>11. n > 0 => p >= Unit  BY <1>a, <1>8, Ranges, SMTT(30)
<1>12. n > 0 => 4 * a - 4 * p + Unit <= 4 * y
  BY <1>1, <1>6, <1>7, <1>11, Ranges
<1>13. 4 * y < 4 * a + 4 * p + Unit
  <2>1. CASE n > 0  BY <2>1, <1>1, <1>6, <1>7, <1>11, Ranges
  <2>2. CASE n = 0
    <3>1. a = 0 /\ p = 0  BY <2>2, <1>c, <1>8, Ranges
    <3>2. 2 * (s * x) <= s  BY <1>1, <3>1
    <3>3. x = 0  BY <3>2, <1>1, <1>4, <1>d, SMTT(30)
    <3>q. QED  BY <3>1, <3>3, <1>7, Ranges
  <2>q. QED  BY <1>a, <2>1, <2>2
<1>q. QED  BY <1>1, <1>4, <1>5, <1>9, <1>10, <1>12, <1>13, Ranges DEF Near

LEMMA RootOfSquare ==
  ASSUME NEW n \in 0..RawRange
  PROVE  RootSteps(Round(Unit * n * n, RawRange * RawRange)) = n
<1> DEFINE x == Round(Unit * n * n, RawRange * RawRange)
<1>1. x \in 0..Unit /\ Near(n, x)  BY SquareIsNear
<1>2. RootSteps(x) = CHOOSE k \in 0..RawRange : Near(k, x)  BY DEF RootSteps, Near
<1>3. (CHOOSE k \in 0..RawRange : Near(k, x)) \in 0..RawRange
      /\ Near(CHOOSE k \in 0..RawRange : Near(k, x), x)
  BY <1>1
<1>q. QED  BY <1>1, <1>2, <1>3, NearIsUnique, Ranges

-----------------------------------------------------------------------------
(* A linear scale of m steps over RawRange raw values, if the steps are    *)
(* finer than the raw values.                                              *)
LEMMA LinearRoundTrip ==
  ASSUME NEW m \in Int, m > RawRange, NEW n \in 0..RawRange
  PROVE  LET x == Round(m * n, RawRange)
         IN  x \in 0..m /\ Round(x * RawRange, m) = n
<1> DEFINE x == Round(m * n, RawRange)
<1>a. n \in Int /\ 0 <= n /\ n <= RawRange  BY Ranges
<1>b. PICK a \in Int : a = m * n  BY <1>a
<1>1. /\ x \in Int
      /\ 2 * (RawRange * x) <= 2 * a + RawRange
      /\ 2 * a < 2 * (RawRange * x) + RawRange
  <2>1. x = Round(a, RawRange) /\ RawRange \in Int /\ RawRange > 0  BY <1>b, Ranges
  <2> HIDE DEF x
  <2>q. QED  BY <2>1, RoundBounds
<1>2. 0 <= a /\ a <= m * RawRange  BY <1>a, <1>b, Ranges, ProductMonotone, SMTT(30)
<1>3. 0 <= x  BY <1>1, <1>2, Ranges, SMTT(30)
<1>4. x <= m  BY <1>1, <1>2, Ranges, SMTT(30)
<1>5. PICK y \in Int : y = x * RawRange  BY <1>1, Ranges
<1>6. RawRange * x = y  BY <1>1, <1>5, Ranges, SMTT(30)
<1>7. 2 * (m * n) <= 2 * y + m /\ 2 * y < 2 * (m * n) + m
  BY <1>1, <1>6, <1>b, Ranges
<1>8. Round(y, m) = n  BY <1>7, <1>a, RoundIs, Ranges
<1>q. QED  BY <1>1, <1>3, <1>4, <1>5, <1>8, Ranges

-----------------------------------------------------------------------------
(* ConvertScalarToRaw undoes ConvertRawToScalar.                           *)
THEOREM ScalarRoundTrip ==
  ASSUME NEW raw \in MinRaw..MaxRaw
  PROVE  ConvertScalarToRaw(ConvertRawToScalar(raw)) = raw
<1> DEFINE n == raw - MinRaw
<1>1. n \in 0..RawRange /\ ClampedRaw(raw) - MinRaw = n /\ MinRaw + n = raw
  BY VolumeAssumption DEF ClampedRaw, Clamped, RawRange
<1>2. CASE Curved
  <2> DEFINE x == Round(Unit * n * n, RawRange * RawRange)
  <2>1. x \in 0..Unit  BY <1>1, SquareIsNear
  <2>2. ConvertRawToScalar(raw) = x  BY <1>1, <1>2 DEF ConvertRawToScalar
  <2>3. ClampedScalar(x) = x  BY <2>1, Ranges DEF ClampedScalar, Clamped
  <2>4. RootSteps(x) = n  BY <1>1, RootOfSquare
  <2> HIDE DEF x
  <2>q. QED  BY <1>1, <1>2, <2>2, <2>3, <2>4 DEF ConvertScalarToRaw
<1>3. CASE ~Curved
  <2> DEFINE x == Round(Unit * n, RawRange)
  <2>1. x \in 0..Unit /\ Round(x * RawRange, Unit) = n  BY <1>1, LinearRoundTrip, Ranges
  <2>2. ConvertRawToScalar(raw) = x  BY <1>1, <1>3 DEF ConvertRawToScalar
  <2>3. ClampedScalar(x) = x  BY <2>1, Ranges DEF ClampedScalar, Clamped
  <2> HIDE DEF x
  <2>q. QED  BY <1>1, <1>3, <2>1, <2>2, <2>3 DEF ConvertScalarToRaw
<1>q. QED  BY <1>2, <1>3

(* ConvertDBToRaw undoes ConvertRawToDB.                                   *)
THEOREM DecibelRoundTrip ==
  ASSUME NEW raw \in MinRaw..MaxRaw
  PROVE  ConvertDBToRaw(ConvertRawToDB(raw)) = raw
<1> DEFINE n == raw - MinRaw
<1>1. n \in 0..RawRange /\ ClampedRaw(raw) - MinRaw = n /\ MinRaw + n = raw
  BY VolumeAssumption DEF ClampedRaw, Clamped, RawRange
<1>2. PICK m \in Int : m = Unit * DBRange  BY Ranges
<1>3. m >= Unit /\ m > RawRange  BY <1>2, Ranges, SMTT(30)
<1>4. Unit * n * DBRange = m * n  BY <1>1, <1>2, Ranges, SMTT(30)
<1> DEFINE x == Round(m * n, RawRange)
<1>5. x \in 0..m /\ Round(x * RawRange, m) = n  BY <1>1, <1>3, LinearRoundTrip
<1>6. ConvertRawToDB(raw) = Unit * MinDB + x  BY <1>1, <1>4 DEF ConvertRawToDB
<1>7. PICK low \in Int : low = Unit * MinDB  BY VolumeAssumption, Ranges
<1>8. Unit * MaxDB = low + m
  <2>1. Unit * (MinDB + DBRange) = Unit * MinDB + Unit * DBRange
    BY VolumeAssumption, Ranges, SMTT(30)
  <2>q. QED  BY <1>2, <1>7, <2>1, Ranges
<1>9. ClampedDB(low + x) - low = x
  BY <1>5, <1>7, <1>8 DEF ClampedDB, Clamped
<1> HIDE DEF x
<1>q. QED  BY <1>1, <1>2, <1>5, <1>6, <1>7, <1>9 DEF ConvertDBToRaw

(* Whatever a HAL asks for, the result is a raw value.                     *)
LEMMA ConversionTypes ==
  /\ \A x \in Int : ConvertScalarToRaw(x) \in Int /\ ConvertDBToRaw(x) \in Int
  /\ \A raw \in MinRaw..MaxRaw : ConvertRawToScalar(raw) \in Int /\ ConvertRawToDB(raw) \in Int
<1>a. MinRaw \in Int /\ MinDB \in Int /\ MaxDB \in Int  BY VolumeAssumption
<1>1. ASSUME NEW x \in Int  PROVE ConvertScalarToRaw(x) \in Int
  <2>1. PICK y \in 0..Unit : y = ClampedScalar(x)  BY Ranges DEF ClampedScalar, Clamped
  <2>2. RootSteps(y) \in Int  BY RootExists, Ranges
  <2>3. y * RawRange \in Int  BY Ranges
  <2>4. Round(y * RawRange, Unit) \in Int  BY <2>3, RoundBounds, Ranges
  <2>q. QED  BY <1>a, <2>1, <2>2, <2>4 DEF ConvertScalarToRaw
<1>2. ASSUME NEW x \in Int  PROVE ConvertDBToRaw(x) \in Int
  <2>1. Unit * MinDB \in Int /\ Unit * MaxDB \in Int  BY <1>a, Ranges
  <2>2. PICK y \in Int : y = ClampedDB(x) - Unit * MinDB  BY <2>1 DEF ClampedDB, Clamped
  <2>3. y * RawRange \in Int /\ Unit * DBRange \in Int /\ Unit * DBRange > 0
    BY Ranges, SMTT(30)
  <2>4. Round(y * RawRange, Unit * DBRange) \in Int  BY <2>3, RoundBounds
  <2>q. QED  BY <1>a, <2>2, <2>4 DEF ConvertDBToRaw
<1>3. ASSUME NEW raw \in MinRaw..MaxRaw
      PROVE  ConvertRawToScalar(raw) \in Int /\ ConvertRawToDB(raw) \in Int
  <2>1. PICK n \in Int : n = ClampedRaw(raw) - MinRaw
    BY VolumeAssumption DEF ClampedRaw, Clamped
  <2>2. /\ Unit * n * n \in Int /\ Unit * n \in Int /\ Unit * n * DBRange \in Int
        /\ RawRange * RawRange \in Int /\ RawRange * RawRange > 0 /\ Unit * MinDB \in Int
    <3>1. RawRange * RawRange > 0  BY Ranges, SMTT(30)
    <3>2. Unit * n \in Int /\ Unit * MinDB \in Int /\ RawRange * RawRange \in Int  BY <1>a, Ranges
    <3>3. Unit * n * n \in Int /\ Unit * n * DBRange \in Int  BY <3>2, Ranges
    <3>q. QED  BY <3>1, <3>2, <3>3
  <2>3. /\ Round(Unit * n * n, RawRange * RawRange) \in Int
        /\ Round(Unit * n, RawRange) \in Int /\ Round(Unit * n * DBRange, RawRange) \in Int
    <3>1. PICK a \in Int : a = Unit * n * n  BY <2>2
    <3>2. PICK b \in Int : b = RawRange * RawRange /\ b > 0  BY <2>2
    <3>3. PICK c \in Int : c = Unit * n  BY <2>2
    <3>4. PICK d \in Int : d = Unit * n * DBRange  BY <2>2
    <3>5. Round(a, b) \in Int  BY <3>2, RoundBounds
    <3>6. PICK r \in Int : r = RawRange /\ r > 0  BY Ranges
    <3>7. Round(c, r) \in Int /\ Round(d, r) \in Int  BY <3>6, RoundBounds
    <3>q. QED  BY <3>1, <3>2, <3>3, <3>4, <3>5, <3>6, <3>7
  <2>q. QED  BY <2>1, <2>2, <2>3 DEF ConvertRawToScalar, ConvertRawToDB
<1>q. QED  BY <1>1, <1>2, <1>3

-----------------------------------------------------------------------------
(* The steps of setters and of the HAL.                                    *)

AsideThread(t) ==
  \/ pc'[t] = pc[t] /\ arg'[t] = arg[t]
  \/ /\ pc[t] \notin InPlugin \union {"removing"}
     /\ pc'[t] \notin InPlugin \union {"removing"}

Aside ==
  /\ UNCHANGED <<treeVars, listed, pluginMutex, alive, uid>>
  /\ DOMAIN pc' = DOMAIN pc /\ DOMAIN arg' = DOMAIN arg
  /\ \A t \in Threads : AsideThread(t)

SetterStep ==
  \/ \E t \in Threads : \E x \in UserValues : SetValue(t, x)
  \/ \E t \in AllThreads : Sets(t)

HalStep ==
  \/ \E a \in Accessors : RegisterCustomProperty(a)
  \/ InitializeJumper \/ HalAsk \/ HalRefresh \/ HalReads \/ HalTrySetPropertyData \/ HalSets

PluginStep ==
  \/ \E t \in Threads : \E d \in Devices : AddDevice(t, d) \/ RemoveDevice(t, d)
  \/ \E t \in Threads : RemoveNotOwned(t) \/ Continues(t)
  \/ \E d \in Devices : DropDevice(d)

LEMMA StepGroups == Next => PluginStep \/ SetterStep \/ HalStep
  BY DEF Next, PluginStep, SetterStep, HalStep, Starts

LEMMA SettersAside ==
  ASSUME CallInv, SetterStep
  PROVE  Aside
<1>1. /\ UNCHANGED <<treeVars, listed, pluginMutex, alive, uid>>
      /\ DOMAIN pc' = DOMAIN pc /\ DOMAIN arg' = DOMAIN arg
  BY DEF SetterStep, Sets, SetValue, KeepValue, RejectValue, StoreValue, NotifyValue, Goto, pluginVars,
         setterVars, halVars
<1>2. ASSUME NEW t \in Threads  PROVE AsideThread(t)
  <2>1. ASSUME NEW x, SetValue(t, x)  PROVE AsideThread(t)
    BY <2>1 DEF SetValue, Goto, AsideThread, InPlugin, Listing, Unlisting, CallInv, AllThreads
  <2>2. ASSUME Sets(t)  PROVE AsideThread(t)
    BY <2>2 DEF Sets, KeepValue, RejectValue, StoreValue, NotifyValue, Goto, AsideThread,
                InPlugin, Listing, Unlisting, CallInv, AllThreads
  <2>3. ASSUME NEW u \in AllThreads, u # t,
               (\E x \in UserValues : SetValue(u, x)) \/ Sets(u)
        PROVE  AsideThread(t)
    BY <2>3 DEF Sets, SetValue, KeepValue, RejectValue, StoreValue, NotifyValue, Goto, AsideThread,
                CallInv, AllThreads
  <2>q. QED  BY <2>1, <2>2, <2>3 DEF SetterStep, AllThreads
<1>q. QED  BY <1>1, <1>2 DEF Aside

LEMMA HalAside ==
  ASSUME CallInv, HalStep
  PROVE  Aside
<1> USE DEF pluginVars, setterVars, Aside, AsideThread
<1>1. CASE \E a \in Accessors : RegisterCustomProperty(a)
  BY <1>1 DEF RegisterCustomProperty
<1>2. CASE InitializeJumper  BY <1>2 DEF InitializeJumper
<1>3. CASE HalAsk \/ HalRefresh  BY <1>3 DEF HalAsk, HalRefresh, Begin
<1>4. CASE HalReads
  BY <1>4 DEF HalReads, HalIsPropertySettable, HalGetPropertyDataSize, HalGetPropertyData,
              HalDone, Ask
<1>5. CASE HalTrySetPropertyData  BY <1>5 DEF HalTrySetPropertyData, Ask
<1>6. CASE HalSets
  <2>1. \A t \in Threads : t # Hal  BY ViewAssumption
  <2>q. QED  BY <1>6, <2>1 DEF HalSets, HalSetPropertyData
<1>q. QED  BY <1>1, <1>2, <1>3, <1>4, <1>5, <1>6 DEF HalStep

LEMMA AsideKeeps ==
  ASSUME ListsInv, Aside
  PROVE  ListsInv'
<1> USE DEF ListsInv, Aside, treeVars
<1>1. \A t \in Threads :
        /\ at'[t] = at[t] /\ parent'[t] = parent[t] /\ child'[t] = child[t]
        /\ \/ pc'[t] = pc[t] /\ arg'[t] = arg[t]
           \/ at[t] = "idle" /\ pc'[t] \notin InPlugin
  BY DEF AsideThread, CallInv, InPlugin
<1>2. CallInv'  BY <1>1 DEF CallInv
<1>3. ListingInv'  BY <1>1 DEF ListingInv, InPlugin
<1>4. ContentInv'
  BY <1>1 DEF ContentInv, InPlugin, Passed, Holds, SameUID, HasOwnUID
<1>q. QED  BY <1>2, <1>3, <1>4

-----------------------------------------------------------------------------
(* The calls of the plugin.                                                *)

LEMMA Distinct ==
  /\ Plugin \in Objects /\ Home \in Objects /\ Device2 \in Objects
  /\ Devices \subseteq Objects
  /\ Plugin # Home /\ Home # Device2
  /\ Plugin \notin Devices /\ Home \in Devices /\ Device2 \in Devices
  /\ NoThread \notin Threads /\ NoObject \notin Objects
  /\ Threads \subseteq AllThreads /\ Hal \notin Threads
  BY ViewAssumption, TreeAssumption DEF Devices, AllThreads

(* The mutex of the plugin leaves one thread in its calls.                 *)
LEMMA OneInPlugin ==
  ASSUME CallInv, NEW t \in Threads, NEW u \in Threads,
         pc[t] \in InPlugin, pc[u] \in InPlugin
  PROVE  t = u
  BY DEF CallInv

(* Outside the plugin's calls an object without owner is in no map.        *)
LEMMA AtRest ==
  ASSUME TreeInv, CallInv, pluginMutex = NoThread, NEW d \in Devices, owner[d] = NoObject
  PROVE  d \notin owned[Plugin]
<1> SUFFICES ASSUME d \in owned[Plugin]  PROVE FALSE
  OBVIOUS
<1>1. PICK t \in Threads : Joining(t, Plugin, d) \/ Parting(t, Plugin, d)
  BY Distinct DEF TreeInv, TreeIsWhole, ListedOnce
<1>2. at[t] # "idle" /\ at[t] # "removing"  BY <1>1 DEF Joining, Parting
<1>3. pc[t] = "inTree"  BY <1>2 DEF CallInv
<1>q. QED  BY <1>3, Distinct DEF CallInv, InPlugin

LEMMA BeginKeeps ==
  ASSUME TreeInv, ListsInv, NEW t \in Threads, NEW d \in Devices,
         AddDevice(t, d) \/ RemoveDevice(t, d)
  PROVE  ListsInv'
<1> USE DEF ListsInv, AddDevice, RemoveDevice, Goto, treeVars, halVars
<1>1. /\ UNCHANGED <<treeVars, listed, alive, uid>>
      /\ pluginMutex = NoThread /\ pluginMutex' = t /\ d \in alive
      /\ pc' = [pc EXCEPT ![t] = pc'[t]] /\ arg' = [arg EXCEPT ![t] = d]
      /\ arg'[t] = d /\ pc[t] = "idle"
      /\ \/ pc'[t] = "listing" /\ owner[d] = NoObject
         \/ pc'[t] = "unlisting"
  BY Distinct DEF CallInv
<1>2. \A u \in Threads : pc[u] \notin InPlugin  BY <1>1, Distinct DEF CallInv
<1>3. at[t] = "idle"  BY <1>1 DEF CallInv
<1>4. \A u \in Threads \ {t} : pc'[u] = pc[u] /\ arg'[u] = arg[u]
  BY <1>1, Distinct DEF CallInv
<1>5. CallInv'
  BY <1>1, <1>2, <1>3, <1>4, Distinct DEF CallInv, InPlugin, Listing, Unlisting
<1>6. ListingInv'
  BY <1>1, <1>2, <1>4, AtRest, Distinct DEF ListingInv, InPlugin, Unlisting, Listing
<1>7. ContentInv'
  BY <1>1, <1>2, <1>4, Distinct DEF ContentInv, InPlugin, Listing, Unlisting, Passed,
     Holds, SameUID, HasOwnUID
<1>q. QED  BY <1>5, <1>6, <1>7

(* What the containers have once a device is entered or erased.            *)
Entered(c, d) ==
  IF c # "byUID" THEN listed[c] \union {d}
  ELSE (listed[c] \ SameUID(d)) \union (SameUID(d) \intersect {d})
Erased(c, d) == IF c # "byUID" THEN listed[c] \ {d} ELSE listed[c] \ SameUID(d)

Fits(c, content, devices) ==
  IF c # "byUID" THEN content = devices
  ELSE /\ content \subseteq devices
       /\ \A d \in content : SameUID(d) \intersect content = {d}
       /\ \A d \in devices : HasOwnUID(d) => d \in content

LEMMA ChangedFits ==
  ASSUME NEW c, NEW devices \in SUBSET Devices, NEW d \in Devices, Holds(c, devices)
  PROVE  /\ Fits(c, Entered(c, d), devices \union {d})
         /\ Fits(c, Erased(c, d), devices \ {d})
<1>1. CASE c # "byUID"  BY <1>1 DEF Holds, Fits, Entered, Erased
<1>2. CASE c = "byUID"
  <2>1. /\ listed[c] \subseteq devices
        /\ \A e \in listed[c] : SameUID(e) \intersect listed[c] = {e}
        /\ \A e \in devices : HasOwnUID(e) => e \in listed[c]
    BY <1>2 DEF Holds
  <2>2. \A e \in Devices : e \in SameUID(d) => SameUID(e) = SameUID(d)
    BY DEF SameUID
  <2>3. \A e \in Devices : e \notin SameUID(d) => SameUID(e) \intersect SameUID(d) = {}
    BY DEF SameUID
  <2>4. ASSUME NEW e \in Devices, HasOwnUID(e), e # d  PROVE e \notin SameUID(d)
    <3>1. e \in SameUID(d) => d \in SameUID(e)  BY DEF SameUID
    <3>q. QED  BY <2>4, <3>1 DEF HasOwnUID
  <2>5. Fits(c, Erased(c, d), devices \ {d})
    <3>1. \A e \in listed[c] : SameUID(e) \intersect {e} = {e}  BY <2>1
    <3>2. d \notin Erased(c, d)
      BY <1>2, <3>1 DEF Erased
    <3>q. QED  BY <1>2, <2>1, <2>4, <3>2 DEF Fits, Erased
  <2>6. Fits(c, Entered(c, d), devices \union {d})
    <3>1. ASSUME NEW e \in Entered(c, d)
          PROVE  SameUID(e) \intersect Entered(c, d) = {e}
      <4>1. CASE e = d
        <5>1. d \in SameUID(d)  BY <1>2, <2>1, <3>1, <4>1 DEF Entered
        <5>q. QED  BY <1>2, <4>1, <5>1 DEF Entered
      <4>2. CASE e # d
        <5>1. e \in listed[c] /\ e \notin SameUID(d) /\ e \in Devices
          BY <1>2, <2>1, <3>1, <4>2 DEF Entered
        <5>2. SameUID(e) \intersect SameUID(d) = {}  BY <2>3, <5>1
        <5>q. QED  BY <1>2, <2>1, <5>1, <5>2 DEF Entered
      <4>q. QED  BY <4>1, <4>2
    <3>2. Entered(c, d) \subseteq devices \union {d}  BY <1>2, <2>1 DEF Entered
    <3>3. \A e \in devices \union {d} : HasOwnUID(e) => e \in Entered(c, d)
      BY <1>2, <2>1, <2>4 DEF Entered, HasOwnUID
    <3>q. QED  BY <1>2, <3>1, <3>2, <3>3 DEF Fits
  <2>q. QED  BY <2>5, <2>6
<1>q. QED  BY <1>1, <1>2

(* The containers, one after the other.                                    *)
LEMMA ContainerKeeps ==
  ASSUME TreeInv, ListsInv, NEW t \in Threads, ListDevice(t) \/ UnlistDevice(t)
  PROVE  ListsInv'
<1> USE DEF ListsInv
<1> DEFINE Step(from, to, c) ==
      /\ pc[t] = from /\ pc' = [pc EXCEPT ![t] = to]
      /\ UNCHANGED <<treeVars, pluginMutex, alive, arg, uid>>
      /\ \/ from \in Listing /\ listed' = [listed EXCEPT ![c] = Entered(c, arg[t])]
         \/ from \in Unlisting /\ listed' = [listed EXCEPT ![c] = Erased(c, arg[t])]
<1>a. \/ Step("listing", "listingID", "devices")
      \/ Step("listingID", "listingUID", "byID")
      \/ Step("listingUID", "owning", "byUID")
      \/ Step("unlisting", "unlistingID", "devices")
      \/ Step("unlistingID", "unlistingUID", "byID")
      \/ Step("unlistingUID", "disowning", "byUID")
  <2>1. ASSUME ListDevice(t)
        PROVE  \/ Step("listing", "listingID", "devices")
               \/ Step("listingID", "listingUID", "byID")
               \/ Step("listingUID", "owning", "byUID")
    BY <2>1 DEF ListDevice, SetContainer, Goto, Listing, Entered, halVars
  <2>2. ASSUME UnlistDevice(t)
        PROVE  \/ Step("unlisting", "unlistingID", "devices")
               \/ Step("unlistingID", "unlistingUID", "byID")
               \/ Step("unlistingUID", "disowning", "byUID")
    BY <2>2 DEF UnlistDevice, SetContainer, Goto, Unlisting, Erased, halVars
  <2> HIDE DEF Step
  <2>q. QED  BY <2>1, <2>2
<1>1. /\ UNCHANGED <<treeVars, pluginMutex, alive, arg, uid>>
      /\ pc' = [pc EXCEPT ![t] = pc'[t]]
      /\ \/ pc[t] \in Listing /\ pc'[t] \in Listing
         \/ pc[t] \in Unlisting /\ pc'[t] \in Unlisting
      /\ \E c \in Containers :
           /\ Passed(pc'[t]) = Passed(pc[t]) \union {c} /\ c \notin Passed(pc[t])
           /\ \/ pc[t] \in Listing /\ listed' = [listed EXCEPT ![c] = Entered(c, arg[t])]
              \/ pc[t] \in Unlisting /\ listed' = [listed EXCEPT ![c] = Erased(c, arg[t])]
  <2>1. DOMAIN pc = AllThreads /\ t \in AllThreads  BY Distinct DEF CallInv
  <2> USE DEF Passed, Containers, Listing, Unlisting
  <2>2. CASE Step("listing", "listingID", "devices")  BY <2>1, <2>2
  <2>3. CASE Step("listingID", "listingUID", "byID")  BY <2>1, <2>3
  <2>4. CASE Step("listingUID", "owning", "byUID")  BY <2>1, <2>4
  <2>5. CASE Step("unlisting", "unlistingID", "devices")  BY <2>1, <2>5
  <2>6. CASE Step("unlistingID", "unlistingUID", "byID")  BY <2>1, <2>6
  <2>7. CASE Step("unlistingUID", "disowning", "byUID")  BY <2>1, <2>7
  <2>q. QED  BY <1>a, <2>2, <2>3, <2>4, <2>5, <2>6, <2>7
<1> HIDE DEF Step
<1>2. at[t] = "idle" /\ pc[t] \in InPlugin /\ pc'[t] \in InPlugin
  BY <1>1 DEF CallInv, InPlugin, Listing, Unlisting
<1>3. \A u \in Threads \ {t} : pc'[u] = pc[u] /\ pc[u] \notin InPlugin
  BY <1>1, <1>2, OneInPlugin, Distinct DEF CallInv
<1>4. CallInv'
  BY <1>1, <1>2, <1>3, Distinct DEF CallInv, treeVars
<1>5. ListingInv'
  BY <1>1, <1>3 DEF ListingInv, treeVars, InPlugin, Listing, Unlisting
<1>6. ContentInv'
  <2>1. PICK c \in Containers :
          /\ Passed(pc'[t]) = Passed(pc[t]) \union {c} /\ c \notin Passed(pc[t])
          /\ \/ pc[t] \in Listing /\ listed' = [listed EXCEPT ![c] = Entered(c, arg[t])]
             \/ pc[t] \in Unlisting /\ listed' = [listed EXCEPT ![c] = Erased(c, arg[t])]
    BY <1>1
  <2>2. pluginMutex' = t /\ pluginMutex' # NoThread /\ owned' = owned /\ arg' = arg /\ uid' = uid
    BY <1>1, <1>2, Distinct DEF CallInv, treeVars
  <2>3. DOMAIN listed = Containers /\ DOMAIN listed' = Containers  BY <2>1 DEF ContentInv
  <2>a. owned[Plugin] \subseteq Devices /\ arg[t] \in Devices
    BY <1>2 DEF CallInv
  <2>4. ASSUME NEW e \in Containers, pc'[t] \in Listing
        PROVE  Fits(e, listed'[e],
                    owned[Plugin] \union (IF e \in Passed(pc'[t]) THEN {arg[t]} ELSE {}))
    <3>1. pc[t] \in Listing /\ pc[t] \notin Unlisting
      BY <1>1, <2>4 DEF Listing, Unlisting
    <3>2. Holds(e, owned[Plugin] \union (IF e \in Passed(pc[t]) THEN {arg[t]} ELSE {}))
      BY <3>1 DEF ContentInv
    <3>3. CASE e = c
      <4>1. Holds(e, owned[Plugin])  BY <2>1, <3>2, <3>3
      <4>2. Fits(e, Entered(e, arg[t]), owned[Plugin] \union {arg[t]})
        BY <2>a, <4>1, ChangedFits
      <4>q. QED  BY <2>1, <2>3, <3>1, <3>3, <4>2
    <3>4. CASE e # c
      <4>1. listed'[e] = listed[e] /\ (e \in Passed(pc'[t]) <=> e \in Passed(pc[t]))
        BY <2>1, <2>3, <3>1, <3>4
      <4>q. QED  BY <3>2, <4>1 DEF Holds, Fits
    <3>q. QED  BY <3>3, <3>4
  <2>5. ASSUME NEW e \in Containers, pc'[t] \in Unlisting
        PROVE  Fits(e, listed'[e],
                    owned[Plugin] \ (IF e \in Passed(pc'[t]) THEN {arg[t]} ELSE {}))
    <3>1. pc[t] \in Unlisting /\ pc[t] \notin Listing
      BY <1>1, <2>5 DEF Listing, Unlisting
    <3>2. Holds(e, owned[Plugin] \ (IF e \in Passed(pc[t]) THEN {arg[t]} ELSE {}))
      BY <3>1 DEF ContentInv
    <3>3. CASE e = c
      <4>1. Holds(e, owned[Plugin])  BY <2>1, <3>2, <3>3
      <4>2. Fits(e, Erased(e, arg[t]), owned[Plugin] \ {arg[t]})
        BY <2>a, <4>1, ChangedFits
      <4>q. QED  BY <2>1, <2>3, <3>1, <3>3, <4>2
    <3>4. CASE e # c
      <4>1. listed'[e] = listed[e] /\ (e \in Passed(pc'[t]) <=> e \in Passed(pc[t]))
        BY <2>1, <2>3, <3>1, <3>4
      <4>q. QED  BY <3>2, <4>1 DEF Holds, Fits
    <3>q. QED  BY <3>3, <3>4
  <2>6. pc'[t] # "inTree"  BY <1>1 DEF Listing, Unlisting
  <2>q. QED
    BY <1>3, <2>2, <2>3, <2>4, <2>5, <2>6 DEF ContentInv, InPlugin, Holds, Fits,
      SameUID, HasOwnUID
<1>q. QED  BY <1>4, <1>5, <1>6

(* From the containers to the tree: the contract of AddOwnedObject.        *)
LEMMA OwnDeviceIsUnclaimed ==
  ASSUME TreeInv, ListsInv, NEW t \in Threads, pc[t] = "owning"
  PROVE  Unclaimed(arg[t])
<1>1. \A o \in Objects : arg[t] \notin owned[o]
  BY DEF ListsInv, CallInv, ListingInv, Listing
<1>2. \A u \in Threads : at[u] # "adding"
  <2> SUFFICES ASSUME NEW u \in Threads, at[u] = "adding"  PROVE FALSE
    OBVIOUS
  <2>1. pc[u] = "inTree"  BY DEF ListsInv, CallInv
  <2>q. QED  BY <2>1, OneInPlugin DEF ListsInv, InPlugin, Listing
<1>q. QED  BY <1>1, <1>2 DEF Unclaimed

LEMMA EnterTreeKeeps ==
  ASSUME TreeInv, ListsInv, NEW t \in Threads, OwnDevice(t) \/ DisownDevice(t)
  PROVE  ListsInv'
<1> USE DEF ListsInv, OwnDevice, DisownDevice, AddOwnedObject, RemoveOwnedObject, Enter, Goto,
            pluginVars, halVars
<1>1. /\ UNCHANGED <<owned, owner, listed, pluginMutex, alive, arg, uid>>
      /\ pc' = [pc EXCEPT ![t] = "inTree"] /\ pc'[t] = "inTree"
      /\ at'[t] # "idle" /\ parent'[t] = Plugin /\ child'[t] = arg[t]
      /\ \/ pc[t] = "owning" /\ at'[t] = "adding"
         \/ pc[t] = "disowning" /\ at'[t] = "removing"
      /\ \A u \in Threads \ {t} : at'[u] = at[u] /\ parent'[u] = parent[u] /\ child'[u] = child[u]
  BY Distinct DEF CallInv, TreeInv, TreeTypeOK
<1>2. pc[t] \in InPlugin  BY <1>1 DEF InPlugin, Listing, Unlisting
<1>3. \A u \in Threads \ {t} : pc'[u] = pc[u] /\ pc[u] \notin InPlugin
  BY <1>1, <1>2, OneInPlugin, Distinct DEF CallInv
<1>4. CallInv'  BY <1>1, <1>2, <1>3, Distinct DEF CallInv, InPlugin
<1>5. ListingInv'  BY <1>1, <1>3 DEF ListingInv, InPlugin, Listing
<1>6. ContentInv'
  <2>1. pluginMutex' = t /\ pluginMutex' # NoThread
    BY <1>1, <1>2, Distinct DEF CallInv
  <2>2. \A c \in Containers :
          \/ at'[t] = "adding" /\ Holds(c, owned[Plugin] \union {arg[t]})
          \/ at'[t] = "removing" /\ Holds(c, owned[Plugin] \ {arg[t]})
    BY <1>1 DEF ContentInv, Passed, Listing, Unlisting
  <2>q. QED
    BY <1>1, <1>3, <2>1, <2>2 DEF ContentInv, InPlugin, Listing, Unlisting, Holds, SameUID,
                                   HasOwnUID
<1>q. QED  BY <1>4, <1>5, <1>6

(* The steps inside the tree.                                              *)
LEMMA ChangeTreeKeeps ==
  ASSUME TreeInv, ListsInv, NEW t \in Threads, ChangeTree(t)
  PROVE  ListsInv'
<1> USE DEF ListsInv
<1>1. /\ UNCHANGED viewVars /\ TreeStep(t) /\ at[t] # "idle"
      /\ pc[t] \in {"inTree", "removing"}
      /\ \A u \in Threads \ {t} : at'[u] = at[u] /\ parent'[u] = parent[u] /\ child'[u] = child[u]
  <2>1. ChangeTree(t) => \/ AddToMap(t) \/ AttachOwner(t) \/ RemoveAbsent(t)
                         \/ DetachOwner(t) \/ RemoveFromMap(t)
    BY DEF ChangeTree, TreeStep
  <2>q. QED
    BY <2>1 DEF ChangeTree, TreeStep, AddToMap, AttachOwner, RemoveAbsent, DetachOwner,
                RemoveFromMap, Leave, TreeInv, TreeTypeOK
<1>2. CASE pc[t] = "removing"
  <2>1. at[t] = "removing" /\ parent[t] = Home /\ owned[Home] = {}
    BY <1>1, <1>2, Distinct DEF CallInv
  <2>2. UNCHANGED <<owned, owner>> /\ at'[t] = "idle"
    BY <1>1, <2>1 DEF TreeStep, AddToMap, AttachOwner, RemoveAbsent, DetachOwner,
                      RemoveFromMap, Leave, TreeInv, TreeTypeOK
  <2> USE DEF viewVars
  <2>3. CallInv'  BY <1>1, <2>2 DEF CallInv
  <2>4. ListingInv'  BY <1>1, <2>2 DEF ListingInv
  <2>5. ContentInv'  BY <1>1, <1>2, <2>2 DEF ContentInv, Holds, SameUID, HasOwnUID
  <2>q. QED  BY <2>3, <2>4, <2>5
<1>3. CASE pc[t] = "inTree"
  <2> USE DEF viewVars
  <2>1. /\ parent[t] = Plugin /\ child[t] = arg[t] /\ arg[t] \in Devices /\ arg[t] \in alive
        /\ pluginMutex = t
    BY <1>1, <1>3 DEF CallInv, InPlugin
  <2>2. \A u \in Threads \ {t} : pc[u] \notin InPlugin
    BY <1>3, OneInPlugin DEF InPlugin
  <2>3. DOMAIN owned = Objects /\ DOMAIN at = Threads /\ DOMAIN owner = Objects
    BY DEF TreeInv, TreeTypeOK
  (* What becomes of the devices of the plugin, by the place of the thread.*)
  <2>4. /\ \A o \in Objects \ {Plugin} : owned'[o] = owned[o]
        /\ \/ at[t] = "adding" /\ at'[t] = "attaching" /\ owned'[Plugin] = owned[Plugin] \union {arg[t]}
           \/ at[t] = "attaching" /\ at'[t] = "idle" /\ owned'[Plugin] = owned[Plugin]
           \/ /\ at[t] = "removing" /\ at'[t] = "idle" /\ owned'[Plugin] = owned[Plugin]
              /\ arg[t] \notin owned[Plugin]
           \/ at[t] = "removing" /\ at'[t] = "detached" /\ owned'[Plugin] = owned[Plugin]
           \/ at[t] = "detached" /\ at'[t] = "idle" /\ owned'[Plugin] = owned[Plugin] \ {arg[t]}
    <3> USE DEF Leave
    <3>1. CASE AddToMap(t)  BY <3>1, <2>1, <2>3, Distinct DEF AddToMap
    <3>2. CASE AttachOwner(t)  BY <3>2, <2>1, <2>3, Distinct DEF AttachOwner
    <3>3. CASE RemoveAbsent(t)  BY <3>3, <2>1, <2>3, Distinct DEF RemoveAbsent
    <3>4. CASE DetachOwner(t)  BY <3>4, <2>1, <2>3, Distinct DEF DetachOwner
    <3>5. CASE RemoveFromMap(t)  BY <3>5, <2>1, <2>3, Distinct DEF RemoveFromMap
    <3>q. QED  BY <1>1, <3>1, <3>2, <3>3, <3>4, <3>5 DEF TreeStep
  <2>5. at'[t] # "idle" => parent'[t] = parent[t] /\ child'[t] = child[t]
    BY <1>1 DEF TreeStep, AddToMap, AttachOwner, RemoveAbsent, DetachOwner, RemoveFromMap,
                Leave, TreeInv, TreeTypeOK
  <2>6. CallInv'
    BY <1>1, <1>3, <2>1, <2>2, <2>4, <2>5, Distinct DEF CallInv, InPlugin
  <2>7. ListingInv'  BY <1>1, <1>3, <2>2 DEF ListingInv, InPlugin, Listing
  <2>8. ContentInv'
    <3>1. pluginMutex # NoThread  BY <2>1, Distinct
    <3>2. ASSUME NEW c \in Containers
          PROVE  Holds(c, CASE at'[t] = "adding" -> owned'[Plugin] \union {arg[t]}
                            [] at'[t] \in {"removing", "detached"} -> owned'[Plugin] \ {arg[t]}
                            [] OTHER -> owned'[Plugin])
      <4>1. Holds(c, CASE at[t] = "adding" -> owned[Plugin] \union {arg[t]}
                       [] at[t] \in {"removing", "detached"} -> owned[Plugin] \ {arg[t]}
                       [] OTHER -> owned[Plugin])
        BY <1>3 DEF ContentInv
      <4>2. (CASE at'[t] = "adding" -> owned'[Plugin] \union {arg[t]}
               [] at'[t] \in {"removing", "detached"} -> owned'[Plugin] \ {arg[t]}
               [] OTHER -> owned'[Plugin])
            = CASE at[t] = "adding" -> owned[Plugin] \union {arg[t]}
                [] at[t] \in {"removing", "detached"} -> owned[Plugin] \ {arg[t]}
                [] OTHER -> owned[Plugin]
        BY <2>4
      <4>q. QED  BY <4>1, <4>2
    <3>q. QED
      BY <1>1, <1>3, <2>2, <3>1, <3>2 DEF ContentInv, InPlugin, Listing, Unlisting, Holds,
                                          SameUID, HasOwnUID
  <2>q. QED  BY <2>6, <2>7, <2>8
<1>q. QED  BY <1>1, <1>2, <1>3

(* The end of a call of the plugin.                                        *)
LEMMA NotifyDevicesKeeps ==
  ASSUME TreeInv, ListsInv, NEW t \in Threads, NotifyDevices(t)
  PROVE  ListsInv'
<1> USE DEF ListsInv, NotifyDevices, Goto, treeVars, halVars
<1>1. /\ UNCHANGED <<treeVars, listed, alive, uid>> /\ at[t] = "idle" /\ pc[t] = "inTree"
      /\ pluginMutex' = NoThread /\ pc'[t] = "idle"
      /\ DOMAIN pc' = AllThreads /\ DOMAIN arg' = AllThreads
      /\ \A u \in Threads \ {t} : pc'[u] = pc[u] /\ arg'[u] = arg[u]
  BY Distinct DEF CallInv
<1>2. \A u \in Threads \ {t} : pc[u] \notin InPlugin
  BY <1>1, OneInPlugin DEF InPlugin
<1>3. CallInv'  BY <1>1, <1>2 DEF CallInv, InPlugin, Listing, Unlisting
<1>4. ListingInv'  BY <1>1, <1>2 DEF ListingInv, InPlugin, Listing
<1>5. ContentInv'
  <2>1. \A c \in Containers : Holds(c, owned[Plugin])  BY <1>1 DEF ContentInv
  <2>q. QED
    BY <1>1, <1>2, <2>1 DEF ContentInv, InPlugin, Listing, Unlisting, Holds, SameUID, HasOwnUID
<1>q. QED  BY <1>3, <1>4, <1>5

LEMMA RemoveNotOwnedKeeps ==
  ASSUME TreeInv, ListsInv, NEW t \in Threads, RemoveNotOwned(t) \/ RemovedNothing(t)
  PROVE  ListsInv'
<1> USE DEF ListsInv, RemoveNotOwned, RemovedNothing, RemoveOwnedObject, Enter, Goto, treeVars,
            pluginVars, halVars
<1>1. /\ UNCHANGED <<owned, owner, listed, pluginMutex, alive, arg, uid>>
      /\ DOMAIN pc' = AllThreads
      /\ pc[t] \notin InPlugin /\ pc'[t] \notin InPlugin
      /\ \/ at'[t] = "idle"
         \/ at'[t] = "removing" /\ pc'[t] = "removing" /\ parent'[t] = Home
      /\ \A u \in Threads \ {t} : /\ pc'[u] = pc[u] /\ at'[u] = at[u]
                                  /\ parent'[u] = parent[u] /\ child'[u] = child[u]
  BY Distinct DEF CallInv, TreeInv, TreeTypeOK, InPlugin, Listing, Unlisting
<1>2. CallInv'  BY <1>1 DEF CallInv
<1>3. ListingInv'  BY <1>1 DEF ListingInv, InPlugin
<1>4. ContentInv'
  BY <1>1 DEF ContentInv, InPlugin, Holds, SameUID, HasOwnUID
<1>q. QED  BY <1>2, <1>3, <1>4

LEMMA DropDeviceKeeps ==
  ASSUME TreeInv, ListsInv, NEW d \in Devices, DropDevice(d)
  PROVE  ListsInv'
<1> USE DEF ListsInv, DropDevice, treeVars, pluginVars
<1>1. /\ UNCHANGED <<treeVars, listed, pluginMutex, pc, arg, uid>>
      /\ alive' = alive \ ({d} \union OwnedObjects(d))
      /\ d = Device2 /\ d \notin owned[Plugin] /\ \A t \in Threads : arg[t] # d
  <2>1. UNCHANGED <<treeVars, listed, pluginMutex, pc, arg, uid>>  OBVIOUS
  <2>2. alive' = alive \ ({d} \union OwnedObjects(d))  OBVIOUS
  <2>3. d = Device2 /\ d \notin owned[Plugin] /\ \A t \in Threads : arg[t] # d  OBVIOUS
  <2>q. QED  BY <2>1, <2>2, <2>3, Zenon
<1>2. OwnedObjects(d) = {}  BY <1>1, Distinct DEF OwnedObjects, CallInv
<1>3. CallInv'  BY <1>1, <1>2 DEF CallInv
<1>4. ListingInv'  BY <1>1 DEF ListingInv
<1>5. ContentInv'  BY <1>1 DEF ContentInv, Holds, SameUID, HasOwnUID
<1>q. QED  BY <1>3, <1>4, <1>5

-----------------------------------------------------------------------------
(* The refinement.                                                         *)

LEMMA PluginStepMaps ==
  ASSUME TreeInv, ListsInv, PluginStep
  PROVE  [TreeNext]_treeVars
<1>1. ASSUME NEW t \in Threads, OwnDevice(t)  PROVE TreeNext
  <2>1. /\ AddOwnedObject(t, Plugin, arg[t]) /\ pc[t] = "owning"
        /\ Plugin \in Objects /\ arg[t] \in Objects
    BY <1>1, Distinct DEF OwnDevice, Goto, ListsInv, CallInv, InPlugin, Listing
  <2>q. QED  BY <2>1, OwnDeviceIsUnclaimed DEF TreeNext
<1>2. ASSUME NEW t \in Threads, DisownDevice(t)  PROVE TreeNext
  <2>1. /\ RemoveOwnedObject(t, Plugin, arg[t])
        /\ Plugin \in Objects /\ arg[t] \in Objects
    BY <1>2, Distinct DEF DisownDevice, Goto, ListsInv, CallInv, InPlugin, Unlisting
  <2>q. QED  BY <2>1 DEF TreeNext
<1>3. ASSUME NEW t \in Threads, RemoveNotOwned(t)  PROVE TreeNext
  BY <1>3, Distinct DEF RemoveNotOwned, TreeNext
<1>4. ASSUME NEW t \in Threads, ChangeTree(t)  PROVE TreeNext
  BY <1>4 DEF ChangeTree, TreeNext
<1>5. ASSUME NEW t \in Threads,
             \/ \E d \in Devices : AddDevice(t, d) \/ RemoveDevice(t, d)
             \/ ListDevice(t) \/ UnlistDevice(t) \/ NotifyDevices(t) \/ RemovedNothing(t)
      PROVE  UNCHANGED treeVars
  BY <1>5 DEF AddDevice, RemoveDevice, ListDevice, UnlistDevice, SetContainer, NotifyDevices,
              RemovedNothing
<1>6. ASSUME NEW d \in Devices, DropDevice(d)  PROVE UNCHANGED treeVars
  BY <1>6 DEF DropDevice
<1>q. QED  BY <1>1, <1>2, <1>3, <1>4, <1>5, <1>6 DEF PluginStep, Continues

LEMMA PluginStepKeeps ==
  ASSUME TreeInv, ListsInv, PluginStep
  PROVE  ListsInv'
  BY BeginKeeps, ContainerKeeps, EnterTreeKeeps, ChangeTreeKeeps, NotifyDevicesKeeps,
     RemoveNotOwnedKeeps, DropDeviceKeeps DEF PluginStep, Continues

LEMMA NextMaps ==
  ASSUME TreeInv, ListsInv, [Next]_vars
  PROVE  [TreeNext]_treeVars /\ TreeInv' /\ ListsInv'
<1>1. CASE PluginStep  BY <1>1, PluginStepMaps, PluginStepKeeps, TreeNextKeeps
<1>2. CASE SetterStep \/ HalStep
  <2>1. Aside  BY <1>2, SettersAside, HalAside DEF ListsInv
  <2>2. UNCHANGED treeVars  BY <2>1 DEF Aside
  <2>q. QED  BY <2>1, <2>2, AsideKeeps, TreeNextKeeps
<1>3. CASE UNCHANGED vars
  <2>1. Aside  BY <1>3 DEF Aside, AsideThread, vars, viewVars
  <2>2. UNCHANGED treeVars  BY <2>1 DEF Aside
  <2>q. QED  BY <2>1, <2>2, AsideKeeps, TreeNextKeeps
<1>q. QED  BY <1>1, <1>2, <1>3, StepGroups

LEMMA InitMaps == Init => TreeInit /\ TreeInv /\ ListsInv
<1> SUFFICES ASSUME Init  PROVE TreeInit /\ TreeInv /\ ListsInv
  OBVIOUS
<1>1. TreeInit /\ TreeInv  BY TreeInitially DEF Init
<1>2. CallInv
  BY Distinct DEF Init, TreeInit, CallInv, InPlugin, Listing, Unlisting
<1>3. ListingInv  BY Distinct DEF Init, ListingInv, Listing
<1>4. ContentInv
  BY Distinct DEF Init, TreeInit, ContentInv, Listing, Unlisting, Holds
<1>q. QED  BY <1>1, <1>2, <1>3, <1>4 DEF ListsInv

LEMMA ViewInvariance == Spec => [](TreeInv /\ ListsInv)
  BY InitMaps, NextMaps, PTL DEF Spec

(* Whatever the threads of a plugin do, and in whatever order, the calls   *)
(* they make on the tree of objects are those of its specification.        *)
THEOREM TreeContractIsKept == Spec => KeepsTreeContract
<1>1. Init => TreeInit  BY InitMaps
<1>2. TreeInv /\ ListsInv /\ [Next]_vars => [TreeNext]_treeVars  BY NextMaps
<1>q. QED  BY <1>1, <1>2, ViewInvariance, PTL DEF Spec, KeepsTreeContract, TreeSpec

(* The tree that the HAL reads without a lock is whole.                    *)
THEOREM HalSeesWholeTree == Spec => []TreeIsWhole
<1>1. TreeInv => TreeIsWhole  BY DEF TreeInv
<1>q. QED  BY <1>1, ViewInvariance, PTL

(* Between two calls the containers of the plugin and the tree list the    *)
(* same devices, and these are alive; by UID at most one device of each UID*)
(* is found, and surely one whose UID no other device has.                 *)
THEOREM ListsAlwaysAgree == Spec => []ListsAgree
<1>1. ListsInv => ListsAgree  BY DEF ListsInv, CallInv, ContentInv, ListsAgree
<1>q. QED  BY <1>1, ViewInvariance, PTL

-----------------------------------------------------------------------------
(* What is set.                                                            *)

(* A plugin has a list of devices, nothing else has; and only a volume has *)
(* a scale.                                                                *)
LEMMA WatchedKinds ==
  ASSUME SetInv
  PROVE  /\ IsList <=> selector = "DeviceList"
         /\ IsVolume <=> selector \in {"ScalarValue", "DecibelValue"}
         /\ IsList => object # Mute /\ ~IsVolume
  BY ViewAssumption DEF SetInv, IsList, IsVolume, object, selector, Parts

(* The list of devices cannot be set.                                      *)
LEMMA ListIsNotSet ==
  ASSUME SetInv, IsList, NEW size
  PROVE  CheckSetPropertyData(ClassOf(object), custom, selector, size) # NoError
<1>1. custom = NoSelectors /\ selector = "DeviceList"  BY WatchedKinds DEF SetInv
<1>2. ClassOf(object) = "Plugin"  BY DEF IsList, ClassOf
<1>3. SetTable["Plugin"] = NoSelectors /\ SetTable["Object"] = NoSelectors
  BY DEF SetTable, PluginSet, ObjectSet
<1>4. DOMAIN NoSelectors = {}  BY DEF NoSelectors
<1>5. ~InTable(SetTable, "Plugin", "DeviceList")  BY <1>3, <1>4 DEF InTable
<1>q. QED
  BY <1>1, <1>2, <1>4, <1>5 DEF CheckSetPropertyData, NoError, UnknownProperty

(* The arguments of the setters.                                           *)
LEMMA ArgumentTypes ==
  ASSUME SetInv, NEW x \in HalValues
  PROVE  IF IsVolume THEN SetterArgument(x) \in Int ELSE SetterArgument(x) \in {0, 1}
<1>1. CASE selector = "ScalarValue"
  <2>1. x \in Int  BY <1>1, Ranges DEF HalValues
  <2>q. QED  BY <1>1, <2>1, ConversionTypes, WatchedKinds DEF SetterArgument
<1>2. CASE selector = "DecibelValue"
  <2>1. known \in Int  BY <1>2, WatchedKinds DEF SetInv
  <2>2. x \in Int
    <3>1. Unit * MinDB \in Int  BY VolumeAssumption, Ranges
    <3>2. \A i \in Int : (i * Unit) \div 2 \in Int  BY Ranges
    <3>3. -1 .. 2 * DBRange + 1 \subseteq Int  BY Ranges
    <3>q. QED  BY <1>2, <2>1, <3>1, <3>2, <3>3 DEF HalValues
  <2>q. QED  BY <1>2, <2>2, ConversionTypes, WatchedKinds DEF SetterArgument
<1>3. CASE selector \notin {"ScalarValue", "DecibelValue"}
  BY <1>3, WatchedKinds DEF SetterArgument
<1>q. QED  BY <1>1, <1>2, <1>3

(* A setter stores a value of the scale.                                   *)
LEMMA StoredInScale ==
  ASSUME SetInv, NEW t \in AllThreads, pc[t] = "setting"
  PROVE  InScale(Stored(arg[t]))
<1>1. CASE IsVolume
  <2>1. arg[t] \in Int  BY <1>1 DEF SetInv
  <2>q. QED  BY <1>1, <2>1, VolumeAssumption DEF InScale, Stored, ClampedRaw, Clamped
<1>2. CASE ~IsVolume
  BY <1>2 DEF SetInv, InScale, Stored
<1>q. QED  BY <1>1, <1>2

LEMMA CurrentType ==
  ASSUME SetInv, IsVolume
  PROVE  Current \in Int
<1>1. value \in MinRaw..MaxRaw  BY DEF SetInv, InScale
<1>2. selector \in {"ScalarValue", "DecibelValue"} /\ selector # "DeviceList"  BY WatchedKinds
<1>q. QED  BY <1>1, <1>2, ConversionTypes DEF Current

(* The plugin's calls set nothing.                                         *)
LEMMA PluginKeepsSet ==
  ASSUME SetInv, PluginStep
  PROVE  SetInv' /\ pc'[Hal] = pc[Hal]
<1> DEFINE Still ==
      /\ UNCHANGED <<value, custom, watched, known, echo>>
      /\ session'.step = session.step /\ "step" \in DOMAIN session'
      /\ DOMAIN pc' = AllThreads /\ DOMAIN arg' = AllThreads
      /\ pc'[Hal] = pc[Hal] /\ arg'[Hal] = arg[Hal]
      /\ \A t \in AllThreads :
           pc'[t] \in {"setting", "stored"} => pc'[t] = pc[t] /\ arg'[t] = arg[t]
<1> USE DEF Goto, halVars, setterVars, pluginVars
<1>a. DOMAIN pc = AllThreads /\ DOMAIN arg = AllThreads /\ "step" \in DOMAIN session
      /\ Hal \in AllThreads
  BY DEF SetInv, AllThreads
<1>1. ASSUME NEW t \in Threads,
             \/ \E d \in Devices : AddDevice(t, d) \/ RemoveDevice(t, d)
             \/ NotifyDevices(t) \/ OwnDevice(t) \/ DisownDevice(t)
             \/ RemoveNotOwned(t) \/ RemovedNothing(t)
      PROVE  Still
  BY <1>a, <1>1, Distinct DEF AddDevice, RemoveDevice, NotifyDevices, OwnDevice, DisownDevice,
     RemoveNotOwned, RemovedNothing
<1>2. ASSUME NEW t \in Threads, ListDevice(t) \/ UnlistDevice(t)  PROVE Still
  BY <1>a, <1>2, Distinct DEF ListDevice, UnlistDevice, SetContainer
<1>3. ASSUME NEW t \in Threads, ChangeTree(t)  PROVE Still
  BY <1>a, <1>3 DEF ChangeTree, viewVars
<1>4. ASSUME NEW d \in Devices, DropDevice(d)  PROVE Still
  BY <1>a, <1>4 DEF DropDevice
<1>5. Still  BY <1>1, <1>2, <1>3, <1>4 DEF PluginStep, Continues
<1>6. ASSUME Still  PROVE SetInv'
  <2>1. /\ IsVolume' = IsVolume /\ IsList' = IsList /\ (object # Mute)' = (object # Mute)
        /\ SetterArgument(known)' = SetterArgument(known)
        /\ InScale(value)' = InScale(value)
    BY <1>6 DEF IsVolume, IsList, object, selector, SetterArgument, InScale
  <2>q. QED  BY <1>6, <2>1, <1>a DEF SetInv
<1>q. QED  BY <1>5, <1>6

(* The setters.                                                            *)
LEMMA SettersKeepSet ==
  ASSUME SetInv, SetterStep
  PROVE  SetInv'
<1> USE DEF Goto, halVars, setterVars, pluginVars
<1>a. DOMAIN pc = AllThreads /\ DOMAIN arg = AllThreads /\ Hal \in AllThreads
  BY DEF SetInv, AllThreads
<1>1. UNCHANGED <<custom, watched, known, session, echo>>
  BY DEF SetterStep, Sets, SetValue, KeepValue, RejectValue, StoreValue, NotifyValue
<1>2. /\ IsVolume' = IsVolume /\ IsList' = IsList /\ (object # Mute)' = (object # Mute)
      /\ SetterArgument(known)' = SetterArgument(known)
      /\ \A x : InScale(x)' = InScale(x)
  BY <1>1 DEF IsVolume, IsList, object, selector, SetterArgument, InScale
<1>3. ASSUME NEW t \in Threads, NEW x \in UserValues, SetValue(t, x)  PROVE SetInv'
  <2>1. IF IsVolume THEN x \in Int ELSE x \in {0, 1}
    BY VolumeAssumption DEF UserValues
  <2>2. /\ UNCHANGED value /\ ~IsList
        /\ pc' = [pc EXCEPT ![t] = "setting"] /\ arg' = [arg EXCEPT ![t] = x]
        /\ t # Hal /\ t \in AllThreads
    BY <1>3, Distinct DEF SetValue
  <2>q. QED  BY <1>a, <1>1, <1>2, <2>1, <2>2 DEF SetInv, InScale
<1>4. ASSUME NEW t \in AllThreads, KeepValue(t) \/ RejectValue(t) \/ NotifyValue(t)  PROVE SetInv'
  <2>1. /\ UNCHANGED value /\ pc[t] # "idle"
        /\ pc' = [pc EXCEPT ![t] = "idle"] /\ arg' = [arg EXCEPT ![t] = 0]
    BY <1>4 DEF KeepValue, RejectValue, NotifyValue
  <2>q. QED  BY <1>a, <1>1, <1>2, <2>1 DEF SetInv, InScale
<1>5. ASSUME NEW t \in AllThreads, StoreValue(t)  PROVE SetInv'
  <2>1. /\ value' = Stored(arg[t]) /\ pc[t] = "setting" /\ arg' = arg
        /\ pc' = [pc EXCEPT ![t] = "stored"]
    BY <1>5 DEF StoreValue
  <2>2. InScale(Stored(arg[t]))  BY <2>1, StoredInScale
  <2>3. InScale(value)'  BY <1>1, <2>1, <2>2 DEF InScale, IsVolume, object
  <2>q. QED  BY <1>a, <1>1, <1>2, <2>1, <2>3 DEF SetInv
<1>q. QED  BY <1>3, <1>4, <1>5 DEF SetterStep, Sets

(* The HAL.                                                                *)
LEMMA HalKeepsSet ==
  ASSUME SetInv, HalStep
  PROVE  SetInv' /\ (pc'[Hal] = pc[Hal] \/ pc'[Hal] = "setting")
<1> USE DEF halVars, setterVars, pluginVars
<1>a. DOMAIN pc = AllThreads /\ DOMAIN arg = AllThreads /\ Hal \in AllThreads
      /\ "step" \in DOMAIN session
  BY DEF SetInv, AllThreads
<1>1. UNCHANGED <<value, watched>>
  BY DEF HalStep, RegisterCustomProperty, InitializeJumper, HalAsk, HalRefresh, Begin, HalReads,
         HalIsPropertySettable, HalGetPropertyDataSize, HalGetPropertyData, HalDone, Ask,
         HalTrySetPropertyData, HalSets, HalSetPropertyData
<1>2. /\ IsVolume' = IsVolume /\ IsList' = IsList /\ (object # Mute)' = (object # Mute)
      /\ \A x : SetterArgument(x)' = SetterArgument(x)
      /\ InScale(value)' = InScale(value)
  BY <1>1 DEF IsVolume, IsList, object, selector, SetterArgument, InScale
<1>3. ASSUME \E a \in Accessors : RegisterCustomProperty(a)
      PROVE  SetInv' /\ pc' = pc
  <2>1. /\ UNCHANGED <<pc, arg, known, echo>> /\ object = Mute
        /\ session'.step = session.step /\ "step" \in DOMAIN session'
    BY <1>3, <1>a DEF RegisterCustomProperty
  <2>2. (IsVolume => known \in Int)'  BY <1>2, <2>1 DEF SetInv
  <2>q. QED  BY <1>1, <1>2, <2>1, <2>2 DEF SetInv
<1>4. ASSUME InitializeJumper  PROVE SetInv' /\ pc' = pc
  BY <1>1, <1>2, <1>4 DEF SetInv, InitializeJumper
<1>5. ASSUME HalAsk \/ HalRefresh  PROVE SetInv' /\ pc' = pc
  <2>1. /\ UNCHANGED <<pc, arg, known, echo, custom>> /\ pc[Hal] = "idle"
        /\ "step" \in DOMAIN session'
    BY <1>5 DEF HalAsk, HalRefresh, Begin
  <2>q. QED  BY <1>1, <1>2, <2>1 DEF SetInv
<1>6. ASSUME HalDone  PROVE SetInv' /\ pc' = pc
  <2>1. /\ UNCHANGED <<pc, arg, known, custom>> /\ pc[Hal] = "idle" /\ echo' = FALSE
        /\ "step" \in DOMAIN session'
    BY <1>6 DEF HalDone, NoSession
  <2>q. QED  BY <1>1, <1>2, <2>1 DEF SetInv
<1>7. ASSUME NEW from \in {"has", "settable", "sized", "answered"}, NEW to, NEW answers,
             Ask(from, to, answers), known' = known \/ known' = Current \/ ~IsVolume
      PROVE  SetInv' /\ pc' = pc
  <2>1. /\ UNCHANGED <<pc, arg, custom, echo>> /\ session.step = from
    BY <1>7 DEF Ask
  <2>2. pc[Hal] = "idle"  BY <2>1 DEF SetInv
  <2>3. "step" \in DOMAIN session'  BY <1>a, <1>7 DEF Ask
  <2>4. (IsVolume => known \in Int)'  BY <1>2, <1>7, CurrentType DEF SetInv
  <2>q. QED  BY <1>1, <1>2, <2>1, <2>2, <2>3, <2>4 DEF SetInv
<1>8. ASSUME HalIsPropertySettable \/ HalGetPropertyDataSize \/ HalTrySetPropertyData
      PROVE  SetInv' /\ pc' = pc
  BY <1>7, <1>8 DEF HalIsPropertySettable, HalGetPropertyDataSize, HalTrySetPropertyData
<1>9. ASSUME HalGetPropertyData  PROVE SetInv' /\ pc' = pc
  <2>1. PICK answers : Ask("sized", "answered", answers)
    BY <1>9 DEF HalGetPropertyData
  <2>2. known' = known \/ known' = Current \/ ~IsVolume
    BY <1>9, WatchedKinds DEF HalGetPropertyData
  <2>q. QED  BY <1>7, <2>1, <2>2
<1>10. ASSUME NEW x \in HalValues, HalSetPropertyData(x)
       PROVE  SetInv' /\ pc'[Hal] = "setting"
  <2>1. /\ UNCHANGED <<known, custom>>
        /\ session'.step = "done" /\ "step" \in DOMAIN session'
        /\ pc' = [pc EXCEPT ![Hal] = "setting"]
        /\ arg' = [arg EXCEPT ![Hal] = SetterArgument(x)]
        /\ echo' = (x = known)
    BY <1>10, <1>a DEF HalSetPropertyData
  <2>2. ~IsList  BY <1>10, ListIsNotSet DEF HalSetPropertyData
  <2>3. IF IsVolume THEN SetterArgument(x) \in Int ELSE SetterArgument(x) \in {0, 1}
    BY ArgumentTypes
  <2>q. QED  BY <1>a, <1>1, <1>2, <2>1, <2>2, <2>3 DEF SetInv
<1>q. QED
  BY <1>3, <1>4, <1>5, <1>6, <1>8, <1>9, <1>10 DEF HalStep, HalReads, HalSets

LEMMA NextKeepsSet ==
  ASSUME SetInv, [Next]_vars
  PROVE  SetInv'
<1>1. CASE Next
  BY <1>1, StepGroups, PluginKeepsSet, SettersKeepSet, HalKeepsSet
<1>2. CASE UNCHANGED vars
  BY <1>2 DEF vars, viewVars, SetInv, InScale, IsVolume, IsList, object, selector, SetterArgument
<1>q. QED  BY <1>1, <1>2

LEMMA InitSet == Init => SetInv
<1> SUFFICES ASSUME Init PROVE SetInv
  OBVIOUS
<1>1. /\ watched \in Watchable /\ "step" \in DOMAIN session
      /\ DOMAIN pc = AllThreads /\ DOMAIN arg = AllThreads
      /\ \A t \in AllThreads : pc[t] = "idle"
      /\ custom = NoSelectors /\ ~echo /\ Hal \in AllThreads
  BY DEF Init, NoSession, AllThreads
<1>2. InScale(value)
  BY VolumeAssumption DEF Init, InScale
<1>3. IsVolume => known \in Int
  <2>1. IsVolume => selector \in {"ScalarValue", "DecibelValue"} /\ selector # "DeviceList"
    BY <1>1, ViewAssumption DEF IsVolume, object, selector
  <2>q. QED  BY <1>2, <2>1, ConversionTypes DEF Init, Current, InScale
<1>q. QED  BY <1>1, <1>2, <1>3 DEF SetInv

LEMMA SetInvariance == Spec => []SetInv
  BY InitSet, NextKeepsSet, PTL DEF Spec

(* The setter that is given what was read has nothing to do.               *)
LEMMA BackIsSame ==
  ASSUME SetInv, ~IsList
  PROVE  SetterArgument(Current) = value
<1>1. CASE IsVolume
  <2>1. value \in MinRaw..MaxRaw  BY <1>1 DEF SetInv, InScale
  <2>2. \/ selector = "ScalarValue" /\ Current = ConvertRawToScalar(value)
        \/ selector = "DecibelValue" /\ Current = ConvertRawToDB(value)
    BY <1>1, WatchedKinds DEF Current
  <2>q. QED  BY <2>1, <2>2, ScalarRoundTrip, DecibelRoundTrip DEF SetterArgument
<1>2. CASE ~IsVolume
  <2>1. value \in {0, 1}  BY <1>2 DEF SetInv, InScale
  <2>2. selector \notin {"DeviceList", "ScalarValue", "DecibelValue"}  BY <1>2, WatchedKinds
  <2>q. QED  BY <2>1, <2>2 DEF SetterArgument, Current
<1>q. QED  BY <1>1, <1>2

LEMMA EchoStoresNothing ==
  ASSUME SetInv, Next, echo, known = Current, pc[Hal] = "setting"
  PROVE  pc'[Hal] # "stored"
<1>1. CASE PluginStep  BY <1>1, PluginKeepsSet
<1>2. CASE HalStep  BY <1>2, HalKeepsSet
<1>3. CASE SetterStep
  <2>1. ~IsList /\ arg[Hal] = SetterArgument(known) /\ DOMAIN pc = AllThreads
    BY DEF SetInv, AllThreads
  <2>2. arg[Hal] = value  BY <2>1, BackIsSame
  <2>3. ~StoreValue(Hal)  BY <2>2 DEF StoreValue
  <2>4. ASSUME NEW t \in AllThreads, NEW from, NEW to, Goto(t, from, to),
               t # Hal \/ to # "stored"
        PROVE  pc'[Hal] # "stored"
    BY <2>1, <2>4 DEF Goto
  <2>5. ASSUME NEW t \in Threads, NEW x, SetValue(t, x)  PROVE pc'[Hal] # "stored"
    BY <2>4, <2>5 DEF SetValue, AllThreads
  <2>6. ASSUME NEW t \in AllThreads, Sets(t)  PROVE pc'[Hal] # "stored"
    <3>1. CASE KeepValue(t)  BY <2>4, <3>1 DEF KeepValue
    <3>2. CASE RejectValue(t)  BY <2>4, <3>2 DEF RejectValue
    <3>3. CASE StoreValue(t)  BY <2>3, <2>4, <3>3 DEF StoreValue
    <3>4. CASE NotifyValue(t)  BY <2>4, <3>4 DEF NotifyValue
    <3>q. QED  BY <2>6, <3>1, <3>2, <3>3, <3>4 DEF Sets
  <2>q. QED  BY <1>3, <2>5, <2>6 DEF SetterStep
<1>q. QED  BY <1>1, <1>2, <1>3, StepGroups

(* A HAL that sets what it has read changes nothing: no setter stores and  *)
(* announces a value that was read from it, on any scale of the volume.    *)
THEOREM SettingBackAlwaysSilent == Spec => SettingBackIsSilent
<1>1. SetInv /\ [Next]_vars =>
        [echo /\ known = Current /\ pc[Hal] = "setting" => pc'[Hal] # "stored"]_vars
  BY EchoStoresNothing
<1>q. QED  BY <1>1, SetInvariance, PTL DEF Spec, SettingBackIsSilent
-----------------------------------------------------------------------------
(* The tables of a class agree.                                            *)

(* An entry has one of three forms; only the channel layout has values that*)
(* are returned all or not at all, and their number does not change.       *)
EntryOK(s, e) ==
  \E size \in Nat \ {0} :
    e = One(size) \/ e = List(size) \/ (s = "PreferredChannelLayout" /\ e = Whole(size))

EntriesOK(f) == \A s \in DOMAIN f : EntryOK(s, f[s])

LEMMA MergedEntries ==
  ASSUME NEW f, NEW g, EntriesOK(f), EntriesOK(g)
  PROVE  EntriesOK(f ++ g)
  BY DEF EntriesOK, ++

LEMMA SingleEntry ==
  ASSUME NEW s, NEW e, EntryOK(s, e)
  PROVE  EntriesOK(Sole(s, e))
  BY DEF EntriesOK, Sole

LEMMA SameEntries ==
  ASSUME NEW S, NEW e, \A s \in S : EntryOK(s, e)
  PROVE  EntriesOK([s \in S |-> e])
  BY DEF EntriesOK

(* A table of what can be set, and the set of what can.                    *)
SettableIs(f, S) == \A s \in DOMAIN f : f[s] \in BOOLEAN /\ (f[s] <=> s \in S)

LEMMA MergedSettable ==
  ASSUME NEW f, NEW g, NEW S, SettableIs(f, S), SettableIs(g, S)
  PROVE  SettableIs(f ++ g, S)
  BY DEF SettableIs, ++

(* The five switches of a class are about the same selectors, tell of the  *)
(* same sizes, and what can be set is what SetPropertyData knows.          *)
Own(class) == HasTable[class] \union ScopedTable[class]

TablesAgree(class) ==
  /\ DOMAIN SettableTable[class] = Own(class)
  /\ DOMAIN SizeTable[class] = Own(class)
  /\ DOMAIN DataTable[class] = Own(class)
  /\ DOMAIN SetTable[class] \subseteq Own(class)
  /\ \A s \in Own(class) : SizeTable[class][s] = DataTable[class][s]
  /\ EntriesOK(DataTable[class])
  /\ SettableIs(SettableTable[class], DOMAIN SetTable[class])
  /\ \A s \in DOMAIN SetTable[class] : DataTable[class][s] = One(SetTable[class][s])

Sizes == {UInt8, UInt32, Float32, Float64, ClassID, ObjectID, CFRef, ValueRange,
          StreamFormat, RangedFormat, CustomInfo}

LEMMA SizesArePositive == Sizes \subseteq Nat \ {0}
  BY DEF Sizes, UInt8, UInt32, Float32, Float64, ClassID, ObjectID, CFRef, ValueRange,
         StreamFormat, RangedFormat, CustomInfo

LEMMA SizedEntries ==
  ASSUME NEW size \in Sizes, NEW s
  PROVE  EntryOK(s, One(size)) /\ EntryOK(s, List(size))
         /\ EntryOK("PreferredChannelLayout", Whole(size))
  BY SizesArePositive DEF EntryOK

LEMMA ObjectAgrees == TablesAgree("Object")
<1>1. Own("Object") = ObjectHas
  BY DEF Own, HasTable, ScopedTable, Classes
<1>2. /\ SettableTable["Object"] = ObjectSettable /\ SizeTable["Object"] = ObjectSize
      /\ DataTable["Object"] = ObjectData /\ SetTable["Object"] = NoSelectors
  BY DEF SettableTable, SizeTable, DataTable, SetTable, ObjectSet
<1>3. DOMAIN NoSelectors = {}  BY DEF NoSelectors
<1>4. DOMAIN ObjectSettable = ObjectHas  BY DEF ObjectSettable, ObjectHas
<1>5. ObjectSize = ObjectData  BY DEF ObjectSize, ObjectData
<1>6. DOMAIN ObjectData = ObjectHas
  BY DEF ObjectData, ObjectHas, ++, Sole
<1>7. EntriesOK(ObjectData)
  <2>1. {ClassID, ObjectID, CustomInfo} \subseteq Sizes  BY DEF Sizes
  <2>q. QED  BY <2>1, SizedEntries, SingleEntry, MergedEntries DEF ObjectData
<1>8. SettableIs(ObjectSettable, {})  BY DEF SettableIs, ObjectSettable
<1>q. QED  BY <1>1, <1>2, <1>3, <1>4, <1>5, <1>6, <1>7, <1>8 DEF TablesAgree

LEMMA PluginAgrees == TablesAgree("Plugin")
<1>1. Own("Plugin") = PluginHas
  BY DEF Own, HasTable, ScopedTable, Classes
<1>2. /\ SettableTable["Plugin"] = PluginSettable /\ SizeTable["Plugin"] = PluginSize
      /\ DataTable["Plugin"] = PluginData /\ SetTable["Plugin"] = NoSelectors
  BY DEF SettableTable, SizeTable, DataTable, SetTable, PluginSet
<1>3. DOMAIN NoSelectors = {}  BY DEF NoSelectors
<1>4. DOMAIN PluginSettable = PluginHas  BY DEF PluginSettable, PluginHas
<1>5. PluginSize = PluginData  BY DEF PluginSize, PluginData
<1>6. DOMAIN PluginData = PluginHas
  BY DEF PluginData, PluginHas, ++, Sole
<1>7. EntriesOK(PluginData)
  <2>1. {CFRef, ObjectID} \subseteq Sizes  BY DEF Sizes
  <2>q. QED  BY <2>1, SizedEntries, SingleEntry, MergedEntries DEF PluginData
<1>8. SettableIs(PluginSettable, {})  BY DEF SettableIs, PluginSettable
<1>q. QED  BY <1>1, <1>2, <1>3, <1>4, <1>5, <1>6, <1>7, <1>8 DEF TablesAgree

LEMMA DeviceAgrees == TablesAgree("Device")
<1> DEFINE SetOf == {"NominalSampleRate", "Identify"}
<1>1. Own("Device") = DeviceHasIdentity \union DeviceHasTiming \union DeviceHasStatus
                        \union DeviceHasScoped
  BY DEF Own, HasTable, ScopedTable, Classes
<1>2. /\ SettableTable["Device"] =
           DeviceSettableIdentity ++ DeviceSettableTiming ++ DeviceSettableStatus
      /\ SizeTable["Device"] = DeviceSizeIdentity ++ DeviceSizeTiming ++ DeviceSizeStatus
      /\ DataTable["Device"] = DeviceDataIdentity ++ DeviceDataTiming ++ DeviceDataStatus
      /\ SetTable["Device"] = DeviceSet
  BY DEF SettableTable, SizeTable, DataTable, SetTable
<1>3. DOMAIN DeviceSet = SetOf  BY DEF DeviceSet, ++, Sole
<1>4. DOMAIN SettableTable["Device"] = Own("Device")
  <2>1. /\ DOMAIN DeviceSettableIdentity = DeviceHasIdentity
        /\ DOMAIN DeviceSettableTiming = DeviceHasTiming \union {"Latency", "SafetyOffset"}
        /\ DOMAIN DeviceSettableStatus =
             DeviceHasStatus \union (DeviceHasScoped \ {"Latency", "SafetyOffset"})
    BY DEF DeviceSettableIdentity, DeviceSettableTiming, DeviceSettableStatus, DeviceHasIdentity,
           DeviceHasTiming, DeviceHasStatus, DeviceHasScoped, ++, Sole
  <2>2. {"Latency", "SafetyOffset"} \subseteq DeviceHasScoped  BY DEF DeviceHasScoped
  <2>q. QED  BY <1>1, <1>2, <2>1, <2>2 DEF ++
<1>5. SizeTable["Device"] = DataTable["Device"]
  BY <1>2 DEF DeviceSizeIdentity, DeviceSizeTiming, DeviceSizeStatus,
              DeviceDataIdentity, DeviceDataTiming, DeviceDataStatus
<1>6. DOMAIN DataTable["Device"] = Own("Device")
  <2>1. /\ DOMAIN DeviceDataIdentity = DeviceHasIdentity
        /\ DOMAIN DeviceDataTiming = DeviceHasTiming \union {"Latency", "SafetyOffset"}
        /\ DOMAIN DeviceDataStatus =
             DeviceHasStatus \union (DeviceHasScoped \ {"Latency", "SafetyOffset"})
    BY DEF DeviceDataIdentity, DeviceDataTiming, DeviceDataStatus, DeviceHasIdentity,
           DeviceHasTiming, DeviceHasStatus, DeviceHasScoped, ++, Sole
  <2>2. {"Latency", "SafetyOffset"} \subseteq DeviceHasScoped  BY DEF DeviceHasScoped
  <2>q. QED  BY <1>1, <1>2, <2>1, <2>2 DEF ++
<1>7. EntriesOK(DataTable["Device"])
  <2>1. {UInt8, UInt32, Float64, CFRef, ObjectID, ValueRange} \subseteq Sizes  BY DEF Sizes
  <2>2. EntriesOK(DeviceDataIdentity)
    BY <2>1, SizedEntries, SingleEntry, SameEntries, MergedEntries DEF DeviceDataIdentity
  <2>3. EntriesOK(DeviceDataTiming)
    BY <2>1, SizedEntries, SingleEntry, SameEntries, MergedEntries DEF DeviceDataTiming
  <2>4. EntriesOK(DeviceDataStatus)
    BY <2>1, SizedEntries, SingleEntry, SameEntries, MergedEntries DEF DeviceDataStatus
  <2>q. QED  BY <1>2, <2>2, <2>3, <2>4, MergedEntries
<1>8. SettableIs(SettableTable["Device"], SetOf)
  <2>1. SettableIs(DeviceSettableIdentity, SetOf)
    BY DEF SettableIs, DeviceSettableIdentity
  <2>2. SettableIs(DeviceSettableTiming, SetOf)
    BY DEF SettableIs, DeviceSettableTiming, ++, Sole
  <2>3. SettableIs(DeviceSettableStatus, SetOf)
    BY DEF SettableIs, DeviceSettableStatus, ++, Sole
  <2>q. QED  BY <1>2, <2>1, <2>2, <2>3, MergedSettable
<1>9. \A s \in SetOf : DataTable["Device"][s] = One(DeviceSet[s])
  <2>1. DeviceSet["NominalSampleRate"] = Float64 /\ DeviceSet["Identify"] = UInt32
    BY DEF DeviceSet, ++, Sole
  <2>2. DataTable["Device"]["NominalSampleRate"] = One(Float64)
    <3>1. "NominalSampleRate" \notin DOMAIN DeviceDataIdentity  BY DEF DeviceDataIdentity, ++, Sole
    <3>2. /\ "NominalSampleRate" \in DOMAIN DeviceDataTiming
          /\ DeviceDataTiming["NominalSampleRate"] = One(Float64)
      BY DEF DeviceDataTiming, ++, Sole
    <3>q. QED  BY <1>2, <3>1, <3>2 DEF ++
  <2>3. DataTable["Device"]["Identify"] = One(UInt32)
    <3>1. "Identify" \notin DOMAIN DeviceDataIdentity \union DOMAIN DeviceDataTiming
      BY DEF DeviceDataIdentity, DeviceDataTiming, ++, Sole
    <3>2. /\ "Identify" \in DOMAIN DeviceDataStatus
          /\ DeviceDataStatus["Identify"] = One(UInt32)
      BY DEF DeviceDataStatus, ++, Sole
    <3>q. QED  BY <1>2, <3>1, <3>2 DEF ++
  <2>q. QED  BY <2>1, <2>2, <2>3
<1>10. SetOf \subseteq Own("Device")
  BY <1>1 DEF DeviceHasTiming, DeviceHasStatus
<1>q. QED  BY <1>2, <1>3, <1>4, <1>5, <1>6, <1>7, <1>8, <1>9, <1>10 DEF TablesAgree

LEMMA StreamAgrees == TablesAgree("Stream")
<1> DEFINE SetOf == {"IsActive", "PhysicalFormat", "VirtualFormat"}
<1>1. Own("Stream") = StreamHas
  BY DEF Own, HasTable, ScopedTable, Classes
<1>2. /\ SettableTable["Stream"] = StreamSettableNumbers ++ StreamSettableFormats
      /\ SizeTable["Stream"] = StreamSize
      /\ DataTable["Stream"] = StreamDataNumbers ++ StreamDataFormats
      /\ SetTable["Stream"] = StreamSet
  BY DEF SettableTable, SizeTable, DataTable, SetTable
<1>3. DOMAIN StreamSet = SetOf  BY DEF StreamSet, ++, Sole
<1>4. DOMAIN SettableTable["Stream"] = StreamHas
  BY <1>2 DEF StreamSettableNumbers, StreamSettableFormats, StreamHas, ++, Sole
<1>5. DOMAIN StreamSize = StreamHas  BY DEF StreamSize, StreamHas, ++
<1>6. DOMAIN DataTable["Stream"] = StreamHas
  BY <1>2 DEF StreamDataNumbers, StreamDataFormats, StreamHas, ++
<1>7. \A s \in StreamHas : StreamSize[s] = DataTable["Stream"][s]
  BY <1>2 DEF StreamSize, StreamDataNumbers, StreamDataFormats, StreamHas, ++
<1>8. EntriesOK(DataTable["Stream"])
  <2>1. {UInt32, StreamFormat, RangedFormat} \subseteq Sizes  BY DEF Sizes
  <2> DEFINE Formats == {"PhysicalFormat", "VirtualFormat"}
             Available == {"AvailablePhysicalFormats", "AvailableVirtualFormats"}
  <2>2. /\ \A s : EntryOK(s, One(UInt32))
        /\ \A s : EntryOK(s, One(StreamFormat)) /\ EntryOK(s, List(RangedFormat))
    BY <2>1, SizedEntries
  <2>3. EntriesOK(StreamDataNumbers)  BY <2>2, SameEntries DEF StreamDataNumbers
  <2>4. /\ EntriesOK([s \in Formats |-> One(StreamFormat)])
        /\ EntriesOK([s \in Available |-> List(RangedFormat)])
    BY <2>2, SameEntries
  <2>5. EntriesOK(StreamDataFormats)  BY <2>4, MergedEntries DEF StreamDataFormats
  <2>q. QED  BY <1>2, <2>3, <2>5, MergedEntries
<1>9. SettableIs(SettableTable["Stream"], SetOf)
  <2>1. SettableIs(StreamSettableNumbers, SetOf)
    BY DEF SettableIs, StreamSettableNumbers, ++, Sole
  <2>2. SettableIs(StreamSettableFormats, SetOf)
    BY DEF SettableIs, StreamSettableFormats, ++, Sole
  <2>q. QED  BY <1>2, <2>1, <2>2, MergedSettable
<1>10. \A s \in SetOf : DataTable["Stream"][s] = One(StreamSet[s])
  BY <1>2 DEF StreamDataNumbers, StreamDataFormats, StreamSet, ++, Sole
<1>11. SetOf \subseteq StreamHas  BY DEF StreamHas
<1>q. QED
  BY <1>1, <1>2, <1>3, <1>4, <1>5, <1>6, <1>7, <1>8, <1>9, <1>10, <1>11 DEF TablesAgree

LEMMA VolumeAgrees == TablesAgree("VolumeControl")
<1> DEFINE SetOf == {"ScalarValue", "DecibelValue"}
<1>1. Own("VolumeControl") = VolumeHas
  BY DEF Own, HasTable, ScopedTable, Classes
<1>2. /\ SettableTable["VolumeControl"] = VolumeSettable
      /\ SizeTable["VolumeControl"] = VolumeSize
      /\ DataTable["VolumeControl"] = VolumeDataState ++ VolumeDataConversion
      /\ SetTable["VolumeControl"] = VolumeSet
  BY DEF SettableTable, SizeTable, DataTable, SetTable
<1>3. DOMAIN VolumeSet = SetOf  BY DEF VolumeSet, ++, Sole
<1>4. DOMAIN VolumeSettable = VolumeHas
  BY DEF VolumeSettable, VolumeHas, ++, Sole
<1>5. DOMAIN VolumeSize = VolumeHas  BY DEF VolumeSize, VolumeHas, ++, Sole
<1>6. DOMAIN DataTable["VolumeControl"] = VolumeHas
  BY <1>2 DEF VolumeDataState, VolumeDataConversion, VolumeHas, ++, Sole
<1>7. \A s \in VolumeHas : VolumeSize[s] = DataTable["VolumeControl"][s]
  BY <1>2 DEF VolumeSize, VolumeDataState, VolumeDataConversion, VolumeHas, ++, Sole
<1>8. EntriesOK(DataTable["VolumeControl"])
  <2>1. {UInt32, Float32, ValueRange} \subseteq Sizes  BY DEF Sizes
  <2>q. QED
    BY <1>2, <2>1, SizedEntries, SingleEntry, SameEntries, MergedEntries
       DEF VolumeDataState, VolumeDataConversion
<1>9. SettableIs(VolumeSettable, SetOf)
  BY DEF SettableIs, VolumeSettable, ++, Sole
<1>10. \A s \in SetOf : DataTable["VolumeControl"][s] = One(VolumeSet[s])
  BY <1>2 DEF VolumeDataState, VolumeDataConversion, VolumeSet, ++, Sole
<1>11. SetOf \subseteq VolumeHas  BY DEF VolumeHas
<1>q. QED
  BY <1>1, <1>2, <1>3, <1>4, <1>5, <1>6, <1>7, <1>8, <1>9, <1>10, <1>11 DEF TablesAgree

LEMMA MuteAgrees == TablesAgree("MuteControl")
<1> DEFINE SetOf == {"BooleanControlValue"}
<1>1. Own("MuteControl") = MuteHas
  BY DEF Own, HasTable, ScopedTable, Classes
<1>2. /\ SettableTable["MuteControl"] = MuteSettable /\ SizeTable["MuteControl"] = MuteSize
      /\ DataTable["MuteControl"] = MuteData /\ SetTable["MuteControl"] = MuteSet
  BY DEF SettableTable, SizeTable, DataTable, SetTable
<1>3. DOMAIN MuteSet = SetOf  BY DEF MuteSet, Sole
<1>4. DOMAIN MuteSettable = MuteHas  BY DEF MuteSettable, MuteHas, ++, Sole
<1>5. MuteSize = MuteData /\ DOMAIN MuteData = MuteHas  BY DEF MuteSize, MuteData, MuteHas
<1>6. EntriesOK(MuteData)
  <2>1. UInt32 \in Sizes  BY DEF Sizes
  <2>q. QED  BY <2>1, SizedEntries, SameEntries DEF MuteData
<1>7. SettableIs(MuteSettable, SetOf)
  BY DEF SettableIs, MuteSettable, ++, Sole
<1>8. \A s \in SetOf : MuteData[s] = One(MuteSet[s])
  BY DEF MuteData, MuteSet, Sole
<1>9. SetOf \subseteq MuteHas  BY DEF MuteHas
<1>q. QED
  BY <1>1, <1>2, <1>3, <1>4, <1>5, <1>6, <1>7, <1>8, <1>9 DEF TablesAgree

LEMMA AllTablesAgree == \A class \in Classes : TablesAgree(class)
  BY ObjectAgrees, PluginAgrees, DeviceAgrees, StreamAgrees, VolumeAgrees, MuteAgrees
     DEF Classes

(* What the tables say of the selectors that a class has, its own and those*)
(* of Object.                                                              *)
LEMMA KnownSelector ==
  ASSUME NEW class \in Classes, NEW s \in SelectorsOf(class)
  PROVE  /\ InTable(SettableTable, class, s)
         /\ InTable(SizeTable, class, s)
         /\ InTable(DataTable, class, s)
         /\ Entry(SizeTable, class, s) = Entry(DataTable, class, s)
         /\ EntryOK(s, Entry(DataTable, class, s))
         /\ Entry(SettableTable, class, s) \in BOOLEAN
         /\ Entry(SettableTable, class, s) <=> InTable(SetTable, class, s)
         /\ InTable(SetTable, class, s) =>
              Entry(DataTable, class, s) = One(Entry(SetTable, class, s))
<1>1. TablesAgree(class) /\ TablesAgree("Object") /\ Own("Object") = ObjectHas
  BY AllTablesAgree DEF Classes, Own, HasTable, ScopedTable
<1>2. SetTable["Object"] = NoSelectors /\ DOMAIN NoSelectors = {}
  BY DEF SetTable, ObjectSet, NoSelectors
<1>3. s \in Own(class) \union ObjectHas  BY DEF SelectorsOf, Own
<1>4. InTable(SetTable, class, s) <=> s \in DOMAIN SetTable[class]
  BY <1>2 DEF InTable
<1>5. CASE s \in Own(class)
  <2>1. /\ Entry(SettableTable, class, s) = SettableTable[class][s]
        /\ Entry(SizeTable, class, s) = SizeTable[class][s]
        /\ Entry(DataTable, class, s) = DataTable[class][s]
        /\ InTable(SettableTable, class, s) /\ InTable(SizeTable, class, s)
        /\ InTable(DataTable, class, s)
    BY <1>1, <1>5 DEF TablesAgree, Entry, InTable
  <2>2. s \in DOMAIN SetTable[class] => Entry(SetTable, class, s) = SetTable[class][s]
    BY DEF Entry
  <2>q. QED
    BY <1>1, <1>4, <1>5, <2>1, <2>2 DEF TablesAgree, EntriesOK, SettableIs
<1>6. CASE s \notin Own(class)
  <2>1. s \in Own("Object")  BY <1>1, <1>3, <1>6
  <2>2. /\ Entry(SettableTable, class, s) = SettableTable["Object"][s]
        /\ Entry(SizeTable, class, s) = SizeTable["Object"][s]
        /\ Entry(DataTable, class, s) = DataTable["Object"][s]
        /\ InTable(SettableTable, class, s) /\ InTable(SizeTable, class, s)
        /\ InTable(DataTable, class, s)
    BY <1>1, <1>6, <2>1 DEF TablesAgree, Entry, InTable
  <2>3. s \notin DOMAIN SetTable[class]  BY <1>1, <1>6 DEF TablesAgree
  <2>q. QED
    BY <1>1, <1>2, <1>4, <2>1, <2>2, <2>3 DEF TablesAgree, EntriesOK, SettableIs
<1>q. QED  BY <1>5, <1>6

LEMMA UnknownSelector ==
  ASSUME NEW class \in Classes, NEW s, s \notin SelectorsOf(class)
  PROVE  /\ ~InTable(SettableTable, class, s) /\ ~InTable(SizeTable, class, s)
         /\ ~InTable(DataTable, class, s) /\ ~InTable(SetTable, class, s)
<1>1. TablesAgree(class) /\ TablesAgree("Object") /\ Own("Object") = ObjectHas
  BY AllTablesAgree DEF Classes, Own, HasTable, ScopedTable
<1>2. s \notin Own(class) /\ s \notin Own("Object")  BY <1>1 DEF SelectorsOf, Own
<1>q. QED  BY <1>1, <1>2 DEF TablesAgree, InTable

-----------------------------------------------------------------------------
(* The methods agree.                                                      *)

LEMMA EntryForms ==
  ASSUME NEW s, NEW e, EntryOK(s, e)
  PROVE  /\ e.size \in Nat \ {0}
         /\ e.form \in {"one", "list", "whole"}
         /\ e.form = "whole" => s = "PreferredChannelLayout"
  BY DEF EntryOK, One, List, Whole

(* As many values as fit, and no more.                                     *)
LEMMA CopyFits ==
  ASSUME NEW size \in Nat \ {0}, NEW count \in Nat, NEW inSize \in Nat
  PROVE  LET n == AtMost(inSize \div size, count)
         IN  /\ n \in Nat
             /\ n * size <= inSize
             /\ n = count \/ n * size + size > inSize
<1>1. PICK q \in Int : /\ q = inSize \div size
                       /\ size * q <= inSize /\ inSize < size * q + size
  BY DivisionFacts
<1>2. q >= 0
  <2> SUFFICES ASSUME q <= -1  PROVE FALSE  OBVIOUS
  <2>1. q * size <= (-1) * size  BY ProductMonotone
  <2>2. q * size = size * q  OBVIOUS
  <2>3. PICK a \in Int : a = size * q  OBVIOUS
  <2>q. QED  BY <1>1, <2>1, <2>2, <2>3
<1>3. CASE q < count
  <2>1. AtMost(inSize \div size, count) = q  BY <1>1, <1>3 DEF AtMost
  <2>2. q * size = size * q  OBVIOUS
  <2>3. PICK a \in Int : a = size * q  OBVIOUS
  <2>4. a <= inSize /\ inSize < a + size  BY <1>1, <2>3
  <2>5. q * size <= inSize /\ q * size + size > inSize  BY <2>2, <2>3, <2>4
  <2>6. q \in Nat  BY <1>2
  <2>q. QED  BY <2>1, <2>5, <2>6
<1>4. CASE count <= q
  <2>1. AtMost(inSize \div size, count) = count  BY <1>1, <1>4 DEF AtMost
  <2>2. count * size <= q * size  BY <1>4, ProductMonotone
  <2>3. q * size = size * q  OBVIOUS
  <2>4. PICK a \in Int : a = size * q  OBVIOUS
  <2>5. PICK b \in Int : b = count * size  OBVIOUS
  <2>q. QED  BY <1>1, <2>1, <2>2, <2>3, <2>4, <2>5
<1>q. QED  BY <1>3, <1>4

(* An answer never exceeds the buffer, and a list falls short of it only   *)
(* if no further value fits.                                               *)
LEMMA ReplyFits ==
  ASSUME NEW class \in Classes, NEW properties, NEW s, NEW count \in Nat, NEW inSize \in Nat
  PROVE  LET data == GetPropertyData(class, properties, s, count, inSize)
             e == Entry(DataTable, class, s)
         IN  data.status = NoError =>
               /\ data.size <= inSize
               /\ InTable(DataTable, class, s) /\ e.form = "list" =>
                    data.count = count \/ data.size + e.size > inSize
<1> DEFINE data == GetPropertyData(class, properties, s, count, inSize)
           e == Entry(DataTable, class, s)
<1>1. BadPropertySize # NoError /\ UnknownProperty # NoError
  BY DEF BadPropertySize, NoError, UnknownProperty
<1>2. CASE s \in SelectorsOf(class)
  <2>1. InTable(DataTable, class, s) /\ EntryOK(s, e)  BY <1>2, KnownSelector
  <2>2. PICK size \in Nat \ {0} : e.size = size  BY <2>1, EntryForms
  <2>3. e.form \in {"one", "list", "whole"}  BY <2>1, EntryForms
  <2>4. CASE e.form = "list"
    <3>1. data = Copied(AtMost(inSize \div size, count), size)
      BY <2>1, <2>2, <2>4 DEF GetPropertyData
    <3>2. PICK n \in Nat : /\ n = AtMost(inSize \div size, count) /\ n * size <= inSize
                           /\ n = count \/ n * size + size > inSize
      BY CopyFits
    <3>q. QED  BY <2>2, <3>1, <3>2 DEF Copied
  <2>5. CASE e.form # "list"
    <3>1. PICK n \in Nat : data = IF inSize < n * size THEN Failed(BadPropertySize)
                                  ELSE Copied(n, size)
      BY <2>1, <2>2, <2>5 DEF GetPropertyData
    <3>2. PICK a \in Int : a = n * size  OBVIOUS
    <3>q. QED  BY <1>1, <2>5, <3>1, <3>2 DEF Failed, Copied
  <2>q. QED  BY <2>4, <2>5
<1>3. CASE s \notin SelectorsOf(class)
  <2>1. ~InTable(DataTable, class, s)  BY <1>3, UnknownSelector
  <2>2. \/ data = Failed(UnknownProperty) \/ data = Failed(BadPropertySize)
        \/ data = Copied(1, CFRef) /\ ~ (inSize < CFRef)
    BY <2>1 DEF GetPropertyData
  <2>q. QED  BY <1>1, <2>1, <2>2 DEF Failed, Copied, CFRef
<1>q. QED  BY <1>2, <1>3

(* The five methods, asked one after the other about a property whose      *)
(* accessors do not change, and a list that may.                           *)
Agreement(class, properties, s, has, settable, size, buffer, data, set) ==
  /\ has =>
       /\ settable.status = NoError /\ size.status = NoError
       /\ buffer = size.size /\ ~(s \in DOMAIN properties /\ ~properties[s].getter)
            => data.status = NoError
  /\ ~has =>
       \/ s \in ScopedTable[class]
       \/ data.status # NoError /\ size.status # NoError
  /\ settable.settable <=> set = NoError

LEMMA MethodsAgree ==
  ASSUME NEW class \in Classes, NEW properties,
         \A c \in DOMAIN properties : properties[c] \in Accessors /\ c \notin SelectorsOf(class),
         NEW s, NEW scope, NEW count \in Nat, NEW there \in Nat, NEW buffer \in Nat,
         s = "PreferredChannelLayout" => there = count
  PROVE  LET size == GetPropertyDataSize(class, properties, s, count)
         IN  Agreement(class, properties, s, HasProperty(class, properties, s, scope),
                       IsPropertySettable(class, properties, s), size, buffer,
                       GetPropertyData(class, properties, s, there, buffer),
                       CheckSetPropertyData(class, properties, s, size.size))
<1> DEFINE has == HasProperty(class, properties, s, scope)
           settable == IsPropertySettable(class, properties, s)
           size == GetPropertyDataSize(class, properties, s, count)
           data == GetPropertyData(class, properties, s, there, buffer)
           set == CheckSetPropertyData(class, properties, s, size.size)
<1>1. BadPropertySize # NoError /\ UnknownProperty # NoError
  BY DEF BadPropertySize, NoError, UnknownProperty
<1>2. CASE s \in SelectorsOf(class)
  <2> DEFINE e == Entry(DataTable, class, s)
  <2>1. EntryOK(s, e)  BY <1>2, KnownSelector
  <2>2. s \notin DOMAIN properties  BY <1>2
  <2>3. settable = [status |-> NoError, settable |-> Entry(SettableTable, class, s)]
    BY <1>2, KnownSelector DEF IsPropertySettable
  <2>4. size = [status |-> NoError,
                size |-> IF e.form = "one" THEN e.size ELSE count * e.size]
    BY <1>2, KnownSelector DEF GetPropertyDataSize
  <2>5. buffer = size.size => data.status = NoError
    <3> SUFFICES ASSUME buffer = size.size  PROVE data.status = NoError  OBVIOUS
    <3>1. InTable(DataTable, class, s)  BY <1>2, KnownSelector
    <3>2. e.size \in Nat \ {0} /\ e.form \in {"one", "list", "whole"}  BY <2>1, EntryForms
    <3>3. CASE e.form = "list"
      BY <3>1, <3>3 DEF GetPropertyData, Copied
    <3>4. CASE e.form = "one"
      <4>1. buffer = e.size  BY <2>4, <3>4
      <4>2. ~ (buffer < 1 * e.size)  BY <3>2, <4>1
      <4>q. QED  BY <3>1, <3>4, <4>2 DEF GetPropertyData, Copied
    <3>5. CASE e.form = "whole"
      <4>1. there = count  BY <2>1, <3>5, EntryForms
      <4>2. buffer = there * e.size  BY <2>4, <3>5, <4>1
      <4>3. ~ (buffer < there * e.size)  BY <4>2
      <4>q. QED  BY <3>1, <3>5, <4>3 DEF GetPropertyData, Copied
    <3>q. QED  BY <3>2, <3>3, <3>4, <3>5
  <2>6. ~has => s \in ScopedTable[class]
    BY <1>2 DEF HasProperty, SelectorsOf, HasTable
  <2>7. settable.settable <=> set = NoError
    <3>1. settable.settable <=> InTable(SetTable, class, s)
      BY <1>2, <2>3, KnownSelector
    <3>2. CASE InTable(SetTable, class, s)
      <4>1. e = One(Entry(SetTable, class, s))  BY <1>2, <3>2, KnownSelector
      <4>2. size.size = Entry(SetTable, class, s)  BY <2>4, <4>1 DEF One
      <4>q. QED  BY <3>1, <3>2, <4>2 DEF CheckSetPropertyData
    <3>3. CASE ~InTable(SetTable, class, s)
      BY <1>1, <2>2, <3>1, <3>3 DEF CheckSetPropertyData
    <3>q. QED  BY <3>2, <3>3
  <2>q. QED  BY <2>3, <2>4, <2>5, <2>6, <2>7 DEF Agreement
<1>3. CASE s \notin SelectorsOf(class) /\ s \in DOMAIN properties
  <2>1. properties[s].setter \in BOOLEAN /\ properties[s].getter \in BOOLEAN
    BY <1>3 DEF Accessors
  <2>2. has  BY <1>3 DEF HasProperty, SelectorsOf
  <2>3. settable = [status |-> NoError, settable |-> properties[s].setter]
    BY <1>3, UnknownSelector DEF IsPropertySettable
  <2>4. size = [status |-> NoError, size |-> CFRef]
    BY <1>3, UnknownSelector DEF GetPropertyDataSize
  <2>5. buffer = size.size /\ properties[s].getter => data.status = NoError
    BY <1>3, <2>4, UnknownSelector DEF GetPropertyData, Copied, CFRef
  <2>6. properties[s].setter <=> set = NoError
    BY <1>1, <1>3, <2>1, <2>4, UnknownSelector DEF CheckSetPropertyData
  <2>q. QED  BY <1>3, <2>1, <2>2, <2>3, <2>4, <2>5, <2>6 DEF Agreement
<1>4. CASE s \notin SelectorsOf(class) /\ s \notin DOMAIN properties
  <2>1. ~has  BY <1>4 DEF HasProperty, SelectorsOf, HasTable
  <2>2. settable = [status |-> UnknownProperty, settable |-> FALSE]
    BY <1>4, UnknownSelector DEF IsPropertySettable
  <2>3. size = [status |-> UnknownProperty, size |-> 0]
    BY <1>4, UnknownSelector DEF GetPropertyDataSize
  <2>4. data = Failed(UnknownProperty)  BY <1>4, UnknownSelector DEF GetPropertyData
  <2>5. set = UnknownProperty  BY <1>4, UnknownSelector DEF CheckSetPropertyData
  <2>q. QED  BY <1>1, <2>1, <2>2, <2>3, <2>4, <2>5 DEF Agreement, Failed
<1>q. QED  BY <1>2, <1>3, <1>4

-----------------------------------------------------------------------------
(* What the calls of a session have answered.                              *)

LEMMA ClassIsKnown ==
  ASSUME NEW o
  PROVE  ClassOf(o) \in Classes
  BY DEF ClassOf, Classes

(* Custom properties are of selectors that no class has.                   *)
LEMMA CustomIsApart ==
  ASSUME NEW properties \in CustomMaps, NEW class \in Classes, NEW c \in DOMAIN properties
  PROVE  properties[c] \in Accessors /\ c = CustomSelector /\ c \notin SelectorsOf(class)
<1>1. c = CustomSelector /\ properties[c] \in Accessors  BY DEF CustomMaps
<1>q. QED  BY <1>1, ViewAssumption

LEMMA CustomIsMap ==
  ASSUME custom \in CustomMaps, NEW o
  PROVE  CustomOf(o) \in CustomMaps
<1>1. NoSelectors \in CustomMaps  BY DEF NoSelectors, CustomMaps
<1>q. QED  BY <1>1 DEF CustomOf

LEMMA RegisteredIsMap ==
  ASSUME NEW properties \in CustomMaps, NEW a \in Accessors
  PROVE  Sole(CustomSelector, a) ++ properties \in CustomMaps
  BY DEF CustomMaps, Sole, ++

(* A property has some number of values, two if they are returned whole.   *)
LEMMA CountIsNumber ==
  ASSUME CallInv, custom \in CustomMaps, NEW o \in AllObjects, NEW s, NEW scope
  PROVE  Count(o, s, scope) \in Nat /\ WholeListIsFixed(s, Count(o, s, scope))
<1>1. IsFiniteSet(AllObjects)
  <2>1. IsFiniteSet({}) /\ \A S, x : IsFiniteSet(S) => IsFiniteSet(S \union {x})
    BY FS_EmptySet, FS_AddElement
  <2>2. AllObjects = ((((({} \union {Plugin}) \union {Home}) \union {Device2})
                       \union {Stream}) \union {Volume}) \union {Mute}
    BY DEF AllObjects, Devices, Parts
  <2>q. QED  BY <2>1, <2>2
<1>2. \A S : S \subseteq AllObjects => Cardinality(S) \in Nat
  BY <1>1, FS_Subset, FS_CardinalityType
<1>3. OwnedObjects(o) \subseteq AllObjects
  BY ViewAssumption DEF CallInv, OwnedObjects, AllObjects
<1>4. OwnedIn(o, scope) \subseteq AllObjects  BY <1>3 DEF OwnedIn
<1>5. Cardinality(DOMAIN CustomOf(o)) \in Nat
  <2>1. DOMAIN CustomOf(o) \subseteq {CustomSelector}
    BY CustomIsMap DEF CustomMaps
  <2>2. IsFiniteSet({CustomSelector})  BY FS_Singleton
  <2>q. QED  BY <2>1, <2>2, FS_Subset, FS_CardinalityType
<1>6. /\ OwnedIn(o, scope) \intersect {Stream} \subseteq AllObjects
      /\ OwnedObjects(o) \intersect {Volume, Mute} \subseteq AllObjects
      /\ OwnedObjects(o) \intersect Devices \subseteq AllObjects
  BY <1>3, <1>4
<1>7. /\ Cardinality(OwnedIn(o, scope)) \in Nat
      /\ Cardinality(OwnedIn(o, scope) \intersect {Stream}) \in Nat
      /\ Cardinality(OwnedObjects(o) \intersect {Volume, Mute}) \in Nat
      /\ Cardinality(OwnedObjects(o) \intersect Devices) \in Nat
  BY <1>2, <1>4, <1>6
<1>q. QED  BY <1>5, <1>7 DEF Count, WholeListIsFixed

LEMMA SizeIsNumber ==
  ASSUME NEW class \in Classes, NEW properties, NEW s, NEW count \in Nat
  PROVE  GetPropertyDataSize(class, properties, s, count).size \in Nat
<1>1. CASE s \in SelectorsOf(class)
  <2>1. PICK size \in Nat \ {0} : Entry(SizeTable, class, s).size = size
    BY <1>1, KnownSelector, EntryForms
  <2>2. count * size \in Nat  OBVIOUS
  <2>q. QED  BY <1>1, <2>1, <2>2, KnownSelector DEF GetPropertyDataSize
<1>2. CASE s \notin SelectorsOf(class)
  BY <1>2, UnknownSelector DEF GetPropertyDataSize, CFRef
<1>q. QED  BY <1>1, <1>2

(* What only depends on the session and on the object it is about.         *)
LEMMA SessionFrame ==
  ASSUME SessionInv, UNCHANGED <<session, watched, custom>>, alive \subseteq alive'
  PROVE  SessionInv'
<1>1. FormInv'  BY DEF SessionInv, FormInv
<1>2. \A o : CustomOf(o)' = CustomOf(o)  BY DEF CustomOf, object
<1>3. SteadyInv'  BY <1>2 DEF SessionInv, SteadyInv
<1>q. QED  BY <1>1, <1>3 DEF SessionInv

LEMMA DropKeepsSession ==
  ASSUME SessionInv, NEW d, DropDevice(d)
  PROVE  SessionInv'
<1>1. UNCHANGED <<custom, watched>>  BY DEF DropDevice, setterVars
<1>2. \A o : CustomOf(o)' = CustomOf(o)  BY <1>1 DEF CustomOf, object
<1>3. CASE session.step = "none"
  BY <1>1, <1>3 DEF DropDevice, SessionInv, FormInv, SteadyInv
<1>4. CASE session.step # "none"
  <2>1. /\ DOMAIN session' = DOMAIN session
        /\ \A f \in Fields \ {"steady"} : session'[f] = session[f]
        /\ session'.steady => session.steady /\ session.object \in alive'
    BY <1>4 DEF DropDevice, SessionInv, FormInv, Fields
  <2>2. /\ session'.step = session.step /\ session'.object = session.object
        /\ session'.selector = session.selector /\ session'.scope = session.scope
        /\ session'.has = session.has /\ session'.settable = session.settable
        /\ session'.size = session.size /\ session'.buffer = session.buffer
        /\ session'.data = session.data /\ session'.there = session.there
        /\ session'.set = session.set
    BY <2>1 DEF Fields
  <2>3. FormInv'  BY <1>1, <1>4, <2>1, <2>2 DEF SessionInv, FormInv
  <2>4. SteadyInv'  BY <1>2, <1>4, <2>1, <2>2 DEF SessionInv, SteadyInv
  <2>q. QED  BY <2>3, <2>4 DEF SessionInv
<1>q. QED  BY <1>3, <1>4

LEMMA RegisterKeepsSession ==
  ASSUME SessionInv, NEW a \in Accessors, RegisterCustomProperty(a)
  PROVE  SessionInv'
<1>1. custom' \in CustomMaps
  BY RegisteredIsMap DEF RegisterCustomProperty, SessionInv, FormInv
<1>2. CASE session.step = "none"
  BY <1>1, <1>2 DEF RegisterCustomProperty, SessionInv, FormInv, SteadyInv
<1>3. CASE session.step # "none"
  <2>1. /\ DOMAIN session' = DOMAIN session
        /\ \A f \in Fields \ {"steady"} : session'[f] = session[f]
        /\ ~session'.steady
    BY <1>3 DEF RegisterCustomProperty, SessionInv, FormInv, Fields
  <2>2. /\ session'.step = session.step /\ session'.object = session.object
        /\ session'.selector = session.selector
        /\ session'.size = session.size /\ session'.buffer = session.buffer
        /\ session'.data = session.data /\ session'.there = session.there
    BY <2>1 DEF Fields
  <2>3. FormInv'  BY <1>1, <1>3, <2>1, <2>2 DEF SessionInv, FormInv
  <2>4. SteadyInv'  BY <2>1 DEF SteadyInv
  <2>q. QED  BY <2>3, <2>4 DEF SessionInv
<1>q. QED  BY <1>2, <1>3

LEMMA BeginKeepsSession ==
  ASSUME SessionInv, NEW o \in AllObjects, NEW s, NEW scope, Begin(o, s, scope)
  PROVE  SessionInv'
<1>1. UNCHANGED <<custom, watched, alive>>  BY DEF Begin, setterVars
<1>2. \A p : CustomOf(p)' = CustomOf(p)  BY <1>1 DEF CustomOf, object
<1>3. /\ Fields \subseteq DOMAIN session'
      /\ session'.step = "has" /\ session'.object = o /\ session'.selector = s
      /\ session'.scope = scope /\ session'.steady = Found(o)
      /\ session'.has = (Found(o) /\ HasProperty(ClassOf(o), CustomOf(o), s, scope))
      /\ session'.size.size = 0 /\ session'.buffer = 0 /\ session'.there = 0
      /\ session'.data = Failed(BadObject)
  BY DEF Begin, Fields
<1>4. FormInv'  BY <1>1, <1>3 DEF SessionInv, FormInv
<1>5. Found(o) => session'.has = HasProperty(ClassOf(o), CustomOf(o), s, scope)
  <2>1. PICK has \in BOOLEAN : has = HasProperty(ClassOf(o), CustomOf(o), s, scope)
    BY DEF HasProperty
  <2>q. QED  BY <1>3, <2>1
<1>6. SteadyInv'  BY <1>1, <1>2, <1>3, <1>5 DEF SteadyInv, Found
<1>q. QED  BY <1>4, <1>6 DEF SessionInv

(* A call answers what it is about, if the object is found, and leaves the *)
(* other answers.                                                          *)
LEMMA AskFacts ==
  ASSUME SessionInv, NEW from, from # "none", NEW to, NEW answers, Ask(from, to, answers)
  PROVE  /\ UNCHANGED <<custom, watched, alive>> /\ \A o : CustomOf(o)' = CustomOf(o)
         /\ session.step = from /\ session'.step = to
         /\ Fields \subseteq DOMAIN session /\ Fields \subseteq DOMAIN session'
         /\ \A f \in Fields \ {"step"} :
              session'[f] = IF Found(session.object) /\ f \in DOMAIN answers
                            THEN answers[f] ELSE session[f]
<1>1. UNCHANGED <<custom, watched, alive>>  BY DEF Ask, setterVars
<1>2. session.step = from /\ Fields \subseteq DOMAIN session
  BY DEF Ask, SessionInv, FormInv
<1>q. QED  BY <1>1, <1>2 DEF Ask, Fields, CustomOf, object

LEMMA SettableKeepsSession ==
  ASSUME SessionInv, HalIsPropertySettable
  PROVE  SessionInv'
<1> DEFINE answer == IsPropertySettable(ClassOf(session.object), CustomOf(session.object),
                                        session.selector)
<1>1. Ask("has", "settable", [settable |-> answer])  BY DEF HalIsPropertySettable
<1>a. PICK answers : /\ DOMAIN answers = {"settable"} /\ answers["settable"] = answer
                     /\ answers = [settable |-> answer]
  OBVIOUS
<1>2. Ask("has", "settable", answers)  BY <1>1, <1>a
<1> HIDE DEF answer
<1>3. /\ UNCHANGED <<custom, watched, alive>> /\ \A o : CustomOf(o)' = CustomOf(o)
      /\ session.step = "has" /\ session'.step = "settable"
      /\ Fields \subseteq DOMAIN session'
      /\ session'.object = session.object /\ session'.selector = session.selector
      /\ session'.scope = session.scope /\ session'.steady = session.steady
      /\ session'.has = session.has /\ session'.size = session.size
      /\ session'.buffer = session.buffer /\ session'.data = session.data
      /\ session'.there = session.there
      /\ Found(session.object) => session'.settable = answer
  <2> DEFINE Kept == {"object", "selector", "scope", "steady", "has", "size", "buffer", "data",
                    "there"}
  <2>1. /\ UNCHANGED <<custom, watched, alive>> /\ \A o : CustomOf(o)' = CustomOf(o)
        /\ session.step = "has" /\ session'.step = "settable" /\ Fields \subseteq DOMAIN session'
    BY <1>2, AskFacts
  <2>2. \A f \in Fields \ {"step"} :
          session'[f] = IF Found(session.object) /\ f \in {"settable"}
                        THEN answers[f] ELSE session[f]
    BY <1>a, <1>2, AskFacts
  <2>3. "settable" \in Fields \ {"step"} /\ Kept \subseteq Fields \ {"step", "settable"}
    BY DEF Fields
  <2>4. \A f \in Kept : session'[f] = session[f]  BY <2>2, <2>3
  <2>5. session'["settable"] = IF Found(session.object) THEN answers["settable"] ELSE session["settable"]
    BY <2>2, <2>3
  <2>q. QED  BY <1>a, <2>1, <2>4, <2>5
<1>4. FormInv'  BY <1>3 DEF SessionInv, FormInv
<1>5. SteadyInv'  BY <1>3 DEF SessionInv, SteadyInv, Found, answer
<1>q. QED  BY <1>4, <1>5 DEF SessionInv

LEMMA SizeKeepsSession ==
  ASSUME SessionInv, CallInv, HalGetPropertyDataSize
  PROVE  SessionInv'
<1> DEFINE class == ClassOf(session.object)
           properties == CustomOf(session.object)
           count == Count(session.object, session.selector, session.scope)
           answer == GetPropertyDataSize(class, properties, session.selector, count)
<1>1. Ask("settable", "sized", [size |-> answer])  BY DEF HalGetPropertyDataSize
<1>a. PICK answers : /\ DOMAIN answers = {"size"} /\ answers["size"] = answer
                     /\ answers = [size |-> answer]
  OBVIOUS
<1>2. Ask("settable", "sized", answers)  BY <1>1, <1>a
<1>3. session.step = "settable" /\ session.object \in AllObjects /\ custom \in CustomMaps
      /\ session.size.size \in Nat
  BY <1>1 DEF Ask, SessionInv, FormInv
<1>4. count \in Nat /\ WholeListIsFixed(session.selector, count)
  BY <1>3, CountIsNumber
<1>5. answer.size \in Nat  BY <1>4, ClassIsKnown, SizeIsNumber
<1> HIDE DEF answer, count
<1>6. /\ UNCHANGED <<custom, watched, alive>> /\ \A o : CustomOf(o)' = CustomOf(o)
      /\ session.step = "settable" /\ session'.step = "sized"
      /\ Fields \subseteq DOMAIN session'
      /\ session'.object = session.object /\ session'.selector = session.selector
      /\ session'.scope = session.scope /\ session'.steady = session.steady
      /\ session'.has = session.has /\ session'.settable = session.settable
      /\ session'.buffer = session.buffer /\ session'.data = session.data
      /\ session'.there = session.there
      /\ session'.size = IF Found(session.object) THEN answer ELSE session.size
  <2> DEFINE Kept == {"object", "selector", "scope", "steady", "has", "settable", "buffer", "data",
                    "there"}
  <2>1. /\ UNCHANGED <<custom, watched, alive>> /\ \A o : CustomOf(o)' = CustomOf(o)
        /\ session.step = "settable" /\ session'.step = "sized" /\ Fields \subseteq DOMAIN session'
    BY <1>2, AskFacts
  <2>2. \A f \in Fields \ {"step"} :
          session'[f] = IF Found(session.object) /\ f \in {"size"}
                        THEN answers[f] ELSE session[f]
    BY <1>a, <1>2, AskFacts
  <2>3. "size" \in Fields \ {"step"} /\ Kept \subseteq Fields \ {"step", "size"}
    BY DEF Fields
  <2>4. \A f \in Kept : session'[f] = session[f]  BY <2>2, <2>3
  <2>5. session'["size"] = IF Found(session.object) THEN answers["size"] ELSE session["size"]
    BY <2>2, <2>3
  <2>q. QED  BY <1>a, <2>1, <2>4, <2>5
<1>7. FormInv'  BY <1>3, <1>5, <1>6 DEF SessionInv, FormInv
<1>8. SteadyInv'  BY <1>4, <1>6 DEF SessionInv, SteadyInv, Found, answer
<1>q. QED  BY <1>7, <1>8 DEF SessionInv

LEMMA DataKeepsSession ==
  ASSUME SessionInv, CallInv, HalGetPropertyData
  PROVE  SessionInv'
<1> DEFINE class == ClassOf(session.object)
           properties == CustomOf(session.object)
           count == Count(session.object, session.selector, session.scope)
           Answer(b) == GetPropertyData(class, properties, session.selector, count, b)
<1>1. PICK parts \in {1, 2} :
        Ask("sized", "answered", [buffer |-> session.size.size \div parts,
                                  data |-> Answer(session.size.size \div parts),
                                  there |-> count])
  BY DEF HalGetPropertyData
<1>2. session.step = "sized" /\ session.object \in AllObjects /\ custom \in CustomMaps
      /\ session.size.size \in Nat /\ session.buffer \in Nat /\ session.there \in Nat
      /\ session.data = Failed(BadObject)
  BY <1>1 DEF Ask, SessionInv, FormInv
<1>3. PICK buffer \in Nat : buffer = session.size.size \div parts  BY <1>2
<1>4. Ask("sized", "answered", [buffer |-> buffer, data |-> Answer(buffer), there |-> count])
  BY <1>1, <1>3
<1>5. count \in Nat /\ WholeListIsFixed(session.selector, count)
  BY <1>2, CountIsNumber
<1>6. properties \in CustomMaps  BY <1>2, CustomIsMap
<1> HIDE DEF count, class, properties
<1>7. PICK data : data = Answer(buffer)  OBVIOUS
<1>8. PICK answers : /\ DOMAIN answers = {"buffer", "data", "there"}
                     /\ answers["buffer"] = buffer /\ answers["data"] = data
                     /\ answers["there"] = count
                     /\ answers = [buffer |-> buffer, data |-> data, there |-> count]
  OBVIOUS
<1>9. Ask("sized", "answered", answers)  BY <1>4, <1>7, <1>8
<1>10. /\ UNCHANGED <<custom, watched, alive>> /\ \A o : CustomOf(o)' = CustomOf(o)
       /\ session'.step = "answered"
       /\ Fields \subseteq DOMAIN session'
       /\ session'.object = session.object /\ session'.selector = session.selector
       /\ session'.scope = session.scope /\ session'.steady = session.steady
       /\ session'.has = session.has /\ session'.settable = session.settable
       /\ session'.size = session.size
       /\ session'.buffer = IF Found(session.object) THEN buffer ELSE session.buffer
       /\ session'.data = IF Found(session.object) THEN data ELSE session.data
       /\ session'.there = IF Found(session.object) THEN count ELSE session.there
  <2> DEFINE Answers == {"buffer", "data", "there"}
             Kept == {"object", "selector", "scope", "steady", "has", "settable", "size"}
  <2>1. /\ UNCHANGED <<custom, watched, alive>> /\ \A o : CustomOf(o)' = CustomOf(o)
        /\ session'.step = "answered" /\ Fields \subseteq DOMAIN session'
    BY <1>9, AskFacts
  <2>2. \A f \in Fields \ {"step"} :
          session'[f] = IF Found(session.object) /\ f \in Answers
                        THEN answers[f] ELSE session[f]
    BY <1>8, <1>9, AskFacts
  <2>3. Answers \subseteq Fields \ {"step"} /\ Kept \subseteq (Fields \ {"step"}) \ Answers
    BY DEF Fields
  <2>4. \A f \in Kept : session'[f] = session[f]  BY <2>2, <2>3
  <2>5. \A f \in Answers :
          session'[f] = IF Found(session.object) THEN answers[f] ELSE session[f]
    BY <2>2, <2>3
  <2>q. QED  BY <1>8, <2>1, <2>4, <2>5
<1>11. FormInv'
  <2>1. Found(session.object) =>
          session'.data = GetPropertyData(ClassOf(session'.object), properties, session'.selector,
                                          session'.there, session'.buffer)
    BY <1>7, <1>10 DEF class
  <2>2. ~Found(session.object) => session'.data = Failed(BadObject)  BY <1>2, <1>10
  <2>3. session'.buffer \in Nat /\ session'.there \in Nat /\ session'.size.size \in Nat
    BY <1>2, <1>5, <1>10
  <2>q. QED  BY <1>2, <1>6, <1>10, <2>1, <2>2, <2>3 DEF FormInv
<1>12. SteadyInv'
  BY <1>2, <1>5, <1>7, <1>10 DEF SessionInv, SteadyInv, Found, class, properties
<1>q. QED  BY <1>11, <1>12 DEF SessionInv

LEMMA TryKeepsSession ==
  ASSUME SessionInv, HalTrySetPropertyData
  PROVE  SessionInv'
<1> DEFINE answer == CheckSetPropertyData(ClassOf(session.object), CustomOf(session.object),
                                          session.selector, session.size.size)
<1>1. Ask("answered", "done", [set |-> answer])  BY DEF HalTrySetPropertyData
<1>a. PICK answers : /\ DOMAIN answers = {"set"} /\ answers["set"] = answer
                     /\ answers = [set |-> answer]
  OBVIOUS
<1>2. Ask("answered", "done", answers)  BY <1>1, <1>a
<1> HIDE DEF answer
<1>3. /\ UNCHANGED <<custom, watched, alive>> /\ \A o : CustomOf(o)' = CustomOf(o)
      /\ session.step = "answered" /\ session'.step = "done"
      /\ Fields \subseteq DOMAIN session'
      /\ session'.object = session.object /\ session'.selector = session.selector
      /\ session'.scope = session.scope /\ session'.steady = session.steady
      /\ session'.has = session.has /\ session'.settable = session.settable
      /\ session'.size = session.size /\ session'.buffer = session.buffer
      /\ session'.data = session.data /\ session'.there = session.there
      /\ Found(session.object) => session'.set = answer
  <2> DEFINE Kept == {"object", "selector", "scope", "steady", "has", "settable", "size", "buffer",
                    "data", "there"}
  <2>1. /\ UNCHANGED <<custom, watched, alive>> /\ \A o : CustomOf(o)' = CustomOf(o)
        /\ session.step = "answered" /\ session'.step = "done" /\ Fields \subseteq DOMAIN session'
    BY <1>2, AskFacts
  <2>2. \A f \in Fields \ {"step"} :
          session'[f] = IF Found(session.object) /\ f \in {"set"}
                        THEN answers[f] ELSE session[f]
    BY <1>a, <1>2, AskFacts
  <2>3. "set" \in Fields \ {"step"} /\ Kept \subseteq Fields \ {"step", "set"}
    BY DEF Fields
  <2>4. \A f \in Kept : session'[f] = session[f]  BY <2>2, <2>3
  <2>5. session'["set"] = IF Found(session.object) THEN answers["set"] ELSE session["set"]
    BY <2>2, <2>3
  <2>q. QED  BY <1>a, <2>1, <2>4, <2>5
<1>4. FormInv'  BY <1>3 DEF SessionInv, FormInv
<1>5. SteadyInv'  BY <1>3 DEF SessionInv, SteadyInv, Found, answer
<1>q. QED  BY <1>4, <1>5 DEF SessionInv

LEMMA SetKeepsSession ==
  ASSUME SessionInv, NEW x, HalSetPropertyData(x)
  PROVE  SessionInv'
<1>1. UNCHANGED <<custom, watched, alive>>  BY DEF HalSetPropertyData, setterVars
<1>2. \A o : CustomOf(o)' = CustomOf(o)  BY <1>1 DEF CustomOf, object
<1>3. /\ session.step = "answered" /\ session.object = object /\ session.selector = selector
      /\ Fields \subseteq DOMAIN session
  BY DEF HalSetPropertyData, Watching, SessionInv, FormInv
<1>4. CustomOf(session.object) = custom  BY <1>3 DEF CustomOf
<1> DEFINE status == CheckSetPropertyData(ClassOf(object), custom, selector, session.size.size)
<1>5. session' = [session EXCEPT !.step = "done", !.set = status]  BY DEF HalSetPropertyData
<1> HIDE DEF status
<1>6. /\ Fields \subseteq DOMAIN session' /\ session'.step = "done"
      /\ session'.object = session.object /\ session'.selector = session.selector
      /\ session'.scope = session.scope /\ session'.steady = session.steady
      /\ session'.has = session.has /\ session'.settable = session.settable
      /\ session'.size = session.size /\ session'.buffer = session.buffer
      /\ session'.data = session.data /\ session'.there = session.there
      /\ session'.set = status
  BY <1>3, <1>5 DEF Fields
<1>7. FormInv'  BY <1>1, <1>3, <1>6 DEF SessionInv, FormInv
<1>8. SteadyInv'
  BY <1>1, <1>2, <1>3, <1>4, <1>6 DEF SessionInv, SteadyInv, status
<1>q. QED  BY <1>7, <1>8 DEF SessionInv

LEMMA NextKeepsSession ==
  ASSUME SessionInv, CallInv, SetInv, [Next]_vars
  PROVE  SessionInv'
<1> USE DEF halVars, setterVars, pluginVars
<1>1. CASE PluginStep
  <2>1. CASE \E d \in Devices : DropDevice(d)  BY <2>1, DropKeepsSession
  <2>2. CASE \E t \in Threads : \E d \in Devices : AddDevice(t, d) \/ RemoveDevice(t, d)
    BY <2>2, SessionFrame DEF AddDevice, RemoveDevice
  <2>3. CASE \E t \in Threads : RemoveNotOwned(t) \/ Continues(t)
    <3>1. UNCHANGED <<session, watched, custom, alive>>
      BY <2>3 DEF RemoveNotOwned, Continues, ListDevice, SetContainer, OwnDevice, UnlistDevice,
                  DisownDevice, ChangeTree, NotifyDevices, RemovedNothing, viewVars
    <3>q. QED  BY <3>1, SessionFrame
  <2>q. QED  BY <1>1, <2>1, <2>2, <2>3 DEF PluginStep
<1>2. CASE SetterStep
  <2>1. UNCHANGED <<session, watched, custom, alive>>
    BY <1>2 DEF SetterStep, SetValue, Sets, KeepValue, RejectValue, StoreValue, NotifyValue
  <2>q. QED  BY <2>1, SessionFrame
<1>3. CASE HalStep
  <2>1. CASE InitializeJumper  BY <2>1, SessionFrame DEF InitializeJumper
  <2>2. CASE HalDone
    <3>1. session' = NoSession /\ custom' = custom /\ NoSession.step = "none"
      BY <2>2 DEF HalDone, NoSession
    <3>q. QED  BY <3>1 DEF SessionInv, FormInv, SteadyInv
  <2>3. CASE HalAsk  BY <2>3, BeginKeepsSession DEF HalAsk
  <2>4. CASE HalRefresh
    <3>1. object \in AllObjects  BY ViewAssumption DEF SetInv, object
    <3>q. QED  BY <2>4, <3>1, BeginKeepsSession DEF HalRefresh
  <2>q. QED
    BY <1>3, <2>1, <2>2, <2>3, <2>4, RegisterKeepsSession, SettableKeepsSession,
       SizeKeepsSession, DataKeepsSession, TryKeepsSession, SetKeepsSession
       DEF HalStep, HalReads, HalSets
<1>4. CASE UNCHANGED vars  BY <1>4, SessionFrame DEF vars, viewVars
<1>q. QED  BY <1>1, <1>2, <1>3, <1>4, StepGroups

LEMMA SessionInvariance == Spec => []SessionInv
<1>1. Init => SessionInv
  <2>1. NoSelectors \in CustomMaps  BY DEF NoSelectors, CustomMaps
  <2>q. QED  BY <2>1 DEF Init, NoSession, SessionInv, FormInv, SteadyInv
<1>2. SessionInv /\ (TreeInv /\ ListsInv) /\ SetInv /\ [Next]_vars => SessionInv'
  BY NextKeepsSession DEF ListsInv
<1>q. QED  BY <1>1, <1>2, ViewInvariance, SetInvariance, PTL DEF Spec

(* However a list changes between the call that asks for its size and the  *)
(* one that reads it, for every class and every size of a buffer: no       *)
(* answer exceeds its buffer, and none falls short of it without a reason. *)
THEOREM RepliesAlwaysFit == Spec => []RepliesFit
<1>1. SessionInv => RepliesFit
  <2> SUFFICES ASSUME SessionInv, session.step \in {"answered", "done"},
                      session.data.status = NoError
               PROVE  RepliesFit
    BY DEF RepliesFit
  <2>1. session.buffer \in Nat /\ session.there \in Nat  BY DEF SessionInv, FormInv
  <2>2. session.data # Failed(BadObject)  BY DEF Failed, BadObject, NoError
  <2>3. PICK properties \in CustomMaps :
          session.data = GetPropertyData(ClassOf(session.object), properties, session.selector,
                                         session.there, session.buffer)
    BY <2>2 DEF SessionInv, FormInv
  <2>4. ClassOf(session.object) \in Classes  BY ClassIsKnown
  <2>q. QED  BY <2>1, <2>3, <2>4, ReplyFits DEF RepliesFit
<1>q. QED  BY <1>1, SessionInvariance, PTL

(* The five methods of an object that is there all the time agree, for     *)
(* every class of object, property and scope, whatever lists do meanwhile. *)
THEOREM AnswersAlwaysAgree == Spec => []AnswersAgree
<1>1. SessionInv => AnswersAgree
  <2> SUFFICES ASSUME SessionInv, session.step = "done", session.steady  PROVE AnswersAgree
    BY DEF AnswersAgree
  <2> DEFINE class == ClassOf(session.object)
             properties == CustomOf(session.object)
  <2>1. PICK n \in Nat : /\ WholeListIsFixed(session.selector, n)
                         /\ session.size = GetPropertyDataSize(class, properties,
                                                               session.selector, n)
    BY DEF SessionInv, SteadyInv
  <2>2. /\ session.has = HasProperty(class, properties, session.selector, session.scope)
        /\ session.settable = IsPropertySettable(class, properties, session.selector)
        /\ WholeListIsFixed(session.selector, session.there)
        /\ session.data = GetPropertyData(class, properties, session.selector,
                                          session.there, session.buffer)
        /\ session.set = CheckSetPropertyData(class, properties, session.selector,
                                              session.size.size)
    BY DEF SessionInv, SteadyInv
  <2>3. session.buffer \in Nat /\ session.there \in Nat /\ custom \in CustomMaps
    BY DEF SessionInv, FormInv
  <2>4. class \in Classes /\ properties \in CustomMaps  BY <2>3, ClassIsKnown, CustomIsMap
  <2>5. session.selector \in DOMAIN properties => properties = custom
    BY DEF CustomOf, NoSelectors
  <2> HIDE DEF class, properties
  <2>6. \A c \in DOMAIN properties : properties[c] \in Accessors /\ c \notin SelectorsOf(class)
    BY <2>4, CustomIsApart
  <2>7. session.selector = "PreferredChannelLayout" => session.there = n
    BY <2>1, <2>2 DEF WholeListIsFixed
  <2>8. Agreement(class, properties, session.selector, session.has, session.settable,
                  session.size, session.buffer, session.data, session.set)
    BY <2>1, <2>2, <2>3, <2>4, <2>6, <2>7, MethodsAgree
  <2>q. QED  BY <2>5, <2>8 DEF AnswersAgree, Agreement, class, properties
<1>q. QED  BY <1>1, SessionInvariance, PTL
=============================================================================
