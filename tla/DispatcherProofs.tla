--------------------------- MODULE DispatcherProofs ---------------------------
(***************************************************************************)
(* Proofs about the lookup of objects, for any threads, objects and        *)
(* identifiers: an object is not accessed after UnregisterObject has       *)
(* returned, FindObject finds what is alive, and what it finds is what was *)
(* asked for.                                                              *)
(*                                                                         *)
(* There is one lemma per conjunct of the inductive invariant IInv, with a *)
(* step for each action or group of actions that can disturb it.           *)
(***************************************************************************)
EXTENDS Dispatcher, TLAPS

-----------------------------------------------------------------------------
(* The actions, by what they work on: a lookup, the map of registrations,  *)
(* or shared pointers.                                                     *)
Lookup(t) ==
  \/ \E id \in IDs : FindCall(t, id)
  \/ FindLook(t) \/ FindMapLocked(t) \/ FindStep(t)

Registration(t) ==
  \/ \E o \in Objects, id \in IDs : RegisterBegin(t, o, id)
  \/ UnregisterBegin(t)
  \/ RegistrationStep(t)

Pointers(t) ==
  \/ Constructed(t) \/ Destroyed(t)
  \/ GiveToOwner(t) \/ Drop(t)
  \/ \E o \in Objects : DropOwned(t, o)

LEMMA StepGroups ==
  ASSUME Next
  PROVE  \E t \in Threads : Lookup(t) \/ Registration(t) \/ Pointers(t)
  BY DEF Next, Lookup, Registration, Pointers

-----------------------------------------------------------------------------
(* Types.                                                                  *)

LEMMA LookupTypes ==
  ASSUME DispatcherTypeOK, MutexInv, NEW t \in Threads, Lookup(t)
  PROVE  DispatcherTypeOK'
<1> USE DEF DispatcherTypeOK, Goto, mapVars, regVars, objectVars, threadVars, Places, MapHolding,
            Constructing, Destroying
<1>1. ASSUME NEW id \in IDs, FindCall(t, id)  PROVE DispatcherTypeOK'
  BY <1>1 DEF FindCall, Map!Call
<1>2. CASE FindLook(t)  BY <1>2 DEF FindLook, Map!Look
<1>3. CASE FindMapLocked(t)  BY <1>3 DEF FindMapLocked, Map!Return
<1>4. CASE FindAbsent(t)  BY <1>4 DEF FindAbsent
<1>5. CASE FindTryLock(t)
  <2>1. mapSeen[t] \in Maps /\ wanted[t] \in IDs  BY <1>5 DEF FindTryLock, MutexInv
  <2>2. mapSeen[t][wanted[t]] \in Objects  BY <1>5, <2>1 DEF FindTryLock, Maps
  <2>q. QED  BY <1>5, <2>2 DEF FindTryLock
<1>6. CASE FindLoadPointer(t)  BY <1>6 DEF FindLoadPointer
<1>7. CASE FindShare(t)  BY <1>7 DEF FindShare
<1>8. CASE FindReturnNull(t)
  BY <1>8 DEF FindReturnNull, FindUnlock, Map!Release
<1>9. CASE FindReturnObject(t)
  BY <1>9 DEF FindReturnObject, FindUnlock, Map!Release
<1>q. QED  BY <1>1, <1>2, <1>3, <1>4, <1>5, <1>6, <1>7, <1>8, <1>9 DEF Lookup, FindStep

LEMMA RegistrationTypes ==
  ASSUME DispatcherTypeOK, LifeInv, AllocatedInv, NEW t \in Threads, Registration(t)
  PROVE  DispatcherTypeOK'
<1> USE DEF DispatcherTypeOK, Goto, mapVars, regVars, objectVars, threadVars, Places, MapHolding,
            Constructing, Destroying
<1>1. ASSUME NEW o \in Objects, NEW id \in IDs, RegisterBegin(t, o, id)
      PROVE  DispatcherTypeOK'
  BY <1>1 DEF RegisterBegin, Map!BeginSet, Lives
<1>2. CASE RegisterReplace(t)
  BY <1>2 DEF RegisterReplace, Map!Replace, Maps
<1>3. CASE RegisterReturn(t)
  BY <1>3 DEF RegisterReturn, Map!EndSet
<1>4. CASE UnregisterBegin(t)
  BY <1>4 DEF UnregisterBegin, Map!BeginSet
<1>5. CASE UnregisterReplace(t)
  BY <1>5 DEF UnregisterReplace, Map!Replace, Maps
<1>6. CASE UnregisterLock(t)
  BY <1>6 DEF UnregisterLock, Map!EndSet
<1>7. CASE UnregisterReturn(t)
  BY <1>7 DEF UnregisterReturn
<1>q. QED  BY <1>1, <1>2, <1>3, <1>4, <1>5, <1>6, <1>7 DEF Registration, RegistrationStep

LEMMA PointerTypes ==
  ASSUME DispatcherTypeOK, NEW t \in Threads, Pointers(t)
  PROVE  DispatcherTypeOK'
<1> USE DEF DispatcherTypeOK, Goto, mapVars, regVars, objectVars, threadVars, Places, MapHolding,
            Constructing, Destroying, Lives
<1>1. CASE Constructed(t)  BY <1>1 DEF Constructed
<1>2. CASE Destroyed(t)  BY <1>2 DEF Destroyed
<1>3. CASE GiveToOwner(t)  BY <1>3 DEF GiveToOwner
<1>4. CASE Drop(t)  BY <1>4 DEF Drop, DropReference
<1>5. ASSUME NEW o \in Objects, DropOwned(t, o)  PROVE DispatcherTypeOK'
  BY <1>5 DEF DropOwned, DropReference
<1>q. QED  BY <1>1, <1>2, <1>3, <1>4, <1>5 DEF Pointers

-----------------------------------------------------------------------------
(* The mutex and the map's two sides.                                      *)

LEMMA MutexPreserved ==
  ASSUME DispatcherTypeOK, MutexInv, NEW t \in Threads, Lookup(t) \/ Registration(t) \/ Pointers(t)
  PROVE  MutexInv'
<1> USE DEF DispatcherTypeOK, MutexInv, Goto, mapVars, regVars, objectVars, threadVars,
            MapHolding, Registering, MapSetting, MapReplaced
<1>1. ASSUME NEW id \in IDs, FindCall(t, id)  PROVE MutexInv'
  BY <1>1 DEF FindCall, Map!Call
<1>2. CASE FindLook(t)  BY <1>2, NobodyAssumption DEF FindLook, Map!Look
<1>3. CASE FindMapLocked(t)  BY <1>3 DEF FindMapLocked, Map!Return
<1>4. CASE FindAbsent(t) \/ FindTryLock(t) \/ FindLoadPointer(t) \/ FindShare(t)
  BY <1>4 DEF FindAbsent, FindTryLock, FindLoadPointer, FindShare
<1>5. CASE FindReturnNull(t) \/ FindReturnObject(t)
  BY <1>5 DEF FindReturnNull, FindReturnObject, FindUnlock, Map!Release
<1>6. ASSUME NEW o \in Objects, NEW id \in IDs, RegisterBegin(t, o, id)
      PROVE  MutexInv'
  BY <1>6, NobodyAssumption DEF RegisterBegin, Map!BeginSet
<1>7. CASE UnregisterBegin(t)
  BY <1>7, NobodyAssumption DEF UnregisterBegin, Map!BeginSet
<1>8. CASE RegisterReplace(t) \/ UnregisterReplace(t)
  BY <1>8 DEF RegisterReplace, UnregisterReplace, Map!Replace
<1>9. CASE RegisterReturn(t) \/ UnregisterLock(t)
  BY <1>9, NobodyAssumption DEF RegisterReturn, UnregisterLock, Map!EndSet
<1>10. CASE UnregisterReturn(t)
  BY <1>10, NobodyAssumption DEF UnregisterReturn
<1>11. CASE Constructed(t) \/ Destroyed(t) \/ GiveToOwner(t)
  BY <1>11 DEF Constructed, Destroyed, GiveToOwner
<1>12. ASSUME NEW o, Drop(t) \/ DropOwned(t, o)  PROVE MutexInv'
  BY <1>12 DEF Drop, DropOwned, DropReference
<1>q. QED
  BY <1>1, <1>2, <1>3, <1>4, <1>5, <1>6, <1>7, <1>8, <1>9, <1>10, <1>11, <1>12
  DEF Lookup, FindStep, Registration, RegistrationStep, Pointers

-----------------------------------------------------------------------------
(* Objects.                                                                *)

LEMMA LookupKeepsLife ==
  ASSUME DispatcherTypeOK, MutexInv, LifeInv, RegistrationInv, NEW t \in Threads, Lookup(t)
  PROVE  LifeInv'
<1> USE DEF DispatcherTypeOK, LifeInv, Goto, mapVars, regVars, objectVars, threadVars,
            Constructing, Destroying
<1>1. ASSUME NEW id \in IDs, FindCall(t, id)  PROVE LifeInv'
  BY <1>1 DEF FindCall
<1>2. CASE FindLook(t) \/ FindMapLocked(t) \/ FindAbsent(t) \/ FindLoadPointer(t)
  BY <1>2 DEF FindLook, FindMapLocked, FindAbsent, FindLoadPointer
<1>3. CASE FindTryLock(t)  BY <1>3 DEF FindTryLock
<1>4. CASE FindShare(t)
  <2>1. object[t] \in Objects  BY <1>4 DEF FindShare, RegistrationInv, ObjectLocked
  <2>q. QED  BY <1>4, <2>1 DEF FindShare
<1>5. CASE FindReturnNull(t)  BY <1>5 DEF FindReturnNull, FindUnlock
<1>6. CASE FindReturnObject(t)  BY <1>6 DEF FindReturnObject, FindUnlock
<1>q. QED  BY <1>1, <1>2, <1>3, <1>4, <1>5, <1>6 DEF Lookup, FindStep

LEMMA RegistrationKeepsLife ==
  ASSUME DispatcherTypeOK, LifeInv, AllocatedInv, NEW t \in Threads, Registration(t)
  PROVE  LifeInv'
<1> USE DEF DispatcherTypeOK, LifeInv, Goto, mapVars, regVars, objectVars, threadVars,
            Constructing, Destroying
<1>1. ASSUME NEW o \in Objects, NEW id \in IDs, RegisterBegin(t, o, id)
      PROVE  LifeInv'
  BY <1>1 DEF RegisterBegin
<1>2. CASE RegisterReplace(t) \/ UnregisterReplace(t) \/ UnregisterLock(t) \/ UnregisterReturn(t)
  BY <1>2 DEF RegisterReplace, UnregisterReplace, UnregisterLock, UnregisterReturn
<1>3. CASE RegisterReturn(t)
  BY <1>3 DEF RegisterReturn, AllocatedInv
<1>4. CASE UnregisterBegin(t)
  BY <1>4 DEF UnregisterBegin
<1>q. QED  BY <1>1, <1>2, <1>3, <1>4 DEF Registration, RegistrationStep

LEMMA PointersKeepLife ==
  ASSUME DispatcherTypeOK, LifeInv, AllocatedInv, RegistrationInv, NEW t \in Threads, Pointers(t)
  PROVE  LifeInv'
<1> USE DEF DispatcherTypeOK, LifeInv, Goto, mapVars, regVars, objectVars, threadVars,
            Constructing, Destroying
<1>1. CASE Constructed(t)
  BY <1>1 DEF Constructed, AllocatedInv, RegistrationInv
<1>2. CASE Destroyed(t)  BY <1>2 DEF Destroyed
<1>3. CASE GiveToOwner(t)
  <2>1. object[t] \in Objects /\ life[object[t]] = "alive"  BY <1>3 DEF GiveToOwner
  <2>2. /\ life' = life /\ objectID' = objectID /\ regPointer' = regPointer
        /\ pc' = [pc EXCEPT ![t] = "idle"] /\ object' = [object EXCEPT ![t] = NoObject]
        /\ refs' = [refs EXCEPT ![object[t]] = (refs[object[t]] \ {t}) \union {Owner}]
    BY <1>3 DEF GiveToOwner
  <2>3. /\ refs'[object[t]] # {}
        /\ \A o \in Objects : o # object[t] => refs'[o] = refs[o]
        /\ \A o \in Objects : \A u \in Threads : u # t /\ u \in refs[o] => u \in refs'[o]
    BY <2>1, <2>2
  <2>4. /\ pc'[t] = "idle"
        /\ \A u \in Threads : u # t => pc'[u] = pc[u] /\ object'[u] = object[u]
    BY <2>2
  <2>5. \A o \in Objects : refs'[o] # {} <=> refs[o] # {}  BY <2>1, <2>3
  <2>6. ASSUME NEW o \in Objects
        PROVE  /\ life'[o] = "alive" <=> refs'[o] # {}
               /\ life'[o] = "alive" => regPointer'[o] /\ objectID'[o] \in IDs
    BY <2>2, <2>5
  <2>7. ASSUME NEW u \in Threads
        PROVE  /\ pc'[u] \in Constructing => object'[u] \in Objects /\ life'[object'[u]] = "constructing"
               /\ pc'[u] \in Destroying => object'[u] \in Objects /\ life'[object'[u]] = "dying"
               /\ pc'[u] \in {"hit", "holding"} => object'[u] \in Objects /\ u \in refs'[object'[u]]
    BY <2>2, <2>3, <2>4
  <2>8. ASSUME NEW u \in Threads, NEW v \in Threads,
               pc'[u] \in Constructing \union Destroying, pc'[v] \in Constructing \union Destroying,
               object'[u] = object'[v]
        PROVE  u = v
    BY <2>4, <2>8
  <2>q. QED  BY <2>6, <2>7, <2>8
<1>4. ASSUME NEW o \in Objects, NEW h \in Threads \union {Owner}, DropReference(t, h, o),
             pc[t] \in {"idle", "holding"}, h = t \/ h = Owner
      PROVE  LifeInv'
  <2>1. life[o] = "alive"  BY <1>4 DEF DropReference
  <2>2. CASE refs[o] = {h}  BY <1>4, <2>1, <2>2, NobodyAssumption DEF DropReference
  <2>3. CASE refs[o] # {h}  BY <1>4, <2>1, <2>3, NobodyAssumption DEF DropReference
  <2>q. QED  BY <2>2, <2>3
<1>5. CASE Drop(t)  BY <1>4, <1>5 DEF Drop
<1>6. ASSUME NEW o \in Objects, DropOwned(t, o)  PROVE LifeInv'
  BY <1>4, <1>6 DEF DropOwned
<1>q. QED  BY <1>1, <1>2, <1>3, <1>5, <1>6 DEF Pointers

-----------------------------------------------------------------------------
(* What a step leaves alone.                                               *)

Own(t) ==
  \A u \in Threads :
    u # t => pc'[u] = pc[u] /\ object'[u] = object[u] /\ wanted'[u] = wanted[u]

LEMMA StepIsOwn ==
  ASSUME DispatcherTypeOK, NEW t \in Threads, Lookup(t) \/ Registration(t) \/ Pointers(t)
  PROVE  Own(t)
<1> USE DEF DispatcherTypeOK, Own, Goto, threadVars
<1>1. CASE Lookup(t)
  BY <1>1 DEF Lookup, FindCall, FindLook, FindMapLocked, FindStep, FindAbsent, FindTryLock,
     FindLoadPointer, FindShare, FindReturnNull, FindReturnObject, FindUnlock
<1>2. CASE Registration(t)
  BY <1>2 DEF Registration, RegistrationStep, RegisterBegin, RegisterReplace, RegisterReturn,
     UnregisterBegin, UnregisterReplace, UnregisterLock, UnregisterReturn
<1>3. CASE Pointers(t)
  BY <1>3 DEF Pointers, Constructed, Destroyed, GiveToOwner, Drop, DropOwned, DropReference
<1>q. QED  BY <1>1, <1>2, <1>3

(* A lookup changes nothing of what is registered, and is neither in a     *)
(* constructor nor in a destructor.                                        *)
LEMMA LookupAside ==
  ASSUME DispatcherTypeOK, NEW t \in Threads, Lookup(t)
  PROVE  /\ UNCHANGED <<registered, life, objectID, regPointer, regEntered, allocated, regMutex>>
         /\ pc[t] \notin Constructing \union Destroying
         /\ pc'[t] \notin Constructing \union Destroying
<1> USE DEF DispatcherTypeOK, Goto, threadVars, mapVars, regVars, objectVars, Constructing, Destroying
<1>1. ASSUME NEW id \in IDs, FindCall(t, id)
      PROVE  /\ UNCHANGED <<registered, life, objectID, regPointer, regEntered, allocated, regMutex>>
             /\ pc[t] \notin Constructing \union Destroying
             /\ pc'[t] \notin Constructing \union Destroying
  BY <1>1 DEF FindCall, Map!Call
<1>2. CASE FindLook(t)  BY <1>2 DEF FindLook, Map!Look
<1>3. CASE FindMapLocked(t)  BY <1>3 DEF FindMapLocked, Map!Return
<1>4. CASE FindAbsent(t) \/ FindTryLock(t) \/ FindLoadPointer(t) \/ FindShare(t)
  BY <1>4 DEF FindAbsent, FindTryLock, FindLoadPointer, FindShare
<1>5. CASE FindReturnNull(t) \/ FindReturnObject(t)
  BY <1>5 DEF FindReturnNull, FindReturnObject, FindUnlock, Map!Release
<1>q. QED  BY <1>1, <1>2, <1>3, <1>4, <1>5 DEF Lookup, FindStep

(* What is registered, as far as one object goes.                          *)
Same(o) ==
  \A id \in IDs : (Carries(o, id)' <=> Carries(o, id)) /\ (Erasing(o, id)' <=> Erasing(o, id))

(* It stays if the object is in the hands of another thread, or of none.   *)
LEMMA NotMine ==
  ASSUME NEW t \in Threads, Own(t), NEW o \in Objects,
         life'[o] = "alive" <=> life[o] = "alive", objectID'[o] = objectID[o],
         object[t] = o => pc[t] \notin (Constructing \union Destroying) \ {"registering", "destroyed"},
         object'[t] = o => pc'[t] \notin (Constructing \union Destroying) \ {"registering", "destroyed"}
  PROVE  Same(o)
  BY DEF Own, Same, Carries, Erasing, Constructing, Destroying

(* Pointers that come and go do not change what is registered.             *)
LEMMA PointersAside ==
  ASSUME DispatcherTypeOK, LifeInv, NEW t \in Threads, Pointers(t)
  PROVE  /\ UNCHANGED <<mapVars, regVars, regMutex, allocated>>
         /\ pc[t] \notin Registering /\ pc'[t] \notin Registering
         /\ \A o \in Objects : Same(o)
<1> USE DEF DispatcherTypeOK, Goto, threadVars, mapVars, regVars, objectVars
<1>a. Own(t)  BY StepIsOwn
<1>1. CASE Constructed(t)
  <2>1. /\ UNCHANGED <<mapVars, regVars, regMutex, allocated, objectID, object>>
        /\ pc[t] = "constructing" /\ pc'[t] = "holding"
        /\ life' = [life EXCEPT ![object[t]] = "alive"]
    BY <1>1 DEF Constructed
  <2>2. object[t] \in Objects /\ life[object[t]] = "constructing"
    BY <2>1 DEF LifeInv, Constructing
  <2>3. ASSUME NEW u \in Threads, u # t, object[u] = object[t]
        PROVE  pc[u] \notin Constructing \union Destroying /\ pc'[u] = pc[u] /\ object'[u] = object[u]
    BY <1>a, <2>1, <2>3 DEF LifeInv, Constructing, Own
  <2>4. Same(object[t])
    BY <1>a, <2>1, <2>2, <2>3 DEF Same, Carries, Erasing, Constructing, Destroying, Own
  <2>5. ASSUME NEW o \in Objects, o # object[t]  PROVE Same(o)
    BY <1>a, <2>1, <2>5, NotMine
  <2>q. QED  BY <2>1, <2>4, <2>5 DEF Registering, MapSetting, MapReplaced
<1>2. CASE Destroyed(t)
  <2>0. PICK o \in Objects : object[t] = o /\ life[o] = "dying"
    BY <1>2 DEF Destroyed, LifeInv, Destroying
  <2>1. /\ UNCHANGED <<mapVars, regVars, regMutex, allocated>>
        /\ pc[t] = "destroyed" /\ pc'[t] = "idle"
        /\ object'[t] = NoObject
        /\ life' = [life EXCEPT ![o] = "none"]
        /\ objectID' = [objectID EXCEPT ![o] = NoID]
    BY <1>2, <2>0 DEF Destroyed
  <2>2. ASSUME NEW u \in Threads, object'[u] = o \/ object[u] = o, u # t
        PROVE  pc[u] \notin Constructing \union Destroying /\ pc'[u] \notin Constructing \union Destroying
    BY <1>a, <2>0, <2>1, <2>2 DEF LifeInv, Destroying, Own
  <2>3. Same(o)
    BY <2>0, <2>1, <2>2 DEF Same, Carries, Erasing, Constructing, Destroying
  <2>4. ASSUME NEW x \in Objects, x # o  PROVE Same(x)
    BY <1>a, <2>0, <2>1, <2>4, NotMine, NobodyAssumption
  <2>q. QED  BY <2>1, <2>3, <2>4 DEF Registering, MapSetting, MapReplaced
<1>3. CASE GiveToOwner(t)
  <2>1. /\ UNCHANGED <<mapVars, regVars, regMutex, allocated, life, objectID>>
        /\ pc[t] = "holding" /\ pc'[t] = "idle"
    BY <1>3 DEF GiveToOwner
  <2>2. ASSUME NEW o \in Objects  PROVE Same(o)
    BY <1>a, <2>1, NotMine DEF Constructing, Destroying
  <2>q. QED  BY <2>1, <2>2 DEF Registering, MapSetting, MapReplaced
<1>4. ASSUME NEW o \in Objects, NEW h, DropReference(t, h, o), pc[t] \in {"idle", "holding"}
      PROVE  /\ UNCHANGED <<mapVars, regVars, regMutex, allocated>>
             /\ pc[t] \notin Registering /\ pc'[t] \notin Registering
             /\ \A x \in Objects : Same(x)
  <2>1. /\ UNCHANGED <<mapVars, regVars, regMutex, allocated, objectID>>
        /\ pc'[t] \in {"idle", "destructor"}
        /\ \A x \in Objects : x # o => life'[x] = life[x]
        /\ life[o] = "alive"
    BY <1>4 DEF DropReference, LifeInv
  <2>2. CASE pc'[t] = "idle"
    <3>1. life'[o] = life[o]  BY <1>4, <2>2 DEF DropReference
    <3>2. ASSUME NEW x \in Objects  PROVE Same(x)
      BY <1>a, <1>4, <2>1, <2>2, <3>1, NotMine DEF Constructing, Destroying
    <3>q. QED  BY <1>4, <2>1, <2>2, <3>2 DEF Registering, MapSetting, MapReplaced
  <2>3. CASE pc'[t] = "destructor"
    <3>1. life'[o] = "dying" /\ object'[t] = o  BY <1>4, <2>3 DEF DropReference
    <3>2. ASSUME NEW u \in Threads, u # t, object[u] = o
          PROVE  pc[u] \notin Constructing \union Destroying /\ pc'[u] = pc[u] /\ object'[u] = object[u]
      BY <1>a, <2>1, <3>2 DEF LifeInv, Own
    <3>3. Same(o)
      BY <1>a, <1>4, <2>1, <2>3, <3>1, <3>2 DEF Same, Carries, Erasing, Constructing, Destroying, Own
    <3>4. ASSUME NEW x \in Objects, x # o  PROVE Same(x)
      BY <1>a, <1>4, <2>1, <2>3, <3>1, <3>4, NotMine DEF Constructing, Destroying
    <3>q. QED  BY <1>4, <2>1, <2>3, <3>3, <3>4 DEF Registering, MapSetting, MapReplaced
  <2>q. QED  BY <2>1, <2>2, <2>3
<1>5. CASE Drop(t)
  <2>1. object[t] \in Objects  BY <1>5 DEF Drop, LifeInv
  <2>q. QED  BY <1>4, <1>5, <2>1 DEF Drop
<1>6. ASSUME NEW o \in Objects, DropOwned(t, o)
      PROVE  /\ UNCHANGED <<mapVars, regVars, regMutex, allocated>>
             /\ pc[t] \notin Registering /\ pc'[t] \notin Registering
             /\ \A x \in Objects : Same(x)
  BY <1>4, <1>6 DEF DropOwned
<1>q. QED  BY <1>1, <1>2, <1>3, <1>5, <1>6 DEF Pointers

(* Neither do the steps of registration that leave the map alone.          *)
LEMMA RegistrationAside ==
  ASSUME DispatcherTypeOK, LifeInv, NEW t \in Threads,
         \/ \E o \in Objects, id \in IDs : RegisterBegin(t, o, id)
         \/ RegisterReturn(t) \/ UnregisterBegin(t) \/ UnregisterLock(t)
  PROVE  registered' = registered /\ \A o \in Objects : Same(o)
<1> USE DEF DispatcherTypeOK, Goto, threadVars, mapVars, regVars, objectVars
<1>a. Own(t)  BY StepIsOwn DEF Registration, RegistrationStep
<1>1. ASSUME NEW x \in Objects, NEW id \in IDs, RegisterBegin(t, x, id)
      PROVE  registered' = registered /\ \A o \in Objects : Same(o)
  <2>1. /\ registered' = registered /\ objectID' = objectID
        /\ pc[t] = "idle" /\ pc'[t] = "registering"
        /\ \A o \in Objects : life'[o] = "alive" <=> life[o] = "alive"
    BY <1>1 DEF RegisterBegin, Map!BeginSet
  <2>2. ASSUME NEW o \in Objects  PROVE Same(o)
    BY <1>a, <2>1, NotMine DEF Constructing, Destroying
  <2>q. QED  BY <2>1, <2>2
<1>2. CASE RegisterReturn(t)
  <2>1. PICK x \in Objects : object[t] = x
    BY <1>2 DEF RegisterReturn, LifeInv, Constructing
  <2>2. /\ registered' = registered /\ UNCHANGED <<life, object>>
        /\ pc[t] = "registered" /\ pc'[t] = "constructing"
        /\ objectID' = [objectID EXCEPT ![x] = wanted[t]]
        /\ life[x] = "constructing"
    BY <1>2, <2>1 DEF RegisterReturn, Map!EndSet, LifeInv, Constructing
  <2>3. ASSUME NEW u \in Threads, object[u] = x, u # t
        PROVE  pc[u] \notin Constructing \union Destroying /\ pc'[u] \notin Constructing \union Destroying
    BY <1>a, <2>1, <2>2, <2>3 DEF LifeInv, Constructing, Own
  <2>4. Same(x)
    BY <2>1, <2>2, <2>3 DEF Same, Carries, Erasing, Constructing, Destroying
  <2>5. ASSUME NEW o \in Objects, o # x  PROVE Same(o)
    BY <1>a, <2>1, <2>2, <2>5, NotMine
  <2>q. QED  BY <2>2, <2>4, <2>5
<1>3. CASE UnregisterBegin(t)
  <2>1. /\ UNCHANGED <<registered, life, object, objectID, wanted>>
        /\ pc[t] = "destructor" /\ pc' = [pc EXCEPT ![t] = "hidden"]
    BY <1>3 DEF UnregisterBegin, Map!BeginSet
  <2>q. QED  BY <2>1 DEF Same, Carries, Erasing
<1>4. CASE UnregisterLock(t)
  <2>1. /\ UNCHANGED <<registered, life, object, objectID, wanted>>
        /\ pc[t] = "erased" /\ pc' = [pc EXCEPT ![t] = "locking"]
    BY <1>4 DEF UnregisterLock, Map!EndSet
  <2>q. QED  BY <2>1 DEF Same, Carries, Erasing
<1>q. QED  BY <1>1, <1>2, <1>3, <1>4

-----------------------------------------------------------------------------
(* What the map has.                                                       *)

LEMMA ReplaceFacts ==
  ASSUME DispatcherTypeOK, LifeInv, AllocatedInv, NEW t \in Threads, NEW o \in Objects, o = object[t]
  PROVE  /\ RegisterReplace(t) => \A x \in Objects, id \in IDs :
              /\ Erasing(x, id)' <=> Erasing(x, id)
              /\ Carries(x, id)' <=> Carries(x, id) \/ (x = o /\ id = wanted[t])
         /\ UnregisterReplace(t) => \A x \in Objects, id \in IDs :
              /\ Erasing(x, id)' <=> Erasing(x, id) \/ (x = o /\ id = objectID[o])
              /\ Carries(x, id)' <=> Carries(x, id) /\ x # o
              /\ Carries(o, id) <=> id = objectID[o]
<1> USE DEF DispatcherTypeOK, Goto, threadVars, objectVars
<1>1. ASSUME RegisterReplace(t), NEW x \in Objects, NEW id \in IDs
      PROVE  /\ Erasing(x, id)' <=> Erasing(x, id)
             /\ Carries(x, id)' <=> Carries(x, id) \/ (x = o /\ id = wanted[t])
  <2>1. /\ UNCHANGED <<life, object, objectID, wanted>>
        /\ pc[t] = "registering" /\ pc' = [pc EXCEPT ![t] = "registered"]
    BY <1>1 DEF RegisterReplace
  <2>2. pc'[t] = "registered" /\ \A u \in Threads : u # t => pc'[u] = pc[u]  BY <2>1
  <2>3. Erasing(x, id)' <=> Erasing(x, id)  BY <2>1, <2>2 DEF Erasing
  <2>4. Carries(x, id) => Carries(x, id)'  BY <2>1, <2>2 DEF Carries
  <2>5. x = o /\ id = wanted[t] => Carries(x, id)'  BY <2>1, <2>2 DEF Carries
  <2>6. ASSUME Carries(x, id)', ~Carries(x, id)  PROVE x = o /\ id = wanted[t]
    <3>1. PICK u \in Threads :
            /\ object[u] = x
            /\ \/ pc'[u] \in {"constructing", "destructor", "hidden"} /\ objectID[x] = id
               \/ pc'[u] = "registered" /\ wanted[u] = id
      BY <2>1, <2>6 DEF Carries
    <3>2. u = t  BY <2>2, <2>6, <3>1 DEF Carries
    <3>q. QED  BY <2>2, <3>1, <3>2
  <2>q. QED  BY <2>3, <2>4, <2>5, <2>6
<1>2. ASSUME UnregisterReplace(t), NEW x \in Objects, NEW id \in IDs
      PROVE  /\ Erasing(x, id)' <=> Erasing(x, id) \/ (x = o /\ id = objectID[o])
             /\ Carries(x, id)' <=> Carries(x, id) /\ x # o
             /\ Carries(o, id) <=> id = objectID[o]
  <2>1. /\ UNCHANGED <<life, object, objectID, wanted>>
        /\ pc[t] = "hidden" /\ pc' = [pc EXCEPT ![t] = "erased"]
    BY <1>2 DEF UnregisterReplace
  <2>2. /\ life[o] = "dying"
        /\ \A u \in Threads : object[u] = o /\ u # t => pc[u] \notin Constructing \union Destroying
    BY <2>1 DEF LifeInv, Destroying
  <2>3. pc'[t] = "erased" /\ \A u \in Threads : u # t => pc'[u] = pc[u]  BY <2>1
  <2>4. Erasing(x, id)' <=> Erasing(x, id) \/ (x = o /\ id = objectID[o])
    <3>1. Erasing(x, id) => Erasing(x, id)'  BY <2>1, <2>3 DEF Erasing
    <3>2. x = o /\ id = objectID[o] => Erasing(x, id)'  BY <2>1, <2>3 DEF Erasing
    <3>3. ASSUME Erasing(x, id)', ~Erasing(x, id)  PROVE x = o /\ id = objectID[o]
      <4>1. PICK u \in Threads :
              object[u] = x /\ pc'[u] \in {"erased", "locking"} /\ objectID[x] = id
        BY <2>1, <3>3 DEF Erasing
      <4>2. u = t  BY <2>3, <3>3, <4>1 DEF Erasing
      <4>q. QED  BY <4>1, <4>2
    <3>q. QED  BY <3>1, <3>2, <3>3
  <2>5. Carries(o, id) <=> id = objectID[o]
    BY <2>1, <2>2 DEF Carries, Constructing, Destroying
  <2>6. ~Carries(o, id)'
    BY <2>1, <2>2, <2>3 DEF Carries, Constructing, Destroying
  <2>7. x # o => (Carries(x, id)' <=> Carries(x, id))
    BY <2>1, <2>3 DEF Carries
  <2>q. QED  BY <2>4, <2>5, <2>6, <2>7
<1>q. QED  BY <1>1, <1>2

LEMMA MapPreserved ==
  ASSUME IInv, NEW t \in Threads, Lookup(t) \/ Registration(t) \/ Pointers(t)
  PROVE  MapInv'
<1> USE DEF IInv
<1>a. Own(t)  BY StepIsOwn
<1>b. ASSUME registered' = registered, \A o \in Objects : Same(o)  PROVE MapInv'
  BY <1>b DEF MapInv, Same
<1>1. CASE Lookup(t)
  <2>1. ASSUME NEW o \in Objects  PROVE Same(o)
    BY <1>1, <1>a, LookupAside, NotMine
  <2>q. QED  BY <1>1, <1>b, <2>1, LookupAside
<1>2. CASE Pointers(t)  BY <1>2, <1>b, PointersAside DEF mapVars
<1>3. CASE \/ \E o \in Objects, id \in IDs : RegisterBegin(t, o, id)
           \/ RegisterReturn(t) \/ UnregisterBegin(t) \/ UnregisterLock(t)
  BY <1>3, <1>b, RegistrationAside
<1>4. CASE RegisterReplace(t)
  <2>1. PICK o \in Objects : o = object[t]
    BY <1>4 DEF RegisterReplace, Goto, LifeInv, Constructing
  <2>2. registered' = [registered EXCEPT ![wanted[t]] = o] /\ pc[t] = "registering"
    BY <1>4, <2>1 DEF RegisterReplace, Goto
  <2>3. wanted[t] \in IDs /\ registered[wanted[t]] = NoObject
    BY <2>2 DEF AllocatedInv
  <2>4. ASSUME NEW id \in IDs, NEW x \in Objects  PROVE (registered[id] = x <=> Carries(x, id))'
    <3>1. Carries(x, id)' <=> Carries(x, id) \/ (x = o /\ id = wanted[t])
      BY <1>4, <2>1, ReplaceFacts
    <3>2. registered[id] = x <=> Carries(x, id)  BY DEF MapInv
    <3>3. registered'[id] = IF id = wanted[t] THEN o ELSE registered[id]
      BY <2>2, <2>3 DEF DispatcherTypeOK, Maps
    <3>q. QED  BY <2>3, <3>1, <3>2, <3>3, NobodyAssumption
  <2>q. QED  BY <2>4 DEF MapInv
<1>5. CASE UnregisterReplace(t)
  <2>1. PICK o \in Objects : o = object[t]
    BY <1>5 DEF UnregisterReplace, Goto, LifeInv, Destroying
  <2>2. registered' = [registered EXCEPT ![objectID[o]] = NoObject] /\ pc[t] = "hidden"
    BY <1>5, <2>1 DEF UnregisterReplace, Goto
  <2>3. ASSUME NEW id \in IDs, NEW x \in Objects  PROVE (registered[id] = x <=> Carries(x, id))'
    <3>1. /\ Carries(x, id)' <=> Carries(x, id) /\ x # o
          /\ Carries(o, id) <=> id = objectID[o]
      BY <1>5, <2>1, ReplaceFacts
    <3>2. registered[id] = x <=> Carries(x, id)  BY DEF MapInv
    <3>3. registered[id] = o <=> Carries(o, id)  BY DEF MapInv
    <3>4. registered'[id] = IF id = objectID[o] THEN NoObject ELSE registered[id]
      BY <2>2 DEF DispatcherTypeOK, Maps
    <3>q. QED  BY <3>1, <3>2, <3>3, <3>4, NobodyAssumption
  <2>q. QED  BY <2>3 DEF MapInv
<1>6. CASE UnregisterReturn(t)
  <2>1. /\ UNCHANGED <<registered, life, object, objectID, wanted>>
        /\ pc[t] = "locking" /\ pc' = [pc EXCEPT ![t] = "destroyed"]
    BY <1>6 DEF UnregisterReturn, Goto, mapVars, objectVars
  <2>2. \A o \in Objects, id \in IDs : Carries(o, id)' <=> Carries(o, id)
    BY <2>1 DEF Carries, DispatcherTypeOK
  <2>q. QED  BY <2>1, <2>2 DEF MapInv
<1>q. QED  BY <1>1, <1>2, <1>3, <1>4, <1>5, <1>6 DEF Registration, RegistrationStep

-----------------------------------------------------------------------------
(* Identifiers.                                                            *)

LEMMA AllocatedPreserved ==
  ASSUME IInv, NEW t \in Threads, Lookup(t) \/ Registration(t) \/ Pointers(t)
  PROVE  AllocatedInv'
<1> USE DEF IInv, DispatcherTypeOK, AllocatedInv, Goto, mapVars, regVars, objectVars, threadVars
<1>a. Own(t)  BY StepIsOwn
<1>b. \A u \in Threads : pc[u] \in Registering <=> regMutex = u  BY DEF MutexInv
<1>1. CASE Lookup(t)
  <2>1. /\ UNCHANGED <<registered, objectID, allocated>>
        /\ pc'[t] \notin Constructing \union Destroying
    BY <1>1, LookupAside
  <2>q. QED  BY <1>a, <2>1 DEF Own, Constructing, Destroying
<1>2. CASE Constructed(t)  BY <1>2 DEF Constructed
<1>3. CASE Destroyed(t)
  <2>1. ASSUME NEW u \in Threads, u # t, pc[u] \in Constructing \union Destroying
        PROVE  objectID'[object[u]] = objectID[object[u]]
    BY <1>3, <2>1 DEF Destroyed, LifeInv, Constructing, Destroying
  <2>q. QED  BY <1>3, <1>a, <2>1 DEF Destroyed, Own, Constructing, Destroying
<1>4. CASE GiveToOwner(t)  BY <1>4 DEF GiveToOwner
<1>5. ASSUME NEW o \in Objects, NEW h, DropReference(t, h, o), pc[t] \in {"idle", "holding"}
      PROVE  AllocatedInv'
  <2>1. life[o] = "alive"  BY <1>5 DEF DropReference, LifeInv
  <2>2. objectID[o] \in IDs  BY <2>1 DEF LifeInv
  <2>q. QED  BY <1>5, <2>2 DEF DropReference
<1>6. CASE Drop(t)
  <2>1. object[t] \in Objects  BY <1>6 DEF Drop, LifeInv
  <2>q. QED  BY <1>5, <1>6, <2>1 DEF Drop
<1>7. ASSUME NEW o \in Objects, DropOwned(t, o)  PROVE AllocatedInv'
  BY <1>5, <1>7 DEF DropOwned
<1>8. ASSUME NEW o \in Objects, NEW id \in IDs, RegisterBegin(t, o, id)  PROVE AllocatedInv'
  BY <1>8 DEF RegisterBegin, Map!BeginSet, FreshID
<1>9. CASE RegisterReplace(t)
  BY <1>9, <1>b, NobodyAssumption
  DEF RegisterReplace, Registering, MapSetting, MapReplaced, Maps
<1>10. CASE RegisterReturn(t)
  <2>1. ASSUME NEW u \in Threads, u # t, pc[u] \in Constructing \union Destroying
        PROVE  objectID'[object[u]] = objectID[object[u]]
    BY <1>10, <2>1 DEF RegisterReturn, LifeInv, Constructing, Destroying
  <2>2. object[t] \in Objects  BY <1>10 DEF RegisterReturn, LifeInv, Constructing
  <2>q. QED
    BY <1>10, <1>a, <2>1, <2>2 DEF RegisterReturn, Map!EndSet, Own, Constructing, Destroying
<1>11. CASE UnregisterBegin(t)  BY <1>11 DEF UnregisterBegin, Map!BeginSet
<1>12. CASE UnregisterReplace(t)
  BY <1>12, <1>b DEF UnregisterReplace, Registering, MapSetting, MapReplaced, Maps
<1>13. CASE UnregisterLock(t)  BY <1>13 DEF UnregisterLock, Map!EndSet
<1>14. CASE UnregisterReturn(t)
  BY <1>14, <1>b DEF UnregisterReturn, Registering, MapSetting, MapReplaced
<1>q. QED
  BY <1>1, <1>2, <1>3, <1>4, <1>6, <1>7, <1>8, <1>9, <1>10, <1>11, <1>12, <1>13, <1>14
  DEF Registration, RegistrationStep, Pointers

-----------------------------------------------------------------------------
(* What lookups have seen.                                                 *)

(* A read lock with this content is as it should be.                       *)
Current(t) == t \notin mapOutdated /\ mapSeen[t] = registered
BeforeAdding(t, w) ==
  pc[w] = "registered" /\ mapSeen[t] = [registered EXCEPT ![wanted[w]] = NoObject]
BeforeErasing(t, w) ==
  pc[w] = "erased" /\ mapSeen[t] = [registered EXCEPT ![objectID[object[w]]] = object[w]]
Seen(t) ==
  mapSeen[t] # NoMap /\ t \notin mapExpired =>
    \/ Current(t)
    \/ t \in mapOutdated /\ \E w \in Threads : BeforeAdding(t, w) \/ BeforeErasing(t, w)

LEMMA SeenIs ==
  SeenInv <=>
    /\ (\A w \in Threads : pc[w] \notin MapReplaced) => mapOutdated = {}
    /\ \A t \in Threads : Seen(t)
  BY DEF SeenInv, Seen, Current, BeforeAdding, BeforeErasing

(* The setter of the map stays where it is, as far as another thread sees. *)
LEMMA SeenStays ==
  ASSUME IInv, NEW t \in Threads, Lookup(t) \/ Registration(t) \/ Pointers(t),
         registered' = registered, pc[t] \notin MapReplaced, pc'[t] \notin MapReplaced,
         NEW u \in Threads, mapSeen'[u] = mapSeen[u],
         u \in mapOutdated' <=> u \in mapOutdated, u \in mapExpired' <=> u \in mapExpired,
         \A w \in Threads : pc[w] = "erased" => objectID'[object[w]] = objectID[object[w]]
  PROVE  Seen(u)'
<1>1. Own(t)  BY StepIsOwn DEF IInv
<1>2. ASSUME NEW w \in Threads, BeforeAdding(u, w) \/ BeforeErasing(u, w)
      PROVE  (BeforeAdding(u, w) \/ BeforeErasing(u, w))'
  <2>1. w # t  BY <1>2 DEF BeforeAdding, BeforeErasing, MapReplaced
  <2>2. pc'[w] = pc[w] /\ object'[w] = object[w] /\ wanted'[w] = wanted[w]
    BY <1>1, <2>1 DEF Own
  <2>q. QED  BY <1>2, <2>2 DEF BeforeAdding, BeforeErasing
<1>3. Seen(u)  BY SeenIs DEF IInv
<1>q. QED  BY <1>2, <1>3 DEF Seen, Current

(* Steps that are none of the map's.                                       *)
LEMMA SeenUnlessMap ==
  ASSUME IInv, NEW t \in Threads, Lookup(t) \/ Registration(t) \/ Pointers(t),
         registered' = registered, pc[t] \notin MapReplaced, pc'[t] \notin MapReplaced,
         mapSeen' = mapSeen, mapOutdated' = mapOutdated, mapExpired' = mapExpired,
         \A w \in Threads : pc[w] = "erased" => objectID'[object[w]] = objectID[object[w]]
  PROVE  SeenInv'
<1>1. \A u \in Threads : Seen(u)'  BY SeenStays
<1>2. Own(t)  BY StepIsOwn DEF IInv
<1>3. ((\A w \in Threads : pc[w] \notin MapReplaced) => mapOutdated = {})'
  BY <1>2 DEF IInv, SeenInv, Own
<1>q. QED  BY <1>1, <1>3 DEF SeenInv, Seen, Current, BeforeAdding, BeforeErasing

LEMMA LookupKeepsSeen ==
  ASSUME IInv, NEW t \in Threads, Lookup(t)
  PROVE  SeenInv'
<1> USE DEF Goto, mapVars
<1>0. DispatcherTypeOK  BY DEF IInv
<1>a. UNCHANGED <<registered, objectID>> /\ pc[t] \notin MapReplaced /\ pc'[t] \notin MapReplaced
  BY <1>0, LookupAside DEF MapReplaced, Constructing, Destroying
<1>1. CASE (\E id \in IDs : FindCall(t, id)) \/ FindMapLocked(t)
  BY <1>1, <1>a, SeenUnlessMap DEF FindCall, FindMapLocked, Map!Call, Map!Return
<1>2. CASE FindAbsent(t) \/ FindTryLock(t) \/ FindLoadPointer(t) \/ FindShare(t)
  BY <1>2, <1>a, SeenUnlessMap DEF FindAbsent, FindTryLock, FindLoadPointer, FindShare
<1>3. ASSUME mapOutdated' = mapOutdated \ {t}, mapExpired' = mapExpired \ {t},
             NEW new \in {registered, NoMap}, mapSeen' = [mapSeen EXCEPT ![t] = new]
      PROVE  SeenInv'
  <2>1. mapSeen'[t] = new /\ \A u \in Threads : u # t => mapSeen'[u] = mapSeen[u]
    BY <1>0, <1>3 DEF DispatcherTypeOK
  <2>2. ASSUME NEW u \in Threads, u # t  PROVE Seen(u)'
    BY <1>a, <1>3, <2>1, <2>2, SeenStays
  <2>3. Seen(t)'
    BY <1>a, <1>3, <2>1 DEF Seen, Current
  <2>4. ((\A w \in Threads : pc[w] \notin MapReplaced) => mapOutdated = {})'
    <3>1. Own(t)  BY <1>0, StepIsOwn
    <3>q. QED  BY <1>a, <1>3, <3>1 DEF IInv, SeenInv, Own
  <2>q. QED  BY <2>2, <2>3, <2>4 DEF SeenInv, Seen, Current, BeforeAdding, BeforeErasing
<1>4. CASE FindLook(t)  BY <1>3, <1>4 DEF FindLook, Map!Look
<1>5. CASE FindReturnNull(t) \/ FindReturnObject(t)
  BY <1>3, <1>5 DEF FindReturnNull, FindReturnObject, FindUnlock, Map!Release
<1>q. QED  BY <1>1, <1>2, <1>4, <1>5 DEF Lookup, FindStep

LEMMA PointersKeepSeen ==
  ASSUME IInv, NEW t \in Threads, Pointers(t)
  PROVE  SeenInv'
<1>0. DispatcherTypeOK /\ LifeInv  BY DEF IInv
<1>1. /\ UNCHANGED <<mapVars, regVars, regMutex, allocated>>
      /\ pc[t] \notin Registering /\ pc'[t] \notin Registering
  BY <1>0, PointersAside
<1>2. ASSUME NEW w \in Threads, pc[w] = "erased"
      PROVE  objectID'[object[w]] = objectID[object[w]]
  <2>1. CASE Destroyed(t)
    BY <1>0, <1>1, <1>2, <2>1 DEF Destroyed, Goto, LifeInv, Destroying, DispatcherTypeOK
  <2>q. QED
    BY <2>1 DEF Pointers, Constructed, GiveToOwner, Drop, DropOwned, DropReference
<1>q. QED  BY <1>1, <1>2, SeenUnlessMap DEF mapVars, Registering

(* No thread is setting the map but the one that has registrationMutex_.   *)
LEMMA OneSetter ==
  ASSUME MutexInv, NEW t \in Threads, pc[t] \in Registering, NEW u \in Threads,
         pc[u] \in Registering
  PROVE  u = t
  BY DEF MutexInv

LEMMA RegistrationKeepsSeen ==
  ASSUME IInv, NEW t \in Threads, Registration(t)
  PROVE  SeenInv'
<1> USE DEF Goto, mapVars, regVars, objectVars, IInv
<1>a. Own(t)  BY StepIsOwn
<1>1. ASSUME NEW o \in Objects, NEW id \in IDs, RegisterBegin(t, o, id)  PROVE SeenInv'
  BY <1>1, SeenUnlessMap DEF RegisterBegin, Map!BeginSet, MapReplaced, DispatcherTypeOK
<1>2. CASE UnregisterBegin(t)
  BY <1>2, SeenUnlessMap DEF UnregisterBegin, Map!BeginSet, MapReplaced, DispatcherTypeOK
<1>3. CASE UnregisterReturn(t)
  BY <1>3, SeenUnlessMap DEF UnregisterReturn, MapReplaced, DispatcherTypeOK
(* Before Replace nothing is outdated, and every other lookup has the      *)
(* present map.                                                            *)
<1>4. ASSUME pc[t] \in MapSetting, NEW u \in Threads, mapSeen[u] # NoMap, u \notin mapExpired
      PROVE  mapSeen[u] = registered
  <2>1. \A w \in Threads : pc[w] \notin MapReplaced
    BY <1>4, OneSetter DEF Registering, MapSetting, MapReplaced
  <2>2. mapOutdated = {}  BY <2>1 DEF SeenInv
  <2>q. QED  BY <1>4, <2>2 DEF SeenInv
<1>5. ASSUME Map!Replace(t), pc[t] \in MapSetting, pc'[t] \in MapReplaced,
             NEW old, old = registered,
             pc'[t] = "registered" => old = [registered' EXCEPT ![wanted'[t]] = NoObject],
             pc'[t] = "erased" => old = [registered' EXCEPT ![objectID'[object'[t]]] = object'[t]]
      PROVE  SeenInv'
  <2>1. ASSUME NEW u \in Threads  PROVE Seen(u)'
    <3>1. SUFFICES ASSUME mapSeen'[u] # NoMap, u \notin mapExpired'  PROVE
            u \in mapOutdated' /\ (BeforeAdding(u, t) \/ BeforeErasing(u, t))'
      BY DEF Seen
    <3>2. mapSeen' = mapSeen /\ mapExpired' = mapExpired /\ u \in mapOutdated'
      BY <1>5, <3>1 DEF Map!Replace
    <3>3. mapSeen'[u] = old  BY <1>4, <1>5, <3>1, <3>2
    <3>q. QED  BY <1>5, <3>2, <3>3 DEF BeforeAdding, BeforeErasing, MapReplaced
  <2>q. QED  BY <1>5, <2>1 DEF SeenInv, Seen, Current, BeforeAdding, BeforeErasing
<1>6. CASE RegisterReplace(t)
  <2>1. /\ pc[t] = "registering" /\ pc'[t] = "registered" /\ wanted' = wanted
        /\ registered' = [registered EXCEPT ![wanted[t]] = object[t]]
        /\ wanted[t] \in IDs /\ registered[wanted[t]] = NoObject
    BY <1>6 DEF RegisterReplace, AllocatedInv, DispatcherTypeOK
  <2>2. registered = [registered' EXCEPT ![wanted'[t]] = NoObject]
    BY <2>1 DEF DispatcherTypeOK, Maps
  <2>q. QED  BY <1>5, <1>6, <2>1, <2>2 DEF RegisterReplace, MapSetting, MapReplaced
<1>7. CASE UnregisterReplace(t)
  <2>1. PICK o \in Objects : o = object[t]
    BY <1>7 DEF UnregisterReplace, LifeInv, Destroying
  <2>2. /\ pc[t] = "hidden" /\ pc'[t] = "erased" /\ object' = object /\ objectID' = objectID
        /\ registered' = [registered EXCEPT ![objectID[o]] = NoObject]
        /\ objectID[o] \in IDs
    BY <1>7, <2>1 DEF UnregisterReplace, AllocatedInv, DispatcherTypeOK
  <2>3. registered[objectID[o]] = o
    BY <2>1, <2>2 DEF MapInv, Carries
  <2>4. registered = [registered' EXCEPT ![objectID[o]] = o]
    BY <2>2, <2>3 DEF DispatcherTypeOK, Maps
  <2>q. QED  BY <1>5, <1>7, <2>1, <2>2, <2>4 DEF UnregisterReplace, MapSetting, MapReplaced
<1>8. ASSUME Map!EndSet(t)  PROVE SeenInv'
  <2>1. /\ registered' = registered /\ mapSeen' = mapSeen
        /\ mapOutdated' = {} /\ mapExpired' = mapExpired \union mapOutdated
    BY <1>8 DEF Map!EndSet
  <2>q. QED  BY <2>1 DEF SeenInv
<1>9. CASE RegisterReturn(t) \/ UnregisterLock(t)
  BY <1>8, <1>9 DEF RegisterReturn, UnregisterLock
<1>q. QED
  BY <1>1, <1>2, <1>3, <1>6, <1>7, <1>9 DEF Registration, RegistrationStep

-----------------------------------------------------------------------------
(* Registrations.                                                          *)

(* What another thread has read and locked stays.                          *)
LEMMA OthersKeep ==
  ASSUME DispatcherTypeOK, NEW t \in Threads, Lookup(t) \/ Registration(t) \/ Pointers(t),
         NEW u \in Threads, u # t
  PROVE  mapSeen'[u] = mapSeen[u] /\ \A o \in Objects : u \in regShared[o] => u \in regShared'[o]
<1> USE DEF DispatcherTypeOK, Goto, mapVars, regVars
<1>1. CASE Lookup(t)
  <2>1. CASE \/ \E id \in IDs : FindCall(t, id)
             \/ FindLook(t) \/ FindMapLocked(t) \/ FindAbsent(t)
             \/ FindLoadPointer(t) \/ FindShare(t)
    BY <2>1 DEF FindCall, FindLook, FindMapLocked, FindAbsent, FindLoadPointer, FindShare,
                Map!Call, Map!Look, Map!Return
  <2>2. CASE FindTryLock(t)  BY <2>2 DEF FindTryLock
  <2>3. CASE FindReturnNull(t) \/ FindReturnObject(t)
    BY <2>3 DEF FindReturnNull, FindReturnObject, FindUnlock, Map!Release
  <2>q. QED  BY <1>1, <2>1, <2>2, <2>3 DEF Lookup, FindStep
<1>2. CASE Registration(t)
  BY <1>2 DEF Registration, RegistrationStep, RegisterBegin, RegisterReplace, RegisterReturn,
     UnregisterBegin, UnregisterReplace, UnregisterLock, UnregisterReturn,
     Map!BeginSet, Map!Replace, Map!EndSet
<1>3. CASE Pointers(t)
  BY <1>3 DEF Pointers, Constructed, Destroyed, GiveToOwner, Drop, DropOwned, DropReference
<1>q. QED  BY <1>1, <1>2, <1>3

(* A registration goes away at the end of UnregisterObject only.           *)
LEMMA PresentStays ==
  ASSUME IInv, NEW t \in Threads, Lookup(t) \/ Registration(t) \/ Pointers(t),
         NEW o \in Objects, NEW id \in IDs, Carries(o, id) \/ Erasing(o, id),
         UnregisterReturn(t) => object[t] # o
  PROVE  Carries(o, id)' \/ Erasing(o, id)'
<1> USE DEF IInv
<1>a. Own(t)  BY StepIsOwn
<1>1. CASE Lookup(t)
  <2>1. Same(o)  BY <1>1, <1>a, LookupAside, NotMine
  <2>q. QED  BY <2>1 DEF Same
<1>2. CASE Pointers(t)  BY <1>2, PointersAside DEF Same
<1>3. CASE \/ \E x \in Objects, i \in IDs : RegisterBegin(t, x, i)
           \/ RegisterReturn(t) \/ UnregisterBegin(t) \/ UnregisterLock(t)
  BY <1>3, RegistrationAside DEF Same
<1>4. CASE RegisterReplace(t)
  <2>1. PICK x \in Objects : x = object[t]
    BY <1>4 DEF RegisterReplace, Goto, LifeInv, Constructing
  <2>q. QED  BY <1>4, <2>1, ReplaceFacts
<1>5. CASE UnregisterReplace(t)
  <2>1. PICK x \in Objects : x = object[t]
    BY <1>5 DEF UnregisterReplace, Goto, LifeInv, Destroying
  <2>q. QED  BY <1>5, <2>1, ReplaceFacts
<1>6. CASE UnregisterReturn(t)
  <2>1. /\ UNCHANGED <<life, object, objectID, wanted>>
        /\ pc[t] = "locking" /\ pc' = [pc EXCEPT ![t] = "destroyed"]
    BY <1>6 DEF UnregisterReturn, Goto, objectVars
  <2>2. Carries(o, id) => Carries(o, id)'  BY <2>1 DEF Carries, DispatcherTypeOK
  <2>3. Erasing(o, id) => Erasing(o, id)'  BY <1>6, <2>1 DEF Erasing, DispatcherTypeOK
  <2>q. QED  BY <2>2, <2>3
<1>q. QED  BY <1>1, <1>2, <1>3, <1>4, <1>5, <1>6 DEF Registration, RegistrationStep

(* What a lookup finds in the map it has seen is registered, or is waiting *)
(* in UnregisterObject.                                                    *)
LEMMA FoundIsPresent ==
  ASSUME IInv, NEW t \in Threads, pc[t] = "mapLocked",
         NEW o \in Objects, o = mapSeen[t][wanted[t]]
  PROVE  Carries(o, wanted[t]) \/ Erasing(o, wanted[t])
<1> USE DEF IInv
<1>1. mapSeen[t] # NoMap /\ t \notin mapExpired /\ wanted[t] \in IDs
  BY DEF MutexInv, MapHolding
<1>2. registered[wanted[t]] = o => Carries(o, wanted[t])  BY <1>1 DEF MapInv
<1>3. CASE mapSeen[t] = registered  BY <1>2, <1>3
<1>4. ASSUME NEW w \in Threads, pc[w] = "registered",
             mapSeen[t] = [registered EXCEPT ![wanted[w]] = NoObject]
      PROVE  registered[wanted[t]] = o
  BY <1>1, <1>4, NobodyAssumption DEF DispatcherTypeOK, Maps
<1>5. ASSUME NEW w \in Threads, pc[w] = "erased",
             mapSeen[t] = [registered EXCEPT ![objectID[object[w]]] = object[w]]
      PROVE  registered[wanted[t]] = o \/ Erasing(o, wanted[t])
  <2>1. CASE objectID[object[w]] = wanted[t]
    <3>1. object[w] = o  BY <1>1, <1>5, <2>1 DEF DispatcherTypeOK, Maps
    <3>q. QED  BY <1>5, <2>1, <3>1 DEF Erasing
  <2>2. CASE objectID[object[w]] # wanted[t]
    BY <1>1, <1>5, <2>2 DEF DispatcherTypeOK, Maps
  <2>q. QED  BY <2>1, <2>2
<1>q. QED  BY <1>1, <1>2, <1>3, <1>4, <1>5 DEF SeenInv

LEMMA LockedPreserved ==
  ASSUME IInv, NEW t \in Threads, Lookup(t) \/ Registration(t) \/ Pointers(t),
         NEW u \in Threads, pc'[u] \in ObjectLocked
  PROVE  /\ object'[u] \in Objects
         /\ object'[u] = mapSeen'[u][wanted'[u]]
         /\ u \in regShared'[object'[u]]
         /\ (Carries(object[u], wanted[u]) \/ Erasing(object[u], wanted[u]))'
<1> USE DEF IInv, Goto
<1>a. Own(t)  BY StepIsOwn
<1>b. ASSUME NEW o \in Objects, NEW id \in IDs, object'[u] = o, wanted'[u] = id,
             Carries(o, id)' \/ Erasing(o, id)'
      PROVE  (Carries(object[u], wanted[u]) \/ Erasing(object[u], wanted[u]))'
  BY <1>b DEF Carries, Erasing
<1>1. CASE u # t
  <2>1. pc'[u] = pc[u] /\ object'[u] = object[u] /\ wanted'[u] = wanted[u]
    BY <1>1, <1>a DEF Own
  <2>2. PICK o \in Objects, id \in IDs :
          /\ o = object[u] /\ id = wanted[u] /\ u \in regShared[o]
          /\ o = mapSeen[u][id]
          /\ Carries(o, id) \/ Erasing(o, id)
    BY <2>1 DEF RegistrationInv, MutexInv, ObjectLocked, MapHolding
  <2>3. UnregisterReturn(t) => object[t] # o  BY <2>2 DEF UnregisterReturn
  <2>4. Carries(o, id)' \/ Erasing(o, id)'  BY <2>2, <2>3, PresentStays
  <2>5. mapSeen'[u] = mapSeen[u] /\ u \in regShared'[o]  BY <1>1, <2>2, OthersKeep
  <2>q. QED  BY <1>b, <2>1, <2>2, <2>4, <2>5
<1>2. CASE u = t
  <2>1. CASE FindTryLock(t)
    <3>1. PICK o \in Objects, id \in IDs : o = mapSeen[t][wanted[t]] /\ id = wanted[t]
      BY <2>1 DEF FindTryLock, MutexInv, MapHolding, DispatcherTypeOK, Maps
    <3>2. pc[t] = "mapLocked" /\ ~regEntered[o]
      BY <1>2, <2>1, <3>1 DEF FindTryLock, ObjectLocked, DispatcherTypeOK
    <3>3. Carries(o, id) \/ Erasing(o, id)  BY <3>1, <3>2, FoundIsPresent
    <3>4. Carries(o, id)' \/ Erasing(o, id)'
      BY <2>1, <3>3, <3>2, PresentStays DEF UnregisterReturn
    <3>5. /\ object'[t] = o /\ wanted'[t] = id /\ mapSeen' = mapSeen
          /\ t \in regShared'[o]
      BY <2>1, <3>1, <3>2 DEF FindTryLock, mapVars, DispatcherTypeOK
    <3>q. QED  BY <1>2, <1>b, <3>1, <3>4, <3>5
  <2>2. CASE FindLoadPointer(t) \/ FindShare(t)
    <3>1. PICK o \in Objects, id \in IDs :
            /\ o = object[t] /\ id = wanted[t] /\ t \in regShared[o]
            /\ o = mapSeen[t][id]
            /\ Carries(o, id) \/ Erasing(o, id)
      BY <2>2 DEF FindLoadPointer, FindShare, RegistrationInv, MutexInv, ObjectLocked, MapHolding
    <3>2. Carries(o, id)' \/ Erasing(o, id)'
      BY <2>2, <3>1, PresentStays DEF UnregisterReturn, FindLoadPointer, FindShare
    <3>3. UNCHANGED <<object, wanted, mapSeen, regShared>>
      BY <2>2 DEF FindLoadPointer, FindShare, mapVars, regVars
    <3>q. QED  BY <1>2, <1>b, <3>1, <3>2, <3>3
  <2>3. CASE \/ \E id \in IDs : FindCall(t, id)
             \/ FindLook(t) \/ FindMapLocked(t) \/ FindAbsent(t)
             \/ FindReturnNull(t) \/ FindReturnObject(t)
    BY <1>2, <2>3 DEF FindCall, FindLook, FindMapLocked, FindAbsent, FindReturnNull,
       FindReturnObject, ObjectLocked, DispatcherTypeOK, threadVars
  <2>4. CASE Registration(t)
    BY <1>2, <2>4 DEF Registration, RegistrationStep, RegisterBegin, RegisterReplace,
       RegisterReturn, UnregisterBegin, UnregisterReplace, UnregisterLock, UnregisterReturn,
       ObjectLocked, DispatcherTypeOK
  <2>5. CASE Pointers(t)
    BY <1>2, <2>5 DEF Pointers, Constructed, Destroyed, GiveToOwner, Drop, DropOwned,
       DropReference, ObjectLocked, DispatcherTypeOK
  <2>q. QED  BY <2>1, <2>2, <2>3, <2>4, <2>5 DEF Lookup, FindStep
<1>q. QED  BY <1>1, <1>2

LEMMA RegistrationPreserved ==
  ASSUME IInv, NEW t \in Threads, Lookup(t) \/ Registration(t) \/ Pointers(t)
  PROVE  RegistrationInv'
<1> USE DEF IInv, Goto
<1>a. Own(t)  BY StepIsOwn
<1>1. ASSUME NEW o \in Objects, NEW u \in Threads, object'[u] = o, pc'[u] \in Constructing
      PROVE  regPointer'[o]
  <2>1. CASE \E id \in IDs : RegisterBegin(t, o, id)
    BY <2>1 DEF RegisterBegin, DispatcherTypeOK
  <2>2. ASSUME NEW x \in Objects, NEW id \in IDs, RegisterBegin(t, x, id), x # o
        PROVE  regPointer'[o] = regPointer[o] /\ u # t
    BY <1>1, <2>2 DEF RegisterBegin, DispatcherTypeOK
  <2>3. CASE UnregisterBegin(t)
    <3>1. u # t  BY <1>1, <2>3 DEF UnregisterBegin, DispatcherTypeOK, Constructing
    <3>2. object[u] = o /\ pc[u] \in Constructing  BY <1>1, <1>a, <3>1 DEF Own
    <3>3. object[t] # o  BY <2>3, <3>1, <3>2 DEF UnregisterBegin, LifeInv, Destroying
    <3>4. regPointer'[o] = regPointer[o]  BY <2>3, <3>3 DEF UnregisterBegin, DispatcherTypeOK
    <3>q. QED  BY <3>2, <3>4 DEF RegistrationInv, Constructing
  <2>4. CASE \/ Lookup(t) \/ Pointers(t) \/ RegisterReplace(t) \/ RegisterReturn(t)
             \/ UnregisterReplace(t) \/ UnregisterLock(t) \/ UnregisterReturn(t)
    <3>1. regPointer' = regPointer
      BY <2>4, LookupAside, PointersAside
      DEF RegisterReplace, RegisterReturn, UnregisterReplace, UnregisterLock, UnregisterReturn,
          regVars
    <3>2. object[u] = o /\ pc[u] \in Constructing
      <4>1. CASE u # t  BY <1>1, <1>a, <4>1 DEF Own
      <4>2. CASE u = t /\ Lookup(t)  BY <1>1, <4>2, LookupAside
      <4>3. CASE u = t /\ Pointers(t)
        BY <1>1, <4>3 DEF Pointers, Constructed, Destroyed, GiveToOwner, Drop, DropOwned,
           DropReference, Constructing, DispatcherTypeOK
      <4>4. CASE u = t /\ (RegisterReplace(t) \/ RegisterReturn(t))
        BY <1>1, <4>4 DEF RegisterReplace, RegisterReturn, Constructing, DispatcherTypeOK
      <4>5. CASE u = t /\ (UnregisterReplace(t) \/ UnregisterLock(t) \/ UnregisterReturn(t))
        BY <1>1, <4>5 DEF UnregisterReplace, UnregisterLock, UnregisterReturn, Constructing,
           DispatcherTypeOK
      <4>q. QED  BY <2>4, <4>1, <4>2, <4>3, <4>4, <4>5
    <3>q. QED  BY <3>1, <3>2 DEF RegistrationInv, Constructing
  <2>5. u # t => object[u] = o /\ pc[u] \in Constructing  BY <1>1, <1>a DEF Own
  <2>6. ASSUME regPointer'[o] = regPointer[o], u # t  PROVE regPointer'[o]
    BY <2>5, <2>6 DEF RegistrationInv, Constructing
  <2>q. QED  BY <2>1, <2>2, <2>3, <2>4, <2>6 DEF Registration, RegistrationStep
<1>2. ASSUME NEW o \in Objects, regEntered'[o]
      PROVE  \E w \in Threads : object'[w] = o /\ pc'[w] = "locking"
  <2>1. CASE UnregisterLock(t) /\ object[t] = o
    BY <2>1 DEF UnregisterLock, DispatcherTypeOK
  <2>2. CASE ~(UnregisterLock(t) /\ object[t] = o)
    <3>1. regEntered[o] /\ (UnregisterReturn(t) => object[t] # o)
      <4>1. CASE Lookup(t)
        <5>1. regEntered' = regEntered /\ pc[t] \notin Destroying  BY <4>1, LookupAside
        <5>q. QED  BY <1>2, <5>1 DEF UnregisterReturn, Destroying
      <4>3. CASE Pointers(t)
        <5>1. UNCHANGED regVars /\ pc[t] \notin Registering  BY <4>3, PointersAside
        <5>q. QED  BY <1>2, <5>1 DEF UnregisterReturn, Registering, regVars
      <4>2. CASE Registration(t)
        BY <1>2, <2>2, <4>2 DEF Registration, RegistrationStep, RegisterBegin, RegisterReplace,
           RegisterReturn, UnregisterBegin, UnregisterReplace, UnregisterLock, UnregisterReturn,
           regVars, DispatcherTypeOK
      <4>q. QED  BY <4>1, <4>2, <4>3
    <3>2. PICK w \in Threads : object[w] = o /\ pc[w] = "locking"
      BY <3>1 DEF RegistrationInv
    <3>3. w # t
      <4>1. CASE Lookup(t)  BY <3>2, <4>1, LookupAside DEF Destroying
      <4>2. CASE Pointers(t)  BY <3>2, <4>2, PointersAside DEF Registering
      <4>3. CASE UnregisterReturn(t)  BY <3>1, <3>2, <4>3
      <4>4. CASE \/ \E x \in Objects, id \in IDs : RegisterBegin(t, x, id)
                 \/ RegisterReplace(t) \/ RegisterReturn(t) \/ UnregisterBegin(t)
                 \/ UnregisterReplace(t) \/ UnregisterLock(t)
        BY <3>2, <4>4 DEF RegisterBegin, RegisterReplace, RegisterReturn, UnregisterBegin,
           UnregisterReplace, UnregisterLock
      <4>q. QED  BY <4>1, <4>2, <4>3, <4>4 DEF Registration, RegistrationStep
    <3>q. QED  BY <1>a, <3>2, <3>3 DEF Own
  <2>q. QED  BY <2>1, <2>2
<1>q. QED  BY <1>1, <1>2, LockedPreserved DEF RegistrationInv, Constructing

-----------------------------------------------------------------------------
(* Objects that were alive during the whole call.                          *)

LEMMA LookupKeepsSteady ==
  ASSUME IInv, NEW t \in Threads, Lookup(t)
  PROVE  SteadyInv'
<1> USE DEF IInv, Goto, mapVars, threadVars
<1>a. Own(t) /\ UNCHANGED <<registered, life, objectID>>  BY StepIsOwn, LookupAside
<1>b. ASSUME steady'[t] \subseteq steady[t],
             \A u \in Threads : u # t => steady'[u] = steady[u],
             \A o \in steady'[t] :
               /\ pc'[t] \in MapHolding \union {"finding"} /\ pc'[t] # "miss"
               /\ wanted'[t] = wanted[t]
               /\ mapSeen'[t] \in {mapSeen[t], registered}
      PROVE  SteadyInv'
  <2>1. ASSUME NEW u \in Threads, u # t, NEW o \in steady'[u]
        PROVE  /\ pc'[u] \in MapHolding \union {"finding"} /\ pc'[u] # "miss"
               /\ life'[o] = "alive" /\ objectID'[o] = wanted'[u]
               /\ mapSeen'[u] # NoMap => mapSeen'[u][wanted'[u]] = o
    BY <1>a, <1>b, <2>1, OthersKeep DEF Own, SteadyInv
  <2>2. ASSUME NEW o \in steady'[t]
        PROVE  /\ life'[o] = "alive" /\ objectID'[o] = wanted'[t]
               /\ mapSeen'[t] # NoMap => mapSeen'[t][wanted'[t]] = o
    <3>1. /\ life[o] = "alive" /\ objectID[o] = wanted[t] /\ o \in Objects
          /\ mapSeen[t] # NoMap => mapSeen[t][wanted[t]] = o
          /\ wanted[t] \in IDs
      BY <1>b, <2>2 DEF SteadyInv, DispatcherTypeOK, MutexInv
    <3>2. registered[wanted[t]] = o  BY <3>1 DEF MapInv, Carries
    <3>q. QED  BY <1>a, <1>b, <2>2, <3>1, <3>2
  <2>q. QED  BY <1>b, <2>1, <2>2 DEF SteadyInv
<1>1. ASSUME NEW id \in IDs, FindCall(t, id)  PROVE SteadyInv'
  <2>1. pc[t] = "idle" /\ mapReader[t] = "idle" /\ mapSeen' = mapSeen
    BY <1>1 DEF FindCall, Map!Call
  <2>2. ASSUME NEW u \in Threads, u # t  PROVE steady'[u] = steady[u]
    BY <1>1, <2>2 DEF FindCall, DispatcherTypeOK
  <2>3. /\ pc'[t] = "finding" /\ wanted'[t] = id
        /\ steady'[t] = {o \in Objects : life[o] = "alive" /\ objectID[o] = id}
    BY <1>1 DEF FindCall, DispatcherTypeOK
  <2>4. mapSeen[t] = NoMap  BY <2>1 DEF MutexInv, MapHolding
  <2>5. ASSUME NEW u \in Threads, u # t, NEW o \in steady'[u]
        PROVE  /\ pc'[u] \in MapHolding \union {"finding"} /\ pc'[u] # "miss"
               /\ life'[o] = "alive" /\ objectID'[o] = wanted'[u]
               /\ mapSeen'[u] # NoMap => mapSeen'[u][wanted'[u]] = o
    BY <1>a, <2>1, <2>2, <2>5 DEF Own, SteadyInv
  <2>q. QED  BY <1>a, <2>1, <2>3, <2>4, <2>5 DEF SteadyInv
<1>2. CASE FindLook(t)
  BY <1>2, <1>b DEF FindLook, Map!Look, DispatcherTypeOK
<1>3. CASE FindMapLocked(t)
  BY <1>3, <1>b DEF FindMapLocked, Map!Return, MapHolding, DispatcherTypeOK
(* A lookup that misses had nothing to find.                               *)
<1>4. CASE FindAbsent(t)
  <2>1. mapSeen[t] # NoMap /\ pc[t] = "mapLocked"  BY <1>4 DEF FindAbsent, MutexInv, MapHolding
  <2>2. steady[t] = {}
    BY <1>4, <2>1, NobodyAssumption DEF FindAbsent, SteadyInv, DispatcherTypeOK
  <2>q. QED  BY <1>4, <1>b, <2>2 DEF FindAbsent
<1>5. CASE FindTryLock(t)
  <2>1. PICK o \in Objects : o = mapSeen[t][wanted[t]]
    BY <1>5 DEF FindTryLock, MutexInv, MapHolding, DispatcherTypeOK, Maps
  <2>2. mapSeen[t] # NoMap /\ pc[t] = "mapLocked" /\ steady' = steady /\ wanted' = wanted
        /\ mapSeen' = mapSeen
    BY <1>5 DEF FindTryLock, MutexInv, MapHolding
  <2>3. \A x \in steady[t] : x = o /\ life[o] = "alive"
    BY <2>1, <2>2 DEF SteadyInv
  <2>4. regEntered[o] => life[o] = "dying"
    BY DEF RegistrationInv, LifeInv, Destroying
  <2>5. pc'[t] = IF regEntered[o] THEN "miss" ELSE "locked"
    BY <1>5, <2>1 DEF FindTryLock, DispatcherTypeOK
  <2>q. QED  BY <1>b, <2>2, <2>3, <2>4, <2>5 DEF MapHolding
<1>6. CASE FindLoadPointer(t)
  <2>1. PICK o \in Objects : o = object[t] /\ o = mapSeen[t][wanted[t]]
    BY <1>6 DEF FindLoadPointer, RegistrationInv, ObjectLocked
  <2>2. /\ mapSeen[t] # NoMap /\ steady' = steady /\ wanted' = wanted /\ mapSeen' = mapSeen
        /\ pc'[t] = IF regPointer[o] THEN "using" ELSE "miss"
    BY <1>6, <2>1 DEF FindLoadPointer, MutexInv, MapHolding, DispatcherTypeOK
  <2>3. \A x \in steady[t] : x = o /\ life[o] = "alive"
    BY <2>1, <2>2 DEF SteadyInv
  <2>4. life[o] = "alive" => regPointer[o]  BY DEF LifeInv
  <2>q. QED  BY <1>b, <2>2, <2>3, <2>4 DEF MapHolding
<1>7. CASE FindShare(t)
  <2>1. PICK o \in Objects : o = object[t] /\ o = mapSeen[t][wanted[t]]
    BY <1>7 DEF FindShare, RegistrationInv, ObjectLocked
  <2>2. /\ mapSeen[t] # NoMap /\ steady' = steady /\ wanted' = wanted /\ mapSeen' = mapSeen
        /\ pc'[t] = IF refs[o] # {} THEN "hit" ELSE "miss"
    BY <1>7, <2>1 DEF FindShare, MutexInv, MapHolding, DispatcherTypeOK
  <2>3. \A x \in steady[t] : x = o /\ life[o] = "alive"
    BY <2>1, <2>2 DEF SteadyInv
  <2>4. life[o] = "alive" => refs[o] # {}  BY DEF LifeInv
  <2>q. QED  BY <1>b, <2>2, <2>3, <2>4 DEF MapHolding
<1>8. CASE FindReturnNull(t) \/ FindReturnObject(t)
  BY <1>8, <1>b DEF FindReturnNull, FindReturnObject, FindUnlock, DispatcherTypeOK
<1>q. QED  BY <1>1, <1>2, <1>3, <1>4, <1>5, <1>6, <1>7, <1>8 DEF Lookup, FindStep

LEMMA OthersKeepSteady ==
  ASSUME IInv, NEW t \in Threads, Registration(t) \/ Pointers(t)
  PROVE  SteadyInv'
<1> USE DEF IInv, Goto
<1>a. Own(t)  BY StepIsOwn
<1>1. mapSeen' = mapSeen
  BY DEF Registration, RegistrationStep, RegisterBegin, RegisterReplace, RegisterReturn,
     UnregisterBegin, UnregisterReplace, UnregisterLock, UnregisterReturn,
     Map!BeginSet, Map!Replace, Map!EndSet,
     Pointers, Constructed, Destroyed, GiveToOwner, Drop, DropOwned, DropReference, mapVars
<1>2. steady[t] = {}
  <2>1. pc[t] \notin MapHolding \union {"finding"}
    BY DEF Registration, RegistrationStep, RegisterBegin, RegisterReplace, RegisterReturn,
       UnregisterBegin, UnregisterReplace, UnregisterLock, UnregisterReturn,
       Pointers, Constructed, Destroyed, GiveToOwner, Drop, DropOwned, DropReference, MapHolding
  <2>q. QED  BY <2>1 DEF SteadyInv
<1>3. ASSUME NEW u \in Threads  PROVE steady'[u] \subseteq steady[u]
  BY DEF Registration, RegistrationStep, RegisterBegin, RegisterReplace, RegisterReturn,
     UnregisterBegin, UnregisterReplace, UnregisterLock, UnregisterReturn,
     Pointers, Constructed, Destroyed, GiveToOwner, Drop, DropOwned, DropReference,
     DispatcherTypeOK
(* Only a living object is steady, and it stays unless it is dropped.      *)
<1>4. ASSUME NEW u \in Threads, NEW o \in steady'[u]
      PROVE  life'[o] = life[o] /\ objectID'[o] = objectID[o]
  <2>1. o \in Objects /\ o \in steady[u] /\ life[o] = "alive"
    BY <1>3, <1>4 DEF SteadyInv, DispatcherTypeOK
  <2>2. CASE Registration(t)
    <3>1. ASSUME NEW x \in Objects, NEW id \in IDs, RegisterBegin(t, x, id)
          PROVE  life'[o] = life[o] /\ objectID'[o] = objectID[o]
      BY <2>1, <3>1 DEF RegisterBegin, DispatcherTypeOK
    <3>2. CASE RegisterReturn(t)
      <4>1. object[t] \in Objects /\ o # object[t]
        BY <2>1, <3>2 DEF RegisterReturn, LifeInv, Constructing
      <4>q. QED  BY <3>2, <4>1 DEF RegisterReturn, DispatcherTypeOK
    <3>q. QED
      BY <2>2, <3>1, <3>2 DEF Registration, RegistrationStep, RegisterReplace, UnregisterBegin,
         UnregisterReplace, UnregisterLock, UnregisterReturn, objectVars
  <2>3. CASE Constructed(t) \/ Destroyed(t)
    <3>1. object[t] \in Objects /\ o # object[t]
      BY <2>1, <2>3 DEF Constructed, Destroyed, LifeInv, Constructing, Destroying
    <3>q. QED  BY <2>3, <3>1 DEF Constructed, Destroyed, DispatcherTypeOK
  <2>4. ASSUME NEW x, NEW h, DropReference(t, h, x)
        PROVE  life'[o] = life[o] /\ objectID'[o] = objectID[o]
    <3>1. refs[x] = {h} => o # x  BY <1>4, <2>4 DEF DropReference, DispatcherTypeOK
    <3>q. QED  BY <2>1, <2>4, <3>1 DEF DropReference, DispatcherTypeOK
  <2>q. QED  BY <2>2, <2>3, <2>4 DEF Pointers, GiveToOwner, Drop, DropOwned
<1>5. ASSUME NEW u \in Threads, NEW o \in steady'[u]
      PROVE  /\ pc'[u] \in MapHolding \union {"finding"} /\ pc'[u] # "miss"
             /\ life'[o] = "alive" /\ objectID'[o] = wanted'[u]
             /\ mapSeen'[u] # NoMap => mapSeen'[u][wanted'[u]] = o
  <2>1. u # t /\ o \in steady[u]  BY <1>2, <1>3, <1>5
  <2>2. pc'[u] = pc[u] /\ wanted'[u] = wanted[u]  BY <1>a, <2>1 DEF Own
  <2>q. QED  BY <1>1, <1>4, <1>5, <2>1, <2>2 DEF SteadyInv
<1>q. QED  BY <1>5 DEF SteadyInv

-----------------------------------------------------------------------------
(* The invariant, and what follows from it.                                *)

LEMMA InitIInv ==
  ASSUME Init
  PROVE  IInv
<1> USE NobodyAssumption DEF Init, Map!Init
<1>1. registered \in Maps  BY DEF Maps
<1>2. DispatcherTypeOK  BY <1>1 DEF DispatcherTypeOK, Lives, Places
<1>3. \A t \in Threads : pc[t] \notin Registering \union MapHolding \union Constructing
                                      \union Destroying \union {"finding", "hit", "holding"}
  BY DEF Registering, MapSetting, MapReplaced, MapHolding, Constructing, Destroying
<1>4. MutexInv  BY <1>3 DEF MutexInv, MapSetting, MapReplaced, Registering
<1>5. LifeInv  BY <1>3 DEF LifeInv
<1>6. MapInv  BY DEF MapInv, Carries
<1>7. AllocatedInv  BY DEF AllocatedInv
<1>8. SeenInv  BY DEF SeenInv
<1>9. RegistrationInv  BY DEF RegistrationInv, ObjectLocked
<1>10. SteadyInv  BY DEF SteadyInv
<1>q. QED  BY <1>2, <1>4, <1>5, <1>6, <1>7, <1>8, <1>9, <1>10 DEF IInv

LEMMA NextIInv ==
  ASSUME IInv, Next
  PROVE  IInv'
<1> USE DEF IInv
<1>1. PICK t \in Threads : Lookup(t) \/ Registration(t) \/ Pointers(t)  BY StepGroups
<1>2. DispatcherTypeOK'  BY <1>1, LookupTypes, RegistrationTypes, PointerTypes
<1>3. MutexInv'  BY <1>1, MutexPreserved
<1>4. LifeInv'  BY <1>1, LookupKeepsLife, RegistrationKeepsLife, PointersKeepLife
<1>5. MapInv' /\ AllocatedInv'  BY <1>1, MapPreserved, AllocatedPreserved
<1>6. SeenInv'  BY <1>1, LookupKeepsSeen, RegistrationKeepsSeen, PointersKeepSeen
<1>7. RegistrationInv'  BY <1>1, RegistrationPreserved
<1>8. SteadyInv'  BY <1>1, LookupKeepsSteady, OthersKeepSteady
<1>q. QED  BY <1>2, <1>3, <1>4, <1>5, <1>6, <1>7, <1>8

LEMMA StutterIInv ==
  ASSUME IInv, UNCHANGED vars
  PROVE  IInv'
<1> USE DEF IInv, vars, mapVars, regVars, objectVars, threadVars
<1>1. DispatcherTypeOK' /\ MutexInv' /\ LifeInv'  BY DEF DispatcherTypeOK, MutexInv, LifeInv
<1>2. MapInv' /\ AllocatedInv'  BY DEF MapInv, AllocatedInv, Carries
<1>3. SeenInv'  BY DEF SeenInv
<1>4. RegistrationInv'  BY DEF RegistrationInv, Carries, Erasing
<1>5. SteadyInv'  BY DEF SteadyInv
<1>q. QED  BY <1>1, <1>2, <1>3, <1>4, <1>5

(* The inductive invariant of the lookup: who holds which locks, what the  *)
(* map has, and what each thread inside FindObject (src/Dispatcher.cpp) has*)
(* seen of it.                                                             *)
THEOREM Invariance == Spec => []IInv
<1>1. IInv /\ [Next]_vars => IInv'  BY NextIInv, StutterIInv
<1>q. QED  BY InitIInv, <1>1, PTL DEF Spec

(* Once UnregisterObject has returned, no thread inside FindObject has a   *)
(* pointer to the object or a lock of its registration, for any threads,   *)
(* objects and identifiers.                                                *)
THEOREM NeverAccessedAfterUnregister == Spec => []NotAccessedAfterUnregister
<1>1. ASSUME IInv  PROVE NotAccessedAfterUnregister
  <2> SUFFICES ASSUME NEW t \in Threads, pc[t] \in {"locked", "using"}, Unregistered(object[t])
               PROVE  FALSE
    BY DEF NotAccessedAfterUnregister
  <2> DEFINE o == object[t]
  <2>1. Carries(o, wanted[t]) \/ Erasing(o, wanted[t])
    BY <1>1 DEF IInv, RegistrationInv, ObjectLocked
  <2>2. CASE life[o] = "alive"
    BY <1>1, <2>2 DEF Unregistered, IInv, LifeInv, Destroying
  <2>3. CASE \E u \in Threads :
               object[u] = o /\ pc[u] \in (Constructing \union Destroying) \ {"destroyed"}
    BY <1>1, <2>3 DEF Unregistered, IInv, LifeInv, Constructing, Destroying
  <2>q. QED  BY <2>1, <2>2, <2>3 DEF Carries, Erasing, Constructing, Destroying
<1>q. QED  BY Invariance, <1>1, PTL

(* FindObject answers null only when no object with the identifier was     *)
(* alive during the whole call, whoever registers and unregisters others   *)
(* meanwhile.                                                              *)
THEOREM AliveIsFound == Spec => []FindsWhatIsAlive
<1>1. IInv => FindsWhatIsAlive
  BY DEF IInv, SteadyInv, FindsWhatIsAlive, DispatcherTypeOK
<1>q. QED  BY Invariance, <1>1, PTL

(* What FindObject returns has the identifier that was asked for and is    *)
(* alive, even if identifiers are freed and allocated again meanwhile.     *)
THEOREM FoundIsTheOne == Spec => []FoundIsWhatWasAsked
<1>1. ASSUME IInv  PROVE FoundIsWhatWasAsked
  <2> SUFFICES ASSUME NEW t \in Threads, pc[t] = "hit"
               PROVE  life[object[t]] = "alive" /\ objectID[object[t]] = wanted[t]
    BY DEF FoundIsWhatWasAsked
  <2>1. object[t] \in Objects /\ life[object[t]] = "alive"  BY <1>1 DEF IInv, LifeInv
  <2>2. Carries(object[t], wanted[t]) \/ Erasing(object[t], wanted[t])
    BY <1>1 DEF IInv, RegistrationInv, ObjectLocked
  <2>3. ASSUME NEW u \in Threads, object[u] = object[t]
        PROVE  pc[u] \notin Constructing \union Destroying
    BY <1>1, <2>1, <2>3 DEF IInv, LifeInv
  <2>q. QED  BY <2>1, <2>2, <2>3 DEF Carries, Erasing, Constructing, Destroying
<1>q. QED  BY Invariance, <1>1, PTL
=============================================================================
