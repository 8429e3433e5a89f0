----------------------------- MODULE Dispatcher -----------------------------
(***************************************************************************)
(* aspl::Dispatcher (src/Dispatcher.cpp) and the part of the life of an    *)
(* aspl::Object that goes through it: the constructor registers the object,*)
(* FindObject turns an identifier into a shared pointer from any thread,   *)
(* and the destructor, run by whichever thread drops the last shared       *)
(* pointer, unregisters it.                                                *)
(*                                                                         *)
(* The map of registrations is a DoubleBuffer; its promise, the module     *)
(* SnapshotRegister, stands for it here.  Which identifier AllocateID      *)
(* picks is the subject of module IdAllocator: here it is any free one.    *)
(*                                                                         *)
(* Definitions named Bug... are faulty variants of the definition that     *)
(* follows them, kept to show that the properties can fail.                *)
(***************************************************************************)
EXTENDS FiniteSets

CONSTANTS
  Threads,     \* HAL threads and threads of the plugin: each can do anything
  Objects,     \* storage in which objects are constructed and destroyed
  IDs,         \* identifiers that AllocateID may return
  Owner,       \* a long-lived holder of shared pointers: an owner's tree
  NoObject, NoThread, NoID, NoMap

ASSUME NobodyAssumption ==
  NoObject \notin Objects /\ NoThread \notin Threads /\ NoID \notin IDs
  /\ Owner \notin Threads

VARIABLES
  registered,    \* registeredObjects_: the current map
  mapReader,     \* read locks of registeredObjects_, per thread
  mapSeen,       \* the map a read lock refers to
  mapOutdated,   \* read locks on a map that the present Set has replaced
  mapExpired,    \* read locks on a map that was replaced before
  mapWriter,     \* progress of registeredObjects_.Set
  regMutex,      \* registrationMutex_
  allocated,     \* identifiers in use, from AllocateID until FreeID
  regPointer,    \* registration->object is not null, per object
  regShared,     \* registration->mutex: shared holders
  regEntered,    \* registration->mutex: a unique_lock is requested
  life,          \* [Objects -> Lives]
  objectID,      \* Object::objectID_
  refs,          \* holders of shared pointers to the object
  pc, wanted, object,  \* per thread: place, objectID argument, the object
  steady         \* history: objects alive ever since FindObject was called

mapVars    == <<registered, mapReader, mapSeen, mapOutdated, mapExpired, mapWriter>>
regVars    == <<regPointer, regShared, regEntered>>
objectVars == <<life, objectID, refs>>
threadVars == <<pc, wanted, object, steady>>
vars == <<mapVars, regVars, objectVars, threadVars, regMutex, allocated>>

Maps  == [IDs -> Objects \union {NoObject}]
Lives == {"none", "constructing", "alive", "dying"}

(* DoubleBuffer<std::unordered_map<...>>: the map has a destructor.        *)
Map ==
  INSTANCE SnapshotRegister
    WITH Readers <- Threads, Writers <- Threads, Values <- Maps,
         NoSnapshot <- NoMap, NonTrivial <- TRUE,
         register <- registered, getter <- mapReader, snapshot <- mapSeen,
         outdated <- mapOutdated,
         expired <- mapExpired, setter <- mapWriter

Init ==
  /\ registered = [id \in IDs |-> NoObject]
  /\ Map!Init
  /\ regMutex = NoThread
  /\ allocated = {}
  /\ regPointer = [o \in Objects |-> FALSE]
  /\ regShared = [o \in Objects |-> {}]
  /\ regEntered = [o \in Objects |-> FALSE]
  /\ life = [o \in Objects |-> "none"]
  /\ objectID = [o \in Objects |-> NoID]
  /\ refs = [o \in Objects |-> {}]
  /\ pc = [t \in Threads |-> "idle"]
  /\ wanted = [t \in Threads |-> NoID]
  /\ object = [t \in Threads |-> NoObject]
  /\ steady = [t \in Threads |-> {}]

Goto(t, from, to) ==
  /\ pc[t] = from
  /\ pc' = [pc EXCEPT ![t] = to]

-----------------------------------------------------------------------------
(* FindObject.                                                             *)

FindCall(t, id) ==
  /\ Goto(t, "idle", "finding")
  /\ Map!Call(t)
  /\ wanted' = [wanted EXCEPT ![t] = id]
  /\ steady' = [steady EXCEPT ![t] =
                  {o \in Objects : life[o] = "alive" /\ objectID[o] = id}]
  /\ UNCHANGED <<object, regVars, objectVars, regMutex, allocated>>

(* GetReadLock: loads the current map, again if that one was replaced.     *)
BugFindLook(t) ==
  /\ pc[t] = "finding"
  /\ regMutex = NoThread
  /\ Map!Look(t)
  /\ UNCHANGED <<regVars, objectVars, threadVars, regMutex, allocated>>
FindLook(t) ==
  /\ pc[t] = "finding"
  /\ mapSeen[t] = NoMap \/ t \in mapOutdated \union mapExpired
  /\ Map!Look(t)
  /\ UNCHANGED <<regVars, objectVars, threadVars, regMutex, allocated>>

FindMapLocked(t) ==
  /\ Goto(t, "finding", "mapLocked")
  /\ Map!Return(t)
  /\ UNCHANGED <<wanted, object, steady, regVars, objectVars, regMutex, allocated>>

(* The identifier is not in the map.                                       *)
FindAbsent(t) ==
  /\ Goto(t, "mapLocked", "miss")
  /\ mapSeen[t][wanted[t]] = NoObject
  /\ UNCHANGED <<wanted, object, steady, mapVars, regVars, objectVars, regMutex, allocated>>

(* The registration is found; try_to_lock fails only when an unregistering *)
(* thread waits for, or has, the mutex.                                    *)
FindTryLock(t) ==
  LET o == mapSeen[t][wanted[t]] IN
  /\ pc[t] = "mapLocked" /\ o # NoObject
  /\ Goto(t, "mapLocked", IF regEntered[o] THEN "miss" ELSE "locked")
  /\ object' = [object EXCEPT ![t] = IF regEntered[o] THEN NoObject ELSE o]
  /\ regShared' = [regShared EXCEPT ![o] = IF regEntered[o] THEN @ ELSE @ \union {t}]
  /\ UNCHANGED <<wanted, steady, mapVars, regPointer, regEntered, objectVars,
                 regMutex, allocated>>

(* registration.object.load()                                              *)
FindLoadPointer(t) ==
  /\ Goto(t, "locked", IF regPointer[object[t]] THEN "using" ELSE "miss")
  /\ UNCHANGED <<wanted, object, steady, mapVars, regVars, objectVars, regMutex, allocated>>

(* object->shared_from_this(): bad_weak_ptr before the first shared pointer*)
(* exists and after the last one is gone.                                  *)
BugFindShare(t) ==
  /\ Goto(t, "using", "hit")
  /\ refs' = [refs EXCEPT ![object[t]] = @ \union {t}]
  /\ UNCHANGED <<wanted, object, steady, mapVars, regVars, life, objectID,
                 regMutex, allocated>>
FindShare(t) ==
  LET o == object[t] IN
  /\ Goto(t, "using", IF refs[o] # {} THEN "hit" ELSE "miss")
  /\ refs' = [refs EXCEPT ![o] = IF @ # {} THEN @ \union {t} ELSE @]
  /\ UNCHANGED <<wanted, object, steady, mapVars, regVars, life, objectID,
                 regMutex, allocated>>

(* The locks are released on the way out, the object's before the map's.   *)
BugFindUnlock(t) ==
  /\ Map!Release(t)
  /\ wanted' = [wanted EXCEPT ![t] = NoID]
  /\ steady' = [steady EXCEPT ![t] = {}]
  /\ UNCHANGED <<regVars, objectVars, regMutex, allocated>>
FindUnlock(t) ==
  /\ regShared' = [o \in Objects |-> regShared[o] \ {t}]
  /\ Map!Release(t)
  /\ wanted' = [wanted EXCEPT ![t] = NoID]
  /\ steady' = [steady EXCEPT ![t] = {}]
  /\ UNCHANGED <<regPointer, regEntered, objectVars, regMutex, allocated>>

FindReturnNull(t) ==
  /\ Goto(t, "miss", "idle")
  /\ object' = [object EXCEPT ![t] = NoObject]
  /\ FindUnlock(t)

FindReturnObject(t) ==
  /\ Goto(t, "hit", "holding")
  /\ UNCHANGED object
  /\ FindUnlock(t)

FindStep(t) ==
  \/ FindAbsent(t) \/ FindTryLock(t) \/ FindLoadPointer(t) \/ FindShare(t)
  \/ FindReturnNull(t) \/ FindReturnObject(t)

-----------------------------------------------------------------------------
(* RegisterObject, from the constructor of Object.                         *)

(* Bound: the set IDs is finite; the code has 2^32 identifiers.            *)
BugFreshID(id) == TRUE
FreshID(id) == id \notin allocated

(* registrationMutex_ is locked and an identifier allocated; the code of   *)
(* AllocateID and the copy of the map are local to the mutex.              *)
RegisterBegin(t, o, id) ==
  /\ Goto(t, "idle", "registering")
  /\ life[o] = "none"
  /\ regMutex = NoThread
  /\ FreshID(id)
  /\ Map!BeginSet(t)
  /\ regMutex' = t
  /\ allocated' = allocated \union {id}
  /\ object' = [object EXCEPT ![t] = o]
  /\ wanted' = [wanted EXCEPT ![t] = id]
  /\ life' = [life EXCEPT ![o] = "constructing"]
  /\ regPointer' = [regPointer EXCEPT ![o] = TRUE]
  /\ UNCHANGED <<steady, regShared, regEntered, objectID, refs>>

RegisterReplace(t) ==
  /\ Goto(t, "registering", "registered")
  /\ registered' = [registered EXCEPT ![wanted[t]] = object[t]]
  /\ Map!Replace(t)
  /\ UNCHANGED <<wanted, object, steady, regVars, objectVars, regMutex, allocated>>

RegisterReturn(t) ==
  /\ Goto(t, "registered", "constructing")
  /\ Map!EndSet(t)
  /\ regMutex' = NoThread
  /\ objectID' = [objectID EXCEPT ![object[t]] = wanted[t]]
  /\ wanted' = [wanted EXCEPT ![t] = NoID]
  /\ UNCHANGED <<object, steady, regVars, life, refs, allocated>>

(* make_shared returns the first shared pointer.                           *)
Constructed(t) ==
  /\ Goto(t, "constructing", "holding")
  /\ life' = [life EXCEPT ![object[t]] = "alive"]
  /\ refs' = [refs EXCEPT ![object[t]] = {t}]
  /\ UNCHANGED <<wanted, object, steady, mapVars, regVars, objectID, regMutex, allocated>>

-----------------------------------------------------------------------------
(* Shared pointers come and go.                                            *)

(* The thread hands its shared pointer to an owner (AddOwnedObject).       *)
GiveToOwner(t) ==
  LET o == object[t] IN
  /\ Goto(t, "holding", "idle")
  /\ refs' = [refs EXCEPT ![o] = (@ \ {t}) \union {Owner}]
  /\ object' = [object EXCEPT ![t] = NoObject]
  /\ UNCHANGED <<wanted, steady, mapVars, regVars, life, objectID, regMutex, allocated>>

(* Thread t destroys a shared pointer of holder h.  The last one makes it  *)
(* run the destructor.                                                     *)
DropReference(t, h, o) ==
  LET last == refs[o] = {h} IN
  /\ h \in refs[o]
  /\ refs' = [refs EXCEPT ![o] = @ \ {h}]
  /\ life' = [life EXCEPT ![o] = IF last THEN "dying" ELSE @]
  /\ pc' = [pc EXCEPT ![t] = IF last THEN "destructor" ELSE "idle"]
  /\ object' = [object EXCEPT ![t] = IF last THEN o ELSE NoObject]
  /\ steady' = [x \in Threads |-> IF last THEN steady[x] \ {o} ELSE steady[x]]
  /\ UNCHANGED <<wanted, mapVars, regVars, objectID, regMutex, allocated>>

Drop(t) == pc[t] = "holding" /\ DropReference(t, t, object[t])
DropOwned(t, o) == pc[t] = "idle" /\ DropReference(t, Owner, o)

-----------------------------------------------------------------------------
(* UnregisterObject, from the destructor of Object.                        *)

BugUnregisterBegin(t) ==
  /\ Goto(t, "destructor", "destroyed")
  /\ UNCHANGED <<wanted, object, steady, mapVars, regVars, objectVars, regMutex, allocated>>
(* registrationMutex_ is locked, and the pointer hidden.                   *)
UnregisterBegin(t) ==
  /\ Goto(t, "destructor", "hidden")
  /\ regMutex = NoThread
  /\ Map!BeginSet(t)
  /\ regMutex' = t
  /\ regPointer' = [regPointer EXCEPT ![object[t]] = FALSE]
  /\ UNCHANGED <<wanted, object, steady, regShared, regEntered, objectVars, allocated>>

UnregisterReplace(t) ==
  /\ Goto(t, "hidden", "erased")
  /\ registered' = [registered EXCEPT ![objectID[object[t]]] = NoObject]
  /\ Map!Replace(t)
  /\ UNCHANGED <<wanted, object, steady, regVars, objectVars, regMutex, allocated>>

(* Set returns; unique_lock(registration->mutex) announces the writer ...  *)
UnregisterLock(t) ==
  /\ Goto(t, "erased", "locking")
  /\ Map!EndSet(t)
  /\ regEntered' = [regEntered EXCEPT ![object[t]] = TRUE]
  /\ UNCHANGED <<wanted, object, steady, regPointer, regShared, objectVars,
                 regMutex, allocated>>

(* ... and waits for the shared holders.  FreeID, and return.              *)
UnregisterReturn(t) ==
  /\ Goto(t, "locking", "destroyed")
  /\ regShared[object[t]] = {}
  /\ regEntered' = [regEntered EXCEPT ![object[t]] = FALSE]
  /\ allocated' = allocated \ {objectID[object[t]]}
  /\ regMutex' = NoThread
  /\ UNCHANGED <<wanted, object, steady, mapVars, regPointer, regShared, objectVars>>

(* ~Object is over and the storage released: anything may come to live at  *)
(* this address.                                                           *)
Destroyed(t) ==
  LET o == object[t] IN
  /\ Goto(t, "destroyed", "idle")
  /\ life' = [life EXCEPT ![o] = "none"]
  /\ objectID' = [objectID EXCEPT ![o] = NoID]
  /\ object' = [object EXCEPT ![t] = NoObject]
  /\ UNCHANGED <<wanted, steady, mapVars, regVars, refs, regMutex, allocated>>

RegistrationStep(t) ==
  \/ RegisterReplace(t) \/ RegisterReturn(t) \/ UnregisterReplace(t)
  \/ UnregisterLock(t) \/ UnregisterReturn(t)

-----------------------------------------------------------------------------
Next ==
  \E t \in Threads :
    \/ \E id \in IDs : FindCall(t, id)
    \/ FindLook(t) \/ FindMapLocked(t) \/ FindStep(t)
    \/ \E o \in Objects, id \in IDs : RegisterBegin(t, o, id)
    \/ UnregisterBegin(t)
    \/ RegistrationStep(t)
    \/ Constructed(t) \/ Destroyed(t)
    \/ GiveToOwner(t) \/ Drop(t)
    \/ \E o \in Objects : DropOwned(t, o)

Spec == Init /\ [][Next]_vars

(* Threads inside FindObject are scheduled.  That GetReadLock is lock-free *)
(* is what DoubleBuffer!GetterIsLockFree says.                             *)
FindFairness ==
  \A t \in Threads :
    WF_vars(FindLook(t)) /\ WF_vars(FindMapLocked(t)) /\ WF_vars(FindStep(t))

(* A thread that holds registrationMutex_ is scheduled.                    *)
RegistrationFairness == \A t \in Threads : WF_vars(RegistrationStep(t))

FairSpec == Spec /\ FindFairness

FindSteps(t) == FindLook(t) \/ FindMapLocked(t) \/ FindStep(t) \/ \E id \in IDs : FindCall(t, id)
OthersSuspended == <>[][\E t \in Threads : FindSteps(t)]_vars

-----------------------------------------------------------------------------
(* "After this method returns, the registered object is not accessed by    *)
(* dispatcher anymore and can be destroyed": no thread is inside FindObject*)
(* with a pointer to an object whose UnregisterObject has returned, nor    *)
(* with a lock on its registration, which dies with the last copy of the   *)
(* map.                                                                    *)
Unregistered(o) ==
  life[o] = "none" \/ \E t \in Threads : pc[t] = "destroyed" /\ object[t] = o

NotAccessedAfterUnregister ==
  \A t \in Threads :
    pc[t] \in {"locked", "using"} => ~Unregistered(object[t])

(* FindObject finds what is there: it answers null only if no object with  *)
(* this identifier was alive during the whole call, however the map was    *)
(* replaced meanwhile.                                                     *)
FindsWhatIsAlive ==
  \A t \in Threads : pc[t] = "miss" => steady[t] = {}

(* FindObject finds nothing else: what it returns carries the identifier   *)
(* asked for and is not being destroyed, even if the identifier was freed  *)
(* and given to another object during the call.                            *)
FoundIsWhatWasAsked ==
  \A t \in Threads :
    pc[t] = "hit" => life[object[t]] = "alive" /\ objectID[object[t]] = wanted[t]

(* FindObject "can be called from realtime threads": it returns even if    *)
(* every thread that is registering or unregistering stops where it is.    *)
FindNeedsNoOther ==
  OthersSuspended =>
    \A t \in Threads : (pc[t] = "finding") ~> (pc[t] \in {"idle", "holding"})

(* Whoever holds registrationMutex_ lets it go, if it is scheduled: no     *)
(* combination of lookups keeps UnregisterObject, and so a destructor,     *)
(* waiting for ever.                                                       *)
RegistrationEnds ==
  RegistrationFairness => \A t \in Threads : (regMutex = t) ~> (regMutex # t)

-----------------------------------------------------------------------------
(* The inductive invariant.                                                *)

MapSetting == {"registering", "hidden"}
MapReplaced == {"registered", "erased"}
Registering == MapSetting \union MapReplaced \union {"locking"}
MapHolding == {"mapLocked", "locked", "using", "hit", "miss"}
ObjectLocked == {"locked", "using", "hit"}
Constructing == {"registering", "registered", "constructing"}
Destroying == {"destructor", "hidden", "erased", "locking", "destroyed"}
Places == {"idle", "holding", "finding"} \union MapHolding \union Constructing \union Destroying

DispatcherTypeOK ==
  /\ registered \in Maps
  /\ mapReader \in [Threads -> {"idle", "calling", "holding"}]
  /\ mapSeen \in [Threads -> Maps \union {NoMap}]
  /\ mapOutdated \subseteq Threads /\ mapExpired \subseteq Threads
  /\ mapWriter \in [Threads -> {"idle", "setting", "replaced"}]
  /\ regMutex \in Threads \union {NoThread}
  /\ allocated \subseteq IDs
  /\ regPointer \in [Objects -> BOOLEAN]
  /\ regShared \in [Objects -> SUBSET Threads]
  /\ regEntered \in [Objects -> BOOLEAN]
  /\ life \in [Objects -> Lives]
  /\ objectID \in [Objects -> IDs \union {NoID}]
  /\ refs \in [Objects -> SUBSET (Threads \union {Owner})]
  /\ pc \in [Threads -> Places]
  /\ wanted \in [Threads -> IDs \union {NoID}]
  /\ object \in [Threads -> Objects \union {NoObject}]
  /\ steady \in [Threads -> SUBSET Objects]

(* registrationMutex_ serializes the setters of the map; who has read it.  *)
MutexInv ==
  \A t \in Threads :
    /\ pc[t] \in Registering <=> regMutex = t
    /\ mapWriter[t] = "setting" <=> pc[t] \in MapSetting
    /\ mapWriter[t] = "replaced" <=> pc[t] \in MapReplaced
    /\ mapReader[t] = "calling" <=> pc[t] = "finding"
    /\ mapReader[t] = "holding" <=> pc[t] \in MapHolding
    /\ pc[t] \in MapHolding => mapSeen[t] # NoMap /\ t \notin mapExpired
    /\ IF pc[t] \in MapHolding \union {"finding"} THEN wanted[t] \in IDs ELSE mapSeen[t] = NoMap

(* A thread constructs or destroys an object for itself, and an object is  *)
(* alive exactly as long as there are shared pointers to it.               *)
LifeInv ==
  /\ \A t \in Threads :
       /\ pc[t] \in Constructing => object[t] \in Objects /\ life[object[t]] = "constructing"
       /\ pc[t] \in Destroying => object[t] \in Objects /\ life[object[t]] = "dying"
       /\ pc[t] \in {"hit", "holding"} => object[t] \in Objects /\ t \in refs[object[t]]
       /\ \A u \in Threads :
            /\ pc[t] \in Constructing \union Destroying /\ pc[u] \in Constructing \union Destroying
            /\ object[t] = object[u]
            => t = u
  /\ \A o \in Objects :
       /\ life[o] = "alive" <=> refs[o] # {}
       /\ life[o] = "alive" => regPointer[o] /\ objectID[o] \in IDs

(* Which identifiers and objects the map has: those that have been         *)
(* registered and not yet been erased, ...                                 *)
Carries(o, id) ==
  \/ life[o] = "alive" /\ objectID[o] = id
  \/ \E t \in Threads :
       /\ object[t] = o
       /\ \/ pc[t] \in {"constructing", "destructor", "hidden"} /\ objectID[o] = id
          \/ pc[t] = "registered" /\ wanted[t] = id

(* ... and those that are being erased, whose registration is there still. *)
Erasing(o, id) ==
  \E t \in Threads : object[t] = o /\ pc[t] \in {"erased", "locking"} /\ objectID[o] = id

MapInv ==
  \A id \in IDs, o \in Objects : registered[id] = o <=> Carries(o, id)

AllocatedInv ==
  /\ \A id \in IDs : registered[id] # NoObject => id \in allocated
  /\ \A t \in Threads :
       /\ pc[t] = "registering" => wanted[t] \in IDs /\ registered[wanted[t]] = NoObject
       /\ pc[t] \in {"registering", "registered"} => wanted[t] \in IDs /\ wanted[t] \in allocated
       /\ pc[t] \in {"constructing", "destructor", "hidden", "erased", "locking"} =>
            objectID[object[t]] \in IDs
       /\ pc[t] \in {"erased", "locking"} => registered[objectID[object[t]]] = NoObject

(* What a lookup has seen: the present map, or the one before it if Set has*)
(* not returned; the objects in it are there still.                        *)
SeenInv ==
  /\ (\A w \in Threads : pc[w] \notin MapReplaced) => mapOutdated = {}
  /\ \A t \in Threads :
       mapSeen[t] # NoMap /\ t \notin mapExpired =>
         \/ t \notin mapOutdated /\ mapSeen[t] = registered
         \/ t \in mapOutdated /\ \E w \in Threads :
              \/ /\ pc[w] = "registered"
                 /\ mapSeen[t] = [registered EXCEPT ![wanted[w]] = NoObject]
              \/ /\ pc[w] = "erased"
                 /\ mapSeen[t] = [registered EXCEPT ![objectID[object[w]]] = object[w]]

(* A lookup that has locked a registration keeps it from going away.       *)
RegistrationInv ==
  /\ \A t \in Threads :
       /\ pc[t] \in ObjectLocked =>
            /\ object[t] \in Objects
            /\ object[t] = mapSeen[t][wanted[t]]
            /\ t \in regShared[object[t]]
            /\ Carries(object[t], wanted[t]) \/ Erasing(object[t], wanted[t])
  /\ \A o \in Objects :
       /\ \A t \in Threads :
            object[t] = o /\ pc[t] \in {"registering", "registered", "constructing"} => regPointer[o]
       /\ regEntered[o] => \E t \in Threads : object[t] = o /\ pc[t] = "locking"

(* Objects that were alive during the whole call are in what it has seen.  *)
SteadyInv ==
  \A t \in Threads : \A o \in steady[t] :
    /\ pc[t] \in MapHolding \union {"finding"} /\ pc[t] # "miss"
    /\ life[o] = "alive" /\ objectID[o] = wanted[t]
    /\ mapSeen[t] # NoMap => mapSeen[t][wanted[t]] = o

IInv ==
  /\ DispatcherTypeOK /\ MutexInv /\ LifeInv /\ MapInv /\ AllocatedInv
  /\ SeenInv /\ RegistrationInv /\ SteadyInv
=============================================================================
