----------------------------- MODULE ObjectTree -----------------------------
(***************************************************************************)
(* The tree of aspl::Object (src/Object.cpp): AddOwnedObject and           *)
(* RemoveOwnedObject with the calls of AttachOwner and DetachOwner they    *)
(* make on the object that is added or removed.  Every object has a mutex, *)
(* which is not recursive; the two ends of an edge, the map of the owner   *)
(* and the pointer of the owned object, change in different steps under    *)
(* different mutexes, and are read without any.                            *)
(*                                                                         *)
(* Definitions named Bug... are faulty variants of the definition that     *)
(* follows them, kept to show that the properties can fail.                *)
(***************************************************************************)

CONSTANTS
  Threads,   \* any thread may change the tree
  Objects,   \* objects, by identifier
  NoObject, NoThread

ASSUME TreeAssumption == NoObject \notin Objects /\ NoThread \notin Threads

VARIABLES
  owned,     \* ownedObjects_, per object; its scopes are those of the objects
  owner,     \* ownerObject_ and ownerObjectID_, per object
  mutex,     \* who has writeMutex_, per object
  at,        \* how far a thread is
  parent,    \* the object whose method the thread executes
  child      \* the object it adds or removes

treeVars == <<owned, owner, mutex, at, parent, child>>

Steps == {"idle", "adding", "attaching", "removing", "detached"}

TreeInit ==
  /\ owned = [o \in Objects |-> {}]
  /\ owner = [o \in Objects |-> NoObject]
  /\ mutex = [o \in Objects |-> NoThread]
  /\ at = [t \in Threads |-> "idle"]
  /\ parent = [t \in Threads |-> NoObject]
  /\ child = [t \in Threads |-> NoObject]

(* std::lock_guard of the owner's writeMutex_, the first line of both      *)
(* operations.                                                             *)
Enter(t, o, c, step) ==
  /\ at[t] = "idle" /\ mutex[o] = NoThread
  /\ mutex' = [mutex EXCEPT ![o] = t]
  /\ at' = [at EXCEPT ![t] = step]
  /\ parent' = [parent EXCEPT ![t] = o]
  /\ child' = [child EXCEPT ![t] = c]
  /\ UNCHANGED <<owned, owner>>

Leave(t) ==
  /\ mutex' = [mutex EXCEPT ![parent[t]] = NoThread]
  /\ at' = [at EXCEPT ![t] = "idle"]
  /\ parent' = [parent EXCEPT ![t] = NoObject]
  /\ child' = [child EXCEPT ![t] = NoObject]

-----------------------------------------------------------------------------
(* AddOwnedObject.  Adding an object to itself is refused.                 *)
AddOwnedObject(t, o, c) == o # c /\ Enter(t, o, c, "adding")

AddToMap(t) ==
  /\ at[t] = "adding"
  /\ owned' = [owned EXCEPT ![parent[t]] = @ \union {child[t]}]
  /\ at' = [at EXCEPT ![t] = "attaching"]
  /\ UNCHANGED <<owner, mutex, parent, child>>

(* AttachOwner locks the mutex of the object that is added.  If that has   *)
(* an owner, the call never returns: it goes through RemoveOwnedObject of  *)
(* the previous owner to DetachOwner, which waits for the mutex the thread *)
(* has already.                                                            *)
AttachOwner(t) ==
  /\ at[t] = "attaching"
  /\ mutex[child[t]] = NoThread
  /\ owner[child[t]] = NoObject
  /\ owner' = [owner EXCEPT ![child[t]] = parent[t]]
  /\ UNCHANGED owned
  /\ Leave(t)

-----------------------------------------------------------------------------
(* RemoveOwnedObject.                                                      *)
RemoveOwnedObject(t, o, c) == Enter(t, o, c, "removing")

(* The identifier is not in the map.                                       *)
RemoveAbsent(t) ==
  /\ at[t] = "removing"
  /\ child[t] \notin owned[parent[t]]
  /\ UNCHANGED <<owned, owner>>
  /\ Leave(t)

BugDetachOwner(t) ==
  /\ at[t] = "removing"
  /\ child[t] \in owned[parent[t]]
  /\ mutex[child[t]] = NoThread
  /\ owned' = [owned EXCEPT ![parent[t]] = @ \ {child[t]}]
  /\ at' = [at EXCEPT ![t] = "detached"]
  /\ UNCHANGED <<owner, mutex, parent, child>>
DetachOwner(t) ==
  /\ at[t] = "removing"
  /\ child[t] \in owned[parent[t]]
  /\ mutex[child[t]] = NoThread
  /\ owner' = [owner EXCEPT ![child[t]] = NoObject]
  /\ at' = [at EXCEPT ![t] = "detached"]
  /\ UNCHANGED <<owned, mutex, parent, child>>

RemoveFromMap(t) ==
  /\ at[t] = "detached"
  /\ owned' = [owned EXCEPT ![parent[t]] = @ \ {child[t]}]
  /\ UNCHANGED owner
  /\ Leave(t)

TreeStep(t) ==
  AddToMap(t) \/ AttachOwner(t) \/ RemoveAbsent(t) \/ DetachOwner(t) \/ RemoveFromMap(t)

-----------------------------------------------------------------------------
(* What the callers of AddOwnedObject have to see to, see above: the object*)
(* is in no tree, and nobody else is about to put it into one.             *)
Unclaimed(c) ==
  /\ \A o \in Objects : c \notin owned[o]
  /\ \A t \in Threads : child[t] = c => at[t] # "adding"

TreeNext ==
  \E t \in Threads :
    \/ \E o, c \in Objects : Unclaimed(c) /\ AddOwnedObject(t, o, c)
    \/ \E o, c \in Objects : RemoveOwnedObject(t, o, c)
    \/ TreeStep(t)

TreeSpec == TreeInit /\ [][TreeNext]_treeVars

-----------------------------------------------------------------------------
TreeTypeOK ==
  /\ owned \in [Objects -> SUBSET Objects]
  /\ owner \in [Objects -> Objects \union {NoObject}]
  /\ mutex \in [Objects -> Threads \union {NoThread}]
  /\ at \in [Threads -> Steps]
  /\ parent \in [Threads -> Objects \union {NoObject}]
  /\ child \in [Threads -> Objects \union {NoObject}]

(* A thread between the two halves of an edge from o to c.                 *)
Joining(t, o, c) == at[t] = "attaching" /\ parent[t] = o /\ child[t] = c
Parting(t, o, c) == at[t] = "detached" /\ parent[t] = o /\ child[t] = c

(* Whoever is told that o owns c finds c among the objects of o.          *)
OwnerListsIt ==
  \A o, c \in Objects : owner[c] = o => c \in owned[o]

(* An object is listed by one owner at most, and if it does not name that  *)
(* owner, a call is on its way that will make up the difference.           *)
ListedOnce ==
  \A o, c \in Objects :
    c \in owned[o] =>
      /\ \A other \in Objects \ {o} : c \notin owned[other]
      /\ owner[c] # o => \E t \in Threads : Joining(t, o, c) \/ Parting(t, o, c)

(* The mutexes: whoever executes a method of an object has its mutex.      *)
MutexInv ==
  \A t \in Threads :
    at[t] # "idle" =>
      /\ parent[t] \in Objects /\ child[t] \in Objects
      /\ mutex[parent[t]] = t

(* Whoever adds an object is the only one, and the object is in no tree.   *)
AddingInv ==
  \A t \in Threads :
    at[t] = "adding" =>
      /\ owner[child[t]] = NoObject
      /\ \A o \in Objects : child[t] \notin owned[o]
      /\ \A u \in Threads \ {t} : at[u] = "adding" => child[u] # child[t]

(* Between the two halves, the object is listed and names no owner.        *)
HalfInv ==
  \A t \in Threads :
    at[t] \in {"attaching", "detached"} =>
      child[t] \in owned[parent[t]] /\ owner[child[t]] = NoObject

(* Object::GetOwnerID and Object::GetOwnedObjectIDs are read by the HAL    *)
(* without a lock, at any moment of AddOwnedObject and RemoveOwnedObject:  *)
(* the pointer up is never ahead of the list down, and a tree at rest has  *)
(* no half edges and no object with two owners.                            *)
TreeIsWhole == OwnerListsIt /\ ListedOnce

TreeInv == TreeTypeOK /\ TreeIsWhole /\ MutexInv /\ AddingInv /\ HalfInv
=============================================================================
