-------------------------- MODULE SnapshotRegister --------------------------
(***************************************************************************)
(* What aspl::DoubleBuffer<T> promises to its users, with none of its      *)
(* machinery: a register whose setters are serialized, and whose getters   *)
(* obtain a snapshot that was the register's value at some moment between  *)
(* the call of the getter and its return, and that does not change while   *)
(* the getter's lock is held.  When T has a destructor (NonTrivial), a     *)
(* setter returns only after nobody holds a value it replaced, and nobody  *)
(* obtains one afterwards.                                                 *)
(*                                                                         *)
(* Nothing here is about buffers, indices or shared mutexes.               *)
(***************************************************************************)
CONSTANTS
  Readers,     \* threads that call GetReadLock() or Get()
  Writers,     \* threads that call Set()
  Values,      \* values of type T
  NoSnapshot,  \* what a getter that has not looked at the register yet has
  NonTrivial   \* TRUE iff T has a destructor worth calling

VARIABLES
  register,    \* the current value
  getter,      \* [Readers -> {"idle", "calling", "holding"}]
  snapshot,    \* what a calling or holding getter has seen
  outdated,    \* getters whose snapshot the present setter has replaced
  expired,     \* getters whose snapshot an earlier setter has replaced
  setter       \* [Writers -> {"idle", "setting", "replaced"}]

vars == <<register, getter, snapshot, outdated, expired, setter>>

Init ==
  /\ register \in Values
  /\ getter = [r \in Readers |-> "idle"]
  /\ snapshot = [r \in Readers |-> NoSnapshot]
  /\ outdated = {}
  /\ expired = {}
  /\ setter = [w \in Writers |-> "idle"]

-----------------------------------------------------------------------------
(* Getters.  Looking may be repeated before the getter returns; only the   *)
(* last look counts.                                                       *)

Call(r) ==
  /\ getter[r] = "idle"
  /\ getter' = [getter EXCEPT ![r] = "calling"]
  /\ UNCHANGED <<register, snapshot, outdated, expired, setter>>

Look(r) ==
  /\ getter[r] = "calling"
  /\ snapshot' = [snapshot EXCEPT ![r] = register]
  /\ outdated' = outdated \ {r}
  /\ expired' = expired \ {r}
  /\ UNCHANGED <<register, getter, setter>>

(* A getter may find that its look does not count and look again later.    *)
Discard(r) ==
  /\ getter[r] = "calling"
  /\ snapshot' = [snapshot EXCEPT ![r] = NoSnapshot]
  /\ outdated' = outdated \ {r}
  /\ expired' = expired \ {r}
  /\ UNCHANGED <<register, getter, setter>>

(* The getter returns with its snapshot: not one that was replaced by a    *)
(* setter that has returned, if the values have destructors.               *)
Return(r) ==
  /\ getter[r] = "calling"
  /\ snapshot[r] # NoSnapshot
  /\ NonTrivial => r \notin expired
  /\ getter' = [getter EXCEPT ![r] = "holding"]
  /\ UNCHANGED <<register, snapshot, outdated, expired, setter>>

Release(r) ==
  /\ getter[r] = "holding"
  /\ getter' = [getter EXCEPT ![r] = "idle"]
  /\ snapshot' = [snapshot EXCEPT ![r] = NoSnapshot]
  /\ outdated' = outdated \ {r}
  /\ expired' = expired \ {r}
  /\ UNCHANGED <<register, setter>>

-----------------------------------------------------------------------------
(* Setters, one at a time.                                                 *)

BeginSet(w) ==
  /\ \A x \in Writers : setter[x] = "idle"
  /\ setter' = [setter EXCEPT ![w] = "setting"]
  /\ UNCHANGED <<register, getter, snapshot, outdated, expired>>

Replace(w) ==
  /\ setter[w] = "setting"
  /\ register' \in Values
  /\ outdated' = {r \in Readers : snapshot[r] # NoSnapshot} \ expired
  /\ setter' = [setter EXCEPT ![w] = "replaced"]
  /\ UNCHANGED <<getter, snapshot, expired>>

EndSet(w) ==
  /\ setter[w] = "replaced"
  /\ NonTrivial => \A r \in outdated : getter[r] # "holding"
  /\ setter' = [setter EXCEPT ![w] = "idle"]
  /\ outdated' = {}
  /\ expired' = expired \union outdated
  /\ UNCHANGED <<register, getter, snapshot>>

Next ==
  \/ \E r \in Readers :
       Call(r) \/ Look(r) \/ Discard(r) \/ Return(r) \/ Release(r)
  \/ \E w \in Writers : BeginSet(w) \/ Replace(w) \/ EndSet(w)

Spec == Init /\ [][Next]_vars
=============================================================================
