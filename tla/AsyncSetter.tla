----------------------------- MODULE AsyncSetter ----------------------------
(***************************************************************************)
(* The asynchronous setters, Device::Set...Async and Stream::Set...Async   *)
(* (src/Device.g.cpp and src/Stream.g.cpp, all made from one template),    *)
(* for one parameter.  A setter compares its argument with the present     *)
(* value, may validate it, and passes a function to the device's           *)
(* RequestConfigurationChange; the function locks, compares again and      *)
(* calls Set...Impl, which a user may override and which may fail.         *)
(*                                                                         *)
(* A parameter of a stream is guarded by the stream's own writeMutex_,     *)
(* which the setter has when it locks the device's; the function is run by *)
(* a thread that has the device's when it locks the stream's.  Of module   *)
(* DeviceConfig only the queue and the device's mutex are kept here.       *)
(*                                                                         *)
(* Definitions named Bug... are faulty variants of the definition that     *)
(* follows them, kept to show that the properties can fail.                *)
(***************************************************************************)
EXTENDS Integers, Sequences, SequencesExt, FiniteSets

CONSTANTS
  Users,     \* threads of the plugin
  Hal,       \* the HAL's thread
  Values,    \* arguments that a setter is called with
  Valid,     \* those that Check... accepts, if the setter has one
  OfStream,  \* the parameter is a stream's
  NoThread,
  MaxCalls   \* bound: calls of the setter, of AddDevice and of RemoveDevice

Threads == Users \union {Hal}

ASSUME SetterAssumption ==
  /\ Hal \notin Users /\ NoThread \notin Threads
  /\ Valid \subseteq Values /\ Valid # {}
  /\ OfStream \in BOOLEAN /\ MaxCalls \in Nat

VARIABLES
  value,      \* the parameter, as the getter returns it
  published,  \* Host is set and HasOwner(): functions are enqueued
  queue,      \* pendingConfigurationRequests_: indices into accepted
  own,        \* the stream's writeMutex_
  device,     \* the device's writeMutex_
  pc,         \* where each thread is
  argument,   \* the argument of its setter
  calls,      \* calls so far
  accepted,   \* history: the initial value and then each function's argument
  dropped     \* history: the functions that had no effect, as indices into
              \* accepted: the HAL aborted them, or Set...Impl failed

history == <<accepted, dropped>>
locks == <<own, device>>
vars == <<value, published, queue, locks, pc, argument, calls, history>>

Init ==
  /\ value \in Valid
  /\ published \in BOOLEAN
  /\ queue = <<>>
  /\ own = NoThread /\ device = NoThread
  /\ pc = [t \in Threads |-> "idle"]
  /\ argument = [t \in Users |-> value]
  /\ calls = 0
  /\ accepted = <<value>> /\ dropped = {}

Goto(t, from, to) == pc[t] = from /\ pc' = [pc EXCEPT ![t] = to]
Released(mutex, t) == IF mutex = t THEN NoThread ELSE mutex
ReleaseAll(t) == own' = Released(own, t) /\ device' = Released(device, t)

Called == calls < MaxCalls /\ calls' = calls + 1

-----------------------------------------------------------------------------
(* The setter.                                                             *)

SetCall(t, v) ==
  /\ Called
  /\ Goto(t, "idle", "calling")
  /\ argument' = [argument EXCEPT ![t] = v]
  /\ UNCHANGED <<value, published, queue, locks, history>>

(* lock_guard writeLock(writeMutex_), of the object the parameter is of    *)
SetLock(t) ==
  /\ Goto(t, "calling", "locked")
  /\ IF OfStream
     THEN own = NoThread /\ own' = t /\ UNCHANGED device
     ELSE device = NoThread /\ device' = t /\ UNCHANGED own
  /\ UNCHANGED <<value, published, queue, argument, calls, history>>

SetUnchanged(t) ==
  /\ Goto(t, "locked", "idle")
  /\ argument[t] = value
  /\ ReleaseAll(t)
  /\ UNCHANGED <<value, published, queue, argument, calls, history>>

Check(v) == v \in Valid

SetInvalid(t) ==
  /\ Goto(t, "locked", "idle")
  /\ argument[t] # value /\ ~Check(argument[t])
  /\ ReleaseAll(t)
  /\ UNCHANGED <<value, published, queue, argument, calls, history>>

(* RequestConfigurationChange locks the device's mutex, which a setter of  *)
(* the device has already.                                                 *)
SetRequest(t) ==
  /\ Goto(t, "locked", "requesting")
  /\ argument[t] # value /\ Check(argument[t])
  /\ device \in {NoThread, t}
  /\ device' = t
  /\ UNCHANGED <<value, published, queue, own, argument, calls, history>>

Accept(t) == accepted' = Append(accepted, argument[t])

(* Set...Impl, called by the function of index i if the value differs; that*)
(* it fails is told to nobody.                                             *)
Stores(i) == value' = accepted'[i] /\ UNCHANGED dropped
Fails(i) == accepted'[i] # value /\ UNCHANGED value /\ dropped' = dropped \union {i}
SetImpl(i) == Stores(i) \/ Fails(i)

SetEnqueue(t) ==
  /\ Goto(t, "requesting", "idle")
  /\ published
  /\ Accept(t)
  /\ queue' = Append(queue, Len(accepted'))
  /\ ReleaseAll(t)
  /\ UNCHANGED <<value, published, argument, calls, dropped>>

SetInPlace(t) ==
  /\ Goto(t, "requesting", "idle")
  /\ ~published
  /\ Accept(t)
  /\ SetImpl(Len(accepted'))
  /\ ReleaseAll(t)
  /\ UNCHANGED <<published, queue, argument, calls>>

SetStep(t) ==
  \/ SetLock(t) \/ SetUnchanged(t) \/ SetInvalid(t) \/ SetRequest(t)
  \/ SetEnqueue(t) \/ SetInPlace(t)

-----------------------------------------------------------------------------
(* The function, run by thread t, which has the device's mutex.            *)

BugRunFunction(t) ==
  /\ OfStream => own = NoThread
  /\ UNCHANGED accepted
  /\ SetImpl(Last(queue))
  /\ queue' = Front(queue)
RunFunction(t) ==
  /\ OfStream => own = NoThread
  /\ UNCHANGED accepted
  /\ SetImpl(Head(queue))
  /\ queue' = Tail(queue)

(* PerformConfigurationChange                                              *)
PerformEnter ==
  /\ Goto(Hal, "idle", "performing")
  /\ queue # <<>>
  /\ device = NoThread /\ device' = Hal
  /\ UNCHANGED <<value, published, queue, own, argument, calls, history>>

BugPerformRun ==
  /\ Goto(Hal, "performing", "idle")
  /\ value' = accepted[Head(queue)]
  /\ ReleaseAll(Hal)
  /\ UNCHANGED <<published, queue, argument, calls, history>>
PerformRun ==
  /\ Goto(Hal, "performing", "idle")
  /\ RunFunction(Hal)
  /\ ReleaseAll(Hal)
  /\ UNCHANGED <<published, argument, calls>>

AbortConfigurationChange ==
  /\ pc[Hal] = "idle"
  /\ queue # <<>>
  /\ device = NoThread
  /\ dropped' = dropped \union {Head(queue)}
  /\ queue' = Tail(queue)
  /\ UNCHANGED <<value, published, locks, pc, argument, calls, accepted>>

(* RequestOwnershipChange, from AddDevice and RemoveDevice.                *)
Attach(t) ==
  /\ Called
  /\ pc[t] = "idle" /\ ~published /\ device = NoThread
  /\ published' = TRUE
  /\ UNCHANGED <<value, queue, locks, pc, argument, history>>

Detach(t) ==
  /\ Called
  /\ Goto(t, "idle", "flushing")
  /\ published /\ device = NoThread
  /\ published' = FALSE
  /\ device' = t
  /\ UNCHANGED <<value, queue, own, argument, history>>

DetachRun(t) ==
  /\ pc[t] = "flushing"
  /\ queue # <<>>
  /\ RunFunction(t)
  /\ UNCHANGED <<published, locks, pc, argument, calls>>

DetachReturn(t) ==
  /\ Goto(t, "flushing", "idle")
  /\ queue = <<>>
  /\ ReleaseAll(t)
  /\ UNCHANGED <<value, published, queue, argument, calls, history>>

-----------------------------------------------------------------------------
HalStep == PerformEnter \/ PerformRun \/ AbortConfigurationChange
UserStep(t) == SetStep(t) \/ DetachRun(t) \/ DetachReturn(t)

Next ==
  \/ \E t \in Users :
       (\E v \in Values : SetCall(t, v)) \/ UserStep(t) \/ Attach(t) \/ Detach(t)
  \/ HalStep

Spec == Init /\ [][Next]_vars

(* Threads that can go on do, and the HAL answers.  The calls are finitely *)
(* many (MaxCalls), so no mutex is contended for ever.                     *)
Fairness == (\A t \in Users : WF_vars(UserStep(t))) /\ WF_vars(HalStep)
FairSpec == Spec /\ Fairness

-----------------------------------------------------------------------------
Surviving == {i \in 1 .. Len(accepted) : i \notin dropped}

(* Functions take effect in the order in which the setters passed them on, *)
(* whoever runs them: when none is left, the parameter has the argument of *)
(* the last one that was not aborted and whose Set...Impl did not fail; and*)
(* it only ever has values that Check... accepts.                          *)
LastAcceptedWins ==
  /\ value \in Valid
  /\ queue = <<>> =>
       \E i \in Surviving : value = accepted[i] /\ \A j \in Surviving : j <= i

(* "Some time later HAL invokes PerformConfigurationChange(), which runs   *)
(* the function.  HAL may also invoke AbortConfigurationChange() instead": *)
(* no function stays in the queue for ever.                                *)
EveryFunctionEnds ==
  \A i \in 2 .. MaxCalls + 1 : Contains(queue, i) ~> ~Contains(queue, i)

-----------------------------------------------------------------------------
(* The inductive invariant.                                                *)

SetterTypeOK ==
  /\ published \in BOOLEAN
  /\ device \in Threads \union {NoThread} /\ own \in Threads \union {NoThread}
  /\ pc \in [Threads -> {"idle", "calling", "locked", "requesting", "performing", "flushing"}]
  /\ argument \in [Users -> Values]
  /\ accepted \in Seq(Valid) /\ dropped \subseteq 1 .. Len(accepted)
  /\ queue \in Seq(Nat)

(* Who has the device's mutex, and when functions wait although the device *)
(* is not published: while the thread that removed it runs them.           *)
DeviceInv ==
  /\ \A t \in Threads : pc[t] \in {"requesting", "performing", "flushing"} => device = t
  /\ \A t \in Users : pc[t] = "requesting" => argument[t] \in Valid
  /\ pc[Hal] = "performing" => queue # <<>>
  /\ ~published /\ queue # <<>> => \E t \in Users : pc[t] = "flushing"

(* The queue has each function once, in the order of acceptance.           *)
QueueInv ==
  /\ \A k \in 1 .. Len(queue) : queue[k] \in 1 .. Len(accepted) /\ queue[k] \notin dropped
  /\ \A k, m \in 1 .. Len(queue) : k < m => queue[k] < queue[m]

(* The parameter has the argument of function i: those that survive are    *)
(* not later, or still to come.                                            *)
Applied(i) ==
  /\ i \in Surviving /\ value = accepted[i]
  /\ \A k \in 1 .. Len(queue) : i < queue[k]
  /\ \A j \in Surviving : j <= i \/ \E k \in 1 .. Len(queue) : queue[k] = j

AppliedInv == \E i \in 1 .. Len(accepted) : Applied(i)

IInv == SetterTypeOK /\ DeviceInv /\ QueueInv /\ AppliedInv
=============================================================================
