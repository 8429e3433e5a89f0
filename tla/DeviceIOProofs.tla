---------------------------- MODULE DeviceIOProofs ----------------------------
(***************************************************************************)
(* Proofs about the clients and the I/O of aspl::Device, for any finite set*)
(* of clients, any rates and any period: the inductive invariant IInv and  *)
(* the safety properties that follow from it.                              *)
(*                                                                         *)
(* There is one lemma per conjunct of the invariant, with a step for each  *)
(* action or group of actions that can disturb it.                         *)
(***************************************************************************)
EXTENDS DeviceIO, FiniteSetTheorems, TLAPS

-----------------------------------------------------------------------------
(* The steps of a client, by the part of the device that they work on.     *)
ClientStep(c) == AddBegin(c) \/ AddFails(c) \/ AddEnd(c) \/ RemoveBegin(c) \/ RemoveEnd(c)
StartStep(c) ==
  StartBegin(c) \/ StartAnother(c) \/ StartFirst(c) \/ StartFails(c) \/ StartCount(c) \/ StartEnd(c)
StopStep(c) == StopBegin(c) \/ StopHandler(c) \/ StopCount(c) \/ StopEnd(c)
CycleStep(c) == GetZeroTimeStamp(c) \/ DoBegin(c) \/ DoEnd(c)

LEMMA StepGroups ==
  ASSUME NEW c \in Clients, Step(c)
  PROVE  ClientStep(c) \/ StartStep(c) \/ StopStep(c) \/ CycleStep(c)
  BY DEF Step, ClientStep, StartStep, StopStep, CycleStep

(* A number of periods takes a natural number of ticks.                    *)
LEMMA TicksType ==
  ASSUME NEW k \in Nat, NEW r \in Rates
  PROVE  Ticks(k, r) \in Nat
<1>1. r \in Nat /\ r > 0  BY IOAssumption
<1>2. k * HostFrequency \in Nat  BY IOAssumption
<1>3. PICK n \in Nat : n = k * HostFrequency * Period  BY <1>2, IOAssumption
<1>q. QED  BY <1>1, <1>3 DEF Ticks

(* The counted clients are finitely many, and no more than there are.      *)
LEMMA CountedFinite ==
  /\ IsFiniteSet(Counted)
  /\ Cardinality(Counted) \in 0 .. Cardinality(Clients)
<1>1. Counted \subseteq Clients  BY DEF Counted
<1>2. IsFiniteSet(Clients)  BY IOAssumption
<1>q. QED  BY <1>1, <1>2, FS_Subset, FS_CardinalityType

-----------------------------------------------------------------------------
(* Mutexes.                                                                *)

(* A mutex is taken only when no one has it.                               *)
LEMMA LockPreserved ==
  ASSUME IInv, Next
  PROVE  LockInv'
<1> USE DEF IInv, TypeOK, LockInv, Goto, Enter, Leave, CanLockIO, CanLockWrite,
            WriteSteps, IOSteps
<1>1. ASSUME NEW c \in Clients, ClientStep(c)  PROVE LockInv'
  BY <1>1 DEF ClientStep, AddBegin, AddFails, AddEnd, RemoveBegin, RemoveEnd
<1>2. ASSUME NEW c \in Clients, StartStep(c)  PROVE LockInv'
  BY <1>2 DEF StartStep, StartBegin, StartAnother, StartFirst, StartFails, StartCount, StartEnd
<1>3. ASSUME NEW c \in Clients, StopStep(c)  PROVE LockInv'
  BY <1>3 DEF StopStep, StopBegin, StopHandler, StopCount, StopEnd
<1>4. ASSUME NEW c \in Clients, CycleStep(c)  PROVE LockInv'
  BY <1>4 DEF CycleStep, GetZeroTimeStamp, DoBegin, DoEnd, calls
<1>5. CASE Tick \/ ChangeRate  BY <1>5 DEF Tick, ChangeRate, calls
<1>q. QED  BY <1>1, <1>2, <1>3, <1>4, <1>5, StepGroups DEF Next

-----------------------------------------------------------------------------
(* Clients.                                                                *)

(* The copy that a writer puts in place was made of the present map; the   *)
(* steps of I/O do not change who is in the map.                           *)
LEMMA ClientPreserved ==
  ASSUME IInv, Next
  PROVE  ClientInv'
<1> USE DEF IInv, TypeOK, LockInv, Goto, Enter, Leave, WriteSteps, IOSteps
<1>1. ASSUME NEW c \in Clients, ClientStep(c)  PROVE ClientInv'
  <2> USE DEF ClientInv, clients
  <2>1. CASE AddBegin(c) \/ AddFails(c)
    <3>1. CASE AddBegin(c)  BY <3>1 DEF AddBegin
    <3>2. CASE AddFails(c)  BY <3>2 DEF AddFails
    <3>q. QED  BY <2>1, <3>1, <3>2
  <2>2. CASE AddEnd(c)  BY <2>2 DEF AddEnd
  <2>3. CASE RemoveBegin(c)  BY <2>3 DEF RemoveBegin
  <2>4. CASE RemoveEnd(c)  BY <2>4 DEF RemoveEnd
  <2>q. QED  BY <1>1, <2>1, <2>2, <2>3, <2>4 DEF ClientStep
<1>2. ASSUME NEW c \in Clients, StartStep(c) \/ StopStep(c) \/ CycleStep(c)  PROVE ClientInv'
  <2>1. clientByID' = clientByID /\ copy' = copy
    BY <1>2 DEF StartStep, StartBegin, StartAnother, StartFirst, StartFails, StartCount, StartEnd,
                StopStep, StopBegin, StopHandler, StopCount, StopEnd,
                CycleStep, GetZeroTimeStamp, DoBegin, DoEnd, clients
  <2>2. \A d \in Clients : at'[d] \in WriteSteps => at[d] \in WriteSteps
    BY <1>2 DEF StartStep, StartBegin, StartAnother, StartFirst, StartFails, StartCount, StartEnd,
                StopStep, StopBegin, StopHandler, StopCount, StopEnd,
                CycleStep, GetZeroTimeStamp, DoBegin, DoEnd, calls
  <2>3. \A d \in Clients : phase'[d] = "absent" <=> phase[d] = "absent"
    <3>1. CASE StartStep(c)
      <4>1. CASE StartBegin(c) \/ StartAnother(c) \/ StartFirst(c) \/ StartCount(c)
        BY <4>1 DEF StartBegin, StartAnother, StartFirst, StartCount
      <4>2. CASE StartFails(c) \/ StartEnd(c)  BY <4>2 DEF StartFails, StartEnd
      <4>q. QED  BY <3>1, <4>1, <4>2 DEF StartStep
    <3>2. CASE StopStep(c)
      <4>1. CASE StopBegin(c) \/ StopHandler(c) \/ StopCount(c)
        BY <4>1 DEF StopBegin, StopHandler, StopCount
      <4>2. CASE StopEnd(c)  BY <4>2 DEF StopEnd
      <4>q. QED  BY <3>2, <4>1, <4>2 DEF StopStep
    <3>3. CASE CycleStep(c)  BY <3>3 DEF CycleStep, GetZeroTimeStamp, DoBegin, DoEnd, calls
    <3>q. QED  BY <1>2, <3>1, <3>2, <3>3
  <2>q. QED  BY <2>1, <2>2, <2>3 DEF ClientInv
<1>3. CASE Tick \/ ChangeRate
  <2>1. UNCHANGED <<at, phase, clientByID, copy>>  BY <1>3 DEF Tick, ChangeRate, calls, clients
  <2>q. QED  BY <2>1 DEF ClientInv
<1>q. QED  BY <1>1, <1>2, <1>3, StepGroups DEF Next

-----------------------------------------------------------------------------
(* The counter.                                                            *)

(* A step that is neither StartCount nor StopCount leaves the counter and  *)
(* what it counts alone.                                                   *)
LEMMA CountedUnchanged ==
  ASSUME IInv, NEW c \in Clients, Step(c), ~StartCount(c), ~StopCount(c)
  PROVE  Counted' = Counted /\ startCount' = startCount
<1> USE DEF IInv, TypeOK, LockInv, Counted, Goto, Enter, Leave, starting
<1>1. CASE ClientStep(c)
  BY <1>1 DEF ClientStep, AddBegin, AddFails, AddEnd, RemoveBegin, RemoveEnd
<1>2. CASE StartStep(c)
  BY <1>2 DEF StartStep, StartBegin, StartAnother, StartFirst, StartFails, StartEnd
<1>3. CASE StopStep(c)
  BY <1>3 DEF StopStep, StopBegin, StopHandler, StopEnd
<1>4. CASE CycleStep(c)
  BY <1>4 DEF CycleStep, GetZeroTimeStamp, DoBegin, DoEnd, calls
<1>q. QED  BY <1>1, <1>2, <1>3, <1>4, StepGroups

LEMMA CountPreserved ==
  ASSUME IInv, Next
  PROVE  CountInv'
<1>1. ASSUME NEW c \in Clients, StartCount(c)  PROVE CountInv'
  <2>1. c \notin Counted /\ Counted' = Counted \union {c}
    BY <1>1 DEF IInv, TypeOK, LockInv, Counted, StartCount, Goto
  <2>2. Cardinality(Counted') = Cardinality(Counted) + 1
    BY <2>1, CountedFinite, FS_AddElement
  <2>q. QED  BY <1>1, <2>2 DEF IInv, CountInv, StartCount
<1>2. ASSUME NEW c \in Clients, StopCount(c)  PROVE CountInv'
  <2>1. c \in Counted /\ Counted' = Counted \ {c}
    BY <1>2 DEF IInv, TypeOK, LockInv, Counted, StopCount, Goto
  <2>2. Cardinality(Counted') = Cardinality(Counted) - 1
    BY <2>1, CountedFinite, FS_RemoveElement
  <2>q. QED  BY <1>2, <2>2 DEF IInv, CountInv, StopCount
<1>3. ASSUME NEW c \in Clients, Step(c), ~StartCount(c), ~StopCount(c)  PROVE CountInv'
  BY <1>3, CountedUnchanged DEF IInv, CountInv
<1>4. CASE Tick \/ ChangeRate
  BY <1>4 DEF IInv, CountInv, Counted, Tick, ChangeRate, calls, starting
<1>q. QED  BY <1>1, <1>2, <1>3, <1>4 DEF Next

(* While a client is counted the counter is positive, and with another it  *)
(* is two at least.                                                        *)
LEMMA CountFacts ==
  ASSUME IInv
  PROVE  /\ startCount \in Nat
         /\ \A c \in Counted : startCount >= 1
         /\ startCount = 0 <=> Counted = {}
         /\ startCount = 1 => \A c, d \in Counted : c = d
<1>1. startCount = Cardinality(Counted) /\ startCount \in Nat
  BY CountedFinite DEF IInv, CountInv
<1>2. startCount = 0 <=> Counted = {}
  BY <1>1, CountedFinite, FS_EmptySet
<1>3. ASSUME startCount = 1, NEW c \in Counted, NEW d \in Counted  PROVE c = d
  <2>1. PICK x : Counted = {x}  BY <1>1, <1>3, CountedFinite, FS_Singleton
  <2>q. QED  BY <1>3, <2>1
<1>q. QED  BY <1>1, <1>2, <1>3

-----------------------------------------------------------------------------
(* The edges of the counter.                                               *)

(* The thread that starts or stops is the only one in a step of I/O, and   *)
(* the other threads stay where they are.                                  *)
LEMMA Alone ==
  ASSUME IInv, NEW c \in Clients, StartStep(c) \/ StopStep(c)
  PROVE  \A d \in Clients \ {c} : at[d] \notin IOSteps /\ at'[d] = at[d]
<1> USE DEF IInv, TypeOK, LockInv, Goto, Enter, Leave, CanLockIO, IOSteps
<1>1. CASE StartStep(c)
  BY <1>1 DEF StartStep, StartBegin, StartAnother, StartFirst, StartFails, StartCount, StartEnd
<1>2. CASE StopStep(c)  BY <1>2 DEF StopStep, StopBegin, StopHandler, StopCount, StopEnd
<1>q. QED  BY <1>1, <1>2

(* isStarting and isStopping are taken under the mutex that the counter    *)
(* changes under.                                                          *)
LEMMA EdgePreserved ==
  ASSUME IInv, Next
  PROVE  EdgeInv'
<1> USE DEF Goto, Enter, Leave, IOSteps
<1>n. startCount \in Nat  BY CountFacts
<1>t. /\ at \in [Clients -> {"idle"} \union WriteSteps \union IOSteps]
      /\ edge \in [Clients -> BOOLEAN]
  BY DEF IInv, TypeOK
<1>1. ASSUME NEW c \in Clients, ClientStep(c) \/ CycleStep(c)  PROVE EdgeInv'
  <2>1. startCount' = startCount /\ edge' = edge
    BY <1>1 DEF ClientStep, AddBegin, AddFails, AddEnd, RemoveBegin, RemoveEnd,
                CycleStep, GetZeroTimeStamp, DoBegin, DoEnd, starting
  <2>2. \A d \in Clients : at'[d] = at[d] \/ at'[d] \in WriteSteps \union {"idle", "doing"}
    BY <1>1, <1>t DEF ClientStep, AddBegin, AddFails, AddEnd, RemoveBegin, RemoveEnd,
                CycleStep, GetZeroTimeStamp, DoBegin, DoEnd, calls, WriteSteps
  <2>q. QED  BY <2>1, <2>2 DEF IInv, EdgeInv, WriteSteps
<1>2. ASSUME NEW c \in Clients, StartStep(c) \/ StopStep(c)  PROVE EdgeInv'
  <2>1. \A d \in Clients \ {c} : at[d] \notin IOSteps /\ at'[d] = at[d]
    BY <1>2, Alone
  <2>2. /\ at'[c] \in {"starting", "counting", "notifyingStop"} => (edge'[c] <=> startCount' = 0)
        /\ at'[c] \in {"notifying", "stopping", "uncounting"} => (edge'[c] <=> startCount' = 1)
    <3>1. CASE StartBegin(c)  BY <3>1, <1>t DEF StartBegin
    <3>2. CASE StartAnother(c) \/ StartFirst(c)
      BY <3>2, <1>t DEF IInv, EdgeInv, StartAnother, StartFirst, starting
    <3>3. CASE StartCount(c)  BY <3>3, <1>t, <1>n DEF IInv, EdgeInv, StartCount
    <3>4. CASE StartFails(c) \/ StartEnd(c) \/ StopEnd(c)
      BY <3>4, <1>t DEF StartFails, StartEnd, StopEnd
    <3>5. CASE StopBegin(c)  BY <3>5, <1>t DEF StopBegin
    <3>6. CASE StopHandler(c)  BY <3>6, <1>t DEF IInv, EdgeInv, StopHandler
    <3>7. CASE StopCount(c)  BY <3>7, <1>t, <1>n DEF IInv, EdgeInv, StopCount
    <3>q. QED  BY <1>2, <3>1, <3>2, <3>3, <3>4, <3>5, <3>6, <3>7 DEF StartStep, StopStep
  <2>q. QED  BY <2>1, <2>2 DEF EdgeInv
<1>3. CASE Tick \/ ChangeRate  BY <1>3 DEF IInv, EdgeInv, Tick, ChangeRate, calls, starting
<1>q. QED  BY <1>1, <1>2, <1>3, StepGroups DEF Next

-----------------------------------------------------------------------------
(* The handler and the notification.                                       *)

(* Steps of clients and of I/O cycles leave the counter alone, and no one  *)
(* comes to a step of StartIO or StopIO.                                   *)
LEMMA CounterLeftAlone ==
  ASSUME IInv, NEW c \in Clients, ClientStep(c) \/ CycleStep(c)
  PROVE  /\ UNCHANGED starting
         /\ \A d \in Clients, s \in IOSteps \ {"doing"} : at'[d] = s <=> at[d] = s
<1> USE DEF IInv, TypeOK, Goto, Enter, Leave, WriteSteps, IOSteps
<1>1. CASE ClientStep(c)
  BY <1>1 DEF ClientStep, AddBegin, AddFails, AddEnd, RemoveBegin, RemoveEnd
<1>2. CASE CycleStep(c)
  BY <1>2 DEF CycleStep, GetZeroTimeStamp, DoBegin, DoEnd, calls
<1>q. QED  BY <1>1, <1>2

(* OnStartIO() comes before the counter leaves zero, and OnStopIO() before *)
(* it comes back to zero.                                                  *)
LEMMA HandlerPreserved ==
  ASSUME IInv, Next
  PROVE  HandlerInv'
<1> USE DEF Goto, Enter, Leave
<1>n. startCount \in Nat  BY CountFacts
<1>t. at \in [Clients -> {"idle"} \union WriteSteps \union IOSteps]  BY DEF IInv, TypeOK
<1>1. ASSUME NEW c \in Clients, ClientStep(c) \/ CycleStep(c)  PROVE HandlerInv'
  BY <1>1, CounterLeftAlone DEF IInv, HandlerInv, starting, IOSteps
<1>2. ASSUME NEW c \in Clients, StartStep(c) \/ StopStep(c)  PROVE HandlerInv'
  <2> DEFINE Ahead == \/ at[c] = "counting"
                      \/ startCount > 0 /\ ~ (startCount = 1 /\ at[c] = "uncounting")
  <2>1. \A d \in Clients \ {c} : at[d] \notin IOSteps /\ at'[d] = at[d]
    BY <1>2, Alone
  <2>2. started = IF Ahead THEN 1 ELSE 0
    BY <2>1 DEF IInv, HandlerInv, IOSteps
  <2>3. phase[c] = "running" /\ at[c] \in {"idle", "stopping", "uncounting"} => startCount >= 1
    BY CountFacts DEF Counted
  <2>4. started' = IF Ahead' THEN 1 ELSE 0
    <3>1. CASE StartBegin(c) \/ StartFails(c) \/ StartEnd(c)
      BY <3>1, <2>2, <1>t DEF StartBegin, StartFails, StartEnd, starting
    <3>2. CASE StartAnother(c) \/ StartFirst(c)
      BY <3>2, <2>2, <1>t, <1>n DEF StartAnother, StartFirst, starting
    <3>3. CASE StartCount(c)  BY <3>3, <2>2, <1>t, <1>n DEF StartCount
    <3>4. CASE StopBegin(c) \/ StopEnd(c)  BY <3>4, <2>2, <1>t DEF StopBegin, StopEnd
    <3>5. CASE StopHandler(c)
      <4>1. startCount >= 1  BY <3>5, <2>3 DEF IInv, LockInv, StopHandler
      <4>q. QED  BY <4>1, <3>5, <2>2, <1>t, <1>n DEF StopHandler
    <3>6. CASE StopCount(c)
      <4>1. startCount >= 1  BY <3>6, <2>3 DEF IInv, LockInv, StopCount
      <4>q. QED  BY <4>1, <3>6, <2>2, <1>t, <1>n DEF StopCount
    <3>q. QED  BY <1>2, <3>1, <3>2, <3>3, <3>4, <3>5, <3>6 DEF StartStep, StopStep
  <2>q. QED  BY <2>1, <2>4 DEF HandlerInv, IOSteps
<1>3. CASE Tick \/ ChangeRate
  BY <1>3 DEF IInv, HandlerInv, Tick, ChangeRate, calls, starting
<1>q. QED  BY <1>1, <1>2, <1>3, StepGroups DEF Next

(* The one who changes whether there is I/O is the one who tells the HAL.  *)
LEMMA NotifiedPreserved ==
  ASSUME IInv, Next
  PROVE  NotifiedInv'
<1> USE DEF Goto, Enter, Leave
<1>n. startCount \in Nat  BY CountFacts
<1>t. /\ at \in [Clients -> {"idle"} \union WriteSteps \union IOSteps]
      /\ edge \in [Clients -> BOOLEAN] /\ notified \in BOOLEAN
  BY DEF IInv, TypeOK
<1>1. ASSUME NEW c \in Clients, ClientStep(c) \/ CycleStep(c)  PROVE NotifiedInv'
  BY <1>1, CounterLeftAlone DEF IInv, NotifiedInv, starting, IOSteps
<1>2. ASSUME NEW c \in Clients, StartStep(c) \/ StopStep(c)  PROVE NotifiedInv'
  <2> DEFINE Late == at[c] \in {"notifying", "notifyingStop"} /\ edge[c]
  <2>1. \A d \in Clients \ {c} : at[d] \notin IOSteps /\ at'[d] = at[d]
    BY <1>2, Alone
  <2>2. notified <=> ~ (startCount > 0 <=> Late)
    BY <2>1 DEF IInv, NotifiedInv, IOSteps
  <2>3. phase[c] = "running" /\ at[c] \in {"idle", "stopping", "uncounting"} => startCount >= 1
    BY CountFacts DEF Counted
  <2>4. /\ at[c] = "counting" => (edge[c] <=> startCount = 0)
        /\ at[c] = "uncounting" => (edge[c] <=> startCount = 1)
    BY DEF IInv, EdgeInv
  <2>5. notified' <=> ~ (startCount' > 0 <=> Late')
    <3>1. CASE StartBegin(c) \/ StartFails(c)
      BY <3>1, <2>2, <1>t DEF StartBegin, StartFails, starting
    <3>2. CASE StartAnother(c) \/ StartFirst(c)
      BY <3>2, <2>2, <1>t DEF StartAnother, StartFirst, starting
    <3>3. CASE StartCount(c)  BY <3>3, <2>2, <2>4, <1>t, <1>n DEF StartCount
    <3>4. CASE StopBegin(c) \/ StopHandler(c)  BY <3>4, <2>2, <1>t DEF StopBegin, StopHandler
    <3>5. CASE StopCount(c)
      <4>1. startCount >= 1  BY <3>5, <2>3 DEF IInv, LockInv, StopCount
      <4>q. QED  BY <4>1, <3>5, <2>2, <2>4, <1>t, <1>n DEF StopCount
    <3>6. CASE StartEnd(c) \/ StopEnd(c)
      <4>1. Late <=> edge[c]  BY <3>6 DEF StartEnd, StopEnd
      <4>2. ~Late'  BY <3>6, <1>t DEF StartEnd, StopEnd
      <4>3. CASE edge[c]
        <5>1. startCount' = startCount  BY <3>6 DEF StartEnd, StopEnd
        <5>2. notified' = (startCount > 0)  BY <3>6, <4>3, Zenon DEF StartEnd, StopEnd, Notify
        <5>q. QED  BY <5>1, <5>2, <4>2
      <4>4. CASE ~edge[c]
        <5>1. notified' = notified /\ startCount' = startCount
          BY <3>6, <4>4 DEF StartEnd, StopEnd, Notify
        <5>q. QED  BY <5>1, <4>1, <4>2, <4>4, <2>2
      <4>q. QED  BY <4>3, <4>4
    <3>q. QED  BY <1>2, <3>1, <3>2, <3>3, <3>4, <3>5, <3>6 DEF StartStep, StopStep
  <2>q. QED  BY <2>1, <2>5 DEF NotifiedInv, IOSteps
<1>3. CASE Tick \/ ChangeRate
  <2>1. at' = at /\ startCount' = startCount /\ edge' = edge /\ notified' = notified
    BY <1>3 DEF Tick, ChangeRate, calls, starting
  <2>2. NotifiedInv  BY DEF IInv
  <2>q. QED  BY <2>1, <2>2 DEF NotifiedInv
<1>q. QED  BY <1>1, <1>2, <1>3, StepGroups DEF Next

-----------------------------------------------------------------------------
(* Types.                                                                  *)

(* The next timestamp is of natural numbers.                               *)
LEMMA StampType ==
  ASSUME IInv
  PROVE  /\ TicksRate \in Rates
         /\ NextPeriods \in Nat
         /\ NextPeriods * Period \in Nat
         /\ anchor + Ticks(NextPeriods, TicksRate) \in Nat
<1>1. TicksRate \in Rates  BY DEF IInv, TypeOK, TicksRate
<1>2. NextPeriods \in Nat  BY DEF IInv, TypeOK, NextPeriods
<1>3. NextPeriods * Period \in Nat  BY <1>2, IOAssumption
<1>4. Ticks(NextPeriods, TicksRate) \in Nat  BY <1>1, <1>2, TicksType
<1>q. QED  BY <1>1, <1>2, <1>3, <1>4 DEF IInv, TypeOK

(* The counter never exceeds the number of clients, since it is the number *)
(* of those that it counts.                                                *)
LEMMA TypePreserved ==
  ASSUME IInv, Next
  PROVE  TypeOK'
<1> USE DEF Goto, Enter, Leave, WriteSteps, IOSteps
<1>n. startCount' \in 0 .. Cardinality(Clients)
  <2>1. Counted' \subseteq Clients  BY DEF Counted
  <2>2. IsFiniteSet(Clients)  BY IOAssumption
  <2>3. Cardinality(Counted') \in 0 .. Cardinality(Clients)
    BY <2>1, <2>2, FS_Subset, FS_CardinalityType
  <2>q. QED  BY <2>3, CountPreserved DEF CountInv
<1>i. started' \in Int  BY HandlerPreserved DEF HandlerInv
<1>1. ASSUME NEW c \in Clients, ClientStep(c)  PROVE TypeOK'
  BY <1>1, <1>n, <1>i DEF IInv, TypeOK, ClientStep, AddBegin, AddFails, AddEnd, RemoveBegin,
                          RemoveEnd, clients, starting, clock
<1>2. ASSUME NEW c \in Clients, StartStep(c)  PROVE TypeOK'
  <2>1. CASE StartBegin(c)
    BY <2>1, <1>n, <1>i DEF IInv, TypeOK, StartBegin, clients, clock
  <2>2. CASE StartAnother(c) \/ StartFails(c) \/ StartCount(c)
    BY <2>2, <1>n, <1>i DEF IInv, TypeOK, StartAnother, StartFails, StartCount, clients, starting, clock
  <2>3. CASE StartFirst(c)  BY <2>3, <1>n, <1>i DEF IInv, TypeOK, StartFirst, clients
  <2>4. CASE StartEnd(c)
    <3>1. notified' \in BOOLEAN
      <4>1. notified' = IF edge[c] THEN startCount > 0 ELSE notified
        BY <2>4, Zenon DEF StartEnd, Notify
      <4>2. CASE edge[c]
        <5>1. (startCount > 0) \in BOOLEAN  BY SMT
        <5>q. QED  BY <4>1, <4>2, <5>1, Zenon
      <4>3. CASE ~edge[c]  BY <4>1, <4>3 DEF IInv, TypeOK
      <4>q. QED  BY <4>2, <4>3
    <3>2. at' \in [Clients -> {"idle"} \union WriteSteps \union IOSteps]
      BY <2>4 DEF IInv, TypeOK, StartEnd
    <3>q. QED  BY <2>4, <3>1, <3>2, <1>n, <1>i DEF IInv, TypeOK, StartEnd, clients, clock
  <2>q. QED  BY <1>2, <2>1, <2>2, <2>3, <2>4 DEF StartStep
<1>3. ASSUME NEW c \in Clients, StopStep(c)  PROVE TypeOK'
  <2>1. CASE StopBegin(c)
    BY <2>1, <1>n, <1>i DEF IInv, TypeOK, StopBegin, clients, clock
  <2>2. CASE StopHandler(c) \/ StopCount(c)
    BY <2>2, <1>n, <1>i DEF IInv, TypeOK, StopHandler, StopCount, clients, clock
  <2>3. CASE StopEnd(c)
    <3>1. notified' \in BOOLEAN
      <4>1. notified' = IF edge[c] THEN startCount > 0 ELSE notified
        BY <2>3, Zenon DEF StopEnd, Notify
      <4>2. CASE edge[c]
        <5>1. (startCount > 0) \in BOOLEAN  BY SMT
        <5>q. QED  BY <4>1, <4>2, <5>1, Zenon
      <4>3. CASE ~edge[c]  BY <4>1, <4>3 DEF IInv, TypeOK
      <4>q. QED  BY <4>2, <4>3
    <3>2. at' \in [Clients -> {"idle"} \union WriteSteps \union IOSteps]
      BY <2>3 DEF IInv, TypeOK, StopEnd
    <3>q. QED  BY <2>3, <3>1, <3>2, <1>n, <1>i DEF IInv, TypeOK, StopEnd, clients, clock
  <2>q. QED  BY <1>3, <2>1, <2>2, <2>3 DEF StopStep
<1>4. ASSUME NEW c \in Clients, CycleStep(c)  PROVE TypeOK'
  <2>1. CASE GetZeroTimeStamp(c)
    BY <2>1, <1>n, <1>i, StampType DEF IInv, TypeOK, GetZeroTimeStamp, calls, clients, starting
  <2>2. CASE DoBegin(c) \/ DoEnd(c)
    BY <2>2, <1>n, <1>i DEF IInv, TypeOK, DoBegin, DoEnd, clients, starting, clock
  <2>q. QED  BY <1>4, <2>1, <2>2 DEF CycleStep
<1>5. CASE Tick  BY <1>5 DEF IInv, TypeOK, Tick, calls, clients, starting
<1>6. CASE ChangeRate  BY <1>6 DEF IInv, TypeOK, ChangeRate, calls, clients, starting
<1>q. QED  BY <1>1, <1>2, <1>3, <1>4, <1>5, <1>6, StepGroups DEF Next

-----------------------------------------------------------------------------
(* The clock.                                                              *)

(* Division rounds down.                                                   *)
LEMMA DivBounds ==
  ASSUME NEW a \in Nat, NEW r \in Nat \ {0}
  PROVE  /\ a \div r \in Nat
         /\ (a \div r) * r <= a
         /\ a < ((a \div r) + 1) * r
OBVIOUS

(* A factor cancels, and preserves an order.                               *)
LEMMA Cancel ==
  ASSUME NEW a \in Int, NEW b \in Int, NEW r \in Nat \ {0}
  PROVE  /\ a * r < b * r => a < b
         /\ a <= b => a * r <= b * r
OBVIOUS

(* What a period takes: the ticks of k periods are rounded down to a tick, *)
(* so that one period more takes at least any silence that is no longer    *)
(* than a period, and less than a tick more than a period.                 *)
LEMMA TicksStep ==
  ASSUME NEW k \in Nat, NEW r \in Rates
  PROVE  /\ Ticks(k, r) \in Nat /\ Ticks(k + 1, r) \in Nat
         /\ Ticks(k, r) + MaxSilence <= Ticks(k + 1, r)
         /\ (Ticks(k + 1, r) - Ticks(k, r)) * r < HostFrequency * Period + r
<1> DEFINE t == Ticks(k, r)
           u == Ticks(k + 1, r)
<1>1. r \in Nat \ {0} /\ MaxSilence \in Nat  BY IOAssumption
<1>2. PICK D \in Nat : D = HostFrequency * Period  BY IOAssumption
<1>3. k * HostFrequency * Period = k * D /\ (k + 1) * HostFrequency * Period = k * D + D
  BY <1>2, IOAssumption
<1>4. PICK a \in Nat : a = k * D  BY <1>2
<1>5. t = a \div r /\ u = (a + D) \div r  BY <1>3, <1>4 DEF Ticks
<1>6. t \in Nat /\ t * r <= a /\ a < (t + 1) * r
  <2> HIDE DEF t
  <2>q. QED  BY <1>1, <1>4, <1>5, DivBounds
<1>7. u \in Nat /\ u * r <= a + D /\ a + D < (u + 1) * r
  <2> HIDE DEF u
  <2>1. a + D \in Nat  BY <1>2, <1>4
  <2>q. QED  BY <1>1, <1>5, <2>1, DivBounds
<1> HIDE DEF t, u
<1>8. t + MaxSilence < u + 1
  <2>1. MaxSilence * r <= D  BY <1>2, IOAssumption
  <2>2. (t + MaxSilence) * r = t * r + MaxSilence * r  BY <1>1, <1>6
  <2>3. (t + MaxSilence) * r < (u + 1) * r
    <3>1. t * r \in Int /\ MaxSilence * r \in Int /\ (u + 1) * r \in Int  BY <1>1, <1>6, <1>7
    <3>q. QED  BY <1>2, <1>4, <1>6, <1>7, <2>1, <2>2, <3>1
  <2>q. QED  BY <1>1, <1>6, <1>7, <2>3, Cancel
<1>9. (u - t) * r < D + r
  <2>1. t * r \in Int /\ u * r \in Int  BY <1>1, <1>6, <1>7
  <2>2. (t + 1) * r = t * r + r /\ (u - t) * r = u * r - t * r  BY <1>1, <1>6, <1>7
  <2>q. QED  BY <1>1, <1>2, <1>4, <1>6, <1>7, <2>1, <2>2
<1>q. QED  BY <1>1, <1>2, <1>6, <1>7, <1>8, <1>9 DEF t, u

(* hostTicksPerFrame_ is always that of the nominal sample rate.           *)
LEMMA RateInUse == TicksRate = rate
BY DEF TicksRate

(* A period is counted if its time has come, and not before.               *)
LEMMA StampPreserved ==
  ASSUME IInv, started = 1, NEW c \in Clients, GetZeroTimeStamp(c)
  PROVE  /\ latest'.sample = periods' * Period
         /\ latest'.sample - latest.sample \in {0, Period}
         /\ latest'.host = anchor + Ticks(periods', rate)
         /\ latest.host <= latest'.host /\ latest'.host <= now /\ latest'.time = now
         /\ (now - latest'.host) * rate < HostFrequency * Period
         /\ latest'.host \in Nat
<1> DEFINE t == Ticks(periods, rate)
           u == Ticks(periods + 1, rate)
<1>1. /\ rate \in Nat \ {0} /\ MaxSilence \in Nat /\ Period \in Nat
      /\ now \in Nat /\ anchor \in Nat /\ periods \in Nat /\ rate \in Rates
  BY IOAssumption DEF IInv, TypeOK
<1>2. /\ latest.sample = periods * Period /\ latest.host = anchor + t
      /\ latest.host <= latest.time /\ latest.time <= now
      /\ now - latest.time <= MaxSilence
      /\ (latest.time - latest.host) * rate < HostFrequency * Period
  BY DEF IInv, ClockInv
<1>3. latest.time \in Nat  BY DEF IInv, TypeOK
<1>4. PICK D \in Nat : D = HostFrequency * Period  BY IOAssumption
<1>5. t \in Nat /\ u \in Nat /\ t + MaxSilence <= u /\ (u - t) * rate < D + rate
  BY <1>1, <1>4, TicksStep
<1>6. /\ periods' = NextPeriods
      /\ latest' = [sample |-> NextPeriods * Period,
                    host |-> anchor + Ticks(NextPeriods, rate), time |-> now]
  BY RateInUse DEF GetZeroTimeStamp
<1>7. NextPeriods = IF now >= anchor + u THEN periods + 1 ELSE periods
  BY RateInUse DEF NextPeriods
<1> HIDE DEF t, u
<1>8. CASE now >= anchor + u
  <2>1. /\ periods' = periods + 1 /\ latest'.host = anchor + u /\ latest'.time = now
        /\ latest'.sample = (periods + 1) * Period
    BY <1>6, <1>7, <1>8 DEF u
  <2>2. (periods + 1) * Period - periods * Period = Period  BY <1>1
  <2>3. now - (anchor + u) <= latest.time - (anchor + t)  BY <1>1, <1>2, <1>3, <1>5
  <2>4. (now - (anchor + u)) * rate <= (latest.time - (anchor + t)) * rate
    BY <1>1, <1>3, <1>5, <2>3, Cancel
  <2>5. (now - (anchor + u)) * rate \in Int /\ (latest.time - (anchor + t)) * rate \in Int
    BY <1>1, <1>3, <1>5
  <2>6. (now - (anchor + u)) * rate < D  BY <1>2, <1>4, <2>4, <2>5
  <2>q. QED  BY <1>1, <1>2, <1>4, <1>5, <1>8, <2>1, <2>2, <2>6 DEF u
<1>9. CASE ~ (now >= anchor + u)
  <2>1. /\ periods' = periods /\ latest'.host = anchor + t /\ latest'.time = now
        /\ latest'.sample = periods * Period
    BY <1>6, <1>7, <1>9 DEF t
  <2>2. PICK d \in Nat : d = now - (anchor + t)  BY <1>1, <1>2, <1>3, <1>5
  <2>3. d + 1 <= u - t  BY <1>1, <1>5, <1>9, <2>2
  <2>4. (d + 1) * rate <= (u - t) * rate  BY <1>1, <1>5, <2>2, <2>3, Cancel
  <2>5. (d + 1) * rate = d * rate + rate /\ d * rate \in Int /\ (u - t) * rate \in Int
    BY <1>1, <1>5, <2>2
  <2>6. d * rate < D  BY <1>1, <1>4, <1>5, <2>4, <2>5
  <2>7. periods * Period - periods * Period = 0  BY <1>1
  <2>q. QED  BY <1>1, <1>2, <1>3, <1>4, <1>5, <2>1, <2>2, <2>6, <2>7 DEF t
<1>q. QED  BY <1>8, <1>9

(* The rate does not change while I/O runs.                                *)
LEMMA RateIsKept ==
  ASSUME IInv, ChangeRate
  PROVE  started # 1
<1>1. Counted = {}  BY DEF ChangeRate, Counted, IOSteps
<1>2. startCount = 0  BY <1>1, CountFacts
<1>3. \A c \in Clients : at[c] # "counting"  BY DEF ChangeRate, IOSteps
<1>q. QED  BY <1>2, <1>3 DEF IInv, HandlerInv

(* What the other steps do to the clock.                                   *)
LEMMA ClockLeftAlone ==
  ASSUME IInv, NEW c \in Clients, Step(c), ~ GetZeroTimeStamp(c), ~ StartFirst(c)
  PROVE  UNCHANGED clock /\ (started' = 1 => started = 1)
<1>1. CASE ClientStep(c)
  BY <1>1 DEF ClientStep, AddBegin, AddFails, AddEnd, RemoveBegin, RemoveEnd, starting
<1>2. CASE StartStep(c)
  BY <1>2 DEF StartStep, StartBegin, StartAnother, StartFails, StartCount, StartEnd, starting
<1>3. CASE StopStep(c)
  <2>1. CASE StopBegin(c) \/ StopCount(c) \/ StopEnd(c)
    BY <2>1 DEF StopBegin, StopCount, StopEnd
  <2>2. CASE StopHandler(c)
    <3>1. started \in {0, 1}  BY DEF IInv, HandlerInv
    <3>q. QED  BY <2>2, <3>1 DEF StopHandler
  <2>q. QED  BY <1>3, <2>1, <2>2 DEF StopStep
<1>4. CASE CycleStep(c)  BY <1>4 DEF CycleStep, DoBegin, DoEnd, starting
<1>q. QED  BY <1>1, <1>2, <1>3, <1>4, StepGroups

(* A run of I/O starts with the timestamp of its first moment.             *)
LEMMA ClockStarts ==
  ASSUME IInv, NEW c \in Clients, StartFirst(c)
  PROVE  ClockInv' /\ started = 0
<1>1. rate \in Nat \ {0} /\ rate \in Rates /\ now \in Nat  BY IOAssumption DEF IInv, TypeOK
<1>2. 0 * HostFrequency * Period = 0 /\ 0 \div rate = 0  BY <1>1, IOAssumption
<1>3. Ticks(0, rate) = 0  BY <1>2 DEF Ticks
<1>4. /\ anchor' = now /\ periods' = 0 /\ now' = now /\ rate' = rate
      /\ latest' = [sample |-> 0, host |-> now, time |-> now]
  BY DEF StartFirst
<1>5. 0 * Period = 0 /\ (now - now) * rate = 0 /\ HostFrequency * Period > 0
  BY <1>1, IOAssumption
<1>6. now + 0 = now /\ now - now = 0 /\ MaxSilence \in Nat  BY <1>1, IOAssumption
<1>7. started = 0
  <2>1. at[c] = "starting" /\ startCount = 0  BY DEF StartFirst
  <2>2. \A d \in Clients : at[d] # "counting"  BY <2>1 DEF IInv, LockInv, IOSteps
  <2>q. QED  BY <2>1, <2>2 DEF IInv, HandlerInv
<1>q. QED  BY <1>1, <1>3, <1>4, <1>5, <1>6, <1>7 DEF ClockInv, Ticks

LEMMA ClockPreserved ==
  ASSUME IInv, Next
  PROVE  ClockInv'
<1>1. ASSUME NEW c \in Clients, GetZeroTimeStamp(c)  PROVE ClockInv'
  <2>1. UNCHANGED <<started, now, rate, anchor>>  BY <1>1 DEF GetZeroTimeStamp, starting
  <2>2. SUFFICES ASSUME started = 1 PROVE ClockInv'  BY <2>1 DEF ClockInv
  <2>3. now \in Nat /\ MaxSilence \in Nat  BY IOAssumption DEF IInv, TypeOK
  <2>4. now - now = 0 /\ now <= now  BY <2>3
  <2>q. QED  BY <1>1, <2>1, <2>2, <2>3, <2>4, StampPreserved DEF ClockInv, Ticks
<1>2. ASSUME NEW c \in Clients, StartFirst(c)  PROVE ClockInv'  BY <1>2, ClockStarts
<1>3. ASSUME NEW c \in Clients, Step(c), ~ GetZeroTimeStamp(c), ~ StartFirst(c)
      PROVE  ClockInv'
  <2>1. UNCHANGED clock /\ (started' = 1 => started = 1)  BY <1>3, ClockLeftAlone
  <2>q. QED  BY <2>1 DEF IInv, ClockInv, Ticks, clock
<1>4. CASE Tick
  <2>1. now \in Nat /\ latest.time \in Nat /\ MaxSilence \in Nat
    BY IOAssumption DEF IInv, TypeOK
  <2>2. UNCHANGED <<started, rate, anchor, periods, latest>>  BY <1>4 DEF Tick, starting
  <2>3. now' = now + 1 /\ (started = 1 => now - latest.time < MaxSilence)  BY <1>4 DEF Tick
  <2>q. QED  BY <2>1, <2>2, <2>3 DEF IInv, ClockInv, Ticks
<1>5. CASE ChangeRate
  <2>1. started' = started  BY <1>5 DEF ChangeRate, starting
  <2>q. QED  BY <1>5, <2>1, RateIsKept DEF ClockInv
<1>q. QED  BY <1>1, <1>2, <1>3, <1>4, <1>5 DEF Next

-----------------------------------------------------------------------------
(* The inductive invariant.                                                *)

LEMMA InitInv == Init => IInv
<1> SUFFICES ASSUME Init PROVE IInv  OBVIOUS
<1> USE DEF Init
<1>1. Counted = {}  BY DEF Counted
<1>2. Cardinality({}) = 0  BY FS_EmptySet
<1>3. Cardinality(Clients) \in Nat  BY IOAssumption, FS_CardinalityType
<1>4. TypeOK
  <2>1. at \in [Clients -> {"idle"} \union WriteSteps \union IOSteps]  OBVIOUS
  <2>2. startCount \in 0 .. Cardinality(Clients)  BY <1>3
  <2>3. edge \in [Clients -> BOOLEAN] /\ notified \in BOOLEAN  OBVIOUS
  <2>4. phase \in [Clients -> {"absent", "known", "running"}]  OBVIOUS
  <2>5. clientByID \subseteq Clients /\ copy \in [Clients -> SUBSET Clients]  OBVIOUS
  <2>6. latest \in [sample : Nat, host : Nat, time : Nat]  OBVIOUS
  <2>7. {now, anchor, periods} \subseteq Nat /\ started \in Int  OBVIOUS
  <2>q. QED  BY <2>1, <2>2, <2>3, <2>4, <2>5, <2>6, <2>7 DEF TypeOK
<1>5. LockInv /\ ClientInv  BY DEF LockInv, ClientInv, IOSteps, WriteSteps
<1>6. CountInv  BY <1>1, <1>2 DEF CountInv
<1>7. HandlerInv  BY DEF HandlerInv
<1>8. EdgeInv  BY DEF EdgeInv
<1>9. NotifiedInv  BY DEF NotifiedInv
<1>10. ClockInv  BY DEF ClockInv
<1>q. QED  BY <1>4, <1>5, <1>6, <1>7, <1>8, <1>9, <1>10 DEF IInv

LEMMA NextInv == IInv /\ [Next]_vars => IInv'
<1>1. ASSUME IInv, Next  PROVE IInv'
  BY <1>1, TypePreserved, LockPreserved, ClientPreserved, CountPreserved, HandlerPreserved,
     EdgePreserved, NotifiedPreserved, ClockPreserved DEF IInv
<1>2. ASSUME IInv, UNCHANGED vars  PROVE IInv'
  BY <1>2 DEF IInv, TypeOK, LockInv, ClientInv, CountInv, Counted, HandlerInv, EdgeInv, NotifiedInv,
              ClockInv, Ticks, vars, calls, clients, starting, clock
<1>q. QED  BY <1>1, <1>2

(* The counter, the handler, the edges and what the HAL was told agree at  *)
(* every step of StartIO and StopIO, for any number of clients.            *)
THEOREM Invariance == Spec => []IInv
BY InitInv, NextInv, PTL DEF Spec

(* startCount_ is never negative and never more than there are clients.    *)
THEOREM TypeCorrect == Spec => []TypeOK
<1>1. IInv => TypeOK  BY DEF IInv
<1>q. QED  BY <1>1, Invariance, PTL

(* Between calls the counted clients are those that run.                   *)
LEMMA CountedAtRest ==
  ASSUME IInv, IOFree
  PROVE  startCount = Cardinality(Running) /\ (startCount > 0 <=> Running # {})
<1>1. Counted = Running  BY DEF IOFree, IOSteps, Counted, Running
<1>2. startCount \in Nat /\ (startCount = 0 <=> Counted = {})  BY CountFacts
<1>q. QED  BY <1>1, <1>2 DEF IInv, CountInv

(* OnStartIO() and OnStopIO() alternate: StartIOImpl and StopIOImpl call   *)
(* the handler for the first client and for the last, and for no other.    *)
THEOREM HandlerAlternatesAlways == Spec => []HandlerAlternates
<1>1. ASSUME IInv PROVE HandlerAlternates
  <2>1. started \in {0, 1}  BY <1>1 DEF IInv, HandlerInv
  <2>2. ASSUME IOFree  PROVE started = 1 <=> startCount > 0
    BY <1>1, <2>2 DEF IInv, HandlerInv, IOFree, IOSteps
  <2>q. QED  BY <1>1, <2>1, <2>2, CountedAtRest DEF HandlerAlternates
<1>q. QED  BY <1>1, Invariance, PTL

(* Between calls GetIsRunning() says whether some client does I/O, and the *)
(* HAL has been notified of what it says.                                  *)
THEOREM RunningIsNotifiedAlways == Spec => []RunningIsNotified
<1>1. ASSUME IInv PROVE RunningIsNotified
  <2>1. ASSUME IOFree  PROVE notified <=> startCount > 0
    BY <1>1, <2>1 DEF IInv, NotifiedInv, IOFree, IOSteps
  <2>2. notified \in BOOLEAN  BY <1>1 DEF IInv, TypeOK
  <2>q. QED  BY <1>1, <2>1, <2>2, CountedAtRest DEF RunningIsNotified
<1>q. QED  BY <1>1, Invariance, PTL

(* An I/O operation is between OnStartIO() and OnStopIO(), alone in the    *)
(* handler, and for a client in the map.                                   *)
THEOREM IOIsServedAlways == Spec => []IOIsServed
<1>1. ASSUME IInv PROVE IOIsServed
  <2> SUFFICES ASSUME NEW c \in Clients, at[c] = "doing"
               PROVE  /\ started = 1
                      /\ c \in clientByID
                      /\ \A d \in Clients \ {c} : at[d] \notin IOSteps
    BY DEF IOIsServed
  <2>1. \A d \in Clients \ {c} : at[d] \notin IOSteps
    BY <1>1 DEF IInv, LockInv, IOSteps
  <2>2. phase[c] = "running"  BY <1>1 DEF IInv, LockInv
  <2>3. startCount >= 1  BY <1>1, <2>2, CountFacts DEF Counted
  <2>4. ~ \E d \in Clients : at[d] = "uncounting"  BY <2>1 DEF IOSteps
  <2>5. startCount \in Nat  BY <1>1, CountFacts
  <2>6. started = 1  BY <1>1, <2>3, <2>4, <2>5 DEF IInv, HandlerInv
  <2>q. QED  BY <1>1, <2>1, <2>2, <2>6 DEF IInv, ClientInv
<1>q. QED  BY <1>1, Invariance, PTL

(* AddClient and RemoveClient lose no client of another call.              *)
THEOREM ClientsAreKeptAlways == Spec => []ClientsAreKept
<1>1. IInv => ClientsAreKept  BY DEF IInv, ClientInv, ClientsAreKept
<1>q. QED  BY <1>1, Invariance, PTL

(* GetZeroTimeStamp counts one period at most in a call: if the HAL asks   *)
(* once a period the timestamp it gets is not of the future and less than  *)
(* a period old, although the ticks of a period need not be a whole number.*)
THEOREM StampIsOfThePresentAlways == Spec => []StampIsOfThePresent
<1>1. IInv => StampIsOfThePresent  BY DEF IInv, ClockInv, StampIsOfThePresent
<1>q. QED  BY <1>1, Invariance, PTL

(* During a run of I/O no timestamp is before an earlier one, and its sample*)
(* time is that of the earlier one or of the next period.                  *)
THEOREM StampsAlwaysAdvance == Spec => StampsAdvance
<1> DEFINE Advance ==
      started = 1 /\ started' = 1 =>
        /\ latest'.sample - latest.sample \in {0, Period}
        /\ latest'.host >= latest.host
<1>0. ASSUME IInv  PROVE latest.sample \in Nat /\ latest.host \in Nat /\ Period \in Nat
  BY <1>0, IOAssumption DEF IInv, TypeOK
<1>1. ASSUME IInv, latest' = latest  PROVE Advance
  <2>1. latest.sample - latest.sample = 0 /\ latest.host >= latest.host  BY <1>0, <1>1
  <2>q. QED  BY <1>1, <2>1
<1>2. ASSUME IInv, Next  PROVE Advance
  <2>1. ASSUME NEW c \in Clients, Step(c)  PROVE Advance
    <3>1. CASE GetZeroTimeStamp(c)  BY <1>0, <1>2, <3>1, StampPreserved
    <3>2. CASE StartFirst(c)  BY <1>2, <3>2, ClockStarts
    <3>3. CASE ~ GetZeroTimeStamp(c) /\ ~ StartFirst(c)
      BY <1>1, <1>2, <2>1, <3>3, ClockLeftAlone DEF clock
    <3>q. QED  BY <3>1, <3>2, <3>3
  <2>2. CASE Tick \/ ChangeRate  BY <1>1, <1>2, <2>2 DEF Tick, ChangeRate
  <2>q. QED  BY <1>2, <2>1, <2>2 DEF Next
<1>3. ASSUME IInv, UNCHANGED vars  PROVE Advance  BY <1>1, <1>3 DEF vars, clock
<1>4. IInv /\ [Next]_vars => [Advance]_vars  BY <1>2, <1>3
<1>q. QED  BY <1>4, Invariance, PTL DEF Spec, StampsAdvance
=============================================================================
