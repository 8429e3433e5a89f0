-------------------------- MODULE AsyncSetterProofs --------------------------
(***************************************************************************)
(* Proof that the last accepted value wins, for any threads and values, and*)
(* for parameters of a device and of a stream.                             *)
(***************************************************************************)
EXTENDS AsyncSetter, TLAPS

-----------------------------------------------------------------------------
(* Queues.                                                                 *)

LEMMA TailFacts ==
  ASSUME NEW q \in Seq(Nat), q # <<>>
  PROVE  /\ Len(q) \in Nat /\ Len(q) >= 1 /\ Head(q) = q[1]
         /\ Tail(q) \in Seq(Nat) /\ Len(Tail(q)) = Len(q) - 1
         /\ \A k \in 1 .. Len(q) - 1 : Tail(q)[k] = q[k + 1]
  OBVIOUS

LEMMA AppendFacts ==
  ASSUME NEW S, NEW q \in Seq(S), NEW e \in S
  PROVE  /\ Append(q, e) \in Seq(S) /\ Len(Append(q, e)) = Len(q) + 1
         /\ Len(q) \in Nat /\ Append(q, e)[Len(q) + 1] = e
         /\ \A k \in 1 .. Len(q) : Append(q, e)[k] = q[k]
  OBVIOUS

-----------------------------------------------------------------------------
(* The steps, by what they do to the queue.                                *)

(* Nothing.                                                                *)
Aside(t) ==
  \/ t \in Users /\ \/ \E v \in Values : SetCall(t, v)
                    \/ SetLock(t) \/ SetUnchanged(t) \/ SetInvalid(t) \/ SetRequest(t)
                    \/ Attach(t) \/ Detach(t) \/ DetachReturn(t)
  \/ t = Hal /\ PerformEnter

Run(t) == (t \in Users /\ DetachRun(t)) \/ (t = Hal /\ PerformRun)

LEMMA StepGroups ==
  ASSUME Next
  PROVE  \E t \in Threads :
           \/ Aside(t) \/ Run(t)
           \/ t \in Users /\ (SetEnqueue(t) \/ SetInPlace(t))
           \/ t = Hal /\ AbortConfigurationChange
  BY DEF Next, HalStep, UserStep, SetStep, Aside, Run, Threads

LEMMA AsideKeeps ==
  ASSUME NEW t \in Threads, Aside(t)
  PROVE  UNCHANGED <<value, queue, accepted, dropped>>
  BY DEF Aside, SetCall, SetLock, SetUnchanged, SetInvalid, SetRequest, Attach, Detach,
     DetachReturn, PerformEnter, history

-----------------------------------------------------------------------------
(* Types, and the device's mutex.                                          *)

LEMMA ConfigurationTypes ==
  ASSUME IInv, NEW t \in Threads,
         \/ Aside(t) \/ Run(t)
         \/ t \in Users /\ (SetEnqueue(t) \/ SetInPlace(t))
         \/ t = Hal /\ AbortConfigurationChange
  PROVE  SetterTypeOK'
<1> USE SetterAssumption DEF IInv, SetterTypeOK, Goto, ReleaseAll, Released, history, locks, Threads
<1>1. CASE Aside(t)
  <2>1. UNCHANGED <<queue, accepted, dropped>>  BY <1>1, AsideKeeps
  <2>2. ASSUME t \in Users, NEW v \in Values, SetCall(t, v)  PROVE SetterTypeOK'
    BY <2>1, <2>2 DEF SetCall
  <2>3. CASE t \in Users /\ (SetLock(t) \/ SetUnchanged(t) \/ SetInvalid(t) \/ SetRequest(t))
    BY <2>1, <2>3 DEF SetLock, SetUnchanged, SetInvalid, SetRequest
  <2>4. CASE t \in Users /\ (Attach(t) \/ Detach(t) \/ DetachReturn(t))
    BY <2>1, <2>4 DEF Attach, Detach, DetachReturn
  <2>5. CASE t = Hal /\ PerformEnter  BY <2>1, <2>5 DEF PerformEnter
  <2>q. QED  BY <1>1, <2>2, <2>3, <2>4, <2>5 DEF Aside
<1>2. CASE Run(t)
  <2>1. queue # <<>>  BY <1>2 DEF Run, DetachRun, PerformRun, DeviceInv
  <2>2. queue' = Tail(queue)  BY <1>2 DEF Run, DetachRun, PerformRun, RunFunction
  <2>3. queue' \in Seq(Nat)  BY <2>1, <2>2, TailFacts
  <2>4. Head(queue) \in 1 .. Len(accepted)  BY <2>1, TailFacts DEF QueueInv
  <2>5. accepted' = accepted /\ dropped' \subseteq 1 .. Len(accepted')
    BY <1>2, <2>4 DEF Run, DetachRun, PerformRun, RunFunction, SetImpl, Stores, Fails
  <2>q. QED  BY <1>2, <2>3, <2>5 DEF Run, DetachRun, PerformRun
<1>3. CASE t \in Users /\ SetEnqueue(t)
  <2>1. argument[t] \in Valid  BY <1>3 DEF SetEnqueue, DeviceInv
  <2>2. accepted' \in Seq(Valid) /\ dropped' \subseteq 1 .. Len(accepted')
    BY <1>3, <2>1, AppendFacts DEF SetEnqueue, Accept
  <2>3. queue' \in Seq(Nat)  BY <1>3, <2>2 DEF SetEnqueue
  <2>q. QED  BY <1>3, <2>2, <2>3 DEF SetEnqueue
<1>4. CASE t \in Users /\ SetInPlace(t)
  <2>1. argument[t] \in Valid  BY <1>4 DEF SetInPlace, DeviceInv
  <2>2. /\ accepted' \in Seq(Valid) /\ Len(accepted') = Len(accepted) + 1
        /\ Len(accepted) \in Nat
    BY <1>4, <2>1, AppendFacts DEF SetInPlace, Accept
  <2>3. dropped' \subseteq dropped \union {Len(accepted')}
    BY <1>4 DEF SetInPlace, SetImpl, Stores, Fails
  <2>4. dropped' \subseteq 1 .. Len(accepted')
    BY <2>2, <2>3
  <2>q. QED  BY <1>4, <2>2, <2>4 DEF SetInPlace
<1>5. CASE t = Hal /\ AbortConfigurationChange
  <2>1. queue' \in Seq(Nat)  BY <1>5, TailFacts DEF AbortConfigurationChange
  <2>2. Head(queue) \in 1 .. Len(accepted)
    BY <1>5, TailFacts DEF AbortConfigurationChange, QueueInv
  <2>q. QED  BY <1>5, <2>1, <2>2 DEF AbortConfigurationChange
<1>q. QED  BY <1>1, <1>2, <1>3, <1>4, <1>5

LEMMA DevicePreserved ==
  ASSUME IInv, NEW t \in Threads,
         \/ Aside(t) \/ Run(t)
         \/ t \in Users /\ (SetEnqueue(t) \/ SetInPlace(t))
         \/ t = Hal /\ AbortConfigurationChange
  PROVE  DeviceInv'
<1> USE SetterAssumption DEF IInv, SetterTypeOK, DeviceInv, Goto, ReleaseAll, Released, history,
        locks, Threads
<1>1. CASE Aside(t)
  <2>1. queue' = queue  BY <1>1, AsideKeeps
  <2>2. ASSUME t \in Users, NEW v \in Values, SetCall(t, v)  PROVE DeviceInv'
    BY <2>1, <2>2 DEF SetCall
  <2>3. CASE t \in Users /\ (SetLock(t) \/ SetUnchanged(t) \/ SetInvalid(t))
    <3>1. CASE SetLock(t)  BY <2>1, <2>3, <3>1 DEF SetLock
    <3>2. CASE SetUnchanged(t)  BY <2>1, <2>3, <3>2 DEF SetUnchanged
    <3>3. CASE SetInvalid(t)  BY <2>1, <2>3, <3>3 DEF SetInvalid
    <3>q. QED  BY <2>3, <3>1, <3>2, <3>3
  <2>4. CASE t \in Users /\ SetRequest(t)  BY <2>1, <2>4 DEF SetRequest, Check
  <2>5. CASE t \in Users /\ (Attach(t) \/ Detach(t))  BY <2>1, <2>5 DEF Attach, Detach
  <2>6. CASE t \in Users /\ DetachReturn(t)  BY <2>1, <2>6 DEF DetachReturn
  <2>7. CASE t = Hal /\ PerformEnter  BY <2>1, <2>7 DEF PerformEnter
  <2>q. QED  BY <1>1, <2>2, <2>3, <2>4, <2>5, <2>6, <2>7 DEF Aside
<1>2. CASE t \in Users /\ DetachRun(t)
  BY <1>2 DEF DetachRun
<1>3. CASE t = Hal /\ PerformRun
  <2>1. queue # <<>>  BY <1>3 DEF PerformRun
  <2>2. queue' = Tail(queue)  BY <1>3 DEF PerformRun, RunFunction
  <2>3. published  BY <1>3, <2>1 DEF PerformRun
  <2>q. QED  BY <1>3, <2>1, <2>2, <2>3 DEF PerformRun
<1>4. CASE t \in Users /\ SetEnqueue(t)  BY <1>4 DEF SetEnqueue
<1>5. CASE t \in Users /\ SetInPlace(t)  BY <1>5 DEF SetInPlace
<1>6. CASE t = Hal /\ AbortConfigurationChange
  BY <1>6 DEF AbortConfigurationChange
<1>q. QED  BY <1>1, <1>2, <1>3, <1>4, <1>5, <1>6 DEF Run

-----------------------------------------------------------------------------
(* The queue, and what has been applied.                                   *)

(* A function that leaves the queue is the earliest there.                 *)
LEMMA HeadLeaves ==
  ASSUME IInv, queue # <<>>, queue' = Tail(queue), accepted' = accepted,
         dropped' \subseteq dropped \union {queue[1]}
  PROVE  /\ QueueInv'
         /\ queue[1] \in 1 .. Len(accepted) /\ queue[1] \notin dropped
         /\ \A k \in 1 .. Len(queue') : queue[1] < queue'[k]
         /\ \A j : (\E k \in 1 .. Len(queue) : queue[k] = j) =>
                     j = queue[1] \/ \E k \in 1 .. Len(queue') : queue'[k] = j
<1> USE DEF IInv, SetterTypeOK
<1>1. /\ Len(queue) \in Nat /\ Len(queue) >= 1 /\ Len(queue') = Len(queue) - 1
      /\ \A k \in 1 .. Len(queue') : queue'[k] = queue[k + 1]
  BY TailFacts
<1>2. \A k \in 1 .. Len(queue') : k + 1 \in 1 .. Len(queue) /\ 1 < k + 1  BY <1>1
<1>3. Len(accepted) \in Nat  OBVIOUS
<1>4. queue[1] \in 1 .. Len(accepted) /\ queue[1] \notin dropped  BY <1>1 DEF QueueInv
<1>5. \A k \in 1 .. Len(queue') : queue[1] < queue'[k]  BY <1>1, <1>2 DEF QueueInv
<1>6. \A k \in 1 .. Len(queue') :
        queue'[k] \in 1 .. Len(accepted) /\ queue'[k] \notin dropped /\ queue'[k] # queue[1]
  BY <1>1, <1>2, <1>4, <1>5 DEF QueueInv
<1>7. ASSUME NEW k \in 1 .. Len(queue'), NEW m \in 1 .. Len(queue'), k < m
      PROVE  queue'[k] < queue'[m]
  <2>1. k + 1 < m + 1  BY <1>1, <1>7
  <2>q. QED  BY <1>1, <1>2, <2>1 DEF QueueInv
<1>8. ASSUME NEW j, NEW k \in 1 .. Len(queue), queue[k] = j, j # queue[1]
      PROVE  \E n \in 1 .. Len(queue') : queue'[n] = j
  <2>1. k - 1 \in 1 .. Len(queue') /\ (k - 1) + 1 = k  BY <1>1, <1>8
  <2>q. QED  BY <1>1, <1>8, <2>1
<1>q. QED  BY <1>4, <1>5, <1>6, <1>7, <1>8 DEF QueueInv

(* One that is applied has the last word so far.                           *)
LEMMA StoreKeepsOrder ==
  ASSUME IInv, queue # <<>>, queue' = Tail(queue), accepted' = accepted, dropped' = dropped,
         value' = accepted[queue[1]]
  PROVE  QueueInv' /\ AppliedInv'
<1> USE DEF IInv, SetterTypeOK
<1>1. queue # <<>>  OBVIOUS
<1>2. /\ queue' = Tail(queue) /\ accepted' = accepted /\ dropped' = dropped
      /\ value' = accepted[queue[1]]
  OBVIOUS
<1>3. QueueInv'  BY <1>1, <1>2, HeadLeaves
<1>4. PICK i \in 1 .. Len(accepted) : Applied(i)  BY DEF AppliedInv
<1>5. i < queue[1]  BY <1>1, <1>4, TailFacts DEF Applied
<1>6. PICK h \in 1 .. Len(accepted) : h = queue[1]  BY <1>1, <1>2, HeadLeaves
<1>7. Applied(h)'
  <2>1. h \in Surviving' /\ value' = accepted'[h]
    BY <1>1, <1>2, <1>6, HeadLeaves DEF Surviving
  <2>2. ASSUME NEW j \in Surviving'
        PROVE  j <= h \/ \E k \in 1 .. Len(queue') : queue'[k] = j
    <3>1. j \in Surviving /\ j \in Nat /\ i \in Nat /\ h \in Nat
      BY <1>2 DEF Surviving
    <3>2. j <= i \/ \E k \in 1 .. Len(queue) : queue[k] = j  BY <1>4, <3>1 DEF Applied
    <3>3. CASE j <= i  BY <1>5, <1>6, <3>1, <3>3
    <3>4. CASE \E k \in 1 .. Len(queue) : queue[k] = j
      <4>1. j = queue[1] \/ \E k \in 1 .. Len(queue') : queue'[k] = j
        BY <1>1, <1>2, <3>4, HeadLeaves
      <4>q. QED  BY <1>6, <3>1, <4>1
    <3>q. QED  BY <3>2, <3>3, <3>4
  <2>3. \A k \in 1 .. Len(queue') : h < queue'[k]  BY <1>1, <1>2, <1>6, HeadLeaves
  <2>q. QED  BY <2>1, <2>2, <2>3 DEF Applied
<1>q. QED  BY <1>2, <1>3, <1>7 DEF AppliedInv

(* One that is dropped leaves the others, and the parameter, as they are.  *)
LEMMA DropKeepsOrder ==
  ASSUME IInv, queue # <<>>, queue' = Tail(queue), accepted' = accepted, value' = value,
         dropped' = dropped \union {queue[1]}
  PROVE  QueueInv' /\ AppliedInv'
<1> USE DEF IInv, SetterTypeOK
<1>1. /\ queue # <<>> /\ queue' = Tail(queue) /\ accepted' = accepted /\ value' = value
      /\ dropped' = dropped \union {queue[1]}
  BY TailFacts
<1>2. QueueInv'  BY <1>1, HeadLeaves
<1>3. PICK i \in 1 .. Len(accepted) : Applied(i)  BY DEF AppliedInv
<1>4. i < queue[1]  BY <1>1, <1>3, TailFacts DEF Applied
<1>5. queue[1] \in Nat /\ i \in Nat  BY <1>1, HeadLeaves
<1>6. i \in Surviving' /\ value' = accepted'[i]  BY <1>1, <1>3, <1>4, <1>5 DEF Applied, Surviving
<1>7. \A k \in 1 .. Len(queue') : i < queue'[k]
  <2>1. queue' \in Seq(Nat)  BY <1>1, TailFacts
  <2>2. \A k \in 1 .. Len(queue') : queue'[k] \in Nat /\ queue[1] < queue'[k]
    BY <1>1, <2>1, HeadLeaves
  <2>q. QED  BY <1>4, <1>5, <2>2
<1>8. \A j \in Surviving' : j <= i \/ \E k \in 1 .. Len(queue') : queue'[k] = j
  BY <1>1, <1>3, HeadLeaves DEF Applied, Surviving
<1>q. QED  BY <1>1, <1>2, <1>6, <1>7, <1>8 DEF Applied, AppliedInv

LEMMA RunKeepsOrder ==
  ASSUME IInv, NEW t \in Threads, Run(t)
  PROVE  QueueInv' /\ AppliedInv'
<1>1. queue # <<>>  BY DEF Run, DetachRun, PerformRun, IInv, DeviceInv, Goto
<1>2. /\ queue' = Tail(queue) /\ accepted' = accepted
      /\ Stores(queue[1]) \/ Fails(queue[1])
  BY <1>1, TailFacts DEF Run, DetachRun, PerformRun, RunFunction, SetImpl, IInv, SetterTypeOK
<1>q. QED  BY <1>1, <1>2, StoreKeepsOrder, DropKeepsOrder DEF Stores, Fails

LEMMA AbortKeepsOrder ==
  ASSUME IInv, AbortConfigurationChange
  PROVE  QueueInv' /\ AppliedInv'
  BY TailFacts, DropKeepsOrder DEF AbortConfigurationChange, IInv, SetterTypeOK

LEMMA AcceptFacts ==
  ASSUME IInv, NEW t \in Users, Accept(t), pc[t] = "requesting"
  PROVE  /\ accepted' \in Seq(Valid) /\ Len(accepted) \in Nat /\ Len(accepted') = Len(accepted) + 1
         /\ \A j \in 1 .. Len(accepted) : accepted'[j] = accepted[j]
         /\ accepted'[Len(accepted')] = argument[t]
         /\ argument[t] \in Valid /\ Len(accepted') \notin dropped
<1>1. argument[t] \in Valid /\ accepted \in Seq(Valid)
  BY DEF IInv, DeviceInv, SetterTypeOK, Threads
<1>2. dropped \subseteq 1 .. Len(accepted)  BY DEF IInv, SetterTypeOK
<1>q. QED  BY <1>1, <1>2, AppendFacts DEF Accept

LEMMA EnqueueKeepsOrder ==
  ASSUME IInv, NEW t \in Users, SetEnqueue(t)
  PROVE  QueueInv' /\ AppliedInv'
<1>1. /\ queue' = Append(queue, Len(accepted')) /\ value' = value
      /\ pc[t] = "requesting" /\ Accept(t)
  BY DEF SetEnqueue, Goto
<1>a. dropped' = dropped  BY DEF SetEnqueue
<1> DEFINE n == Len(accepted)
<1>2. /\ n \in Nat /\ Len(accepted') = n + 1 /\ dropped' = dropped
      /\ n + 1 \notin dropped /\ \A j \in 1 .. n : accepted'[j] = accepted[j]
  BY <1>1, <1>a, AcceptFacts
<1>3. /\ Len(queue) \in Nat /\ Len(queue') = Len(queue) + 1 /\ queue'[Len(queue')] = n + 1
      /\ \A k \in 1 .. Len(queue) : queue'[k] = queue[k]
  BY <1>1, <1>2, AppendFacts DEF IInv, SetterTypeOK
<1>4. \A k \in 1 .. Len(queue') : k = Len(queue') \/ k \in 1 .. Len(queue)  BY <1>3
<1> HIDE DEF n
<1>5. \A k \in 1 .. Len(queue) : queue[k] \in 1 .. n /\ queue[k] \notin dropped
  BY DEF IInv, QueueInv, n
<1>6. QueueInv'
  <2>1. \A k \in 1 .. Len(queue') : queue'[k] \in 1 .. Len(accepted') /\ queue'[k] \notin dropped'
    BY <1>2, <1>3, <1>4, <1>5 DEF n
  <2>2. ASSUME NEW k \in 1 .. Len(queue'), NEW m \in 1 .. Len(queue'), k < m
        PROVE  queue'[k] < queue'[m]
    <3>1. k \in 1 .. Len(queue) /\ queue'[k] = queue[k] /\ queue[k] \in 1 .. n
      BY <1>3, <1>5, <2>2
    <3>2. CASE m = Len(queue')  BY <1>2, <1>3, <3>1, <3>2
    <3>3. CASE m \in 1 .. Len(queue)  BY <1>3, <2>2, <3>1, <3>3 DEF IInv, QueueInv
    <3>q. QED  BY <1>4, <3>2, <3>3
  <2>q. QED  BY <2>1, <2>2 DEF QueueInv
<1>7. PICK i \in 1 .. n : Applied(i)  BY DEF IInv, AppliedInv, n
<1>8. i \in Surviving' /\ value' = accepted'[i]  BY <1>1, <1>2, <1>7 DEF Applied, Surviving, n
<1>9. \A k \in 1 .. Len(queue') : i < queue'[k]  BY <1>2, <1>3, <1>4, <1>7 DEF Applied
<1>10. ASSUME NEW j \in Surviving'  PROVE j <= i \/ \E k \in 1 .. Len(queue') : queue'[k] = j
  <2>1. j = n + 1 \/ j \in Surviving  BY <1>2 DEF Surviving, n
  <2>2. CASE j = n + 1  BY <1>3, <2>2
  <2>3. CASE j \in Surviving
    <3>1. CASE j <= i  BY <3>1
    <3>2. CASE \E k \in 1 .. Len(queue) : queue[k] = j
      <4>1. PICK k \in 1 .. Len(queue) : queue[k] = j  BY <3>2
      <4>2. k \in 1 .. Len(queue') /\ queue'[k] = j  BY <1>3, <4>1
      <4>q. QED  BY <4>2
    <3>q. QED  BY <1>7, <2>3, <3>1, <3>2 DEF Applied
  <2>q. QED  BY <2>1, <2>2, <2>3
<1>11. i \in 1 .. Len(accepted')  BY <1>2, <1>7
<1>q. QED  BY <1>6, <1>8, <1>9, <1>10, <1>11 DEF Applied, AppliedInv

(* In place, the queue is empty.                                           *)
LEMMA InPlaceKeepsOrder ==
  ASSUME IInv, NEW t \in Users, SetInPlace(t)
  PROVE  QueueInv' /\ AppliedInv'
<1> DEFINE n == Len(accepted)
<1>1. /\ queue' = queue /\ ~published /\ pc[t] = "requesting" /\ Accept(t)
      /\ Stores(Len(accepted')) \/ Fails(Len(accepted'))
  BY DEF SetInPlace, Goto, SetImpl
<1>2. queue = <<>>
  BY <1>1, SetterAssumption DEF IInv, DeviceInv, Threads
<1>3. Len(queue) = 0  BY <1>2
<1>4. QueueInv'  BY <1>1, <1>3 DEF QueueInv
<1>5. /\ n \in Nat /\ Len(accepted') = n + 1 /\ n + 1 \notin dropped
      /\ \A j \in 1 .. n : accepted'[j] = accepted[j]
  BY <1>1, AcceptFacts
<1> HIDE DEF n
<1>6. CASE Stores(Len(accepted'))
  <2>1. n + 1 \in Surviving' /\ value' = accepted'[n + 1]
    BY <1>5, <1>6 DEF Stores, Surviving
  <2>2. \A j \in Surviving' : j <= n + 1  BY <1>5 DEF Surviving
  <2>3. Applied(Len(accepted))'  BY <1>1, <1>3, <1>5, <2>1, <2>2 DEF Applied
  <2>q. QED  BY <1>4, <1>5, <2>3 DEF AppliedInv
<1>7. CASE Fails(Len(accepted'))
  <2>1. PICK i \in 1 .. n : Applied(i)  BY DEF IInv, AppliedInv, n
  <2>2. /\ i \in Surviving' /\ value' = accepted'[i]
        /\ \A j \in Surviving' : j \in Surviving
    BY <1>5, <1>7, <2>1 DEF Applied, Surviving, Fails, n
  <2>3. \A j \in Surviving' : j <= i  BY <1>3, <2>1, <2>2 DEF Applied
  <2>4. Applied(i)'  BY <1>1, <1>3, <2>2, <2>3 DEF Applied
  <2>q. QED  BY <1>4, <1>5, <2>1, <2>4 DEF AppliedInv
<1>q. QED  BY <1>1, <1>6, <1>7

-----------------------------------------------------------------------------
(* The invariant, and what follows from it.                                *)

LEMMA InitIInv ==
  ASSUME Init
  PROVE  IInv
<1> USE SetterAssumption DEF Init
<1>1. accepted = <<value>> /\ accepted \in Seq(Valid) /\ Len(accepted) = 1 /\ accepted[1] = value
  OBVIOUS
<1>2. queue \in Seq(Nat) /\ Len(queue) = 0  OBVIOUS
<1>3. SetterTypeOK  BY <1>1, <1>2 DEF SetterTypeOK, Threads
<1>4. DeviceInv  BY DEF DeviceInv, Threads
<1>5. QueueInv  BY <1>2 DEF QueueInv
<1>6. Applied(1)  BY <1>1, <1>2 DEF Applied, Surviving
<1>q. QED  BY <1>1, <1>3, <1>4, <1>5, <1>6 DEF IInv, AppliedInv

LEMMA AsideKeepsOrder ==
  ASSUME IInv, UNCHANGED <<value, queue, accepted, dropped>>
  PROVE  QueueInv' /\ AppliedInv'
<1>1. PICK i \in 1 .. Len(accepted) : Applied(i)  BY DEF IInv, AppliedInv
<1>2. Applied(i)'  BY <1>1 DEF Applied, Surviving
<1>q. QED  BY <1>1, <1>2 DEF IInv, QueueInv, AppliedInv

LEMMA NextIInv ==
  ASSUME IInv, [Next]_vars
  PROVE  IInv'
<1>1. CASE Next
  <2>1. PICK t \in Threads :
           \/ Aside(t) \/ Run(t)
           \/ t \in Users /\ (SetEnqueue(t) \/ SetInPlace(t))
           \/ t = Hal /\ AbortConfigurationChange
    BY <1>1, StepGroups
  <2>2. SetterTypeOK' /\ DeviceInv'  BY <2>1, ConfigurationTypes, DevicePreserved
  <2>3. QueueInv' /\ AppliedInv'
    BY <2>1, AsideKeeps, AsideKeepsOrder, RunKeepsOrder, EnqueueKeepsOrder, InPlaceKeepsOrder,
       AbortKeepsOrder
  <2>q. QED  BY <2>2, <2>3 DEF IInv
<1>2. CASE UNCHANGED vars
  <2>1. SetterTypeOK' /\ DeviceInv'
    BY <1>2 DEF IInv, vars, history, locks, SetterTypeOK, DeviceInv
  <2>2. QueueInv' /\ AppliedInv'  BY <1>2, AsideKeepsOrder DEF vars, history
  <2>q. QED  BY <2>1, <2>2 DEF IInv
<1>q. QED  BY <1>1, <1>2

(* The inductive invariant: the queue holds functions in the order of their*)
(* acceptance, and the parameter has the argument of the one before them.  *)
THEOREM Invariance == Spec => []IInv
<1>q. QED  BY InitIInv, NextIInv, PTL DEF Spec

(* When no function is left, the parameter has the argument of the last    *)
(* function that was neither aborted nor refused by Set...Impl, whether it *)
(* was run by the HAL, in place or by RemoveDevice                         *)
(* (src/Device.cpp:1589-1725); and it only ever has values that Check...   *)
(* accepts.                                                                *)
THEOREM LastAcceptedAlwaysWins == Spec => []LastAcceptedWins
<1>1. ASSUME IInv  PROVE LastAcceptedWins
  <2> USE <1>1 DEF IInv
  <2>1. PICK i \in 1 .. Len(accepted) : Applied(i)  BY DEF AppliedInv
  <2>2. value \in Valid  BY <2>1 DEF Applied, SetterTypeOK
  <2>3. ASSUME queue = <<>>  PROVE \A j \in Surviving : j <= i
    <3>1. Len(queue) = 0  BY <2>3
    <3>q. QED  BY <2>1, <3>1 DEF Applied
  <2>q. QED  BY <2>1, <2>2, <2>3 DEF Applied, LastAcceptedWins
<1>q. QED  BY Invariance, <1>1, PTL
=============================================================================
