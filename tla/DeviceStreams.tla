---------------------------- MODULE DeviceStreams ----------------------------
(***************************************************************************)
(* Streams and controls of aspl::Device (src/Device.cpp) and the objects   *)
(* that it owns (src/Object.cpp).                                          *)
(*                                                                         *)
(* Adding and removing have two halves.  The lists of the device change at *)
(* once; the counters of streams and the owned objects, which is what the  *)
(* HAL sees, change in a function given to RequestConfigurationChange,     *)
(* which runs it in place if the device is not published.  The requests    *)
(* are kept in the order in which DeviceConfig shows them to run.          *)
(*                                                                         *)
(* Every operation has the device's writeMutex_ from its first step to its *)
(* last; I/O and getters read each variable without it, between any two    *)
(* steps.  Definitions named Bug... are faulty variants of the definition  *)
(* that follows them, kept to show that the properties can fail.           *)
(***************************************************************************)
EXTENDS Integers, Sequences, SequencesExt, FiniteSets, FiniteSetsExt

CONSTANTS
  Users,             \* threads of the plugin
  Hal,               \* the thread on which the HAL changes configurations
  Streams, Controls,
  Scope,             \* [Streams -> Scopes]: input or output
  Bundle,            \* [Streams -> Seq(object)]: a stream and, if it is added
                     \* by AddStreamWithControlsAsync, its two controls, which
                     \* are made for it
  Mixing,            \* DeviceParameters::EnableMixing
  CounterSize,       \* a UInt32 counts modulo this; each object has an ID, which
                     \* is a UInt32, so that there are fewer streams
  MaxWidth,          \* bound: channels of a stream
  MaxCalls,          \* bound: calls that add or remove streams and controls
  MaxMoves,          \* bound: calls that publish or unpublish the device
  MaxAborts          \* bound: changes aborted by the HAL

Threads == Users \union {Hal}
Objects == Streams \union Controls
Scopes  == {"input", "output"}

ASSUME StreamsAssumption ==
  /\ Hal \notin Users /\ Streams \intersect Controls = {}
  /\ IsFiniteSet(Streams)
  /\ Scope \in [Streams -> Scopes]
  /\ Mixing \in BOOLEAN
  /\ CounterSize \in Nat /\ Cardinality(Streams) < CounterSize
  /\ {MaxWidth, MaxCalls, MaxMoves, MaxAborts} \subseteq Nat
  /\ \A s \in Streams :
       /\ Bundle[s] \in Seq(Objects) /\ Bundle[s] # <<>> /\ Bundle[s][1] = s
       /\ \A i \in 2 .. Len(Bundle[s]) : Bundle[s][i] \in Controls
  /\ \A s, u \in Streams : \A i \in DOMAIN Bundle[s], j \in DOMAIN Bundle[u] :
       Bundle[s][i] = Bundle[u][j] => s = u /\ i = j

VARIABLES
  listed,      \* streams_, volumeControls_, muteControls_
  byID,        \* streamByID_, volumeControlByID_, muteControlByID_
  owned,       \* ownedObjects_ of the device, and the owner of each object
  numStreams,  \* numInputStreams_, numOutputStreams_
  published,   \* the host is known and the device has an owner
  pending,     \* pendingConfigurationRequests_ in the order of their reqIDs
  made,        \* objects that have been constructed
  first,       \* GetStartingChannel() of each stream
  width,       \* GetChannelCount() of each stream
  attached,    \* streams that volume and mute controls are attached to
  call,        \* what each thread is doing
  used,        \* calls, moves and aborts so far
  asked,       \* history: objects that finished calls have left in the device
  again,       \* history: objects that were added more than once
  aborted      \* history: objects of which a change was aborted

lists == <<listed, byID>>
hal == <<owned, numStreams>>
streams == <<made, first, width, attached>>
history == <<asked, again, aborted>>
vars == <<lists, hal, published, pending, streams, call, used, history>>

Change(what, o) == [what |-> what, object |-> o]
Adding(o) == Change("add", o)
Removing(o) == Change("remove", o)
Changes == [what : {"add", "remove"}, object : Objects]

(* A call: op, what it does in turn, which of these is next, and the step. *)
Idle == [op |-> "idle", todo |-> <<>>, next |-> 1, at |-> "idle"]

Init ==
  /\ listed = {} /\ byID = {} /\ owned = {}
  /\ numStreams = [sc \in Scopes |-> 0]
  /\ published = FALSE
  /\ pending = <<>>
  /\ made = Controls \ UNION {ToSet(Bundle[s]) : s \in Streams}
  /\ first = [s \in Streams |-> 0] /\ width = [s \in Streams |-> 0]
  /\ attached = {}
  /\ call = [t \in Threads |-> Idle]
  /\ used = [calls |-> 0, moves |-> 0, aborts |-> 0]
  /\ asked = {} /\ again = {} /\ aborted = {}

-----------------------------------------------------------------------------
BugCanLock(t) ==
  \A u \in Threads \ {t} : call[u].op = "idle" \/ (call[u].op = "create" /\ call[u].at = "list")
CanLock(t) == \A u \in Threads \ {t} : call[u].op = "idle"

Begin(t, op, todo, at) ==
  /\ call[t].op = "idle"
  /\ CanLock(t)
  /\ call' = [call EXCEPT ![t] = [op |-> op, todo |-> todo, next |-> 1, at |-> at]]

Doing(t) == call[t].todo[call[t].next]
Finished(t) == call[t].next > Len(call[t].todo)
Goto(t, at) == call' = [call EXCEPT ![t].at = at]
At(t, at) == ~Finished(t) /\ call[t].at = at

(* The functions of other threads' requests are run from their counters on.*)
FirstStep(op) == IF op \in {"perform", "unpublish"} THEN "count" ELSE "list"

(* On to the next object of the call.                                      *)
Advance(t) ==
  call' = [call EXCEPT ![t].next = @ + 1, ![t].at = FirstStep(call[t].op)]

Affects(t, o) == \E i \in DOMAIN call[t].todo : call[t].todo[i].object = o
Untouched(o) == \A t \in Threads : ~Affects(t, o)

Use(what, bound) == used[what] < bound /\ used' = [used EXCEPT ![what] = @ + 1]

-----------------------------------------------------------------------------
(* Device::AddStream..., Add...Control... and Remove...Async.              *)

(* AddStreamAsync or AddStreamWithControlsAsync of a direction.            *)
UserCreates(t, s) ==
  /\ s \notin made
  /\ Use("calls", MaxCalls)
  /\ Begin(t, "create", [i \in DOMAIN Bundle[s] |-> Adding(Bundle[s][i])], "make")
  /\ UNCHANGED <<lists, hal, published, pending, streams, history>>

(* Add...Async of an object that was constructed or removed before; nobody *)
(* adds what is there, and an object is not in two calls at once.          *)
UserAdds(t, o) ==
  /\ o \in made \ asked /\ Untouched(o)
  /\ Use("calls", MaxCalls)
  /\ Begin(t, "add", <<Adding(o)>>, "list")
  /\ again' = again \union {o}
  /\ UNCHANGED <<lists, hal, published, pending, streams, asked, aborted>>

UserRemoves(t, o) ==
  /\ o \in asked /\ Untouched(o)
  /\ Use("calls", MaxCalls)
  /\ Begin(t, "remove", <<Removing(o)>>, "list")
  /\ UNCHANGED <<lists, hal, published, pending, streams, history>>

BugStartingChannel(sc) ==
  Max({1} \union {first[s] + width[s] : s \in {u \in Streams \intersect owned : Scope[u] = sc}})
(* One more than the last channel of the streams in the list.              *)
StartingChannel(sc) ==
  Max({1} \union {first[s] + width[s] : s \in {u \in Streams \intersect listed : Scope[u] = sc}})

(* The stream is constructed with the preferred number of channels of the  *)
(* moment, which others may change.                                        *)
Make(t) ==
  LET s == Doing(t).object IN
  /\ At(t, "make")
  /\ made' = made \union ToSet(Bundle[s])
  /\ first' = [first EXCEPT ![s] = StartingChannel(Scope[s])]
  /\ \E w \in 1 .. MaxWidth : width' = [width EXCEPT ![s] = w]
  /\ Goto(t, "list")
  /\ UNCHANGED <<lists, hal, published, pending, attached, used, history>>

After(change, set) ==
  IF change.what = "add" THEN set \union {change.object} ELSE set \ {change.object}

List(t) ==
  /\ At(t, "list")
  /\ listed' = After(Doing(t), listed)
  /\ Goto(t, "byID")
  /\ UNCHANGED <<byID, hal, published, pending, streams, used, history>>

ListByID(t) ==
  /\ At(t, "byID")
  /\ byID' = After(Doing(t), byID)
  /\ Goto(t, "request")
  /\ UNCHANGED <<listed, hal, published, pending, streams, used, history>>

(* RequestConfigurationChange.                                             *)
BugRequestLater(t) ==
  /\ At(t, "request") /\ published
  /\ pending' = <<Doing(t)>> \o pending
  /\ Advance(t)
  /\ UNCHANGED <<lists, hal, published, streams, used, history>>
RequestLater(t) ==
  /\ At(t, "request") /\ published
  /\ pending' = Append(pending, Doing(t))
  /\ Advance(t)
  /\ UNCHANGED <<lists, hal, published, streams, used, history>>

RequestInPlace(t) ==
  /\ At(t, "request") /\ ~published
  /\ Goto(t, "count")
  /\ UNCHANGED <<lists, hal, published, pending, streams, used, history>>

-----------------------------------------------------------------------------
(* The function of a request: the counter, then the owned objects.         *)

BugCounted(change) ==
  [sc \in Scopes |->
     IF change.object \in Streams /\ change.what = "add" /\ Scope[change.object] = sc
     THEN (numStreams[sc] + 1) % CounterSize ELSE numStreams[sc]]
Counted(change) ==
  LET step == IF change.what = "add" THEN 1 ELSE CounterSize - 1 IN
  [sc \in Scopes |->
     IF change.object \in Streams /\ Scope[change.object] = sc
     THEN (numStreams[sc] + step) % CounterSize ELSE numStreams[sc]]

Count(t) ==
  /\ At(t, "count")
  /\ numStreams' = Counted(Doing(t))
  /\ Goto(t, "own")
  /\ UNCHANGED <<lists, owned, published, pending, streams, used, history>>

(* Object::AttachOwner asks a previous owner to let the object go.  If that*)
(* is the device itself, which is in AddOwnedObject, the thread waits for a*)
(* mutex that it has: for ever.                                            *)
WaitsForItself(t) ==
  At(t, "own") /\ Doing(t).what = "add" /\ Doing(t).object \in owned

(* Object::AddOwnedObject or RemoveOwnedObject.                            *)
Own(t) ==
  /\ At(t, "own")
  /\ ~WaitsForItself(t)
  /\ owned' = After(Doing(t), owned)
  /\ Advance(t)
  /\ UNCHANGED <<lists, numStreams, published, pending, streams, used, history>>

(* AddStreamWithControlsAsync attaches the controls, and the call returns. *)
Return(t) ==
  LET todo == call[t].todo
      mine == {todo[i].object : i \in DOMAIN todo}
  IN
  /\ call[t].op # "idle" /\ Finished(t)
  /\ call' = [call EXCEPT ![t] = Idle]
  /\ attached' = attached \union (IF call[t].op = "create" /\ Len(todo) > 1 THEN {todo[1].object} ELSE {})
  /\ asked' = CASE call[t].op \in {"create", "add"} -> asked \union mine
               [] call[t].op = "remove" -> asked \ mine
               [] OTHER -> asked
  /\ UNCHANGED <<lists, hal, published, pending, made, first, width, used, again, aborted>>

-----------------------------------------------------------------------------
(* The HAL's answers, and Device::RequestOwnershipChange.                  *)

HalPerforms ==
  /\ pending # <<>>
  /\ Begin(Hal, "perform", <<Head(pending)>>, "count")
  /\ pending' = Tail(pending)
  /\ UNCHANGED <<lists, hal, published, streams, used, history>>

HalAborts ==
  /\ pending # <<>>
  /\ call[Hal].op = "idle" /\ CanLock(Hal)
  /\ Use("aborts", MaxAborts)
  /\ pending' = Tail(pending)
  /\ aborted' = aborted \union {Head(pending).object}
  /\ UNCHANGED <<lists, hal, published, streams, call, asked, again>>

UserPublishes(t) ==
  /\ ~published /\ published' = TRUE
  /\ call[t].op = "idle" /\ CanLock(t)
  /\ Use("moves", MaxMoves)
  /\ UNCHANGED <<lists, hal, pending, streams, call, history>>

BugUserUnpublishes(t) ==
  /\ published /\ published' = FALSE
  /\ Use("moves", MaxMoves)
  /\ Begin(t, "unpublish", <<>>, "count")
  /\ pending' = <<>>
  /\ UNCHANGED <<lists, hal, streams, history>>
(* What is pending is run now.                                             *)
UserUnpublishes(t) ==
  /\ published /\ published' = FALSE
  /\ Use("moves", MaxMoves)
  /\ Begin(t, "unpublish", pending, "count")
  /\ pending' = <<>>
  /\ UNCHANGED <<lists, hal, streams, history>>

-----------------------------------------------------------------------------
Step(t) ==
  \/ Make(t) \/ List(t) \/ ListByID(t) \/ RequestLater(t) \/ RequestInPlace(t)
  \/ Count(t) \/ Own(t) \/ Return(t)

Next ==
  \/ \E t \in Threads : Step(t)
  \/ \E t \in Users :
       \/ UserPublishes(t) \/ UserUnpublishes(t)
       \/ \E s \in Streams : UserCreates(t, s)
       \/ \E o \in Objects : UserAdds(t, o) \/ UserRemoves(t, o)
  \/ HalPerforms \/ HalAborts

Spec == Init /\ [][Next]_vars

(* Threads go on and the HAL answers; calls are finitely many.             *)
FairSpec ==
  /\ Spec
  /\ \A t \in Threads : WF_vars(Step(t))
  /\ WF_vars(HalPerforms \/ HalAborts)

-----------------------------------------------------------------------------
(* What the realtime thread reads.                                         *)

BugWillDo(op) ==
  CASE op \in {"ReadInput", "ProcessInput"} -> numStreams["input"] > 0
    [] op \in {"MixOutput", "ProcessMix"} -> numStreams["output"] > 0 /\ ~Mixing
    [] op = "WriteMix" -> numStreams["output"] > 0 /\ Mixing
(* Device::WillDoIOOperationImpl.                                          *)
WillDo(op) ==
  CASE op \in {"ReadInput", "ProcessInput"} -> numStreams["input"] > 0
    [] op = "MixOutput" -> numStreams["output"] > 0 /\ ~Mixing
    [] op \in {"ProcessMix", "WriteMix"} -> numStreams["output"] > 0 /\ Mixing

(* Device::DoIOOperationImpl finds the stream.                             *)
DoFinds(s) == s \in byID

-----------------------------------------------------------------------------
AtRest == \A t \in Threads : call[t].op = "idle"

(* Whether an object will be owned when the first n changes of a queue have*)
(* run, if those in `owners` are owned now.                                *)
HeldAfter(queue, n, o, owners) ==
  \/ \E i \in 1 .. n : queue[i] = Adding(o) /\ \A j \in i + 1 .. n : queue[j].object # o
  \/ o \in owners /\ \A i \in 1 .. n : queue[i].object # o

(* "GetOwnedObjectIDs() ... some time later": what is owned will be what is*)
(* listed when the pending changes have run, unless one was aborted.       *)
Outcome(o) == HeldAfter(pending, Len(pending), o, owned)
OwnedFollowsListed ==
  AtRest => \A o \in Objects \ aborted : Outcome(o) = (o \in listed)

(* The counters are those of the owned streams, unless a change of such a  *)
(* stream was aborted: WillDoIOOperation decides by them.                  *)
CountersMatch ==
  AtRest => \A sc \in Scopes :
    LET mine == {s \in Streams : Scope[s] = sc}
    IN  mine \intersect aborted = {} =>
          numStreams[sc] = Cardinality(mine \intersect owned) % CounterSize

(* A stream that the HAL sees, and that nobody removes, can be used at any *)
(* moment: it is found, and the operations of its direction are done.      *)
BeingRemoved(o) ==
  \E t \in Threads : \E i \in DOMAIN call[t].todo : call[t].todo[i] = Removing(o)
Operations(sc) ==
  CASE sc = "input" -> {"ReadInput", "ProcessInput"}
    [] sc = "output" -> IF Mixing THEN {"ProcessMix", "WriteMix"} ELSE {"MixOutput"}
PublishedStreamWorks ==
  \A s \in Streams \intersect owned \intersect asked :
    (published /\ \A u \in Streams : Scope[u] = Scope[s] => ~BeingRemoved(u) /\ u \notin aborted)
    => DoFinds(s) /\ \A op \in Operations(Scope[s]) : WillDo(op)

(* The HAL never sees a stream of AddStreamWithControlsAsync before its    *)
(* volume and mute controls are attached.                                  *)
ControlsAttached ==
  published => \A s \in Streams \intersect owned : Len(Bundle[s]) > 1 => s \in attached

(* Streams added by direction share no channel with each other, although   *)
(* others were removed or wait for the HAL.                                *)
ChannelsDisjoint ==
  \A s, u \in (Streams \intersect listed) \ again :
    Scope[s] = Scope[u] /\ s # u =>
      \/ first[s] + width[s] <= first[u]
      \/ first[u] + width[u] <= first[s]

(* What is added to a published device is owned some time later.           *)
AddedIsPublished ==
  \A o \in Objects :
    (o \in asked) ~> (o \in owned \/ o \notin asked \/ aborted # {})

(* "makes decision based on whether the device has input and output        *)
(* streams" (Device.hpp:860).                                              *)
WillDoMatchesStreams ==
  AtRest /\ pending = <<>> =>
    /\ WillDo("ReadInput") = (\E s \in Streams \intersect owned : Scope[s] = "input")
    /\ (WillDo("MixOutput") \/ WillDo("WriteMix")) = (\E s \in Streams \intersect owned : Scope[s] = "output")

-----------------------------------------------------------------------------
(* The inductive invariant of DeviceStreamsProofs.                         *)
Steps == {"idle", "make", "list", "byID", "request", "count", "own"}
UserOps == {"create", "add", "remove"}
HalOps == {"perform", "unpublish"}
Calls == [op : {"idle"} \union UserOps \union HalOps, todo : Seq(Changes),
          next : Nat \ {0}, at : Steps]

StateInv ==
  /\ {listed, byID, owned, made, asked, again, aborted} \subseteq SUBSET Objects
  /\ attached \subseteq Streams /\ published \in BOOLEAN
  /\ pending \in Seq(Changes) /\ (~published => pending = <<>>)
  /\ numStreams \in [Scopes -> Int]
  /\ first \in [Streams -> Nat] /\ width \in [Streams -> Nat]
  /\ call \in [Threads -> Calls]

(* One thread has the mutex, and it is where its call may be.              *)
FirstSteps(op) == IF op = "create" THEN {"make"} ELSE {}
CallInv ==
  /\ \A t, u \in Threads : call[t].op # "idle" /\ call[u].op # "idle" => t = u
  /\ \A t \in Threads :
       /\ call[t].op = "idle" => call[t] = Idle
       /\ call[t].next <= Len(call[t].todo) + 1
       /\ call[t].op \in HalOps => call[t].at \in {"count", "own"}
       /\ call[t].op = "perform" => t = Hal
       /\ call[t].op \in UserOps =>
            /\ call[t].at \in {"list", "byID", "request", "count", "own"} \union FirstSteps(call[t].op)
            /\ call[t].at = "make" => call[t].next = 1
            /\ call[t].at \in {"count", "own"} => ~published
            /\ Finished(t) => call[t].at = "list"
       /\ call[t].op = "create" =>
            \E s \in Streams : /\ Len(call[t].todo) = Len(Bundle[s])
                               /\ \A i \in DOMAIN Bundle[s] : call[t].todo[i] = Adding(Bundle[s][i])
       /\ call[t].op = "add" => \E o \in Objects : call[t].todo = <<Adding(o)>>
       /\ call[t].op = "remove" => \E o \in Objects : call[t].todo = <<Removing(o)>>

(* Lists and maps have what finished calls have left, and of a call on its *)
(* way what it is past.                                                    *)
Past(t, i, steps) == i < call[t].next \/ (i = call[t].next /\ call[t].at \in steps)
Listed == {"byID", "request", "count", "own"}
ListsInv ==
  /\ \A o \in Objects :
       (\A t \in Threads : call[t].op \in UserOps => ~Affects(t, o)) =>
         (o \in listed <=> o \in asked) /\ (o \in byID <=> o \in asked)
  /\ \A t \in Threads : call[t].op \in UserOps => \A i \in DOMAIN call[t].todo :
       LET change == call[t].todo[i]
           o      == change.object
       IN  /\ o \in asked <=> change.what = "remove"
           /\ o \in listed <=> (Past(t, i, Listed) <=> change.what = "add")
           /\ o \in byID <=> (Past(t, i, Listed \ {"byID"}) <=> change.what = "add")

(* A queue of changes fits the owned objects if each change of an object   *)
(* makes a difference and the last one leaves it as it is listed; objects  *)
(* of which a change was aborted are left out.                             *)
Fits(queue, owners, list, without) ==
  \A o \in Objects \ without :
    /\ o \in list <=> HeldAfter(queue, Len(queue), o, owners)
    /\ \A i \in 1 .. Len(queue) :
         queue[i].object = o =>
           (queue[i].what = "remove" <=> HeldAfter(queue, i - 1, o, owners))

(* The changes that are still to run, with that of a call on its way.      *)
Due(t) ==
  CASE call[t].op \in UserOps /\ ~Finished(t) /\ call[t].at \in Listed -> Append(pending, Doing(t))
    [] call[t].op \in HalOps -> SubSeq(call[t].todo, call[t].next, Len(call[t].todo)) \o pending
    [] OTHER -> pending
DueInv == \A t \in Threads : CanLock(t) => Fits(Due(t), owned, listed, aborted)

(* Objects are made before they are asked for.                             *)
MadeInv ==
  /\ listed \union owned \union asked \subseteq made
  /\ \A i \in DOMAIN pending : pending[i].object \in made
  /\ \A t \in Threads : \A i \in DOMAIN call[t].todo :
       call[t].todo[i].object \in made <=> call[t].at # "make"
  /\ \A s \in Streams : \A i \in DOMAIN Bundle[s] : Bundle[s][i] \in made <=> s \in made

AttachInv ==
  /\ \A s \in Streams \intersect made : Len(Bundle[s]) > 1 =>
       s \in attached \/ \E t \in Threads : call[t].op = "create" /\ call[t].todo[1].object = s
  /\ published => \A t \in Threads : call[t].op = "create" =>
       \A i \in DOMAIN call[t].todo : call[t].todo[i].object \notin owned

(* The counters are ahead of the owned objects by the step of a function.  *)
StreamsOf(sc) == {s \in Streams : Scope[s] = sc}
Owning(t) == IF At(t, "own") THEN After(Doing(t), owned) ELSE owned
CountInv ==
  \A t \in Threads : CanLock(t) =>
    \A sc \in Scopes : StreamsOf(sc) \intersect aborted = {} =>
      numStreams[sc] = Cardinality(StreamsOf(sc) \intersect Owning(t))

(* A stream that is about to be listed is beyond those that are, unless it *)
(* was there before.                                                       *)
ChannelInv ==
  /\ ChannelsDisjoint
  /\ \A t \in Threads : call[t].op = "add" =>
       \A i \in DOMAIN call[t].todo : call[t].todo[i].object \in again
  /\ \A t \in Threads : call[t].op = "create" /\ call[t].next = 1 /\ call[t].at = "list" =>
       LET s == Doing(t).object IN
       \A u \in Streams \intersect listed : Scope[u] = Scope[s] => first[u] + width[u] <= first[s]

IInv ==
  /\ StateInv /\ CallInv /\ ListsInv /\ DueInv /\ MadeInv /\ AttachInv /\ CountInv
  /\ ChannelInv
=============================================================================
