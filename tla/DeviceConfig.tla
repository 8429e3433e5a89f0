---------------------------- MODULE DeviceConfig ----------------------------
(***************************************************************************)
(* Configuration changes of aspl::Device (src/Device.cpp) and the adding   *)
(* and removing of devices by aspl::Plugin (src/Plugin.cpp).               *)
(*                                                                         *)
(* A change is a function.  RequestConfigurationChange runs it in place if *)
(* the HAL cannot be using the device, and else stores it and asks the HAL,*)
(* which calls PerformConfigurationChange or AbortConfigurationChange      *)
(* later.  RemoveDevice runs what is still stored.  Functions may call the *)
(* device and the plugin again: both writeMutex_ are recursive, so a thread*)
(* is a stack of calls, and holds the mutexes that its calls hold.         *)
(*                                                                         *)
(* Definitions named Bug... are faulty variants of the definition that     *)
(* follows them, kept to show that the properties can fail.                *)
(***************************************************************************)
EXTENDS Integers, Sequences, SequencesExt, FiniteSets

CONSTANTS
  Users,             \* threads of the plugin
  Hal,               \* the thread on which the HAL changes configurations
  Devices,
  Changes,           \* the functions, each requested by one call
  Target,            \* [Changes -> Devices]: the device it is requested of
  Body,              \* [Changes -> Seq(call)]: what the function calls
  Nested,            \* changes that are requested by functions only
  NoChange,
  MaxMoves           \* bound: calls of AddDevice and RemoveDevice by Users

Threads == Users \union {Hal}

(* A call: op, its device and change, and where it is.  id is a reqID of   *)
(* perform and remove, and the next call of a function; hosted is what     *)
(* request has read from Context::Host.                                    *)
Call(op, d, c) ==
  [op |-> op, device |-> d, change |-> c, at |-> "enter", id |-> 0, hosted |-> FALSE]

RequestCall(c)     == Call("request", Target[c], c)
AddCall(d)         == Call("add", d, NoChange)
RemoveCall(d)      == Call("remove", d, NoChange)

(* What a function can call.                                               *)
Calls == {RequestCall(c) : c \in Changes} \union {AddCall(d) : d \in Devices}
           \union {RemoveCall(d) : d \in Devices}

ASSUME ConfigAssumption ==
  /\ Hal \notin Users /\ NoChange \notin Changes /\ Nested \subseteq Changes
  /\ Target \in [Changes -> Devices]
  /\ \A c \in Changes : Body[c] \in Seq(Calls)
  /\ MaxMoves \in Nat

VARIABLES
  host,      \* Context::Host is not null
  listed,    \* devices_, deviceByID_ and deviceByUID_ of the plugin
  owned,     \* devices with HasOwner()
  pending,   \* pendingConfigurationRequests_, per device: reqID -> change
  nextID,    \* lastConfigurationRequestID_, per device
  inside,    \* insideConfigurationHandler_, per device
  queue,     \* requests that the HAL has been given and not answered yet
  stack,     \* the calls each thread is in, the innermost first
  moves,     \* calls of AddDevice and RemoveDevice so far
  asked,     \* history: the changes requested, in the order of writeMutex_
  applied,   \* history: the functions that ran, in the order they began
  aborted    \* history: the changes the HAL aborted or forgot

history == <<asked, applied, aborted>>
device  == <<pending, nextID, inside>>
vars == <<host, listed, owned, device, queue, stack, moves, history>>

PerformCall(d, id) == [Call("perform", d, NoChange) EXCEPT !.id = id]
FunctionCall(c)    == [Call("run", Target[c], c) EXCEPT !.id = 1]

Init ==
  /\ host \in BOOLEAN
  /\ listed = {} /\ owned = {}
  /\ pending = [d \in Devices |-> <<>>]
  /\ nextID = [d \in Devices |-> 0]
  /\ inside = [d \in Devices |-> 0]
  /\ queue = [d \in Devices |-> <<>>]
  /\ stack = [t \in Threads |-> <<>>]
  /\ moves = 0
  /\ asked = <<>> /\ applied = <<>> /\ aborted = {}

-----------------------------------------------------------------------------
(* Threads, calls and mutexes.                                             *)

Idle(t) == stack[t] = <<>>
Top(t) == Head(stack[t])
At(t, op, at) == ~Idle(t) /\ Top(t).op = op /\ Top(t).at = at

Begin(t, call) == Idle(t) /\ stack' = [stack EXCEPT ![t] = <<call>>]
Return(t) == stack' = [stack EXCEPT ![t] = Tail(@)]
Goto(t, frame) == stack' = [stack EXCEPT ![t] = <<frame>> \o Tail(@)]
GotoAndCall(t, frame, call) ==
  stack' = [stack EXCEPT ![t] = <<call, frame>> \o Tail(@)]

HoldsDevice(t, d) ==
  \E i \in DOMAIN stack[t] :
    LET f == stack[t][i] IN
    /\ f.device = d
    /\ \/ f.op \in {"request", "perform"} /\ f.at # "enter"
       \/ f.op = "remove" /\ f.at \in {"flush", "flushing"}

HoldsPlugin(t) ==
  \E i \in DOMAIN stack[t] :
    stack[t][i].op \in {"add", "remove"} /\ stack[t][i].at # "enter"

CanLockDevice(t, d) == \A u \in Threads \ {t} : ~HoldsDevice(u, d)
CanLockPlugin(t)    == \A u \in Threads \ {t} : ~HoldsPlugin(u)

(* Function c begins to run, on top of the calls that thread t is in.      *)
Runs(c) == applied' = Append(applied, c)

(* The function makes its next call, or returns.                           *)
RunStep(t) ==
  /\ At(t, "run", "enter")
  /\ LET f == Top(t) IN
     IF f.id <= Len(Body[f.change])
     THEN GotoAndCall(t, [f EXCEPT !.id = @ + 1], Body[f.change][f.id])
     ELSE Return(t)
  /\ UNCHANGED <<host, listed, owned, device, queue, moves, history>>

-----------------------------------------------------------------------------
(* Device::RequestConfigurationChange.                                     *)

(* writeMutex_ is locked and Context::Host loaded.                         *)
RequestEnter(t) ==
  /\ At(t, "request", "enter")
  /\ CanLockDevice(t, Top(t).device)
  /\ Goto(t, [Top(t) EXCEPT !.at = "decide", !.hosted = host])
  /\ asked' = Append(asked, Top(t).change)
  /\ UNCHANGED <<host, listed, owned, device, queue, moves, applied, aborted>>

BugMustEnqueue(f) == f.hosted /\ f.device \in listed /\ inside[f.device] = 0
MustEnqueue(f) == f.hosted /\ f.device \in owned /\ inside[f.device] = 0

BugRequestEnqueue(t) ==
  LET d == Top(t).device IN
  /\ At(t, "request", "decide")
  /\ MustEnqueue(Top(t))
  /\ pending' = [pending EXCEPT ![d] =
       [id \in DOMAIN @ \union {nextID[d]} |->
          IF id = nextID[d] THEN Top(t).change ELSE @[id]]]
  /\ nextID' = [nextID EXCEPT ![d] = @ + 1]
  /\ Return(t)
  /\ UNCHANGED <<host, listed, owned, inside, queue, moves, history>>
(* The function is stored and the HAL asked for a time to run it.          *)
RequestEnqueue(t) ==
  LET d == Top(t).device IN
  /\ At(t, "request", "decide")
  /\ MustEnqueue(Top(t))
  /\ pending' = [pending EXCEPT ![d] =
       [id \in DOMAIN @ \union {nextID[d]} |->
          IF id = nextID[d] THEN Top(t).change ELSE @[id]]]
  /\ nextID' = [nextID EXCEPT ![d] = @ + 1]
  /\ queue' = [queue EXCEPT ![d] = Append(@, nextID[d])]
  /\ Return(t)
  /\ UNCHANGED <<host, listed, owned, inside, moves, history>>

RequestInPlace(t) ==
  /\ At(t, "request", "decide")
  /\ ~MustEnqueue(Top(t))
  /\ GotoAndCall(t, [Top(t) EXCEPT !.at = "return"], FunctionCall(Top(t).change))
  /\ Runs(Top(t).change)
  /\ UNCHANGED <<host, listed, owned, device, queue, moves, asked, aborted>>

RequestReturn(t) ==
  /\ At(t, "request", "return")
  /\ Return(t)
  /\ UNCHANGED <<host, listed, owned, device, queue, moves, history>>

-----------------------------------------------------------------------------
(* Device::PerformConfigurationChange and AbortConfigurationChange.        *)

Stored(d, id) == id \in DOMAIN pending[d]
Erase(d, id) ==
  pending' = [pending EXCEPT ![d] = [i \in DOMAIN @ \ {id} |-> @[i]]]

(* The function is copied out of the map and run, if it is still there.    *)
PerformEnter(t) ==
  LET f == Top(t)
      d == f.device
      done == [f EXCEPT !.at = "return"]
  IN
  /\ At(t, "perform", "enter")
  /\ CanLockDevice(t, d)
  /\ inside' = [inside EXCEPT ![d] = @ + 1]
  /\ IF Stored(d, f.id)
     THEN /\ GotoAndCall(t, done, FunctionCall(pending[d][f.id]))
          /\ Runs(pending[d][f.id])
     ELSE Goto(t, done) /\ UNCHANGED applied
  /\ UNCHANGED <<host, listed, owned, pending, nextID, queue, moves, asked, aborted>>

PerformReturn(t) ==
  /\ At(t, "perform", "return")
  /\ Erase(Top(t).device, Top(t).id)
  /\ inside' = [inside EXCEPT ![Top(t).device] = @ - 1]
  /\ Return(t)
  /\ UNCHANGED <<host, listed, owned, nextID, queue, moves, history>>

(* A change that is not in the map any more has run, or was aborted.       *)
AbortConfigurationChange(t, d, id) ==
  /\ CanLockDevice(t, d)
  /\ Erase(d, id)
  /\ aborted' = aborted \union (IF Stored(d, id) THEN {pending[d][id]} ELSE {})
  /\ UNCHANGED <<host, listed, owned, nextID, inside, stack, moves, asked, applied>>

-----------------------------------------------------------------------------
(* Plugin::AddDevice and RemoveDevice with Device::RequestOwnershipChange. *)

AddEnter(t) ==
  LET d == Top(t).device IN
  /\ At(t, "add", "enter")
  /\ CanLockPlugin(t)
  /\ IF d \in owned
     THEN Return(t) /\ UNCHANGED listed
     ELSE Goto(t, [Top(t) EXCEPT !.at = "listed"]) /\ listed' = listed \union {d}
  /\ UNCHANGED <<host, owned, device, queue, moves, history>>

(* RequestOwnershipChange(this, true), the notification, and return.       *)
AddAttach(t) ==
  /\ At(t, "add", "listed")
  /\ CanLockDevice(t, Top(t).device)
  /\ owned' = owned \union {Top(t).device}
  /\ Return(t)
  /\ UNCHANGED <<host, listed, device, queue, moves, history>>

RemoveEnter(t) ==
  LET d == Top(t).device IN
  /\ At(t, "remove", "enter")
  /\ CanLockPlugin(t)
  /\ IF d \notin owned
     THEN Return(t) /\ UNCHANGED listed
     ELSE Goto(t, [Top(t) EXCEPT !.at = "unlisted"]) /\ listed' = listed \ {d}
  /\ UNCHANGED <<host, owned, device, queue, moves, history>>

BugRemoveDetach(t) ==
  /\ At(t, "remove", "unlisted")
  /\ CanLockDevice(t, Top(t).device)
  /\ owned' = owned \ {Top(t).device}
  /\ Return(t)
  /\ UNCHANGED <<host, listed, device, queue, moves, history>>
(* RequestOwnershipChange(this, false): RemoveOwnedObject ...              *)
RemoveDetach(t) ==
  /\ At(t, "remove", "unlisted")
  /\ CanLockDevice(t, Top(t).device)
  /\ owned' = owned \ {Top(t).device}
  /\ Goto(t, [Top(t) EXCEPT !.at = "flush"])
  /\ UNCHANGED <<host, listed, device, queue, moves, history>>

BugFirstPending(d) ==
  CHOOSE id \in DOMAIN pending[d] : \A other \in DOMAIN pending[d] : id >= other
FirstPending(d) ==
  CHOOSE id \in DOMAIN pending[d] : \A other \in DOMAIN pending[d] : id <= other

(* ... and the stored functions, from the lowest reqID up, each erased     *)
(* after it has run.                                                       *)
RemoveFlush(t) ==
  LET d == Top(t).device
      id == FirstPending(d)
  IN
  /\ At(t, "remove", "flush")
  /\ pending[d] # <<>>
  /\ GotoAndCall(t, [Top(t) EXCEPT !.at = "flushing", !.id = id], FunctionCall(pending[d][id]))
  /\ Runs(pending[d][id])
  /\ UNCHANGED <<host, listed, owned, device, queue, moves, asked, aborted>>

BugRemoveErase(t) ==
  /\ At(t, "remove", "flushing")
  /\ Return(t)
  /\ UNCHANGED <<host, listed, owned, device, queue, moves, history>>
RemoveErase(t) ==
  /\ At(t, "remove", "flushing")
  /\ Erase(Top(t).device, Top(t).id)
  /\ Goto(t, [Top(t) EXCEPT !.at = "flush"])
  /\ UNCHANGED <<host, listed, owned, nextID, inside, queue, moves, history>>

RemoveReturn(t) ==
  /\ At(t, "remove", "flush")
  /\ pending[Top(t).device] = <<>>
  /\ Return(t)
  /\ UNCHANGED <<host, listed, owned, device, queue, moves, history>>

-----------------------------------------------------------------------------
(* The plugin's threads.                                                   *)

UserRequests(t, c) ==
  /\ c \notin Nested
  /\ \A u \in Threads : \A i \in DOMAIN stack[u] : stack[u][i].change # c
  /\ ~Contains(asked, c)
  /\ Begin(t, RequestCall(c))
  /\ UNCHANGED <<host, listed, owned, device, queue, moves, history>>

UserMoves(t, d) ==
  /\ moves < MaxMoves
  /\ \E call \in {AddCall(d), RemoveCall(d)} : Begin(t, call)
  /\ moves' = moves + 1
  /\ UNCHANGED <<host, listed, owned, device, queue, history>>

(* The HAL: one thread, requests of a device answered in the order they    *)
(* were made, and forgotten only when the device has been removed.         *)

(* Driver::InitializeJumper, which the HAL calls before the plugin's own   *)
(* threads do anything that is still going on.                             *)
HalConnects ==
  /\ ~host
  /\ \A t \in Threads : Idle(t)
  /\ host' = TRUE
  /\ UNCHANGED <<listed, owned, device, queue, stack, moves, history>>

HalPerforms(d) ==
  /\ queue[d] # <<>>
  /\ Begin(Hal, PerformCall(d, Head(queue[d])))
  /\ queue' = [queue EXCEPT ![d] = Tail(@)]
  /\ UNCHANGED <<host, listed, owned, device, moves, history>>

HalAborts(d) ==
  /\ Idle(Hal) /\ queue[d] # <<>>
  /\ AbortConfigurationChange(Hal, d, Head(queue[d]))
  /\ queue' = [queue EXCEPT ![d] = Tail(@)]

HalForgets(d) ==
  /\ d \notin owned /\ queue[d] # <<>>
  /\ queue' = [queue EXCEPT ![d] = Tail(@)]
  /\ UNCHANGED <<host, listed, owned, device, stack, moves, history>>

-----------------------------------------------------------------------------
Step(t) ==
  \/ RunStep(t)
  \/ RequestEnter(t) \/ RequestEnqueue(t) \/ RequestInPlace(t) \/ RequestReturn(t)
  \/ PerformEnter(t) \/ PerformReturn(t)
  \/ AddEnter(t) \/ AddAttach(t)
  \/ RemoveEnter(t) \/ RemoveDetach(t) \/ RemoveFlush(t) \/ RemoveErase(t)
  \/ RemoveReturn(t)

Next ==
  \/ \E t \in Threads : Step(t)
  \/ \E t \in Users : (\E c \in Changes : UserRequests(t, c)) \/ (\E d \in Devices : UserMoves(t, d))
  \/ HalConnects
  \/ \E d \in Devices : HalPerforms(d) \/ HalAborts(d) \/ HalForgets(d)

Spec == Init /\ [][Next]_vars

(* A thread that can go on does, and the HAL answers what it was asked.    *)
(* Users stop moving devices at some point (MaxMoves), so no mutex is      *)
(* contended for ever and weak fairness is enough.                         *)
Fairness ==
  /\ \A t \in Threads : WF_vars(Step(t))
  /\ \A d \in Devices : WF_vars(HalPerforms(d) \/ HalAborts(d) \/ HalForgets(d))

FairSpec == Spec /\ Fairness

-----------------------------------------------------------------------------
IsFree(d) == \A t \in Threads : ~HoldsDevice(t, d)
PendingChanges(d) == {pending[d][id] : id \in DOMAIN pending[d]}

(* Every change that was requested of a device has exactly one fate: it is *)
(* stored, or has run, or was aborted.  None is lost when the device is    *)
(* removed, and none runs both then and by PerformConfigurationChange.     *)
OneFate ==
  \A c \in ToSet(asked) :
    LET d == Target[c]
        runs == Cardinality({i \in DOMAIN applied : applied[i] = c})
    IN  /\ runs <= 1
        /\ IsFree(d) =>
             runs + Cardinality({c} \intersect PendingChanges(d))
                  + Cardinality({c} \intersect aborted) = 1

(* "apply them now since ... HAL *will* try to apply (some of) them,       *)
(* PerformConfigurationChange() will just ignore those requests because    *)
(* we've removed them from map": no function runs twice.                   *)
RunsOnce == \A i, j \in DOMAIN applied : applied[i] = applied[j] => i = j

(* When a change that a thread (not a function) requested runs, through    *)
(* the HAL, in place or at removal, all changes that were requested of the *)
(* device before it have run or were aborted.                              *)
InOrder ==
  \A i, j \in DOMAIN asked : \A n \in DOMAIN applied :
    /\ i < j /\ Target[asked[i]] = Target[asked[j]]
    /\ asked[j] \notin Nested /\ applied[n] = asked[j]
    => asked[i] \in aborted \/ \E m \in 1 .. n - 1 : applied[m] = asked[i]

(* A function runs only when the HAL cannot be using the device: before    *)
(* the driver is initialized, while the device has no owner, or inside     *)
(* PerformConfigurationChange.                                             *)
RunsOnlyWhenSafe ==
  [][applied' # applied =>
       LET d == Target[Last(applied')] IN ~host \/ d \notin owned \/ inside'[d] > 0]_vars

(* Nothing is stored for a call that will not come: whenever a device is   *)
(* at rest, its stored changes are known to the HAL, and the device to it. *)
PendingIsAwaited ==
  \A d \in Devices :
    /\ IsFree(d) /\ pending[d] # <<>> => host /\ d \in owned
    /\ IsFree(d) /\ d \in listed =>
         \A id \in DOMAIN pending[d] :
           \/ Contains(queue[d], id)
           \/ \E i \in DOMAIN stack[Hal] :
                LET f == stack[Hal][i] IN f.op = "perform" /\ f.device = d /\ f.id = id

(* Every change that is requested runs or is aborted, in the end.          *)
EveryChangeEnds ==
  \A c \in Changes :
    Contains(asked, c) ~> (Contains(applied, c) \/ c \in aborted)

-----------------------------------------------------------------------------
(* The inductive invariant of DeviceConfigProofs, for functions that only  *)
(* request changes, each of its own.                                       *)
FunctionsOnlyRequest ==
  /\ \A c \in Changes : \A k \in DOMAIN Body[c] : \E n \in Nested : Body[c][k] = RequestCall(n)
  /\ \A c, e \in Changes : \A k \in DOMAIN Body[c], l \in DOMAIN Body[e] :
       Body[c][k] = Body[e][l] => c = e /\ k = l

(* The calls of a thread from the outermost to the innermost.              *)
Depth(t) == Len(stack[t])
Frame(t, p) == stack[t][Depth(t) + 1 - p]
Frames ==
  [op : {"run", "request", "perform", "add", "remove"}, device : Devices,
   change : Changes \union {NoChange}, id : Nat, hosted : BOOLEAN,
   at : {"enter", "decide", "return", "listed", "unlisted", "flush", "flushing"}]

StateInv ==
  /\ host \in BOOLEAN /\ listed \subseteq Devices /\ owned \subseteq Devices
  /\ nextID \in [Devices -> Nat] /\ inside \in [Devices -> Nat]
  /\ queue \in [Devices -> Seq(Nat)]
  /\ DOMAIN pending = Devices
  /\ \A d \in Devices : /\ pending[d] \in [DOMAIN pending[d] -> Changes]
                        /\ DOMAIN pending[d] \subseteq 0 .. nextID[d] - 1
  /\ stack \in [Threads -> Seq(Frames)]
  /\ asked \in Seq(Changes) /\ applied \in Seq(Changes) /\ aborted \subseteq Changes

(* Where a call may be, in which place of a stack; only the innermost call *)
(* of a thread is not waiting for a function.                              *)
Places(op) ==
  CASE op = "run" -> {"enter"}
    [] op = "request" -> {"enter", "decide", "return"}
    [] op = "perform" -> {"enter", "return"}
    [] op = "add" -> {"enter", "listed"}
    [] op = "remove" -> {"enter", "unlisted", "flush", "flushing"}
Waiting(f) ==
  \/ f.op = "run" /\ f.at = "enter"
  \/ f.op \in {"request", "perform"} /\ f.at = "return"
  \/ f.op = "remove" /\ f.at = "flushing"
Outermost(t) == IF t = Hal THEN {"perform"} ELSE {"request", "add", "remove"}
StackInv ==
  \A t \in Threads : \A p \in 1 .. Depth(t) :
    LET f == Frame(t, p) IN
    /\ f.op \in IF p = 1 THEN Outermost(t) ELSE {"run", "request"}
    /\ f.at \in Places(f.op)
    /\ p < Depth(t) => Waiting(f)
    /\ f.op \in {"run", "request"} => f.change \in Changes /\ f.device = Target[f.change]
    /\ f.op = "run" => f.id \in 1 .. Len(Body[f.change]) + 1
    /\ f.op = "request" => (f.change \in Nested <=> p # 1)

ExclusionInv ==
  \A t, u \in Threads :
    /\ HoldsPlugin(t) /\ HoldsPlugin(u) => t = u
    /\ \A d \in Devices : HoldsDevice(t, d) /\ HoldsDevice(u, d) => t = u

(* The driver is initialized while no call is on its way.                  *)
HostInv ==
  /\ \A t \in Threads : \A p \in 1 .. Depth(t) :
       Frame(t, p).op = "request" /\ Frame(t, p).at # "enter" => Frame(t, p).hosted = host
  /\ \A d \in Devices : DOMAIN pending[d] # {} => host

(* Of a device without an owner changes are stored only while one thread   *)
(* runs them.                                                              *)
Flushes(t, d) ==
  /\ ~Idle(t) /\ Frame(t, 1).op = "remove" /\ Frame(t, 1).device = d
  /\ Frame(t, 1).at \in {"flush", "flushing"}
Performs(d) == ~Idle(Hal) /\ Frame(Hal, 1).device = d
OwnerInv ==
  /\ \A t \in Threads, d \in Devices : Flushes(t, d) => d \notin owned
  /\ \A d \in Devices \ owned : DOMAIN pending[d] # {} => \E t \in Threads : Flushes(t, d)
  /\ \A d \in Devices : inside[d] = IF Performs(d) /\ Frame(Hal, 1).at = "return" THEN 1 ELSE 0

(* The HAL answers in the order of the reqIDs, and what is stored for it   *)
(* it will answer.                                                         *)
QueueInv ==
  \A d \in Devices :
    /\ \A i \in DOMAIN queue[d] :
         /\ queue[d][i] < nextID[d]
         /\ \A j \in DOMAIN queue[d] : i < j => queue[d][i] < queue[d][j]
         /\ Performs(d) => Frame(Hal, 1).id < queue[d][i]
    /\ Performs(d) => Frame(Hal, 1).id < nextID[d]
    /\ d \in owned => \A id \in DOMAIN pending[d] :
         (\E i \in DOMAIN queue[d] : queue[d][i] = id) \/ (Performs(d) /\ Frame(Hal, 1).id = id)

(* Of which stored change the function runs, and which change is between   *)
(* its request and its fate.                                               *)
Running(t, d, id) ==
  /\ ~Idle(t) /\ Frame(t, 1).device = d /\ Frame(t, 1).id = id
  /\ Frame(t, 1).op \in {"perform", "remove"} /\ Waiting(Frame(t, 1))
Deciding(t, c) ==
  ~Idle(t) /\ Top(t).op = "request" /\ Top(t).at = "decide" /\ Top(t).change = c
FateInv ==
  /\ \A i, j \in DOMAIN asked : asked[i] = asked[j] => i = j
  /\ RunsOnce
  /\ ToSet(applied) \union aborted \subseteq ToSet(asked)
  /\ aborted \intersect ToSet(applied) = {}
  /\ \A d \in Devices : \A id \in DOMAIN pending[d] :
       LET c == pending[d][id] IN
       /\ Target[c] = d /\ c \in ToSet(asked) \ aborted
       /\ c \in ToSet(applied) <=> \E t \in Threads : Running(t, d, id)
       /\ \A other \in DOMAIN pending[d] : pending[d][other] = c => other = id
  /\ \A c \in ToSet(asked) :
       \/ c \in ToSet(applied) \union aborted \union PendingChanges(Target[c])
       \/ \E t \in Threads : Deciding(t, c)
  /\ \A t \in Threads, c \in Changes :
       Deciding(t, c) => c \notin ToSet(applied) \union aborted \union PendingChanges(Target[c])

(* A change is requested by one call, and its function runs once; that of  *)
(* a nested change is beyond the call that requests it.                    *)
Has(t, p, op, c) == Frame(t, p).op = op /\ Frame(t, p).change = c
RequestInv ==
  /\ \A t \in Threads : \A p \in 1 .. Depth(t) :
       LET f == Frame(t, p) IN
       /\ f.op = "request" => (f.at = "enter" <=> f.change \notin ToSet(asked))
       /\ f.op = "run" => f.change \in ToSet(applied)
       /\ f.op \in {"request", "run"} =>
            \A u \in Threads : \A q \in 1 .. Depth(u) : Has(u, q, f.op, f.change) => u = t /\ q = p
  /\ \A c \in Changes : \A k \in DOMAIN Body[c] :
       LET n == Body[c][k].change IN
       n \in ToSet(asked) \/ (\E t \in Threads : \E p \in 1 .. Depth(t) : Has(t, p, "request", n))
       => /\ c \in ToSet(applied)
          /\ \A t \in Threads : \A p \in 1 .. Depth(t) : Has(t, p, "run", c) => Frame(t, p).id > k

(* reqIDs are in the order of the requests.                                *)
OrderInv ==
  /\ \A d \in Devices : \A x, y \in DOMAIN pending[d] : \A i, j \in DOMAIN asked :
       asked[i] = pending[d][x] /\ asked[j] = pending[d][y] /\ i < j => x < y
  /\ \A t \in Threads : \A i, j \in DOMAIN asked :
       Deciding(t, asked[i]) /\ i < j => Target[asked[j]] # Target[asked[i]]
  /\ InOrder

IInv ==
  /\ StateInv /\ StackInv /\ ExclusionInv /\ HostInv /\ OwnerInv /\ QueueInv
  /\ FateInv /\ RequestInv /\ OrderInv
=============================================================================
