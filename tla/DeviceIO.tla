------------------------------- MODULE DeviceIO -------------------------------
(***************************************************************************)
(* Clients, start and stop of I/O, zero timestamps and I/O operations of   *)
(* aspl::Device (src/Device.cpp), and the control handler it calls.        *)
(*                                                                         *)
(* A client stands for the thread on which the HAL calls the device for it.*)
(* Clients and their map are under writeMutex_, everything about I/O under *)
(* ioMutex_, GetIsRunning() and the nominal sample rate under neither.     *)
(*                                                                         *)
(* Definitions named Bug... are faulty variants of the definition that     *)
(* follows them, kept to show that the properties can fail.                *)
(***************************************************************************)
EXTENDS Integers, FiniteSets

CONSTANTS
  Clients,
  Rates,             \* nominal sample rates
  Period,            \* GetZeroTimeStampPeriod(), frames
  HostFrequency,     \* ticks of mach_absolute_time() a second
  MaxSilence,        \* the HAL asks for a timestamp that often, in ticks
  MaxTime            \* bound: ticks

ASSUME IOAssumption ==
  /\ IsFiniteSet(Clients)
  /\ Rates \subseteq Nat \ {0} /\ Rates # {}
  /\ Period \in Nat \ {0} /\ HostFrequency \in Nat \ {0}
  /\ MaxTime \in Nat
  /\ MaxSilence \in Nat
  /\ \A r \in Rates : MaxSilence * r <= HostFrequency * Period

VARIABLES
  at,          \* where in its call each client's thread is
  phase,       \* history: absent, known to the device, or doing I/O
  clientByID,  \* clientByID_: the clients in the map
  copy,        \* the copy of the map that AddClient and RemoveClient work on
  startCount,  \* startCount_
  edge,        \* isStarting and isStopping of StartIO and StopIO
  now,         \* mach_absolute_time()
  rate,        \* nominalSampleRate_
  lastRate,    \* lastSampleRate_, the rate of hostTicksPerFrame_
  anchor,      \* anchorHostTime_
  periods,     \* periodCounter_
  started,     \* history: OnStartIO() that succeeded minus OnStopIO()
  notified,    \* history: GetIsRunning() when the HAL was last notified
  latest       \* history: the last timestamp of this run of I/O and its time

calls == <<at, phase>>
clients == <<clientByID, copy>>
starting == <<startCount, edge, started, notified>>
clock == <<now, rate, lastRate, anchor, periods, latest>>
vars == <<calls, clients, starting, clock>>

WriteSteps == {"adding", "removing"}
IOSteps == {"starting", "counting", "notifying", "stopping", "uncounting", "notifyingStop", "doing"}

Init ==
  /\ at = [c \in Clients |-> "idle"]
  /\ phase = [c \in Clients |-> "absent"]
  /\ clientByID = {} /\ copy = [c \in Clients |-> {}]
  /\ startCount = 0 /\ edge = [c \in Clients |-> FALSE]
  /\ now = 0
  /\ rate \in Rates /\ lastRate = 0
  /\ anchor = 0 /\ periods = 0
  /\ started = 0 /\ notified = FALSE
  /\ latest = [sample |-> 0, host |-> 0, time |-> 0]

CanLockWrite(c) == \A d \in Clients \ {c} : at[d] \notin WriteSteps
BugCanLockIO(c) == \A d \in Clients \ {c} : at[d] \notin IOSteps \ {"starting", "stopping"}
CanLockIO(c) == \A d \in Clients \ {c} : at[d] \notin IOSteps

Goto(c, step) == at' = [at EXCEPT ![c] = step]
Enter(c, ph, step) == at[c] = "idle" /\ phase[c] = ph /\ Goto(c, step)
Leave(c, ph) == Goto(c, "idle") /\ phase' = [phase EXCEPT ![c] = ph]

-----------------------------------------------------------------------------
(* Device::AddClient and RemoveClient: the map is copied, for AddClient the*)
(* handler is asked to make a client, and the copy is put in place.        *)

BugAddBegin(c) ==
  /\ Enter(c, "absent", "adding")
  /\ copy' = [copy EXCEPT ![c] = clientByID]
  /\ UNCHANGED <<phase, clientByID, starting, clock>>
AddBegin(c) ==
  /\ CanLockWrite(c)
  /\ Enter(c, "absent", "adding")
  /\ copy' = [copy EXCEPT ![c] = clientByID]
  /\ UNCHANGED <<phase, clientByID, starting, clock>>

AddFails(c) ==
  /\ at[c] = "adding" /\ Leave(c, "absent")
  /\ UNCHANGED <<clients, starting, clock>>

AddEnd(c) ==
  /\ at[c] = "adding" /\ Leave(c, "known")
  /\ clientByID' = copy[c] \union {c}
  /\ UNCHANGED <<copy, starting, clock>>

RemoveBegin(c) ==
  /\ CanLockWrite(c)
  /\ Enter(c, "known", "removing")
  /\ copy' = [copy EXCEPT ![c] = clientByID]
  /\ UNCHANGED <<phase, clientByID, starting, clock>>

RemoveEnd(c) ==
  /\ at[c] = "removing" /\ Leave(c, "absent")
  /\ clientByID' = copy[c] \ {c}
  /\ UNCHANGED <<copy, starting, clock>>

-----------------------------------------------------------------------------
(* Device::StartIO and StopIO.                                             *)

StartBegin(c) ==
  /\ CanLockIO(c)
  /\ Enter(c, "known", "starting")
  /\ edge' = [edge EXCEPT ![c] = startCount = 0]
  /\ UNCHANGED <<phase, clients, startCount, started, notified, clock>>

(* StartIOImpl of a device that is running does nothing.                   *)
StartAnother(c) ==
  /\ at[c] = "starting" /\ startCount # 0
  /\ Goto(c, "counting")
  /\ UNCHANGED <<phase, clients, starting, clock>>

BugStartFirst(c) ==
  /\ at[c] = "starting" /\ startCount = 0
  /\ started' = started + 1
  /\ anchor' = now
  /\ latest' = [sample |-> 0, host |-> now, time |-> now]
  /\ Goto(c, "counting")
  /\ UNCHANGED <<phase, clients, startCount, edge, notified, now, rate, lastRate, periods>>
(* OnStartIO() succeeds, and the timestamps start again.                   *)
StartFirst(c) ==
  /\ at[c] = "starting" /\ startCount = 0
  /\ started' = started + 1
  /\ anchor' = now /\ periods' = 0
  /\ latest' = [sample |-> 0, host |-> now, time |-> now]
  /\ Goto(c, "counting")
  /\ UNCHANGED <<phase, clients, startCount, edge, notified, now, rate, lastRate>>

BugStartFails(c) ==
  /\ at[c] = "starting" /\ startCount = 0
  /\ Leave(c, "known")
  /\ startCount' = startCount + 1
  /\ UNCHANGED <<clients, edge, started, notified, clock>>
StartFails(c) ==
  /\ at[c] = "starting" /\ startCount = 0
  /\ Leave(c, "known")
  /\ UNCHANGED <<clients, starting, clock>>

StartCount(c) ==
  /\ at[c] = "counting"
  /\ startCount' = startCount + 1
  /\ Goto(c, "notifying")
  /\ UNCHANGED <<phase, clients, edge, started, notified, clock>>

(* The HAL is notified, reads GetIsRunning(), and the call returns.        *)
Notify(c) == notified' = IF edge[c] THEN startCount > 0 ELSE notified

StartEnd(c) ==
  /\ at[c] = "notifying" /\ Leave(c, "running")
  /\ Notify(c)
  /\ UNCHANGED <<clients, startCount, edge, started, clock>>

BugStopBegin(c) ==
  /\ CanLockIO(c)
  /\ Enter(c, "running", "stopping")
  /\ edge' = [edge EXCEPT ![c] = startCount = 0]
  /\ UNCHANGED <<phase, clients, startCount, started, notified, clock>>
StopBegin(c) ==
  /\ CanLockIO(c)
  /\ Enter(c, "running", "stopping")
  /\ edge' = [edge EXCEPT ![c] = startCount = 1]
  /\ UNCHANGED <<phase, clients, startCount, started, notified, clock>>

(* StopIOImpl: OnStopIO() for the last one.                                *)
StopHandler(c) ==
  /\ at[c] = "stopping"
  /\ started' = IF startCount - 1 = 0 THEN started - 1 ELSE started
  /\ Goto(c, "uncounting")
  /\ UNCHANGED <<phase, clients, startCount, edge, notified, clock>>

StopCount(c) ==
  /\ at[c] = "uncounting"
  /\ startCount' = startCount - 1
  /\ Goto(c, "notifyingStop")
  /\ UNCHANGED <<phase, clients, edge, started, notified, clock>>

StopEnd(c) ==
  /\ at[c] = "notifyingStop" /\ Leave(c, "known")
  /\ Notify(c)
  /\ UNCHANGED <<clients, startCount, edge, started, clock>>

-----------------------------------------------------------------------------
(* Device::GetZeroTimeStamp.                                               *)

(* Ticks of a number of periods at a rate, UInt64(k * hostTicksPerPeriod), *)
(* from the exact quotient: that hostTicksPerPeriod is a Float64, and has  *)
(* an error of its own, is not modelled.                                   *)
Ticks(k, r) == (k * HostFrequency * Period) \div r

(* The rate of hostTicksPerFrame_, which is computed again when it changes.*)
TicksRate == IF rate # lastRate THEN rate ELSE lastRate

BugNextPeriods ==
  IF now > anchor + Ticks(periods + 1, TicksRate) THEN periods + 1 ELSE periods
(* One period more, at most, if its time has come.                         *)
NextPeriods ==
  IF now >= anchor + Ticks(periods + 1, TicksRate) THEN periods + 1 ELSE periods

GetZeroTimeStamp(c) ==
  /\ at[c] = "idle" /\ phase[c] = "running" /\ CanLockIO(c)
  /\ periods' = NextPeriods
  /\ lastRate' = TicksRate
  /\ latest' = [sample |-> NextPeriods * Period,
                host |-> anchor + Ticks(NextPeriods, TicksRate), time |-> now]
  /\ UNCHANGED <<calls, clients, starting, now, rate, anchor>>

(* Device::DoIOOperation, while it is in the I/O handler.                  *)
DoBegin(c) ==
  /\ CanLockIO(c)
  /\ Enter(c, "running", "doing")
  /\ UNCHANGED <<phase, clients, starting, clock>>

DoEnd(c) ==
  /\ at[c] = "doing" /\ Leave(c, "running")
  /\ UNCHANGED <<clients, starting, clock>>

-----------------------------------------------------------------------------
(* Time passes; while I/O is running the HAL asks for timestamps.          *)
Tick ==
  /\ now < MaxTime
  /\ started = 1 => now - latest.time < MaxSilence
  /\ now' = now + 1
  /\ UNCHANGED <<calls, clients, starting, rate, lastRate, anchor, periods, latest>>

(* The function of SetNominalSampleRateAsync runs when the HAL does no I/O.*)
ChangeRate ==
  /\ \A c \in Clients : phase[c] # "running" /\ at[c] \notin IOSteps
  /\ rate' \in Rates \ {rate}
  /\ UNCHANGED <<calls, clients, starting, now, lastRate, anchor, periods, latest>>

Step(c) ==
  \/ AddBegin(c) \/ AddFails(c) \/ AddEnd(c) \/ RemoveBegin(c) \/ RemoveEnd(c)
  \/ StartBegin(c) \/ StartAnother(c) \/ StartFirst(c) \/ StartFails(c)
  \/ StartCount(c) \/ StartEnd(c)
  \/ StopBegin(c) \/ StopHandler(c) \/ StopCount(c) \/ StopEnd(c)
  \/ GetZeroTimeStamp(c) \/ DoBegin(c) \/ DoEnd(c)

Next == (\E c \in Clients : Step(c)) \/ Tick \/ ChangeRate

Spec == Init /\ [][Next]_vars

-----------------------------------------------------------------------------
Running == {c \in Clients : phase[c] = "running"}

(* The variables have the types of the members they stand for.             *)
TypeOK ==
  /\ at \in [Clients -> {"idle"} \union WriteSteps \union IOSteps]
  /\ phase \in [Clients -> {"absent", "known", "running"}]
  /\ clientByID \subseteq Clients /\ copy \in [Clients -> SUBSET Clients]
  /\ startCount \in 0 .. Cardinality(Clients)
  /\ edge \in [Clients -> BOOLEAN] /\ notified \in BOOLEAN
  /\ rate \in Rates /\ lastRate \in Rates \union {0}
  /\ {now, anchor, periods} \subseteq Nat /\ started \in Int
  /\ latest \in [sample : Nat, host : Nat, time : Nat]

IOFree == \A c \in Clients : at[c] \notin IOSteps

(* OnStartIO() for "the very first client" and OnStopIO() for "the last":  *)
(* they alternate, and between calls the handler is started exactly if     *)
(* some client does I/O, whichever starts failed in between.               *)
HandlerAlternates ==
  /\ started \in {0, 1}
  /\ IOFree => /\ startCount = Cardinality(Running)
               /\ started = 1 <=> Running # {}

(* "GetIsRunning() will return true until at least one client is doing     *)
(* I/O", and the HAL has been told of the last change.                     *)
RunningIsNotified ==
  IOFree => (startCount > 0) = (Running # {}) /\ notified = (Running # {})

(* I/O handler methods are "serialized", and run between OnStartIO() and   *)
(* OnStopIO() only, for a client that the device finds in its map.         *)
IOIsServed ==
  \A c \in Clients : at[c] = "doing" =>
    /\ started = 1
    /\ c \in clientByID
    /\ \A d \in Clients \ {c} : at[d] \notin IOSteps

(* No client of two that come and go at once is lost, or left behind.      *)
ClientsAreKept ==
  (\A c \in Clients : at[c] \notin WriteSteps) =>
    clientByID = {c \in Clients : phase[c] # "absent"}

(* A timestamp is of the past, and of the present period if the HAL asks   *)
(* often enough.                                                           *)
StampIsOfThePresent ==
  started = 1 =>
    /\ latest.host <= latest.time
    /\ (latest.time - latest.host) * rate < HostFrequency * Period

(* "the zero time stamp and host time are increased every                  *)
(* GetZeroTimeStampPeriod() frames": during a run of I/O neither goes back *)
(* and no period is skipped.                                               *)
StampsAdvance ==
  [][started = 1 /\ started' = 1 =>
       /\ latest'.sample - latest.sample \in {0, Period}
       /\ latest'.host >= latest.host]_vars
-----------------------------------------------------------------------------
(* The inductive invariant of DeviceIOProofs.                              *)

(* Each mutex has one owner, who is where the history says.                *)
LockInv ==
  /\ \A c, d \in Clients : at[c] \in IOSteps /\ at[d] \in IOSteps => c = d
  /\ \A c, d \in Clients : at[c] \in WriteSteps /\ at[d] \in WriteSteps => c = d
  /\ \A c \in Clients :
       /\ at[c] = "adding" => phase[c] = "absent"
       /\ at[c] \in {"removing", "starting", "counting", "notifying"} => phase[c] = "known"
       /\ at[c] \in {"stopping", "uncounting", "notifyingStop", "doing"} => phase[c] = "running"

(* The map has every client, and the copy of a writer is the map.          *)
ClientInv ==
  /\ clientByID = {c \in Clients : phase[c] # "absent"}
  /\ \A c \in Clients : at[c] \in WriteSteps => copy[c] = clientByID

(* The clients that startCount_ counts: those that run and have not been   *)
(* taken off yet, and the one that has been added already.                 *)
Counted ==
  {c \in Clients : (phase[c] = "running" /\ at[c] # "notifyingStop") \/ at[c] = "notifying"}
CountInv == startCount = Cardinality(Counted)

(* The handler is ahead of the counter, in both directions.                *)
HandlerInv ==
  started = IF \/ \E c \in Clients : at[c] = "counting"
               \/ startCount > 0 /\ ~ (startCount = 1 /\ \E c \in Clients : at[c] = "uncounting")
            THEN 1 ELSE 0

(* What isStarting and isStopping promise, and the HAL knows.              *)
EdgeInv ==
  \A c \in Clients :
    /\ at[c] \in {"starting", "counting", "notifyingStop"} => (edge[c] <=> startCount = 0)
    /\ at[c] \in {"notifying", "stopping", "uncounting"} => (edge[c] <=> startCount = 1)
NotifiedInv ==
  LET late == \E c \in Clients : at[c] \in {"notifying", "notifyingStop"} /\ edge[c]
  IN  notified <=> ~ (startCount > 0 <=> late)

(* While I/O runs the last timestamp is that of the period that is counted,*)
(* at the present rate, and it was of its moment when it was given.        *)
ClockInv ==
  started = 1 =>
    /\ latest.sample = periods * Period
    /\ latest.host = anchor + Ticks(periods, rate)
    /\ latest.host <= latest.time /\ latest.time <= now
    /\ now - latest.time <= MaxSilence
    /\ (latest.time - latest.host) * rate < HostFrequency * Period

IInv ==
  /\ TypeOK /\ LockInv /\ ClientInv /\ CountInv /\ HandlerInv /\ EdgeInv /\ NotifiedInv
  /\ ClockInv
=============================================================================
