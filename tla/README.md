# A specification of libASPL

libASPL is a C++ library for CoreAudio server plug-ins (virtual audio devices
for macOS). The HAL (`coreaudiod`) loads the plug-in and calls it from several
threads, some of them realtime; the plug-in's own threads create, change and
remove objects at the same time. The library promises that "all operations are
thread-safe" (`src/README.md:484`), that getters are lock-free and that changes
of configuration happen only when the HAL allows them. This directory states
those promises in TLA+, checks them with TLC on small instances and proves the
most important ones with TLAPS for every instance.

## The system

| Part | State it keeps | Operations | Hard because |
|---|---|---|---|
| `DoubleBuffer` (`include/aspl/DoubleBuffer.hpp`) | two copies, their indices and shared mutexes, the current index, the setters' mutex | `GetReadLock`, `Get`, `~ReadLock`, `Set` | lock-free getters race with setters that reuse and destroy the copies; the index wraps |
| `Dispatcher` (`src/Dispatcher.cpp`) | the map from identifiers to registrations, a bitset of identifiers | `FindObject`, `RegisterObject`, `UnregisterObject`, `AllocateID`, `FreeID` | lookups hold raw pointers to objects that are being destroyed; identifiers are reused |
| Object tree (`src/Object.cpp`) | owned objects per scope, the owner, custom properties | `AddOwnedObject`, `RemoveOwnedObject`, `AttachOwner`, `DetachOwner`, `NotifyPropertiesChanged`, property operations | mutexes of parents and children, user callbacks under read locks |
| `Plugin` (`src/Plugin.cpp`) | `devices_`, `deviceByID_`, `deviceByUID_` | `AddDevice`, `RemoveDevice`, getters | several containers change one after the other |
| `Device`: configuration (`src/Device.cpp:1589-1725`) | pending requests, last request identifier, handler depth | `RequestConfigurationChange`, `RequestOwnershipChange`, `PerformConfigurationChange`, `AbortConfigurationChange` | recursion, three threads, an answer that comes late, twice removed devices |
| `Device`: streams and controls (`src/Device.cpp:420-882`) | lists, maps by identifier, counters | `Add...Async`, `Remove...Async` | one half takes effect at once, the other when the HAL performs the change, or never |
| `Device`: clients and I/O (`src/Device.cpp:884-1587`) | clients, start count, timestamps, handlers | `AddClient`, `RemoveClient`, `StartIO`, `StopIO`, `GetZeroTimeStamp`, `WillDoIOOperation` ... `EndIOOperation` | realtime, counters at zero, handlers replaced while in use |
| Generated accessors (`src/*.g.cpp`) | one `DoubleBuffer` per parameter | setters, `Set...Async`, the five property methods | a change is compared, checked and applied at three different times |
| `Driver`, bridge (`src/Driver.cpp`, `src/Bridge.g.cpp`) | reference counter, host | COM entry points, one jumper per operation of the HAL | the object of a call may be gone, or its identifier belong to another |
| `Tracer` (`src/Tracer.cpp`) | depth and ignore counters of each thread | `OperationBegin`, `OperationEnd`, `Message` | begin and end must match on every path |
| `Storage` (`src/Storage.cpp`) | none | reads and writes in the storage of the host | missing host, wrong types, partial errors |
| Volume and mute (`src/VolumeControl.cpp`, `src/VolumeCurve.cpp`, `src/MuteControl.cpp`) | a curve and a raw value | conversions raw / scalar / decibels, processing | ranges, rounding, division by an empty range |

How they interact: every object registers with the `Dispatcher` of its
`Context` in its constructor and unregisters in its destructor. The bridge finds
the object of each HAL call through `FindObject` and holds a shared pointer to
it during the call. The `Plugin` owns devices, a device owns streams and
controls. Every parameter, list and map, also the dispatcher's, is a
`DoubleBuffer`: getters read a snapshot without a mutex, setters are serialized
by the `writeMutex_` of their object. A parameter the HAL must not see changing
goes through `RequestConfigurationChange` of the device: if the host is known,
the device published and no handler running, the change is a function that is
stored, and the HAL calls back later, on its own thread, to run or to drop it.

What makes each part correct, and where it is stated:

- `DoubleBuffer`: no copy is written while it is read; a held reference does not
  change; old values are destroyed before `Set` returns; a getter needs no
  setter, a setter is not starved by getters (`DoubleBuffer`, abstractly
  `SnapshotRegister`).
- `Dispatcher`: a lookup finds a living object and never one that is gone;
  after `UnregisterObject` nobody uses the object; identifiers are unique and do
  not leak (`Dispatcher`, `IdAllocator`).
- Configuration: each change has exactly one fate, in order, and at a safe
  moment; none is forgotten (`DeviceConfig`).
- Setters: the last accepted value wins and only valid ones do (`AsyncSetter`).
- Streams and controls: lists, maps, counters and owned objects agree, and at
  every step a stream that the HAL can see can be used (`DeviceStreams`).
- Clients and I/O: the handler is started once and stopped once, what the HAL
  is told of is true, no client is lost, timestamps advance period by period
  (`DeviceIO`).
- Tree: an object never names an owner that does not list it, and is never
  listed by two (`ObjectTree`).
- Properties: the five methods of a class agree with each other, an answer never
  exceeds its buffer, every change is announced and not before it can be read
  (`PropertyTables`, `HalView`).
- `Plugin`: its three containers and the tree list the same devices, and what is
  found by a UID is one of them (`HalView`).
- Volume: a value survives the conversion to a scale and back (`VolumeCurve`,
  `HalView`).

`PROJECT.json` lists every component with its status, every hazard with its line,
and for each definition the lines of the source it stands for.

## Modules

    SnapshotRegister         what a DoubleBuffer promises (abstract)
      ^ implemented by
    DoubleBuffer             the container, one atomic step per action
      DoubleBufferProofs     its inductive invariant and safety, and that it
                             implements SnapshotRegister, proved
    Dispatcher               lookup and registration; its map is an
                             INSTANCE of SnapshotRegister
      MCDispatcher           instance for TLC
      DispatcherProofs       its inductive invariant and safety, proved
    IdAllocator              which identifier is allocated
      IdAllocatorProofs      that identifiers are unique and do not leak, proved
    DeviceConfig             configuration changes, AddDevice, RemoveDevice
      MCDeviceConfig         the functions of the instances
      DeviceConfigProofs     its inductive invariant and safety, proved
    AsyncSetter              the asynchronous setters
      AsyncSetterProofs      that the last accepted value wins, proved
    DeviceStreams            streams and controls on the queue of changes
      MCDeviceStreams        instance for TLC
      DeviceStreamsProofs    its inductive invariant and safety, proved
    DeviceIO                 clients, start and stop, timestamps, I/O operations
      DeviceIOProofs         its inductive invariant and safety, proved
    ObjectTree               owners and owned objects (abstract contract)
    PropertyTables           the five property methods of six classes
    VolumeCurve              raw values, scalars and decibels
    HalView                  the HAL and the plugin's threads: composes
                             ObjectTree, PropertyTables and VolumeCurve
      MCHalView              instance for TLC
      HalViewProofs          the tree, the round trips of the volume, and of
                             HalView: that it implements ObjectTree, the lists
                             of the plugin, the silence of setting back, the
                             agreement and the size of the answers, proved

### DoubleBuffer

Every action is one atomic access, lock or unlock, or the access to the value
that a lock protects. A getter is at `idle`, `start` (in the loop), `loaded`
(it has an index), `locked` (it has the shared mutex and has not checked the
index yet) or `reading`. `ReadIndexChanged` and `ReadLockFailed` are the two
`continue`s. A setter goes through `locked`, `announced` (the index of the new
copy is stored), `waiting`/`storing` (writer announced / exclusive), `stored`,
and after the switch `switched`, `invalidated`, `waitingOld`, `destroying`,
`done`; for a trivial type it goes from the switch to `done`. A shared mutex is
two variables, because libc++'s `lock()` first announces the writer, which
already refuses new shared holders, and waits afterwards: `EnterExclusive`,
`HasExclusive`. Memory accesses are sequentially consistent: the index of a copy
and the current index are `std::atomic` with the default order, and the only
relaxed load is made under `writeMutex_` of a variable written only under it.

`sample` is a history variable: the value of the register when the getter loaded
the index. It makes "the value is the one that was current when the getter
looked" a formula.

`SnapshotRegister` has no copies: a register, getters that look, look again and
return, setters that are serialized and that, for types with destructors, return
only when nobody holds what they replaced. The refinement mapping takes the
switch of the index for the moment of the setter, and the last load of the index
for that of the getter.

### Dispatcher and IdAllocator

A thread of `Dispatcher` may do anything: look up, construct, give its pointer
to an owner, drop it, drop an owner's. The registration of an object is three
variables (`regPointer`, `regShared`, `regEntered`: the atomic pointer and the
shared mutex). The map is a `SnapshotRegister`, so lookups work with old maps as
the code's comments describe. `life` and `refs` are the C++ object and its
shared pointers: the constructor registers before the first pointer exists, and
the destructor runs when the last is gone; storage is reused.

`UnregisterObject` is safe twice over. `Set` of the map already waits for the
readers of the old map, since the map has a destructor, so no lookup ever meets
the exclusive lock that `try_to_lock` guards against; the registration's own
mutex then waits again; the null pointer covers lookups that entered in
between. Removing one of the two mechanisms breaks nothing in the model, which
is why the faulty variant for `NotAccessedAfterUnregister` drops the call.

`IdAllocator` is sequential (everything happens under `registrationMutex_`).
The bitset is kept as a sequence of sets of bits, with 4 bits to a chunk.

### DeviceConfig

A thread is a stack of calls, so that functions can call the device and the
plugin again; which mutexes a thread holds is read off its stack
(`HoldsDevice`, `HoldsPlugin`), which gives the recursion of the mutexes.
`Body` says what a function calls. `asked`, `applied` and `aborted` are
histories. `HalPerforms`, `HalAborts` and `HalForgets` are the environment: one
thread, the requests of a device answered in order, and forgotten only if the
device was removed. `HalConnects` (the call of `Initialize`) happens only while
no plugin thread is inside a call. A function that requests a change has it
applied in place, ahead of what is stored, so `InOrder` is about the changes that
threads request.

### AsyncSetter

All `Set...Async` are generated from one template; the module has one parameter
of a device (`OfStream = FALSE`) or of a stream. The steps of a setter are: lock,
compare with the present value, check, request. Of the device only its mutex and
queue are kept. The function compares once more and calls `Set...Impl`, which a
user may override and which may fail (`SetImpl`, `Fails`); its status is traced and
goes to nobody. `dropped` is the history of the functions without effect, aborted
or failed. A stream whose device is gone drops the change silently
(`Stream.cpp:222-227`); the model's stream has a device.

### DeviceStreams

The adding and removing of streams and controls changes the lists and maps at
once (`listed`, `byID`) and the counters and owned objects (`numStreams`, `owned`) in
the function of a configuration change, which runs in place, when the HAL performs
it, when `RemoveDevice` flushes the queue, or never if the HAL aborts it. The
module has the steps of both halves one by one, so that the realtime thread
(`WillDo`, `DoFinds`) sees every state in between. `AddStreamWithControlsAsync`
is one call with three changes, whose attachments (`Return`) come last.
`WaitsForItself` says when `Object::AttachOwner` locks a `std::mutex` that its
thread has.

### DeviceIO

A client stands for the thread on which the HAL calls the device for it. `at` is
where the thread is; what mutexes are held follows from it (`CanLockWrite`,
`CanLockIO`). `StartIO` is `StartBegin`, then `StartAnother`, `StartFirst` or
`StartFails` (`StartIOImpl`), then `StartCount` and, with the notification,
`StartEnd`; `StopIO` likewise. Time is an integer, `Tick`, and the ticks of a
number of periods are rounded down from the anchor as in the code, but from the
exact quotient: the code multiplies by a Float64, `hostTicksPerPeriod`
(`Device.cpp`, `GetZeroTimeStampImpl`), whose own error may cost a tick. `started`
(successful `OnStartIO` minus `OnStopIO`), `notified` (what the HAL read when it
was notified last), `phase` and `latest` are histories. The HAL stops only what
it has started, asks for timestamps at least every `MaxSilence` ticks while I/O
runs, where `MaxSilence` is not longer than a period (`IOAssumption`), and
performs a change of the rate only when no I/O is running.

### ObjectTree

The two operations of a tree, step by step: the owner's map and the owned
object's pointer change under different mutexes, and are read without any.
`AttachOwner` for an object that has an owner goes through `RemoveOwnedObject` of
that owner to `DetachOwner`, which locks the `std::mutex` its thread has
(`Object.cpp:179` and `:193`): the step is never taken and the thread waits for
itself. So `ObjectTree` is also a contract, `TreeSpec`: callers add only what is
`Unclaimed`. Two objects that are added to each other at the same time wait for
each other, each with its own mutex; deadlock is therefore not a question for
`TreeSpec` but for its users: in `HalView` the plugin adds devices under its own
mutex only, and `HalCatchesUp` would fail if a call hung between its change and its notification.

### PropertyTables, VolumeCurve and HalView

`PropertyTables` has one table for each class and each of the five methods,
each taken from its own `switch`, so that a selector forgotten in one of them
shows; then the fallback to the tables of `Object` and to the custom properties.
A table says whether a property has one value, a list that is cut to the buffer,
or a list that needs room for all of it. A custom property is announced by
`HasProperty`, and can be read or set if it has a getter or a setter. What a
user's getter returns is external. The tables are put together with `Sole` and
`++`, defined in the module so that the provers can go through them.

`VolumeCurve` has Float32 values as multiples of `1/Unit`; an expression of the
code is computed exactly and rounded once. The square root of the transfer
function is `RootSteps`.

`HalView` puts them behind the jumpers of the bridge. In each behaviour the HAL
watches one property: after a notification it goes through a session,
`HalRefresh`, `HalIsPropertySettable`, `HalGetPropertyDataSize`,
`HalGetPropertyData`, one call after another with the plugin's threads in
between, and then knows the value; it may then set it
(`HalSetPropertyData`, through the same setter as the plugin's threads, with the
conversion of the handler) or try to (`HalTrySetPropertyData`). It also asks at will
about other properties (`HalAsk`), among them those of a device that is removed
and destroyed meanwhile. The plugin's threads add and remove devices, container
by container (`ListDevice`, `UnlistDevice`), then in the tree, then the
notification; or call a setter, which compares, stores and notifies under the
mutex of its class, unless the `...Impl` method fails (`RejectValue`; that of
`SetIsIdentifying` always fails unless it is overridden, `Device.hpp:1083-1088`).
Before `InitializeJumper` there is no host to notify.

`uid` is the UID of each device, fixed when it is made (a user's override of
`GetDeviceUID` could change it; the library's does not). `deviceByUID_` is keyed by
it: a device replaces another of its UID, one without UID is not entered, and
removing a device erases whatever its UID finds (`SameUID`). `Holds` says
what is expected of each container; of this one, that it finds at most one device
for a UID, and surely the one whose UID no other device has.

## Runs

| Run | Instance | What it shows |
|---|---|---|
| `double_buffer` | 2 getters, 2 setters, 2 values, indices 0..3, values with a destructor | `IInv`, `NoDataRace`, `HeldValueIsStable`, `OldValueIsGone`, `ImplementsRegister`, `GetterIsLockFree`, `SetTerminates` |
| `dispatcher` | 2 objects; 3 threads with 1 identifier or 2 threads with 2 | `NotAccessedAfterUnregister`, `FindsWhatIsAlive`, `FoundIsWhatWasAsked`, `FindNeedsNoOther`, `RegistrationEnds` |
| `ids_plugin` | the plugin and up to 5 objects, chunks of 4 bits, hint 6 | `NewIdIsUnique`, `NoLeak` |
| `ids_collision` | an object brings its own identifier | `NewIdIsUnique` is violated |
| `config_safety` | 2 users, the HAL, 2 devices, 4 changes (two requested by a function), 3 moves | `OneFate`, `InOrder`, `PendingIsAwaited`, `RunsOnlyWhenSafe`, `EveryChangeEnds` |
| `config_selfremoval` | a function that removes its own device | `RunsOnce` is violated |
| `async_device` | 2 users, the HAL, 3 values of which one is invalid, 4 calls | `LastAcceptedWins`, `EveryFunctionEnds` |
| `async_stream` | a parameter of a stream, 3 calls | `EveryFunctionEnds` is violated |
| `streams_safety` | 1 user, the HAL, 3 streams (one with 2 controls), 4 calls, 2 moves, 1 abort | `OwnedFollowsListed`, `CountersMatch`, `PublishedStreamWorks`, `ControlsAttached`, `ChannelsDisjoint`, `AddedIsPublished` |
| `streams_abort` | the same, 2 calls, 1 move | `WillDoMatchesStreams` is violated |
| `device_io` | 2 clients, 2 rates, 10 instants, starts that may fail | `IInv`, `HandlerAlternates`, `RunningIsNotified`, `IOIsServed`, `StampIsOfThePresent`, `StampsAdvance` |
| `hal_view` | 2 plugin threads and the HAL; a plugin with 2 devices, of which one has a stream and two controls, with two UIDs, the same UID, or one without UID; 7 raw values over 36 decibels; 7 watched properties | `AnswersAgree`, `RepliesFit`, `TreeIsWhole`, `ListsAgree`, `HalCatchesUp`, `KeepsTreeContract`, `SettingBackIsSilent` |

Why the bounds are enough. Two copies and four indices make every overlap of a
getter with the present, the next and the one after next `Set` reachable, and
the index wraps; the proofs cover every other size. In `Dispatcher` one thread
looks up while one registers and one unregisters, or waits to; two identifiers
are only needed to tell a wrong answer from a right one, which two threads can
do (`Bound` in `MCDispatcher`); the proofs cover any number of both. In `IdAllocator` five objects fill the bitset beyond
the hint, so the scan wraps and the maximum grows. In `DeviceConfig` three moves
are add, remove, add again while old requests are still with the HAL. In
`AsyncSetter` four calls are two sets overtaken by a removal and an addition. In
`DeviceStreams` one user is enough, since every operation of the plugin has the
device's `writeMutex_` from its first step to its last and the HAL's thread and
the realtime reader are there as well; four calls are adding with controls,
removing, and adding again while changes are pending, around two moves. In
`DeviceIO` two clients are the first and another, the last and another; ten
instants at the two rates are several periods of which one is no whole number of
ticks. The proofs cover any number of clients, rates and ticks.

In `HalView` the watched properties are one of every kind: a list, two flags of
a device, a flag of a stream, one of a control, and the two scales of a volume.
Behaviours of different watched properties do not mix, as no setter touches
another's value. Calls begin only when they can matter to the session
(`ThreadMayStart`, `HalAsk`): a session about a property that no thread changes
is taken while none is in a call, and where devices share a UID or have none only
the watched list is read, since no other answer of the model depends on a UID. Only
`Device2` is destroyed (`DropDevice`),
and is the object of the call that removes what is not owned
(`RemoveNotOwned`). The HAL asks in every scope only where the code looks at the
scope (`AskedScopes`). It sets the ends of the scales, one step beyond, every
half decibel and what it knows (`HalValues`), and reads with the whole size or
half of it. The seven raw values satisfy `3 * Unit >= 2 * RawRange * RawRange`, as
do 24 bits for the ranges of a control; more than 30 decibels turn the transfer
function on.

Deadlock is checked except where calls are finitely many (`config_*`, `async_*`,
`streams_*`):
there a run ends when they are used up. That threads do not block each other is
what `EveryChangeEnds`, `EveryFunctionEnds` and `AddedIsPublished` say.

Each property of a passing run has a faulty variant of one definition
(`Bug...`, next to the definition it replaces) with which it fails.

### Fairness

- Getters: weak fairness of the steps inside `ReadLock` (a running thread runs).
  Nothing is assumed of setters; `GetterIsLockFree` is about the behaviours in
  which they stop, and `SetTerminates` assumes in its own antecedent that they
  are scheduled and that readers release their locks.
- `Dispatcher`: the same split between lookups and registration.
- `DeviceConfig`, `AsyncSetter`: threads that can go on do, and the HAL answers
  what it was asked (with perform or abort; or it forgets a removed device). No
  mutex is contended for ever, as calls are finite, so weak fairness is enough.
- `HalView`: threads that are in a call go on (`Continues`, `Sets`), and the HAL
  is initialized, serves notifications and finishes what it has begun to read.
  That changes are not begun for ever is in the antecedent of `HalCatchesUp`
  (`Quiet`), not in the fairness. No thread is assumed to begin anything.
- `DeviceStreams`: as `DeviceConfig`. `DeviceIO` has no liveness property and no fairness.

## Proofs

`DoubleBufferProofs` proves, for any sets of threads and values and any odd
`MaxIndex`:

- `Invariance`: `Spec => []IInv`;
- `TypeCorrect`, `CopiesAreNotRaced`, `SnapshotsAreStable`,
  `ReplacedValuesAreGone`: type correctness and the safety
  properties of `double_buffer`.

The same module proves `Refinement`, `Spec => ImplementsRegister`: the first states
correspond, and each step is one of the register or a stutter (`NextRefines`).

The safety properties are not inductive. Take `HeldValueIsStable`: a getter at
`locked` whose copy carries its index becomes a reader, so one must know that the
value is still the sampled one at that moment (`AttemptInv`); that in turn needs
that an announced index is in no getter's hands (`AnnounceInv`, from the
alternation of copies and `NotLapped`), that an exclusive holder excludes shared
ones (`LockInv`), that only the holder of `writeMutex_` writes (`SetterInv`),
and what the other copy contains at each place of the setter (`CopiesInv`).
`HolderInv` is for `OldValueIsGone`: a reference to a replaced value is in use
only until the setter has waited for it. `IInv` is their conjunction, checked by
TLC in `double_buffer`. The arithmetic that the proof rests on is in two lemmas about
`NextIndex`: the next index is in the other copy, also at the wrap, because
`MaxIndex` is odd.

The assumptions are those of the module `DoubleBuffer` (`MaxIndex` odd, as for
any signed type, `NoValue` not a value, `NoWriter` not a writer).

`DeviceIOProofs` proves, for any finite set of clients and any rates, period and
clock: `Invariance` (`Spec => []IInv`), `TypeCorrect`, and
`HandlerAlternatesAlways`, `RunningIsNotifiedAlways`, `IOIsServedAlways`,
`ClientsAreKeptAlways`: the safety properties of `device_io` about counters, and
that no client is lost (a part of `IInv`). These speak of the moments between
calls; what makes them inductive is what holds inside. `CountInv` says which
clients `startCount_` counts at each step, `HandlerInv` that the handler is ahead of the counter both ways (started
before it leaves zero, stopped before it comes back), `EdgeInv` that `isStarting`
and `isStopping` stay true to the counter until the notification, which is why
`ioMutex_` must cover the whole call, and `NotifiedInv` who owes the HAL a
notification. `LockInv` and `ClientInv` are for the mutexes and for the copy of
the map. `StampIsOfThePresentAlways` and `StampsAlwaysAdvance` rest on `ClockInv`: while
I/O runs the last timestamp is that of the period that is counted, at the rate
the device has, and it was of its moment when it was given. The ticks of a period
need not be a whole number; `TicksStep` bounds the distance of two periods after
each has been rounded from the anchor. The assumptions are `IOAssumption`.

`DispatcherProofs` proves, for any threads, objects and identifiers,
`Invariance`, and from it `NeverAccessedAfterUnregister`, `AliveIsFound` and
`FoundIsTheOne`: the three safety properties of `dispatcher`. The
properties speak of one moment of a lookup, which depends on the map it took some
time ago. `SeenInv` says that this is the present map, or the one just before it
while `Set` has not returned: that is what the waiting of `Set` buys, and
everything else rests on it. `MapInv` says which objects the present map has
(`Carries`), by the place of whoever constructs or destroys them; an object that
a lookup has locked is still carried or just being erased (`Erasing`,
`RegistrationInv`), since its destructor waits for the lock. `SteadyInv` says that
an object alive during the whole call is in what the lookup has seen. `LifeInv`
and `AllocatedInv` say that nobody shares an object under construction and no
two objects an identifier; `MutexInv` that setters of the map are serialized.

`AsyncSetterProofs` proves, for any threads, values and number of calls and both
kinds of parameters, `Invariance` and `LastAcceptedAlwaysWins`. `QueueInv` says
that functions wait once each and in the order of acceptance, `AppliedInv` that
the parameter has the argument of the last one that has run and was not refused
by its `Set...Impl`, and `DeviceInv` that
functions wait for an unpublished device only while the thread that removed it
runs them; otherwise a setter that runs in place would overtake them.

`IdAllocatorProofs` proves, for chunks of any width, any hint and any bound on the
objects alive, `Invariance` and `NewIdIsAlwaysUnique`, if the only identifier an
object brings itself is a reserved one (`OnlyReservedIDsAreExplicit`; the library
does so for `kAudioObjectPlugInObject`, `Plugin.cpp:11`, and `ids_collision` shows
the failure otherwise), and `NothingLeaks`, if moreover the plugin object stays
and the counter does not overflow (`PlugInStays`). `FindFreeID` is a `CHOOSE`, which
says something only when what it chooses exists: the lemmas on visits show that
a scan which wraps reaches every chunk, so that it stops at a free identifier.
`CountInv` bounds the bitset by the number of objects alive at a time: the
maximum doubles only when half of it is in use.

`DeviceConfigProofs` proves, for any threads, devices, changes and number of moves,
`Invariance`, `OneFateAlways`, `InOrderAlways`, `PendingIsAlwaysAwaited` and
`RunsOnlyWhenSafeAlways`, all the safety properties of `config_safety`. Their
hypothesis `FunctionsOnlyRequest` says that the functions do nothing but request
further changes, each change by one call of one function, nested as deep as they
like. The instance of `config_safety` satisfies it; the function of
`config_selfremoval`, which removes its own device, does not, and there the
properties fail. Stacks have no bound, so the invariant speaks of frames by
their place: `StackInv` says which call may stand on which, `ExclusionInv` that the
frames of two threads do not hold the same mutex, `HostInv` and `OwnerInv` what is
known of the host and of the owner at each frame, `QueueInv` that the HAL still has
to answer for what is stored, in the order of the identifiers. `FateInv` and
`RequestInv` follow a change from its request to its end: a stored change is
neither applied nor aborted unless a frame is just running it, and the nested
changes of a function come after the function and in its order; `OrderInv` that
identifiers are in the order of requests.

`DeviceStreamsProofs` proves, for any users, streams, controls and bundles, and any
numbers of calls, moves and aborts, `Invariance`, `OwnedFollowsListedAlways`,
`CountersAlwaysMatch`, `PublishedStreamAlwaysWorks`, `ControlsAlwaysAttached`,
`ChannelsAlwaysDisjoint`, and `WaitsOnlyAfterAnAbort`: no thread waits for itself in
`AttachOwner`, unless the HAL aborted a change of the same object. `StreamsAssumption`
asks that the counters can hold the number of streams and that a control belongs
to one stream. The heart of the invariant is `DueInv`: the changes that are still
to run, with the one of a call on its way (`Due`), fit the owned objects, each
making a difference, and lead to what is listed. It is kept by appending at one
end (a request) and taking from the other (the HAL, or `RemoveDevice`), and leaves
out the objects of which a change was aborted. `ListsInv` says what a call has
listed at each of its steps, `CountInv` that the counters are ahead of the tree by
one step of a function, `ChannelInv` that a new stream begins beyond those listed.

`HalViewProofs` begins with what it composes. `TreeIsAlwaysWhole`,
`TreeSpec => []TreeIsWhole`, is for any threads and objects, with `TreeInv`: whoever
adds an object is the only one (`AddingInv`), and between the two halves of an edge
the object is listed and names nobody (`HalfInv`). `ScalarRoundTrip` and
`DecibelRoundTrip` are for every range of raw values and decibels: converting a
raw value and converting back gives the same raw value. The first needs
`3 * Unit >= 2 * RawRange * RawRange` (`VolumeAssumption`): neighbouring squares must
be told apart after rounding.

Of `HalView` it proves, for any threads, that every behaviour is one of `TreeSpec`
(`TreeContractIsKept`, a refinement in which the variables of the tree are the
same), and so that the HAL always sees a whole tree (`HalSeesWholeTree`).
`ListsAlwaysAgree` follows from `ListsInv`, which says how far each container is
ahead of the tree at each step of a call, for any assignment of UIDs. For any scale `SettingBackAlwaysSilent`
combines `SetInv` (what is stored is in range, and what the HAL sets back is what
it has read) with the round trips.

`AnswersAlwaysAgree` and `RepliesAlwaysFit` have two halves. `TablesAgree` is proved
of each class by going through its tables: the five switches are about the same
selectors and tell of the same sizes, and what can be set is what `SetPropertyData`
knows (`AllTablesAgree`). For the entries of such tables, and for custom
properties, `MethodsAgree` and `ReplyFits` say that the methods agree and that an
answer stays within any buffer, for any two numbers of values before and after;
the number matters only for the channel layout, which is returned whole and has
always two (`WholeListIsFixed`). `SessionInv` says of each answer in a session from
what it was computed: by the present tables as long as the object is there and no
property is registered (`SteadyInv`), by those of its moment otherwise (`FormInv`).

The invariants of these modules were model-checked on the instances of the
runs before they were proved. Every safety and action property of a passing run
is proved.

What is only model-checked is liveness: `GetterIsLockFree`, `SetTerminates`,
`FindNeedsNoOther`, `RegistrationEnds`, `EveryChangeEnds`, `EveryFunctionEnds`,
`AddedIsPublished` and `HalCatchesUp` need fairness and `ENABLED`, which the prover
does not handle.

## Findings

- `ids_collision`: an object that registers itself with an identifier of its own
  makes a later automatic registration fail; the new object gets identifier 0.
- `config_selfremoval`: a change that removes its own device runs twice.
- `async_stream`: a setter of a stream and the running function of an earlier one
  wait for each other (stream then device; device then stream).
- `streams_abort`: the HAL aborts the addition of a stream and performs its
  removal; the unsigned counter of streams wraps and the device says that it does I/O.

More were seen with TLC and have no run of their own. The counter of
identifiers wraps when an explicit identifier is freed (`Dispatcher.cpp:221`). A
function that removes its device can deadlock with a thread that moves devices
(`Device.cpp:1683` against `Plugin.cpp:156`). Setting a value and then the present
one again, while the first set is pending, succeeds twice and leaves the first
(`Device.g.cpp:53`, and its copies): the second set is compared with the value in
force and is never passed on, so `LastAcceptedWins` has nothing to say of it, and
no line of the repository promises another result. Of two devices with the same
UID, of which the second replaces the first in `deviceByUID_`, the one that stays
is listed but no longer found by its UID when the other is removed
(`Plugin.cpp:139`, `:196`); `Device.hpp:195` asks for UIDs that differ. An object that is added again to its own
owner, as happens when a removal was aborted, or that moves from one owner to
another, makes `AttachOwner` wait for a mutex that its thread has
(`Object.cpp:193` and `:179`): `KeepsTreeContract` shows that the plugin never
does so with devices, and `WaitsForItself` of `DeviceStreams` keeps it apart. A
custom property registered under a built-in selector that cannot be set is
reported as not settable, yet `SetPropertyData` reaches its setter.
`RegisterCustomProperty` notifies of nothing, so the HAL does not learn that
`CustomPropertyInfoList` has changed; no comment says that it should.

## Not modelled

- Tracer: every thread counts its own depth, and the count only decides what is
  logged.
- Storage: stateless; each method converts, makes one call of the storage of the
  host and releases what it converted. Strings with an embedded NUL are cut by
  the conversion (`Convert.cpp`), which no property distinguishes.
- Formatting and conversion between CoreFoundation and C++ values.
- COM in `Driver` (`QueryInterface`, `AddRef`, `Release`): a counter on which
  nothing depends. The jumpers other than those of properties forward to what
  `DeviceConfig` and `DeviceIO` model.
- The samples: mixing, formats of streams, `ApplyProcessing`, and
  `BeginIOOperation` and `EndIOOperation`, which do nothing in the library.
- Handlers that are replaced during I/O (`Device.cpp:910`, `:1177`): the examples
  set them before the device is added.
- A list of valid values that changes between the check of a request and its
  function (`Device.g.cpp:196`; for streams, `Stream.cpp:78-96` and `:132-150`,
  which look at the available formats of the moment): the set is fixed in
  `AsyncSetter`.
- Statuses of setters behind `SetPropertyData`: a session of `HalView` keeps the
  status of the checks before the setter (`set` in `AnswersAgree`), and the HAL
  learns by notification or reading whether the setter has stored the value.
- User functions that call back into the object whose snapshot they are called
  under (`DoubleBuffer.hpp:275`).
- Changes requested while `Initialize` runs: `HalConnects` of `DeviceConfig` waits
  for the plugin's threads; `InitializeJumper` of `HalView` does not, and covers
  notifications and lists, not the queue of changes.
- Memory orders weaker than sequential consistency (the code uses none that
  matters), and the 2^63 wrap of an index under a suspended getter (`NotLapped`).

What a continuation would take first: the lifetime of handlers on
`SnapshotRegister`, two dependent parameters in `AsyncSetter`, and the functions
that remove other devices than their own, which `FunctionsOnlyRequest` leaves out.
