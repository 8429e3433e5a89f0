------------------------------ MODULE HalView ------------------------------
(***************************************************************************)
(* What the HAL sees of a plugin: it calls the property methods of objects *)
(* by their identifiers (src/Bridge.g.cpp), while threads of the plugin    *)
(* add and remove devices (src/Plugin.cpp), set values (the synchronous    *)
(* setters of src/*.g.cpp and of VolumeControl), register custom           *)
(* properties and drop objects; what they change they announce with        *)
(* NotifyPropertiesChanged.  Composes ObjectTree, PropertyTables and       *)
(* VolumeCurve.                                                            *)
(*                                                                         *)
(* In each behaviour the HAL watches one property: it knows its value and  *)
(* reads it again when it is told to.  The threads of the plugin do what   *)
(* can change that property.  Lookup of an object and the containers are   *)
(* one step here; they are the subject of Dispatcher and DoubleBuffer.     *)
(*                                                                         *)
(* Definitions named Bug... are faulty variants of the definition that     *)
(* follows them, kept to show that the properties can fail.                *)
(***************************************************************************)
EXTENDS Integers, Sequences, FiniteSets, ObjectTree, PropertyTables, VolumeCurve

CONSTANTS
  Plugin, Home, Device2,     \* objects of the tree ...
  Stream, Volume, Mute,      \* ... and what belongs to the device Home
  Hal,                       \* the thread of the HAL
  Watchable,                 \* properties, as <<object, selector>>
  DeviceUIDs,                \* what GetDeviceUID may answer: a UID of each device
  CustomSelector             \* a selector no class has

Devices == {Home, Device2}
Parts == {Stream, Volume, Mute}
AllObjects == {Plugin} \union Devices \union Parts
AllThreads == Threads \union {Hal}

NoUID == ""

ASSUME ViewAssumption ==
  /\ Objects = {Plugin} \union Devices
  /\ Hal \notin Threads
  /\ CustomSelector \notin UNION {SelectorsOf(c) : c \in Classes}
  /\ Plugin \notin Devices \union Parts /\ Home # Device2
  /\ \A w \in Watchable :
       /\ w[1] \in AllObjects
       /\ w[1] = Plugin <=> w[2] = "DeviceList"
       /\ w[1] = Volume <=> w[2] \in {"ScalarValue", "DecibelValue"}

VARIABLES
  listed,       \* Plugin::devices_, deviceByID_ and deviceByUID_
  pluginMutex,  \* Plugin::writeMutex_
  alive,        \* objects the dispatcher finds
  value,        \* the member behind the watched property, if it is a number
  valueMutex,   \* writeMutex_ of the class of the watched object
  custom,       \* customProps_ of the watched object
  pc, arg,      \* per thread: place, and the device or the value of a call
  driver,       \* loaded, initializing (Context::Host is set), running
  uid,          \* GetDeviceUID of each device
  watched,      \* the property the HAL watches
  known,        \* its value, as the HAL knows it
  pending,      \* the HAL has been notified of a change of it
  session,      \* the calls of the HAL about one property
  echo          \* the value the HAL sets is the one it knows

viewVars == <<listed, pluginMutex, alive, value, valueMutex, custom, pc, arg,
              driver, uid, watched, known, pending, session, echo>>
vars == <<treeVars, viewVars>>

object == watched[1]
selector == watched[2]

ClassOf(o) ==
  IF o = Plugin THEN "Plugin" ELSE IF o \in Devices THEN "Device"
  ELSE IF o = Stream THEN "Stream" ELSE IF o = Volume THEN "VolumeControl"
  ELSE "MuteControl"

ScopeOf(o) ==
  IF o = Stream THEN "Input" ELSE IF o \in {Volume, Mute} THEN "Output" ELSE "Global"

IsVolume == object = Volume
IsList == object = Plugin

Containers == {"devices", "byID", "byUID"}

(* GetOwnedObjectIDs: the global scope stands for every scope.             *)
OwnedObjects(o) == IF o = Home THEN Parts ELSE IF o \in Objects THEN owned[o] ELSE {}
OwnedIn(o, scope) == {c \in OwnedObjects(o) : scope \in {"Global", ScopeOf(c)}}

CustomOf(o) == IF o = object THEN custom ELSE NoSelectors

(* How many values a property has.  Those that do not change in the model  *)
(* have two.                                                               *)
Count(o, s, scope) ==
  CASE s = "OwnedObjects" -> Cardinality(OwnedIn(o, scope))
    [] s = "Streams" -> Cardinality(OwnedIn(o, scope) \intersect {Stream})
    [] s = "ControlList" -> Cardinality(OwnedObjects(o) \intersect {Volume, Mute})
    [] s = "DeviceList" -> Cardinality(OwnedObjects(o) \intersect Devices)
    [] s = "CustomPropertyInfoList" -> Cardinality(DOMAIN CustomOf(o))
    [] OTHER -> 2

(* The value of the watched property.                                      *)
Current ==
  CASE selector = "DeviceList" -> OwnedObjects(Plugin) \intersect Devices
    [] selector = "ScalarValue" -> ConvertRawToScalar(value)
    [] selector = "DecibelValue" -> ConvertRawToDB(value)
    [] OTHER -> value

(* What a list answers that has room for n values.                         *)
FirstOf(list, n) == {s \in SUBSET list : Cardinality(s) = n}

NoSession == [step |-> "none"]

Init ==
  /\ TreeInit
  /\ listed = [c \in Containers |-> {}]
  /\ pluginMutex = NoThread
  /\ alive = AllObjects
  /\ valueMutex = NoThread
  /\ custom = NoSelectors
  /\ pc = [t \in AllThreads |-> "idle"]
  /\ arg = [t \in AllThreads |-> 0]
  /\ driver = "loaded"
  /\ watched \in Watchable
  /\ uid \in IF IsList THEN DeviceUIDs ELSE {[d \in Devices |-> NoUID]}
  /\ value = IF IsVolume THEN MaxRaw ELSE 0
  /\ known = Current
  /\ pending = FALSE
  /\ session = NoSession
  /\ echo = FALSE

Goto(t, from, to) ==
  /\ pc[t] = from
  /\ pc' = [pc EXCEPT ![t] = to]

(* NotifyPropertiesChanged, for the watched property: there is nobody to   *)
(* tell before Driver::InitializeJumper has set the host.                  *)
Notify == pending' = (pending \/ driver # "loaded")

halVars == <<driver, uid, watched, known, session, echo>>
setterVars == <<value, valueMutex, custom>>
pluginVars == <<listed, pluginMutex>>

-----------------------------------------------------------------------------
(* Plugin::AddDevice and Plugin::RemoveDevice.                             *)

Changing == IF IsList THEN {"DeviceList", "OwnedObjects", "Owner"} ELSE {selector}

(* Bound: no call begins while the HAL reads what no thread changes.       *)
ThreadMayStart == session.step # "none" => session.selector \in Changing

BugAddDevice(t, d) ==
  /\ IsList /\ d \in alive /\ ThreadMayStart
  /\ pluginMutex = NoThread
  /\ Goto(t, "idle", "listing")
  /\ pluginMutex' = t
  /\ arg' = [arg EXCEPT ![t] = d]
  /\ UNCHANGED <<treeVars, listed, alive, setterVars, pending, halVars>>
(* A device that has an owner already is not added again.                  *)
AddDevice(t, d) ==
  /\ IsList /\ d \in alive /\ ThreadMayStart
  /\ pluginMutex = NoThread /\ owner[d] = NoObject
  /\ Goto(t, "idle", "listing")
  /\ pluginMutex' = t
  /\ arg' = [arg EXCEPT ![t] = d]
  /\ UNCHANGED <<treeVars, listed, alive, setterVars, pending, halVars>>

(* The three containers one after the other, each with a Set.             *)
SetContainer(t, from, to, c, content) ==
  /\ Goto(t, from, to)
  /\ listed' = [listed EXCEPT ![c] = content]
  /\ UNCHANGED <<treeVars, pluginMutex, alive, setterVars, arg, pending, halVars>>

(* deviceByUID_ is a map from UIDs: a device replaces another of its UID,  *)
(* and one without UID is not entered.  What the UID of a device finds:    *)
SameUID(d) == {e \in Devices : uid[e] = uid[d] /\ uid[d] # NoUID}
HasOwnUID(d) == SameUID(d) = {d}

ListDevice(t) ==
  \/ SetContainer(t, "listing", "listingID", "devices", listed["devices"] \union {arg[t]})
  \/ SetContainer(t, "listingID", "listingUID", "byID", listed["byID"] \union {arg[t]})
  \/ SetContainer(t, "listingUID", "owning", "byUID",
                  (listed["byUID"] \ SameUID(arg[t])) \union (SameUID(arg[t]) \intersect {arg[t]}))

(* RequestOwnershipChange of the device calls AddOwnedObject of the plugin.*)
(* It tests again that there is no owner; the plugin's mutex leaves nothing*)
(* to do for that test, or for the same one of DisownDevice.               *)
OwnDevice(t) ==
  /\ Goto(t, "owning", "inTree")
  /\ AddOwnedObject(t, Plugin, arg[t])
  /\ UNCHANGED <<pluginVars, alive, setterVars, arg, pending, halVars>>

RemoveDevice(t, d) ==
  /\ IsList /\ d \in alive /\ ThreadMayStart
  /\ pluginMutex = NoThread /\ owner[d] # NoObject
  /\ Goto(t, "idle", "unlisting")
  /\ pluginMutex' = t
  /\ arg' = [arg EXCEPT ![t] = d]
  /\ UNCHANGED <<treeVars, listed, alive, setterVars, pending, halVars>>

BugUnlistDevice(t) ==
  \/ SetContainer(t, "unlisting", "unlistingID", "devices", listed["devices"] \ {arg[t]})
  \/ SetContainer(t, "unlistingID", "disowning", "byID", listed["byID"] \ {arg[t]})
UnlistDevice(t) ==
  \/ SetContainer(t, "unlisting", "unlistingID", "devices", listed["devices"] \ {arg[t]})
  \/ SetContainer(t, "unlistingID", "unlistingUID", "byID", listed["byID"] \ {arg[t]})
  \/ SetContainer(t, "unlistingUID", "disowning", "byUID", listed["byUID"] \ SameUID(arg[t]))

DisownDevice(t) ==
  /\ Goto(t, "disowning", "inTree")
  /\ RemoveOwnedObject(t, Plugin, arg[t])
  /\ UNCHANGED <<pluginVars, alive, setterVars, arg, pending, halVars>>

(* The steps of AddOwnedObject and RemoveOwnedObject.                      *)
ChangeTree(t) ==
  /\ pc[t] \in {"inTree", "removing"}
  /\ TreeStep(t)
  /\ UNCHANGED viewVars

BugNotifyDevices(t) ==
  /\ Goto(t, "inTree", "idle") /\ at[t] = "idle"
  /\ pluginMutex' = NoThread
  /\ arg' = [arg EXCEPT ![t] = 0]
  /\ UNCHANGED <<treeVars, listed, alive, setterVars, pending, halVars>>
NotifyDevices(t) ==
  /\ Goto(t, "inTree", "idle") /\ at[t] = "idle"
  /\ Notify
  /\ pluginMutex' = NoThread
  /\ arg' = [arg EXCEPT ![t] = 0]
  /\ UNCHANGED <<treeVars, listed, alive, setterVars, halVars>>

(* RemoveOwnedObject is public: a call of Home for a device that Home does *)
(* not own.  Bound: it begins when the HAL reads nothing.                  *)
RemoveNotOwned(t) ==
  /\ IsList /\ session.step = "none"
  /\ Goto(t, "idle", "removing")
  /\ RemoveOwnedObject(t, Home, Device2)
  /\ UNCHANGED <<pluginVars, alive, setterVars, arg, pending, halVars>>

RemovedNothing(t) ==
  /\ Goto(t, "removing", "idle") /\ at[t] = "idle"
  /\ UNCHANGED <<treeVars, pluginVars, alive, setterVars, arg, pending, halVars>>

(* The plugin drops its last pointer to a device, and with it the objects  *)
(* the device owns, when no thread is in a call of it.                     *)
(* Bound: only Device2 goes.                                               *)
DropDevice(d) ==
  /\ IsList /\ d \in alive \intersect {Device2}
  /\ d \notin owned[Plugin] /\ \A c \in Containers : d \notin listed[c]
  /\ \A t \in Threads : arg[t] # d
  /\ alive' = alive \ ({d} \union OwnedObjects(d))
  /\ session' = IF session.step = "none" THEN session
                ELSE [session EXCEPT !.steady = @ /\ session.object \in alive']
  /\ UNCHANGED <<treeVars, pluginVars, setterVars, pc, arg, driver, uid, watched, known, pending,
                 echo>>

-----------------------------------------------------------------------------
(* The synchronous setters: SetIsIdentifying, SetIsActive, SetIsMuted,     *)
(* SetRawValue.  They compare and set with the mutex of their class, and   *)
(* notify before they let it go.                                           *)

(* What the ...Impl method stores.                                         *)
Stored(x) == IF IsVolume THEN ClampedRaw(x) ELSE x

(* Bound: a thread of the plugin sets 0, 1 or the first raw value that is  *)
(* out of range.                                                           *)
SetValue(t, x) ==
  /\ ~IsList
  /\ ThreadMayStart
  /\ Goto(t, "idle", "setting")
  /\ arg' = [arg EXCEPT ![t] = x]
  /\ UNCHANGED <<treeVars, pluginVars, alive, setterVars, pending, halVars>>

(* "value not changed"                                                     *)
KeepValue(t) ==
  /\ Goto(t, "setting", "idle")
  /\ valueMutex = NoThread /\ arg[t] = value
  /\ arg' = [arg EXCEPT ![t] = 0]
  /\ UNCHANGED <<treeVars, pluginVars, alive, setterVars, pending, halVars>>

(* The ...Impl method, which a user may override, fails; that of           *)
(* SetIsIdentifying always does unless it is overridden.                   *)
RejectValue(t) ==
  /\ Goto(t, "setting", "idle")
  /\ valueMutex = NoThread /\ arg[t] # value
  /\ arg' = [arg EXCEPT ![t] = 0]
  /\ UNCHANGED <<treeVars, pluginVars, alive, setterVars, pending, halVars>>

StoreValue(t) ==
  /\ Goto(t, "setting", "stored")
  /\ valueMutex = NoThread /\ arg[t] # value
  /\ valueMutex' = t
  /\ value' = Stored(arg[t])
  /\ UNCHANGED <<treeVars, pluginVars, alive, custom, arg, pending, halVars>>

NotifyValue(t) ==
  /\ Goto(t, "stored", "idle")
  /\ Notify
  /\ valueMutex' = NoThread
  /\ arg' = [arg EXCEPT ![t] = 0]
  /\ UNCHANGED <<treeVars, pluginVars, alive, value, custom, halVars>>

(* Object::RegisterCustomProperty, which notifies of nothing.              *)
RegisterCustomProperty(a) ==
  /\ object = Mute
  /\ custom' = Sole(CustomSelector, a) ++ custom
  /\ session' = IF session.step = "none" THEN session
                ELSE [session EXCEPT !.steady = FALSE]
  /\ UNCHANGED <<treeVars, pluginVars, alive, value, valueMutex, pc, arg,
                 driver, uid, watched, known, pending, echo>>

-----------------------------------------------------------------------------
(* Driver::InitializeJumper stores the host and then calls OnInitialize,   *)
(* while other threads of the plugin may run; when it returns the HAL looks*)
(* for the first time.                                                     *)
InitializeJumper ==
  /\ \/ driver = "loaded" /\ driver' = "initializing" /\ UNCHANGED pending
     \/ driver = "initializing" /\ driver' = "running" /\ pending' = TRUE
  /\ UNCHANGED <<treeVars, pluginVars, alive, setterVars, pc, arg, uid, watched, known,
                 session, echo>>

(* Bridge: the calls of the HAL.  In a session, there is history: the      *)
(* number of values there were when the property was read.                 *)

Found(o) == o \in alive

Begin(o, s, scope) ==
  /\ driver = "running" /\ session.step = "none" /\ pc[Hal] = "idle"
  /\ session' =
       [step |-> "has", object |-> o, selector |-> s, scope |-> scope, steady |-> Found(o),
        has |-> Found(o) /\ HasProperty(ClassOf(o), CustomOf(o), s, scope),
        settable |-> [status |-> BadObject, settable |-> FALSE],
        size |-> [status |-> BadObject, size |-> 0],
        buffer |-> 0, data |-> Failed(BadObject), there |-> 0, set |-> BadObject]
  /\ UNCHANGED <<treeVars, pluginVars, alive, setterVars, pc, arg, driver, uid, watched, known,
                 echo>>

(* The HAL asks about any property of the watched object, about the device *)
(* that comes and goes, and about a property nobody has; in every scope if *)
(* a method looks at the scope.                                            *)
(* Bounds: when it asks about a property that no thread changes, no thread *)
(* is in a call; and it asks a plugin only if each device has a UID of its *)
(* own, since sizes and lists do not depend on UIDs.                       *)
Asked(o) ==
  IF o = object THEN SelectorsOf(ClassOf(o)) \union {CustomSelector}
  ELSE IF IsList /\ o = Device2 THEN {"Owner", "PreferredChannelLayout"}
  ELSE {}

AskedScopes(o, s) ==
  IF s \in ScopedTable[ClassOf(o)] \union {"OwnedObjects", "Streams"}
  THEN Scopes ELSE {"Global"}

HalAsk ==
  /\ ~pending /\ session.step = "none" /\ pc[Hal] = "idle"
  /\ IsList => \A d \in Devices : HasOwnUID(d)
  /\ \E o \in AllObjects : \E s \in Asked(o) : \E scope \in AskedScopes(o, s) :
       /\ \/ s \in Changing
          \/ \A t \in Threads : pc[t] = "idle"
       /\ Begin(o, s, scope)
  /\ UNCHANGED pending

(* External: it serves a notification before it goes on.                   *)
HalRefresh ==
  /\ pending
  /\ Begin(object, selector, "Global")
  /\ pending' = FALSE

Ask(from, to, answers) ==
  /\ session.step = from
  /\ session' = [f \in DOMAIN session |->
                   IF f = "step" THEN to
                   ELSE IF Found(session.object) /\ f \in DOMAIN answers THEN answers[f]
                   ELSE session[f]]
  /\ UNCHANGED <<treeVars, pluginVars, alive, setterVars, pc, arg, driver, uid, watched, pending,
                 echo>>

HalIsPropertySettable ==
  /\ Ask("has", "settable",
         [settable |-> IsPropertySettable(ClassOf(session.object), CustomOf(session.object),
                                          session.selector)])
  /\ UNCHANGED known

HalGetPropertyDataSize ==
  /\ Ask("settable", "sized",
         [size |-> GetPropertyDataSize(
                     ClassOf(session.object), CustomOf(session.object), session.selector,
                     Count(session.object, session.selector, session.scope))])
  /\ UNCHANGED known

Watching ==
  /\ session.step # "none"
  /\ session.object = object /\ session.selector = selector
  /\ session.scope = "Global"

(* The buffer has the size the HAL was told, or half of it.                *)
HalGetPropertyData ==
  LET o == session.object
      count == Count(o, session.selector, session.scope)
      Answer(buffer) ==
        GetPropertyData(ClassOf(o), CustomOf(o), session.selector, count, buffer)
  IN  session.step = "sized" /\ \E parts \in IF Watching THEN {1} ELSE {1, 2} :
        LET buffer == session.size.size \div parts
        IN  /\ Ask("sized", "answered",
                   [buffer |-> buffer, data |-> Answer(buffer), there |-> count])
            /\ IF Watching /\ Answer(buffer).status = NoError
               THEN IF IsList
                    THEN known' \in FirstOf(Current, Answer(buffer).count)
                    ELSE known' = Current
               ELSE UNCHANGED known

(* The HAL tries to set the property, with as many bytes as it was told.   *)
(* What is kept is the status of the checks before the setter, which may   *)
(* still refuse the value.                                                 *)
HalTrySetPropertyData ==
  /\ Watching => ~session.settable.settable
  /\ Ask("answered", "done",
         [set |-> CheckSetPropertyData(ClassOf(session.object), CustomOf(session.object),
                                       session.selector, session.size.size)])
  /\ UNCHANGED known

(* SetPropertyData of the watched property goes through to its setter; x is*)
(* a number of the HAL, which the handler or the setter converts.          *)
SetterArgument(x) ==
  CASE selector = "ScalarValue" -> ConvertScalarToRaw(x)
    [] selector = "DecibelValue" -> ConvertDBToRaw(x)
    [] OTHER -> IF x = 0 THEN 0 ELSE 1

HalSetPropertyData(x) ==
  LET status == CheckSetPropertyData(ClassOf(object), custom, selector, session.size.size)
  IN  /\ session.step = "answered" /\ Watching /\ session.settable.settable
      /\ status = NoError
      /\ session' = [session EXCEPT !.step = "done", !.set = status]
      /\ pc' = [pc EXCEPT ![Hal] = "setting"]
      /\ arg' = [arg EXCEPT ![Hal] = SetterArgument(x)]
      /\ echo' = (x = known)
      /\ UNCHANGED <<treeVars, pluginVars, alive, setterVars, driver, uid, watched, known, pending>>

HalDone ==
  /\ session.step \in {"answered", "done"} /\ pc[Hal] = "idle"
  /\ session' = NoSession
  /\ echo' = FALSE
  /\ UNCHANGED <<treeVars, pluginVars, alive, setterVars, pc, arg, driver, uid, watched, known,
                 pending>>

(* Bound: values at the ends of the scales and one step beyond.            *)
HalValues ==
  CASE selector = "ScalarValue" -> (0 .. Unit) \union {-1, Unit + 1}
    [] selector = "DecibelValue" ->
         {Unit * MinDB + ((i * Unit) \div 2) : i \in -1 .. 2 * DBRange + 1} \union {known}
    [] OTHER -> 0..2

UserValues == IF IsVolume THEN {MinRaw, MinRaw + 1, MaxRaw + 1} ELSE {0, 1}

-----------------------------------------------------------------------------
Starts(t) ==
  \/ \E d \in Devices : AddDevice(t, d) \/ RemoveDevice(t, d)
  \/ RemoveNotOwned(t)
  \/ \E x \in UserValues : SetValue(t, x)

Continues(t) ==
  \/ ListDevice(t) \/ OwnDevice(t) \/ UnlistDevice(t) \/ DisownDevice(t)
  \/ ChangeTree(t) \/ NotifyDevices(t) \/ RemovedNothing(t)

Sets(t) == KeepValue(t) \/ RejectValue(t) \/ StoreValue(t) \/ NotifyValue(t)

HalSets == \E x \in HalValues : HalSetPropertyData(x)

HalReads ==
  \/ HalIsPropertySettable \/ HalGetPropertyDataSize
  \/ HalGetPropertyData \/ HalDone

Next ==
  \/ \E t \in Threads : Starts(t) \/ Continues(t)
  \/ \E t \in AllThreads : Sets(t)
  \/ \E d \in Devices : DropDevice(d)
  \/ \E a \in Accessors : RegisterCustomProperty(a)
  \/ InitializeJumper \/ HalAsk \/ HalRefresh \/ HalReads \/ HalTrySetPropertyData \/ HalSets

(* Threads that are in a call are scheduled, and so is the HAL, which also *)
(* initializes the driver.                                                 *)
Fairness ==
  /\ \A t \in Threads : WF_vars(Continues(t))
  /\ \A t \in AllThreads : WF_vars(Sets(t))
  /\ WF_vars(InitializeJumper) /\ WF_vars(HalRefresh) /\ WF_vars(HalReads)

Spec == Init /\ [][Next]_vars /\ Fairness

-----------------------------------------------------------------------------
(* The five methods of a class are five switches, and a property read in   *)
(* several calls: for an object that was there all the time, what          *)
(* HasProperty announces can be read with a buffer of the size that        *)
(* GetPropertyDataSize tells, unless it is a custom property without       *)
(* getter; what it denies cannot, unless it is a property of the input and *)
(* output scopes; and IsPropertySettable says whether SetPropertyData will *)
(* hand a value of this size to a setter.                                  *)
AnswersAgree ==
  LET s == session
      class == ClassOf(s.object)
      writeOnly == /\ s.selector \in DOMAIN CustomOf(s.object)
                   /\ ~custom[s.selector].getter
  IN  s.step = "done" /\ s.steady =>
        /\ s.has =>
             /\ s.settable.status = NoError /\ s.size.status = NoError
             /\ s.buffer = s.size.size /\ ~writeOnly => s.data.status = NoError
        /\ ~s.has =>
             \/ s.selector \in ScopedTable[class]
             \/ s.data.status # NoError /\ s.size.status # NoError
        /\ s.settable.settable <=> s.set = NoError

(* Lists change between the call that asks for the size and the one that   *)
(* reads: an answer never exceeds the buffer, and falls short of it only   *)
(* if there is no further value, or no room for a whole one.               *)
RepliesFit ==
  LET s == session
      e == Entry(DataTable, ClassOf(s.object), s.selector)
  IN  s.step \in {"answered", "done"} /\ s.data.status = NoError =>
        /\ s.data.size <= s.buffer
        /\ InTable(DataTable, ClassOf(s.object), s.selector) /\ e.form = "list" =>
             s.data.count = s.there \/ s.data.size + e.size > s.buffer

(* What the HAL knows of the property it watches becomes true again, once  *)
(* no more changes are begun: every change is announced, and not before it *)
(* can be read, whichever threads make it and however the reads of the HAL *)
(* fall into it.                                                           *)
Quiet ==
  <>[][\A t \in AllThreads : pc[t] = "idle" => pc'[t] = "idle"]_vars

HalCatchesUp == Quiet => <>[](known = Current)

(* What container c of the plugin has if the plugin has these devices.  By *)
(* UID, at most one device of each UID is found, and none without UID; one *)
(* whose UID no other device has is found.                                 *)
Holds(c, devices) ==
  IF c # "byUID" THEN listed[c] = devices
  ELSE /\ listed[c] \subseteq devices
       /\ \A d \in listed[c] : SameUID(d) \intersect listed[c] = {d}
       /\ \A d \in devices : HasOwnUID(d) => d \in listed[c]

(* Between two calls, GetDeviceCount, HasDevice, GetDeviceIDByUID and the  *)
(* list of devices, which read three containers and the tree, tell of the  *)
(* same devices, and of devices that are there: a device that was removed  *)
(* is not found by its UID either, even if another has the same, and a     *)
(* device that shares its UID with none is found as long as it is listed.  *)
ListsAgree ==
  pluginMutex = NoThread =>
    /\ owned[Plugin] \subseteq alive
    /\ \A c \in Containers : Holds(c, owned[Plugin])

(* The callers respect the contract of ObjectTree: whatever the threads of *)
(* the plugin do, AddOwnedObject is called for objects that have no owner, *)
(* or the thread would wait for itself in AttachOwner.                     *)
KeepsTreeContract == TreeSpec

(* A HAL that sets the value it has read changes nothing and is told of    *)
(* nothing: rounding from scalar or decibels to raw and back does not make *)
(* the volume drift, and no two programs chase each other's notifications. *)
SettingBackIsSilent ==
  [][echo /\ known = Current /\ pc[Hal] = "setting" => pc'[Hal] # "stored"]_vars

-----------------------------------------------------------------------------
(* The inductive invariant, of the calls of the plugin's threads.          *)

Listing == {"listing", "listingID", "listingUID", "owning"}
Unlisting == {"unlisting", "unlistingID", "unlistingUID", "disowning"}
InPlugin == Listing \union Unlisting \union {"inTree"}

(* A thread is in the tree as a call of the plugin's, with its mutex, or as*)
(* a call of Home, which owns nothing in the tree.                         *)
CallInv ==
  /\ DOMAIN pc = AllThreads /\ DOMAIN arg = AllThreads
  /\ \A t \in Threads :
       /\ at[t] # "idle" =>
            \/ pc[t] = "inTree" /\ parent[t] = Plugin /\ child[t] = arg[t]
            \/ pc[t] = "removing" /\ parent[t] = Home /\ at[t] = "removing"
       /\ pc[t] \in InPlugin =>
            pluginMutex = t /\ arg[t] \in Devices /\ arg[t] \in alive
  /\ \A o \in Objects \ {Plugin} : owned[o] = {}
  /\ owned[Plugin] \subseteq Devices \intersect alive

(* The device that is being added is in no tree.                           *)
ListingInv ==
  \A t \in Threads :
    pc[t] \in Listing => owner[arg[t]] = NoObject /\ arg[t] \notin owned[Plugin]

(* The containers that a thread has changed already, and what they have.   *)
Passed(step) ==
  CASE step \in {"listing", "unlisting"} -> {}
    [] step \in {"listingID", "unlistingID"} -> {"devices"}
    [] step \in {"listingUID", "unlistingUID"} -> {"devices", "byID"}
    [] OTHER -> Containers

ContentInv ==
  /\ DOMAIN listed = Containers
  /\ \A c \in Containers :
       /\ pluginMutex = NoThread => Holds(c, owned[Plugin])
       /\ \A t \in Threads :
            /\ pc[t] \in Listing =>
                 Holds(c, owned[Plugin] \union (IF c \in Passed(pc[t]) THEN {arg[t]} ELSE {}))
            /\ pc[t] \in Unlisting =>
                 Holds(c, owned[Plugin] \ (IF c \in Passed(pc[t]) THEN {arg[t]} ELSE {}))
            /\ pc[t] = "inTree" =>
                 Holds(c, CASE at[t] = "adding" -> owned[Plugin] \union {arg[t]}
                            [] at[t] \in {"removing", "detached"} -> owned[Plugin] \ {arg[t]}
                            [] OTHER -> owned[Plugin])

ListsInv == CallInv /\ ListingInv /\ ContentInv

(* What is set, and by whom.                                               *)
InScale(x) == IF IsVolume THEN x \in MinRaw .. MaxRaw ELSE x \in {0, 1}

SetInv ==
  /\ watched \in Watchable /\ "step" \in DOMAIN session
  /\ DOMAIN pc = AllThreads /\ DOMAIN arg = AllThreads
  /\ InScale(value) /\ (IsVolume => known \in Int)
  /\ object # Mute => custom = NoSelectors
  /\ pc[Hal] # "idle" => session.step = "done"
  /\ \A t \in AllThreads :
       pc[t] \in {"setting", "stored"} =>
         ~IsList /\ IF IsVolume THEN arg[t] \in Int ELSE arg[t] \in {0, 1}
  /\ echo /\ pc[Hal] = "setting" => arg[Hal] = SetterArgument(known)

(* What the calls of a session have answered so far, and from what: each   *)
(* answer of a steady session from the tables and from what the object has *)
(* now, each number of values from the moment of its own call.  A device   *)
(* has two values of the only list that is returned as a whole.            *)
CustomMaps == [{} -> Accessors] \union [{CustomSelector} -> Accessors]
Fields == {"step", "object", "selector", "scope", "steady", "has", "settable", "size",
           "buffer", "data", "there", "set"}
WholeListIsFixed(s, n) == s = "PreferredChannelLayout" => n = 2

FormInv ==
  LET s == session IN
  /\ custom \in CustomMaps
  /\ s.step # "none" =>
       /\ s.step \in {"has", "settable", "sized", "answered", "done"}
       /\ Fields \subseteq DOMAIN s /\ s.object \in AllObjects
       /\ s.size.size \in Nat /\ s.buffer \in Nat /\ s.there \in Nat
       /\ \/ s.data = Failed(BadObject)
          \/ /\ s.step \in {"answered", "done"}
             /\ \E properties \in CustomMaps :
                  s.data = GetPropertyData(ClassOf(s.object), properties, s.selector,
                                           s.there, s.buffer)

SteadyInv ==
  LET s == session
      class == ClassOf(s.object)
      properties == CustomOf(s.object)
  IN  s.step # "none" /\ s.steady =>
        /\ s.object \in alive
        /\ s.has = HasProperty(class, properties, s.selector, s.scope)
        /\ s.step # "has" => s.settable = IsPropertySettable(class, properties, s.selector)
        /\ s.step \notin {"has", "settable"} =>
             \E n \in Nat :
               /\ WholeListIsFixed(s.selector, n)
               /\ s.size = GetPropertyDataSize(class, properties, s.selector, n)
        /\ s.step \in {"answered", "done"} =>
             /\ WholeListIsFixed(s.selector, s.there)
             /\ s.data = GetPropertyData(class, properties, s.selector, s.there, s.buffer)
        /\ s.step = "done" =>
             s.set = CheckSetPropertyData(class, properties, s.selector, s.size.size)

SessionInv == FormInv /\ SteadyInv
=============================================================================
