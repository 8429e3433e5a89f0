--------------------------- MODULE PropertyTables ---------------------------
(***************************************************************************)
(* The property handlers of aspl::Object, Plugin, Device, Stream,          *)
(* VolumeControl and MuteControl (src/*.g.cpp).  A class has five methods, *)
(* HasProperty, IsPropertySettable, GetPropertyDataSize, GetPropertyData   *)
(* and SetPropertyData, and each is a switch of its own over the selectors:*)
(* a table here, one for every class and method, taken from its switch.    *)
(* What no table of the class has goes to the tables of Object, and from   *)
(* there to the custom properties (the ...Fallback methods of Object.cpp). *)
(*                                                                         *)
(* A property has one value of some size, or a list of values of which as  *)
(* many are returned as fit, or a list that is returned as a whole.        *)
(***************************************************************************)
EXTENDS Integers

Classes == {"Object", "Plugin", "Device", "Stream", "VolumeControl", "MuteControl"}
Scopes == {"Global", "Input", "Output"}

One(size) == [form |-> "one", size |-> size]
List(size) == [form |-> "list", size |-> size]
Whole(size) == [form |-> "whole", size |-> size]

(* sizeof                                                                  *)
UInt8 == 1
UInt32 == 4
Float32 == 4
Float64 == 8
ClassID == 4
ObjectID == 4
CFRef == 8
ValueRange == 16
StreamFormat == 40
RangedFormat == 56
CustomInfo == 12

NoSelectors == [s \in {} |-> 0]

(* The parts of a table, put together by ++ as by @@ of TLC, for which the *)
(* provers have no definition.                                             *)
Sole(selector, entry) == [s \in {selector} |-> entry]
f ++ g ==
  [s \in DOMAIN f \union DOMAIN g |-> IF s \in DOMAIN f THEN f[s] ELSE g[s]]

-----------------------------------------------------------------------------
(* Object::..., the properties of every object.                            *)
ObjectHas == {"Class", "BaseClass", "Owner", "OwnedObjects", "CustomPropertyInfoList"}

ObjectSettable ==
  [s \in {"Class", "BaseClass", "Owner", "OwnedObjects", "CustomPropertyInfoList"} |-> FALSE]

ObjectSize ==
  Sole("Class", One(ClassID)) ++ Sole("BaseClass", One(ClassID)) ++ Sole("Owner", One(ObjectID))
    ++ Sole("OwnedObjects", List(ObjectID)) ++ Sole("CustomPropertyInfoList", List(CustomInfo))

ObjectData ==
  Sole("Class", One(ClassID)) ++ Sole("BaseClass", One(ClassID)) ++ Sole("Owner", One(ObjectID))
    ++ Sole("OwnedObjects", List(ObjectID)) ++ Sole("CustomPropertyInfoList", List(CustomInfo))

ObjectSet == NoSelectors

-----------------------------------------------------------------------------
(* Plugin::...                                                             *)
PluginHas == {"Manufacturer", "ResourceBundle", "DeviceList", "TranslateUIDToDevice"}

PluginSettable ==
  [s \in {"Manufacturer", "ResourceBundle", "DeviceList", "TranslateUIDToDevice"} |-> FALSE]

PluginSize ==
  Sole("Manufacturer", One(CFRef)) ++ Sole("ResourceBundle", One(CFRef))
    ++ Sole("DeviceList", List(ObjectID)) ++ Sole("TranslateUIDToDevice", One(ObjectID))

PluginData ==
  Sole("Manufacturer", One(CFRef)) ++ Sole("ResourceBundle", One(CFRef))
    ++ Sole("DeviceList", List(ObjectID)) ++ Sole("TranslateUIDToDevice", One(ObjectID))

PluginSet == NoSelectors

-----------------------------------------------------------------------------
(* Device::..., each method in three parts that follow the source.         *)
DeviceHasIdentity ==
  {"Name", "Manufacturer", "DeviceUID", "ModelUID", "SerialNumber", "FirmwareVersion",
   "Icon", "ConfigurationApplication", "TransportType", "RelatedDevices"}
DeviceHasTiming ==
  {"ClockIsStable", "ClockAlgorithm", "ClockDomain", "ZeroTimeStampPeriod",
   "NominalSampleRate", "AvailableNominalSampleRates"}
DeviceHasStatus ==
  {"DeviceIsRunning", "Identify", "DeviceIsAlive", "IsHidden", "Streams", "ControlList"}

(* These exist in the input and in the output scope only.                  *)
BugDeviceHasScoped == {"Latency", "SafetyOffset", "PreferredChannelsForStereo"}
DeviceHasScoped ==
  {"Latency", "SafetyOffset", "PreferredChannelsForStereo", "PreferredChannelLayout",
   "DeviceCanBeDefaultDevice", "DeviceCanBeDefaultSystemDevice"}

DeviceSettableIdentity ==
  [s \in {"Name", "Manufacturer", "DeviceUID", "ModelUID", "SerialNumber",
          "FirmwareVersion", "Icon", "ConfigurationApplication", "TransportType",
          "RelatedDevices"} |-> FALSE]
DeviceSettableTiming ==
  [s \in {"ClockIsStable", "ClockAlgorithm", "ClockDomain", "Latency", "SafetyOffset",
          "ZeroTimeStampPeriod", "AvailableNominalSampleRates"} |-> FALSE]
    ++ Sole("NominalSampleRate", TRUE)
DeviceSettableStatus ==
  [s \in {"PreferredChannelsForStereo", "PreferredChannelLayout", "DeviceIsRunning",
          "DeviceIsAlive", "IsHidden", "DeviceCanBeDefaultDevice",
          "DeviceCanBeDefaultSystemDevice", "Streams", "ControlList"} |-> FALSE]
    ++ Sole("Identify", TRUE)

DeviceSizeIdentity ==
  [s \in {"Name", "Manufacturer", "DeviceUID", "ModelUID", "SerialNumber",
          "FirmwareVersion", "Icon", "ConfigurationApplication"} |-> One(CFRef)]
    ++ Sole("TransportType", One(UInt32)) ++ Sole("RelatedDevices", List(ObjectID))
DeviceSizeTiming ==
  [s \in {"ClockIsStable", "ClockAlgorithm", "ClockDomain", "Latency", "SafetyOffset",
          "ZeroTimeStampPeriod"} |-> One(UInt32)]
    ++ Sole("NominalSampleRate", One(Float64))
    ++ Sole("AvailableNominalSampleRates", List(ValueRange))
DeviceSizeStatus ==
  [s \in {"DeviceIsRunning", "Identify", "DeviceIsAlive", "IsHidden",
          "DeviceCanBeDefaultDevice", "DeviceCanBeDefaultSystemDevice"} |-> One(UInt32)]
    ++ Sole("PreferredChannelsForStereo", List(UInt32)) ++ Sole("PreferredChannelLayout", Whole(UInt8))
    ++ Sole("Streams", List(ObjectID)) ++ Sole("ControlList", List(ObjectID))

DeviceDataIdentity ==
  [s \in {"Name", "Manufacturer", "DeviceUID", "ModelUID", "SerialNumber",
          "FirmwareVersion", "Icon", "ConfigurationApplication"} |-> One(CFRef)]
    ++ Sole("TransportType", One(UInt32)) ++ Sole("RelatedDevices", List(ObjectID))
DeviceDataTiming ==
  [s \in {"ClockIsStable", "ClockAlgorithm", "ClockDomain", "Latency", "SafetyOffset",
          "ZeroTimeStampPeriod"} |-> One(UInt32)]
    ++ Sole("NominalSampleRate", One(Float64))
    ++ Sole("AvailableNominalSampleRates", List(ValueRange))
DeviceDataStatus ==
  [s \in {"DeviceIsRunning", "Identify", "DeviceIsAlive", "IsHidden",
          "DeviceCanBeDefaultDevice", "DeviceCanBeDefaultSystemDevice"} |-> One(UInt32)]
    ++ Sole("PreferredChannelsForStereo", List(UInt32)) ++ Sole("PreferredChannelLayout", Whole(UInt8))
    ++ Sole("Streams", List(ObjectID)) ++ Sole("ControlList", List(ObjectID))

DeviceSet == Sole("NominalSampleRate", Float64) ++ Sole("Identify", UInt32)

-----------------------------------------------------------------------------
(* Stream::...                                                             *)
StreamHas ==
  {"IsActive", "Direction", "TerminalType", "StartingChannel", "Latency", "PhysicalFormat",
   "VirtualFormat", "AvailablePhysicalFormats", "AvailableVirtualFormats"}

StreamSettableNumbers ==
  [s \in {"Direction", "TerminalType", "StartingChannel", "Latency"} |-> FALSE]
    ++ Sole("IsActive", TRUE)
StreamSettableFormats ==
  [s \in {"AvailablePhysicalFormats", "AvailableVirtualFormats"} |-> FALSE]
    ++ Sole("PhysicalFormat", TRUE) ++ Sole("VirtualFormat", TRUE)

StreamSize ==
  [s \in {"IsActive", "Direction", "TerminalType", "StartingChannel", "Latency"} |-> One(UInt32)]
    ++ [s \in {"PhysicalFormat", "VirtualFormat"} |-> One(StreamFormat)]
    ++ [s \in {"AvailablePhysicalFormats", "AvailableVirtualFormats"} |-> List(RangedFormat)]

StreamDataNumbers ==
  [s \in {"IsActive", "Direction", "TerminalType", "StartingChannel", "Latency"} |-> One(UInt32)]
StreamDataFormats ==
  [s \in {"PhysicalFormat", "VirtualFormat"} |-> One(StreamFormat)]
    ++ [s \in {"AvailablePhysicalFormats", "AvailableVirtualFormats"} |-> List(RangedFormat)]

StreamSet ==
  Sole("IsActive", UInt32) ++ Sole("PhysicalFormat", StreamFormat) ++ Sole("VirtualFormat", StreamFormat)

-----------------------------------------------------------------------------
(* VolumeControl::...                                                      *)
VolumeHas ==
  {"Scope", "Element", "ScalarValue", "DecibelValue", "DecibelRange",
   "ConvertScalarToDecibels", "ConvertDecibelsToScalar"}

VolumeSettable ==
  [s \in {"Scope", "Element", "DecibelRange", "ConvertScalarToDecibels",
          "ConvertDecibelsToScalar"} |-> FALSE]
    ++ Sole("ScalarValue", TRUE) ++ Sole("DecibelValue", TRUE)

VolumeSize ==
  [s \in {"Scope", "Element"} |-> One(UInt32)]
    ++ [s \in {"ScalarValue", "DecibelValue", "ConvertScalarToDecibels",
               "ConvertDecibelsToScalar"} |-> One(Float32)]
    ++ Sole("DecibelRange", One(ValueRange))

VolumeDataState ==
  [s \in {"Scope", "Element"} |-> One(UInt32)]
    ++ [s \in {"ScalarValue", "DecibelValue"} |-> One(Float32)]
VolumeDataConversion ==
  [s \in {"ConvertScalarToDecibels", "ConvertDecibelsToScalar"} |-> One(Float32)]
    ++ Sole("DecibelRange", One(ValueRange))

VolumeSet == Sole("ScalarValue", Float32) ++ Sole("DecibelValue", Float32)

-----------------------------------------------------------------------------
(* MuteControl::...                                                        *)
MuteHas == {"Scope", "Element", "BooleanControlValue"}
MuteSettable == [s \in {"Scope", "Element"} |-> FALSE] ++ Sole("BooleanControlValue", TRUE)
MuteSize == [s \in {"Scope", "Element", "BooleanControlValue"} |-> One(UInt32)]
MuteData == [s \in {"Scope", "Element", "BooleanControlValue"} |-> One(UInt32)]
MuteSet == Sole("BooleanControlValue", UInt32)

-----------------------------------------------------------------------------
(* The switches by class.                                                  *)
HasTable ==
  [Object |-> ObjectHas, Plugin |-> PluginHas,
   Device |-> DeviceHasIdentity \union DeviceHasTiming \union DeviceHasStatus,
   Stream |-> StreamHas, VolumeControl |-> VolumeHas, MuteControl |-> MuteHas]

ScopedTable == [c \in Classes |-> IF c = "Device" THEN DeviceHasScoped ELSE {}]

SettableTable ==
  [Object |-> ObjectSettable, Plugin |-> PluginSettable,
   Device |-> DeviceSettableIdentity ++ DeviceSettableTiming ++ DeviceSettableStatus,
   Stream |-> StreamSettableNumbers ++ StreamSettableFormats,
   VolumeControl |-> VolumeSettable, MuteControl |-> MuteSettable]

SizeTable ==
  [Object |-> ObjectSize, Plugin |-> PluginSize,
   Device |-> DeviceSizeIdentity ++ DeviceSizeTiming ++ DeviceSizeStatus,
   Stream |-> StreamSize, VolumeControl |-> VolumeSize, MuteControl |-> MuteSize]

DataTable ==
  [Object |-> ObjectData, Plugin |-> PluginData,
   Device |-> DeviceDataIdentity ++ DeviceDataTiming ++ DeviceDataStatus,
   Stream |-> StreamDataNumbers ++ StreamDataFormats,
   VolumeControl |-> VolumeDataState ++ VolumeDataConversion, MuteControl |-> MuteData]

SetTable ==
  [Object |-> ObjectSet, Plugin |-> PluginSet, Device |-> DeviceSet, Stream |-> StreamSet,
   VolumeControl |-> VolumeSet, MuteControl |-> MuteSet]

SelectorsOf(class) == HasTable[class] \union ScopedTable[class] \union ObjectHas

(* The entry of selector s in a table of a class, or in that of Object.    *)
InTable(table, class, s) == s \in DOMAIN table[class] \union DOMAIN table["Object"]
Entry(table, class, s) ==
  IF s \in DOMAIN table[class] THEN table[class][s] ELSE table["Object"][s]

(* Custom properties of an object: which accessors each one has.           *)
Accessors == [getter : BOOLEAN, setter : BOOLEAN]

(* OSStatus.                                                               *)
NoError == "NoError"
UnknownProperty == "UnknownProperty"
BadPropertySize == "BadPropertySize"
BadObject == "BadObject"

-----------------------------------------------------------------------------
HasProperty(class, custom, s, scope) ==
  \/ s \in ScopedTable[class] /\ scope \in {"Input", "Output"}
  \/ s \notin ScopedTable[class] /\ s \in HasTable[class] \union HasTable["Object"]
  \/ s \notin ScopedTable[class] /\ s \in DOMAIN custom

IsPropertySettable(class, custom, s) ==
  IF InTable(SettableTable, class, s)
  THEN [status |-> NoError, settable |-> Entry(SettableTable, class, s)]
  ELSE IF s \in DOMAIN custom
  THEN [status |-> NoError, settable |-> custom[s].setter]
  ELSE [status |-> UnknownProperty, settable |-> FALSE]

(* count: how many values the property has at the moment.                  *)
GetPropertyDataSize(class, custom, s, count) ==
  IF InTable(SizeTable, class, s)
  THEN LET e == Entry(SizeTable, class, s)
       IN  [status |-> NoError, size |-> IF e.form = "one" THEN e.size ELSE count * e.size]
  ELSE IF s \in DOMAIN custom
  THEN [status |-> NoError, size |-> CFRef]
  ELSE [status |-> UnknownProperty, size |-> 0]

Failed(status) == [status |-> status, size |-> 0, count |-> 0]
Copied(n, size) == [status |-> NoError, size |-> n * size, count |-> n]

AtMost(a, b) == IF a < b THEN a ELSE b

BugGetPropertyData(class, custom, s, count, inSize) ==
  IF InTable(DataTable, class, s)
  THEN Copied(count, Entry(DataTable, class, s).size)
  ELSE IF s \notin DOMAIN custom THEN Failed(UnknownProperty)
  ELSE Copied(1, CFRef)
(* inSize: the size of the buffer for the answer.                          *)
GetPropertyData(class, custom, s, count, inSize) ==
  LET e == Entry(DataTable, class, s) IN
  IF InTable(DataTable, class, s)
  THEN IF e.form = "list"
       THEN Copied(AtMost(inSize \div e.size, count), e.size)
       ELSE LET n == IF e.form = "one" THEN 1 ELSE count
            IN  IF inSize < n * e.size THEN Failed(BadPropertySize) ELSE Copied(n, e.size)
  ELSE IF s \notin DOMAIN custom THEN Failed(UnknownProperty)
  ELSE IF ~custom[s].getter THEN Failed(UnknownProperty)
  ELSE IF inSize < CFRef THEN Failed(BadPropertySize)
  ELSE Copied(1, CFRef)

(* What SetPropertyData checks before it calls the setter.                 *)
CheckSetPropertyData(class, custom, s, inSize) ==
  IF InTable(SetTable, class, s)
  THEN IF inSize # Entry(SetTable, class, s) THEN BadPropertySize ELSE NoError
  ELSE IF s \notin DOMAIN custom THEN UnknownProperty
  ELSE IF ~custom[s].setter THEN UnknownProperty
  ELSE IF inSize # CFRef THEN BadPropertySize
  ELSE NoError
=============================================================================
