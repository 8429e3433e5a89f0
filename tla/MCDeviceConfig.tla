-------------------------- MODULE MCDeviceConfig -----------------------------
(* Instances of DeviceConfig: which functions there are and what they call.*)
EXTENDS DeviceConfig, TLC

CONSTANTS d1, d2, c1, c2, c3, c4

(* Two changes of one device; the second one's function requests a change  *)
(* of the same device and one of another device.                           *)
NestedTarget == c1 :> d1 @@ c2 :> d1 @@ c3 :> d2 @@ c4 :> d1
NestedBody   == c1 :> <<>> @@ c2 :> <<RequestCall(c4), RequestCall(c3)>> @@ c3 :> <<>> @@ c4 :> <<>>

(* A function that removes its own device.                                 *)
RemovingTarget == c1 :> d1
RemovingBody   == c1 :> <<RemoveCall(d1)>>
=============================================================================
