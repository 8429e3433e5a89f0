----------------------------- MODULE MCHalView -----------------------------
EXTENDS HalView

Everything == {Plugin, Home, Device2}
Lowest == -1
MinusThirty == -30

(* One property of every kind for the HAL to watch.                        *)
Watched ==
  {<<Plugin, "DeviceList">>, <<Home, "Identify">>, <<Home, "DeviceIsAlive">>,
   <<Stream, "IsActive">>, <<Mute, "BooleanControlValue">>,
   <<Volume, "ScalarValue">>, <<Volume, "DecibelValue">>}

(* Every device has a UID of its own, both have the same, or one has none. *)
UIDs ==
  {[d \in Devices |-> IF d = Home THEN "home" ELSE other] : other \in {"device2", "home", NoUID}}
=============================================================================
