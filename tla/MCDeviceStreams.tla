-------------------------- MODULE MCDeviceStreams ----------------------------
(* An instance of DeviceStreams: which streams there are and what is added *)
(* with them.                                                              *)
EXTENDS DeviceStreams, TLC

CONSTANTS s1, s2, s3, v2, m2

(* An output stream, one with a volume and a mute control, and an input.   *)
Directions == s1 :> "output" @@ s2 :> "output" @@ s3 :> "input"
Bundles == s1 :> <<s1>> @@ s2 :> <<s2, v2, m2>> @@ s3 :> <<s3>>
=============================================================================
