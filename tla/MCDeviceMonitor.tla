--------------------------- MODULE MCDeviceMonitor ---------------------------
(* Instances of DeviceMonitor for TLC: two devices share a name, one has its own. *)
EXTENDS DeviceMonitor, TLC

CONSTANTS a1, a2, b

ThreeDevices == {a1, a2, b}
TwoNames == {"a", "b"}
TheirNames == a1 :> "a" @@ a2 :> "a" @@ b :> "b"

TwoDevices == {a1, b}
TwoOwnNames == a1 :> "a" @@ b :> "b"
=============================================================================
