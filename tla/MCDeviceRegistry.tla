--------------------------- MODULE MCDeviceRegistry ---------------------------
(* Instances of DeviceRegistry for TLC: one display and one camera.         *)
EXTENDS DeviceRegistry, TLC

CONSTANTS lobby, door

MCKindOf == [s \in Screens |-> IF s = lobby THEN "display" ELSE "camera"]
Interchangeable == Permutations(Admins)
=============================================================================
