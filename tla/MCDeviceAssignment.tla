------------------------- MODULE MCDeviceAssignment -------------------------
(* Instances of DeviceAssignment: two devices and vehicles, and a uid more *)
(* than devices, so that there is one to rename to and one nobody has.     *)
EXTENDS DeviceAssignment, TLC

CONSTANTS d1, d2, v1, v2, u1, u2, u3, p1, k1

TwoDevices == {d1, d2}
TwoVehicles == {v1, v2}
ThreeUids == {u1, u2, u3}
OneOperator == {p1}
OnePacket == {k1}

Symmetry == Permutations(Devices) \cup Permutations(Vehicles) \cup Permutations(Uids)
=============================================================================
