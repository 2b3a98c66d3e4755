------------------------- MODULE MCGeofenceTracking -------------------------
(* An instance of GeofenceTracking: places 0 and 1 share an address, place 3  *)
(* is further than the threshold from both.                                   *)
EXTENDS GeofenceTracking, TLC

CONSTANTS s1, s2, f1, f2, l1, l2

TwoSlots == {s1, s2}
TwoFences == {f1, f2}
TwoDrainers == {l1, l2}
Line == {0, 1, 3}
NextDoor == {1}
SomeRadii == {1}
OneGeofence == {<<[id |-> f1, at |-> 0, radius |-> 1]>>}

Symmetry == Permutations(Slots) \cup Permutations(Drainers)
=============================================================================
