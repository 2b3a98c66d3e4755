------------------------------ MODULE Matching ------------------------------
(***************************************************************************)
(* What the assignment of devices to vehicles promises: it is a matching.  *)
(* A device serves at most one vehicle, and a device that comes to a       *)
(* vehicle takes the place of the one there in the same step, if that one  *)
(* has not been released before.                                           *)
(***************************************************************************)
CONSTANTS
  Devices,
  Vehicles,
  None

VARIABLE serves  \* the vehicle of every device, or None

Init == serves = [d \in Devices |-> None]

(* The device leaves the vehicle it served, the vehicle the device it had. *)
Assign(d, v) ==
  serves' = [e \in Devices |-> IF e = d THEN v
                               ELSE IF serves[e] = v THEN None ELSE serves[e]]

Release(d) == serves' = [serves EXCEPT ![d] = None]

Next == \E d \in Devices : Release(d) \/ \E v \in Vehicles : Assign(d, v)

Spec == Init /\ [][Next]_serves

(* No vehicle is served by two devices. *)
OneDevicePerVehicle ==
  \A d, e \in Devices : d # e /\ serves[d] = serves[e] => serves[d] = None
=============================================================================
