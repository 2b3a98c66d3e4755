---------------------------- MODULE MCStopEvents ----------------------------
(* An instance of StopEvents: four rows, two vehicles, and time enough for a  *)
(* stop that is too short and one that outlasts the cap.                      *)
EXTENDS StopEvents, TLC

CONSTANTS v1, v2

TwoVehicles == {v1, v2}

Symmetry == Permutations(Vehicles)
=============================================================================
