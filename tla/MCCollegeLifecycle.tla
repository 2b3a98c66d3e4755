------------------------- MODULE MCCollegeLifecycle -------------------------
(* An instance of CollegeLifecycle: a college with its admin and a fleet      *)
(* manager, ids for another college and for one more user.                    **)
EXTENDS CollegeLifecycle, TLC

CONSTANTS c1, c2, u1, u2, u3, r1, r2

TwoColleges == {c1, c2}
ThreeUsers == {u1, u2, u3}
TwoRequests == {r1, r2}
OneCollege == {c1}
AdminAndManager ==
    [u \in Users |-> CASE u = u1 -> [role |-> "COLLEGE_ADMIN", college |-> c1]
                       [] u = u2 -> [role |-> "FLEET_MANAGER", college |-> c1]
                       [] OTHER  -> None]

Symmetry == Permutations(Requests)
=============================================================================
