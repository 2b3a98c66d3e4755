------------------------- MODULE MCIntervalControl -------------------------
(* Instances of IntervalControl: two interval values, and targets that     *)
(* differ in both members, so that a half-saved pair is a third one.       *)
EXTENDS IntervalControl

CONSTANT r1

OneRequest == {r1}
TwoValues == {1, 2}
P(a, b) == [on |-> a, off |-> b]
DefaultPair == P(1, 1)
TwoTargets == {P(2, 2), P(1, 1)}
=============================================================================
