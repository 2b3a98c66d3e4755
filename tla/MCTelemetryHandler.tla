------------------------- MODULE MCTelemetryHandler -------------------------
(* Instances of TelemetryHandler for TLC.  The speeds stand for: standing, *)
(* crawling (below MovingSpeed), within the limit, and over it twice.      *)
EXTENDS TelemetryHandler, TLC

CONSTANTS s1, s2, o1, o2, o3

OneSlot == {s1}
TwoSlots == {s1, s2}
OneObj == {o1}
TwoObjs == {o1, o2}
ThreeObjs == {o1, o2, o3}

DrivingSpeeds == {0, 6, 8, 9}
CrawlingSpeeds == {0, 3, 8, 9}
FewSpeeds == {0, 6, 8}

Symmetry == Permutations(Slots) \cup Permutations(Objs)
=============================================================================
