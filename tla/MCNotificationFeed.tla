------------------------- MODULE MCNotificationFeed -------------------------
(* An instance of NotificationFeed: a super admin and a user of one of two    *)
(* colleges, in turn at the same browser.                                     *)
EXTENDS NotificationFeed, TLC

CONSTANTS admin, member, c1, c2, q1, q2

TwoUsers == {admin, member}
TwoColleges == {c1, c2}
Memberships == (admin :> All) @@ (member :> c1)
TwoCalls == {q1, q2}

Symmetry == Permutations(Calls)
=============================================================================
