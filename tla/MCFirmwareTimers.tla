-------------------------- MODULE MCFirmwareTimers --------------------------
(* A word of 32 instead of 2^32, intervals and blocking times in the same  *)
(* order of size as in the code: blocking operations are shorter than the  *)
(* back-off, a loop iteration is short against the word, and setup() takes *)
(* as long as three of them.                                               *)
EXTENDS FirmwareTimers

TwoIntervals == {2, 4}
=============================================================================
