-------------------------- MODULE MCFirmwareQueue --------------------------
(* The instances of FirmwareQueue that TLC checks differ in their numbers  *)
(* only, which the configurations give.                                    *)
EXTENDS FirmwareQueue
=============================================================================
