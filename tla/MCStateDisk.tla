---------------------------- MODULE MCStateDisk ----------------------------
(* Instances of StateDisk for TLC.                                         *)
EXTENDS StateDisk, TLC
=============================================================================
