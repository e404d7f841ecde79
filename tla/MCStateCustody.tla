-------------------------- MODULE MCStateCustody --------------------------
(* StateCustody on small numbers of calls.                                 *)
EXTENDS StateCustody, TLC
=============================================================================
