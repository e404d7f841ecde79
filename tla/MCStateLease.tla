---------------------------- MODULE MCStateLease ----------------------------
(* StateLease for TLC: two processes, three calls that use the directory   *)
(* and a sweeper in each process.                                          *)
EXTENDS StateLease, TLC

CONSTANTS p1, p2, a1, a2, b1, s1, s2

TwoProcs == {p1, p2}
FiveCalls == {a1, a2, b1, s1, s2}
TheirProcs == (a1 :> p1) @@ (a2 :> p1) @@ (s1 :> p1) @@ (b1 :> p2) @@ (s2 :> p2)
TwoSweepers == {s1, s2}
=============================================================================
