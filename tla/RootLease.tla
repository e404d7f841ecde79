----------------------------- MODULE RootLease -----------------------------
(* What the state lease promises about one directory: among all the calls  *)
(* of all the processes of the machine at most one has it, and it passes   *)
(* from one to the next only through a moment when nobody has it.          *)

CONSTANT Calls

VARIABLE holders

Init == holders = {}

Acquire(c) == holders = {} /\ holders' = {c}
Release == holders' = {}

Next == Release \/ \E c \in Calls : Acquire(c)

Spec == Init /\ [][Next]_holders
=============================================================================
