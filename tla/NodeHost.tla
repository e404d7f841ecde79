------------------------------ MODULE NodeHost ------------------------------
(* What the native lifecycle promises the process that embeds the node: it *)
(* hosts one tsnet.Server at a time, and a Server that could not be closed  *)
(* for certain is the last one it hosts.                                   *)

CONSTANT Tokens

VARIABLES
  up,        \* the runtimes whose Server is starting or live
  lost,      \* the runtimes whose Server could not be closed
  poisoned   \* the process admits no runtime any more

Init == up = {} /\ lost = {} /\ poisoned = FALSE

Start(t) ==
  /\ up = {} /\ lost = {} /\ ~poisoned
  /\ up' = {t} /\ UNCHANGED <<lost, poisoned>>

\* Closed, or never started.
Stop == up' = {} /\ UNCHANGED <<lost, poisoned>>

Lose == up # {} /\ lost' = up /\ up' = {} /\ UNCHANGED poisoned

Poison == up = {} /\ poisoned' = TRUE /\ UNCHANGED <<up, lost>>

Next == Stop \/ Lose \/ Poison \/ \E t \in Tokens : Start(t)

Spec == Init /\ [][Next]_<<up, lost, poisoned>>
=============================================================================
