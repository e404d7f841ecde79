--------------------------- MODULE MCFdTransport ---------------------------
(***************************************************************************)
(* FdTransport for TLC.  A behaviour keeps to one scenario: the peer sends *)
(* and the consumer listens and pauses, the consumer writes and does not   *)
(* listen, or both exchange a little and half-close.  The proxy is marked  *)
(* closed under a stream of the first two.                                 *)
(***************************************************************************)
EXTENDS FdTransport

CONSTANT Scenarios

VARIABLE scenario

Within(s) ==
  /\ s = "inbound" => app'.lastId = 0
  /\ s = "outbound" => app'.listener = "none" /\ sent' = 0
  /\ s = "both" => /\ ~datagram /\ sent' <= 1 /\ app'.pauses = 0
                   /\ app'.lastId <= 2 /\ app'.pendingWriteBytes <= 1
  /\ proxyClosed' => s # "both" /\ ~datagram

MCInit == Init /\ scenario \in Scenarios
MCNext == Next /\ Within(scenario) /\ UNCHANGED scenario
MCSpec == MCInit /\ [][MCNext]_<<vars, scenario>>
MCFairSpec == MCSpec /\ Fairness
=============================================================================
