--------------------------- MODULE MCRuntimeWatch ---------------------------
(***************************************************************************)
(* RuntimeWatch for TLC.  A behaviour keeps to one scenario: the backend   *)
(* changes, a data-plane call waits, or a second StartWatch replaces the   *)
(* first one's run and returns before the teardown.                        *)
(***************************************************************************)
EXTENDS RuntimeWatch, TLC

CONSTANTS r1, r2

VARIABLE scenario

Within(s) ==
  /\ s # "changes" => UNCHANGED changes
  /\ s # "waiter" => UNCHANGED answer
  /\ call'[r2] # "idle" => s = "restart" /\ call[r1] = "returned"
  /\ s = "restart" /\ owner' # None => call[r2] = "returned"

MCInit == Init /\ scenario \in {"changes", "waiter", "restart"}
MCNext == Next /\ Within(scenario) /\ UNCHANGED scenario
MCSpec == MCInit /\ [][MCNext]_<<vars, scenario>>
MCFairSpec == MCSpec /\ Fairness
=============================================================================
