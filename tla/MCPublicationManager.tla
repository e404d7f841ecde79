----------------------- MODULE MCPublicationManager -----------------------
(***************************************************************************)
(* PublicationManager with two paths and two handlers.  A behaviour keeps  *)
(* to one scenario: every handler on one path, beside another writer or    *)
(* with a set that lands late, or one handler on every path of the port.   *)
(***************************************************************************)
EXTENDS PublicationManager, TLC

VARIABLE scenario

Scenarios ==
  {[paths |-> {p}, handlers |-> Handlers, external |-> MaxExternal, late |-> 0] :
     p \in Paths}
  \cup {[paths |-> {p}, handlers |-> Handlers, external |-> 0, late |-> MaxLate] :
          p \in Paths}
  \cup {[paths |-> Paths, handlers |-> {h}, external |-> 0, late |-> 0] :
          h \in Handlers}

Within(s) ==
  /\ external' <= s.external /\ Cardinality(late') <= s.late
  /\ op'.kind \in {"forward", "exact", "coordinate"} => op'.key[2] \in s.paths
  /\ op'.kind = "forward" => op'.handler \in s.handlers
  /\ \A k \in Keys : k[2] \notin s.paths => config'.web[k] = config.web[k]

MCInit == Init /\ scenario \in Scenarios
MCNext == Next /\ Within(scenario) /\ UNCHANGED scenario
MCSpec == MCInit /\ [][MCNext]_<<vars, scenario>>

CoordinateSymmetry == Permutations(Handlers) \cup Permutations(Paths)
=============================================================================
