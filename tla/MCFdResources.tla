---------------------------- MODULE MCFdResources ----------------------------
(***************************************************************************)
(* FdResources on small instances, by scenario.  Each scenario fixes what  *)
(* the two binding calls open and which of the optional steps take part.   *)
(***************************************************************************)
EXTENDS FdResources

VARIABLE scenario

CONSTANTS h1, h2, Scenarios

(* "streams": a TCP listener with two connections and its accept isolate;  *)
(* "requests": an HTTP binding with two requests and its accept isolate,   *)
(* bound before the runtime is detached; "families": a resource of any     *)
(* kind and a TCP listener beside it; "restart": a TCP listener of each of *)
(* two runtimes with their accept isolates; "client": two outbound         *)
(* requests over the runtime's transport.                                  *)
ASSUME ScenariosAssumption ==
  Scenarios \subseteq {"streams", "requests", "families", "restart", "client"}

MCInit ==
  /\ Init /\ scenario \in Scenarios
  /\ kind[h1] = CASE scenario \in {"streams", "restart", "client"} -> "tcp"
                  [] scenario = "requests" -> "http"
                  [] OTHER -> kind[h1]
  /\ kind[h2] = "tcp"

InScope ==
  /\ scenario \in {"streams", "requests", "client"} => call'[h2] = "idle"
  /\ scenario = "requests" /\ stage'[1] \in Kinds =>
       call'[h1] \in {"bound", "failed"}
  /\ scenario # "restart" => stage'[2] = "none"
  /\ scenario = "restart" => token'[h1] # 2 /\ token'[h2] # 1
  /\ scenario \in {"requests", "restart"} => \A h \in Handles : ~ListenerDies(h)
  /\ ~ListenerDies(h2)
  /\ scenario \in {"families", "restart", "client"} =>
       \A i \in Items : place'[i] = "none"
  /\ scenario \in {"families", "client"} =>
       \A h \in Handles : loop'[h] = "off"
  /\ scenario # "client" => \A q \in Requests : rq'[q] = "idle"

MCNext == Next /\ InScope /\ UNCHANGED scenario

MCSpec == MCInit /\ [][MCNext]_<<vars, scenario>>

MCFairSpec == MCSpec /\ Fairness
==============================================================================
