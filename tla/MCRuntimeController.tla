------------------------ MODULE MCRuntimeController ------------------------
(***************************************************************************)
(* Small instances of RuntimeController.  All calls on all tokens at once  *)
(* are out of reach, so a behaviour keeps to one of several scenarios,     *)
(* chosen initially: the set of calls that the environment may make.       *)
(***************************************************************************)
EXTENDS RuntimeController, TLC

CONSTANTS
  t1, t2, t3,
  Scenarios    \* the scenarios of a run

VARIABLE scenario

ThreeTokens == {t1, t2, t3}
AllCalls == Ops \X Tokens

On(ops, t) == ops \X {t}

CallsOf == [
  \* one token is closed or rescued while a second generation starts
  replace |-> On({"start", "down"}, t1) \cup On({"start"}, t2),
  rescue |-> On({"start", "abandon", "await"}, t1) \cup On({"start"}, t2),
  reap |-> On({"start", "abandon", "publication"}, t1) \cup On({"start"}, t2),
  reapDown |-> On({"start", "down", "await", "publication"}, t1),
  \* persistent runtimes, logout of an active or an idle identity
  logout |-> On({"start", "prep", "logout"}, t1) \cup On({"start", "prep"}, t2),
  \* logout of a runtime whose publication start has failed
  reapLogout |-> On({"start", "logout", "publication"}, t1),
  \* a local reset takes the root of a running, closing or prepared node
  reset |-> On({"start", "prep", "down"}, t1) \cup On({"reset"}, t2),
  \* a rescue of what a local reset is taking
  resetRescue |-> On({"start", "abandon"}, t1) \cup On({"reset"}, t2),
  resetAwait |-> On({"start", "await"}, t1) \cup On({"reset"}, t2),
  resetPrep |-> On({"prep", "abandon", "await"}, t1) \cup On({"reset"}, t2),
  \* a start, of t2, refreshes the host network of a runtime, t1, that is
  \* being replaced by t3
  refresh |-> On({"start", "down"}, t1) \cup On({"start"}, t2)
                \cup On({"start"}, t3),
  \* every call on a token joins the others
  settling |-> On({"start", "prep", "down", "logout", "abandon", "await"}, t1)]

TokensOf == [s \in DOMAIN CallsOf |-> {c[2] : c \in CallsOf[s]}]

(* A reset marks the start of its token as done, nothing else moves.       *)
Silent ==
  [s \in DOMAIN CallsOf |->
     {c \in Calls \ CallsOf[s] :
        ~(c[1] = "start" /\ <<"reset", c[2]>> \in CallsOf[s])}]

MCInit == Init /\ scenario \in Scenarios

MCNext ==
  /\ \E t \in TokensOf[scenario] : Call(t) \/ Run(t)
  /\ \A c \in Silent[scenario] : pc'[c] = pc[c]
  /\ scenario = "refresh" =>
       /\ pc'[<<"start", t2>>] # "admit"
       /\ pc'[<<"start", t3>>] # "refresh"
       /\ current' = t3 => pc'[<<"down", t1>>] # "idle"
  /\ UNCHANGED scenario

MCSpec == MCInit /\ [][MCNext]_<<vars, scenario>>

(* The Fairness of RuntimeController where liveness is asked about: the    *)
(* steps of t1's calls in the settling scenario, which has no publication  *)
(* and no reset.                                                           *)
MCFairSpec ==
  /\ MCSpec
  /\ WF_vars(scenario = "settling" /\ CloseStep(t1))
  /\ WF_vars(scenario = "settling" /\ StartStep(t1))
  /\ WF_vars(scenario = "settling" /\ CloseRuntimeStep("down", t1))
  /\ WF_vars(scenario = "settling" /\ AbandonStep(t1))
  /\ WF_vars(scenario = "settling" /\ AwaitStep(t1))
  /\ WF_vars(scenario = "settling" /\ LogoutStep(t1))
  /\ WF_vars(scenario = "settling" /\ PreparationStep(t1))

(* No lifecycle call hangs, however the calls on a token join each other   *)
(* (runtimeController's done channels and start calls), and no quarantine  *)
(* is for ever.                                                            *)
LifecycleSettles ==
  scenario = "settling" => CallsReturn(t1) /\ QuarantineSettles(t1)
=============================================================================
