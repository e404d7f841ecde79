------------------------ MODULE SingleServer_proofs ------------------------
(***************************************************************************)
(* The proof that ServerAccounted is inductive, and what follows from it:  *)
(* one tsnet.Server per process, exclusive lifecycle slots, and a poisoned *)
(* process that never runs a Server again.                                 *)
(***************************************************************************)
EXTENDS OwnerMoves_proofs

USE DEF slots, exclusive, preparing, books, resources, identity, hostNetwork,
        config, reports, At, Goto

(* Every step of startRuntimeWithDependenciesForTokenAndDeadline keeps the *)
(* accounting: admission, the five failure points, commit and release.     *)
LEMMA AccountedStart ==
  ASSUME TypeOK, ServerAccounted, NEW t \in Tokens, StartStep(t)
  PROVE  ServerAccounted'
<1>1. CASE ProbeActiveRuntime(t)
  <2>1. \E label \in {"return", "admit", "refresh"} : Goto("start", t, label)
    BY <1>1 DEF ProbeActiveRuntime
  <2>2. UNCHANGED <<owners, outcomes>>
    BY <1>1 DEF ProbeActiveRuntime, owners, outcomes
  <2>3. pc[<<"start", t>>] \in {"probe", "reprobe"}
    BY SMTT(60), <1>1 DEF ProbeActiveRuntime
  <2> QED BY ZenonT(60), <2>1, <2>2, <2>3, QuietStart DEF CandidateLabels
<1>2. CASE RefreshHostNetwork(t)
  <2>1. \E label \in {"return", "confirm"} : Goto("start", t, label)
    BY <1>2 DEF RefreshHostNetwork
  <2>2. UNCHANGED <<owners, outcomes>> /\ pc[<<"start", t>>] = "refresh"
    BY <1>2 DEF RefreshHostNetwork, owners, outcomes
  <2> QED BY ZenonT(60), <2>1, <2>2, QuietStart DEF CandidateLabels
<1>3. CASE ConfirmRefresh(t)
  <2>1. /\ Goto("start", t, "return") /\ pc[<<"start", t>>] = "confirm"
        /\ UNCHANGED <<owners, outcomes>>
    BY <1>3 DEF ConfirmRefresh, owners, outcomes
  <2> QED BY ZenonT(60), <2>1, QuietStart DEF CandidateLabels
<1>4. CASE Admit(t)
  <2>0. /\ pc[<<"start", t>>] = "admit"
        /\ UNCHANGED <<reset, resetRuntime, cleanupFailure, server, closeErr>>
    BY SMTT(60), <1>4 DEF Admit
  <2>1. CASE Reserve(t)
    <3>1. \/ /\ \E label \in {"return", "reprobe"} : Goto("start", t, label)
             /\ UNCHANGED slots
          \/ /\ Goto("start", t, "setup") /\ candidate = None /\ current = None
             /\ draining = None /\ reset = None /\ cleanupFailure = None
             /\ prep = None /\ candidate' = t
             /\ UNCHANGED <<current, draining, stage>>
      BY SMTT(60), <2>1 DEF Reserve, NewCandidate
    <3>2. UNCHANGED <<prep, prepPhase>>
      BY SMTT(60), <2>1 DEF Reserve
    <3> QED BY SMTT(60), <2>0, <3>1, <3>2, QuietStart, CandidateAdmitted
            DEF CandidateLabels, owners, outcomes
  <2>2. CASE Adopt(t)
    <3>1. \/ Goto("start", t, "return") /\ UNCHANGED <<slots, preparing>>
          \/ /\ Goto("start", t, "hostnet") /\ candidate = None
             /\ current = None /\ draining = None /\ reset = None
             /\ cleanupFailure = None /\ prep = t /\ prepPhase = "completed"
             /\ candidate' = t /\ prep' = None
             /\ UNCHANGED <<current, draining, stage>>
      BY ZenonT(60), <2>2 DEF Adopt, NewCandidate
    <3> QED BY SMTT(60), <2>0, <3>1, QuietStart, CandidateAdmitted
            DEF CandidateLabels, owners, outcomes
  <2> QED BY SMTT(30), <1>4, <2>1, <2>2 DEF Admit
<1>5. CASE PrepareEphemeralRuntime(t)
  <2>1. /\ pc[<<"start", t>>] = "setup" /\ server[t] # "starting"
        /\ server' = [server EXCEPT ![t] = server[t]]
        /\ UNCHANGED <<owners, cleanupFailure>>
    <3>1. pc[<<"start", t>>] = "setup" /\ UNCHANGED <<server, cleanupFailure>>
          /\ UNCHANGED <<reset, resetRuntime, prep, prepPhase>>
      BY ZenonT(60), <1>5 DEF PrepareEphemeralRuntime
    <3>2. UNCHANGED <<candidate, current, draining>>
      BY SMTT(60), <1>5 DEF PrepareEphemeralRuntime, Unwind, Advance
    <3> QED BY SMTT(60), <3>1, <3>2
            DEF ServerAccounted, Accounted, StartOwnsCandidate, TypeOK, owners
  <2>2. \/ Goto("start", t, "hostnet") /\ UNCHANGED <<stage, closeErr>>
        \/ /\ Goto("start", t, "unwind")
           /\ stage' = [stage EXCEPT ![t] = "server"]
           /\ \/ UNCHANGED closeErr
              \/ closeErr' = [closeErr EXCEPT ![t] = TRUE]
    BY SMTT(60), <1>5 DEF PrepareEphemeralRuntime, Unwind, Advance
  <2>3. closeErr[t] \in BOOLEAN /\ closeErr = [closeErr EXCEPT ![t] = closeErr[t]]
    BY SMTT(60) DEF TypeOK
  <2>4. CASE Goto("start", t, "hostnet") /\ UNCHANGED <<stage, closeErr>>
    BY ZenonT(60), <2>1, <2>3, <2>4, CandidateMoves DEF CandidateLabels
  <2>5. CASE /\ Goto("start", t, "unwind")
             /\ stage' = [stage EXCEPT ![t] = "server"]
             /\ closeErr' = [closeErr EXCEPT ![t] = closeErr[t]]
    BY ZenonT(60), <2>1, <2>3, <2>5, CandidateMoves DEF CandidateLabels
  <2>6. CASE /\ Goto("start", t, "unwind")
             /\ stage' = [stage EXCEPT ![t] = "server"]
             /\ closeErr' = [closeErr EXCEPT ![t] = TRUE]
    BY ZenonT(60), <2>1, <2>6, CandidateMoves DEF CandidateLabels
  <2> QED BY SMTT(60), <2>2, <2>3, <2>4, <2>5, <2>6
<1>6. CASE ApplyHostNetworkSnapshot(t)
  <2>1. /\ pc[<<"start", t>>] = "hostnet" /\ server[t] # "starting"
        /\ server' = [server EXCEPT ![t] = server[t]]
        /\ closeErr' = [closeErr EXCEPT ![t] = closeErr[t]]
        /\ closeErr[t] \in BOOLEAN
        /\ UNCHANGED <<owners, cleanupFailure>>
    <3>1. pc[<<"start", t>>] = "hostnet"
          /\ UNCHANGED <<server, closeErr, cleanupFailure>>
          /\ UNCHANGED <<reset, resetRuntime, prep, prepPhase>>
      BY ZenonT(60), <1>6 DEF ApplyHostNetworkSnapshot
    <3>2. UNCHANGED <<candidate, current, draining>>
      BY SMTT(60), <1>6 DEF ApplyHostNetworkSnapshot, Unwind, Advance
    <3> QED BY SMTT(30), <3>1, <3>2
            DEF ServerAccounted, Accounted, StartOwnsCandidate, TypeOK, owners
  <2>2. \/ Goto("start", t, "launch") /\ UNCHANGED stage
        \/ /\ Goto("start", t, "unwind")
           /\ stage' = [stage EXCEPT ![t] = "server"]
    BY SMTT(60), <1>6 DEF ApplyHostNetworkSnapshot, Unwind, Advance
  <2> QED BY ZenonT(60), <2>1, <2>2, CandidateMoves DEF CandidateLabels
<1>7. CASE LaunchServer(t)
  <2>1. /\ pc[<<"start", t>>] = "launch" /\ server[t] # "starting"
        /\ closeErr' = [closeErr EXCEPT ![t] = closeErr[t]]
        /\ closeErr[t] \in BOOLEAN
        /\ UNCHANGED <<owners, cleanupFailure>>
    <3>1. pc[<<"start", t>>] = "launch" /\ UNCHANGED <<closeErr, cleanupFailure>>
          /\ UNCHANGED <<reset, resetRuntime, prep, prepPhase>>
      BY ZenonT(60), <1>7 DEF LaunchServer
    <3>2. UNCHANGED <<candidate, current, draining>>
      BY SMTT(60), <1>7 DEF LaunchServer, Unwind, Advance
    <3> QED BY SMTT(30), <3>1, <3>2
            DEF ServerAccounted, Accounted, StartOwnsCandidate, TypeOK, owners
  <2>2. \/ /\ Goto("start", t, "starting") /\ UNCHANGED stage
           /\ server' = [server EXCEPT ![t] = "starting"]
        \/ /\ Goto("start", t, "unwind")
           /\ stage' = [stage EXCEPT ![t] = "server"]
           /\ server' = [server EXCEPT ![t] = server[t]]
    BY SMTT(60), <1>7 DEF LaunchServer, Unwind, Advance, TypeOK
  <2> QED BY ZenonT(60), <2>1, <2>2, CandidateMoves DEF CandidateLabels
<1>8. CASE ServerStartReturns(t)
  <2>1. /\ pc[<<"start", t>>] = "starting"
        /\ closeErr' = [closeErr EXCEPT ![t] = closeErr[t]]
        /\ closeErr[t] \in BOOLEAN
        /\ UNCHANGED <<owners, cleanupFailure>>
    <3>1. pc[<<"start", t>>] = "starting" /\ UNCHANGED <<closeErr, cleanupFailure>>
          /\ UNCHANGED <<reset, resetRuntime, prep, prepPhase>>
      BY ZenonT(60), <1>8 DEF ServerStartReturns
    <3>2. UNCHANGED <<candidate, current, draining>>
      BY SMTT(60), <1>8 DEF ServerStartReturns, Unwind, Advance
    <3> QED BY SMTT(30), <3>1, <3>2 DEF TypeOK, owners
  <2>2. \/ /\ Goto("start", t, "started") /\ UNCHANGED stage
           /\ server' = [server EXCEPT ![t] = "live"]
        \/ /\ Goto("start", t, "unwind")
           /\ stage' = [stage EXCEPT ![t] = "server"]
           /\ \E v \in {"live", "unwound"} : server' = [server EXCEPT ![t] = v]
    BY SMTT(60), <1>8 DEF ServerStartReturns, Unwind, Advance
  <2> QED BY ZenonT(60), <2>1, <2>2, CandidateMoves DEF CandidateLabels
<1>9. CASE CommitStart(t)
  <2>1. /\ pc[<<"start", t>>] = "started" /\ server[t] # "starting"
        /\ UNCHANGED <<server, closeErr, cleanupFailure, reset, resetRuntime,
                       prep, prepPhase>>
    BY ZenonT(60), <1>9 DEF CommitStart, ServerAccounted, Accounted, StartOwnsCandidate
  <2>2. CASE Unwind(t)
    <3>1. /\ UNCHANGED owners
          /\ server' = [server EXCEPT ![t] = server[t]]
          /\ closeErr' = [closeErr EXCEPT ![t] = closeErr[t]]
          /\ closeErr[t] \in BOOLEAN
      BY SMTT(60), <2>1, <2>2 DEF Unwind, TypeOK, owners
    <3>2. /\ Goto("start", t, "unwind")
          /\ stage' = [stage EXCEPT ![t] = "server"]
      BY SMTT(60), <2>2 DEF Unwind
    <3> QED BY ZenonT(60), <2>1, <3>1, <3>2, CandidateMoves DEF CandidateLabels
  <2>3. CASE ~Unwind(t)
    <3>1. /\ candidate' = None /\ current' = t /\ Goto("start", t, "return")
          /\ UNCHANGED <<draining, stage>>
      BY <1>9, <2>3 DEF CommitStart
    <3> QED BY ZenonT(60), <2>1, <3>1, CandidateCommitted
  <2> QED BY SMTT(60), <2>2, <2>3
<1>10. CASE ReleaseCandidate(t)
  BY <1>10, CandidateReleased
<1>11. CASE FinishStartCall(t)
  <2>1. /\ Goto("start", t, "done") /\ pc[<<"start", t>>] = "return"
        /\ UNCHANGED <<owners, outcomes>>
    BY <1>11 DEF FinishStartCall, owners, outcomes
  <2> QED BY ZenonT(60), <2>1, QuietStart DEF CandidateLabels
<1> QED BY SMTT(60), <1>1, <1>2, <1>3, <1>4, <1>5, <1>6, <1>7, <1>8, <1>9, <1>10, <1>11
        DEF StartStep

(* Every step of AbandonRuntime keeps the accounting.                      *)
LEMMA AccountedAbandon ==
  ASSUME TypeOK, ServerAccounted, NEW t \in Tokens, AbandonStep(t)
  PROVE  ServerAccounted'
<1> "abandon" \in Ops \ {"start", "reset"} /\ "abandon" # "logout"
  BY SMTT(60) DEF Ops
<1>1. CASE AbandonTakesReceipt(t)
  <2>1. Goto("abandon", t, "idle") /\ UNCHANGED <<owners, outcomes>>
    BY <1>1 DEF AbandonTakesReceipt, AbandonReturns, owners, outcomes
  <2> QED BY ZenonT(60), <2>1, QuietGoto
<1>2. CASE AbandonPreparation(t)
  <2>1. /\ \E label \in {"checkSettled", "pending", "finishPrep"} :
             Goto("abandon", t, label)
        /\ UNCHANGED <<owners, outcomes>>
    BY <1>2 DEF AbandonPreparation, AbandonReturnsPending, owners, outcomes
  <2> QED BY ZenonT(60), <2>1, QuietGoto
<1>3. CASE AbandonLoop(t)
  <2>1. UNCHANGED <<reset, resetRuntime, prep, prepPhase, cleanupFailure,
                    server, closeErr>>
    BY <1>3 DEF AbandonLoop
  <2>2. \/ /\ \E label \in {"waitLogout", "pending", "waitDrain", "idle"} :
                Goto("abandon", t, label)
           /\ UNCHANGED slots
        \/ /\ current = t /\ DetachRuntime(t, FALSE)
           /\ Goto("abandon", t, "closing")
    BY ZenonT(60), <1>3 DEF AbandonLoop, AbandonReturns, AbandonReturnsPending
  <2>3. CASE UNCHANGED slots /\ \E label \in {"waitLogout", "pending", "waitDrain", "idle"} :
                Goto("abandon", t, label)
    <3>1. UNCHANGED <<owners, outcomes>>
      BY <2>1, <2>3 DEF owners, outcomes
    <3> QED BY ZenonT(60), <2>3, <3>1, QuietGoto
  <2>4. CASE current = t /\ DetachRuntime(t, FALSE)
             /\ Goto("abandon", t, "closing")
    BY ZenonT(60), <2>1, <2>4, DetachAccounted
  <2> QED BY ZenonT(60), <2>2, <2>3, <2>4
<1>4. CASE AbandonChecksSettled(t)
  <2>1. /\ \E label \in {"pending", "finishPrep"} : Goto("abandon", t, label)
        /\ UNCHANGED <<owners, outcomes>>
    BY SMTT(30), <1>4 DEF AbandonChecksSettled, AbandonReturnsPending, owners, outcomes
  <2> QED BY ZenonT(60), <2>1, QuietGoto
<1>5. CASE AbandonFinishesPreparation(t)
  <2>0. UNCHANGED <<slots, exclusive, cleanupFailure, resources>>
    BY SMTT(60), <1>5 DEF AbandonFinishesPreparation
  <2>1. CASE ClaimFinish(t) /\ UNCHANGED pc
    <3>1. /\ prep = t /\ prep' = t /\ prepPhase' = "finishing"
          /\ closeErr[t] \in BOOLEAN
          /\ closeErr' = [closeErr EXCEPT ![t] = closeErr[t]]
          /\ server[t] = "unknown" => closeErr[t]
      BY SMTT(30), <2>0, <2>1 DEF ClaimFinish, ServerAccounted, Accounted, CloseOrder,
                        TypeOK
    <3>2. \A u \in Tokens : SamePoint(u)
      BY ZenonT(60), <2>1 DEF SamePoint
    <3> QED BY ZenonT(60), <2>0, <3>1, <3>2, PreparationMoves
  <2>2. CASE AbandonReturns(t, ~closeErr[t]) /\ UNCHANGED preparing
    <3>1. Goto("abandon", t, "idle") /\ UNCHANGED <<owners, outcomes>>
      BY SMTT(60), <2>0, <2>2 DEF AbandonReturns, owners, outcomes
    <3> QED BY ZenonT(60), <3>1, QuietGoto
  <2> QED BY SMTT(60), <1>5, <2>1, <2>2 DEF AbandonFinishesPreparation
<1>6. CASE AbandonJoins(t)
  <2>1. Goto("abandon", t, "loop") /\ UNCHANGED <<owners, outcomes>>
    BY <1>6 DEF AbandonJoins, owners, outcomes
  <2> QED BY ZenonT(60), <2>1, QuietGoto
<1>7. CASE AbandonFinishesDrain(t)
  <2>1. /\ Goto("abandon", t, "untomb") /\ FinishRuntimeDrain(t)
        /\ UNCHANGED <<prep, prepPhase, server, closeErr>>
    BY <1>7 DEF AbandonFinishesDrain
  <2>2. /\ "untomb" \notin {"waitDrain", "waitLogout"}
        /\ "untomb" = "closeFailed" => closeErr[t]
    OBVIOUS
  <2> QED BY ZenonT(60), <2>1, <2>2, DrainAccounted
<1>8. CASE AbandonDrops(t)
  <2>1. Goto("abandon", t, "idle") /\ UNCHANGED <<owners, outcomes>>
    BY <1>8 DEF AbandonDrops, AbandonReturns, owners, outcomes
  <2> QED BY ZenonT(60), <2>1, QuietGoto
<1> QED BY SMTT(30), <1>1, <1>2, <1>3, <1>4, <1>5, <1>6, <1>7, <1>8 DEF AbandonStep

(* Every step of AwaitRuntimeQuiescence keeps the accounting.              *)
LEMMA AccountedAwait ==
  ASSUME TypeOK, ServerAccounted, NEW t \in Tokens, AwaitStep(t)
  PROVE  ServerAccounted'
<1> "await" \in Ops \ {"start", "reset"} /\ "await" # "logout"
  BY SMTT(60) DEF Ops
<1>1. CASE AwaitLoop(t)
  <2>1. \E label \in {"waitPrep", "waitLogout", "waitCandidate",
                           "waitDrain", "waitStart", "idle"} :
             Goto("await", t, label)
    BY ZenonT(60), <1>1 DEF AwaitLoop, AwaitReturns
  <2>2. UNCHANGED <<owners, outcomes>>
    BY <1>1 DEF AwaitLoop, owners, outcomes
  <2> QED BY ZenonT(60), <2>1, <2>2, QuietGoto
<1>2. CASE AwaitTakesOutcome(t)
  <2>1. Goto("await", t, "idle") /\ UNCHANGED <<owners, outcomes>>
    BY <1>2 DEF AwaitTakesOutcome, AwaitReturns, owners, outcomes
  <2> QED BY ZenonT(60), <2>1, QuietGoto
<1>3. CASE AwaitJoins(t)
  <2>1. \E label \in {"loop", "idle"} : Goto("await", t, label)
    BY ZenonT(60), <1>3 DEF AwaitJoins, AwaitReturns
  <2>2. UNCHANGED <<owners, outcomes>>
    BY ZenonT(60), <1>3 DEF AwaitJoins, owners, outcomes
  <2> QED BY ZenonT(60), <2>1, <2>2, QuietGoto
<1> QED BY SMTT(60), <1>1, <1>2, <1>3 DEF AwaitStep

(* A publication failure and its reaper keep the accounting.               *)
LEMMA AccountedPublication ==
  ASSUME TypeOK, ServerAccounted, NEW t \in Tokens,
         FailPublication(t) \/ PublicationStep(t)
  PROVE  ServerAccounted'
<1> "publication" \in Ops \ {"start", "reset"} /\ "publication" # "logout"
  BY SMTT(60) DEF Ops
<1>1. CASE FailPublication(t)
  <2>1. UNCHANGED <<reset, resetRuntime, prep, prepPhase, cleanupFailure,
                    server, closeErr>>
    BY <1>1 DEF FailPublication
  <2>2. CASE /\ current = t /\ DetachRuntime(t, FALSE)
             /\ Goto("publication", t, "closing")
    BY ZenonT(60), <2>1, <2>2, DetachAccounted
  <2>3. CASE /\ \E label \in {"done", "waitDrain"} :
                  Goto("publication", t, label)
             /\ UNCHANGED slots
    <3>1. UNCHANGED <<owners, outcomes>>
      BY <2>1, <2>3 DEF owners, outcomes
    <3> QED BY ZenonT(60), <2>3, <3>1, QuietGoto
  <2> QED BY ZenonT(60), <1>1, <2>2, <2>3 DEF FailPublication
<1>2. CASE PublicationFinishesDrain(t)
  <2>1. /\ Goto("publication", t, "done") /\ FinishRuntimeDrain(t)
        /\ UNCHANGED <<prep, prepPhase, server, closeErr>>
    BY SMTT(30), <1>2 DEF PublicationFinishesDrain
  <2>2. /\ "done" \notin {"waitDrain", "waitLogout"}
        /\ "done" = "closeFailed" => closeErr[t]
    OBVIOUS
  <2> QED BY ZenonT(60), <2>1, <2>2, DrainAccounted
<1>3. CASE PublicationJoins(t)
  <2>1. Goto("publication", t, "done") /\ UNCHANGED <<owners, outcomes>>
    BY SMTT(30), <1>3 DEF PublicationJoins, owners, outcomes
  <2> QED BY ZenonT(60), <2>1, QuietGoto
<1> QED BY SMTT(60), <1>1, <1>2, <1>3 DEF PublicationStep

(* The persistent preparation slot keeps the accounting: an uncertain      *)
(* lease acquisition and a failed cleanup are owned by the slot, then by   *)
(* the poison.                                                             *)
LEMMA AccountedPreparation ==
  ASSUME TypeOK, ServerAccounted, NEW t \in Tokens,
         PreparationStep(t) \/ BeginPersistentPreparation(t)
  PROVE  ServerAccounted'
<1> "prep" \in Ops \ {"start", "reset"} /\ "prep" # "logout"
  BY SMTT(60) DEF Ops
<1>0. server[t] = "unknown" => closeErr[t]
  BY ZenonT(60) DEF ServerAccounted, Accounted, CloseOrder
<1>1. CASE SettleAcquisition(t)
  <2>1. /\ prep = t /\ prep' = t
        /\ UNCHANGED <<candidate, current, draining, reset, resetRuntime,
                       server, stage, cleanupFailure, pc>>
    BY <1>1 DEF SettleAcquisition
  <2>2. \E e \in BOOLEAN :
          /\ closeErr' = [closeErr EXCEPT ![t] = e]
          /\ e => cleanupFailure # None \/ prepPhase' = "finishing"
          /\ closeErr[t] => e
    <3>1. prepPhase = "acquiring"
      BY SMTT(30), <1>1 DEF SettleAcquisition
    <3>2. closeErr[t] => cleanupFailure # None
      BY ZenonT(60), <2>1, <3>1 DEF ServerAccounted, Accounted, CloseOrder
    <3>3. \/ closeErr' = closeErr
          \/ closeErr' = [closeErr EXCEPT ![t] = TRUE] /\ prepPhase' = "finishing"
      BY SMTT(60), <1>1 DEF SettleAcquisition
    <3>4. closeErr = [closeErr EXCEPT ![t] = closeErr[t]] /\ closeErr[t] \in BOOLEAN
      BY SMTT(60) DEF TypeOK
    <3> QED BY ZenonT(60), <3>2, <3>3, <3>4
  <2>3. \A u \in Tokens : SamePoint(u)
    BY ZenonT(60), <2>1 DEF SamePoint
  <2> QED BY ZenonT(60), <1>0, <2>1, <2>2, <2>3, PreparationMoves
<1>2. CASE CleanupPreparation(t)
  <2>1. /\ prep = t /\ prep' = t
        /\ UNCHANGED <<candidate, current, draining, reset, resetRuntime,
                       server, stage, pc>>
    BY <1>2 DEF CleanupPreparation
  <2>2. PICK storeFailed, leaseFailed \in BOOLEAN :
          /\ closeErr' = [closeErr EXCEPT
               ![t] = closeErr[t] \/ storeFailed \/ leaseFailed]
          /\ RecordCleanupFailure(t, closeErr'[t])
    BY ZenonT(60), <1>2 DEF CleanupPreparation
  <2> DEFINE e == closeErr[t] \/ storeFailed \/ leaseFailed
  <2>3. e \in BOOLEAN /\ closeErr' = [closeErr EXCEPT ![t] = e] /\ (closeErr[t] => e)
    BY SMTT(30), <2>2 DEF TypeOK
  <2>4. closeErr'[t] = e
    BY SMTT(60), <2>3 DEF TypeOK
  <2>5. (e => cleanupFailure' # None)
        /\ (cleanupFailure # None => cleanupFailure' # None)
    BY ZenonT(60), <2>2, <2>4, TokenAssumption DEF RecordCleanupFailure
  <2>6. \A u \in Tokens : SamePoint(u)
    BY Zenon, <2>1 DEF SamePoint
  <2> HIDE DEF e
  <2> QED BY ZenonT(60), <1>0, <2>1, <2>3, <2>5, <2>6, PreparationMoves
<1>3. CASE RetirePreparation(t)
  <2>1. /\ prep = t /\ prepPhase = "cleaned" /\ prep' = None
        /\ UNCHANGED <<candidate, current, draining, reset, resetRuntime,
                       outcomes, pc>>
    BY <1>3 DEF RetirePreparation, outcomes
  <2>2. \A u \in Tokens : SamePoint(u)
    BY ZenonT(60), <2>1 DEF SamePoint
  <2> QED BY ZenonT(60), <2>1, <2>2, PreparationSlot
<1>4. CASE BeginPersistentPreparation(t)
  <2>1. UNCHANGED <<candidate, current, draining, reset, resetRuntime,
                    outcomes>>
    BY ZenonT(60), <1>4 DEF BeginPersistentPreparation, outcomes
  <2>2. \/ Goto("prep", t, "refused") /\ UNCHANGED preparing
        \/ /\ Goto("prep", t, "begun") /\ prep = None /\ prep' = t
           /\ reset = None /\ candidate = None /\ current = None
           /\ draining = None /\ cleanupFailure = None
    BY ZenonT(60), <1>4 DEF BeginPersistentPreparation
  <2>3. pc[<<"start", t>>] = "idle"
    BY ZenonT(60), <1>4 DEF BeginPersistentPreparation
  <2>4. CASE Goto("prep", t, "refused") /\ UNCHANGED preparing
    <3>1. UNCHANGED <<owners, outcomes>>
      BY SMTT(30), <2>1, <2>4 DEF owners
    <3> QED BY ZenonT(60), <2>4, <3>1, QuietGoto
  <2>5. CASE /\ Goto("prep", t, "begun") /\ prep = None /\ prep' = t
             /\ reset = None /\ candidate = None /\ current = None
             /\ draining = None /\ cleanupFailure = None
    <3>1. \A u \in Tokens : SamePoint(u)
      BY ZenonT(60), <2>5, GotoSamePoint
    <3> QED BY SMTT(30), <2>1, <2>3, <2>5, <3>1, PreparationSlot
  <2> QED BY SMTT(60), <2>2, <2>4, <2>5
<1> QED BY SMTT(30), <1>1, <1>2, <1>3, <1>4 DEF PreparationStep

(* The caller's custody steps keep the accounting.                         *)
LEMMA AccountedCustody ==
  ASSUME TypeOK, ServerAccounted, NEW t \in Tokens, CustodyStep(t)
  PROVE  ServerAccounted'
<1> "prep" \in Ops \ {"start", "reset"} /\ "prep" # "logout"
  BY DEF Ops
<1>1. /\ prep = t /\ prep' = t /\ prepPhase \in {"settled", "custody", "completed"}
      /\ UNCHANGED <<candidate, current, draining, reset, resetRuntime,
                     server, stage, closeErr>>
  BY ZenonT(60) DEF CustodyStep, MarkCustodyActive, PreparePersistentState,
         CompletePersistentCustody, FinishPreparedPersistentState,
         FinishCustody
<1>2. /\ closeErr[t] \in BOOLEAN
      /\ closeErr' = [closeErr EXCEPT ![t] = closeErr[t]]
      /\ closeErr[t] => cleanupFailure # None
      /\ server[t] = "unknown" => closeErr[t]
  BY SMTT(60), <1>1 DEF TypeOK, ServerAccounted, Accounted, CloseOrder
<1>3. cleanupFailure # None => cleanupFailure' # None
  BY ZenonT(60), TokenAssumption
     DEF CustodyStep, MarkCustodyActive, PreparePersistentState,
         CompletePersistentCustody, FinishPreparedPersistentState,
         FinishCustody, RecordCleanupFailure
<1>4. \A u \in Tokens : SamePoint(u)
  <2>1. \/ UNCHANGED pc
        \/ \E label \in {"ready", "probed", "finished"} : Goto("prep", t, label)
    BY ZenonT(60) DEF CustodyStep, MarkCustodyActive, PreparePersistentState,
           CompletePersistentCustody, FinishPreparedPersistentState,
           FinishCustody
  <2>2. UNCHANGED pc => \A u \in Tokens : SamePoint(u)
    BY SMTT(60) DEF SamePoint
  <2> QED BY SMTT(60), <2>1, <2>2, GotoSamePoint
<1> QED BY ZenonT(60), <1>1, <1>2, <1>3, <1>4, PreparationMoves

(* Every step of a local reset keeps the accounting.                       *)
LEMMA AccountedReset ==
  ASSUME TypeOK, ServerAccounted, NEW r \in Tokens, ResetStep(r)
  PROVE  ServerAccounted'
<1>0. /\ UNCHANGED <<candidate, current, draining, prep, prepPhase, server,
                     closeErr, stage>>
      /\ pc[<<"reset", r>>] \in ResetLabels
  BY ZenonT(60) DEF ResetStep, ResetClosedRuntime, ResetAcquires, ResetProceeds,
         ResetReleases, ResetClears, ResetLabels
<1>1. reset = r /\ (pc[<<"reset", r>>] \in ResetAloneLabels => resetRuntime = None)
      /\ (pc[<<"reset", r>>] = "closing" => resetRuntime # None)
  BY ZenonT(60), <1>0 DEF ServerAccounted, Accounted, ResetOwnsSlot
<1>2. CASE ResetClosedRuntime(r)
  <2>1. /\ resetRuntime # None /\ stage[resetRuntime] = "closed" /\ reset' = r
        /\ \/ /\ Goto("reset", r, "stuck") /\ closeErr[resetRuntime]
              /\ UNCHANGED resetRuntime
           \/ /\ Goto("reset", r, "marker") /\ ~closeErr[resetRuntime]
              /\ resetRuntime' = None
    BY ZenonT(60), <1>1, <1>2 DEF ResetClosedRuntime
  <2>2. /\ closeErr[resetRuntime] => cleanupFailure' # None
        /\ cleanupFailure # None => cleanupFailure' # None
    BY ZenonT(60), <1>2, TokenAssumption DEF ResetClosedRuntime, RecordCleanupFailure
  <2> QED BY ZenonT(60), <1>0, <2>1, <2>2, ResetMoves DEF ResetAloneLabels
<1>3. CASE ResetAcquires(r)
  <2>1. /\ resetRuntime = None /\ UNCHANGED <<reset, resetRuntime, cleanupFailure>>
        /\ \E label \in {"marker", "finish"} : Goto("reset", r, label)
    BY ZenonT(60), <1>1, <1>3 DEF ResetAcquires, ResetAloneLabels
  <2> QED BY ZenonT(60), <1>0, <1>1, <2>1, ResetMoves
<1>4. CASE ResetProceeds(r)
  <2>1. /\ resetRuntime = None /\ UNCHANGED <<reset, resetRuntime, cleanupFailure>>
        /\ \E label \in {"ready", "finish"} : Goto("reset", r, label)
    BY SMTT(30), <1>1, <1>4 DEF ResetProceeds, ResetAloneLabels
  <2> QED BY ZenonT(60), <1>0, <1>1, <2>1, ResetMoves
<1>5. CASE ResetReleases(r)
  <2>1. /\ resetRuntime = None /\ UNCHANGED <<reset, resetRuntime>>
        /\ Goto("reset", r, "clear")
        /\ cleanupFailure # None => cleanupFailure' # None
    BY SMTT(30), <1>1, <1>5, TokenAssumption
       DEF ResetReleases, RecordCleanupFailure, ResetAloneLabels
  <2> QED BY ZenonT(60), <1>0, <1>1, <2>1, ResetMoves
<1>6. CASE ResetClears(r)
  <2>1. /\ resetRuntime = None /\ UNCHANGED <<resetRuntime, cleanupFailure>>
        /\ Goto("reset", r, "done") /\ reset' = None
    BY SMTT(30), <1>1, <1>6 DEF ResetClears, ResetAloneLabels
  <2> QED BY ZenonT(60), <1>0, <1>1, <2>1, ResetMoves DEF ResetLabels, ResetAloneLabels
<1> QED BY SMTT(60), <1>2, <1>3, <1>4, <1>5, <1>6 DEF ResetStep

(* closeRuntime, for down and for the logout owner, keeps the accounting:  *)
(* a joined drain's failure has been recorded before the join returns.     *)
LEMMA AccountedCloseRuntime ==
  ASSUME TypeOK, ServerAccounted, NEW t \in Tokens,
         NEW op \in {"down", "logout"}, CloseRuntimeStep(op, t)
  PROVE  ServerAccounted'
<1> op \in Ops \ {"start", "reset"}
  BY SMTT(60) DEF Ops
<1>0. Accounted(t) /\ SlotsExclusive
  BY SMTT(60) DEF ServerAccounted
<1>1. CASE CloseLoop(op, t)
  <2>1. UNCHANGED <<reset, resetRuntime, prep, prepPhase, cleanupFailure,
                    server, closeErr>>
    BY SMTT(60), <1>1 DEF CloseLoop
  <2>2. \/ /\ current = t /\ DetachRuntime(t, op = "down")
           /\ Goto(op, t, "closing")
        \/ UNCHANGED slots /\ op = "down" /\ \E label : Goto("down", t, label)
        \/ /\ UNCHANGED slots /\ op = "logout"
           /\ \E label \in {"waitCandidate", "closeReturned"} :
                Goto("logout", t, label)
        \/ /\ UNCHANGED slots /\ op = "logout"
           /\ draining = t /\ Goto("logout", t, "waitDrain")
    BY ZenonT(60), <1>1 DEF CloseLoop, JoinLogout, CloseReturns
  <2>3. CASE /\ current = t /\ DetachRuntime(t, op = "down")
             /\ Goto(op, t, "closing")
    BY ZenonT(60), <2>1, <2>3, DetachAccounted
  <2>4. CASE UNCHANGED slots /\ op = "down" /\ \E label : Goto("down", t, label)
    <3>1. UNCHANGED <<owners, outcomes>> /\ op # "logout"
      BY <2>1, <2>4 DEF owners, outcomes
    <3> QED BY ZenonT(60), <2>4, <3>1, QuietGoto
  <2>5. CASE /\ UNCHANGED slots /\ op = "logout"
             /\ \E label \in {"waitCandidate", "closeReturned"} :
                  Goto("logout", t, label)
    <3>1. UNCHANGED <<owners, outcomes>>
      BY SMTT(30), <2>1, <2>5 DEF owners, outcomes
    <3> QED BY ZenonT(60), <2>5, <3>1, QuietGoto
  <2>6. CASE /\ UNCHANGED slots /\ op = "logout"
             /\ draining = t /\ Goto("logout", t, "waitDrain")
    <3>1. /\ SlotsExclusive' /\ SingleServer'
          /\ PoisonEmptiesSlots' /\ ResetHoldsRuntime'
      BY ZenonT(60), <2>1, <2>6 DEF ServerAccounted, SlotsExclusive, SingleServer,
                        Running, PoisonEmptiesSlots, ResetHoldsRuntime
    <3>2. t \notin {candidate, current, resetRuntime}
      BY SMTT(60), <2>6, TokenAssumption
         DEF ServerAccounted, SlotsExclusive, ResetHoldsRuntime
    <3>3. ASSUME NEW u \in Tokens PROVE Accounted(u)'
      <4>1. Accounted(u)
        BY SMTT(60) DEF ServerAccounted
      <4>2. /\ pc'[<<"start", u>>] = pc[<<"start", u>>]
            /\ pc'[<<"reset", u>>] = pc[<<"reset", u>>]
            /\ \/ pc'[<<"logout", u>>] = pc[<<"logout", u>>]
               \/ pc'[<<"logout", u>>] = "waitDrain" /\ u = t
        BY SMTT(60), <2>6, OtherPoints
      <4>3. StartOwnsCandidate(u)' /\ CloseOrder(u)'
        BY ZenonT(60), <2>1, <2>6, <4>1, <4>2 DEF Accounted, StartOwnsCandidate, CloseOrder
      <4>4. FailureAccounted(u)'
        BY ZenonT(60), <2>1, <2>6, <3>2, <4>1, <4>2 DEF Accounted, FailureAccounted
      <4>5. ResetOwnsSlot(u)'
        BY ZenonT(60), <2>1, <4>1, <4>2 DEF Accounted, ResetOwnsSlot
      <4> QED BY SMTT(60), <4>3, <4>4, <4>5 DEF Accounted
    <3> QED BY SMTT(30), <3>1, <3>3 DEF ServerAccounted
  <2> QED BY SMTT(60), <2>2, <2>3, <2>4, <2>5, <2>6
<1>2. CASE CloseJoins(op, t)
  <2>1. UNCHANGED <<owners, outcomes>>
    BY ZenonT(60), <1>2 DEF CloseJoins, owners, outcomes
  <2>2. CASE op = "down"
    <3>1. \E label : Goto("down", t, label)
      BY ZenonT(60), <1>2, <2>2 DEF CloseJoins, CloseReturns
    <3> QED BY ZenonT(60), <2>1, <2>2, <3>1, QuietGoto
  <2>3. CASE op = "logout"
    <3>1. pc[<<"logout", t>>] # "waitLogout"
      BY SMTT(60), <1>0 DEF Accounted, FailureAccounted
    <3>2. \/ \E label \in {"loop", "closeReturned"} : Goto("logout", t, label)
          \/ /\ Goto("logout", t, "closeFailed") /\ closeErr[t]
             /\ pc[<<"logout", t>>] = "waitDrain" /\ draining # t
      BY ZenonT(60), <1>2, <2>3, <3>1 DEF CloseJoins, CloseReturns
    <3>3. CASE \E label \in {"loop", "closeReturned"} : Goto("logout", t, label)
      BY ZenonT(60), <2>1, <2>3, <3>3, QuietGoto
    <3>4. CASE /\ Goto("logout", t, "closeFailed") /\ closeErr[t]
               /\ pc[<<"logout", t>>] = "waitDrain" /\ draining # t
      <4>1. cleanupFailure # None
        BY ZenonT(60), <1>0, <3>4 DEF Accounted, FailureAccounted, CloseOrder
      <4>2. /\ SlotsExclusive' /\ SingleServer'
            /\ PoisonEmptiesSlots' /\ ResetHoldsRuntime'
        BY SMTT(60), <2>1 DEF ServerAccounted, SlotsExclusive, SingleServer, Running,
                    PoisonEmptiesSlots, ResetHoldsRuntime, owners, outcomes
      <4>3. ASSUME NEW u \in Tokens PROVE Accounted(u)'
        <5>1. Accounted(u)
          BY DEF ServerAccounted
        <5>2. /\ pc'[<<"start", u>>] = pc[<<"start", u>>]
              /\ pc'[<<"reset", u>>] = pc[<<"reset", u>>]
              /\ \/ pc'[<<"logout", u>>] = pc[<<"logout", u>>]
                 \/ pc'[<<"logout", u>>] = "closeFailed"
          BY SMTT(60), <2>3, <3>4, OtherPoints
        <5>3. StartOwnsCandidate(u)' /\ CloseOrder(u)'
          BY ZenonT(60), <2>1, <5>1, <5>2
             DEF Accounted, StartOwnsCandidate, CloseOrder, owners, outcomes
        <5>4. FailureAccounted(u)' /\ ResetOwnsSlot(u)'
          BY ZenonT(60), <2>1, <4>1, <5>1, <5>2
             DEF Accounted, FailureAccounted, ResetOwnsSlot, owners, outcomes
        <5> QED BY SMTT(60), <5>3, <5>4 DEF Accounted
      <4> QED BY <4>2, <4>3 DEF ServerAccounted
    <3> QED BY SMTT(60), <3>2, <3>3, <3>4
  <2> QED BY SMTT(60), <2>2, <2>3
<1>3. CASE CloseFinishes(op, t)
  <2> DEFINE label == IF op = "down" THEN "idle"
                      ELSE IF closeErr[t] THEN "closeFailed" ELSE "closeReturned"
  <2>1. /\ Goto(op, t, label) /\ FinishRuntimeDrain(t)
        /\ UNCHANGED <<prep, prepPhase, server, closeErr>>
    BY SMTT(30), <1>3 DEF CloseFinishes, CloseReturns
  <2>2. /\ label \notin {"waitDrain", "waitLogout"}
        /\ label = "closeFailed" => closeErr[t]
    OBVIOUS
  <2> HIDE DEF label
  <2> QED BY ZenonT(60), <2>1, <2>2, DrainAccounted
<1> QED BY SMTT(30), <1>1, <1>2, <1>3 DEF CloseRuntimeStep

(* Every step of LogoutWithToken keeps the accounting.                     *)
LEMMA AccountedLogout ==
  ASSUME TypeOK, ServerAccounted, NEW t \in Tokens, LogoutStep(t)
  PROVE  ServerAccounted'
<1> "logout" \in Ops \ {"start", "reset"}
  BY SMTT(60) DEF Ops
<1>1. CASE LogoutCheck(t)
  <2>1. /\ \E label \in {"capture", "done"} : Goto("logout", t, label)
        /\ UNCHANGED <<owners, outcomes>>
    BY SMTT(30), <1>1 DEF LogoutCheck, LogoutRefused, owners, outcomes
  <2> QED BY ZenonT(60), <2>1, QuietGoto
<1>2. CASE LogoutCapture(t)
  <2>1. UNCHANGED <<owners, outcomes>>
    BY SMTT(60), <1>2 DEF LogoutCapture, owners, outcomes
  <2>2. \/ \E label \in {"begin", "done", "abort"} : Goto("logout", t, label)
        \/ /\ prep = t
           /\ pc' = [pc EXCEPT ![<<"logout", t>>] = "reopen",
                               ![<<"start", t>>] = "probe"]
    BY SMTT(60), <1>2 DEF LogoutCapture, LogoutRefused
  <2>3. CASE /\ prep = t
             /\ pc' = [pc EXCEPT ![<<"logout", t>>] = "reopen",
                                 ![<<"start", t>>] = "probe"]
    <3>1. stage[t] = "open" /\ candidate = None /\ current = None /\ server[t] # "starting"
      BY ZenonT(60), <2>3, TokenAssumption
         DEF ServerAccounted, SlotsExclusive, Accounted, CloseOrder, FailureAccounted, ResetHoldsRuntime
    <3>2. /\ SlotsExclusive' /\ SingleServer'
          /\ PoisonEmptiesSlots' /\ ResetHoldsRuntime'
      BY SMTT(60), <2>1 DEF ServerAccounted, SlotsExclusive, SingleServer, Running,
                  PoisonEmptiesSlots, ResetHoldsRuntime, owners, outcomes
    <3>3. ASSUME NEW u \in Tokens PROVE Accounted(u)'
      <4>1. Accounted(u)
        BY SMTT(60) DEF ServerAccounted
      <4>2. /\ pc'[<<"start", u>>] = IF u = t THEN "probe"
                                              ELSE pc[<<"start", u>>]
            /\ pc'[<<"reset", u>>] = pc[<<"reset", u>>]
            /\ pc'[<<"logout", u>>] = IF u = t THEN "reopen"
                                               ELSE pc[<<"logout", u>>]
        BY SMTT(60), <2>3 DEF TypeOK, Ops
      <4>3. StartOwnsCandidate(u)'
        BY ZenonT(60), <2>1, <3>1, <4>1, <4>2, TokenAssumption
           DEF Accounted, StartOwnsCandidate, CandidateLabels, owners, outcomes
      <4>4. CloseOrder(u)' /\ FailureAccounted(u)' /\ ResetOwnsSlot(u)'
        BY ZenonT(60), <2>1, <4>1, <4>2
           DEF Accounted, CloseOrder, FailureAccounted, ResetOwnsSlot, owners,
               outcomes
      <4> QED BY SMTT(60), <4>3, <4>4 DEF Accounted
    <3> QED BY SMTT(60), <3>2, <3>3 DEF ServerAccounted
  <2> QED BY SMTT(60), <2>1, <2>2, <2>3, QuietGoto
<1>3. CASE LogoutReopened(t)
  <2>1. /\ \E label \in {"abort", "done", "begin"} : Goto("logout", t, label)
        /\ UNCHANGED <<owners, outcomes>>
    BY SMTT(30), <1>3 DEF LogoutReopened, LogoutRefused, owners, outcomes
  <2> QED BY ZenonT(60), <2>1, QuietGoto
<1>4. CASE LogoutAborts(t)
  <2>1. UNCHANGED <<slots, exclusive, prep, cleanupFailure, resources>>
    BY SMTT(60), <1>4 DEF LogoutAborts
  <2>2. \/ Goto("logout", t, "done") /\ UNCHANGED prepPhase
        \/ /\ Goto("logout", t, "aborting") /\ prep = t
           /\ prepPhase' = "finishing"
    BY SMTT(60), <1>4 DEF LogoutAborts, LogoutRefused
  <2>3. CASE Goto("logout", t, "done") /\ UNCHANGED prepPhase
    <3>1. UNCHANGED <<owners, outcomes>>
      BY SMTT(30), <2>1, <2>3 DEF owners, outcomes
    <3> QED BY ZenonT(60), <2>3, <3>1, QuietGoto
  <2>4. CASE /\ Goto("logout", t, "aborting") /\ prep = t
             /\ prepPhase' = "finishing"
    <3>1. \A u \in Tokens : SamePoint(u)
      BY ZenonT(60), <2>4, GotoSamePoint
    <3>2. /\ closeErr[t] \in BOOLEAN
          /\ closeErr' = [closeErr EXCEPT ![t] = closeErr[t]]
          /\ server[t] = "unknown" => closeErr[t]
      BY ZenonT(60), <2>1 DEF ServerAccounted, Accounted, CloseOrder, TypeOK
    <3> QED BY ZenonT(60), <2>1, <2>4, <3>1, <3>2, PreparationMoves
  <2> QED BY SMTT(60), <2>2, <2>3, <2>4
<1>5. CASE BeginLogout(t)
  <2>1. /\ \E label \in {"revoke", "done"} : Goto("logout", t, label)
        /\ UNCHANGED <<owners, outcomes>>
    BY <1>5 DEF BeginLogout, LogoutRefused, owners, outcomes
  <2> QED BY ZenonT(60), <2>1, QuietGoto
<1>6. CASE RevokeNodeKey(t)
  <2>1. Goto("logout", t, "loop") /\ UNCHANGED <<owners, outcomes>>
    BY ZenonT(60), <1>6 DEF RevokeNodeKey, owners, outcomes
  <2> QED BY ZenonT(60), <2>1, QuietGoto
<1>7. CASE CloseRuntimeStep("logout", t)
  BY SMTT(60), <1>7, AccountedCloseRuntime
<1>8. CASE FinishLogout(t)
  <2>1. Goto("logout", t, "done") /\ UNCHANGED owners
        /\ UNCHANGED <<server, closeErr, stage>>
    BY SMTT(30), <1>8 DEF FinishLogout, owners
  <2>2. UNCHANGED cleanupFailure
    <3>1. pc[<<"logout", t>>] = "closeFailed" => cleanupFailure # None
      BY ZenonT(60) DEF ServerAccounted, Accounted, FailureAccounted
    <3> QED BY SMTT(60), <1>8, <3>1 DEF FinishLogout, RecordCleanupFailure
  <2>3. UNCHANGED outcomes
    BY SMTT(60), <2>1, <2>2 DEF outcomes
  <2> QED BY ZenonT(60), <2>1, <2>3, QuietGoto
<1> QED BY SMTT(30), <1>1, <1>2, <1>3, <1>4, <1>5, <1>6, <1>7, <1>8 DEF LogoutStep

(* So does every call the environment may make.                            *)
LEMMA AccountedCall ==
  ASSUME TypeOK, ServerAccounted, NEW t \in Tokens, Call(t)
  PROVE  ServerAccounted'
<1>1. CASE CallStart(t) \/ LoseStart(t)
  <2>1. /\ \E label \in {"probe", "done"} : Goto("start", t, label)
        /\ pc[<<"start", t>>] = "idle" /\ UNCHANGED <<owners, outcomes>>
    BY SMTT(30), <1>1 DEF CallStart, LoseStart, owners, outcomes
  <2> QED BY ZenonT(60), <2>1, QuietStart DEF CandidateLabels
<1>2. CASE CallDown(t) \/ CallAbandon(t) \/ CallAwait(t) \/ CallLogout(t)
  <2>1. /\ \/ Goto("down", t, "loop") \/ Goto("abandon", t, "loop")
           \/ Goto("await", t, "loop") \/ Goto("logout", t, "check")
        /\ UNCHANGED <<owners, outcomes>>
    BY ZenonT(60), <1>2 DEF CallDown, CallAbandon, CallAwait, CallLogout, owners, outcomes
  <2>2. {"down", "abandon", "await", "logout"} \subseteq Ops \ {"start", "reset"}
    BY SMTT(60) DEF Ops
  <2> QED BY SMTT(60), <2>1, <2>2, QuietGoto
<1>3. CASE BeginPersistentPreparation(t)
  BY SMTT(60), <1>3, AccountedPreparation
<1>4. CASE BeginLocalReset(t)
  BY <1>4, ResetBegins
<1>5. CASE FailPublication(t)
  BY SMTT(60), <1>5, AccountedPublication
<1>6. CASE AcknowledgeLifecycleResult(t) \/ RetireAbandonedRuntimeToken(t)
  <2>1. UNCHANGED <<owners, outcomes, pc>>
    BY ZenonT(60), <1>6 DEF AcknowledgeLifecycleResult, RetireAbandonedRuntimeToken,
                owners, outcomes
  <2>2. \A u \in Tokens : SamePoint(u)
    BY SMTT(60), <2>1 DEF SamePoint
  <2> QED BY SMTT(60), <2>1, <2>2, QuietStep
<1>7. CASE CustodyStep(t)
  BY <1>7, AccountedCustody
<1> QED BY SMTT(60), <1>1, <1>2, <1>3, <1>4, <1>5, <1>6, <1>7 DEF Call

(* The empty controller is accounted for.                                  *)
LEMMA AccountedInit == Init => ServerAccounted
<1> SUFFICES ASSUME Init PROVE ServerAccounted
  OBVIOUS
<1>1. /\ candidate = None /\ current = None /\ draining = None
      /\ reset = None /\ resetRuntime = None /\ prep = None
      /\ cleanupFailure = None
  BY SMTT(30) DEF Init
<1>2. ASSUME NEW t \in Tokens
      PROVE  /\ stage[t] = "open" /\ server[t] = "none" /\ ~closeErr[t]
             /\ pc[<<"start", t>>] = "idle" /\ pc[<<"reset", t>>] = "idle"
             /\ pc[<<"logout", t>>] = "idle"
  BY SMTT(60) DEF Init, Ops
<1>3. SlotsExclusive /\ PoisonEmptiesSlots /\ ResetHoldsRuntime
  BY SMTT(60), <1>1 DEF SlotsExclusive, PoisonEmptiesSlots, ResetHoldsRuntime
<1>4. SingleServer
  BY ZenonT(60), <1>2 DEF SingleServer, Running
<1>5. ASSUME NEW t \in Tokens PROVE Accounted(t)
  <2>1. t # None
    BY TokenAssumption
  <2>2. StartOwnsCandidate(t)
    BY ZenonT(60), <1>1, <1>2, <2>1 DEF StartOwnsCandidate, CandidateLabels
  <2>3. CloseOrder(t) /\ FailureAccounted(t)
    BY ZenonT(60), <1>1, <1>2, <2>1 DEF CloseOrder, FailureAccounted
  <2>4. ResetOwnsSlot(t)
    BY ZenonT(60), <1>2 DEF ResetOwnsSlot, ResetLabels, ResetAloneLabels
  <2> QED BY SMTT(30), <2>2, <2>3, <2>4 DEF Accounted
<1> QED BY SMTT(30), <1>3, <1>4, <1>5 DEF ServerAccounted

(* ServerAccounted is inductive relative to the type invariant.            *)
LEMMA AccountedNext ==
  ASSUME TypeOK, ServerAccounted, [Next]_vars
  PROVE  ServerAccounted'
<1>1. CASE UNCHANGED vars
  <2>1. UNCHANGED <<owners, outcomes, pc>>
    BY <1>1 DEF vars, owners, outcomes
  <2>2. \A u \in Tokens : SamePoint(u)
    BY ZenonT(60), <2>1 DEF SamePoint
  <2> QED BY SMTT(30), <2>1, <2>2, QuietStep
<1>2. ASSUME NEW t \in Tokens, Call(t) PROVE ServerAccounted'
  BY SMTT(60), <1>2, AccountedCall
<1>3. ASSUME NEW t \in Tokens, Run(t) PROVE ServerAccounted'
  BY SMTT(60), <1>3, CloseAccounted, AccountedStart, AccountedCloseRuntime,
     AccountedAbandon, AccountedAwait, AccountedLogout, AccountedPublication,
     AccountedPreparation, AccountedReset DEF Run
<1> QED BY SMTT(30), <1>1, <1>2, <1>3 DEF Next

-----------------------------------------------------------------------------
(* In every behaviour of the controller a running Server belongs to a      *)
(* slot and no failed close is lost.                                       *)
THEOREM Accounting == Spec => []ServerAccounted
<1>1. Init => ServerAccounted
  BY AccountedInit
<1>2. TypeOK /\ ServerAccounted /\ [Next]_vars => ServerAccounted'
  BY AccountedNext
<1> QED BY <1>1, <1>2, TypeCorrect, PTL DEF Spec

(* At most one tsnet.Server runs in the process, for any number of tokens  *)
(* and any interleaving of their calls, counting one whose close failed.   *)
THEOREM OneServer == Spec => []SingleServer
<1>1. ServerAccounted => SingleServer
  BY SMTT(60) DEF ServerAccounted
<1> QED BY <1>1, Accounting, PTL

(* Candidate, current runtime, drain, preparation and reset exclude each   *)
(* other, although each is admitted by a check of its own.                 *)
THEOREM ExclusiveSlots == Spec => []SlotsExclusive
<1>1. ServerAccounted => SlotsExclusive
  BY SMTT(60) DEF ServerAccounted
<1> QED BY <1>1, Accounting, PTL

(* Once a cleanup failure is recorded no slot is occupied and no Server    *)
(* runs, although commit does not look at the poison.                      *)
THEOREM PoisonIsFinal == Spec => []PoisonedIsIdle
<1>1. ServerAccounted => PoisonedIsIdle
  <2> SUFFICES ASSUME ServerAccounted, cleanupFailure # None
               PROVE  /\ candidate = None /\ current = None /\ draining = None
                      /\ \A t \in Tokens : server[t] \notin {"starting", "live"}
    BY DEF PoisonedIsIdle
  <2>1. candidate = None /\ current = None /\ draining = None
    BY SMTT(60) DEF ServerAccounted, PoisonEmptiesSlots
  <2>2. ASSUME NEW t \in Tokens PROVE server[t] \notin {"starting", "live"}
    <3>1. Accounted(t) /\ ResetHoldsRuntime
      BY DEF ServerAccounted
    <3> QED BY ZenonT(60), <2>1, <3>1, TokenAssumption
            DEF Accounted, FailureAccounted, CloseOrder, ResetHoldsRuntime
  <2> QED BY SMTT(60), <2>1, <2>2
<1> QED BY <1>1, Accounting, PTL

=============================================================================
