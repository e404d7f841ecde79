---------------------- MODULE RuntimeController_proofs ----------------------
(***************************************************************************)
(* Proofs about RuntimeController for every set of tokens and every set of *)
(* calls: type correctness, and the inductive invariant ServerAccounted    *)
(* with the safety properties that follow from it.                         *)
(***************************************************************************)
EXTENDS RuntimeController, TLAPS

USE DEF slots, exclusive, preparing, books, resources, identity, hostNetwork,
        config, reports, At, Goto

(* What the shared operators leave in the variables they assign.           *)
LEMMA DetachType ==
  ASSUME TypeOK, NEW t \in Tokens, NEW receipt \in BOOLEAN,
         DetachRuntime(t, receipt)
  PROVE  /\ epoch' \in Nat
         /\ candidate' \in MaybeToken /\ current' \in MaybeToken
         /\ draining' \in MaybeToken /\ drainReceipt' \in BOOLEAN
         /\ stage' \in [Tokens -> {"open", "server", "store", "lease",
                                   "scratch", "closed"}]
         /\ published' \subseteq Tokens
BY DEF TypeOK, MaybeToken, DetachRuntime

(* finishRuntimeDrain leaves typed receipts and logout errors.             *)
LEMMA DrainType ==
  ASSUME TypeOK, NEW t \in Tokens, FinishRuntimeDrain(t)
  PROVE  /\ epoch' \in Nat
         /\ candidate' \in MaybeToken /\ current' \in MaybeToken
         /\ draining' \in MaybeToken /\ drainReceipt' \in BOOLEAN
         /\ stage' \in [Tokens -> {"open", "server", "store", "lease",
                                   "scratch", "closed"}]
         /\ published' \subseteq Tokens
         /\ logout' \in MaybeToken /\ reset' \in MaybeToken
         /\ resetRuntime' \in MaybeToken
         /\ logoutErr' \in [Tokens -> BOOLEAN] /\ revoked' \in BOOLEAN
         /\ hidden' \subseteq Tokens
         /\ startCalls' \subseteq Tokens
         /\ completedPreparations' \subseteq Tokens
         /\ completedLifecycle' \in [Tokens -> Receipts]
         /\ cleanupFailure' \in MaybeToken
<1>1. completedLifecycle' \in [Tokens -> Receipts]
  BY DEF TypeOK, Receipts, FinishRuntimeDrain
<1>2. cleanupFailure' \in MaybeToken
  BY DEF TypeOK, MaybeToken, FinishRuntimeDrain, RecordCleanupFailure
<1>3. logoutErr' \in [Tokens -> BOOLEAN]
  BY DEF TypeOK, FinishRuntimeDrain
<1> QED BY ZenonT(60), <1>1, <1>2, <1>3 DEF TypeOK, MaybeToken, FinishRuntimeDrain

(* A lease acquisition leaves the lease with a token or free.              *)
LEMMA AcquireType ==
  ASSUME TypeOK, NEW t \in Tokens, NEW outcome, AcquireLease(t, outcome)
  PROVE  lease' \in MaybeToken /\ leasePoisoned' \in BOOLEAN
BY ZenonT(60) DEF TypeOK, MaybeToken, AcquireLease

(* A move to a known label keeps the control points typed.                 *)
LEMMA GotoType ==
  ASSUME TypeOK, NEW op \in Ops, NEW t \in Tokens, NEW label \in Labels,
         Goto(op, t, label)
  PROVE  pc' \in [Ops \X Tokens -> Labels]
BY DEF TypeOK

(* Start steps preserve the type invariant.                                *)
LEMMA TypeStart ==
  ASSUME TypeOK, NEW t \in Tokens, StartStep(t)
  PROVE  TypeOK'
<1>1. CASE ProbeActiveRuntime(t)
  BY SMTT(60), <1>1
     DEF TypeOK, MaybeToken, Labels, Receipts, Phases, Servers, Ops,
         ProbeActiveRuntime, ProbeRefused, ConsumeTombstone
<1>2. CASE RefreshHostNetwork(t)
  BY SMTT(60), <1>2
     DEF TypeOK, MaybeToken, Labels, Receipts, Phases, Servers, Ops,
         RefreshHostNetwork
<1>3. CASE ConfirmRefresh(t)
  BY <1>3
     DEF TypeOK, MaybeToken, Labels, Receipts, Phases, Servers, Ops,
         ConfirmRefresh, ProbeRefused, ConsumeTombstone
<1>4. CASE Admit(t)
  <2>1. CASE Reserve(t)
    <3>1. abandonedTokens' \subseteq Tokens
      BY SMTT(60), <2>1 DEF Reserve, ConsumeTombstone, TypeOK
    <3>2. pc' \in [Ops \X Tokens -> Labels]
      BY <2>1 DEF Reserve, TypeOK, Labels, Ops
    <3>3. /\ UNCHANGED preparing
          /\ NewCandidate(t) \/ UNCHANGED <<slots, identity>>
      BY SMTT(60), <2>1 DEF Reserve
    <3>4. CASE NewCandidate(t)
      BY SMTT(60), <1>4, <3>1, <3>2, <3>3, <3>4
         DEF Admit, NewCandidate, TypeOK, MaybeToken
    <3>5. CASE UNCHANGED <<slots, identity>>
      BY SMTT(60), <1>4, <3>1, <3>2, <3>3, <3>5 DEF Admit, TypeOK
    <3> QED BY SMTT(60), <3>3, <3>4, <3>5
  <2>2. CASE Adopt(t)
    <3>1. abandonedTokens' \subseteq Tokens
      BY SMTT(60), <2>2 DEF Adopt, ConsumeTombstone, TypeOK
    <3>2. pc' \in [Ops \X Tokens -> Labels]
      BY SMTT(60), <2>2 DEF Adopt, TypeOK, Labels, Ops
    <3>3. \/ NewCandidate(t) /\ prep' = None /\ prepPhase' = "none"
          \/ UNCHANGED <<slots, identity, preparing>>
      BY SMTT(60), <2>2 DEF Adopt
    <3>4. CASE NewCandidate(t) /\ prep' = None /\ prepPhase' = "none"
      BY SMTT(60), <1>4, <3>1, <3>2, <3>4
         DEF Admit, NewCandidate, TypeOK, MaybeToken, Phases
    <3>5. CASE UNCHANGED <<slots, identity, preparing>>
      BY SMTT(60), <1>4, <3>1, <3>2, <3>5 DEF Admit, TypeOK
    <3> QED BY SMTT(60), <3>3, <3>4, <3>5
  <2> QED BY <1>4, <2>1, <2>2 DEF Admit
<1>5. CASE PrepareEphemeralRuntime(t)
  <2>1. lease' \in MaybeToken /\ leasePoisoned' \in BOOLEAN
    BY SMTT(60), <1>5, AcquireType DEF PrepareEphemeralRuntime
  <2>2. /\ disk' \in [Tokens -> {"none", "store", "scratch", "unknown"}]
        /\ closeErr' \in [Tokens -> BOOLEAN]
    BY ZenonT(60), <1>5 DEF PrepareEphemeralRuntime, TypeOK
  <2>3. pc' \in [Ops \X Tokens -> Labels]
    BY SMTT(60), <1>5 DEF PrepareEphemeralRuntime, Unwind, Advance, TypeOK, Labels, Ops
  <2>4. stage' \in [Tokens -> {"open", "server", "store", "lease", "scratch",
                               "closed"}]
    BY SMTT(60), <1>5 DEF PrepareEphemeralRuntime, Unwind, Advance, TypeOK
  <2> QED BY SMTT(60), <1>5, <2>1, <2>2, <2>3, <2>4
        DEF PrepareEphemeralRuntime, Unwind, Advance, TypeOK
<1>6. CASE ApplyHostNetworkSnapshot(t)
  BY SMTT(60), <1>6
     DEF TypeOK, MaybeToken, Labels, Receipts, Phases, Servers, Ops,
         ApplyHostNetworkSnapshot, Unwind, Advance
<1>7. CASE LaunchServer(t)
  BY SMTT(60), <1>7
     DEF TypeOK, MaybeToken, Labels, Receipts, Phases, Servers, Ops,
         LaunchServer, Unwind, Advance, Persistent
<1>8. CASE ServerStartReturns(t)
  BY SMTT(60), <1>8
     DEF TypeOK, MaybeToken, Labels, Receipts, Phases, Servers, Ops,
         ServerStartReturns, Unwind, Advance
<1>9. CASE CommitStart(t)
  <2>1. CASE Unwind(t) /\ proven' \in {proven, IF Persistent(t) THEN t ELSE proven}
    BY SMTT(60), <1>9, <2>1 DEF CommitStart, Unwind, TypeOK, MaybeToken, Labels, Ops
  <2>2. CASE ~Unwind(t)
    BY SMTT(60), <1>9, <2>2 DEF CommitStart, TypeOK, MaybeToken, Labels, Ops
  <2> QED BY SMTT(60), <1>9, <2>1, <2>2 DEF CommitStart
<1>10. CASE ReleaseCandidate(t)
  BY SMTT(60), <1>10
     DEF TypeOK, MaybeToken, Labels, Receipts, Phases, Servers, Ops,
         ReleaseCandidate, RecordCleanupFailure
<1>11. CASE FinishStartCall(t)
  BY <1>11
     DEF TypeOK, MaybeToken, Labels, Receipts, Phases, Servers, Ops,
         FinishStartCall
<1> QED BY SMTT(30), <1>1, <1>2, <1>3, <1>4, <1>5, <1>6, <1>7, <1>8, <1>9, <1>10, <1>11
           DEF StartStep

(* AbandonRuntime steps preserve the type invariant.                       *)
LEMMA TypeAbandon ==
  ASSUME TypeOK, NEW t \in Tokens, AbandonStep(t)
  PROVE  TypeOK'
<1>1. CASE AbandonTakesReceipt(t)
  BY SMTT(60), <1>1
     DEF TypeOK, MaybeToken, Labels, Receipts, Phases, Servers, Ops,
         AbandonTakesReceipt, AbandonReturns, Report
<1>2. CASE AbandonPreparation(t)
  <2>1. pc' \in [Ops \X Tokens -> Labels] /\ quarantined' \subseteq Tokens
    BY SMTT(60), <1>2 DEF AbandonPreparation, AbandonReturnsPending, TypeOK, Labels, Ops
  <2>2. cleanReports' \subseteq Ops \X Tokens
    BY SMTT(60), <1>2 DEF AbandonPreparation, AbandonReturnsPending, TypeOK
  <2> QED BY ZenonT(60), <1>2, <2>1, <2>2 DEF AbandonPreparation, TypeOK
<1>3. CASE AbandonLoop(t)
  <2>1. /\ pc' \in [Ops \X Tokens -> Labels]
        /\ quarantined' \subseteq Tokens
        /\ cleanReports' \subseteq Ops \X Tokens
    <3>1. CASE AbandonReturns(t, TRUE)
      BY SMTT(30), <3>1 DEF AbandonReturns, Report, TypeOK, Labels, Ops
    <3>2. CASE AbandonReturnsPending(t)
      BY SMTT(30), <3>2 DEF AbandonReturnsPending, TypeOK, Labels, Ops
    <3>3. CASE /\ UNCHANGED reports
               /\ \E label \in {"waitLogout", "waitDrain", "closing"} :
                    Goto("abandon", t, label)
      BY SMTT(60), <3>3 DEF TypeOK, Labels, Ops
    <3> QED BY ZenonT(60), <1>3, <3>1, <3>2, <3>3 DEF AbandonLoop
  <2>3. abandoned' \in [Tokens -> BOOLEAN]
    BY ZenonT(60), <1>3 DEF AbandonLoop, TypeOK
  <2>4. CASE DetachRuntime(t, FALSE)
    BY ZenonT(60), <1>3, <2>1, <2>3, <2>4, DetachType DEF AbandonLoop, TypeOK
  <2>5. CASE UNCHANGED slots
    BY SMTT(30), <1>3, <2>1, <2>3, <2>5 DEF AbandonLoop, TypeOK
  <2> QED BY ZenonT(60), <1>3, <2>4, <2>5 DEF AbandonLoop
<1>4. CASE AbandonChecksSettled(t)
  <2>1. pc' \in [Ops \X Tokens -> Labels]
    <3>1. CASE prep = t /\ prepPhase = "acquiring"
      BY ZenonT(60), <1>4, <3>1, GotoType
         DEF AbandonChecksSettled, AbandonReturnsPending, Labels, Ops
    <3>2. CASE ~(prep = t /\ prepPhase = "acquiring")
      BY ZenonT(60), <1>4, <3>2, GotoType DEF AbandonChecksSettled, Labels, Ops
    <3> QED BY SMTT(60), <3>1, <3>2
  <2>2. quarantined' \subseteq Tokens /\ cleanReports' = cleanReports
    BY SMTT(60), <1>4 DEF AbandonChecksSettled, AbandonReturnsPending, TypeOK
  <2> QED BY SMTT(60), <1>4, <2>1, <2>2 DEF AbandonChecksSettled, TypeOK
<1>5. CASE AbandonFinishesPreparation(t)
  BY SMTT(60), <1>5
     DEF TypeOK, MaybeToken, Labels, Receipts, Phases, Servers, Ops,
         AbandonFinishesPreparation, AbandonReturns, Report, ClaimFinish
<1>6. CASE AbandonJoins(t)
  BY <1>6
     DEF TypeOK, MaybeToken, Labels, Receipts, Phases, Servers, Ops,
         AbandonJoins
<1>7. CASE AbandonFinishesDrain(t)
  <2>1. pc' \in [Ops \X Tokens -> Labels]
    BY ZenonT(60), <1>7, GotoType DEF AbandonFinishesDrain, Labels, Ops
  <2> QED BY SMTT(60), <1>7, <2>1, DrainType DEF AbandonFinishesDrain, TypeOK
<1>8. CASE AbandonDrops(t)
  BY <1>8
     DEF TypeOK, MaybeToken, Labels, Receipts, Phases, Servers, Ops,
         AbandonDrops, AbandonReturns, Report
<1> QED BY SMTT(60), <1>1, <1>2, <1>3, <1>4, <1>5, <1>6, <1>7, <1>8 DEF AbandonStep

(* AwaitRuntimeQuiescence steps preserve the type invariant.               *)
LEMMA TypeAwait ==
  ASSUME TypeOK, NEW t \in Tokens, AwaitStep(t)
  PROVE  TypeOK'
<1>1. CASE AwaitLoop(t)
  <2>1. pc' \in [Ops \X Tokens -> Labels]
    <3>1. PICK label \in {"waitPrep", "waitLogout", "waitCandidate",
                          "waitDrain", "waitStart", "idle"} :
            Goto("await", t, label)
      BY ZenonT(60), <1>1 DEF AwaitLoop, AwaitReturns
    <3> QED BY <3>1 DEF TypeOK, Labels, Ops
  <2>2. /\ cleanReports' \in {cleanReports, cleanReports \cup {<<"await", t>>}}
        /\ quarantined' = quarantined
    BY ZenonT(60), <1>1 DEF AwaitLoop, AwaitReturns, Report
  <2>3. cleanReports' \subseteq Ops \X Tokens
    BY <2>2 DEF TypeOK, Ops
  <2> QED BY ZenonT(60), <1>1, <2>1, <2>2, <2>3 DEF AwaitLoop, TypeOK
<1>2. CASE AwaitTakesOutcome(t)
  <2>1. pc' \in [Ops \X Tokens -> Labels]
    BY ZenonT(60), <1>2, GotoType DEF AwaitTakesOutcome, AwaitReturns, Labels, Ops
  <2>2. /\ cleanReports' \in {cleanReports, cleanReports \cup {<<"await", t>>}}
        /\ quarantined' = quarantined
    BY ZenonT(60), <1>2 DEF AwaitTakesOutcome, AwaitReturns, Report
  <2>3. cleanReports' \subseteq Ops \X Tokens
    BY <2>2 DEF TypeOK, Ops
  <2>4. completedPreparations' \subseteq Tokens /\ abandonedTokens' \subseteq Tokens
    BY ZenonT(60), <1>2 DEF AwaitTakesOutcome, TypeOK
  <2> QED BY ZenonT(60), <1>2, <2>1, <2>2, <2>3, <2>4
        DEF AwaitTakesOutcome, TypeOK
<1>3. CASE AwaitJoins(t)
  <2>1. pc' \in [Ops \X Tokens -> Labels]
    <3>1. PICK label \in {"loop", "idle"} : Goto("await", t, label)
      BY ZenonT(60), <1>3 DEF AwaitJoins, AwaitReturns
    <3> QED BY <3>1 DEF TypeOK, Labels, Ops
  <2>2. /\ cleanReports' \in {cleanReports, cleanReports \cup {<<"await", t>>}}
        /\ quarantined' = quarantined
    BY ZenonT(60), <1>3 DEF AwaitJoins, AwaitReturns, Report
  <2>3. cleanReports' \subseteq Ops \X Tokens
    BY <2>2 DEF TypeOK, Ops
  <2>4. completedPreparations' \subseteq Tokens /\ abandonedTokens' \subseteq Tokens
    BY ZenonT(60), <1>3 DEF AwaitJoins, TypeOK
  <2> QED BY ZenonT(60), <1>3, <2>1, <2>2, <2>3, <2>4 DEF AwaitJoins, TypeOK
<1> QED BY SMTT(60), <1>1, <1>2, <1>3 DEF AwaitStep

(* The publication reaper preserves the type invariant.                    *)
LEMMA TypePublication ==
  ASSUME TypeOK, NEW t \in Tokens, PublicationStep(t)
  PROVE  TypeOK'
<1>1. CASE PublicationFinishesDrain(t)
  <2>1. pc' \in [Ops \X Tokens -> Labels]
    BY ZenonT(60), <1>1, GotoType DEF PublicationFinishesDrain, Labels, Ops
  <2> QED BY <1>1, <2>1, DrainType DEF PublicationFinishesDrain, TypeOK
<1>2. CASE PublicationJoins(t)
  BY <1>2
     DEF TypeOK, MaybeToken, Labels, Receipts, Phases, Servers, Ops,
         PublicationJoins
<1> QED BY <1>1, <1>2 DEF PublicationStep

(* Preparation steps preserve the type invariant.                          *)
LEMMA TypePreparation ==
  ASSUME TypeOK, NEW t \in Tokens, PreparationStep(t)
  PROVE  TypeOK'
<1>1. CASE SettleAcquisition(t)
  <2>1. lease' \in MaybeToken /\ leasePoisoned' \in BOOLEAN
    BY SMTT(30), <1>1, AcquireType DEF SettleAcquisition
  <2> QED BY ZenonT(60), <1>1, <2>1 DEF SettleAcquisition, TypeOK, Phases
<1>2. CASE CleanupPreparation(t)
  BY SMTT(30), <1>2
     DEF TypeOK, MaybeToken, Labels, Receipts, Phases, Servers, Ops,
         CleanupPreparation, ReleaseLease, RecordCleanupFailure
<1>3. CASE RetirePreparation(t)
  BY <1>3
     DEF TypeOK, MaybeToken, Labels, Receipts, Phases, Servers, Ops,
         RetirePreparation
<1> QED BY <1>1, <1>2, <1>3 DEF PreparationStep

(* Custody steps preserve the type invariant.                              *)
LEMMA TypeCustody ==
  ASSUME TypeOK, NEW t \in Tokens, CustodyStep(t)
  PROVE  TypeOK'
<1>1. CASE MarkCustodyActive(t)
  BY ZenonT(60), <1>1 DEF TypeOK, Phases, MarkCustodyActive
<1>2. CASE PreparePersistentState(t)
  BY SMTT(60), <1>2
     DEF TypeOK, MaybeToken, Labels, Receipts, Phases, Servers, Ops,
         PreparePersistentState
<1>3. CASE CompletePersistentCustody(t)
  <2>1. PICK label \in {"ready", "probed"} : Goto("prep", t, label)
    BY ZenonT(60), <1>3 DEF CompletePersistentCustody
  <2>2. pc' \in [Ops \X Tokens -> Labels]
    BY <2>1 DEF TypeOK, Labels, Ops
  <2> QED BY ZenonT(60), <1>3, <2>2 DEF CompletePersistentCustody, TypeOK, Phases
<1>4. CASE FinishPreparedPersistentState(t)
  <2>1. pc' \in [Ops \X Tokens -> Labels]
    BY ZenonT(60), <1>4, GotoType DEF FinishPreparedPersistentState, Labels, Ops
  <2> QED BY ZenonT(60), <1>4, <2>1
        DEF FinishPreparedPersistentState, TypeOK, Phases
<1>5. CASE FinishCustody(t)
  BY SMTT(30), <1>5
     DEF TypeOK, MaybeToken, Labels, Receipts, Phases, Servers, Ops,
         FinishCustody, RecordCleanupFailure
<1> QED BY SMTT(60), <1>1, <1>2, <1>3, <1>4, <1>5 DEF CustodyStep

(* Local reset steps preserve the type invariant.                          *)
LEMMA TypeReset ==
  ASSUME TypeOK, NEW t \in Tokens, ResetStep(t)
  PROVE  TypeOK'
<1>1. CASE ResetClosedRuntime(t)
  BY SMTT(60), <1>1
     DEF TypeOK, MaybeToken, Labels, Receipts, Phases, Servers, Ops,
         ResetClosedRuntime, RecordCleanupFailure
<1>2. CASE ResetAcquires(t)
  <2>1. lease' \in MaybeToken /\ leasePoisoned' \in BOOLEAN
    BY SMTT(60), <1>2, AcquireType DEF ResetAcquires
  <2>2. pc' \in [Ops \X Tokens -> Labels]
    BY SMTT(60), <1>2 DEF ResetAcquires, TypeOK, Labels, Ops
  <2> QED BY SMTT(60), <1>2, <2>1, <2>2 DEF ResetAcquires, TypeOK
<1>3. CASE ResetProceeds(t)
  <2>1. PICK label \in {"ready", "finish"} : Goto("reset", t, label)
    BY ZenonT(60), <1>3 DEF ResetProceeds
  <2>2. pc' \in [Ops \X Tokens -> Labels]
    BY <2>1 DEF TypeOK, Labels, Ops
  <2> QED BY ZenonT(60), <1>3, <2>2 DEF ResetProceeds, TypeOK
<1>4. CASE ResetReleases(t)
  <2>1. pc' \in [Ops \X Tokens -> Labels]
    BY ZenonT(60), <1>4, GotoType DEF ResetReleases, Labels, Ops
  <2>2. lease' \in MaybeToken /\ cleanupFailure' \in MaybeToken
    BY ZenonT(60), <1>4
       DEF ResetReleases, ReleaseLease, RecordCleanupFailure, TypeOK, MaybeToken
  <2>3. leasePoisoned' \in BOOLEAN
    BY ZenonT(60), <1>4 DEF ResetReleases, ReleaseLease
  <2> QED BY ZenonT(60), <1>4, <2>1, <2>2, <2>3 DEF ResetReleases, TypeOK
<1>5. CASE ResetClears(t)
  BY <1>5
     DEF TypeOK, MaybeToken, Labels, Receipts, Phases, Servers, Ops,
         ResetClears
<1> QED BY SMTT(60), <1>1, <1>2, <1>3, <1>4, <1>5 DEF ResetStep

(* closeRuntime steps preserve the type invariant.                         *)
LEMMA TypeCloseRuntime ==
  ASSUME TypeOK, NEW t \in Tokens, NEW op \in {"down", "logout"}, CloseRuntimeStep(op, t)
  PROVE  TypeOK'
<1>1. CASE CloseLoop(op, t)
  <2>1. pc' \in [Ops \X Tokens -> Labels]
    BY SMTT(30), <1>1 DEF CloseLoop, CloseReturns, TypeOK, Labels, Ops
  <2>2. CASE DetachRuntime(t, op = "down")
    BY ZenonT(60), <1>1, <2>1, <2>2, DetachType DEF CloseLoop, TypeOK
  <2>3. CASE UNCHANGED slots
    BY ZenonT(60), <1>1, <2>1, <2>3 DEF CloseLoop, TypeOK
  <2> QED BY ZenonT(60), <1>1, <2>2, <2>3 DEF CloseLoop
<1>2. CASE CloseJoins(op, t)
  <2>1. pc' \in [Ops \X Tokens -> Labels]
    <3>1. PICK label \in {"loop", "idle", "closeFailed", "closeReturned"} :
            Goto(op, t, label)
      BY ZenonT(60), <1>2 DEF CloseJoins, CloseReturns
    <3> QED BY <3>1 DEF TypeOK, Labels, Ops
  <2>2. cleanReports' \subseteq Ops \X Tokens
    <3>1. /\ cleanReports \subseteq Ops \X Tokens
          /\ cleanReports' \in {cleanReports, cleanReports \cup {<<op, t>>}}
      BY ZenonT(60), <1>2 DEF CloseJoins, Report, TypeOK
    <3> QED BY <3>1 DEF Ops
  <2> QED BY ZenonT(60), <1>2, <2>1, <2>2 DEF CloseJoins, TypeOK
<1>3. CASE CloseFinishes(op, t)
  <2>1. pc' \in [Ops \X Tokens -> Labels]
    BY SMTT(60), <1>3 DEF CloseFinishes, CloseReturns, TypeOK, Labels, Ops
  <2>2. cleanReports' \subseteq Ops \X Tokens
    BY SMTT(60), <1>3 DEF CloseFinishes, Report, TypeOK, Ops
  <2> QED BY SMTT(60), <1>3, <2>1, <2>2, DrainType DEF CloseFinishes, TypeOK
<1> QED BY SMTT(60), <1>1, <1>2, <1>3 DEF CloseRuntimeStep

(* closeOwnedResources preserves the type invariant.                       *)
LEMMA TypeClose ==
  ASSUME TypeOK, NEW t \in Tokens, CloseStep(t)
  PROVE  TypeOK'
<1>1. CASE CloseServer(t)
  <2>1. /\ server' \in [Tokens -> Servers]
        /\ closeErr' \in [Tokens -> BOOLEAN]
    BY ZenonT(60), <1>1 DEF CloseServer, TypeOK, Servers
  <2> QED BY ZenonT(60), <1>1, <2>1 DEF CloseServer, CloseStep, TypeOK
<1>2. CASE CloseStore(t)
  <2>1. disk' \in [Tokens -> {"none", "store", "scratch", "unknown"}]
    BY SMTT(60), <1>2 DEF CloseStore, TypeOK
  <2>2. closeErr' \in [Tokens -> BOOLEAN]
    BY ZenonT(60), <1>2 DEF CloseStore, TypeOK
  <2> QED BY ZenonT(60), <1>2, <2>1, <2>2 DEF CloseStore, CloseStep, TypeOK
<1>3. CASE CloseLease(t)
  <2>1. lease' \in MaybeToken /\ leasePoisoned' \in BOOLEAN
    BY SMTT(60), <1>3 DEF CloseLease, ReleaseLease, TypeOK, MaybeToken
  <2>2. closeErr' \in [Tokens -> BOOLEAN]
    BY ZenonT(60), <1>3 DEF CloseLease, TypeOK
  <2>3. stage' \in [Tokens -> {"open", "server", "store", "lease", "scratch",
                               "closed"}]
    BY SMTT(60), <1>3 DEF CloseLease, TypeOK
  <2> QED BY ZenonT(60), <1>3, <2>1, <2>2, <2>3 DEF CloseLease, CloseStep, TypeOK
<1>4. CASE CloseScratch(t)
  <2>1. disk' \in [Tokens -> {"none", "store", "scratch", "unknown"}]
    BY SMTT(60), <1>4 DEF CloseScratch, TypeOK
  <2>2. closeErr' \in [Tokens -> BOOLEAN]
    BY ZenonT(60), <1>4 DEF CloseScratch, TypeOK
  <2> QED BY ZenonT(60), <1>4, <2>1, <2>2 DEF CloseScratch, CloseStep, TypeOK
<1> QED BY SMTT(60), <1>1, <1>2, <1>3, <1>4 DEF CloseStep

(* A refused logout leaves a typed receipt.                                *)
LEMMA RefusedType ==
  ASSUME TypeOK, NEW t \in Tokens, NEW failed, LogoutRefused(t, failed)
  PROVE  /\ pc' \in [Ops \X Tokens -> Labels]
         /\ completedLifecycle' \in [Tokens -> Receipts]
<1>1. pc' \in [Ops \X Tokens -> Labels]
  BY ZenonT(60), GotoType DEF LogoutRefused, Labels, Ops
<1>2. completedLifecycle' \in [Tokens -> Receipts]
  BY DEF LogoutRefused, TypeOK, Receipts
<1> QED BY <1>1, <1>2

(* Logout steps preserve the type invariant.                               *)
LEMMA TypeLogout ==
  ASSUME TypeOK, NEW t \in Tokens, LogoutStep(t)
  PROVE  TypeOK'
<1>1. CASE LogoutCheck(t)
  <2>1. /\ pc' \in [Ops \X Tokens -> Labels]
        /\ completedLifecycle' \in [Tokens -> Receipts]
    <3>1. CASE \E failed \in BOOLEAN : LogoutRefused(t, failed)
      BY ZenonT(60), <3>1, RefusedType
    <3>2. CASE ~\E failed \in BOOLEAN : LogoutRefused(t, failed)
      BY ZenonT(60), <1>1, <3>2 DEF LogoutCheck, TypeOK, Labels, Ops
    <3> QED BY SMTT(60), <3>1, <3>2
  <2> QED BY SMTT(60), <1>1, <2>1 DEF LogoutCheck, TypeOK, MaybeToken
<1>2. CASE LogoutCapture(t)
  <2>1. /\ pc' \in [Ops \X Tokens -> Labels]
        /\ completedLifecycle' \in [Tokens -> Receipts]
    <3>1. CASE \E failed \in BOOLEAN : LogoutRefused(t, failed)
      BY ZenonT(60), <3>1, RefusedType
    <3>2. CASE ~\E failed \in BOOLEAN : LogoutRefused(t, failed)
      <4>1. completedLifecycle' = completedLifecycle
        BY ZenonT(60), <1>2, <3>2 DEF LogoutCapture
      <4>2. \/ \E label \in {"begin", "abort"} : Goto("logout", t, label)
            \/ pc' = [pc EXCEPT ![<<"logout", t>>] = "reopen",
                                ![<<"start", t>>] = "probe"]
        BY ZenonT(60), <1>2, <3>2 DEF LogoutCapture
      <4>3. pc' \in [Ops \X Tokens -> Labels]
        BY ZenonT(60), <4>2 DEF TypeOK, Labels, Ops
      <4> QED BY <4>1, <4>3 DEF TypeOK
    <3> QED BY <3>1, <3>2
  <2>2. startCalls' \subseteq Tokens /\ hidden' \subseteq Tokens
    BY ZenonT(60), <1>2 DEF LogoutCapture, TypeOK
  <2> QED BY <1>2, <2>1, <2>2 DEF LogoutCapture, TypeOK
<1>3. CASE LogoutReopened(t)
  <2>1. /\ pc' \in [Ops \X Tokens -> Labels]
        /\ completedLifecycle' \in [Tokens -> Receipts]
    <3>1. CASE \E failed \in BOOLEAN : LogoutRefused(t, failed)
      BY ZenonT(60), <3>1, RefusedType
    <3>2. CASE ~\E failed \in BOOLEAN : LogoutRefused(t, failed)
      <4>1. /\ completedLifecycle' = completedLifecycle
            /\ \E label \in {"abort", "begin"} : Goto("logout", t, label)
        BY ZenonT(60), <1>3, <3>2 DEF LogoutReopened
      <4>2. PICK label \in {"abort", "begin"} : Goto("logout", t, label)
        BY ZenonT(60), <4>1
      <4>3. pc' \in [Ops \X Tokens -> Labels]
        BY ZenonT(60), <4>2, GotoType DEF Labels, Ops
      <4> QED BY ZenonT(60), <4>1, <4>3 DEF TypeOK
    <3> QED BY <3>1, <3>2
  <2> QED BY ZenonT(60), <1>3, <2>1 DEF LogoutReopened, TypeOK
<1>4. CASE LogoutAborts(t)
  BY SMTT(30), <1>4
     DEF TypeOK, MaybeToken, Labels, Receipts, Phases, Servers, Ops,
         LogoutAborts, LogoutRefused
<1>5. CASE BeginLogout(t)
  <2>1. /\ pc' \in [Ops \X Tokens -> Labels]
        /\ completedLifecycle' \in [Tokens -> Receipts]
    <3>1. CASE \E failed \in BOOLEAN : LogoutRefused(t, failed)
      BY ZenonT(60), <3>1, RefusedType
    <3>2. CASE ~\E failed \in BOOLEAN : LogoutRefused(t, failed)
      BY ZenonT(60), <1>5, <3>2 DEF BeginLogout, TypeOK, Labels, Ops
    <3> QED BY <3>1, <3>2
  <2>2. logout' \in MaybeToken
    BY ZenonT(60), <1>5 DEF BeginLogout, TypeOK, MaybeToken
  <2> QED BY SMTT(30), <1>5, <2>1, <2>2 DEF BeginLogout, TypeOK
<1>6. CASE RevokeNodeKey(t)
  BY SMTT(60), <1>6
     DEF TypeOK, MaybeToken, Labels, Receipts, Phases, Servers, Ops,
         RevokeNodeKey
<1>7. CASE FinishLogout(t)
  <2>1. pc' \in [Ops \X Tokens -> Labels]
    BY ZenonT(60), <1>7, GotoType DEF FinishLogout, Labels, Ops
  <2>2. cleanupFailure' \in MaybeToken /\ logout' \in MaybeToken
    <3>1. cleanupFailure \in MaybeToken
      BY DEF TypeOK
    <3> QED BY ZenonT(60), <1>7, <3>1
          DEF FinishLogout, RecordCleanupFailure, MaybeToken
  <2>3. logoutErr' \in [Tokens -> BOOLEAN]
    BY SMTT(60), <1>7 DEF FinishLogout, TypeOK
  <2>4. completedLifecycle' \in [Tokens -> Receipts]
    BY SMTT(60), <1>7 DEF FinishLogout, TypeOK, Receipts
  <2>5. cleanReports' \subseteq Ops \X Tokens
    BY SMTT(60), <1>7 DEF FinishLogout, Report, TypeOK, Ops
  <2> QED BY ZenonT(60), <1>7, <2>1, <2>2, <2>3, <2>4, <2>5
        DEF FinishLogout, TypeOK
<1>8. CASE CloseRuntimeStep("logout", t)
  BY SMTT(30), <1>8, TypeCloseRuntime
<1> QED BY SMTT(60), <1>1, <1>2, <1>3, <1>4, <1>5, <1>6, <1>7, <1>8 DEF LogoutStep

(* Calls of the environment preserve the type invariant.                   *)
LEMMA TypeCall ==
  ASSUME TypeOK, NEW t \in Tokens, Call(t)
  PROVE  TypeOK'
<1>1. CASE CallStart(t)
  <2>1. pc' \in [Ops \X Tokens -> Labels]
    BY ZenonT(60), <1>1, GotoType DEF CallStart, Labels, Ops
  <2>2. startCalls' \subseteq Tokens
    BY SMTT(60), <1>1 DEF CallStart, EnterStart, TypeOK
  <2> QED BY ZenonT(60), <1>1, <2>1, <2>2 DEF CallStart, EnterStart, TypeOK
<1>2. CASE LoseStart(t)
  <2>1. pc' \in [Ops \X Tokens -> Labels]
    BY ZenonT(60), <1>2, GotoType DEF LoseStart, Labels, Ops
  <2> QED BY ZenonT(60), <1>2, <2>1 DEF LoseStart, TypeOK
<1>3. CASE CallDown(t)
  <2>1. pc' \in [Ops \X Tokens -> Labels]
    BY ZenonT(60), <1>3, GotoType DEF CallDown, Labels, Ops
  <2> QED BY ZenonT(60), <1>3, <2>1 DEF CallDown, TypeOK
<1>4. CASE CallAbandon(t)
  <2>1. pc' \in [Ops \X Tokens -> Labels]
    BY ZenonT(60), <1>4, GotoType DEF CallAbandon, Labels, Ops
  <2> QED BY ZenonT(60), <1>4, <2>1 DEF CallAbandon, TypeOK
<1>5. CASE CallAwait(t)
  <2>1. pc' \in [Ops \X Tokens -> Labels]
    BY ZenonT(60), <1>5, GotoType DEF CallAwait, Labels, Ops
  <2> QED BY ZenonT(60), <1>5, <2>1 DEF CallAwait, TypeOK
<1>6. CASE CallLogout(t)
  <2>1. pc' \in [Ops \X Tokens -> Labels]
    BY ZenonT(60), <1>6, GotoType DEF CallLogout, Labels, Ops
  <2> QED BY ZenonT(60), <1>6, <2>1 DEF CallLogout, TypeOK
<1>7. CASE BeginPersistentPreparation(t)
  <2>1. pc' \in [Ops \X Tokens -> Labels] /\ abandonedTokens' \subseteq Tokens
    BY SMTT(60), <1>7 DEF BeginPersistentPreparation, ConsumeTombstone, TypeOK, Labels,
                Ops
  <2>2. prep' \in MaybeToken /\ prepPhase' \in Phases
    BY ZenonT(60), <1>7 DEF BeginPersistentPreparation, TypeOK, MaybeToken, Phases
  <2> QED BY ZenonT(60), <1>7, <2>1, <2>2 DEF BeginPersistentPreparation, TypeOK
<1>8. CASE BeginLocalReset(t)
  <2>1. pc' \in [Ops \X Tokens -> Labels]
    <3>1. PICK label \in {"done", "acquire", "closing"} :
            pc' = [pc EXCEPT ![<<"reset", t>>] = label,
                             ![<<"start", t>>] = "done"]
      BY ZenonT(60), <1>8 DEF BeginLocalReset
    <3> QED BY SMTT(60), <3>1 DEF TypeOK, Labels, Ops
  <2>2. CASE TakeRuntime(t) /\ current # None
    <3>1. /\ reset' \in MaybeToken /\ resetRuntime' \in MaybeToken
          /\ lease' \in MaybeToken /\ current' \in MaybeToken /\ epoch' \in Nat
      BY SMTT(60), <2>2 DEF TakeRuntime, TypeOK, MaybeToken
    <3>2. stage' \in [Tokens -> {"open", "server", "store", "lease",
                                 "scratch", "closed"}]
      <4>1. /\ stage \in [Tokens -> {"open", "server", "store", "lease",
                                     "scratch", "closed"}]
            /\ current \in Tokens
        BY SMTT(30), <2>2 DEF TypeOK, MaybeToken
      <4> QED BY SMTT(60), <2>2, <4>1 DEF TakeRuntime
    <3> QED BY ZenonT(60), <1>8, <2>1, <2>2, <3>1, <3>2
          DEF BeginLocalReset, TakeRuntime, TypeOK
  <2>3. CASE UNCHANGED <<slots, resetRuntime, lease>> /\ reset' \in {reset, t}
    <3>1. reset' \in MaybeToken
      BY SMTT(60), <2>3 DEF TypeOK, MaybeToken
    <3> QED BY ZenonT(60), <1>8, <2>1, <2>3, <3>1 DEF BeginLocalReset, TypeOK
  <2> QED BY SMTT(60), <1>8, <2>2, <2>3 DEF BeginLocalReset
<1>9. CASE FailPublication(t)
  <2>1. pc' \in [Ops \X Tokens -> Labels]
    <3>1. PICK label \in {"closing", "done", "waitDrain"} :
            Goto("publication", t, label)
      BY ZenonT(60), <1>9 DEF FailPublication
    <3> QED BY <3>1 DEF TypeOK, Labels, Ops
  <2>2. CASE DetachRuntime(t, FALSE)
    BY ZenonT(60), <1>9, <2>1, <2>2, DetachType DEF FailPublication, TypeOK
  <2>3. CASE UNCHANGED slots
    BY SMTT(60), <1>9, <2>1, <2>3 DEF FailPublication, TypeOK
  <2> QED BY ZenonT(60), <1>9, <2>2, <2>3 DEF FailPublication
<1>10. CASE AcknowledgeLifecycleResult(t)
  <2>1. /\ completedLifecycle \in [Tokens -> Receipts]
        /\ completedLifecycle' = [completedLifecycle EXCEPT ![t] = "none"]
    BY ZenonT(60), <1>10 DEF AcknowledgeLifecycleResult, TypeOK
  <2>2. completedLifecycle' \in [Tokens -> Receipts]
    BY <2>1 DEF Receipts
  <2> QED BY ZenonT(60), <1>10, <2>2 DEF AcknowledgeLifecycleResult, TypeOK
<1>11. CASE RetireAbandonedRuntimeToken(t)
  <2>1. abandonedTokens' \subseteq Tokens
    BY ZenonT(60), <1>11 DEF RetireAbandonedRuntimeToken, TypeOK
  <2> QED BY ZenonT(60), <1>11, <2>1 DEF RetireAbandonedRuntimeToken, TypeOK
<1>12. CASE CustodyStep(t)
  BY <1>12, TypeCustody
<1> QED BY SMTT(30), <1>1, <1>2, <1>3, <1>4, <1>5, <1>6, <1>7, <1>8, <1>9, <1>10, <1>11,
           <1>12
           DEF Call

(* Type correctness: every field of the controller keeps its kind through  *)
(* every interleaving of the native calls, for any set of tokens.          *)
THEOREM TypeCorrect == Spec => []TypeOK
<1>1. Init => TypeOK
  <2> SUFFICES ASSUME Init PROVE TypeOK
    OBVIOUS
  <2>1. pc \in [Ops \X Tokens -> Labels]
    BY SMTT(30) DEF Init, Labels
  <2>2. completedLifecycle \in [Tokens -> Receipts] /\ prepPhase \in Phases
    BY SMTT(30) DEF Init, Receipts, Phases
  <2>3. server \in [Tokens -> Servers]
    BY DEF Init, Servers
  <2> QED BY ZenonT(60), <2>1, <2>2, <2>3 DEF Init, TypeOK, MaybeToken
<1>2. TypeOK /\ [Next]_vars => TypeOK'
  <2> SUFFICES ASSUME TypeOK, [Next]_vars PROVE TypeOK'
    BY ZenonT(60)
  <2>1. CASE UNCHANGED vars
    BY ZenonT(60), <2>1 DEF vars, TypeOK
  <2>2. ASSUME NEW t \in Tokens, Call(t) PROVE TypeOK'
    BY SMTT(60), <2>2, TypeCall
  <2>3. ASSUME NEW t \in Tokens, Run(t) PROVE TypeOK'
    <3>1. CASE CloseStep(t)
      BY <3>1, TypeClose
    <3>2. CASE StartStep(t)
      BY <3>2, TypeStart
    <3>3. CASE CloseRuntimeStep("down", t)
      BY SMTT(60), <3>3, TypeCloseRuntime
    <3>4. CASE AbandonStep(t) \/ AwaitStep(t)
      BY SMTT(60), <3>4, TypeAbandon, TypeAwait
    <3>5. CASE LogoutStep(t) \/ PublicationStep(t)
      BY SMTT(60), <3>5, TypeLogout, TypePublication
    <3>6. CASE PreparationStep(t) \/ ResetStep(t)
      BY <3>6, TypePreparation, TypeReset
    <3> QED BY SMTT(60), <2>3, <3>1, <3>2, <3>3, <3>4, <3>5, <3>6 DEF Run
  <2> QED BY SMTT(30), <2>1, <2>2, <2>3 DEF Next
<1> QED BY <1>1, <1>2, PTL DEF Spec

=============================================================================
