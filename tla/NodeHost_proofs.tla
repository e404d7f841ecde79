--------------------------- MODULE NodeHost_proofs ---------------------------
(* The controller implements the host of one node (NodeHost), for any      *)
(* tokens and any calls. The guards of the abstract steps come from        *)
(* ServerAccounted; what is shown here is which steps move a Server and    *)
(* which record a cleanup failure, and that none does both.                *)
EXTENDS SingleServer_proofs

-----------------------------------------------------------------------------
(* Steps that leave every Server alone, and the poison where it is.        *)

Keeps ==
  /\ UNCHANGED server
  /\ cleanupFailure # None => cleanupFailure' # None

(* Calls enter; none of them touches a Server.                             *)
LEMMA CallKeeps ==
  ASSUME NEW t \in Tokens, Call(t) PROVE Keeps
<1>1. CASE CallStart(t)
  BY ZenonT(60), <1>1 DEF CallStart, resources, Keeps
<1>2. CASE LoseStart(t)
  BY ZenonT(60), <1>2 DEF LoseStart, resources, Keeps
<1>3. CASE CallDown(t)
  BY ZenonT(60), <1>3 DEF CallDown, resources, Keeps
<1>4. CASE CallAbandon(t)
  BY ZenonT(60), <1>4 DEF CallAbandon, resources, Keeps
<1>5. CASE CallAwait(t)
  BY ZenonT(60), <1>5 DEF CallAwait, resources, Keeps
<1>6. CASE CallLogout(t)
  BY ZenonT(60), <1>6 DEF CallLogout, resources, Keeps
<1>7. CASE BeginPersistentPreparation(t)
  BY ZenonT(60), <1>7 DEF BeginPersistentPreparation, resources, Keeps
<1>8. CASE BeginLocalReset(t)
  BY ZenonT(60), <1>8 DEF BeginLocalReset, Keeps
<1>9. CASE FailPublication(t)
  BY ZenonT(60), <1>9 DEF FailPublication, resources, Keeps
<1>10. CASE AcknowledgeLifecycleResult(t)
  BY ZenonT(60), <1>10 DEF AcknowledgeLifecycleResult, resources, Keeps
<1>11. CASE RetireAbandonedRuntimeToken(t)
  BY ZenonT(60), <1>11 DEF RetireAbandonedRuntimeToken, resources, Keeps
<1>12. CASE CustodyStep(t)
  BY ZenonT(60), <1>12, TokenAssumption
     DEF CustodyStep, MarkCustodyActive, PreparePersistentState,
         CompletePersistentCustody, FinishPreparedPersistentState,
         FinishCustody, ClaimFinish, RecordCleanupFailure, resources, Keeps
<1> QED BY SMTT(30), <1>1, <1>2, <1>3, <1>4, <1>5, <1>6, <1>7, <1>8, <1>9, <1>10, <1>11,
           <1>12 DEF Call

(* AbandonRuntime.                                                         *)
LEMMA AbandonKeeps ==
  ASSUME NEW t \in Tokens, AbandonStep(t) PROVE Keeps
<1>1. CASE AbandonTakesReceipt(t)
  BY ZenonT(60), <1>1 DEF AbandonTakesReceipt, resources, Keeps
<1>2. CASE AbandonPreparation(t)
  BY ZenonT(60), <1>2 DEF AbandonPreparation, resources, Keeps
<1>3. CASE AbandonLoop(t)
  BY ZenonT(60), <1>3 DEF AbandonLoop, resources, Keeps
<1>4. CASE AbandonChecksSettled(t)
  BY ZenonT(60), <1>4 DEF AbandonChecksSettled, resources, Keeps
<1>5. CASE AbandonFinishesPreparation(t)
  BY ZenonT(60), <1>5 DEF AbandonFinishesPreparation, resources, Keeps
<1>6. CASE AbandonJoins(t)
  BY ZenonT(60), <1>6 DEF AbandonJoins, resources, Keeps
<1>7. CASE AbandonFinishesDrain(t)
  BY ZenonT(60), <1>7, TokenAssumption
     DEF AbandonFinishesDrain, FinishRuntimeDrain, RecordCleanupFailure,
         resources, Keeps
<1>8. CASE AbandonDrops(t)
  BY ZenonT(60), <1>8 DEF AbandonDrops, resources, Keeps
<1> QED BY SMTT(30), <1>1, <1>2, <1>3, <1>4, <1>5, <1>6, <1>7, <1>8 DEF AbandonStep

(* AwaitRuntimeQuiescence.                                                 *)
LEMMA AwaitKeeps ==
  ASSUME NEW t \in Tokens, AwaitStep(t) PROVE Keeps
<1>1. CASE AwaitLoop(t)
  BY ZenonT(60), <1>1 DEF AwaitLoop, resources, Keeps
<1>2. CASE AwaitTakesOutcome(t)
  BY ZenonT(60), <1>2 DEF AwaitTakesOutcome, resources, Keeps
<1>3. CASE AwaitJoins(t)
  BY ZenonT(60), <1>3 DEF AwaitJoins, resources, Keeps
<1> QED BY <1>1, <1>2, <1>3 DEF AwaitStep

(* The publication-failure reaper.                                         *)
LEMMA PublicationKeeps ==
  ASSUME NEW t \in Tokens, PublicationStep(t) PROVE Keeps
<1>1. CASE PublicationFinishesDrain(t)
  BY ZenonT(60), <1>1, TokenAssumption
     DEF PublicationFinishesDrain, FinishRuntimeDrain, RecordCleanupFailure,
         resources, Keeps
<1>2. CASE PublicationJoins(t)
  BY ZenonT(60), <1>2 DEF PublicationJoins, resources, Keeps
<1> QED BY <1>1, <1>2 DEF PublicationStep

(* The preparation of persistent state.                                    *)
LEMMA PreparationKeeps ==
  ASSUME NEW t \in Tokens, PreparationStep(t) PROVE Keeps
<1>1. CASE SettleAcquisition(t)
  BY ZenonT(60), <1>1 DEF SettleAcquisition, Keeps
<1>2. CASE CleanupPreparation(t)
  BY ZenonT(60), <1>2, TokenAssumption
     DEF CleanupPreparation, RecordCleanupFailure, Keeps
<1>3. CASE RetirePreparation(t)
  BY ZenonT(60), <1>3 DEF RetirePreparation, resources, Keeps
<1> QED BY <1>1, <1>2, <1>3 DEF PreparationStep

(* The local reset closes nothing itself.                                  *)
LEMMA ResetKeeps ==
  ASSUME NEW t \in Tokens, ResetStep(t) PROVE Keeps
<1>1. CASE ResetClosedRuntime(t)
  BY ZenonT(60), <1>1, TokenAssumption
     DEF ResetClosedRuntime, RecordCleanupFailure, resources, Keeps
<1>2. CASE ResetAcquires(t)
  BY ZenonT(60), <1>2 DEF ResetAcquires, Keeps
<1>3. CASE ResetProceeds(t)
  BY ZenonT(60), <1>3 DEF ResetProceeds, resources, Keeps
<1>4. CASE ResetReleases(t)
  BY ZenonT(60), <1>4, TokenAssumption
     DEF ResetReleases, RecordCleanupFailure, Keeps
<1>5. CASE ResetClears(t)
  BY ZenonT(60), <1>5 DEF ResetClears, resources, Keeps
<1> QED BY <1>1, <1>2, <1>3, <1>4, <1>5 DEF ResetStep

(* closeRuntime, under a down or a logout.                                 *)
LEMMA CloseRuntimeKeeps ==
  ASSUME NEW t \in Tokens, NEW op \in {"down", "logout"}, CloseRuntimeStep(op, t)
  PROVE  Keeps
<1>1. CASE CloseLoop(op, t)
  BY ZenonT(60), <1>1 DEF CloseLoop, resources, Keeps
<1>2. CASE CloseJoins(op, t)
  BY ZenonT(60), <1>2 DEF CloseJoins, resources, Keeps
<1>3. CASE CloseFinishes(op, t)
  BY ZenonT(60), <1>3, TokenAssumption
     DEF CloseFinishes, FinishRuntimeDrain, RecordCleanupFailure, resources,
         Keeps
<1> QED BY <1>1, <1>2, <1>3 DEF CloseRuntimeStep

(* Logout.                                                                 *)
LEMMA LogoutKeeps == ASSUME NEW t \in Tokens, LogoutStep(t) PROVE Keeps
<1>1. CASE LogoutCheck(t) \/ LogoutCapture(t) \/ LogoutReopened(t)
  BY ZenonT(60), <1>1
     DEF LogoutCheck, LogoutCapture, LogoutReopened, resources, Keeps
<1>2. CASE LogoutAborts(t) \/ BeginLogout(t) \/ RevokeNodeKey(t)
  BY ZenonT(60), <1>2
     DEF LogoutAborts, BeginLogout, RevokeNodeKey, resources, Keeps
<1>3. CASE CloseRuntimeStep("logout", t)
  BY <1>3, CloseRuntimeKeeps
<1>4. CASE FinishLogout(t)
  BY ZenonT(60), <1>4, TokenAssumption
     DEF FinishLogout, RecordCleanupFailure, resources, Keeps
<1> QED BY <1>1, <1>2, <1>3, <1>4 DEF LogoutStep

-----------------------------------------------------------------------------
(* The three steps that move a Server.                                     *)

(* A start moves its Server where it enters Server.Start and where that    *)
(* returns, and records nothing there.                                     *)
LEMMA StartMoves ==
  ASSUME NEW t \in Tokens, StartStep(t)
  PROVE  \/ Keeps
         \/ /\ pc[<<"start", t>>] \in {"launch", "starting"}
            /\ \E s \in {"starting", "live", "unwound"} :
                 server' = [server EXCEPT ![t] = s]
            /\ UNCHANGED cleanupFailure
<1>1. CASE ProbeActiveRuntime(t) \/ ConfirmRefresh(t) \/ RefreshHostNetwork(t)
  BY ZenonT(60), <1>1
     DEF ProbeActiveRuntime, ConfirmRefresh, RefreshHostNetwork,
         ConsumeTombstone, resources, Keeps
<1>2. CASE Admit(t) \/ PrepareEphemeralRuntime(t) \/ ApplyHostNetworkSnapshot(t)
  BY ZenonT(60), <1>2
     DEF Admit, PrepareEphemeralRuntime, ApplyHostNetworkSnapshot, resources,
         Keeps
<1>3. CASE LaunchServer(t)
  BY ZenonT(60), <1>3 DEF LaunchServer, At, Keeps
<1>4. CASE ServerStartReturns(t)
  BY ZenonT(60), <1>4 DEF ServerStartReturns, At
<1>5. CASE CommitStart(t) \/ FinishStartCall(t)
  BY ZenonT(60), <1>5 DEF CommitStart, FinishStartCall, resources, Keeps
<1>6. CASE ReleaseCandidate(t)
  BY ZenonT(60), <1>6, TokenAssumption
     DEF ReleaseCandidate, RecordCleanupFailure, resources, Keeps
<1> QED BY SMTT(30), <1>1, <1>2, <1>3, <1>4, <1>5, <1>6 DEF StartStep

(* A close moves a live Server, and records nothing.                       *)
LEMMA CloseMoves ==
  ASSUME NEW t \in Tokens, CloseStep(t)
  PROVE  \/ Keeps
         \/ /\ server[t] = "live"
            /\ \E s \in {"closed", "unknown"} :
                 server' = [server EXCEPT ![t] = s]
            /\ UNCHANGED cleanupFailure
<1>1. UNCHANGED cleanupFailure
  BY DEF CloseStep
<1>2. CASE CloseServer(t)
  BY ZenonT(60), <1>1, <1>2 DEF CloseServer, Keeps
<1>3. CASE CloseStore(t) \/ CloseLease(t) \/ CloseScratch(t)
  BY ZenonT(60), <1>1, <1>3 DEF CloseStore, CloseLease, CloseScratch, Keeps
<1> QED BY <1>2, <1>3 DEF CloseStep

-----------------------------------------------------------------------------
(* Refinement.                                                             *)

(* A step that leaves the Servers alone is a stutter, or it poisons an     *)
(* idle process.                                                           *)
LEMMA KeepsRefines ==
  ASSUME PoisonedIsIdle', Keeps
  PROVE  [Host!Next]_<<Up, Lost, Poisoned>>
<1>1. UNCHANGED <<Up, Lost>>
  BY DEF Keeps, Up, Lost
<1>2. CASE Poisoned' = Poisoned
  BY <1>1, <1>2
<1>3. CASE ~Poisoned /\ Poisoned'
  <2>1. Up' = {}
    BY <1>3 DEF PoisonedIsIdle, Up, Poisoned
  <2> QED BY ZenonT(60), <1>1, <1>3, <2>1 DEF Host!Next, Host!Poison, Poisoned
<1> QED BY ZenonT(60), <1>2, <1>3 DEF Keeps, Poisoned

(* Server.Start is entered or returns when no other Server runs or was     *)
(* lost, in a process that is not poisoned.                                *)
LEMMA StartRefines ==
  ASSUME TypeOK, ServerAccounted, SingleServer', PoisonedIsIdle', NEW t \in Tokens,
         pc[<<"start", t>>] \in {"launch", "starting"},
         NEW s \in {"starting", "live", "unwound"},
         server' = [server EXCEPT ![t] = s], UNCHANGED cleanupFailure
  PROVE  [Host!Next]_<<Up, Lost, Poisoned>>
<1>1. server[t] # "unknown"
  <2>1. candidate = t /\ stage[t] = "open"
    BY SMTT(60)
       DEF ServerAccounted, Accounted, StartOwnsCandidate, CandidateLabels
  <2>2. cleanupFailure = None /\ prep # t
    BY SMTT(60), <2>1, TokenAssumption
       DEF ServerAccounted, PoisonEmptiesSlots, SlotsExclusive
  <2> QED BY SMTT(60), <2>1, <2>2 DEF ServerAccounted, Accounted, CloseOrder
<1>2. server'[t] = s /\ \A u \in Tokens \ {t} : server'[u] = server[u]
  BY SMTT(60) DEF TypeOK
<1>3. UNCHANGED <<Lost, Poisoned>>
  BY SMTT(60), <1>1, <1>2 DEF Lost, Poisoned
<1>4. CASE s = "unwound"
  <2>1. Up' = Up \ {t}
    BY SMTT(60), <1>2, <1>4 DEF Up
  <2>2. Up \subseteq {t} \/ t \notin Up
    BY SMTT(60) DEF ServerAccounted, SingleServer, Running, Up
  <2>3. Up' \in {{}, Up}
    BY <2>1, <2>2
  <2> QED BY ZenonT(60), <1>3, <2>3 DEF Host!Next, Host!Stop
<1>5. CASE s # "unwound"
  <2>1. Up' = {t} /\ Lost' = {}
    BY SMTT(60), <1>2, <1>5 DEF SingleServer, Running, Up, Lost
  <2>2. Up \subseteq {t}
    BY SMTT(60), <1>2, <2>1 DEF Up
  <2>3. ~Poisoned
    BY SMTT(60), <1>2, <1>5 DEF PoisonedIsIdle, Poisoned
  <2>4. Up = {} \/ Up = {t}
    BY <2>2
  <2>5. CASE Up = {t}
    BY ZenonT(60), <1>3, <2>1, <2>5
  <2>6. CASE Up = {}
    BY ZenonT(60), <1>3, <2>1, <2>3, <2>6 DEF Host!Next, Host!Start
  <2> QED BY SMTT(30), <2>4, <2>5, <2>6
<1> QED BY SMTT(30), <1>4, <1>5

(* The Server that a close takes down, or loses, was the only one.         *)
LEMMA CloseRefines ==
  ASSUME TypeOK, ServerAccounted, NEW t \in Tokens, server[t] = "live",
         NEW s \in {"closed", "unknown"},
         server' = [server EXCEPT ![t] = s], UNCHANGED cleanupFailure
  PROVE  [Host!Next]_<<Up, Lost, Poisoned>>
<1>1. server'[t] = s /\ \A u \in Tokens \ {t} : server'[u] = server[u]
  BY SMTT(60) DEF TypeOK
<1>2. Up = {t} /\ Lost = {}
  BY SMTT(60) DEF ServerAccounted, SingleServer, Running, Up, Lost
<1>3. Up' = {} /\ Lost' = IF s = "unknown" THEN {t} ELSE {}
  BY SMTT(60), <1>1, <1>2 DEF Up, Lost
<1>4. UNCHANGED Poisoned
  BY DEF Poisoned
<1> QED BY ZenonT(60), <1>2, <1>3, <1>4 DEF Host!Next, Host!Stop, Host!Lose

(* The controller hosts one node: every step of every call is a step of    *)
(* NodeHost or a stutter, for any number of tokens and calls.              *)
THEOREM HostRefined == Spec => HostsOneNode
<1>1. Init => Host!Init
  BY ZenonT(60) DEF Init, Host!Init, Up, Lost, Poisoned
<1>2. TypeOK /\ ServerAccounted /\ SingleServer' /\ PoisonedIsIdle' /\ [Next]_vars
        => [Host!Next]_<<Up, Lost, Poisoned>>
  <2> SUFFICES ASSUME TypeOK, ServerAccounted, SingleServer', PoisonedIsIdle',
                      [Next]_vars
               PROVE  [Host!Next]_<<Up, Lost, Poisoned>>
    OBVIOUS
  <2>1. CASE UNCHANGED vars
    <3>1. Keeps
      BY <2>1 DEF vars, resources, Keeps
    <3> QED BY <3>1, KeepsRefines
  <2>2. ASSUME NEW t \in Tokens, Call(t)
        PROVE  [Host!Next]_<<Up, Lost, Poisoned>>
    BY ZenonT(60), <2>2, CallKeeps, KeepsRefines
  <2>3. ASSUME NEW t \in Tokens, CloseStep(t)
        PROVE  [Host!Next]_<<Up, Lost, Poisoned>>
    BY ZenonT(60), <2>3, CloseMoves, KeepsRefines, CloseRefines
  <2>4. ASSUME NEW t \in Tokens, StartStep(t)
        PROVE  [Host!Next]_<<Up, Lost, Poisoned>>
    BY ZenonT(60), <2>4, StartMoves, KeepsRefines, StartRefines
  <2>5. ASSUME NEW t \in Tokens, Run(t)
        PROVE  [Host!Next]_<<Up, Lost, Poisoned>>
    BY ZenonT(60), <2>3, <2>4, <2>5, KeepsRefines, CloseRuntimeKeeps, AbandonKeeps,
       AwaitKeeps, LogoutKeeps, PublicationKeeps, PreparationKeeps, ResetKeeps
       DEF Run
  <2> QED BY ZenonT(60), <2>1, <2>2, <2>5 DEF Next
<1> QED BY <1>1, <1>2, TypeCorrect, Accounting, OneServer, PoisonIsFinal, PTL
        DEF Spec, HostsOneNode, Host!Spec
=============================================================================
