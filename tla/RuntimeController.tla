------------------------- MODULE RuntimeController -------------------------
(***************************************************************************)
(* The native lifecycle authority: runtimeController (go/node_runtime.go)  *)
(* and every operation that moves a tsnet.Server generation through its    *)
(* candidate / current / draining slots: start (go/lib.go), down, abandon, *)
(* await, logout, local reset (go/local_state_reset.go), the persistent    *)
(* preparation slot (go/state_preparation.go) and the publication-failure  *)
(* reaper (go/publication_bootstrap.go).                                   *)
(*                                                                         *)
(* One action is one critical section under runtimes.mu, or one blocking   *)
(* step taken with no lock held.  The Dart supervisor never reuses a       *)
(* token, so a token names at most one nodeRuntime, one preparation, one   *)
(* drain and one logoutOperation, and the objects' fields are functions of *)
(* the token.  pc[<<op, t>>] is the control point of the native call op    *)
(* made for token t.                                                       *)
(***************************************************************************)
EXTENDS Naturals, FiniteSets

CONSTANTS
  Tokens,      \* supervisor-created runtime tokens
  None,        \* the nil pointer
  Calls        \* <<op, t>>: the native calls the environment may make

Ops == {"start", "prep", "down", "abandon", "await", "logout", "reset",
        "publication"}

ASSUME TokenAssumption == None \notin Tokens
ASSUME CallsAssumption == Calls \subseteq Ops \X Tokens

VARIABLES
  epoch,                  \* nodeEpoch
  candidate, current,     \* the token in the slot, or None
  draining,               \* token of the detached runtime being closed
  drainReceipt,           \* draining.receiptOperation = "down"
  logout,                 \* token of the logoutOperation
  reset,                  \* token of the localResetOperation
  resetRuntime,           \* the runtime BeginLocalReset took from current
  prep, prepPhase,        \* persistentPreparation: its token and phase
  startCalls,             \* tokens inside startRuntimeWithTokenDeadline
  abandonedTokens,        \* pre-dispatch tombstones
  completedPreparations,  \* tokens with a retained preparation outcome
  completedLifecycle,     \* retained down/logout receipts
  cleanupFailure,         \* token of the first failed cleanup (the poison)
  lease, leasePoisoned,   \* process-local state-lease admission
  generation, abandoned,  \* nodeRuntime.generation, .abandoned
  server,                 \* tsnet.Server of the runtime
  disk,                   \* encrypted Store or ephemeral scratch it owns
  stage, closeErr,        \* closeOwnedResources: next resource, its error
  logoutErr, revoked,     \* logoutOperation.cleanupErr; upstream confirmed
  hostNetworkMu, refreshing, netmon,  \* host-network snapshot and its lock
  proven, launched,       \* persisted runtime config; last Server.Start
  pc,
  published, hidden,      \* ever current; reconstructed by idle logout
  quarantined,            \* AbandonRuntime has returned
  cleanReports            \* who was told that a token closed cleanly

slots == <<epoch, candidate, current, draining, drainReceipt, stage, published>>
exclusive == <<logout, reset, resetRuntime, logoutErr, revoked, hidden>>
preparing == <<prep, prepPhase>>
books == <<startCalls, abandonedTokens, completedPreparations,
           completedLifecycle>>
resources == <<lease, leasePoisoned, server, disk, closeErr>>
identity == <<generation, abandoned>>
hostNetwork == <<hostNetworkMu, refreshing, netmon>>
config == <<proven, launched>>
reports == <<quarantined, cleanReports>>

vars == <<slots, exclusive, preparing, books, cleanupFailure, resources,
          identity, hostNetwork, config, pc, reports>>

MaybeToken == Tokens \cup {None}

At(op, t, label) == pc[<<op, t>>] = label
Goto(op, t, label) == pc' = [pc EXCEPT ![<<op, t>>] = label]

(***************************************************************************)
(* nodeRuntime.closeOwnedResources: one closer, a fixed resource order, no *)
(* controller lock.  A resource whose close fails stays in an unknown      *)
(* state and the sweep goes on.  The watcher, publication and fd sweeps    *)
(* that come first are modelled in their own modules.                      *)
(***************************************************************************)
CloseServer(t) ==
  /\ stage[t] = "server"
  /\ stage' = [stage EXCEPT ![t] = "store"]
  /\ \/ /\ server[t] = "live"
        /\ \E outcome \in {"closed", "unknown"} :
             /\ server' = [server EXCEPT ![t] = outcome]
             /\ closeErr' = [closeErr EXCEPT ![t] = @ \/ outcome = "unknown"]
     \/ server[t] # "live" /\ UNCHANGED <<server, closeErr>>
  /\ UNCHANGED <<lease, leasePoisoned, disk>>

CloseStore(t) ==
  /\ stage[t] = "store"
  /\ stage' = [stage EXCEPT ![t] = "lease"]
  /\ \/ /\ disk[t] = "store"
        /\ \E outcome \in {"none", "unknown"} :
             /\ disk' = [disk EXCEPT ![t] = outcome]
             /\ closeErr' = [closeErr EXCEPT ![t] = @ \/ outcome = "unknown"]
     \/ disk[t] # "store" /\ UNCHANGED <<disk, closeErr>>
  /\ UNCHANGED <<lease, leasePoisoned, server>>

(* stateLease.Release: an uncertain unlock poisons the root's admission.   *)
ReleaseLease(t, failed) ==
  /\ lease' = IF lease = t THEN None ELSE lease
  /\ leasePoisoned' = (leasePoisoned \/ failed)
  /\ failed => lease = t

CloseLease(t) ==
  /\ stage[t] = "lease"
  /\ stage' = [stage EXCEPT ![t] = "scratch"]
  /\ \E failed \in BOOLEAN :
       /\ ReleaseLease(t, failed)
       /\ closeErr' = [closeErr EXCEPT ![t] = @ \/ failed]
  /\ UNCHANGED <<server, disk>>

CloseScratch(t) ==
  /\ stage[t] = "scratch"
  /\ stage' = [stage EXCEPT ![t] = "closed"]
  /\ \/ /\ disk[t] = "scratch"
        /\ \E outcome \in {"none", "unknown"} :
             /\ disk' = [disk EXCEPT ![t] = outcome]
             /\ closeErr' = [closeErr EXCEPT ![t] = @ \/ outcome = "unknown"]
     \/ disk[t] # "scratch" /\ UNCHANGED <<disk, closeErr>>
  /\ UNCHANGED <<lease, leasePoisoned, server>>

CloseStep(t) ==
  /\ CloseServer(t) \/ CloseStore(t) \/ CloseLease(t) \/ CloseScratch(t)
  /\ UNCHANGED <<epoch, candidate, current, draining, drainReceipt, published,
                 exclusive, preparing, books, cleanupFailure, identity,
                 hostNetwork, config, pc, reports>>

ForgetCleanupFailure(t, failed) == UNCHANGED cleanupFailure

(* recordCleanupFailureLocked keeps the first failure for the process.     *)
RecordCleanupFailure(t, failed) ==
  cleanupFailure' = IF failed /\ cleanupFailure = None THEN t
                                                       ELSE cleanupFailure

(***************************************************************************)
(* Start: startRuntimeWithTokenDeadline and                                *)
(* startRuntimeWithDependenciesForTokenAndDeadline.  A persistent start    *)
(* adopts a completed preparation, an ephemeral one reserves.              *)
(***************************************************************************)
Persistent(t) == ~At("prep", t, "idle")

EnterStart(t) ==
  /\ startCalls' = startCalls \cup {t}
  /\ UNCHANGED <<abandonedTokens, completedPreparations, completedLifecycle>>

CallStart(t) ==
  /\ <<"start", t>> \in Calls
  /\ At("start", t, "idle")
  /\ pc[<<"prep", t>>] \in {"idle", "ready"} /\ At("logout", t, "idle")
  /\ EnterStart(t)
  /\ Goto("start", t, "probe")
  /\ UNCHANGED <<slots, exclusive, preparing, cleanupFailure, resources,
                 identity, hostNetwork, config, reports>>

(* The worker exited before it dispatched the start.                       *)
LoseStart(t) ==
  /\ <<"start", t>> \in Calls
  /\ At("start", t, "idle") /\ At("logout", t, "idle")
  /\ Goto("start", t, "done")
  /\ UNCHANGED <<slots, exclusive, preparing, books, cleanupFailure,
                 resources, identity, hostNetwork, config, reports>>

(* activeRuntimeForConfig's refusals.  The tombstone is consumed only when *)
(* it is the reason.                                                       *)
ProbeRefused(t) ==
  \/ cleanupFailure # None
  \/ t \in abandonedTokens
  \/ logout # None \/ reset # None \/ candidate # None \/ draining # None
  \/ prep # None /\ ~(prep = t /\ current = None)

ConsumeTombstone(t) ==
  abandonedTokens' = IF cleanupFailure = None THEN abandonedTokens \ {t}
                                              ELSE abandonedTokens

(* refreshActiveRuntime's first check, entered with hostNetworkMu free. An *)
(* active runtime has either the caller's configuration or another one.    *)
ProbeActiveRuntime(t) ==
  /\ pc[<<"start", t>>] \in {"probe", "reprobe"}
  /\ hostNetworkMu = None
  /\ \/ /\ ProbeRefused(t)
        /\ ConsumeTombstone(t)
        /\ Goto("start", t, "return")
        /\ UNCHANGED hostNetwork
     \/ /\ ~ProbeRefused(t) /\ current = None
        /\ Goto("start", t,
                IF At("start", t, "probe") THEN "admit" ELSE "return")
        /\ UNCHANGED <<abandonedTokens, hostNetwork>>
     \/ /\ ~ProbeRefused(t) /\ current # None
        /\ \/ Goto("start", t, "return") /\ UNCHANGED hostNetwork
           \/ /\ Goto("start", t, "refresh")
              /\ hostNetworkMu' = t /\ refreshing' = current
              /\ UNCHANGED netmon
        /\ UNCHANGED abandonedTokens
  /\ UNCHANGED <<slots, exclusive, preparing, startCalls, cleanupFailure,
                 completedPreparations, completedLifecycle, resources,
                 identity, config, reports>>

(* The refresh callback feeds the process-global host-network snapshot.    *)
RefreshHostNetwork(t) ==
  /\ At("start", t, "refresh")
  /\ \/ netmon' = refreshing /\ Goto("start", t, "confirm")
        /\ UNCHANGED <<hostNetworkMu, refreshing>>
     \/ Goto("start", t, "return") /\ UNCHANGED netmon
        /\ hostNetworkMu' = None /\ refreshing' = None
  /\ UNCHANGED <<slots, exclusive, preparing, books, cleanupFailure,
                 resources, identity, config, reports>>

ConfirmRefresh(t) ==
  /\ At("start", t, "confirm")
  /\ Goto("start", t, "return")
  /\ hostNetworkMu' = None /\ refreshing' = None /\ UNCHANGED netmon
  /\ IF ProbeRefused(t) THEN ConsumeTombstone(t)
                        ELSE UNCHANGED abandonedTokens
  /\ UNCHANGED <<slots, exclusive, preparing, startCalls, cleanupFailure,
                 completedPreparations, completedLifecycle, resources,
                 identity, config, reports>>

NewCandidatePreviousEpoch(t) ==
  /\ candidate' = t
  /\ generation' = [generation EXCEPT ![t] = epoch - 1]
  /\ UNCHANGED <<epoch, current, draining, drainReceipt, stage, published,
                 abandoned>>

NewCandidate(t) ==
  /\ candidate' = t
  /\ generation' = [generation EXCEPT ![t] = epoch]
  /\ UNCHANGED <<epoch, current, draining, drainReceipt, stage, published,
                 abandoned>>

(* runtimeController.reserve.                                              *)
Reserve(t) ==
  /\ ~Persistent(t)
  /\ LET refused == \/ cleanupFailure # None
                    \/ t \in abandonedTokens
                    \/ logout # None \/ reset # None \/ prep # None
                    \/ candidate # None \/ draining # None
     IN  \/ /\ refused
            /\ ConsumeTombstone(t)
            /\ Goto("start", t, "return")
            /\ UNCHANGED <<slots, identity>>
         \/ /\ ~refused /\ current # None
            /\ \E label \in {"reprobe", "return"} : Goto("start", t, label)
            /\ UNCHANGED <<slots, identity, abandonedTokens>>
         \/ /\ ~refused /\ current = None
            /\ NewCandidate(t)
            /\ Goto("start", t, "setup")
            /\ UNCHANGED abandonedTokens
  /\ UNCHANGED preparing

(* adoptPersistentPreparation: Store and lease move under one lock, so the *)
(* token's lease and disk do not change hands.                             *)
Adopt(t) ==
  /\ Persistent(t)
  /\ LET refused == \/ cleanupFailure # None
                    \/ t \in abandonedTokens
                    \/ current # None \/ candidate # None \/ draining # None
                    \/ logout # None \/ reset # None
                    \/ prep # t \/ abandoned[t] \/ prepPhase # "completed"
                    \/ disk[t] # "store" \/ lease # t
     IN  \/ /\ refused
            /\ ConsumeTombstone(t)
            /\ Goto("start", t, "return")
            /\ UNCHANGED <<slots, identity, preparing>>
         \/ /\ ~refused   \* the lease's paths no longer validate
            /\ Goto("start", t, "return")
            /\ UNCHANGED <<slots, identity, preparing, abandonedTokens>>
         \/ /\ ~refused
            /\ NewCandidate(t)
            /\ prep' = None /\ prepPhase' = "none"
            /\ Goto("start", t, "hostnet")
            /\ UNCHANGED abandonedTokens

Admit(t) ==
  /\ At("start", t, "admit")
  /\ Reserve(t) \/ Adopt(t)
  /\ UNCHANGED <<exclusive, startCalls, completedPreparations,
                 completedLifecycle, cleanupFailure, resources, hostNetwork,
                 config, reports>>

(* The deferred cleanup of a failed start: closeOnce begins.               *)
Unwind(t) ==
  /\ Goto("start", t, "unwind")
  /\ stage' = [stage EXCEPT ![t] = "server"]
  /\ UNCHANGED <<epoch, candidate, current, draining, drainReceipt, published>>

Advance(t, label) == Goto("start", t, label) /\ UNCHANGED slots

(* acquireStateLease: busy or another failure, an uncertain descriptor     *)
(* cleanup that poisons the root's admission, or the lease.                *)
AcquireLease(t, outcome) ==
  \/ /\ outcome = "held"
     /\ lease = None /\ ~leasePoisoned
     /\ lease' = t /\ UNCHANGED leasePoisoned
  \/ /\ outcome = "failed"
     /\ UNCHANGED <<lease, leasePoisoned>>
  \/ /\ outcome = "uncertain"
     /\ lease = None /\ ~leasePoisoned
     /\ leasePoisoned' = TRUE /\ UNCHANGED lease

(* prepareEphemeralRuntime: lease, occupancy check, scratch directory.     *)
PrepareEphemeralRuntime(t) ==
  /\ At("start", t, "setup")
  /\ \/ /\ AcquireLease(t, "held")
        /\ \/ disk' = [disk EXCEPT ![t] = "scratch"] /\ Advance(t, "hostnet")
           \/ UNCHANGED disk /\ Unwind(t)
        /\ UNCHANGED closeErr
     \/ /\ AcquireLease(t, "failed")
        /\ Unwind(t)
        /\ UNCHANGED <<disk, closeErr>>
     \/ /\ AcquireLease(t, "uncertain")
        /\ Unwind(t)
        /\ closeErr' = [closeErr EXCEPT ![t] = TRUE]
        /\ UNCHANGED disk
  /\ UNCHANGED <<server, exclusive, preparing, books, cleanupFailure,
                 identity, hostNetwork, config, reports>>

ApplyHostNetworkSnapshotUnlocked(t) ==
  /\ At("start", t, "hostnet")
  /\ \/ abandoned[t] /\ Unwind(t) /\ UNCHANGED netmon
     \/ /\ ~abandoned[t]
        /\ \/ netmon' = t /\ Advance(t, "launch")
           \/ UNCHANGED netmon /\ Unwind(t)
  /\ UNCHANGED <<hostNetworkMu, refreshing, exclusive, preparing, books,
                 cleanupFailure, resources, identity, config, reports>>

(* isAbandoned, then applyHostNetworkSnapshot under hostNetworkMu.         *)
ApplyHostNetworkSnapshot(t) ==
  /\ At("start", t, "hostnet")
  /\ \/ abandoned[t] /\ Unwind(t) /\ UNCHANGED netmon
     \/ /\ ~abandoned[t] /\ hostNetworkMu = None
        /\ \/ netmon' = t /\ Advance(t, "launch")
           \/ UNCHANGED netmon /\ Unwind(t)
  /\ UNCHANGED <<hostNetworkMu, refreshing, exclusive, preparing, books,
                 cleanupFailure, resources, identity, config, reports>>

(* A launch that leaves the proven tuple of the last start in place.       *)
LaunchServerKeepingProof(t) ==
  /\ At("start", t, "launch")
  /\ \/ Unwind(t) /\ UNCHANGED <<server, launched>>
     \/ /\ ~abandoned[t]
        /\ server' = [server EXCEPT ![t] = "starting"]
        /\ launched' = IF Persistent(t) THEN t ELSE launched
        /\ Advance(t, "starting")
  /\ UNCHANGED <<proven, lease, leasePoisoned, disk, closeErr, exclusive,
                 preparing, books, cleanupFailure, identity, hostNetwork,
                 reports>>

(* Directory, sidecar and clearRuntimeConfig failures unwind; otherwise    *)
(* the proven tuple is invalidated and Server.Start is entered.            *)
LaunchServer(t) ==
  /\ At("start", t, "launch")
  /\ \/ /\ Unwind(t)
        /\ proven' \in {proven, IF Persistent(t) THEN None ELSE proven}
        /\ UNCHANGED <<server, launched>>
     \/ /\ ~abandoned[t]
        /\ server' = [server EXCEPT ![t] = "starting"]
        /\ IF Persistent(t) THEN proven' = None /\ launched' = t
                            ELSE UNCHANGED config
        /\ Advance(t, "starting")
  /\ UNCHANGED <<lease, leasePoisoned, disk, closeErr, exclusive, preparing,
                 books, cleanupFailure, identity, hostNetwork, reports>>

(* startServerWithScopedLogs: upstream unwinds a failed Start itself; a    *)
(* started Server may still fail to restore TS_LOGS_DIR.                   *)
ServerStartReturns(t) ==
  /\ At("start", t, "starting")
  /\ \/ /\ server' = [server EXCEPT ![t] = "unwound"]
        /\ Unwind(t)
     \/ /\ server' = [server EXCEPT ![t] = "live"]
        /\ Advance(t, "started") \/ Unwind(t)
  /\ UNCHANGED <<lease, leasePoisoned, disk, closeErr, exclusive, preparing,
                 books, cleanupFailure, identity, hostNetwork, config, reports>>

CommitIgnoresAbandonment(t) ==
  candidate # t \/ current # None \/ draining # None

(* runtimeController.commit's refusals.                                    *)
CommitRefused(t) ==
  abandoned[t] \/ candidate # t \/ current # None \/ draining # None

(* Sidecar validation, saveRuntimeConfig, LocalClient, then commit.        *)
CommitStart(t) ==
  /\ At("start", t, "started")
  /\ \/ /\ Unwind(t)
        /\ proven' \in {proven, IF Persistent(t) THEN t ELSE proven}
     \/ /\ ~CommitRefused(t)
        /\ proven' = IF Persistent(t) THEN t ELSE proven
        /\ candidate' = None /\ current' = t
        /\ published' = published \cup {t}
        /\ Goto("start", t, "return")
        /\ UNCHANGED <<epoch, draining, drainReceipt, stage>>
  /\ UNCHANGED <<launched, exclusive, preparing, books, cleanupFailure,
                 resources, identity, hostNetwork, reports>>

(* runtimeController.release.                                              *)
ReleaseCandidate(t) ==
  /\ At("start", t, "unwind") /\ stage[t] = "closed"
  /\ RecordCleanupFailure(t, closeErr[t])
  /\ candidate' = IF candidate = t THEN None ELSE candidate
  /\ completedPreparations' =
       IF candidate = t /\ abandoned[t] THEN completedPreparations \cup {t}
                                        ELSE completedPreparations
  /\ Goto("start", t, "return")
  /\ UNCHANGED <<epoch, current, draining, drainReceipt, stage, published,
                 exclusive, preparing, startCalls, abandonedTokens,
                 completedLifecycle, resources, identity, hostNetwork,
                 config, reports>>

(* finishStartCall.                                                        *)
FinishStartCall(t) ==
  /\ At("start", t, "return")
  /\ startCalls' = startCalls \ {t}
  /\ abandonedTokens' = abandonedTokens \ {t}
  /\ Goto("start", t, "done")
  /\ UNCHANGED <<slots, exclusive, preparing, completedPreparations,
                 completedLifecycle, cleanupFailure, resources, identity,
                 hostNetwork, config, reports>>

StartStep(t) ==
  \/ ProbeActiveRuntime(t) \/ RefreshHostNetwork(t) \/ ConfirmRefresh(t)
  \/ Admit(t) \/ PrepareEphemeralRuntime(t) \/ ApplyHostNetworkSnapshot(t)
  \/ LaunchServer(t) \/ ServerStartReturns(t) \/ CommitStart(t)
  \/ ReleaseCandidate(t) \/ FinishStartCall(t)

(***************************************************************************)
(* Detach and drain: detachRuntimeLocked bumps the epoch before any sweep; *)
(* finishRuntimeDrain publishes the outcome and reopens admission.         *)
(***************************************************************************)
DetachRuntime(t, receipt) ==
  /\ current' = None
  /\ epoch' = epoch + 1
  /\ draining' = t
  /\ drainReceipt' = receipt
  /\ stage' = [stage EXCEPT ![t] = "server"]
  /\ UNCHANGED <<candidate, published>>

FinishRuntimeDrainKeepsFailed(t) ==
  /\ draining = t /\ stage[t] = "closed"
  /\ RecordCleanupFailure(t, closeErr[t])
  /\ draining' = IF closeErr[t] THEN draining ELSE None
  /\ drainReceipt' = FALSE
  /\ UNCHANGED <<epoch, candidate, current, stage, published, exclusive,
                 startCalls, completedPreparations, completedLifecycle>>

FinishRuntimeDrain(t) ==
  /\ draining = t /\ stage[t] = "closed"
  /\ RecordCleanupFailure(t, closeErr[t])
  /\ logoutErr' = IF logout = t THEN [logoutErr EXCEPT ![t] = closeErr[t]]
                               ELSE logoutErr
  /\ completedLifecycle' =
       IF drainReceipt
         THEN [completedLifecycle EXCEPT
                 ![t] = IF closeErr[t] THEN "downFailed" ELSE "down"]
         ELSE completedLifecycle
  /\ draining' = None
  /\ drainReceipt' = FALSE
  /\ UNCHANGED <<epoch, candidate, current, stage, published, logout, reset,
                 resetRuntime, revoked, hidden, startCalls,
                 completedPreparations>>

ReportSwallowsError(who, t, clean) ==
  cleanReports' = cleanReports \cup {<<who, t>>}

(* A caller learns that t closed without a cleanup error.                  *)
Report(who, t, clean) ==
  cleanReports' = IF clean THEN cleanReports \cup {<<who, t>>}
                           ELSE cleanReports

(***************************************************************************)
(* closeRuntime: down (CloseRuntime) and the logout owner's own close.     *)
(***************************************************************************)
CallDown(t) ==
  /\ <<"down", t>> \in Calls
  /\ At("down", t, "idle")
  /\ Goto("down", t, "loop")
  /\ UNCHANGED <<slots, exclusive, preparing, books, cleanupFailure,
                 resources, identity, hostNetwork, config, reports>>

(* Down goes back to idle and may be called again; logout goes on.         *)
CloseReturns(op, t, failed) ==
  Goto(op, t, IF op = "down" THEN "idle"
              ELSE IF failed THEN "closeFailed" ELSE "closeReturned")

JoinLogout(op, t) == op # "logout" /\ logout = t

CloseLoop(op, t) ==
  /\ At(op, t, "loop")
  /\ \/ /\ JoinLogout(op, t)
        /\ Goto(op, t, "waitLogout") /\ UNCHANGED slots
     \/ /\ ~JoinLogout(op, t) /\ candidate = t
        /\ Goto(op, t, "waitCandidate") /\ UNCHANGED slots
     \/ /\ ~JoinLogout(op, t) /\ candidate = None /\ draining = t
        /\ Goto(op, t, "waitDrain") /\ UNCHANGED slots
     \/ /\ ~JoinLogout(op, t)
        /\ \/ candidate \notin {None, t}
           \/ candidate = None /\ draining \notin {None, t}
           \/ candidate = None /\ draining = None /\ current # t
        /\ CloseReturns(op, t, FALSE) /\ UNCHANGED slots
     \/ /\ ~JoinLogout(op, t)
        /\ candidate = None /\ draining = None /\ current = t
        /\ DetachRuntime(t, op = "down")
        /\ Goto(op, t, "closing")
  /\ UNCHANGED <<exclusive, preparing, books, cleanupFailure, resources,
                 identity, hostNetwork, config, reports>>

(* The joined channels: candidate.preparationDone, draining.done,          *)
(* logout.done.                                                            *)
CloseJoins(op, t) ==
  /\ \/ /\ At(op, t, "waitCandidate") /\ candidate # t
        /\ Goto(op, t, "loop")
        /\ UNCHANGED cleanReports
     \/ /\ At(op, t, "waitDrain") /\ draining # t
        /\ CloseReturns(op, t, closeErr[t])
        /\ Report(op, t, ~closeErr[t] /\ op = "down")
     \/ /\ At(op, t, "waitLogout") /\ logout # t
        /\ CloseReturns(op, t, logoutErr[t])
        /\ Report(op, t, ~logoutErr[t])
  /\ UNCHANGED <<slots, exclusive, preparing, books, cleanupFailure,
                 resources, identity, hostNetwork, config, quarantined>>

CloseFinishes(op, t) ==
  /\ At(op, t, "closing")
  /\ FinishRuntimeDrain(t)
  /\ CloseReturns(op, t, closeErr[t])
  /\ Report(op, t, ~closeErr[t] /\ op = "down")
  /\ UNCHANGED <<preparing, abandonedTokens, resources, identity,
                 hostNetwork, config, quarantined>>

CloseRuntimeStep(op, t) ==
  CloseLoop(op, t) \/ CloseJoins(op, t) \/ CloseFinishes(op, t)

(* AcknowledgeLifecycleResult.                                             *)
AcknowledgeLifecycleResult(t) ==
  /\ completedLifecycle[t] # "none"
  /\ completedLifecycle' = [completedLifecycle EXCEPT ![t] = "none"]
  /\ UNCHANGED <<slots, exclusive, preparing, startCalls, abandonedTokens,
                 completedPreparations, cleanupFailure, resources, identity,
                 hostNetwork, config, pc, reports>>

(***************************************************************************)
(* AbandonRuntime quarantines one token.  It returns pending while a       *)
(* non-cancellable step (lease acquisition, Server.Start, caller-side      *)
(* custody) is still running.                                              *)
(***************************************************************************)
CallAbandon(t) ==
  /\ <<"abandon", t>> \in Calls
  /\ pc[<<"abandon", t>>] \in {"idle", "pending"}
  /\ Goto("abandon", t, "loop")
  /\ UNCHANGED <<slots, exclusive, preparing, books, cleanupFailure,
                 resources, identity, hostNetwork, config, reports>>

AbandonReturns(t, clean) ==
  /\ Goto("abandon", t, "idle")
  /\ quarantined' = quarantined \cup {t}
  /\ Report("abandon", t, clean)

AbandonReturnsPending(t) ==
  /\ Goto("abandon", t, "pending")
  /\ quarantined' = quarantined \cup {t}
  /\ UNCHANGED cleanReports

(* A retained receipt is the whole answer.                                 *)
AbandonTakesReceipt(t) ==
  /\ At("abandon", t, "loop")
  /\ completedLifecycle[t] # "none"
  /\ completedLifecycle' = [completedLifecycle EXCEPT ![t] = "none"]
  /\ abandonedTokens' = abandonedTokens \ {t}
  /\ AbandonReturns(t, completedLifecycle[t] \in {"down", "logout"})
  /\ UNCHANGED <<slots, exclusive, preparing, startCalls,
                 completedPreparations, cleanupFailure, resources, identity,
                 hostNetwork, config>>

(* Every other pass leaves the tombstone and marks what the token owns.    *)
AbandonPreparation(t) ==
  /\ At("abandon", t, "loop")
  /\ completedLifecycle[t] = "none" /\ prep = t
  /\ abandonedTokens' = abandonedTokens \cup {t}
  /\ abandoned' = [abandoned EXCEPT ![t] = TRUE]
  /\ \/ /\ prepPhase = "acquiring"
        /\ Goto("abandon", t, "checkSettled") /\ UNCHANGED reports
     \/ /\ prepPhase \in {"custody", "stuck"}
        /\ AbandonReturnsPending(t)
     \/ /\ prepPhase \notin {"acquiring", "custody", "stuck"}
        /\ Goto("abandon", t, "finishPrep") /\ UNCHANGED reports
  /\ UNCHANGED <<slots, exclusive, preparing, startCalls,
                 completedPreparations, completedLifecycle, cleanupFailure,
                 resources, generation, hostNetwork, config>>

AbandonLoop(t) ==
  /\ At("abandon", t, "loop")
  /\ completedLifecycle[t] = "none"
  /\ abandonedTokens' = abandonedTokens \cup {t}
  /\ \/ /\ prep # t /\ logout = t
        /\ Goto("abandon", t, "waitLogout")
        /\ UNCHANGED <<slots, abandoned, reports>>
     \/ /\ prep # t /\ logout # t /\ candidate = t
        /\ abandoned' = [abandoned EXCEPT ![t] = TRUE]
        /\ AbandonReturnsPending(t)
        /\ UNCHANGED slots
     \/ /\ prep # t /\ logout # t /\ candidate # t /\ draining = t
        /\ Goto("abandon", t, "waitDrain")
        /\ UNCHANGED <<slots, abandoned, reports>>
     \/ /\ t \notin {prep, logout, candidate, draining, current}
        /\ IF t \in startCalls THEN AbandonReturnsPending(t)
                               ELSE AbandonReturns(t, TRUE)
        /\ UNCHANGED <<slots, abandoned>>
     \/ /\ t \notin {prep, logout, candidate, draining} /\ current = t
        /\ DetachRuntime(t, FALSE)
        /\ Goto("abandon", t, "closing")
        /\ UNCHANGED <<abandoned, reports>>
  /\ UNCHANGED <<exclusive, preparing, startCalls, completedPreparations,
                 completedLifecycle, cleanupFailure, resources, generation,
                 hostNetwork, config>>

(* acquisitionSettled is read again after the controller lock is dropped.  *)
AbandonChecksSettled(t) ==
  /\ At("abandon", t, "checkSettled")
  /\ IF prep = t /\ prepPhase = "acquiring"
       THEN AbandonReturnsPending(t)
       ELSE Goto("abandon", t, "finishPrep") /\ UNCHANGED reports
  /\ UNCHANGED <<slots, exclusive, preparing, books, cleanupFailure,
                 resources, identity, hostNetwork, config>>

(* finishPersistentPreparation: claim the one cleanup, or join it.         *)
ClaimFinish(t) ==
  /\ prep = t /\ prepPhase \in {"settled", "custody", "completed"}
  /\ prepPhase' = "finishing"
  /\ UNCHANGED prep

AbandonFinishesPreparation(t) ==
  /\ At("abandon", t, "finishPrep")
  /\ \/ /\ ClaimFinish(t)
        /\ UNCHANGED <<pc, abandonedTokens, completedPreparations, reports>>
     \/ /\ prep # t
        /\ abandonedTokens' = abandonedTokens \ {t}
        /\ completedPreparations' = completedPreparations \ {t}
        /\ AbandonReturns(t, ~closeErr[t])
        /\ UNCHANGED preparing
  /\ UNCHANGED <<slots, exclusive, startCalls, completedLifecycle,
                 cleanupFailure, resources, identity, hostNetwork, config>>

AbandonJoins(t) ==
  /\ \/ At("abandon", t, "waitLogout") /\ logout # t
     \/ At("abandon", t, "waitDrain") /\ draining # t
  /\ Goto("abandon", t, "loop")
  /\ UNCHANGED <<slots, exclusive, preparing, books, cleanupFailure,
                 resources, identity, hostNetwork, config, reports>>

AbandonFinishesDrain(t) ==
  /\ At("abandon", t, "closing")
  /\ FinishRuntimeDrain(t)
  /\ Goto("abandon", t, "untomb")
  /\ UNCHANGED <<preparing, abandonedTokens, resources, identity,
                 hostNetwork, config, reports>>

AbandonDrops(t) ==
  /\ At("abandon", t, "untomb")
  /\ abandonedTokens' = abandonedTokens \ {t}
  /\ AbandonReturns(t, ~closeErr[t])
  /\ UNCHANGED <<slots, exclusive, preparing, startCalls,
                 completedPreparations, completedLifecycle, cleanupFailure,
                 resources, identity, hostNetwork, config>>

AbandonStep(t) ==
  \/ AbandonTakesReceipt(t) \/ AbandonPreparation(t) \/ AbandonLoop(t)
  \/ AbandonChecksSettled(t) \/ AbandonFinishesPreparation(t)
  \/ AbandonJoins(t)
  \/ AbandonFinishesDrain(t) \/ AbandonDrops(t)

(* RetireAbandonedRuntimeToken: the originating Future has settled, so no  *)
(* later dispatch can enter native code for the token.                     *)
RetireAbandonedRuntimeToken(t) ==
  /\ t \in abandonedTokens \ startCalls
  /\ ~At("start", t, "idle")
  /\ abandonedTokens' = abandonedTokens \ {t}
  /\ UNCHANGED <<slots, exclusive, preparing, startCalls,
                 completedPreparations, completedLifecycle, cleanupFailure,
                 resources, identity, hostNetwork, config, pc, reports>>

(***************************************************************************)
(* AwaitRuntimeQuiescence joins a quarantined token.  The supervisor calls *)
(* it after AbandonRuntime returned pending and any custody was settled.   *)
(***************************************************************************)
CallAwait(t) ==
  /\ <<"await", t>> \in Calls
  /\ At("await", t, "idle")
  /\ At("abandon", t, "pending")
  /\ prep = t => prepPhase \notin {"custody", "stuck"}
  /\ Goto("await", t, "loop")
  /\ UNCHANGED <<slots, exclusive, preparing, books, cleanupFailure,
                 resources, identity, hostNetwork, config, reports>>

AwaitReturns(t, clean) ==
  /\ Goto("await", t, "idle")
  /\ Report("await", t, clean)
  /\ UNCHANGED quarantined

AwaitLoop(t) ==
  /\ At("await", t, "loop")
  /\ \/ /\ prep = t
        /\ Goto("await", t, "waitPrep") /\ UNCHANGED reports
     \/ /\ prep # t /\ logout = t
        /\ Goto("await", t, "waitLogout") /\ UNCHANGED reports
     \/ /\ t \notin {prep, logout} \cup completedPreparations
        /\ candidate = t
        /\ Goto("await", t, "waitCandidate") /\ UNCHANGED reports
     \/ /\ t \notin {prep, logout, candidate} \cup completedPreparations
        /\ draining = t
        /\ Goto("await", t, "waitDrain") /\ UNCHANGED reports
     \/ /\ t \notin {prep, logout, candidate, draining}
                      \cup completedPreparations
        /\ \/ /\ t \in startCalls
              /\ Goto("await", t, "waitStart") /\ UNCHANGED reports
           \/ t \notin startCalls /\ AwaitReturns(t, TRUE)
  /\ UNCHANGED <<slots, exclusive, preparing, books, cleanupFailure,
                 resources, identity, hostNetwork, config>>

(* The outcome of a preparation or candidate that unwound before.          *)
AwaitTakesOutcome(t) ==
  /\ At("await", t, "loop")
  /\ t \notin {prep, logout} /\ t \in completedPreparations
  /\ completedPreparations' = completedPreparations \ {t}
  /\ abandonedTokens' = abandonedTokens \ {t}
  /\ AwaitReturns(t, ~closeErr[t])
  /\ UNCHANGED <<slots, exclusive, preparing, startCalls, completedLifecycle,
                 cleanupFailure, resources, identity, hostNetwork, config>>

AwaitJoins(t) ==
  /\ \/ /\ At("await", t, "waitStart") /\ t \notin startCalls
        /\ Goto("await", t, "loop")
        /\ UNCHANGED <<completedPreparations, abandonedTokens, reports>>
     \/ /\ At("await", t, "waitLogout") /\ logout # t
        /\ AwaitReturns(t, ~logoutErr[t])
        /\ UNCHANGED <<completedPreparations, abandonedTokens>>
     \/ /\ \/ At("await", t, "waitPrep") /\ prep # t
           \/ At("await", t, "waitCandidate") /\ candidate # t
           \/ At("await", t, "waitDrain") /\ draining # t
        /\ completedPreparations' =
             IF At("await", t, "waitDrain") THEN completedPreparations
                                            ELSE completedPreparations \ {t}
        /\ abandonedTokens' = abandonedTokens \ {t}
        /\ AwaitReturns(t, ~closeErr[t])
  /\ UNCHANGED <<slots, exclusive, preparing, startCalls, completedLifecycle,
                 cleanupFailure, resources, identity, hostNetwork, config>>

AwaitStep(t) == AwaitLoop(t) \/ AwaitTakesOutcome(t) \/ AwaitJoins(t)

(***************************************************************************)
(* LogoutWithToken: revoke upstream on the active runtime, or on one       *)
(* reconstructed from a completed preparation, then close it.              *)
(* Worker calls are serial: the token is that of a runtime whose start     *)
(* returned, or one prepared for this logout alone.                        *)
(***************************************************************************)
CallLogout(t) ==
  /\ <<"logout", t>> \in Calls
  /\ At("logout", t, "idle")
  /\ \/ At("start", t, "done") /\ t \in published
     \/ At("start", t, "idle") /\ At("prep", t, "ready")
  /\ Goto("logout", t, "check")
  /\ UNCHANGED <<slots, exclusive, preparing, books, cleanupFailure,
                 resources, identity, hostNetwork, config, reports>>

(* Errors before beginLogout leave their receipt on the way out.           *)
LogoutRefused(t, cleanupFailed) ==
  /\ Goto("logout", t, "done")
  /\ completedLifecycle' = [completedLifecycle EXCEPT
       ![t] = IF cleanupFailed THEN "logoutFailed" ELSE "logoutIndeterminate"]

LogoutCheck(t) ==
  /\ At("logout", t, "check")
  /\ \/ cleanupFailure # None /\ LogoutRefused(t, TRUE)
     \/ /\ cleanupFailure = None
        /\ Goto("logout", t, "capture")
        /\ UNCHANGED completedLifecycle
  /\ UNCHANGED <<slots, exclusive, preparing, startCalls, abandonedTokens,
                 completedPreparations, cleanupFailure, resources, identity,
                 hostNetwork, config, reports>>

(* currentRuntime decides between the active runtime and prepareIdleRuntime *)
LogoutCapture(t) ==
  /\ At("logout", t, "capture")
  /\ \/ /\ current = t
        /\ Goto("logout", t, "begin")
        /\ UNCHANGED <<completedLifecycle, startCalls, hidden>>
     \/ /\ current \notin {None, t}
        /\ LogoutRefused(t, FALSE)
        /\ UNCHANGED <<startCalls, hidden>>
     \/ /\ current = None
        /\ prep = t /\ prepPhase = "completed" /\ disk[t] = "store"
        /\ \/ /\ proven # None
              /\ startCalls' = startCalls \cup {t}
              /\ hidden' = hidden \cup {t}
              /\ pc' = [pc EXCEPT ![<<"logout", t>>] = "reopen",
                                  ![<<"start", t>>] = "probe"]
           \/ /\ proven = None
              /\ Goto("logout", t, "abort")
              /\ UNCHANGED <<startCalls, hidden>>
        /\ UNCHANGED completedLifecycle
     \/ /\ current = None
        /\ ~(prep = t /\ prepPhase = "completed" /\ disk[t] = "store")
        /\ LogoutRefused(t, FALSE)
        /\ UNCHANGED <<startCalls, hidden>>
  /\ UNCHANGED <<slots, logout, reset, resetRuntime, logoutErr, revoked,
                 preparing, abandonedTokens, completedPreparations,
                 cleanupFailure, resources, identity, hostNetwork, config,
                 reports>>

LogoutReopened(t) ==
  /\ At("logout", t, "reopen")
  /\ At("start", t, "done")
  /\ \/ /\ t \notin published
        /\ Goto("logout", t, "abort")
        /\ UNCHANGED completedLifecycle
     \/ /\ t \in published /\ current # t
        /\ LogoutRefused(t, FALSE)
     \/ /\ current = t
        /\ Goto("logout", t, "begin")
        /\ UNCHANGED completedLifecycle
  /\ UNCHANGED <<slots, exclusive, preparing, startCalls, abandonedTokens,
                 completedPreparations, cleanupFailure, resources, identity,
                 hostNetwork, config, reports>>

(* prepareIdleRuntime's error path: FinishPreparedPersistentState, whose   *)
(* stale error after an adoption is dropped.                               *)
LogoutAborts(t) ==
  /\ \/ /\ At("logout", t, "abort")
        /\ prep = t /\ prepPhase = "completed"
        /\ prepPhase' = "finishing"
        /\ Goto("logout", t, "aborting")
        /\ UNCHANGED completedLifecycle
     \/ /\ At("logout", t, "abort")
        /\ ~(prep = t /\ prepPhase = "completed")
        /\ LogoutRefused(t, closeErr[t])
        /\ UNCHANGED prepPhase
     \/ /\ At("logout", t, "aborting") /\ prep # t
        /\ LogoutRefused(t, closeErr[t])
        /\ UNCHANGED prepPhase
  /\ UNCHANGED <<slots, exclusive, prep, startCalls, abandonedTokens,
                 completedPreparations, cleanupFailure, resources, identity,
                 hostNetwork, config, reports>>

BeginLogout(t) ==
  /\ At("logout", t, "begin")
  /\ \/ /\ current = t /\ logout = None
        /\ logout' = t
        /\ Goto("logout", t, "revoke")
        /\ UNCHANGED completedLifecycle
     \/ /\ current # t \/ logout # None
        /\ LogoutRefused(t, FALSE)
        /\ UNCHANGED logout
  /\ UNCHANGED <<slots, reset, resetRuntime, logoutErr, revoked, hidden,
                 preparing, startCalls, abandonedTokens,
                 completedPreparations, cleanupFailure, resources, identity,
                 hostNetwork, config, reports>>

(* revokeNodeKey: resultError turns any answer for a detached runtime into *)
(* an error.                                                               *)
RevokeNodeKey(t) ==
  /\ At("logout", t, "revoke")
  /\ \E ok \in BOOLEAN :
       /\ ok => epoch = generation[t] /\ stage[t] = "open"
       /\ revoked' = ok
  /\ Goto("logout", t, "loop")
  /\ UNCHANGED <<slots, logout, reset, resetRuntime, logoutErr, hidden,
                 preparing, books, cleanupFailure, resources, identity,
                 hostNetwork, config, reports>>

(* finishLogout with the result the deferred call captured.                *)
FinishLogout(t) ==
  /\ pc[<<"logout", t>>] \in {"closeReturned", "closeFailed"}
  /\ logout = t
  /\ LET failed == At("logout", t, "closeFailed")
     IN  /\ RecordCleanupFailure(t, failed)
         /\ logoutErr' = [logoutErr EXCEPT ![t] = @ \/ failed]
         /\ completedLifecycle' = [completedLifecycle EXCEPT
              ![t] = IF failed THEN "logoutFailed"
                     ELSE IF revoked THEN "logout" ELSE "logoutIndeterminate"]
         /\ Report("logout", t, revoked /\ ~failed)
  /\ logout' = None
  /\ Goto("logout", t, "done")
  /\ UNCHANGED <<slots, reset, resetRuntime, revoked, hidden, preparing,
                 startCalls, abandonedTokens, completedPreparations,
                 resources, identity, hostNetwork, config, quarantined>>

LogoutStep(t) ==
  \/ LogoutCheck(t) \/ LogoutCapture(t) \/ LogoutReopened(t)
  \/ LogoutAborts(t) \/ BeginLogout(t) \/ RevokeNodeKey(t)
  \/ CloseRuntimeStep("logout", t) \/ FinishLogout(t)

(***************************************************************************)
(* A publication failure detaches the exact generation: the bootstrap      *)
(* reaper, or quarantinePublicationFailure, which joins a drain it lost    *)
(* the race to.  Runtimes reconstructed by idle logout never bootstrap.    *)
(***************************************************************************)
FailPublication(t) ==
  /\ <<"publication", t>> \in Calls
  /\ At("publication", t, "idle")
  /\ t \in published \ hidden
  /\ \/ /\ current = t /\ generation[t] = epoch
        /\ DetachRuntime(t, FALSE)
        /\ Goto("publication", t, "closing")
     \/ /\ ~(current = t /\ generation[t] = epoch)
        /\ \/ Goto("publication", t, "done")
           \/ draining = t /\ Goto("publication", t, "waitDrain")
        /\ UNCHANGED slots
  /\ UNCHANGED <<exclusive, preparing, books, cleanupFailure, resources,
                 identity, hostNetwork, config, reports>>

PublicationFinishesDrain(t) ==
  /\ At("publication", t, "closing")
  /\ FinishRuntimeDrain(t)
  /\ Goto("publication", t, "done")
  /\ UNCHANGED <<preparing, abandonedTokens, resources, identity,
                 hostNetwork, config, reports>>

PublicationJoins(t) ==
  /\ At("publication", t, "waitDrain") /\ draining # t
  /\ Goto("publication", t, "done")
  /\ UNCHANGED <<slots, exclusive, preparing, books, cleanupFailure,
                 resources, identity, hostNetwork, config, reports>>

PublicationStep(t) == PublicationFinishesDrain(t) \/ PublicationJoins(t)

(***************************************************************************)
(* The persistent preparation slot.  What happens between custody          *)
(* activation and completion is module PersistentPreparation's subject.    *)
(***************************************************************************)
BeginPersistentPreparation(t) ==
  /\ <<"prep", t>> \in Calls
  /\ At("prep", t, "idle") /\ At("start", t, "idle")
  /\ LET refused == \/ cleanupFailure # None \/ t \in abandonedTokens
                    \/ prep # None \/ candidate # None \/ current # None
                    \/ draining # None \/ logout # None \/ reset # None
     IN  \/ /\ refused
            /\ ConsumeTombstone(t)
            /\ Goto("prep", t, "refused")
            /\ UNCHANGED preparing
         \/ /\ ~refused
            /\ prep' = t /\ prepPhase' = "acquiring"
            /\ Goto("prep", t, "begun")
            /\ UNCHANGED abandonedTokens
  /\ UNCHANGED <<slots, exclusive, startCalls, completedPreparations,
                 completedLifecycle, cleanupFailure, resources, identity,
                 hostNetwork, config, reports>>

(* acquireStateLease returned: acquisitionSettled, then an error or an     *)
(* abandonment finishes the preparation at once.                           *)
SettleAcquisition(t) ==
  /\ prep = t /\ prepPhase = "acquiring"
  /\ \/ /\ AcquireLease(t, "held")
        /\ prepPhase' = IF abandoned[t] THEN "finishing" ELSE "settled"
        /\ UNCHANGED closeErr
     \/ /\ AcquireLease(t, "failed")
        /\ prepPhase' = "finishing"
        /\ UNCHANGED closeErr
     \/ /\ AcquireLease(t, "uncertain")
        /\ prepPhase' = "finishing"
        /\ closeErr' = [closeErr EXCEPT ![t] = TRUE]
  /\ UNCHANGED <<slots, exclusive, prep, books, cleanupFailure, server, disk,
                 identity, hostNetwork, config, pc, reports>>

MarkCustodyActive(t) ==
  /\ prep = t /\ prepPhase = "settled" /\ ~abandoned[t]
  /\ prepPhase' = "custody"
  /\ UNCHANGED <<slots, exclusive, prep, books, cleanupFailure, resources,
                 identity, hostNetwork, config, pc, reports>>

(* PreparePersistentState opened or created the envelope.                  *)
PreparePersistentState(t) ==
  /\ prep = t /\ prepPhase = "custody" /\ ~abandoned[t] /\ disk[t] = "none"
  /\ disk' = [disk EXCEPT ![t] = "store"]
  /\ UNCHANGED <<slots, exclusive, preparing, books, cleanupFailure, lease,
                 leasePoisoned, server, closeErr, identity, hostNetwork,
                 config, pc, reports>>

CompletePersistentCustody(t) ==
  /\ prep = t /\ prepPhase = "custody" /\ ~abandoned[t]
  /\ prepPhase' = "completed"
  /\ Goto("prep", t, IF disk[t] = "store" THEN "ready" ELSE "probed")
  /\ UNCHANGED <<slots, exclusive, prep, books, cleanupFailure, resources,
                 identity, hostNetwork, config, reports>>

(* A completed idle probe: nothing is started for this token afterwards.   *)
FinishPreparedPersistentState(t) ==
  /\ prep = t /\ prepPhase \in {"settled", "completed"}
  /\ At("start", t, "idle") /\ At("logout", t, "idle")
  /\ prepPhase' = "finishing"
  /\ Goto("prep", t, "finished")
  /\ UNCHANGED <<slots, exclusive, prep, books, cleanupFailure, resources,
                 identity, hostNetwork, config, reports>>

(* FinishCustody after an abandonment; a failed compensation poisons and   *)
(* retains the slot and its lease.                                         *)
FinishCustody(t) ==
  /\ prep = t /\ prepPhase = "custody" /\ abandoned[t]
  /\ \/ /\ prepPhase' = "finishing"
        /\ UNCHANGED <<cleanupFailure, disk>>
     \/ /\ prepPhase' = "stuck"
        /\ RecordCleanupFailure(t, TRUE)
        /\ disk' = [disk EXCEPT ![t] = "none"]
  /\ UNCHANGED <<slots, exclusive, prep, books, lease, leasePoisoned, server,
                 closeErr, identity, hostNetwork, config, pc, reports>>

(* finishClaimedPersistentPreparation: Store, lease, poison, then the slot *)
CleanupPreparation(t) ==
  /\ prep = t /\ prepPhase = "finishing"
  /\ prepPhase' = "cleaned"
  /\ \E storeFailed, leaseFailed \in BOOLEAN :
       /\ storeFailed => disk[t] = "store"
       /\ disk' = [disk EXCEPT ![t] = IF storeFailed THEN "unknown" ELSE "none"]
       /\ ReleaseLease(t, leaseFailed)
       /\ closeErr' = [closeErr EXCEPT ![t] = @ \/ storeFailed \/ leaseFailed]
       /\ RecordCleanupFailure(t, closeErr'[t])
  /\ UNCHANGED <<slots, exclusive, prep, books, server, identity,
                 hostNetwork, config, pc, reports>>

RetirePreparation(t) ==
  /\ prep = t /\ prepPhase = "cleaned"
  /\ prep' = None /\ prepPhase' = "none"
  /\ completedPreparations' = IF abandoned[t] THEN completedPreparations \cup {t}
                                              ELSE completedPreparations
  /\ UNCHANGED <<slots, exclusive, startCalls, abandonedTokens,
                 completedLifecycle, cleanupFailure, resources, identity,
                 hostNetwork, config, pc, reports>>

PreparationStep(t) ==
  SettleAcquisition(t) \/ CleanupPreparation(t) \/ RetirePreparation(t)

CustodyStep(t) ==
  \/ MarkCustodyActive(t) \/ PreparePersistentState(t)
  \/ CompletePersistentCustody(t) \/ FinishPreparedPersistentState(t)
  \/ FinishCustody(t)

(***************************************************************************)
(* Local reset: BeginLocalReset takes the active runtime, with its lease,  *)
(* out of the current slot under one lock; FinishLocalReset commits.       *)
(***************************************************************************)
TakeRuntimeWithoutLease(r) ==
  /\ reset' = r /\ resetRuntime' = current
  /\ lease' = None
  /\ current' = None /\ epoch' = epoch + 1
  /\ stage' = [stage EXCEPT ![current] = "server"]
  /\ UNCHANGED <<candidate, draining, drainReceipt, published>>

TakeRuntimeLeavingCurrent(r) ==
  /\ reset' = r /\ resetRuntime' = current
  /\ lease' = r
  /\ epoch' = epoch + 1
  /\ stage' = [stage EXCEPT ![current] = "server"]
  /\ UNCHANGED <<candidate, current, draining, drainReceipt, published>>

TakeRuntime(r) ==
  /\ reset' = r /\ resetRuntime' = current
  /\ lease' = r
  /\ current' = None /\ epoch' = epoch + 1
  /\ stage' = [stage EXCEPT ![current] = "server"]
  /\ UNCHANGED <<candidate, draining, drainReceipt, published>>

BeginLocalReset(r) ==
  /\ <<"reset", r>> \in Calls
  /\ At("reset", r, "idle") /\ At("start", r, "idle") /\ At("prep", r, "idle")
  /\ \E label \in {"done", "acquire", "closing"} :
       /\ pc' = [pc EXCEPT ![<<"reset", r>>] = label,
                           ![<<"start", r>>] = "done"]
       /\ LET refused == \/ cleanupFailure # None \/ reset # None
                         \/ prep # None \/ candidate # None
                         \/ draining # None \/ logout # None
                         \/ current # None /\ lease # current
          IN  \/ /\ refused /\ label = "done"
                 /\ UNCHANGED <<slots, reset, resetRuntime, lease>>
              \/ /\ ~refused /\ current = None /\ label = "acquire"
                 /\ reset' = r
                 /\ UNCHANGED <<slots, resetRuntime, lease>>
              \/ /\ ~refused /\ current # None /\ label = "closing"
                 /\ TakeRuntime(r)
  /\ UNCHANGED <<logout, logoutErr, revoked, hidden, preparing, books,
                 cleanupFailure, leasePoisoned, server, disk, closeErr,
                 identity, hostNetwork, config, reports>>

(* A failed runtime close poisons and leaves the reset, and its lease, in  *)
(* place for the rest of the process.                                      *)
ResetClosedRuntime(r) ==
  /\ At("reset", r, "closing")
  /\ stage[resetRuntime] = "closed"
  /\ RecordCleanupFailure(r, closeErr[resetRuntime])
  /\ IF closeErr[resetRuntime]
       THEN Goto("reset", r, "stuck") /\ UNCHANGED resetRuntime
       ELSE Goto("reset", r, "marker") /\ resetRuntime' = None
  /\ UNCHANGED <<slots, logout, reset, logoutErr, revoked, hidden, preparing,
                 books, resources, identity, hostNetwork, config, reports>>

ResetAcquires(r) ==
  /\ At("reset", r, "acquire")
  /\ \E outcome \in {"held", "failed", "uncertain"} :
       /\ AcquireLease(r, outcome)
       /\ Goto("reset", r, IF outcome = "held" THEN "marker" ELSE "finish")
  /\ UNCHANGED <<slots, exclusive, preparing, books, cleanupFailure, server,
                 disk, closeErr, identity, hostNetwork, config, reports>>

(* The durable marker, then Keybay deletion by the caller, then            *)
(* FinishLocalReset; a failed marker aborts before custody changes.        *)
ResetProceeds(r) ==
  /\ \/ /\ At("reset", r, "marker")
        /\ \E label \in {"ready", "finish"} : Goto("reset", r, label)
     \/ At("reset", r, "ready") /\ Goto("reset", r, "finish")
  /\ UNCHANGED <<slots, exclusive, preparing, books, cleanupFailure,
                 resources, identity, hostNetwork, config, reports>>

(* finishLocalResetOperation: descriptors and lease, poison, then the slot *)
ResetReleases(r) ==
  /\ At("reset", r, "finish")
  /\ \E leaseFailed, filesFailed \in BOOLEAN :
       /\ ReleaseLease(r, leaseFailed)
       /\ RecordCleanupFailure(r, leaseFailed \/ filesFailed)
  /\ Goto("reset", r, "clear")
  /\ UNCHANGED <<slots, exclusive, preparing, books, server, disk, closeErr,
                 identity, hostNetwork, config, reports>>

ResetClears(r) ==
  /\ At("reset", r, "clear")
  /\ reset' = IF reset = r THEN None ELSE reset
  /\ Goto("reset", r, "done")
  /\ UNCHANGED <<slots, logout, resetRuntime, logoutErr, revoked, hidden,
                 preparing, books, cleanupFailure, resources, identity,
                 hostNetwork, config, reports>>

ResetStep(r) ==
  \/ ResetClosedRuntime(r) \/ ResetAcquires(r) \/ ResetProceeds(r)
  \/ ResetReleases(r) \/ ResetClears(r)

-----------------------------------------------------------------------------
Init ==
  /\ epoch = 0
  /\ candidate = None /\ current = None
  /\ draining = None /\ drainReceipt = FALSE
  /\ logout = None /\ reset = None /\ resetRuntime = None
  /\ prep = None /\ prepPhase = "none"
  /\ startCalls = {} /\ abandonedTokens = {} /\ completedPreparations = {}
  /\ completedLifecycle = [t \in Tokens |-> "none"]
  /\ cleanupFailure = None
  /\ lease = None /\ leasePoisoned = FALSE
  /\ generation = [t \in Tokens |-> 0]
  /\ abandoned = [t \in Tokens |-> FALSE]
  /\ server = [t \in Tokens |-> "none"]
  /\ disk = [t \in Tokens |-> "none"]
  /\ stage = [t \in Tokens |-> "open"]
  /\ closeErr = [t \in Tokens |-> FALSE]
  /\ logoutErr = [t \in Tokens |-> FALSE] /\ revoked = FALSE
  /\ hostNetworkMu = None /\ refreshing = None /\ netmon = None
  /\ proven = None /\ launched = None
  /\ pc = [p \in Ops \X Tokens |-> "idle"]
  /\ published = {} /\ hidden = {}
  /\ quarantined = {} /\ cleanReports = {}

(* Calls the environment may or may not make.                              *)
Call(t) ==
  \/ CallStart(t) \/ LoseStart(t) \/ CallDown(t) \/ CallAbandon(t)
  \/ CallAwait(t) \/ CallLogout(t) \/ BeginPersistentPreparation(t)
  \/ BeginLocalReset(t) \/ FailPublication(t)
  \/ AcknowledgeLifecycleResult(t) \/ RetireAbandonedRuntimeToken(t)
  \/ CustodyStep(t)

(* Steps of calls that have been made.                                     *)
Run(t) ==
  \/ CloseStep(t) \/ StartStep(t) \/ CloseRuntimeStep("down", t)
  \/ AbandonStep(t) \/ AwaitStep(t) \/ LogoutStep(t) \/ PublicationStep(t)
  \/ PreparationStep(t) \/ ResetStep(t)

Next == \E t \in Tokens : Call(t) \/ Run(t)

Spec == Init /\ [][Next]_vars

(***************************************************************************)
(* Goroutines and isolates that have entered a call keep being scheduled,  *)
(* and the upstream calls they block in return.  Nothing obliges a caller  *)
(* to make a call or the Dart side to settle custody.                      *)
(***************************************************************************)
Fairness ==
  \A t \in Tokens :
    /\ WF_vars(CloseStep(t)) /\ WF_vars(StartStep(t))
    /\ WF_vars(CloseRuntimeStep("down", t))
    /\ WF_vars(AbandonStep(t)) /\ WF_vars(AwaitStep(t))
    /\ WF_vars(LogoutStep(t)) /\ WF_vars(PublicationStep(t))
    /\ WF_vars(PreparationStep(t)) /\ WF_vars(ResetStep(t))

FairSpec == Spec /\ Fairness

-----------------------------------------------------------------------------
Labels == {"idle", "probe", "reprobe", "refresh", "confirm", "admit", "setup",
           "hostnet", "launch", "starting", "started", "unwind", "return",
           "done", "loop", "waitLogout", "waitCandidate", "waitDrain",
           "waitPrep", "waitStart", "pending", "closing", "closeReturned", "closeFailed",
           "checkSettled", "finishPrep", "untomb", "check", "capture",
           "reopen", "abort", "aborting", "begin", "revoke", "refused",
           "begun", "ready", "probed", "finished", "acquire", "marker", "finish",
           "clear", "stuck"}

Receipts == {"none", "down", "downFailed", "logout", "logoutFailed",
             "logoutIndeterminate"}

Phases == {"none", "acquiring", "settled", "custody", "completed",
           "finishing", "cleaned", "stuck"}

Servers == {"none", "starting", "live", "unwound", "closed", "unknown"}

(* Every controller field holds a value of its kind.                       *)
TypeOK ==
  /\ epoch \in Nat
  /\ candidate \in MaybeToken /\ current \in MaybeToken
  /\ draining \in MaybeToken /\ drainReceipt \in BOOLEAN
  /\ logout \in MaybeToken /\ reset \in MaybeToken
  /\ resetRuntime \in MaybeToken
  /\ prep \in MaybeToken /\ prepPhase \in Phases
  /\ startCalls \subseteq Tokens /\ abandonedTokens \subseteq Tokens
  /\ completedPreparations \subseteq Tokens
  /\ completedLifecycle \in [Tokens -> Receipts]
  /\ cleanupFailure \in MaybeToken
  /\ lease \in MaybeToken /\ leasePoisoned \in BOOLEAN
  /\ generation \in [Tokens -> Nat] /\ abandoned \in [Tokens -> BOOLEAN]
  /\ server \in [Tokens -> Servers]
  /\ disk \in [Tokens -> {"none", "store", "scratch", "unknown"}]
  /\ stage \in [Tokens -> {"open", "server", "store", "lease", "scratch",
                           "closed"}]
  /\ closeErr \in [Tokens -> BOOLEAN]
  /\ logoutErr \in [Tokens -> BOOLEAN] /\ revoked \in BOOLEAN
  /\ hostNetworkMu \in MaybeToken /\ refreshing \in MaybeToken
  /\ netmon \in MaybeToken
  /\ proven \in MaybeToken /\ launched \in MaybeToken
  /\ pc \in [Ops \X Tokens -> Labels]
  /\ published \subseteq Tokens /\ hidden \subseteq Tokens
  /\ quarantined \subseteq Tokens
  /\ cleanReports \subseteq Ops \X Tokens

Running(t) == server[t] \in {"starting", "live", "unknown"}

(* At most one tsnet.Server may be running in the process at any moment,   *)
(* counting one whose close failed: a replacement generation starts only   *)
(* after the previous one is known to be down.                             *)
SingleServer ==
  \A s, t \in Tokens : Running(s) /\ Running(t) => s = t

Up == {t \in Tokens : server[t] \in {"starting", "live"}}
Lost == {t \in Tokens : server[t] = "unknown"}
Poisoned == cleanupFailure # None

(* The controller, with every call that may be in flight, implements the   *)
(* host of one node: Servers follow each other only through a moment when  *)
(* none runs and none was lost, and poison, once recorded, is for ever.    *)
Host == INSTANCE NodeHost WITH up <- Up, lost <- Lost, poisoned <- Poisoned
HostsOneNode == Host!Spec

(* At most one lifecycle owner at a time: a candidate, the current         *)
(* runtime, a drain, a preparation and a local reset exclude each other,   *)
(* although each is admitted under its own check.                          *)
SlotsExclusive ==
  /\ candidate # None => current = None /\ draining = None
  /\ current # None => draining = None
  /\ prep # None \/ reset # None =>
       candidate = None /\ current = None /\ draining = None
  /\ prep = None \/ reset = None

(* Once AbandonRuntime has returned for a token, that token is never       *)
(* published: a late Server.Start cannot commit past its quarantine.       *)
NoLateCommit ==
  \A t \in quarantined : current # t

(* The state-root lease outlives the Server that writes below the root,    *)
(* through start, drain, and a reset that took both over.                  *)
LeaseCoversServer ==
  \A t \in Tokens : server[t] \in {"starting", "live"} =>
    lease = t \/ (resetRuntime = t /\ reset # None /\ lease = reset)

(* After any failed cleanup the process admits nothing again: no slot is   *)
(* occupied and no Server starts or runs.                                  *)
PoisonedIsIdle ==
  cleanupFailure # None =>
    /\ candidate = None /\ current = None /\ draining = None
    /\ \A t \in Tokens : server[t] \notin {"starting", "live"}

(* From the durable marker to the deletion of the state directory, a local *)
(* reset holds the root's lease and no Server of any token is running.     *)
ResetOwnsRoot ==
  \A r \in Tokens : pc[<<"reset", r>>] \in {"marker", "ready"} =>
    reset = r /\ lease = r /\ \A t \in Tokens : ~Running(t)

(* The state root has one writer: a Server writes below it only under the  *)
(* lease, and a reset deletes it only when no Server runs.                 *)
RootHasOneWriter == LeaseCoversServer /\ ResetOwnsRoot

(* What a caller may conclude: nothing of t is in a slot, starting, live   *)
(* or leased; and what a failed close may have left behind is poisoned.    *)
Settled(t) ==
  /\ server[t] \notin {"starting", "live"}
  /\ lease # t
  /\ t \notin {candidate, current, draining, resetRuntime, prep}
  /\ closeErr[t] => cleanupFailure # None

Quiet(t) == Settled(t) /\ ~closeErr[t] /\ ~Running(t) /\ disk[t] = "none"

(* Down reports success only for a token whose Server, Store, lease and    *)
(* scratch are gone without error, and which never comes back.             *)
CleanDownIsQuiet ==
  \A t \in Tokens : <<"down", t>> \in cleanReports => Quiet(t)

(* AbandonRuntime answering "nothing pending, no error", and a successful  *)
(* AwaitRuntimeQuiescence, on which the supervisor replaces the worker:    *)
(* the token is settled then and ever after, whatever was in flight.       *)
CleanRescueIsSettled ==
  \A t \in Tokens :
    {<<"abandon", t>>, <<"await", t>>} \cap cleanReports # {} => Settled(t)

(* A logout that reports a confirmed revocation and no cleanup failure     *)
(* left nothing behind.                                                    *)
CleanLogoutIsQuiet ==
  \A t \in Tokens : <<"logout", t>> \in cleanReports => Quiet(t)

(* The documented meaning of a clean answer: it stays true for ever,       *)
(* whatever was in flight when it was given, of a down, of the two calls   *)
(* the supervisor trusts after a rescue, and of a logout.                  *)
CleanAnswersAreTrue ==
  CleanDownIsQuiet /\ CleanRescueIsSettled /\ CleanLogoutIsQuiet

(* What a clean answer is worth in the code, for ever and whatever was in  *)
(* flight.  A down leaves nothing behind.  A rescue leaves nothing behind  *)
(* but a runtime that a local reset has taken, which the reset holds until *)
(* it is closed.  A logout leaves nothing behind that the process is not   *)
(* poisoned for: the publication-failure reaper's own close error never    *)
(* reaches it.                                                             *)
CleanAnswersAreCovered ==
  /\ CleanDownIsQuiet
  /\ \A t \in Tokens :
       {<<"abandon", t>>, <<"await", t>>} \cap cleanReports # {} =>
         Settled(t) \/ (resetRuntime = t /\ reset # None)
  /\ \A t \in Tokens :
       <<"logout", t>> \in cleanReports => Quiet(t) \/ cleanupFailure # None

(* The process-global host-network snapshot is the one given to the        *)
(* runtime that is current: a refresh computed for a detached runtime      *)
(* never overwrites its successor's.                                       *)
HostNetworkBelongsToCurrent ==
  current # None => netmon = current

(* The persisted "proven" configuration is absent or names the last        *)
(* persistent configuration that was handed to Server.Start.               *)
ProvenConfigIsLastLaunched ==
  proven \in {None, launched}

(* Every native call returns: joins on candidate, drain, logout, start and *)
(* preparation channels cannot wait on each other in a circle.             *)
CallsReturn(t) ==
  /\ \A op \in {"down", "abandon", "await"} :
       At(op, t, "loop") ~> pc[<<op, t>>] \in {"idle", "pending"}
  /\ At("start", t, "probe") ~> At("start", t, "done")
  /\ At("logout", t, "check") ~> At("logout", t, "done")

(* A quarantined token eventually owns no slot and no running call.        *)
QuarantineSettles(t) ==
  t \in quarantined ~> t \notin {candidate, current, draining} \cup startCalls

-----------------------------------------------------------------------------
(* The control points of a start that owns the candidate slot.             *)
CandidateLabels == {"setup", "hostnet", "launch", "starting", "started",
                    "unwind"}

(* Where a reset owns the reset slot.                                      *)
ResetLabels == {"closing", "acquire", "marker", "ready", "finish", "clear",
                "stuck"}

(* Where the runtime a reset took over, if any, has been closed.           *)
ResetAloneLabels == {"acquire", "marker", "ready", "finish", "clear"}

(* A start of t owns the candidate slot exactly between its admission and  *)
(* its commit or release, and begins to close only by unwinding.           *)
StartOwnsCandidate(t) ==
  /\ candidate = t <=> pc[<<"start", t>>] \in CandidateLabels
  /\ candidate = t => (stage[t] = "open" <=> pc[<<"start", t>>] # "unwind")
  /\ current = t => pc[<<"start", t>>] \in {"return", "done"}
  /\ stage[t] # "open" => pc[<<"start", t>>] \in {"unwind", "return", "done"}
  /\ server[t] = "starting" => pc[<<"start", t>>] = "starting"
  /\ pc[<<"start", t>>] = "started" => server[t] = "live"

(* How far the close of t has come against the state of its Server.        *)
CloseOrder(t) ==
  /\ current = t => stage[t] = "open" /\ server[t] = "live"
  /\ t \in {draining, resetRuntime} => stage[t] # "open"
  /\ stage[t] \notin {"open", "closed"} =>
       t \in {candidate, draining, resetRuntime}
  /\ prep = t => stage[t] = "open"
  /\ stage[t] \notin {"open", "server"} => server[t] \notin {"starting", "live"}
  /\ server[t] = "unknown" => closeErr[t]
  /\ closeErr[t] /\ stage[t] = "open" =>
       \/ cleanupFailure # None
       \/ prep = t /\ prepPhase \in {"finishing", "cleaned"}

(* A running Server belongs to a slot; a failed close is still owned by    *)
(* the slot that will report it, or the process is poisoned already.       *)
FailureAccounted(t) ==
  /\ server[t] \in {"starting", "live"} =>
       t \in {candidate, current, draining, resetRuntime}
  /\ closeErr[t] => \/ t \in {candidate, draining, resetRuntime}
                    \/ prep = t /\ prepPhase # "cleaned"
                    \/ cleanupFailure # None
  /\ pc[<<"logout", t>>] = "waitDrain" => draining = t \/ stage[t] = "closed"
  /\ pc[<<"logout", t>>] = "waitDrain" =>
       t \notin {candidate, current, resetRuntime}
  /\ pc[<<"logout", t>>] = "closeFailed" => cleanupFailure # None
  /\ pc[<<"logout", t>>] # "waitLogout"

ResetOwnsSlot(t) ==
  /\ pc[<<"reset", t>>] \in ResetLabels => reset = t
  /\ pc[<<"reset", t>>] \in ResetAloneLabels => resetRuntime = None
  /\ pc[<<"reset", t>>] = "closing" => resetRuntime # None

PoisonEmptiesSlots ==
  cleanupFailure # None =>
    candidate = None /\ current = None /\ draining = None

ResetHoldsRuntime ==
  resetRuntime # None =>
    /\ reset # None
    /\ cleanupFailure # None => stage[resetRuntime] = "closed"

Accounted(t) ==
  /\ StartOwnsCandidate(t) /\ CloseOrder(t)
  /\ FailureAccounted(t) /\ ResetOwnsSlot(t)

(* The inductive strengthening of SingleServer and PoisonedIsIdle: which   *)
(* slot accounts for a running Server, and that no failed close is lost.   *)
ServerAccounted ==
  /\ SlotsExclusive /\ SingleServer
  /\ PoisonEmptiesSlots /\ ResetHoldsRuntime
  /\ \A t \in Tokens : Accounted(t)

=============================================================================
