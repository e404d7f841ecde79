----------------------------- MODULE RuntimeWatch -----------------------------
(***************************************************************************)
(* The state watcher of one runtime and its first-Up bootstrap gate        *)
(* (go/push.go, go/publication_bootstrap.go).                              *)
(*                                                                         *)
(* A watcher goroutine reads the IPN bus, publishes states, the identity   *)
(* index and, through a debounce timer, peer snapshots.  Its first Running *)
(* notification starts the one Server.Up worker; Running stays hidden from *)
(* Dart until that worker has succeeded under the watcher's lock.  A       *)
(* failure before readiness is reaped by a goroutine of its own, which     *)
(* races an explicit down for the teardown of the runtime.                 *)
(*                                                                         *)
(* Every action is one critical section of watchMu, of the bootstrap's     *)
(* mutex or of the controller's, or one blocking call that returns.        *)
(***************************************************************************)
EXTENDS Integers, Sequences, FiniteSets

CONSTANTS
  Runs,            \* calls of StartWatch, each with the watcherRun it creates
  Waiters,         \* data-plane calls that join the bootstrap
  MaxChanges,      \* bound on notifications the backend emits
  MaxCallbacks,    \* bound on debounce callbacks that run at the same time
  WatcherFaults,   \* TRUE: the IPN bus may break while the runtime is live
  None

ASSUME WatchAssumption ==
  /\ None \notin Runs
  /\ MaxChanges \in Nat /\ MaxCallbacks \in Nat \ {0}
  /\ WatcherFaults \in BOOLEAN

VARIABLES
  backend,     \* ipn state of the node
  netmap,      \* version of the node's netmap
  changes,     \* notifications emitted so far
  bus,         \* notifications a subscribed run has not read
  owner,       \* who detached the runtime: nobody, down, reaper, quarantine
  ctxDone,     \* runtime.ctx was cancelled
  stage,       \* progress of closeOwnedResources and of the drain
  closeJoin,   \* the run stopWatch joins during the close
  watch,       \* runtime.watch
  identity,    \* the run whose netmap the identity index mirrors
  call,        \* control point of a StartWatch call
  joining,     \* the run a StartWatch call waits for
  loop,        \* control point of a watcher goroutine
  notice,      \* the notification a watcher goroutine is handling
  cancelled,   \* run.cancel was called
  done,        \* run.done is closed
  timer,       \* run.timer: none, armed, spent (fired, Stop returns false)
  callbacks,   \* debounce callbacks that have started
  wg,          \* run.publishWG
  phase,       \* publicationBootstrapPhase
  latestState,
  resultErr,   \* bootstrap.resultErr
  resultClosed, \* bootstrap.result is closed
  worker,      \* control point of the Server.Up worker
  workerRun,   \* the run that started it
  ups,         \* Server.Up calls so far
  reaper,      \* control point of reapPublicationBootstrapFailure
  dartState,   \* last status message posted to Dart
  dartPeers,   \* netmap version of the last peers message posted to Dart
  answer       \* control point and result of a data-plane call

node == <<backend, netmap, changes>>
teardown == <<owner, ctxDone, stage, closeJoin>>
callsOf == <<call, joining>>
run == <<loop, notice, cancelled, done>>
debounce == <<timer, callbacks, wg>>
gate == <<phase, latestState, resultErr, resultClosed>>
upWorker == <<worker, workerRun, ups>>
dart == <<dartState, dartPeers>>
vars == <<node, bus, teardown, watch, identity, callsOf, run, debounce, gate,
          upWorker, reaper, dart, answer>>

States == {"Starting", "NeedsLogin", "Running"}

(* nodeEpoch still equals the runtime's generation: detaching bumps it.    *)
Current == owner = None
(* run.ctx is a child of runtime.ctx.                                      *)
CtxDone(r) == cancelled[r] \/ ctxDone
(* watcherRunCurrentLocked.                                                *)
WatcherRunCurrent(r) == watch = r /\ ~CtxDone(r) /\ Current
(* nodeRuntime.validateCurrent.                                            *)
ValidateCurrent == ~ctxDone /\ Current

Idle == [at |-> "idle", version |-> 0]
Slots == 1..MaxCallbacks

Init ==
  /\ backend \in {"Starting", "Running"} /\ netmap = 1 /\ changes = 0
  /\ bus = [r \in Runs |-> <<>>]
  /\ owner = None /\ ctxDone = FALSE /\ stage = "open" /\ closeJoin = None
  /\ watch = None /\ identity = None
  /\ call = [r \in Runs |-> "idle"] /\ joining = [r \in Runs |-> None]
  /\ loop = [r \in Runs |-> "none"]
  /\ notice = [r \in Runs |-> [state |-> None, netmap |-> 0]]
  /\ cancelled = [r \in Runs |-> FALSE] /\ done = [r \in Runs |-> FALSE]
  /\ timer = [r \in Runs |-> "none"]
  /\ callbacks = [r \in Runs |-> [i \in Slots |-> Idle]]
  /\ wg = [r \in Runs |-> 0]
  /\ phase = "PreRunning" /\ latestState = "Starting"
  /\ resultErr = "none" /\ resultClosed = FALSE
  /\ worker = "none" /\ workerRun = None /\ ups = 0
  /\ reaper = "none"
  /\ dartState = None /\ dartPeers = 0
  /\ answer = [w \in Waiters |-> "idle"]

-----------------------------------------------------------------------------
(* The node behind the LocalAPI: its state and netmap change and every     *)
(* subscribed watcher is told.                                             *)

Subscribed(r) == call[r] = "register" \/ loop[r] \notin {"none", "done"}

Notify(n) ==
  /\ changes < MaxChanges /\ changes' = changes + 1
  /\ bus' = [r \in Runs |-> IF Subscribed(r) THEN Append(bus[r], n) ELSE bus[r]]
  /\ UNCHANGED <<teardown, watch, identity, callsOf, run, debounce, gate,
                 upWorker, reaper, dart, answer>>

BackendState ==
  \E s \in States \ {backend} :
    /\ backend' = s /\ UNCHANGED netmap
    /\ Notify([state |-> s, netmap |-> 0])

BackendNetMap ==
  /\ netmap' = netmap + 1 /\ UNCHANGED backend
  /\ Notify([state |-> None, netmap |-> netmap + 1])

-----------------------------------------------------------------------------
\* A variant: the count is given back although the callback has started.
StopTimerAlways(t, w, r) ==
  IF r = None \/ (r # None /\ t[r] = "none")
  THEN <<t, w>>
  ELSE <<[t EXCEPT ![r] = "none"],
         [w EXCEPT ![r] = @ - 1]>>

(* stopWatcherTimerLocked: only a Stop that proves the callback never      *)
(* started gives its count back.                                           *)
StopTimer(t, w, r) ==
  IF r = None \/ (r # None /\ t[r] = "none")
  THEN <<t, w>>
  ELSE <<[t EXCEPT ![r] = "none"],
         [w EXCEPT ![r] = IF t[r] = "armed" THEN @ - 1 ELSE @]>>

Cancel(r) ==
  cancelled' = IF r = None THEN cancelled ELSE [cancelled EXCEPT ![r] = TRUE]

StopRunTimer(r) ==
  LET stopped == StopTimer(timer, wg, r)
  IN  /\ timer' = stopped[1] /\ wg' = stopped[2]
      /\ UNCHANGED callbacks

(* The locked half of stopWatch: ownership, timer and index go together.   *)
StopWatch(joined) ==
  /\ joined = watch
  /\ watch' = None
  /\ Cancel(joined) /\ StopRunTimer(joined)
  /\ identity' = None

(* What stopWatch and StartWatch wait for after the locked half.           *)
Joined(r) == r = None \/ (r # None /\ done[r] /\ wg[r] = 0)

(* beginBootstrapFailure through failPublicationBootstrap: the first       *)
(* failure before readiness claims the reaper.                             *)
FailBootstrap ==
  \/ /\ phase \in {"PreRunning", "Running"}
     /\ phase' = "Failing" /\ resultErr' = "failure" /\ reaper' = "detach"
     /\ UNCHANGED <<latestState, resultClosed>>
  \/ /\ phase \notin {"PreRunning", "Running"}
     /\ UNCHANGED <<gate, reaper>>

-----------------------------------------------------------------------------
(* StartWatch, run by the worker isolate after DuneStart.                  *)

CallTo(r, label) == call' = [call EXCEPT ![r] = label]

StartWatch(r) ==
  /\ call[r] = "idle"
  /\ CallTo(r, IF Current THEN "stopOld" ELSE "returned")
  /\ UNCHANGED <<node, bus, teardown, watch, identity, joining, run, debounce,
                 gate, upWorker, reaper, dart, answer>>

StartWatchStops(r) ==
  /\ call[r] = "stopOld"
  /\ StopWatch(watch)
  /\ joining' = [joining EXCEPT ![r] = watch]
  /\ CallTo(r, "joinOld")
  /\ UNCHANGED <<node, bus, teardown, loop, notice, done, gate, upWorker,
                 reaper, dart, answer>>

StartWatchJoined(r) ==
  /\ call[r] = "joinOld" /\ Joined(joining[r])
  /\ joining' = [joining EXCEPT ![r] = None]
  /\ CallTo(r, "subscribe")
  /\ UNCHANGED <<node, bus, teardown, watch, identity, run, debounce, gate,
                 upWorker, reaper, dart, answer>>

(* WatchIPNBus answers with the initial state and netmap, or fails.        *)
WatchIPNBus(r) ==
  /\ call[r] = "subscribe"
  /\ \/ /\ bus' = [bus EXCEPT ![r] = <<[state |-> backend, netmap |-> netmap]>>]
        /\ CallTo(r, "register")
        /\ UNCHANGED <<gate, reaper>>
     \/ /\ ctxDone \/ WatcherFaults
        /\ FailBootstrap
        /\ CallTo(r, "returned")
        /\ UNCHANGED bus
  /\ UNCHANGED <<node, teardown, watch, identity, joining, run, debounce,
                 upWorker, dart, answer>>

\* A variant: no recheck after the subscription.
RegisterWatchUnchecked(r) ==
  /\ call[r] = "register"
  /\ \/ /\ FALSE
        /\ CallTo(r, "returned")
        /\ bus' = [bus EXCEPT ![r] = <<>>]
        /\ UNCHANGED <<watch, identity, joining, cancelled, debounce, loop>>
     \/ /\ TRUE
        /\ watch' = r
        /\ Cancel(watch) /\ StopRunTimer(watch)
        /\ identity' = None
        /\ loop' = [loop EXCEPT ![r] = "next"]
        /\ joining' = [joining EXCEPT ![r] = watch]
        /\ CallTo(r, "joinPrevious")
        /\ UNCHANGED bus
  /\ UNCHANGED <<node, teardown, notice, done, gate, upWorker, reaper, dart,
                 answer>>

(* The run takes the slot under watchMu unless the runtime was detached; a *)
(* run found there is displaced and joined.                                *)
RegisterWatch(r) ==
  /\ call[r] = "register"
  /\ \/ /\ ~ValidateCurrent
        /\ CallTo(r, "returned")
        /\ bus' = [bus EXCEPT ![r] = <<>>]
        /\ UNCHANGED <<watch, identity, joining, cancelled, debounce, loop>>
     \/ /\ ValidateCurrent
        /\ watch' = r
        /\ Cancel(watch) /\ StopRunTimer(watch)
        /\ identity' = None
        /\ loop' = [loop EXCEPT ![r] = "next"]
        /\ joining' = [joining EXCEPT ![r] = watch]
        /\ CallTo(r, "joinPrevious")
        /\ UNCHANGED bus
  /\ UNCHANGED <<node, teardown, notice, done, gate, upWorker, reaper, dart,
                 answer>>

\* A run that was displaced in between is joined too.
StartWatchReturns(r) ==
  /\ call[r] = "joinPrevious" /\ Joined(joining[r])
  /\ joining' = [joining EXCEPT ![r] = None]
  /\ CallTo(r, "returned")
  /\ UNCHANGED <<node, bus, teardown, watch, identity, run, debounce, gate,
                 upWorker, reaper, dart, answer>>

-----------------------------------------------------------------------------
(* The watcher goroutine.                                                  *)

LoopTo(r, label) == loop' = [loop EXCEPT ![r] = label]

(* watcher.Next delivers a notification; its state is handled before its   *)
(* netmap.                                                                 *)
NextNotice(r) ==
  /\ loop[r] = "next" /\ bus[r] # <<>>
  /\ notice' = [notice EXCEPT ![r] = Head(bus[r])]
  /\ bus' = [bus EXCEPT ![r] = Tail(@)]
  /\ LoopTo(r, IF Head(bus[r]).state # None THEN "observe" ELSE "index")
  /\ UNCHANGED <<node, teardown, watch, identity, callsOf, cancelled, done,
                 debounce, gate, upWorker, reaper, dart, answer>>

\* A variant: the loop goes on after an error.
NextFailsRetries(r) ==
  /\ loop[r] = "next" /\ (CtxDone(r) \/ WatcherFaults)
  /\ LET current == WatcherRunCurrent(r)
         preReady == current /\ phase # "Ready"
     IN  /\ identity' = IF current THEN None ELSE identity
         /\ cancelled' = [cancelled EXCEPT ![r] = @ \/ preReady]
         /\ LoopTo(r, IF preReady THEN "failBootstrap" ELSE "next")
  /\ UNCHANGED <<node, bus, teardown, watch, callsOf, notice, done, debounce,
                 gate, upWorker, reaper, dart, answer>>

(* watcher.Next fails: the run was cancelled or the bus broke.  A current  *)
(* run drops the index; before readiness it also gives up its ownership,   *)
(* so that an Up that succeeds meanwhile cannot release the gate.          *)
NextFails(r) ==
  /\ loop[r] = "next" /\ (CtxDone(r) \/ WatcherFaults)
  /\ LET current == WatcherRunCurrent(r)
         preReady == current /\ phase # "Ready"
     IN  /\ identity' = IF current THEN None ELSE identity
         /\ cancelled' = [cancelled EXCEPT ![r] = @ \/ preReady]
         /\ LoopTo(r, IF preReady THEN "failBootstrap" ELSE "finish")
  /\ UNCHANGED <<node, bus, teardown, watch, callsOf, notice, done, debounce,
                 gate, upWorker, reaper, dart, answer>>

NextFailsBootstrap(r) ==
  /\ loop[r] = "failBootstrap"
  /\ FailBootstrap
  /\ LoopTo(r, "finish")
  /\ UNCHANGED <<node, bus, teardown, watch, identity, callsOf, notice,
                 cancelled, done, debounce, upWorker, dart, answer>>

\* A variant: later Running states are not suppressed.
ObserveStateUnmasked(r) ==
  /\ loop[r] = "observe"
  /\ LET state == notice[r].state
     IN  /\ latestState' = state
         /\ \/ /\ state = "Running" /\ phase = "PreRunning"
               /\ phase' = "Running"
               /\ worker' = "created" /\ workerRun' = r
               /\ LoopTo(r, "announce")
            \/ /\ state = "Running" /\ phase \notin {"PreRunning", "Ready"}
               /\ LoopTo(r, "postState")
               /\ UNCHANGED <<phase, worker, workerRun>>
            \/ /\ state # "Running" \/ phase = "Ready"
               /\ LoopTo(r, "postState")
               /\ UNCHANGED <<phase, worker, workerRun>>
  /\ UNCHANGED <<node, bus, teardown, watch, identity, callsOf, notice,
                 cancelled, done, debounce, resultErr, resultClosed, ups,
                 reaper, dart, answer>>

(* observeState: the first Running takes the phase to Running and leaves a *)
(* worker to start; later ones are suppressed until the gate is open.      *)
ObserveState(r) ==
  /\ loop[r] = "observe"
  /\ LET state == notice[r].state
     IN  /\ latestState' = state
         /\ \/ /\ state = "Running" /\ phase = "PreRunning"
               /\ phase' = "Running"
               /\ worker' = "created" /\ workerRun' = r
               /\ LoopTo(r, "announce")
            \/ /\ state = "Running" /\ phase \notin {"PreRunning", "Ready"}
               /\ LoopTo(r, "index")
               /\ UNCHANGED <<phase, worker, workerRun>>
            \/ /\ state # "Running" \/ phase = "Ready"
               /\ LoopTo(r, "postState")
               /\ UNCHANGED <<phase, worker, workerRun>>
  /\ UNCHANGED <<node, bus, teardown, watch, identity, callsOf, notice,
                 cancelled, done, debounce, resultErr, resultClosed, ups,
                 reaper, dart, answer>>

(* postWatcherMessage for a status: the owner check and the post share     *)
(* watchMu.                                                                *)
PostStatus(r, state) ==
  dartState' = IF WatcherRunCurrent(r) THEN state ELSE dartState

(* handleWatcherState masks the first Running as Starting and only then    *)
(* starts the worker.                                                      *)
AnnounceStarting(r) ==
  /\ loop[r] = "announce"
  /\ PostStatus(r, "Starting")
  /\ worker' = "up" /\ ups' = ups + 1
  /\ LoopTo(r, "index")
  /\ UNCHANGED <<node, bus, teardown, watch, identity, callsOf, notice,
                 cancelled, done, debounce, gate, workerRun, reaper,
                 dartPeers, answer>>

PostState(r) ==
  /\ loop[r] = "postState"
  /\ PostStatus(r, notice[r].state)
  /\ LoopTo(r, "index")
  /\ UNCHANGED <<node, bus, teardown, watch, identity, callsOf, notice,
                 cancelled, done, debounce, gate, upWorker, reaper,
                 dartPeers, answer>>

(* A netmap replaces the identity index at once if the run still owns the  *)
(* slot.                                                                   *)
CommitIndex(r) ==
  /\ loop[r] = "index"
  /\ LET carries == notice[r].netmap # 0
     IN  /\ identity' = IF carries /\ WatcherRunCurrent(r) THEN r ELSE identity
         /\ LoopTo(r, IF carries THEN "schedule" ELSE "next")
  /\ notice' = [notice EXCEPT ![r] = [state |-> None, netmap |-> 0]]
  /\ UNCHANGED <<node, bus, teardown, watch, callsOf, cancelled, done,
                 debounce, gate, upWorker, reaper, dart, answer>>

(* schedulePeerPublish: the pending timer is replaced.                     *)
SchedulePeerPublish(r) ==
  /\ loop[r] = "schedule"
  /\ LET stopped == StopTimer(timer, wg, r)
     IN  IF WatcherRunCurrent(r)
         THEN /\ timer' = [stopped[1] EXCEPT ![r] = "armed"]
              /\ wg' = [stopped[2] EXCEPT ![r] = @ + 1]
         ELSE UNCHANGED <<timer, wg>>
  /\ LoopTo(r, "next")
  /\ UNCHANGED <<node, bus, teardown, watch, identity, callsOf, notice,
                 cancelled, done, callbacks, gate, upWorker, reaper, dart,
                 answer>>

(* finishWatcherRun: cancel, drop timer and index, drain the callbacks,    *)
(* then leave the slot and close done.                                     *)
FinishCancels(r) ==
  /\ loop[r] = "finish"
  /\ cancelled' = [cancelled EXCEPT ![r] = TRUE]
  /\ LoopTo(r, "release")
  /\ UNCHANGED <<node, bus, teardown, watch, identity, callsOf, notice, done,
                 debounce, gate, upWorker, reaper, dart, answer>>

FinishReleases(r) ==
  /\ loop[r] = "release"
  /\ \/ /\ watch = r
        /\ StopRunTimer(r) /\ identity' = None
     \/ /\ watch # r
        /\ UNCHANGED <<debounce, identity>>
  /\ LoopTo(r, "drain")
  /\ UNCHANGED <<node, bus, teardown, watch, callsOf, notice, cancelled, done,
                 gate, upWorker, reaper, dart, answer>>

FinishWatcherRun(r) ==
  /\ loop[r] = "drain" /\ wg[r] = 0
  /\ watch' = IF watch = r THEN None ELSE watch
  /\ done' = [done EXCEPT ![r] = TRUE]
  /\ bus' = [bus EXCEPT ![r] = <<>>]
  /\ LoopTo(r, "done")
  /\ UNCHANGED <<node, teardown, identity, callsOf, notice, cancelled,
                 debounce, gate, upWorker, reaper, dart, answer>>

-----------------------------------------------------------------------------
(* The debounce callback: publishPeerSnapshot.                             *)

TimerFires(r) ==
  /\ timer[r] = "armed"
  /\ \E i \in Slots :
       /\ callbacks[r][i] = Idle
       /\ callbacks' = [callbacks EXCEPT ![r][i] = [at |-> "fetch", version |-> 0]]
  /\ timer' = [timer EXCEPT ![r] = "spent"]
  /\ UNCHANGED <<node, bus, teardown, watch, identity, callsOf, run, wg, gate,
                 upWorker, reaper, dart, answer>>

(* lc.Status returns the peers of the moment, or fails once the run's      *)
(* context is done.                                                        *)
FetchPeers(r) ==
  /\ \E i \in Slots :
       /\ callbacks[r][i].at = "fetch"
       /\ \/ /\ callbacks' = [callbacks EXCEPT
                   ![r][i] = [at |-> "post", version |-> netmap]]
             /\ UNCHANGED wg
          \/ /\ CtxDone(r)
             /\ callbacks' = [callbacks EXCEPT ![r][i] = Idle]
             /\ wg' = [wg EXCEPT ![r] = @ - 1]
  /\ UNCHANGED <<node, bus, teardown, watch, identity, callsOf, run, timer,
                 gate, upWorker, reaper, dart, answer>>

\* A variant: the post is not guarded by ownership.
PostPeersUnchecked(r) ==
  /\ \E i \in Slots :
       /\ callbacks[r][i].at = "post"
       /\ dartPeers' = callbacks[r][i].version
       /\ callbacks' = [callbacks EXCEPT ![r][i] = Idle]
       /\ wg' = [wg EXCEPT ![r] = @ - 1]
  /\ UNCHANGED <<node, bus, teardown, watch, identity, callsOf, run, timer,
                 gate, upWorker, reaper, dartState, answer>>

PostPeers(r) ==
  /\ \E i \in Slots :
       /\ callbacks[r][i].at = "post"
       /\ dartPeers' = IF WatcherRunCurrent(r) THEN callbacks[r][i].version
                       ELSE dartPeers
       /\ callbacks' = [callbacks EXCEPT ![r][i] = Idle]
       /\ wg' = [wg EXCEPT ![r] = @ - 1]
  /\ UNCHANGED <<node, bus, teardown, watch, identity, callsOf, run, timer,
                 gate, upWorker, reaper, dartState, answer>>

-----------------------------------------------------------------------------
(* The Server.Up worker: runPublicationBootstrap.                          *)

UpReturns ==
  /\ worker = "up"
  /\ worker' \in {"succeeded", "failed"}
  /\ UNCHANGED <<node, bus, teardown, watch, identity, callsOf, run, debounce,
                 gate, workerRun, ups, reaper, dart, answer>>

(* publishBootstrapSuccess: owner check, synthetic Running and gate under  *)
(* watchMu and the bootstrap's mutex.  A newer state is not overwritten.   *)
PublishBootstrapSuccess ==
  /\ worker = "succeeded"
  /\ \/ /\ WatcherRunCurrent(workerRun) /\ phase = "Running"
        /\ dartState' = IF latestState = "Running" THEN "Running" ELSE dartState
        /\ phase' = "Ready" /\ resultErr' = "none" /\ resultClosed' = TRUE
        /\ worker' = "done"
     \/ /\ ~(WatcherRunCurrent(workerRun) /\ phase = "Running")
        /\ worker' = "failed"
        /\ UNCHANGED <<dartState, phase, resultErr, resultClosed>>
  /\ UNCHANGED <<node, bus, teardown, watch, identity, callsOf, run, debounce,
                 latestState, workerRun, ups, reaper, dartPeers, answer>>

UpFails ==
  /\ worker = "failed"
  /\ FailBootstrap
  /\ worker' = "done"
  /\ UNCHANGED <<node, bus, teardown, watch, identity, callsOf, run, debounce,
                 workerRun, ups, dart, answer>>

-----------------------------------------------------------------------------
(* Detaching and closing the runtime.                                      *)

(* detachRuntimeLocked under the controller's mutex: the first one wins    *)
(* and the epoch moves on.                                                 *)
Detach(by) ==
  /\ owner = None
  /\ owner' = by /\ stage' = "cancel"
  /\ UNCHANGED <<ctxDone, closeJoin>>

(* An explicit down, or the quarantine of a failed publication, which      *)
(* needs an open gate.                                                     *)
DetachRuntime ==
  /\ \/ Detach("down")
     \/ phase = "Ready" /\ Detach("quarantine")
  /\ UNCHANGED <<node, bus, watch, identity, callsOf, run, debounce, gate,
                 upWorker, reaper, dart, answer>>

(* reapPublicationBootstrapFailure: a lost race leaves the teardown to its *)
(* owner.                                                                  *)
ReaperDetaches ==
  /\ reaper = "detach"
  /\ \/ Detach("reaper") /\ reaper' = "closing"
     \/ owner # None /\ reaper' = "done" /\ UNCHANGED teardown
  /\ UNCHANGED <<node, bus, watch, identity, callsOf, run, debounce, gate,
                 upWorker, dart, answer>>

CloseCancels ==
  /\ stage = "cancel"
  /\ stage' = "stopWatch" /\ ctxDone' = TRUE
  /\ UNCHANGED <<node, bus, owner, closeJoin, watch, identity, callsOf, run,
                 debounce, gate, upWorker, reaper, dart, answer>>

CloseStopsWatch ==
  /\ stage = "stopWatch"
  /\ stage' = "joinWatch" /\ closeJoin' = watch
  /\ StopWatch(watch)
  /\ UNCHANGED <<node, bus, owner, ctxDone, callsOf, loop, notice, done, gate,
                 upWorker, reaper, dart, answer>>

CloseJoinsWatch ==
  /\ stage = "joinWatch" /\ Joined(closeJoin)
  /\ stage' = "shutdown"
  /\ UNCHANGED <<node, bus, owner, ctxDone, closeJoin, watch, identity,
                 callsOf, run, debounce, gate, upWorker, reaper, dart, answer>>

\* A variant: a claimed failure is left to its reaper.
ShutdownBootstrapKeepsFailure ==
  /\ stage = "shutdown"
  /\ stage' = "joinUp"
  /\ \/ /\ owner # "reaper" /\ phase \notin {"Ready", "Failing"}
        /\ phase' = "Closed" /\ resultErr' = "stale" /\ resultClosed' = TRUE
        /\ UNCHANGED latestState
     \/ /\ owner = "reaper" \/ phase \in {"Ready", "Failing"}
        /\ UNCHANGED gate
  /\ UNCHANGED <<node, bus, owner, ctxDone, closeJoin, watch, identity,
                 callsOf, run, debounce, upWorker, reaper, dart, answer>>

(* shutdownBootstrap: only the reaper keeps the typed failure for the      *)
(* waiters.                                                                *)
ShutdownBootstrap ==
  /\ stage = "shutdown"
  /\ stage' = "joinUp"
  /\ \/ /\ owner # "reaper" /\ phase # "Ready"
        /\ phase' = "Closed" /\ resultErr' = "stale" /\ resultClosed' = TRUE
        /\ UNCHANGED latestState
     \/ /\ owner = "reaper" \/ phase = "Ready"
        /\ UNCHANGED gate
  /\ UNCHANGED <<node, bus, owner, ctxDone, closeJoin, watch, identity,
                 callsOf, run, debounce, upWorker, reaper, dart, answer>>

(* The worker is joined before Server.Close.                               *)
CloseServer ==
  /\ stage = "joinUp" /\ worker \in {"none", "done"}
  /\ stage' = "closed"
  /\ UNCHANGED <<node, bus, owner, ctxDone, closeJoin, watch, identity,
                 callsOf, run, debounce, gate, upWorker, reaper, dart, answer>>

(* finishBootstrapFailure of the reaper; the others have nothing to say.   *)
FinishBootstrapFailure ==
  /\ stage = "closed"
  /\ stage' = "terminal"
  /\ \/ /\ owner = "reaper" /\ phase = "Failing"
        /\ phase' = "Failed" /\ resultClosed' = TRUE
        /\ UNCHANGED <<latestState, resultErr>>
     \/ /\ ~(owner = "reaper" /\ phase = "Failing")
        /\ UNCHANGED gate
  /\ UNCHANGED <<node, bus, owner, ctxDone, closeJoin, watch, identity,
                 callsOf, run, debounce, upWorker, reaper, dart, answer>>

(* The terminal event is queued, then finishRuntimeDrain lets a            *)
(* replacement in.                                                         *)
FinishDrain ==
  /\ stage = "terminal"
  /\ stage' = "drained"
  /\ dartState' = "Stopped" /\ dartPeers' = 0
  /\ reaper' = IF owner = "reaper" THEN "done" ELSE reaper
  /\ UNCHANGED <<node, bus, owner, ctxDone, closeJoin, watch, identity,
                 callsOf, run, debounce, gate, upWorker, answer>>

-----------------------------------------------------------------------------
(* Data-plane calls: gateForRuntimeToken, then awaitDataPlaneReady.        *)

AnswerTo(w, label) == answer' = [answer EXCEPT ![w] = label]

WaiterUnchanged ==
  UNCHANGED <<node, bus, teardown, watch, identity, callsOf, run, debounce,
              gate, upWorker, reaper, dart>>

AcquireGate(w) ==
  /\ answer[w] = "idle"
  /\ AnswerTo(w, IF owner = None THEN "await" ELSE "stale")
  /\ WaiterUnchanged

AwaitDataPlaneReady(w) ==
  /\ answer[w] = "await"
  /\ AnswerTo(w, CASE phase = "PreRunning" -> "notReady"
                   [] phase = "Ready" -> "recheck"
                   [] phase = "Failed" -> resultErr
                   [] phase = "Closed" -> "stale"
                   [] OTHER -> "waiting")
  /\ WaiterUnchanged

AwaitResult(w) ==
  /\ answer[w] = "waiting"
  /\ \/ /\ resultClosed
        /\ AnswerTo(w, IF phase = "Ready" THEN "recheck"
                       ELSE IF resultErr # "none" THEN resultErr ELSE "stale")
     \/ AnswerTo(w, "cancelled")
  /\ WaiterUnchanged

(* nodeGate.awaitDataPlaneReady rechecks the generation.                   *)
RecheckGate(w) ==
  /\ answer[w] = "recheck"
  /\ AnswerTo(w, IF ValidateCurrent THEN "ready" ELSE "stale")
  /\ WaiterUnchanged

-----------------------------------------------------------------------------
StartWatchStep(r) ==
  \/ StartWatchStops(r) \/ StartWatchJoined(r) \/ WatchIPNBus(r)
  \/ RegisterWatch(r) \/ StartWatchReturns(r)

LoopStep(r) ==
  \/ NextNotice(r) \/ NextFails(r) \/ NextFailsBootstrap(r) \/ ObserveState(r)
  \/ AnnounceStarting(r) \/ PostState(r) \/ CommitIndex(r)
  \/ SchedulePeerPublish(r) \/ FinishCancels(r) \/ FinishReleases(r)
  \/ FinishWatcherRun(r)

DebounceStep(r) == TimerFires(r) \/ FetchPeers(r) \/ PostPeers(r)

WorkerStep == UpReturns \/ PublishBootstrapSuccess \/ UpFails

CloseStep ==
  \/ CloseCancels \/ CloseStopsWatch \/ CloseJoinsWatch \/ ShutdownBootstrap
  \/ CloseServer \/ FinishBootstrapFailure \/ FinishDrain

WaiterStep(w) == AwaitDataPlaneReady(w) \/ AwaitResult(w) \/ RecheckGate(w)

(* Everything that was asked for is over.                                  *)
Finished ==
  /\ stage = "drained" /\ reaper \in {"none", "done"}
  /\ \A r \in Runs : call[r] \in {"idle", "returned"}
  /\ \A w \in Waiters : answer[w] \notin {"await", "waiting", "recheck"}
  /\ UNCHANGED vars

Next ==
  \/ BackendState \/ BackendNetMap
  \/ \E r \in Runs :
       StartWatch(r) \/ StartWatchStep(r) \/ LoopStep(r) \/ DebounceStep(r)
  \/ WorkerStep \/ DetachRuntime \/ ReaperDetaches \/ CloseStep
  \/ \E w \in Waiters : AcquireGate(w) \/ WaiterStep(w)
  \/ Finished

Spec == Init /\ [][Next]_vars

(* Goroutines and timers run; Server.Up and LocalAPI calls return by their *)
(* deadlines or when the runtime's context is cancelled.                   *)
Fairness ==
  /\ \A r \in Runs :
       /\ WF_vars(StartWatchStep(r)) /\ WF_vars(LoopStep(r))
       /\ WF_vars(DebounceStep(r))
  /\ WF_vars(WorkerStep) /\ WF_vars(ReaperDetaches) /\ WF_vars(CloseStep)
  /\ \A w \in Waiters :
       /\ WF_vars(AwaitDataPlaneReady(w)) /\ WF_vars(RecheckGate(w))
       /\ WF_vars(answer[w] = "waiting" /\ resultClosed /\ AwaitResult(w))

FairSpec == Spec /\ Fairness

-----------------------------------------------------------------------------
(* The variables have their types.                                         *)
TypeOK ==
  /\ backend \in States /\ netmap \in Nat /\ changes \in 0..MaxChanges
  /\ owner \in {None, "down", "reaper", "quarantine"} /\ ctxDone \in BOOLEAN
  /\ stage \in {"open", "cancel", "stopWatch", "joinWatch", "shutdown",
                "joinUp", "closed", "terminal", "drained"}
  /\ watch \in Runs \cup {None} /\ identity \in Runs \cup {None}
  /\ closeJoin \in Runs \cup {None}
  /\ joining \in [Runs -> Runs \cup {None}]
  /\ cancelled \in [Runs -> BOOLEAN] /\ done \in [Runs -> BOOLEAN]
  /\ timer \in [Runs -> {"none", "armed", "spent"}]
  /\ wg \in [Runs -> 0..(MaxCallbacks + 1)]
  /\ phase \in {"PreRunning", "Running", "Ready", "Failing", "Failed", "Closed"}
  /\ latestState \in States /\ resultClosed \in BOOLEAN
  /\ resultErr \in {"none", "failure", "stale"}
  /\ worker \in {"none", "created", "up", "succeeded", "failed", "done"}
  /\ workerRun \in Runs \cup {None}
  /\ reaper \in {"none", "detach", "closing", "done"}
  /\ dartState \in States \cup {None, "Stopped"} /\ dartPeers \in 0..netmap

(* Dart is never told Running before the runtime's one first-Up reset has  *)
(* succeeded, whichever watcher, worker or failure is in flight.           *)
RunningMeansReady == dartState = "Running" => phase = "Ready"

(* When the owning watcher has read everything, Dart shows the state of    *)
(* the node, Running excepted while the reset is still under way: neither  *)
(* the synthetic Running nor a suppressed one leaves an older state on     *)
(* display.                                                                *)
StateIsDelivered ==
  \A r \in Runs :
    /\ WatcherRunCurrent(r) /\ loop[r] = "next" /\ bus[r] = <<>>
    /\ phase = "Ready" \/ (phase # "Failing" /\ backend # "Running")
    => dartState = backend

(* What Dart shows is neither too early nor out of date.                   *)
DartSeesTheNode == RunningMeansReady /\ StateIsDelivered

(* The identity index mirrors the netmap of the run that owns the watch    *)
(* slot: a stopped, displaced or dead watcher leaves no index behind.      *)
IndexHasOwner ==
  identity # None => watch = identity /\ ~done[identity]

(* A StartWatch that has returned left only its own run able to publish:   *)
(* the run it displaced, or stopped, is over.                              *)
ReplacementIsQuiet ==
  \A r, s \in Runs :
    /\ r # s /\ call[r] = "returned" /\ watch = r
    /\ call[s] = "returned"
    => loop[s] \in {"none", "done"} /\ wg[s] = 0

(* Once stopWatch has joined, no watcher goroutine and no debounce         *)
(* callback of the runtime is left.                                        *)
CloseIsQuiet ==
  stage \in {"shutdown", "joinUp", "closed", "terminal", "drained"} =>
    \A r \in Runs : loop[r] \in {"none", "done"} /\ wg[r] = 0

(* After the watcher is stopped nothing of the runtime reaches Dart but    *)
(* the terminal event.                                                     *)
PublicationBarrier ==
  [][(stage \in {"joinWatch", "shutdown", "joinUp", "closed", "drained"}
        => UNCHANGED dart)]_vars

(* Server.Up is called at most once, and Server.Close never overlaps it.   *)
UpIsJoined ==
  /\ ups <= 1
  /\ stage \in {"closed", "terminal", "drained"} => worker \in {"none", "done"}

(* A data-plane call is told of a bootstrap failure only after the exact   *)
(* runtime was detached and its Server closed.                             *)
FailureAfterClose ==
  \A w \in Waiters :
    answer[w] = "failure" =>
      owner = "reaper" /\ stage \in {"closed", "terminal", "drained"}

(* Every join of a restart or a teardown is real: what it waited for has   *)
(* ended, and has left nothing behind.                                     *)
JoinsAreReal ==
  /\ IndexHasOwner /\ ReplacementIsQuiet /\ CloseIsQuiet
  /\ UpIsJoined /\ FailureAfterClose

(* A call that joined the bootstrap is answered.                           *)
WaitersAreReleased ==
  \A w \in Waiters : answer[w] = "waiting" ~> answer[w] # "waiting"

(* A detached runtime is drained: no join of watcher, callbacks and worker *)
(* waits for ever.                                                         *)
TeardownCompletes == owner # None ~> stage = "drained"

=============================================================================
