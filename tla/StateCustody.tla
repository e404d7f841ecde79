--------------------------- MODULE StateCustody ---------------------------
(***************************************************************************)
(* Custody of the state-encryption key (DEK): the native preparation       *)
(* (go/state_preparation.go, go/prepared_persistent_state.go), the Dart    *)
(* custody session (lib/src/state_custody_coordinator.dart), the public    *)
(* calls that drive them (lib/tailscale.dart) and the two durable things   *)
(* they must keep coherent: the Keybay entry and the encrypted envelope.   *)
(*                                                                         *)
(* A token names one public call. A key is the token that generated it.    *)
(* What is left out: path validation, the process table of leases (module  *)
(* StateLease), the runtime after it adopted a store (RuntimeController).  *)
(***************************************************************************)
EXTENDS Integers, FiniteSets

CONSTANTS MaxToken,   \* tokens 1..MaxToken are handed out in order
          MaxCrashes  \* bound on process deaths

ASSUME TokenAssumption == MaxToken \in Nat
ASSUME CrashAssumption == MaxCrashes \in Nat

None == 0
Tokens == 1 .. MaxToken
Keys == Tokens
MaybeKey == Keys \cup {None}
Rescuers == {"timer", "self"}
Dispositions == {"none", "compensateKey", "preserveCoherentPair"}

VARIABLES
  kind,      \* the public call a token stands for
  pc,        \* where its preparation (or reset) sequence is
  returned,  \* the tokens whose public Future has completed
  rescue,    \* per rescuer and token: one _quarantineStateOperation
  slot,      \* runtimes.persistentPreparation
  runtime,   \* the runtime that adopted a preparation
  resetSlot, \* runtimes.reset
  prep,      \* the persistentPreparation of a token
  lease,     \* which token's owner holds the state lease
  poison,    \* runtimes.cleanupFailure is set
  tombstones,\* runtimes.abandonedTokens
  session,   \* StateCustodySession of a token
  receipt,   \* _settlementReceipts of a token
  keybay,    \* the DEK entry in Keybay
  envelope,  \* the key that seals the envelope on disk
  marker,    \* the durable reset marker
  crashes    \* process deaths so far

durable == <<keybay, envelope, marker>>
native == <<slot, runtime, resetSlot, prep, lease, poison, tombstones>>
dart == <<session, receipt>>
calls == <<kind, pc, returned, rescue>>
vars == <<calls, native, dart, durable, crashes>>

NewPrep ==
  [settled |-> FALSE, abandoned |-> FALSE, active |-> FALSE,
   completed |-> FALSE, writeAttempted |-> FALSE, layout |-> "unknown",
   action |-> "none", attempted |-> FALSE, op |-> FALSE,
   finishing |-> FALSE, adopted |-> FALSE, outcome |-> "none",
   dek |-> None, store |-> None, failed |-> FALSE]

NewSession ==
  [registered |-> FALSE, abandoning |-> FALSE, busy |-> FALSE,
   read |-> "no", buffer |-> None]

NewRescue == [at |-> "idle", held |-> FALSE, disposition |-> "none"]

\* Nothing is stored, or the installation has a coherent key and envelope.
Init ==
  /\ kind = [t \in Tokens |-> "none"]
  /\ pc = [t \in Tokens |-> "idle"]
  /\ returned = {}
  /\ rescue = [r \in Rescuers |-> [t \in Tokens |-> NewRescue]]
  /\ slot = None /\ runtime = None /\ resetSlot = None /\ lease = None
  /\ prep = [t \in Tokens |-> NewPrep]
  /\ poison = FALSE /\ tombstones = {}
  /\ session = [t \in Tokens |-> NewSession]
  /\ receipt = [t \in Tokens |-> "none"]
  /\ keybay = None /\ envelope = None /\ marker = FALSE
  /\ crashes = 0

-----------------------------------------------------------------------------
(* Small helpers.                                                          *)

Goto(t, p) == pc' = [pc EXCEPT ![t] = p]

\* requireLiveLocked
Live(t) == ~prep[t].abandoned /\ ~prep[t].finishing /\ ~prep[t].adopted

\* persistentPreparationForToken
Current(t) == slot = t

\* A variant: the session is replaced by a stub without its other fields.
UnregisteredAsStub(s) == [registered |-> FALSE]

\* complete / discard of a session: wipe its buffers and unregister it.
Unregistered(s) == [s EXCEPT !.registered = FALSE, !.buffer = None]

\* A step of the sequence that throws: the catch block quarantines, when
\* native admission was obtained.
Fail(t) == Goto(t, "failed")

\* The sequence ends. Its public Future completes with it, unless up() timed
\* out before: then it completes when the timer's rescue does.
Settle(t) ==
  /\ Goto(t, "done")
  /\ returned' = IF rescue["timer"][t].at = "idle" THEN returned \cup {t}
                                                   ELSE returned

-----------------------------------------------------------------------------
(* Public calls. The supervisor queue runs one at a time: the next one     *)
(* starts when the Future of the one before it has completed. A sequence   *)
(* that timed out may still be running behind it.                          *)

Call(t, k) ==
  /\ pc[t] = "idle"
  /\ \A u \in 1 .. (t - 1) : u \in returned
  /\ kind' = [kind EXCEPT ![t] = k]
  /\ Goto(t, IF k = "forget" THEN "resetBegin" ELSE "begin")
  /\ UNCHANGED <<returned, rescue, native, dart, durable, crashes>>

\* BeginPersistentPreparation up to lease acquisition.
Begin(t) ==
  /\ pc[t] = "begin"
  /\ \/ /\ poison \/ t \in tombstones
        /\ tombstones' = IF poison THEN tombstones ELSE tombstones \ {t}
        /\ Settle(t)
        /\ UNCHANGED slot
     \/ /\ ~poison /\ t \notin tombstones
        /\ slot # None \/ runtime # None \/ resetSlot # None
        /\ Settle(t)
        /\ UNCHANGED <<slot, tombstones>>
     \/ /\ ~poison /\ t \notin tombstones
        /\ slot = None /\ runtime = None /\ resetSlot = None
        /\ slot' = t
        /\ Goto(t, "acquire")
        /\ UNCHANGED <<returned, tombstones>>
  /\ UNCHANGED <<kind, rescue, runtime, resetSlot, prep, lease, poison, dart,
                 durable, crashes>>

\* The rest of BeginPersistentPreparation: a failed acquisition, or one that
\* settles after the token was abandoned, finishes the preparation itself.
Acquire(t) ==
  /\ pc[t] = "acquire"
  /\ \E ok \in BOOLEAN :
       /\ ok => lease = None
       /\ prep' = [prep EXCEPT ![t].settled = TRUE,
                               ![t].finishing = @ \/ ~ok \/ prep[t].abandoned]
       /\ lease' = IF ok THEN t ELSE lease
       /\ Goto(t, IF ok /\ ~prep[t].abandoned THEN "inspect" ELSE "endBegin")
  /\ UNCHANGED <<kind, returned, rescue, slot, runtime, resetSlot, poison,
                 tombstones, dart, durable, crashes>>

\* BeginPersistentPreparation throws: nativeAdmission stays false in Dart.
EndBegin(t) ==
  /\ pc[t] = "endBegin"
  /\ slot # t
  /\ Settle(t)
  /\ UNCHANGED <<kind, rescue, native, dart, durable, crashes>>

\* beginOperation
BeginOperation(t, here, then) ==
  /\ pc[t] = here
  /\ IF Current(t) /\ Live(t) /\ prep[t].settled /\ ~prep[t].op
       THEN prep' = [prep EXCEPT ![t].op = TRUE] /\ Goto(t, then)
       ELSE Fail(t) /\ UNCHANGED prep
  /\ UNCHANGED <<kind, returned, rescue, slot, runtime, resetSlot, lease,
                 poison, tombstones, dart, durable, crashes>>

InspectBegin(t) == BeginOperation(t, "inspect", "inspecting")

\* InspectPersistentPreparation: a reset marker is an error; the layout is
\* recorded only while the preparation is live.
Inspect(t) ==
  /\ pc[t] = "inspecting"
  /\ LET found == IF envelope = None THEN "absent" ELSE "encrypted"
         ok == ~marker /\ Live(t)
     IN /\ prep' = [prep EXCEPT ![t].op = FALSE,
                                ![t].layout = IF ok THEN found ELSE @]
        /\ IF ok THEN Goto(t, "mark") ELSE Fail(t)
  /\ UNCHANGED <<kind, returned, rescue, slot, runtime, resetSlot, lease,
                 poison, tombstones, dart, durable, crashes>>

-----------------------------------------------------------------------------
(* The custody session. MarkCustodyActive, MarkCustodyWriteAttempted,      *)
(* ResolvePersistentCustody, SupplyPreparedDEK and CompletePersistent-     *)
(* Custody are direct FFI calls: no Dart event runs between the call and   *)
(* its continuation. Keybay calls are awaited and cannot be cancelled.     *)

\* StateCustodyCoordinator.begin: register, mark native, resolve storage. The
\* answer to the mark may be lost, which unregisters a session native holds.
BeginSession(t) ==
  /\ pc[t] = "mark"
  /\ LET ok == Current(t) /\ Live(t) /\ prep[t].settled
                 /\ ~prep[t].active /\ ~prep[t].completed
     IN \/ /\ ~ok
           /\ Fail(t)
           /\ UNCHANGED <<prep, session>>
        \/ /\ ok
           /\ prep' = [prep EXCEPT ![t].active = TRUE]
           /\ \/ session' = [session EXCEPT ![t].registered = TRUE]
                 /\ pc' \in {[pc EXCEPT ![t] = "read"],
                             [pc EXCEPT ![t] = "failed"]}
              \/ UNCHANGED session /\ Fail(t)
  /\ UNCHANGED <<kind, returned, rescue, slot, runtime, resetSlot, lease,
                 poison, tombstones, receipt, durable, crashes>>

\* readDek: the Keybay read starts.
ReadBegin(t) ==
  /\ pc[t] = "read"
  /\ IF session[t].abandoning
       THEN Fail(t) /\ UNCHANGED session
       ELSE Goto(t, "reading") /\ session' = [session EXCEPT ![t].busy = TRUE]
  /\ UNCHANGED <<kind, returned, rescue, native, receipt, durable, crashes>>

\* The read answers. A key that arrives after abandonment is wiped.
Read(t) ==
  /\ pc[t] = "reading"
  /\ \/ /\ session[t].abandoning
        /\ session' = [session EXCEPT ![t].busy = FALSE]
        /\ Fail(t)
     \/ /\ ~session[t].abandoning
        /\ session' = [session EXCEPT ![t].busy = FALSE]
        /\ Fail(t)
     \/ /\ ~session[t].abandoning
        /\ session' = [session EXCEPT
             ![t].busy = FALSE,
             ![t].read = IF keybay = None THEN "absent" ELSE "present",
             ![t].buffer = keybay]
        /\ Goto(t, "resolve")
  /\ UNCHANGED <<kind, returned, rescue, native, receipt, durable, crashes>>

\* ResolvePersistentCustody and the choice the sequence makes from it: an
\* orphaned key or a missing key is an error, never a reason to provision.
Resolve(t) ==
  /\ pc[t] = "resolve"
  /\ LET ok == Current(t) /\ Live(t) /\ prep[t].active /\ ~prep[t].completed
                 /\ prep[t].layout # "unknown"
                 /\ (prep[t].layout = "encrypted")
                      = (session[t].read = "present")
         action == IF prep[t].layout = "absent" THEN "provision" ELSE "open"
     IN IF ok
          THEN /\ prep' = [prep EXCEPT ![t].action = action]
               /\ Goto(t, CASE action = "open" -> "supply"
                            [] kind[t] = "up" -> "write"
                            [] OTHER -> "complete")
          ELSE Fail(t) /\ UNCHANGED prep
  /\ UNCHANGED <<kind, returned, rescue, slot, runtime, resetSlot, lease,
                 poison, tombstones, dart, durable, crashes>>
\* writeFreshDek: native records the possibly-committed boundary first.
WriteBegin(t) ==
  /\ pc[t] = "write"
  /\ IF ~session[t].abandoning /\ session[t].read = "absent"
          /\ Current(t) /\ Live(t) /\ prep[t].active
       THEN /\ prep' = [prep EXCEPT ![t].writeAttempted = TRUE]
            /\ session' = [session EXCEPT ![t].busy = TRUE]
            /\ Goto(t, "writing")
       ELSE Fail(t) /\ UNCHANGED <<prep, session>>
  /\ UNCHANGED <<kind, returned, rescue, slot, runtime, resetSlot, lease,
                 poison, tombstones, receipt, durable, crashes>>

\* The Keybay write answers: success, or an error that may have committed.
Write(t) ==
  /\ pc[t] = "writing"
  /\ \/ /\ keybay' = t
        /\ session' = [session EXCEPT ![t].busy = FALSE, ![t].buffer = t]
        /\ Goto(t, "supply")
     \/ /\ keybay' \in {keybay, t}
        /\ session' = [session EXCEPT ![t].busy = FALSE]
        /\ Fail(t)
  /\ UNCHANGED <<kind, returned, rescue, native, receipt, envelope, marker,
                 crashes>>

\* transferDek, then SupplyPreparedDEK; the caller's buffer is wiped.
Supply(t) ==
  /\ pc[t] = "supply"
  /\ IF session[t].abandoning
       THEN Fail(t) /\ UNCHANGED <<prep, session>>
       ELSE /\ session' = [session EXCEPT ![t].buffer = None]
            /\ IF Current(t) /\ Live(t) /\ prep[t].active
                    /\ prep[t].dek = None /\ prep[t].outcome = "none"
                 THEN /\ prep' = [prep EXCEPT ![t].dek = session[t].buffer]
                      /\ Goto(t, "prepare")
                 ELSE Fail(t) /\ UNCHANGED prep
  /\ UNCHANGED <<kind, returned, rescue, slot, runtime, resetSlot, lease,
                 poison, tombstones, receipt, durable, crashes>>

PrepareBegin(t) == BeginOperation(t, "prepare", "preparing")

EndOperation(t, fields, ok) ==
  /\ prep' = [prep EXCEPT ![t] = [fields EXCEPT !.op = FALSE]]
  /\ IF ok THEN Goto(t, "complete") ELSE Fail(t)

\* PreparePersistentState, provisioning: runInitialEnvelopeWrite takes the
\* staged key, unless the token was abandoned since the operation began.
EnvelopeWriteBegin(t) ==
  /\ pc[t] = "preparing" /\ prep[t].action = "provision"
  /\ IF Live(t) /\ prep[t].active /\ ~prep[t].completed /\ ~prep[t].attempted
          /\ prep[t].writeAttempted /\ prep[t].dek # None
          /\ prep[t].outcome = "none"
       THEN /\ prep' = [prep EXCEPT ![t].attempted = TRUE,
                                    ![t].outcome = "inFlight"]
            /\ Goto(t, "envelope")
       ELSE EndOperation(t, prep[t], FALSE)
  /\ UNCHANGED <<kind, returned, rescue, slot, runtime, resetSlot, lease,
                 poison, tombstones, dart, durable, crashes>>

\* The rename: the envelope exists from here on. recordInitialCommit and the
\* end of runInitialEnvelopeWrite follow in EnvelopeWritten.
EnvelopeRename(t) ==
  /\ pc[t] = "envelope"
  /\ envelope' = prep[t].dek
  /\ Goto(t, "renamed")
  /\ UNCHANGED <<kind, returned, rescue, native, dart, keybay, marker,
                 crashes>>

\* recordCommitted, the move of the store into the preparation, and the
\* rest of PreparePersistentState.
EnvelopeWritten(t) ==
  /\ pc[t] = "renamed"
  /\ EndOperation(t, [prep[t] EXCEPT !.outcome = "committed",
                                     !.store = prep[t].dek, !.dek = None],
                  ~prep[t].abandoned)
  /\ UNCHANGED <<kind, returned, rescue, slot, runtime, resetSlot, lease,
                 poison, tombstones, dart, durable, crashes>>

\* The write failed before its rename.
EnvelopeNotWritten(t) ==
  /\ pc[t] = "envelope"
  /\ EndOperation(t, [prep[t] EXCEPT !.outcome = "notCommitted",
                                     !.dek = None], FALSE)
  /\ UNCHANGED <<kind, returned, rescue, slot, runtime, resetSlot, lease,
                 poison, tombstones, dart, durable, crashes>>

\* PreparePersistentState, existing envelope: it opens under its own key
\* only, and a store opened for an abandoned token is closed again.
Open(t) ==
  /\ pc[t] = "preparing" /\ prep[t].action = "open"
  /\ LET opens == prep[t].active /\ ~prep[t].completed /\ ~prep[t].attempted
                    /\ prep[t].dek # None /\ prep[t].dek = envelope
         ok == opens /\ ~prep[t].abandoned
     IN EndOperation(t, [prep[t] EXCEPT !.attempted = TRUE, !.dek = None,
                                        !.store = IF ok THEN envelope ELSE @],
                     ok)
  /\ UNCHANGED <<kind, returned, rescue, slot, runtime, resetSlot, lease,
                 poison, tombstones, dart, durable, crashes>>

\* StateCustodyCoordinator.complete and CompletePersistentCustody, then what
\* the sequence does next. Native may complete although its answer is lost.
Complete(t) ==
  /\ pc[t] = "complete"
  /\ LET ok == Current(t) /\ Live(t) /\ ~prep[t].op /\ prep[t].active
                 /\ ~prep[t].completed
                 /\ (~prep[t].writeAttempted \/ prep[t].outcome = "committed")
     IN \/ /\ ~(session[t].registered /\ ok)
           /\ Fail(t)
           /\ UNCHANGED <<prep, session>>
        \/ /\ session[t].registered /\ ok
           /\ prep' = [prep EXCEPT ![t].active = FALSE,
                                   ![t].completed = TRUE, ![t].dek = None]
           /\ \/ /\ session' = [session EXCEPT ![t] = Unregistered(@)]
                 /\ Goto(t, IF kind[t] = "up" THEN "prepared" ELSE "finish")
              \/ UNCHANGED session /\ Fail(t)
  /\ UNCHANGED <<kind, returned, rescue, slot, runtime, resetSlot, lease,
                 poison, tombstones, receipt, durable, crashes>>

\* adoptPersistentPreparation: the store and the held lease move into the
\* runtime in one step, and up() goes on with it.
Adopt(t) ==
  /\ pc[t] = "prepared"
  /\ rescue["timer"][t].at = "idle"
  /\ ~poison /\ t \notin tombstones
  /\ Current(t) /\ Live(t) /\ prep[t].completed /\ prep[t].store # None
  /\ prep' = [prep EXCEPT ![t].adopted = TRUE, ![t].store = None]
  /\ runtime' = t /\ slot' = None
  /\ Settle(t)
  /\ UNCHANGED <<kind, rescue, resetSlot, lease, poison, tombstones, dart,
                 durable, crashes>>

\* A sequence that completes after up() timed out is dropped.
DropPrepared(t) ==
  /\ pc[t] = "prepared"
  /\ rescue["timer"][t].at # "idle"
  /\ Goto(t, "done")
  /\ UNCHANGED <<kind, returned, rescue, native, dart, durable, crashes>>

\* The runtime stops (down, logout or failure): its store and lease go.
StopRuntime ==
  /\ runtime # None
  /\ runtime' = None /\ lease' = None
  /\ UNCHANGED <<calls, slot, resetSlot, prep, poison, tombstones, dart,
                 durable, crashes>>

\* FinishPreparedPersistentState of an idle probe: claims the termination.
FinishPrepared(t) ==
  /\ pc[t] = "finish"
  /\ IF Current(t) /\ ~prep[t].finishing /\ ~prep[t].adopted
          /\ prep[t].settled /\ ~prep[t].op /\ ~prep[t].active
       THEN prep' = [prep EXCEPT ![t].finishing = TRUE] /\ Goto(t, "finishing")
       ELSE Fail(t) /\ UNCHANGED prep
  /\ UNCHANGED <<kind, returned, rescue, slot, runtime, resetSlot, lease,
                 poison, tombstones, dart, durable, crashes>>

Finished(t) ==
  /\ pc[t] = "finishing" /\ slot # t
  /\ IF prep[t].failed THEN Fail(t) /\ UNCHANGED returned ELSE Settle(t)
  /\ UNCHANGED <<kind, rescue, native, dart, durable, crashes>>
\* A variant: the slot is freed and the lease forgotten.
FinishClaimedKeepsLease(t) ==
  /\ slot = t /\ prep[t].finishing
  /\ prep' = [prep EXCEPT ![t].dek = None, ![t].store = None]
  /\ slot' = None
  /\ UNCHANGED <<calls, runtime, resetSlot, lease, poison, tombstones, dart,
                 durable, crashes>>

\* finishClaimedPersistentPreparation, run by whoever claimed it: wipe the
\* key, close the store, release the lease, free the slot. A lease that
\* cannot be released poisons the controller.
FinishClaimed(t) ==
  /\ slot = t /\ prep[t].finishing
  /\ \E ok \in BOOLEAN :
       /\ prep' = [prep EXCEPT ![t].dek = None, ![t].store = None,
                               ![t].failed = ~ok]
       /\ ok \/ lease = t
       /\ poison' = (poison \/ ~ok)
       /\ lease' = IF lease = t /\ ok THEN None ELSE lease
  /\ slot' = None
  /\ UNCHANGED <<calls, runtime, resetSlot, tombstones, dart, durable,
                 crashes>>

-----------------------------------------------------------------------------
(* _quarantineStateOperation: the rescue that up() runs when the           *)
(* preparation exceeds its budget ("timer"), and the one the sequence      *)
(* itself runs from its catch block ("self"). Both may run for one token.  *)

RescueGoto(r, t, p) == rescue' = [rescue EXCEPT ![r][t].at = p]

\* preparationOperation.timeout(remainingBudget())
Timeout(t) ==
  /\ kind[t] = "up" /\ t \notin returned
  /\ pc[t] \notin {"idle", "prepared", "done"}
  /\ rescue["timer"][t].at = "idle"
  /\ RescueGoto("timer", t, "abandon")
  /\ UNCHANGED <<kind, pc, returned, native, dart, durable, crashes>>

\* The catch block of _preparePersistentState.
Catch(t) ==
  /\ pc[t] = "failed"
  /\ Goto(t, "rescuing")
  /\ RescueGoto("self", t, "abandon")
  /\ UNCHANGED <<kind, returned, native, dart, durable, crashes>>
\* A variant: a write that was attempted but not confirmed is not compensated.
DispositionTrustsError(p) ==
  IF p.outcome = "committed" THEN "preserveCoherentPair" ELSE "none"

\* custodyDispositionLocked
Disposition(p) ==
  IF p.outcome = "committed" THEN "preserveCoherentPair"
  ELSE IF p.writeAttempted THEN "compensateKey" ELSE "none"

\* AbandonRuntime: flag the preparation and read what custody owes. What is
\* held is read here; what must be done is read again after the wait.
Abandon(r, t) ==
  /\ rescue[r][t].at = "abandon"
  /\ tombstones' = tombstones \cup {t}
  /\ IF Current(t)
       THEN /\ prep' = [prep EXCEPT ![t].abandoned = TRUE]
            /\ rescue' = [rescue EXCEPT ![r][t] =
                 [at |-> IF prep[t].settled /\ prep[t].op THEN "wait"
                                                          ELSE "check",
                  held |-> prep[t].settled /\ prep[t].active,
                  disposition |-> Disposition(prep[t])]]
       ELSE RescueGoto(r, t, "discard") /\ UNCHANGED prep
  /\ UNCHANGED <<kind, pc, returned, slot, runtime, resetSlot, lease, poison,
                 dart, durable, crashes>>
\* A variant: the disposition read before the wait is used after it.
AbandonWaitedStale(r, t) ==
  /\ rescue[r][t].at = "wait" /\ ~prep[t].op
  /\ RescueGoto(r, t, "check")
  /\ UNCHANGED <<kind, pc, returned, native, dart, durable, crashes>>

\* The operation in flight is over: its outcome decides the disposition.
AbandonWaited(r, t) ==
  /\ rescue[r][t].at = "wait" /\ ~prep[t].op
  /\ rescue' = [rescue EXCEPT ![r][t].at = "check",
                              ![r][t].disposition = Disposition(prep[t])]
  /\ UNCHANGED <<kind, pc, returned, native, dart, durable, crashes>>

\* Custody is the caller's to settle; an unsettled acquisition finishes
\* itself; anything else is finished, or joined, here.
AbandonChecked(r, t) ==
  /\ rescue[r][t].at = "check"
  /\ \/ /\ prep[t].settled /\ ~rescue[r][t].held
        /\ RescueGoto(r, t, "joinFinish")
        /\ prep' = IF slot = t THEN [prep EXCEPT ![t].finishing = TRUE]
                               ELSE prep
     \/ /\ ~prep[t].settled
        /\ RescueGoto(r, t, "discardPending") /\ UNCHANGED prep
     \/ /\ prep[t].settled /\ rescue[r][t].held
        /\ RescueGoto(r, t, "settle") /\ UNCHANGED prep
  /\ UNCHANGED <<kind, pc, returned, slot, runtime, resetSlot, lease, poison,
                 tombstones, dart, durable, crashes>>

AbandonFinished(r, t) ==
  /\ rescue[r][t].at = "joinFinish" /\ slot # t
  /\ tombstones' = tombstones \ {t}
  /\ RescueGoto(r, t, IF prep[t].failed THEN "discardFailed" ELSE "discard")
  /\ UNCHANGED <<kind, pc, returned, slot, runtime, resetSlot, prep, lease,
                 poison, dart, durable, crashes>>

\* discardTerminalSession: native holds no custody; drop what Dart still has.
Discard(r, t) ==
  /\ rescue[r][t].at \in {"discard", "discardPending", "discardFailed"}
  /\ ~session[t].busy
  /\ session' = [session EXCEPT ![t] = Unregistered(@)]
  /\ RescueGoto(r, t, CASE rescue[r][t].at = "discard" -> "ok"
                        [] rescue[r][t].at = "discardPending" -> "await"
                        [] OTHER -> "error")
  /\ UNCHANGED <<kind, pc, returned, native, receipt, durable, crashes>>

\* settleAbandonment: a second caller gets the first one's Future. A missing
\* session cannot prove anything: it reports a failed cleanup.
SettleBegin(r, t) ==
  /\ rescue[r][t].at = "settle"
  /\ \/ /\ receipt[t] # "none"
        /\ RescueGoto(r, t, "joinReceipt")
        /\ UNCHANGED dart
     \/ /\ receipt[t] = "none" /\ ~session[t].registered
        /\ receipt' = [receipt EXCEPT ![t] = "running"]
        /\ RescueGoto(r, t, "finishFailed")
        /\ UNCHANGED session
     \/ /\ receipt[t] = "none" /\ session[t].registered
        /\ receipt' = [receipt EXCEPT ![t] = "running"]
        /\ session' = [session EXCEPT ![t].abandoning = TRUE]
        /\ RescueGoto(r, t, "joinTail")
  /\ UNCHANGED <<kind, pc, returned, native, durable, crashes>>

\* _settle: wait for the Keybay call in flight, wipe, compensate if owed.
SettleJoined(r, t) ==
  /\ rescue[r][t].at = "joinTail" /\ ~session[t].busy
  /\ session' = [session EXCEPT ![t].buffer = None]
  /\ RescueGoto(r, t, IF rescue[r][t].disposition = "compensateKey"
                        THEN "delete" ELSE "finishOk")
  /\ UNCHANGED <<kind, pc, returned, native, receipt, durable, crashes>>

\* deleteStateStoreDek; an error may have deleted the entry all the same.
Compensate(r, t) ==
  /\ rescue[r][t].at = "delete"
  /\ \/ keybay' = None /\ RescueGoto(r, t, "finishOk")
     \/ keybay' \in {None, keybay} /\ RescueGoto(r, t, "finishFailed")
  /\ UNCHANGED <<kind, pc, returned, native, dart, envelope, marker, crashes>>
\* A variant: a failed cleanup poisons without wiping the key material.
FinishCustodyKeepsKey(r, t) ==
  /\ rescue[r][t].at \in {"finishOk", "finishFailed"}
  /\ LET clean == rescue[r][t].at = "finishOk"
     IN /\ prep' = [prep EXCEPT ![t].finishing = @ \/ clean]
        /\ poison' = (poison \/ ~clean)
        /\ RescueGoto(r, t, IF clean THEN "finishing" ELSE "finishError")
  /\ UNCHANGED <<kind, pc, returned, slot, runtime, resetSlot, lease,
                 tombstones, dart, durable, crashes>>

\* FinishCustody: a confirmed cleanup finishes the preparation; anything else
\* wipes the key material but keeps the lease and poisons the controller.
FinishCustody(r, t) ==
  /\ rescue[r][t].at \in {"finishOk", "finishFailed"}
  /\ LET clean == rescue[r][t].at = "finishOk"
         owned == Current(t) /\ prep[t].abandoned /\ prep[t].active
                    /\ ~prep[t].op
     IN /\ prep' =
             IF ~owned THEN prep
             ELSE IF clean THEN [prep EXCEPT ![t].finishing = TRUE]
             ELSE [prep EXCEPT ![t].dek = None, ![t].store = None]
        /\ poison' = (poison \/ (owned /\ ~clean))
        /\ RescueGoto(r, t, IF owned /\ clean THEN "finishing"
                                              ELSE "finishError")
  /\ UNCHANGED <<kind, pc, returned, slot, runtime, resetSlot, lease,
                 tombstones, dart, durable, crashes>>
\* The end of _settleAbandonmentOnce: the session goes whatever happened.
SettleEnd(r, t) ==
  /\ \/ rescue[r][t].at = "finishing" /\ slot # t
     \/ rescue[r][t].at = "finishError"
  /\ LET ok == rescue[r][t].at = "finishing" /\ ~prep[t].failed
     IN receipt' = [receipt EXCEPT ![t] = IF ok THEN "ok" ELSE "failed"]
  /\ session' = [session EXCEPT ![t] = Unregistered(@)]
  /\ RescueGoto(r, t, "joinReceipt")
  /\ UNCHANGED <<kind, pc, returned, native, durable, crashes>>

ReceiptJoined(r, t) ==
  /\ rescue[r][t].at = "joinReceipt" /\ receipt[t] \in {"ok", "failed"}
  /\ RescueGoto(r, t, IF receipt[t] = "ok" THEN "await" ELSE "error")
  /\ UNCHANGED <<kind, pc, returned, native, dart, durable, crashes>>

\* AwaitRuntimeQuiescence of a pending result.
Await(r, t) ==
  /\ rescue[r][t].at = "await" /\ slot # t
  /\ tombstones' = tombstones \ {t}
  /\ RescueGoto(r, t, IF prep[t].failed THEN "error" ELSE "ok")
  /\ UNCHANGED <<kind, pc, returned, slot, runtime, resetSlot, prep, lease,
                 poison, dart, durable, crashes>>

\* The timed-out up() throws.
TimerDone(t) ==
  /\ rescue["timer"][t].at \in {"ok", "error"} /\ t \notin returned
  /\ returned' = returned \cup {t}
  /\ UNCHANGED <<kind, pc, rescue, native, dart, durable, crashes>>

\* The sequence rethrows, after it retired its tombstone.
SelfDone(t) ==
  /\ pc[t] = "rescuing" /\ rescue["self"][t].at \in {"ok", "error"}
  /\ tombstones' = IF rescue["self"][t].at = "ok" THEN tombstones \ {t}
                                                  ELSE tombstones
  /\ Settle(t)
  /\ UNCHANGED <<kind, rescue, slot, runtime, resetSlot, prep, lease, poison,
                 dart, durable, crashes>>

\* _retireAbandonedTokenAfter: once the timed-out sequence has settled.
Retire(t) ==
  /\ pc[t] = "done" /\ rescue["timer"][t].at # "idle" /\ t \in tombstones
  /\ tombstones' = tombstones \ {t}
  /\ UNCHANGED <<calls, slot, runtime, resetSlot, prep, lease, poison, dart,
                 durable, crashes>>

-----------------------------------------------------------------------------
(* forgetLocalIdentity: marker, then key, then files, then marker.         *)

\* BeginLocalReset takes the active runtime's lease, or acquires it.
ResetBegin(t) ==
  /\ pc[t] = "resetBegin"
  /\ \/ /\ poison \/ slot # None \/ resetSlot # None
        /\ Settle(t)
        /\ UNCHANGED <<resetSlot, runtime, lease>>
     \/ /\ ~poison /\ slot = None /\ resetSlot = None
        /\ runtime # None \/ lease = None
        /\ resetSlot' = t /\ runtime' = None /\ lease' = t
        /\ Goto(t, "resetMark") /\ UNCHANGED returned
     \/ /\ ~poison /\ slot = None /\ resetSlot = None /\ runtime = None
        /\ Settle(t)
        /\ UNCHANGED <<resetSlot, runtime, lease>>
  /\ UNCHANGED <<kind, rescue, slot, prep, poison, tombstones, dart, durable,
                 crashes>>

\* finishLocalResetOperation
ResetEnd(t) ==
  /\ resetSlot' = None /\ lease' = None
  /\ Settle(t)

\* ensureDurableMarker. An error, or a lost answer, ends the reset; the marker
\* may be there.
ResetMark(t) ==
  /\ pc[t] = "resetMark"
  /\ \/ /\ marker' = TRUE
        /\ Goto(t, "resetDelete")
        /\ UNCHANGED <<resetSlot, lease, returned>>
     \/ marker' \in {marker, TRUE} /\ ResetEnd(t)
  /\ UNCHANGED <<kind, rescue, slot, runtime, prep, poison, tombstones, dart,
                 keybay, envelope, crashes>>

\* deleteStateStoreDek; an unconfirmed deletion leaves marker and files.
ResetDelete(t) ==
  /\ pc[t] = "resetDelete"
  /\ \/ /\ keybay' = None
        /\ Goto(t, "resetRemove")
        /\ UNCHANGED <<resetSlot, lease, returned>>
     \/ keybay' \in {None, keybay} /\ ResetEnd(t)
  /\ UNCHANGED <<kind, rescue, slot, runtime, prep, poison, tombstones, dart,
                 envelope, marker, crashes>>

\* completeAfterCustodyDeletion, up to the synced removal of the subtree.
ResetRemove(t) ==
  /\ pc[t] = "resetRemove"
  /\ \/ /\ envelope' = None
        /\ Goto(t, "resetUnmark")
        /\ UNCHANGED <<resetSlot, lease, returned>>
     \/ envelope' \in {None, envelope} /\ ResetEnd(t)
  /\ UNCHANGED <<kind, rescue, slot, runtime, prep, poison, tombstones, dart,
                 keybay, marker, crashes>>

\* The marker goes last; a failure to sync it restores it when it can.
ResetUnmark(t) ==
  /\ pc[t] = "resetUnmark"
  /\ marker' \in BOOLEAN
  /\ ResetEnd(t)
  /\ UNCHANGED <<kind, rescue, slot, runtime, prep, poison, tombstones, dart,
                 keybay, envelope, crashes>>

-----------------------------------------------------------------------------
(* The process dies. Whatever was in flight may or may not have happened;  *)
(* everything but Keybay and the disk is gone, the lease included.         *)

InFlightKeybay ==
  {keybay}
    \cup {t \in Tokens : pc[t] = "writing"}
    \cup (IF \/ \E t \in Tokens : pc[t] = "resetDelete"
             \/ \E r \in Rescuers, t \in Tokens : rescue[r][t].at = "delete"
            THEN {None} ELSE {})

Crash ==
  /\ crashes < MaxCrashes
  /\ crashes' = crashes + 1
  /\ keybay' \in InFlightKeybay
  /\ LET started == {t \in Tokens : kind[t] # "none"}
     IN /\ pc' = [t \in Tokens |-> IF t \in started THEN "done" ELSE "idle"]
        /\ returned' = started
  /\ rescue' = [r \in Rescuers |-> [t \in Tokens |-> NewRescue]]
  /\ slot' = None /\ runtime' = None /\ resetSlot' = None /\ lease' = None
  /\ prep' = [t \in Tokens |-> NewPrep]
  /\ poison' = FALSE /\ tombstones' = {}
  /\ session' = [t \in Tokens |-> NewSession]
  /\ receipt' = [t \in Tokens |-> "none"]
  /\ UNCHANGED <<kind, envelope, marker>>

-----------------------------------------------------------------------------
Sequence(t) ==
  \/ Begin(t) \/ Acquire(t) \/ EndBegin(t) \/ InspectBegin(t) \/ Inspect(t)
  \/ BeginSession(t) \/ ReadBegin(t) \/ Read(t) \/ Resolve(t)
  \/ WriteBegin(t) \/ Write(t) \/ Supply(t) \/ PrepareBegin(t)
  \/ EnvelopeWriteBegin(t) \/ EnvelopeRename(t) \/ EnvelopeWritten(t)
  \/ EnvelopeNotWritten(t) \/ Open(t) \/ Complete(t) \/ Adopt(t)
  \/ DropPrepared(t) \/ FinishPrepared(t) \/ Finished(t) \/ FinishClaimed(t)
  \/ Catch(t) \/ SelfDone(t)
  \/ ResetBegin(t) \/ ResetMark(t) \/ ResetDelete(t) \/ ResetRemove(t)
  \/ ResetUnmark(t)

Rescue(r, t) ==
  \/ Abandon(r, t) \/ AbandonWaited(r, t) \/ AbandonChecked(r, t)
  \/ AbandonFinished(r, t) \/ Discard(r, t) \/ SettleBegin(r, t)
  \/ SettleJoined(r, t) \/ Compensate(r, t) \/ FinishCustody(r, t)
  \/ SettleEnd(r, t) \/ ReceiptJoined(r, t) \/ Await(r, t)

Next ==
  \/ \E t \in Tokens :
       \/ \E k \in {"up", "status", "forget"} : Call(t, k)
       \/ Sequence(t) \/ Timeout(t) \/ TimerDone(t) \/ Retire(t)
       \/ \E r \in Rescuers : Rescue(r, t)
  \/ StopRuntime \/ Crash

Spec == Init /\ [][Next]_vars

-----------------------------------------------------------------------------
(* Properties.                                                             *)

Points ==
  {"idle", "begin", "acquire", "endBegin", "inspect", "inspecting", "mark",
   "read", "reading", "resolve", "write", "writing", "supply", "prepare",
   "preparing", "envelope", "renamed", "complete", "prepared", "finish",
   "finishing", "failed", "rescuing", "done", "resetBegin", "resetMark",
   "resetDelete", "resetRemove", "resetUnmark"}

RescuePoints ==
  {"idle", "abandon", "wait", "check", "joinFinish", "discard",
   "discardPending", "discardFailed", "settle", "joinTail", "delete",
   "finishOk", "finishFailed", "finishing", "finishError", "joinReceipt",
   "await", "ok", "error"}

PrepRecords ==
  [settled : BOOLEAN, abandoned : BOOLEAN, active : BOOLEAN,
   completed : BOOLEAN, writeAttempted : BOOLEAN,
   layout : {"unknown", "absent", "encrypted"},
   action : {"none", "provision", "open"}, attempted : BOOLEAN, op : BOOLEAN,
   finishing : BOOLEAN, adopted : BOOLEAN,
   outcome : {"none", "inFlight", "notCommitted", "committed"},
   dek : MaybeKey, store : MaybeKey, failed : BOOLEAN]

SessionRecords ==
  [registered : BOOLEAN, abandoning : BOOLEAN, busy : BOOLEAN,
   read : {"no", "absent", "present"}, buffer : MaybeKey]

\* Every field keeps its type; in particular the flags of a preparation and
\* its envelope outcome range over what go/state_preparation.go declares.
TypeOK ==
  /\ kind \in [Tokens -> {"none", "up", "status", "forget"}]
  /\ pc \in [Tokens -> Points]
  /\ returned \in SUBSET Tokens
  /\ rescue \in [Rescuers -> [Tokens -> [at : RescuePoints, held : BOOLEAN,
                                         disposition : Dispositions]]]
  /\ slot \in MaybeKey /\ runtime \in MaybeKey /\ resetSlot \in MaybeKey
  /\ prep \in [Tokens -> PrepRecords]
  /\ lease \in MaybeKey /\ poison \in BOOLEAN
  /\ tombstones \in SUBSET Tokens
  /\ session \in [Tokens -> SessionRecords]
  /\ receipt \in [Tokens -> {"none", "running", "ok", "failed"}]
  /\ keybay \in MaybeKey /\ envelope \in MaybeKey /\ marker \in BOOLEAN
  /\ crashes \in 0 .. MaxCrashes

\* An envelope on disk can always be opened: Keybay holds the key that seals
\* it, at every instant and so after a crash at any instant, unless a durable
\* marker says that a reset is under way. It is what the disposition that
\* AbandonRuntime recomputes after the write, the compensation in _settle and
\* the order of forgetLocalIdentity are for.
EnvelopeHasItsKey ==
  envelope # None => keybay = envelope \/ marker

MutatesKeybay(t) ==
  \/ pc[t] \in {"writing", "resetDelete"}
  \/ \E r \in Rescuers : rescue[r][t].at = "delete"

MutatesDisk(t) ==
  pc[t] \in {"envelope", "renamed", "resetMark", "resetRemove", "resetUnmark"}

\* A Keybay write or deletion, or a write to the state directory, is in
\* flight only while its own token holds the state lease: no late custody
\* operation of an abandoned call reaches the next call's key.
CustodyUnderLease ==
  \A t \in Tokens : MutatesKeybay(t) \/ MutatesDisk(t) => lease = t

Quiet ==
  \A t \in Tokens :
    /\ pc[t] \in {"idle", "done"}
    /\ \A r \in Rescuers : rescue[r][t].at \in {"idle", "ok", "error"}

\* Once everything has settled in a process that neither crashed nor was
\* poisoned, a failed, timed-out or abandoned provisioning has left neither a
\* key without an envelope nor an envelope without a key: the next start is
\* not refused as an orphaned or missing DEK.
SettledPairIsCoherent ==
  Quiet /\ ~poison /\ ~marker /\ crashes = 0 => keybay = envelope

\* A settled call keeps no key bytes: once its sequence is over and its Future
\* has completed, or its custody settlement has an answer, neither a Dart buffer nor the native
\* preparation still holds a key (the runtime that adopted the store has it).
KeyMaterialWiped ==
  \A t \in Tokens :
    (pc[t] = "done" /\ t \in returned) \/ receipt[t] \in {"ok", "failed"} =>
       /\ session[t].buffer = None
       /\ prep[t].dek = None /\ prep[t].store = None

\* The lease of an unpoisoned controller always has an owner that will
\* release it: the preparation in the slot, the runtime, or the reset.
LeaseHasOwner ==
  lease # None /\ ~poison => lease \in {slot, runtime, resetSlot}

\* The state-root lease protects custody for as long as it is needed and no
\* longer: no Keybay call runs without it, and none of its owners forgets it.
LeaseGuardsCustody == CustodyUnderLease /\ LeaseHasOwner

=============================================================================
