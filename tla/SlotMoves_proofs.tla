------------------------ MODULE SlotMoves_proofs ------------------------
(***************************************************************************)
(* How ServerAccounted survives the moves the actions are made of: a       *)
(* control point, a close or a runtime slot that changes.                  *)
(***************************************************************************)
EXTENDS RuntimeController_proofs

USE DEF slots, exclusive, preparing, books, resources, identity, hostNetwork,
        config, reports, At, Goto

(***************************************************************************)
(* Steps that only move control points outside the ones ServerAccounted    *)
(* speaks of.                                                              *)
(***************************************************************************)
owners == <<candidate, current, draining, reset, resetRuntime, prep, prepPhase>>
outcomes == <<cleanupFailure, server, closeErr, stage>>

SamePoint(u) ==
  /\ \/ pc'[<<"start", u>>] = pc[<<"start", u>>]
     \/ /\ pc[<<"start", u>>] \notin CandidateLabels
        /\ pc'[<<"start", u>>] \notin CandidateLabels
        /\ pc[<<"start", u>>] \in {"return", "done"} =>
             pc'[<<"start", u>>] \in {"return", "done"}
  /\ pc'[<<"reset", u>>] = pc[<<"reset", u>>]
  /\ \/ pc'[<<"logout", u>>] = pc[<<"logout", u>>]
     \/ pc'[<<"logout", u>>] \notin {"waitDrain", "closeFailed", "waitLogout"}

(* A step that changes no slot, no outcome and no such control point       *)
(* keeps the accounting.                                                   *)
LEMMA QuietStep ==
  ASSUME ServerAccounted, UNCHANGED <<owners, outcomes>>,
         \A u \in Tokens : SamePoint(u)
  PROVE  ServerAccounted'
<1>1. /\ SlotsExclusive' /\ SingleServer'
      /\ PoisonEmptiesSlots' /\ ResetHoldsRuntime'
  BY DEF ServerAccounted, SlotsExclusive, SingleServer, Running,
         PoisonEmptiesSlots, ResetHoldsRuntime, owners, outcomes
<1>2. ASSUME NEW u \in Tokens PROVE Accounted(u)'
  <2>1. SamePoint(u) /\ Accounted(u)
    BY DEF ServerAccounted
  <2>2. StartOwnsCandidate(u)'
    BY <2>1 DEF SamePoint, Accounted, StartOwnsCandidate, CandidateLabels,
                owners, outcomes
  <2>3. CloseOrder(u)'
    BY <2>1 DEF Accounted, CloseOrder, owners, outcomes
  <2>4. FailureAccounted(u)'
    BY SMTT(30), <2>1 DEF SamePoint, Accounted, FailureAccounted, owners, outcomes
  <2>5. ResetOwnsSlot(u)'
    BY <2>1 DEF SamePoint, Accounted, ResetOwnsSlot, owners, outcomes
  <2> QED BY <2>2, <2>3, <2>4, <2>5 DEF Accounted
<1> QED BY <1>1, <1>2 DEF ServerAccounted

(* A call of any other kind, or of logout, to a harmless point.            *)
LEMMA GotoSamePoint ==
  ASSUME TypeOK, NEW t \in Tokens, NEW op \in Ops \ {"start", "reset"},
         NEW label,
         label \notin {"waitDrain", "closeFailed", "waitLogout"} \/ op # "logout",
         Goto(op, t, label)
  PROVE  \A u \in Tokens : SamePoint(u)
<1>1. ASSUME NEW u \in Tokens PROVE SamePoint(u)
  <2>1. /\ pc'[<<"start", u>>] = pc[<<"start", u>>]
        /\ pc'[<<"reset", u>>] = pc[<<"reset", u>>]
    BY DEF TypeOK, Ops
  <2>2. \/ pc'[<<"logout", u>>] = pc[<<"logout", u>>]
        \/ pc'[<<"logout", u>>] = label /\ op = "logout"
    BY DEF TypeOK, Ops
  <2> QED BY SMTT(60), <2>1, <2>2 DEF SamePoint
<1> QED BY <1>1

(* A call that moves to such a point keeps the accounting.                 *)
LEMMA QuietGoto ==
  ASSUME TypeOK, ServerAccounted, UNCHANGED <<owners, outcomes>>,
         NEW t \in Tokens, NEW op \in Ops \ {"start", "reset"}, NEW label,
         label \notin {"waitDrain", "closeFailed", "waitLogout"} \/ op # "logout",
         Goto(op, t, label)
  PROVE  ServerAccounted'
BY ZenonT(60), GotoSamePoint, QuietStep

(* A start that moves between points outside its candidacy.                *)
LEMMA QuietStart ==
  ASSUME TypeOK, ServerAccounted, UNCHANGED <<owners, outcomes>>,
         NEW t \in Tokens, NEW label, label \notin CandidateLabels,
         pc[<<"start", t>>] \notin CandidateLabels,
         pc[<<"start", t>>] \in {"return", "done"} => label = "done",
         Goto("start", t, label)
  PROVE  ServerAccounted'
<1>1. ASSUME NEW u \in Tokens PROVE SamePoint(u)
  <2>1. /\ pc'[<<"logout", u>>] = pc[<<"logout", u>>]
        /\ pc'[<<"reset", u>>] = pc[<<"reset", u>>]
    BY DEF TypeOK, Ops
  <2>2. \/ pc'[<<"start", u>>] = pc[<<"start", u>>]
        \/ pc'[<<"start", u>>] = label /\ u = t
    BY DEF TypeOK, Ops
  <2> QED BY SMTT(30), <2>1, <2>2 DEF SamePoint
<1> QED BY <1>1, QuietStep

(* What a move of any other call leaves at the points that matter.         *)
LEMMA OtherPoints ==
  ASSUME TypeOK, NEW t \in Tokens, NEW op \in Ops \ {"start", "reset"},
         NEW label, Goto(op, t, label), NEW u \in Tokens
  PROVE  /\ pc'[<<"start", u>>] = pc[<<"start", u>>]
         /\ pc'[<<"reset", u>>] = pc[<<"reset", u>>]
         /\ \/ pc'[<<"logout", u>>] = pc[<<"logout", u>>]
            \/ pc'[<<"logout", u>>] = label /\ op = "logout" /\ u = t
BY DEF TypeOK, Ops

(* The same for a move of the start call itself.                           *)
LEMMA StartPoints ==
  ASSUME TypeOK, NEW t \in Tokens, NEW label, Goto("start", t, label),
         NEW u \in Tokens
  PROVE  /\ pc'[<<"start", u>>] = IF u = t THEN label ELSE pc[<<"start", u>>]
         /\ pc'[<<"reset", u>>] = pc[<<"reset", u>>]
         /\ pc'[<<"logout", u>>] = pc[<<"logout", u>>]
BY DEF TypeOK, Ops

(* detachRuntimeLocked: the current runtime becomes the draining one, so   *)
(* its running Server stays accounted for.                                 *)
LEMMA DetachAccounted ==
  ASSUME TypeOK, ServerAccounted, NEW t \in Tokens, NEW receipt,
         current = t, DetachRuntime(t, receipt),
         NEW op \in Ops \ {"start", "reset"}, Goto(op, t, "closing"),
         UNCHANGED <<reset, resetRuntime, prep, prepPhase, cleanupFailure,
                     server, closeErr>>
  PROVE  ServerAccounted'
<1>1. /\ SlotsExclusive' /\ SingleServer'
      /\ PoisonEmptiesSlots' /\ ResetHoldsRuntime'
  BY TokenAssumption
     DEF ServerAccounted, SlotsExclusive, SingleServer, Running,
         PoisonEmptiesSlots, ResetHoldsRuntime, DetachRuntime
<1>2. ASSUME NEW u \in Tokens PROVE Accounted(u)'
  <2>1. Accounted(u) /\ SlotsExclusive /\ PoisonEmptiesSlots
    BY SMTT(60) DEF ServerAccounted
  <2>2. /\ stage'[u] = IF u = t THEN "server" ELSE stage[u]
        /\ current' = None /\ draining' = t /\ candidate' = candidate
    BY DEF DetachRuntime, TypeOK
  <2>3. /\ pc'[<<"start", u>>] = pc[<<"start", u>>]
        /\ pc'[<<"reset", u>>] = pc[<<"reset", u>>]
        /\ \/ pc'[<<"logout", u>>] = pc[<<"logout", u>>]
           \/ pc'[<<"logout", u>>] = "closing" /\ u = t
    BY SMTT(60), OtherPoints
  <2>4. StartOwnsCandidate(u)'
    BY SMTT(60), <2>1, <2>2, <2>3, TokenAssumption
       DEF Accounted, StartOwnsCandidate, CloseOrder, SlotsExclusive
  <2>5. CloseOrder(u)'
    BY SMTT(60), <2>1, <2>2, TokenAssumption DEF Accounted, CloseOrder, SlotsExclusive
  <2>6. FailureAccounted(u)'
    BY SMTT(60), <2>1, <2>2, <2>3, TokenAssumption DEF Accounted, FailureAccounted,
       SlotsExclusive, PoisonEmptiesSlots
  <2>7. ResetOwnsSlot(u)'
    BY SMTT(60), <2>1, <2>3 DEF Accounted, ResetOwnsSlot
  <2> QED BY SMTT(60), <2>4, <2>5, <2>6, <2>7 DEF Accounted
<1> QED BY SMTT(30), <1>1, <1>2 DEF ServerAccounted

(* finishRuntimeDrain: the slot is given up only with the close finished,  *)
(* and a failed close is recorded as the poison in the same step.          *)
LEMMA DrainAccounted ==
  ASSUME TypeOK, ServerAccounted, NEW t \in Tokens, FinishRuntimeDrain(t),
         NEW op \in Ops \ {"start", "reset"}, NEW label, Goto(op, t, label),
         label \notin {"waitDrain", "waitLogout"},
         label = "closeFailed" => closeErr[t],
         UNCHANGED <<prep, prepPhase, server, closeErr>>
  PROVE  ServerAccounted'
<1>1. /\ SlotsExclusive' /\ SingleServer'
      /\ PoisonEmptiesSlots' /\ ResetHoldsRuntime'
  BY TokenAssumption
     DEF ServerAccounted, SlotsExclusive, SingleServer, Running,
         PoisonEmptiesSlots, ResetHoldsRuntime, FinishRuntimeDrain,
         RecordCleanupFailure
<1>2. ASSUME NEW u \in Tokens PROVE Accounted(u)'
  <2>1. Accounted(u) /\ SlotsExclusive /\ PoisonEmptiesSlots
    BY SMTT(60) DEF ServerAccounted
  <2>2. /\ draining = t /\ stage[t] = "closed" /\ stage' = stage
        /\ draining' = None /\ candidate' = candidate /\ current' = current
        /\ reset' = reset /\ resetRuntime' = resetRuntime
        /\ closeErr[t] => cleanupFailure' # None
        /\ cleanupFailure # None => cleanupFailure' # None
    BY SMTT(60), TokenAssumption DEF FinishRuntimeDrain, RecordCleanupFailure
  <2>3. /\ pc'[<<"start", u>>] = pc[<<"start", u>>]
        /\ pc'[<<"reset", u>>] = pc[<<"reset", u>>]
        /\ \/ pc'[<<"logout", u>>] = pc[<<"logout", u>>]
           \/ pc'[<<"logout", u>>] = label /\ u = t
    BY SMTT(60), OtherPoints
  <2>4. StartOwnsCandidate(u)'
    BY SMTT(60), <2>1, <2>2, <2>3 DEF Accounted, StartOwnsCandidate
  <2>5. CloseOrder(u)'
    BY SMTT(60), <2>1, <2>2, TokenAssumption DEF Accounted, CloseOrder
  <2>6. FailureAccounted(u)'
    BY SMTT(60), <2>1, <2>2, <2>3 DEF Accounted, FailureAccounted, CloseOrder
  <2>7. ResetOwnsSlot(u)'
    BY SMTT(60), <2>1, <2>2, <2>3 DEF Accounted, ResetOwnsSlot
  <2> QED BY SMTT(60), <2>4, <2>5, <2>6, <2>7 DEF Accounted
<1> QED BY SMTT(60), <1>1, <1>2 DEF ServerAccounted

(* closeOwnedResources: a resource whose close fails leaves its error with *)
(* the token, whose slot is still held.                                    *)
LEMMA CloseAccounted ==
  ASSUME TypeOK, ServerAccounted, NEW t \in Tokens, CloseStep(t)
  PROVE  ServerAccounted'
<1>1. /\ stage[t] \notin {"open", "closed"}
      /\ \E s \in {"store", "lease", "scratch", "closed"} :
           stage' = [stage EXCEPT ![t] = s]
      /\ server' \in {server, [server EXCEPT ![t] = "closed"],
                      [server EXCEPT ![t] = "unknown"]}
      /\ stage[t] = "server" => server'[t] # "live"
      /\ server'[t] = "unknown" => server[t] \in {"live", "unknown"}
      /\ server'[t] \in {"live", "starting"} => server'[t] = server[t]
  BY SMTT(60) DEF CloseStep, CloseServer, CloseStore, CloseLease, CloseScratch, TypeOK
<1>2. /\ \E e \in BOOLEAN : closeErr' = [closeErr EXCEPT ![t] = e]
      /\ closeErr[t] => closeErr'[t]
      /\ server'[t] = "unknown" /\ server[t] # "unknown" => closeErr'[t]
  <2>1. CASE CloseServer(t)
    <3>1. CASE server[t] = "live"
      <4>1. PICK outcome \in {"closed", "unknown"} :
              /\ server' = [server EXCEPT ![t] = outcome]
              /\ closeErr' = [closeErr EXCEPT
                                ![t] = closeErr[t] \/ outcome = "unknown"]
        BY SMTT(30), <2>1, <3>1 DEF CloseServer
      <4>2. (closeErr[t] \/ outcome = "unknown") \in BOOLEAN
        BY SMTT(30) DEF TypeOK
      <4>3. /\ server'[t] = outcome
            /\ closeErr'[t] = (closeErr[t] \/ outcome = "unknown")
        BY SMTT(30), <4>1 DEF TypeOK
      <4> QED BY ZenonT(60), <4>1, <4>2, <4>3
    <3>2. CASE server[t] # "live"
      BY SMTT(30), <2>1, <3>2 DEF CloseServer, TypeOK
    <3> QED BY <3>1, <3>2
  <2>2. CASE CloseStore(t)
    <3>1. CASE disk[t] = "store"
      <4>1. PICK outcome \in {"none", "unknown"} :
              closeErr' = [closeErr EXCEPT
                             ![t] = closeErr[t] \/ outcome = "unknown"]
        BY SMTT(30), <2>2, <3>1 DEF CloseStore
      <4> QED BY ZenonT(60), <2>2, <4>1 DEF CloseStore, TypeOK
    <3>2. CASE disk[t] # "store"
      BY SMTT(30), <2>2, <3>2 DEF CloseStore, TypeOK
    <3> QED BY SMTT(60), <3>1, <3>2
  <2>3. CASE CloseLease(t)
    BY ZenonT(60), <2>3 DEF CloseLease, TypeOK
  <2>4. CASE CloseScratch(t)
    <3>1. CASE disk[t] = "scratch"
      <4>1. PICK outcome \in {"none", "unknown"} :
              closeErr' = [closeErr EXCEPT
                             ![t] = closeErr[t] \/ outcome = "unknown"]
        BY SMTT(30), <2>4, <3>1 DEF CloseScratch
      <4> QED BY ZenonT(60), <2>4, <4>1 DEF CloseScratch, TypeOK
    <3>2. CASE disk[t] # "scratch"
      BY SMTT(30), <2>4, <3>2 DEF CloseScratch, TypeOK
    <3> QED BY <3>1, <3>2
  <2> QED BY ZenonT(60), <2>1, <2>2, <2>3, <2>4 DEF CloseStep
<1>3. UNCHANGED <<owners, cleanupFailure, pc>>
  BY SMTT(30) DEF CloseStep, owners
<1>4. SlotsExclusive' /\ SingleServer' /\ PoisonEmptiesSlots'
  BY SMTT(30), <1>1, <1>3 DEF ServerAccounted, SlotsExclusive, SingleServer, Running,
                    PoisonEmptiesSlots, TypeOK, owners
<1>5. ResetHoldsRuntime'
  BY SMTT(60), <1>1, <1>3 DEF ServerAccounted, ResetHoldsRuntime, TypeOK, owners
<1>6. ASSUME NEW u \in Tokens PROVE Accounted(u)'
  <2>1. Accounted(u)
    BY SMTT(60) DEF ServerAccounted
  <2>2. CASE u # t
    <3>1. stage'[u] = stage[u] /\ server'[u] = server[u]
          /\ closeErr'[u] = closeErr[u]
      BY SMTT(60), <1>1, <1>2, <2>2 DEF TypeOK
    <3> QED BY SMTT(60), <1>3, <2>1, <3>1 DEF Accounted, StartOwnsCandidate, CloseOrder,
                                    FailureAccounted, ResetOwnsSlot, owners
  <2>3. CASE u = t
    <3>1. /\ stage'[t] \in {"store", "lease", "scratch", "closed"}
          /\ server'[t] \in {server[t], "closed", "unknown"}
      BY ZenonT(60), <1>1 DEF TypeOK
    <3>2. StartOwnsCandidate(t)'
      BY ZenonT(60), <1>1, <1>3, <2>1, <2>3, <3>1
         DEF Accounted, StartOwnsCandidate, owners
    <3>3. CloseOrder(t)'
      BY ZenonT(60), <1>1, <1>2, <1>3, <2>1, <2>3, <3>1
         DEF Accounted, CloseOrder, StartOwnsCandidate, owners
    <3>4. FailureAccounted(t)'
      BY SMTT(60), <1>1, <1>2, <1>3, <2>1, <2>3, <3>1
         DEF Accounted, FailureAccounted, CloseOrder, owners
    <3>5. ResetOwnsSlot(t)'
      BY SMTT(60), <1>3, <2>1, <2>3 DEF Accounted, ResetOwnsSlot, owners
    <3> QED BY SMTT(60), <2>3, <3>2, <3>3, <3>4, <3>5 DEF Accounted
  <2> QED BY <2>2, <2>3
<1> QED BY ZenonT(60), <1>4, <1>5, <1>6 DEF ServerAccounted

(* While a candidate exists no other token's Server runs, and no failed    *)
(* close is outstanding.                                                   *)
LEMMA OthersStopped ==
  ASSUME TypeOK, ServerAccounted, NEW t \in Tokens, candidate = t
  PROVE  /\ \A u \in Tokens : u # t => ~Running(u)
         /\ cleanupFailure = None /\ prep = None /\ reset = None
         /\ current = None /\ draining = None /\ resetRuntime = None
         /\ \A u \in Tokens : u # t => ~closeErr[u]
<1>1. /\ cleanupFailure = None /\ prep = None /\ reset = None
      /\ current = None /\ draining = None /\ resetRuntime = None
  BY SMTT(60), TokenAssumption DEF ServerAccounted, SlotsExclusive, PoisonEmptiesSlots,
                         ResetHoldsRuntime
<1>2. ASSUME NEW u \in Tokens, u # t PROVE ~Running(u) /\ ~closeErr[u]
  <2>1. Accounted(u)
    BY SMTT(60) DEF ServerAccounted
  <2> QED BY SMTT(60), <1>1, <1>2, <2>1, TokenAssumption
          DEF Accounted, FailureAccounted, CloseOrder, Running
<1> QED BY SMTT(60), <1>1, <1>2

(* A start that owns the candidate slot moves on, or begins to unwind.     *)
LEMMA CandidateMoves ==
  ASSUME TypeOK, ServerAccounted, NEW t \in Tokens,
         NEW label \in CandidateLabels, Goto("start", t, label),
         pc[<<"start", t>>] \in CandidateLabels \ {"unwind"},
         stage' = IF label = "unwind" THEN [stage EXCEPT ![t] = "server"]
                                      ELSE stage,
         NEW v \in {server[t], "starting", "live", "unwound"},
         server' = [server EXCEPT ![t] = v],
         v = "starting" <=> label = "starting",
         label = "started" => v = "live",
         NEW e \in BOOLEAN, closeErr' = [closeErr EXCEPT ![t] = e],
         closeErr[t] => e, e => closeErr[t] \/ label = "unwind",
         UNCHANGED <<owners, cleanupFailure>>
  PROVE  ServerAccounted'
<1>1. Accounted(t) /\ candidate = t
  BY DEF ServerAccounted, Accounted, StartOwnsCandidate
<1>2. /\ \A u \in Tokens : u # t => ~Running(u)
      /\ cleanupFailure = None /\ prep = None /\ reset = None
      /\ current = None /\ draining = None /\ resetRuntime = None
  BY SMTT(60), <1>1, OthersStopped
<1>3. \A u \in Tokens \ {t} : server'[u] = server[u]
  BY SMTT(60) DEF TypeOK
<1>4. SlotsExclusive' /\ PoisonEmptiesSlots' /\ ResetHoldsRuntime'
  BY SMTT(60), <1>2 DEF ServerAccounted, SlotsExclusive, PoisonEmptiesSlots,
              ResetHoldsRuntime, owners
<1>5. SingleServer'
  BY SMTT(60), <1>2, <1>3 DEF SingleServer, Running
<1>6. ASSUME NEW u \in Tokens PROVE Accounted(u)'
  <2>1. Accounted(u) /\ Accounted(t)
    BY SMTT(60), <1>1 DEF ServerAccounted
  <2>2. /\ pc'[<<"start", u>>] = IF u = t THEN label ELSE pc[<<"start", u>>]
        /\ pc'[<<"reset", u>>] = pc[<<"reset", u>>]
        /\ pc'[<<"logout", u>>] = pc[<<"logout", u>>]
    BY ZenonT(60), StartPoints
  <2>3. /\ server'[u] = IF u = t THEN v ELSE server[u]
        /\ closeErr'[u] = IF u = t THEN e ELSE closeErr[u]
        /\ stage'[u] = IF u = t /\ label = "unwind" THEN "server" ELSE stage[u]
    BY DEF TypeOK
  <2>4. StartOwnsCandidate(u)'
    <3>1. CASE u = t
      BY SMTT(60), <1>1, <1>2, <2>2, <2>3, <3>1, TokenAssumption
         DEF Accounted, StartOwnsCandidate, CandidateLabels, owners
    <3>2. CASE u # t
      BY ZenonT(60), <1>1, <1>2, <2>1, <2>2, <2>3, <3>2, TokenAssumption
         DEF Accounted, StartOwnsCandidate, owners
    <3> QED BY SMTT(30), <3>1, <3>2
  <2>5. CloseOrder(u)'
    <3>1. CASE u = t
      BY SMTT(60), <1>1, <1>2, <2>1, <2>3, <3>1, TokenAssumption
         DEF Accounted, CloseOrder, StartOwnsCandidate, owners
    <3>2. CASE u # t
      BY ZenonT(60), <1>1, <1>2, <2>1, <2>3, <3>2, TokenAssumption
         DEF Accounted, CloseOrder, owners
    <3> QED BY <3>1, <3>2
  <2>6. FailureAccounted(u)'
    BY SMTT(60), <1>1, <1>2, <2>1, <2>2, <2>3, TokenAssumption
       DEF Accounted, FailureAccounted, owners
  <2>7. ResetOwnsSlot(u)'
    BY SMTT(60), <2>1, <2>2 DEF Accounted, ResetOwnsSlot, owners
  <2> QED BY SMTT(60), <2>4, <2>5, <2>6, <2>7 DEF Accounted
<1> QED BY SMTT(60), <1>4, <1>5, <1>6 DEF ServerAccounted

(* A reserved or adopted token becomes the candidate.                      *)
LEMMA CandidateAdmitted ==
  ASSUME TypeOK, ServerAccounted, NEW t \in Tokens,
         NEW label \in {"setup", "hostnet"}, Goto("start", t, label),
         pc[<<"start", t>>] = "admit",
         candidate = None, current = None, draining = None,
         reset = None, cleanupFailure = None,
         prep = None \/ (prep = t /\ prepPhase = "completed"),
         candidate' = t, prep' = None,
         UNCHANGED <<current, draining, reset, resetRuntime, cleanupFailure,
                     server, closeErr, stage>>
  PROVE  ServerAccounted'
<1>1. resetRuntime = None
  BY SMTT(60) DEF ServerAccounted, ResetHoldsRuntime
<1>2. /\ SlotsExclusive' /\ PoisonEmptiesSlots' /\ ResetHoldsRuntime'
      /\ SingleServer'
  BY SMTT(60), <1>1 DEF ServerAccounted, SlotsExclusive, PoisonEmptiesSlots,
              ResetHoldsRuntime, SingleServer, Running
<1>3. ASSUME NEW u \in Tokens PROVE Accounted(u)'
  <2>1. Accounted(u)
    BY SMTT(60) DEF ServerAccounted
  <2>2. /\ pc'[<<"start", u>>] = IF u = t THEN label ELSE pc[<<"start", u>>]
        /\ pc'[<<"reset", u>>] = pc[<<"reset", u>>]
        /\ pc'[<<"logout", u>>] = pc[<<"logout", u>>]
    BY ZenonT(60), StartPoints
  <2>3. StartOwnsCandidate(u)'
    BY ZenonT(60), <1>1, <2>1, <2>2, TokenAssumption
       DEF Accounted, StartOwnsCandidate, CandidateLabels
  <2>4. CloseOrder(u)'
    BY ZenonT(60), <1>1, <2>1, TokenAssumption DEF Accounted, CloseOrder
  <2>5. FailureAccounted(u)'
    BY SMTT(60), <1>1, <2>1, <2>2, TokenAssumption
       DEF Accounted, FailureAccounted, StartOwnsCandidate, CloseOrder
  <2>6. ResetOwnsSlot(u)'
    BY SMTT(60), <2>1, <2>2 DEF Accounted, ResetOwnsSlot
  <2> QED BY SMTT(60), <2>3, <2>4, <2>5, <2>6 DEF Accounted
<1> QED BY SMTT(60), <1>2, <1>3 DEF ServerAccounted
=============================================================================
