------------------------ MODULE OwnerMoves_proofs ------------------------
(***************************************************************************)
(* How ServerAccounted survives the end of a candidacy, and the moves of   *)
(* the two owners beside the runtime slots: the persistent preparation and *)
(* the local reset.                                                        *)
(***************************************************************************)
EXTENDS SlotMoves_proofs

USE DEF slots, exclusive, preparing, books, resources, identity, hostNetwork,
        config, reports, At, Goto

(* The candidate becomes the current runtime.                              *)
LEMMA CandidateCommitted ==
  ASSUME TypeOK, ServerAccounted, NEW t \in Tokens,
         Goto("start", t, "return"), pc[<<"start", t>>] = "started",
         candidate' = None, current' = t,
         UNCHANGED <<draining, reset, resetRuntime, prep, prepPhase,
                     cleanupFailure, server, closeErr, stage>>
  PROVE  ServerAccounted'
<1>1. Accounted(t) /\ candidate = t
  BY ZenonT(60) DEF ServerAccounted, Accounted, StartOwnsCandidate, CandidateLabels
<1>2. /\ cleanupFailure = None /\ prep = None /\ reset = None
      /\ current = None /\ draining = None /\ resetRuntime = None
  BY SMTT(60), <1>1, OthersStopped
<1>3. server[t] = "live" /\ stage[t] = "open" /\ ~closeErr[t]
  BY SMTT(60), <1>1, <1>2, TokenAssumption
     DEF Accounted, StartOwnsCandidate, CloseOrder
<1>4. /\ SlotsExclusive' /\ PoisonEmptiesSlots' /\ ResetHoldsRuntime'
      /\ SingleServer'
  BY SMTT(60), <1>2 DEF ServerAccounted, SlotsExclusive, PoisonEmptiesSlots,
              ResetHoldsRuntime, SingleServer, Running
<1>5. ASSUME NEW u \in Tokens PROVE Accounted(u)'
  <2>1. Accounted(u)
    BY SMTT(60) DEF ServerAccounted
  <2>2. /\ pc'[<<"start", u>>] = IF u = t THEN "return"
                                          ELSE pc[<<"start", u>>]
        /\ pc'[<<"reset", u>>] = pc[<<"reset", u>>]
        /\ pc'[<<"logout", u>>] = pc[<<"logout", u>>]
    BY ZenonT(60), StartPoints
  <2>3. StartOwnsCandidate(u)'
    BY SMTT(30), <1>1, <1>2, <1>3, <2>1, <2>2, TokenAssumption
       DEF Accounted, StartOwnsCandidate, CandidateLabels
  <2>4. CloseOrder(u)'
    BY SMTT(30), <1>1, <1>2, <1>3, <2>1, TokenAssumption DEF Accounted, CloseOrder
  <2>5. FailureAccounted(u)'
    BY SMTT(60), <1>1, <1>2, <1>3, <2>1, <2>2, TokenAssumption
       DEF Accounted, FailureAccounted
  <2>6. ResetOwnsSlot(u)'
    BY SMTT(60), <2>1, <2>2 DEF Accounted, ResetOwnsSlot
  <2> QED BY SMTT(60), <2>3, <2>4, <2>5, <2>6 DEF Accounted
<1> QED BY SMTT(60), <1>4, <1>5 DEF ServerAccounted

(* The unwound candidate is released.                                      *)
LEMMA CandidateReleased ==
  ASSUME TypeOK, ServerAccounted, NEW t \in Tokens, ReleaseCandidate(t)
  PROVE  ServerAccounted'
<1>1. Accounted(t) /\ candidate = t
  BY SMTT(60) DEF ServerAccounted, Accounted, StartOwnsCandidate, CandidateLabels,
         ReleaseCandidate
<1>2. /\ cleanupFailure = None /\ prep = None /\ reset = None
      /\ current = None /\ draining = None /\ resetRuntime = None
  BY SMTT(60), <1>1, OthersStopped
<1>3. /\ candidate' = None /\ stage[t] = "closed"
      /\ UNCHANGED <<current, draining, reset, resetRuntime, prep, prepPhase,
                     server, closeErr, stage>>
      /\ cleanupFailure' = IF closeErr[t] THEN t ELSE None
  BY ZenonT(60), <1>1, <1>2 DEF ReleaseCandidate, RecordCleanupFailure
<1>4. /\ SlotsExclusive' /\ PoisonEmptiesSlots' /\ ResetHoldsRuntime'
      /\ SingleServer'
  BY SMTT(60), <1>2, <1>3 DEF ServerAccounted, SlotsExclusive, PoisonEmptiesSlots,
                    ResetHoldsRuntime, SingleServer, Running
<1>5. ASSUME NEW u \in Tokens PROVE Accounted(u)'
  <2>1. Accounted(u)
    BY DEF ServerAccounted
  <2>2. /\ pc'[<<"start", u>>] = IF u = t THEN "return"
                                          ELSE pc[<<"start", u>>]
        /\ pc'[<<"reset", u>>] = pc[<<"reset", u>>]
        /\ pc'[<<"logout", u>>] = pc[<<"logout", u>>]
    BY ZenonT(60), StartPoints DEF ReleaseCandidate
  <2>3. StartOwnsCandidate(u)'
    BY ZenonT(60), <1>1, <1>2, <1>3, <2>1, <2>2, TokenAssumption
       DEF Accounted, StartOwnsCandidate, CandidateLabels
  <2>4. CloseOrder(u)'
    BY SMTT(60), <1>1, <1>2, <1>3, <2>1, TokenAssumption DEF Accounted, CloseOrder
  <2>5. FailureAccounted(u)'
    BY SMTT(60), <1>1, <1>2, <1>3, <2>1, <2>2, TokenAssumption
       DEF Accounted, FailureAccounted, CloseOrder
  <2>6. ResetOwnsSlot(u)'
    BY ZenonT(60), <1>3, <2>1, <2>2 DEF Accounted, ResetOwnsSlot
  <2> QED BY SMTT(60), <2>3, <2>4, <2>5, <2>6 DEF Accounted
<1> QED BY SMTT(60), <1>4, <1>5 DEF ServerAccounted

(* The preparation moves between its phases.                               *)
LEMMA PreparationMoves ==
  ASSUME TypeOK, ServerAccounted, NEW t \in Tokens, prep = t, prep' = t,
         NEW e \in BOOLEAN, closeErr' = [closeErr EXCEPT ![t] = e],
         e => cleanupFailure' # None \/ prepPhase' = "finishing",
         cleanupFailure # None => cleanupFailure' # None,
         server[t] = "unknown" => e,
         \A u \in Tokens : SamePoint(u),
         UNCHANGED <<candidate, current, draining, reset, resetRuntime,
                     server, stage>>
  PROVE  ServerAccounted'
<1>1. /\ candidate = None /\ current = None /\ draining = None
      /\ reset = None /\ resetRuntime = None
  BY SMTT(60), TokenAssumption DEF ServerAccounted, SlotsExclusive, ResetHoldsRuntime
<1>2. /\ SlotsExclusive' /\ PoisonEmptiesSlots' /\ ResetHoldsRuntime'
      /\ SingleServer'
  BY SMTT(60), <1>1 DEF ServerAccounted, SlotsExclusive, PoisonEmptiesSlots,
              ResetHoldsRuntime, SingleServer, Running
<1>3. ASSUME NEW u \in Tokens PROVE Accounted(u)'
  <2>1. Accounted(u) /\ SamePoint(u)
    BY SMTT(60) DEF ServerAccounted
  <2>2. closeErr'[u] = IF u = t THEN e ELSE closeErr[u]
    BY SMTT(60) DEF TypeOK
  <2>3. StartOwnsCandidate(u)'
    BY ZenonT(60), <1>1, <2>1, TokenAssumption
       DEF Accounted, StartOwnsCandidate, CandidateLabels, SamePoint
  <2>4. CloseOrder(u)'
    BY ZenonT(60), <1>1, <2>1, <2>2, TokenAssumption DEF Accounted, CloseOrder
  <2>5. FailureAccounted(u)'
    BY ZenonT(60), <1>1, <2>1, <2>2, TokenAssumption
       DEF Accounted, FailureAccounted, SamePoint
  <2>6. ResetOwnsSlot(u)'
    BY SMTT(60), <2>1 DEF Accounted, ResetOwnsSlot, SamePoint
  <2> QED BY SMTT(60), <2>3, <2>4, <2>5, <2>6 DEF Accounted
<1> QED BY SMTT(60), <1>2, <1>3 DEF ServerAccounted

(* The preparation slot is taken, or given back after its cleanup.         *)
LEMMA PreparationSlot ==
  ASSUME TypeOK, ServerAccounted, NEW t \in Tokens,
         \/ /\ prep = None /\ prep' = t /\ reset = None
            /\ candidate = None /\ current = None /\ draining = None
            /\ cleanupFailure = None /\ pc[<<"start", t>>] = "idle"
         \/ prep = t /\ prepPhase = "cleaned" /\ prep' = None,
         \A u \in Tokens : SamePoint(u),
         UNCHANGED <<candidate, current, draining, reset, resetRuntime,
                     outcomes>>
  PROVE  ServerAccounted'
<1>1. /\ candidate = None /\ current = None /\ draining = None
      /\ reset = None /\ resetRuntime = None
  BY SMTT(60), TokenAssumption DEF ServerAccounted, SlotsExclusive, ResetHoldsRuntime
<1>2. /\ SlotsExclusive' /\ PoisonEmptiesSlots' /\ ResetHoldsRuntime'
      /\ SingleServer'
  BY SMTT(60), <1>1 DEF ServerAccounted, SlotsExclusive, PoisonEmptiesSlots,
              ResetHoldsRuntime, SingleServer, Running, outcomes
<1>3. ASSUME NEW u \in Tokens PROVE Accounted(u)'
  <2>1. Accounted(u) /\ SamePoint(u)
    BY SMTT(60) DEF ServerAccounted
  <2>3. StartOwnsCandidate(u)'
    BY SMTT(60), <1>1, <2>1, TokenAssumption
       DEF Accounted, StartOwnsCandidate, CandidateLabels, SamePoint, outcomes
  <2>2. UNCHANGED <<stage, server, closeErr, cleanupFailure>>
    BY DEF outcomes
  <2>4. CloseOrder(u)'
    <3>1. CASE prep = None /\ prep' = t /\ pc[<<"start", t>>] = "idle"
      <4>1. prep' = u => stage[u] = "open"
        BY SMTT(60), <2>1, <3>1 DEF Accounted, StartOwnsCandidate
      <4>2. closeErr[u] /\ stage[u] = "open" => cleanupFailure # None
        <5>1. prep # u
          BY SMTT(30), <3>1, TokenAssumption
        <5>2. CloseOrder(u)
          BY SMTT(30), <2>1 DEF Accounted
        <5> QED BY ZenonT(60), <5>1, <5>2 DEF CloseOrder
      <4> QED BY SMTT(60), <1>1, <2>1, <2>2, <4>1, <4>2 DEF Accounted, CloseOrder
    <3>2. CASE prep = t /\ prepPhase = "cleaned" /\ prep' = None
      <4>1. closeErr[u] => cleanupFailure # None
        BY SMTT(60), <1>1, <2>1, <3>2, TokenAssumption
           DEF Accounted, FailureAccounted
      <4> QED BY SMTT(60), <1>1, <2>1, <2>2, <3>2, <4>1, TokenAssumption
            DEF Accounted, CloseOrder
    <3> QED BY ZenonT(60), <3>1, <3>2
  <2>5. FailureAccounted(u)'
    BY ZenonT(60), <1>1, <2>1, TokenAssumption
       DEF Accounted, FailureAccounted, SamePoint, outcomes
  <2>6. ResetOwnsSlot(u)'
    BY SMTT(30), <2>1 DEF Accounted, ResetOwnsSlot, SamePoint
  <2> QED BY SMTT(60), <2>3, <2>4, <2>5, <2>6 DEF Accounted
<1> QED BY SMTT(60), <1>2, <1>3 DEF ServerAccounted

(* What a move of the reset call leaves at the points that matter.         *)
LEMMA ResetPoints ==
  ASSUME TypeOK, NEW r \in Tokens, NEW label, Goto("reset", r, label),
         NEW u \in Tokens
  PROVE  /\ pc'[<<"reset", u>>] = IF u = r THEN label ELSE pc[<<"reset", u>>]
         /\ pc'[<<"start", u>>] = pc[<<"start", u>>]
         /\ pc'[<<"logout", u>>] = pc[<<"logout", u>>]
BY SMTT(60) DEF TypeOK, Ops

(* A reset that owns its slot goes on, may poison, and may let go of the   *)
(* runtime it has closed cleanly, or of the slot.                          *)
LEMMA ResetMoves ==
  ASSUME TypeOK, ServerAccounted, NEW r \in Tokens,
         pc[<<"reset", r>>] \in ResetLabels, NEW label,
         Goto("reset", r, label),
         resetRuntime' \in {resetRuntime, None},
         resetRuntime # None =>
           stage[resetRuntime] = "closed" /\
           (closeErr[resetRuntime] => cleanupFailure' # None),
         cleanupFailure # None => cleanupFailure' # None,
         label \in ResetAloneLabels => resetRuntime' = None,
         label # "closing",
         \/ reset' = r
         \/ reset' = None /\ resetRuntime' = None /\ label \notin ResetLabels,
         UNCHANGED <<candidate, current, draining, prep, prepPhase, server,
                     closeErr, stage>>
  PROVE  ServerAccounted'
<1>1. /\ reset = r
      /\ candidate = None /\ current = None /\ draining = None /\ prep = None
  BY SMTT(60), TokenAssumption
     DEF ServerAccounted, SlotsExclusive, Accounted, ResetOwnsSlot
<1>2. /\ SlotsExclusive' /\ PoisonEmptiesSlots' /\ ResetHoldsRuntime'
      /\ SingleServer'
  BY SMTT(60), <1>1, TokenAssumption
     DEF ServerAccounted, SlotsExclusive, PoisonEmptiesSlots,
         ResetHoldsRuntime, SingleServer, Running
<1>3. ASSUME NEW u \in Tokens PROVE Accounted(u)'
  <2>1. Accounted(u)
    BY SMTT(60) DEF ServerAccounted
  <2>2. /\ pc'[<<"reset", u>>] = IF u = r THEN label ELSE pc[<<"reset", u>>]
        /\ pc'[<<"start", u>>] = pc[<<"start", u>>]
        /\ pc'[<<"logout", u>>] = pc[<<"logout", u>>]
    BY ZenonT(60), ResetPoints
  <2>3. StartOwnsCandidate(u)'
    BY SMTT(30), <1>1, <2>1, <2>2 DEF Accounted, StartOwnsCandidate
  <2>4. CloseOrder(u)'
    BY ZenonT(60), <1>1, <2>1, TokenAssumption DEF Accounted, CloseOrder
  <2>5. FailureAccounted(u)'
    BY SMTT(60), <1>1, <2>1, <2>2, TokenAssumption
       DEF Accounted, FailureAccounted, CloseOrder
  <2>6. ResetOwnsSlot(u)'
    <3>1. u # r => pc[<<"reset", u>>] \notin ResetLabels
      BY ZenonT(60), <1>1, <2>1 DEF Accounted, ResetOwnsSlot
    <3> QED BY ZenonT(60), <1>1, <2>1, <2>2, <3>1, TokenAssumption
            DEF Accounted, ResetOwnsSlot, ResetLabels, ResetAloneLabels
  <2> QED BY ZenonT(60), <2>3, <2>4, <2>5, <2>6 DEF Accounted
<1> QED BY SMTT(60), <1>2, <1>3 DEF ServerAccounted

(* BeginLocalReset: refused, or with an empty root, or taking the current  *)
(* runtime, whose Server is accounted for by resetRuntime from then on.    *)
LEMMA ResetBegins ==
  ASSUME TypeOK, ServerAccounted, NEW r \in Tokens, BeginLocalReset(r)
  PROVE  ServerAccounted'
<1>1. PICK label \in {"done", "acquire", "closing"} :
        /\ pc' = [pc EXCEPT ![<<"reset", r>>] = label,
                            ![<<"start", r>>] = "done"]
        /\ \/ label = "done" /\ UNCHANGED <<slots, reset, resetRuntime>>
           \/ /\ label = "acquire" /\ reset = None /\ current = None
              /\ prep = None /\ candidate = None /\ draining = None
              /\ cleanupFailure = None
              /\ reset' = r /\ UNCHANGED <<slots, resetRuntime>>
           \/ /\ label = "closing" /\ reset = None /\ current # None
              /\ prep = None /\ candidate = None /\ draining = None
              /\ cleanupFailure = None /\ TakeRuntime(r)
  BY ZenonT(60) DEF BeginLocalReset
<1>2. /\ pc[<<"reset", r>>] = "idle" /\ pc[<<"start", r>>] = "idle"
      /\ UNCHANGED <<prep, prepPhase, cleanupFailure, server, closeErr>>
  BY SMTT(30) DEF BeginLocalReset
<1>3. ASSUME NEW u \in Tokens
      PROVE  /\ pc'[<<"reset", u>>] = IF u = r THEN label
                                               ELSE pc[<<"reset", u>>]
             /\ pc'[<<"start", u>>] = IF u = r THEN "done"
                                               ELSE pc[<<"start", u>>]
             /\ pc'[<<"logout", u>>] = pc[<<"logout", u>>]
  BY SMTT(60), <1>1 DEF TypeOK, Ops
<1>4. Accounted(r)
  BY SMTT(60) DEF ServerAccounted
<1>5. CASE label = "done"
  <2>1. UNCHANGED <<slots, reset, resetRuntime>>
    BY SMTT(60), <1>1, <1>5
  <2>2. /\ SlotsExclusive' /\ PoisonEmptiesSlots' /\ ResetHoldsRuntime'
        /\ SingleServer'
    BY ZenonT(60), <1>2, <2>1 DEF ServerAccounted, SlotsExclusive, PoisonEmptiesSlots,
                ResetHoldsRuntime, SingleServer, Running
  <2>3. ASSUME NEW u \in Tokens PROVE Accounted(u)'
    <3>1. Accounted(u)
      BY DEF ServerAccounted
    <3> QED BY ZenonT(60), <1>2, <1>3, <1>5, <2>1, <3>1
            DEF Accounted, StartOwnsCandidate, CandidateLabels, CloseOrder,
                FailureAccounted, ResetOwnsSlot, ResetLabels, ResetAloneLabels
  <2> QED BY SMTT(60), <2>2, <2>3 DEF ServerAccounted
<1>6. CASE label = "acquire"
  <2>1. /\ reset = None /\ current = None /\ prep = None /\ candidate = None
        /\ draining = None /\ cleanupFailure = None
        /\ reset' = r /\ UNCHANGED <<slots, resetRuntime>>
        /\ resetRuntime = None
    BY <1>1, <1>6 DEF ServerAccounted, ResetHoldsRuntime
  <2>2. /\ SlotsExclusive' /\ PoisonEmptiesSlots' /\ ResetHoldsRuntime'
        /\ SingleServer'
    BY ZenonT(60), <1>2, <2>1 DEF ServerAccounted, SlotsExclusive, PoisonEmptiesSlots,
                ResetHoldsRuntime, SingleServer, Running
  <2>3. ASSUME NEW u \in Tokens PROVE Accounted(u)'
    <3>1. Accounted(u)
      BY DEF ServerAccounted
    <3>2. StartOwnsCandidate(u)' /\ CloseOrder(u)' /\ FailureAccounted(u)'
      BY ZenonT(60), <1>2, <1>3, <2>1, <3>1, TokenAssumption
         DEF Accounted, StartOwnsCandidate, CandidateLabels, CloseOrder,
             FailureAccounted
    <3>3. ResetOwnsSlot(u)'
      BY ZenonT(60), <1>2, <1>3, <1>6, <2>1, <3>1, TokenAssumption
         DEF Accounted, ResetOwnsSlot, ResetLabels, ResetAloneLabels
    <3> QED BY SMTT(60), <3>2, <3>3 DEF Accounted
  <2> QED BY <2>2, <2>3 DEF ServerAccounted
<1>7. CASE label = "closing"
  <2>1. /\ reset = None /\ current \in Tokens /\ prep = None
        /\ candidate = None /\ draining = None /\ cleanupFailure = None
        /\ resetRuntime = None
    BY SMTT(60), <1>1, <1>7 DEF ServerAccounted, ResetHoldsRuntime, TypeOK, MaybeToken
  <2>2. /\ reset' = r /\ resetRuntime' = current /\ current' = None
        /\ stage' = [stage EXCEPT ![current] = "server"]
        /\ UNCHANGED <<candidate, draining>>
    BY SMTT(60), <1>1, <1>7 DEF TakeRuntime
  <2>3. /\ SlotsExclusive' /\ PoisonEmptiesSlots' /\ ResetHoldsRuntime'
        /\ SingleServer'
    BY SMTT(60), <1>2, <2>1, <2>2, TokenAssumption
       DEF ServerAccounted, SlotsExclusive, PoisonEmptiesSlots,
           ResetHoldsRuntime, SingleServer, Running
  <2>4. ASSUME NEW u \in Tokens PROVE Accounted(u)'
    <3>1. Accounted(u)
      BY DEF ServerAccounted
    <3>2. stage'[u] = IF u = current THEN "server" ELSE stage[u]
      BY ZenonT(60), <2>1, <2>2 DEF TypeOK
    <3>3. StartOwnsCandidate(u)'
      BY ZenonT(60), <1>2, <1>3, <2>1, <2>2, <3>1, <3>2, TokenAssumption
         DEF Accounted, StartOwnsCandidate, CandidateLabels
    <3>4. CloseOrder(u)'
      <4>1. CASE u = current
        BY SMTT(60), <1>2, <2>1, <2>2, <3>1, <3>2, <4>1, TokenAssumption
           DEF Accounted, CloseOrder
      <4>2. CASE u # current
        BY SMTT(60), <1>2, <2>1, <2>2, <3>1, <3>2, <4>2, TokenAssumption
           DEF Accounted, CloseOrder
      <4> QED BY SMTT(60), <4>1, <4>2
    <3>5. FailureAccounted(u)'
      BY ZenonT(60), <1>2, <1>3, <2>1, <2>2, <3>1, <3>2, TokenAssumption
         DEF Accounted, FailureAccounted, CloseOrder
    <3>6. ResetOwnsSlot(u)'
      BY ZenonT(60), <1>2, <1>3, <1>7, <2>1, <2>2, <3>1, TokenAssumption
         DEF Accounted, ResetOwnsSlot, ResetLabels, ResetAloneLabels
    <3> QED BY SMTT(60), <3>3, <3>4, <3>5, <3>6 DEF Accounted
  <2> QED BY <2>3, <2>4 DEF ServerAccounted
<1> QED BY SMTT(60), <1>5, <1>6, <1>7

=============================================================================
