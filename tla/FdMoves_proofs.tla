--------------------------- MODULE FdMoves_proofs ---------------------------
(***************************************************************************)
(* The inductive invariant behind ResourcesAreOwned, and what each kind of *)
(* move of the actions does to it.                                         *)
(*                                                                         *)
(* ResourcesAreOwned is not inductive.  That a taken or removed entry      *)
(* never leaves an open socket behind needs to know that only a closed     *)
(* binding is drained (DrainedIsClosed) and that a call which has not      *)
(* opened its socket owns nothing (Untouched); that a handle finds only    *)
(* its own resource needs the ids to be distinct (IdsAreFresh).            *)
(*                                                                         *)
(* A move lemma is about the few facts an action gives of the variables    *)
(* the invariant reads; FdResources_proofs finds the move of each action.  *)
(***************************************************************************)
EXTENDS FdResources, TLAPS

(* What the argument reads of the state. *)
own == <<kind, current, stage, entries, shut, call, token, lastId, id, sock,
         closer, drainer, goroutines, target, hit, transport>>

CallStates == {"idle", "asked", "gated", "ready", "opened", "bound", "refused",
               "failed"}
Stages == {"none", "live", "transport", "swept"} \cup Kinds

OwnType ==
  /\ kind \in [Handles -> Kinds]
  /\ current \in Gens \cup {None}
  /\ stage \in [Gens -> Stages]
  /\ entries \in [Gens -> SUBSET Handles]
  /\ shut \in [Gens -> SUBSET Kinds]
  /\ call \in [Handles -> CallStates]
  /\ token \in [Handles -> Gens \cup {None}]
  /\ lastId \in [Kinds -> Nat] /\ id \in [Handles -> Nat]
  /\ sock \in [Handles -> {"none", "open", "closed"}]
  /\ closer \in [Handles -> SUBSET Actors]
  /\ drainer \in [Handles -> SUBSET Actors]
  /\ goroutines \in [Handles -> SUBSET Actors]
  /\ target \in [Handles -> Handles \cup {None}]
  /\ hit \in [Handles -> Handles \cup {None}]
  /\ transport \in [Gens -> {"none", "pooled", "closed"}]

(* A call that has not opened its socket owns nothing, goroutines and      *)
(* closes belong to bound resources only, and a call that was made carries *)
(* a runtime's token.                                                      *)
Untouched ==
  \A h \in Handles :
    /\ call[h] \in {"idle", "asked", "gated", "ready"} => sock[h] = "none"
    /\ closer[h] # {} \/ drainer[h] # {} \/ goroutines[h] # {} => call[h] = "bound"
    /\ call[h] # "idle" => token[h] \in Gens

(* What is registered was bound by a call of that runtime, under an id. *)
EntriesAreBound ==
  \A g \in Gens : \A h \in entries[g] :
    call[h] = "bound" /\ token[h] = g /\ id[h] > 0 /\ kind[h] \notin shut[g]

IdsAreFresh ==
  /\ \A h \in Handles : id[h] <= lastId[kind[h]]
  /\ \A h, x \in Handles :
       kind[h] = kind[x] /\ id[h] = id[x] /\ id[h] > 0 => h = x

DrainedIsClosed == \A h \in Handles : drainer[h] # {} => sock[h] = "closed"

SocketsAreOwned ==
  \A h \in Handles : sock[h] = "open" =>
    \/ call[h] \in {"opened", "refused"}
    \/ h \in entries[token[h]]
    \/ closer[h] # {}

SweptIsClosed == \A g \in Gens : stage[g] = "swept" => transport[g] = "closed"

OwnInv ==
  /\ OwnType /\ Untouched /\ EntriesAreBound /\ IdsAreFresh
  /\ DrainedIsClosed /\ SocketsAreOwned /\ SweptIsClosed /\ HandlesAreExact

-----------------------------------------------------------------------------
(* Initially nothing is owned. *)
LEMMA InitOwn == Init => OwnInv
BY FdAssumption
   DEF Init, OwnInv, OwnType, Untouched, EntriesAreBound, IdsAreFresh,
       DrainedIsClosed, SocketsAreOwned, SweptIsClosed, HandlesAreExact,
       Stages, CallStates

(* Removing no handle removes nothing. *)
LEMMA RemoveNone ==
  ASSUME OwnInv
  PROVE  Remove(None) = entries
<1>1. \A g \in Gens : entries[g] \ {None} = entries[g]
  BY FdAssumption DEF OwnInv, OwnType
<1>2. entries = [g \in Gens |-> entries[g]]
  BY DEF OwnInv, OwnType
<1> QED
  BY <1>1, <1>2 DEF Remove

(* Steps that touch none of this keep it. *)
LEMMA QuietKeeps ==
  ASSUME OwnInv, UNCHANGED own
  PROVE  OwnInv'
BY DEF OwnInv, own, OwnType, Untouched, EntriesAreBound, IdsAreFresh,
       DrainedIsClosed, SocketsAreOwned, SweptIsClosed, HandlesAreExact

(* A runtime's life and sweep go on; the transport is closed with the sweep. *)
LEMMA StageMoves ==
  ASSUME OwnInv,
         current' \in Gens \cup {None},
         stage' \in [Gens -> Stages],
         transport' \in [Gens -> {"none", "pooled", "closed"}],
         \A g \in Gens : stage'[g] = "swept" =>
           stage[g] = "swept" \/ transport'[g] = "closed",
         \A g \in Gens : transport[g] = "closed" => transport'[g] = "closed",
         UNCHANGED <<kind, entries, shut, call, token, lastId, id, sock,
                     closer, drainer, goroutines, target, hit>>
  PROVE  OwnInv'
<1>1. OwnType'
  BY DEF OwnInv, OwnType
<1>2. SweptIsClosed'
  BY DEF OwnInv, OwnType, SweptIsClosed
<1>3. Untouched' /\ EntriesAreBound' /\ IdsAreFresh' /\ DrainedIsClosed' /\
      SocketsAreOwned' /\ HandlesAreExact'
  BY DEF OwnInv, Untouched, EntriesAreBound, IdsAreFresh,
         DrainedIsClosed, SocketsAreOwned, HandlesAreExact
<1> QED
  BY <1>1, <1>2, <1>3 DEF OwnInv

(* What drain takes out of a registry is in the sweep's hands. *)
LEMMA DrainMoves ==
  ASSUME OwnInv,
         NEW g \in Gens,
         NEW drained \in SUBSET entries[g],
         drained = {h \in entries[g] : kind[h] = stage[g]},
         stage[g] \in Kinds,
         shut' = [shut EXCEPT ![g] = @ \cup {stage[g]}],
         entries' = [entries EXCEPT ![g] = @ \ drained],
         closer' = [h \in Handles |->
           IF h \in drained THEN closer[h] \cup {"sweep"} ELSE closer[h]],
         UNCHANGED <<kind, current, stage, call, token, lastId, id, sock,
                     drainer, goroutines, target, hit, transport>>
  PROVE  OwnInv'
<1>1. OwnType'
  BY DEF OwnInv, OwnType, Actors
<1>2. Untouched'
  BY DEF OwnInv, OwnType, Untouched, EntriesAreBound
<1>3. EntriesAreBound'
  BY SMTT(30) DEF OwnInv, OwnType, EntriesAreBound
<1>4. SocketsAreOwned'
  <2> SUFFICES ASSUME NEW x \in Handles, sock[x] = "open"
               PROVE  \/ call[x] \in {"opened", "refused"}
                      \/ x \in entries'[token[x]]
                      \/ closer'[x] # {}
    BY DEF SocketsAreOwned
  <2>1. CASE x \in drained
    BY <2>1
  <2>2. CASE x \notin drained
    <3>1. x \in entries[token[x]] => x \in entries'[token[x]]
      BY <2>2 DEF OwnInv, OwnType
    <3> QED
      BY <2>2, <3>1 DEF OwnInv, SocketsAreOwned
  <2> QED
    BY SMTT(30), <2>1, <2>2
<1>5. IdsAreFresh' /\ DrainedIsClosed' /\ SweptIsClosed' /\ HandlesAreExact'
  BY SMTT(30) DEF OwnInv, IdsAreFresh, DrainedIsClosed, SweptIsClosed,
         HandlesAreExact
<1> QED
  BY SMTT(30), <1>1, <1>2, <1>3, <1>4, <1>5 DEF OwnInv

(* A call that has opened nothing is asked, gated, made ready or failed. *)
LEMMA CallMoves ==
  ASSUME OwnInv,
         NEW h \in Handles,
         NEW v \in {"asked", "gated", "ready", "failed"},
         call[h] \in {"idle", "asked", "gated", "ready"},
         call' = [call EXCEPT ![h] = v],
         token' \in [Handles -> Gens \cup {None}],
         token'[h] \in Gens,
         \A x \in Handles \ {h} : token'[x] = token[x],
         UNCHANGED <<kind, current, stage, entries, shut, lastId, id,
                     sock, closer, drainer, goroutines, target,
                     hit, transport>>
  PROVE  OwnInv'
<1>1. OwnType'
  BY Zenon DEF OwnInv, OwnType, CallStates
<1>2. Untouched'
  BY DEF OwnInv, OwnType, Untouched
<1>3. EntriesAreBound'
  BY DEF OwnInv, OwnType, EntriesAreBound
<1>4. SocketsAreOwned'
  BY SMTT(30) DEF OwnInv, OwnType, SocketsAreOwned, Untouched
<1>5. IdsAreFresh' /\ DrainedIsClosed' /\ SweptIsClosed' /\ HandlesAreExact'
  BY DEF OwnInv, IdsAreFresh, DrainedIsClosed, SweptIsClosed,
         HandlesAreExact
<1> QED
  BY <1>1, <1>2, <1>3, <1>4, <1>5 DEF OwnInv

(* The call owns the socket it opened. *)
LEMMA OpenMoves ==
  ASSUME OwnInv,
         NEW h \in Handles,
         call[h] = "ready",
         call' = [call EXCEPT ![h] = "opened"],
         sock' = [sock EXCEPT ![h] = "open"],
         UNCHANGED <<kind, current, stage, entries, shut, token, lastId,
                     id, closer, drainer, goroutines, target,
                     hit, transport>>
  PROVE  OwnInv'
<1>1. OwnType'
  BY DEF OwnInv, OwnType, CallStates
<1>2. Untouched'
  BY DEF OwnInv, OwnType, Untouched
<1>3. EntriesAreBound'
  BY DEF OwnInv, OwnType, EntriesAreBound
<1>4. DrainedIsClosed'
  BY DEF OwnInv, OwnType, DrainedIsClosed, Untouched
<1>5. SocketsAreOwned'
  BY DEF OwnInv, OwnType, SocketsAreOwned
<1>6. IdsAreFresh' /\ SweptIsClosed' /\ HandlesAreExact'
  BY DEF OwnInv, IdsAreFresh, SweptIsClosed, HandlesAreExact
<1> QED
  BY SMTT(30), <1>1, <1>2, <1>3, <1>4, <1>5, <1>6 DEF OwnInv

(* A call that gives up closes its socket. *)
LEMMA AbandonMoves ==
  ASSUME OwnInv,
         NEW h \in Handles,
         call[h] \in {"opened", "refused"},
         call' = [call EXCEPT ![h] = "failed"],
         sock' = [sock EXCEPT ![h] = "closed"],
         UNCHANGED <<kind, current, stage, entries, shut, token, lastId,
                     id, closer, drainer, goroutines, target,
                     hit, transport>>
  PROVE  OwnInv'
<1>1. OwnType'
  BY DEF OwnInv, OwnType, CallStates
<1>2. Untouched'
  BY DEF OwnInv, OwnType, Untouched
<1>3. EntriesAreBound'
  BY DEF OwnInv, OwnType, EntriesAreBound
<1>4. DrainedIsClosed'
  BY DEF OwnInv, OwnType, DrainedIsClosed
<1>5. SocketsAreOwned'
  BY DEF OwnInv, OwnType, SocketsAreOwned
<1>6. IdsAreFresh' /\ SweptIsClosed' /\ HandlesAreExact'
  BY DEF OwnInv, IdsAreFresh, SweptIsClosed, HandlesAreExact
<1> QED
  BY SMTT(30), <1>1, <1>2, <1>3, <1>4, <1>5, <1>6 DEF OwnInv

(* A refused commit has used up an id. *)
LEMMA IdMoves ==
  ASSUME OwnInv,
         NEW h \in Handles,
         NEW n \in Nat,
         n = lastId[kind[h]] + 1,
         call[h] = "opened",
         call' = [call EXCEPT ![h] = "refused"],
         id' = [id EXCEPT ![h] = n],
         lastId' = [lastId EXCEPT ![kind[h]] = n],
         UNCHANGED <<kind, current, stage, entries, shut, token, sock,
                     closer, drainer, goroutines, target, hit,
                     transport>>
  PROVE  OwnInv'
<1>1. OwnType'
  BY SMTT(30) DEF OwnInv, OwnType, CallStates
<1>2. Untouched'
  BY DEF OwnInv, OwnType, Untouched
<1>3. EntriesAreBound'
  BY SMTT(30) DEF OwnInv, OwnType, EntriesAreBound
<1>4. IdsAreFresh'
  BY DEF OwnInv, OwnType, IdsAreFresh
<1>5. SocketsAreOwned'
  BY ZenonT(60) DEF OwnInv, OwnType, SocketsAreOwned
<1>6. DrainedIsClosed' /\ SweptIsClosed' /\ HandlesAreExact'
  BY SMTT(30) DEF OwnInv, DrainedIsClosed, SweptIsClosed, HandlesAreExact
<1> QED
  BY SMTT(30), <1>1, <1>2, <1>3, <1>4, <1>5, <1>6 DEF OwnInv

(* An admitted socket passes from its call to a registry that is not yet swept. *)
LEMMA CommitMoves ==
  ASSUME OwnInv,
         NEW h \in Handles,
         NEW n \in Nat,
         n = lastId[kind[h]] + 1,
         call[h] = "opened",
         kind[h] \notin shut[token[h]],
         call' = [call EXCEPT ![h] = "bound"],
         id' = [id EXCEPT ![h] = n],
         lastId' = [lastId EXCEPT ![kind[h]] = n],
         entries' = [entries EXCEPT ![token[h]] = @ \cup {h}],
         goroutines' \in [Handles -> SUBSET Actors],
         \A x \in Handles \ {h} : goroutines'[x] = goroutines[x],
         UNCHANGED <<kind, current, stage, shut, token, sock, closer,
                     drainer, target, hit, transport>>
  PROVE  OwnInv'
<1>1. OwnType'
  BY Zenon DEF OwnInv, OwnType, CallStates, Untouched
<1>2. Untouched'
  BY DEF OwnInv, OwnType, Untouched
<1>3. EntriesAreBound'
  <2>1. token[h] \in Gens /\ \A g \in Gens : h \notin entries[g]
    BY SMTT(30) DEF OwnInv, EntriesAreBound, Untouched
  <2> SUFFICES ASSUME NEW g \in Gens, NEW x \in entries'[g]
               PROVE  /\ call'[x] = "bound" /\ token[x] = g
                      /\ id'[x] > 0 /\ kind[x] \notin shut[g]
    BY SMTT(30) DEF EntriesAreBound
  <2>2. CASE x = h
    <3>1. g = token[h]
      BY SMTT(30), <2>1, <2>2 DEF OwnInv, OwnType
    <3>2. id'[h] = lastId[kind[h]] + 1 /\ lastId[kind[h]] \in Nat
      BY SMTT(30) DEF OwnInv, OwnType
    <3> QED
      BY SMTT(30), <2>2, <3>1, <3>2 DEF OwnInv, OwnType
  <2>3. CASE x # h
    <3>1. x \in entries[g] /\ x \in Handles
      BY SMTT(30), <2>3 DEF OwnInv, OwnType
    <3> QED
      BY SMTT(30), <2>3, <3>1 DEF OwnInv, OwnType, EntriesAreBound
  <2> QED
    BY SMTT(30), <2>2, <2>3
<1>4. IdsAreFresh'
  BY DEF OwnInv, OwnType, IdsAreFresh
<1>5. SocketsAreOwned'
  BY ZenonT(60) DEF OwnInv, OwnType, SocketsAreOwned, Untouched
<1>6. DrainedIsClosed' /\ SweptIsClosed' /\ HandlesAreExact'
  BY DEF OwnInv, DrainedIsClosed, SweptIsClosed, HandlesAreExact
<1> QED
  BY <1>1, <1>2, <1>3, <1>4, <1>5, <1>6 DEF OwnInv

(* A close ends with the socket closed; the entry may go, and a binding may be drained. *)
LEMMA CloseMoves ==
  ASSUME OwnInv,
         NEW h \in Handles,
         NEW a \in Actors,
         a \in closer[h],
         closer' = [closer EXCEPT ![h] = @ \ {a}],
         sock' = [sock EXCEPT ![h] = "closed"],
         entries' \in {entries, Remove(h)},
         drainer' \in {drainer, [drainer EXCEPT ![h] = @ \cup {a}]},
         UNCHANGED <<kind, current, stage, shut, call, token, lastId, id,
                     goroutines, target, hit, transport>>
  PROVE  OwnInv'
<1>1. OwnType'
  BY DEF OwnInv, OwnType, Remove
<1>2. Untouched'
  BY ZenonT(60) DEF OwnInv, OwnType, Untouched
<1>3. EntriesAreBound'
  <2>1. \A g \in Gens : entries'[g] \subseteq entries[g]
    BY DEF OwnInv, OwnType, Remove
  <2> QED
    BY SMTT(30), <2>1 DEF OwnInv, EntriesAreBound
<1>4. DrainedIsClosed'
  BY SMTT(30) DEF OwnInv, OwnType, DrainedIsClosed
<1>5. SocketsAreOwned'
  <2>1. \A x \in Handles \ {h}, g \in Gens :
          x \in entries[g] => x \in entries'[g]
    BY SMTT(30) DEF OwnInv, OwnType, Remove
  <2>2. \A x \in Handles : sock'[x] = "open" =>
          x # h /\ sock[x] = "open" /\ token[x] \in Gens
    BY DEF OwnInv, OwnType, Untouched
  <2> QED
    BY SMTT(30), <2>1, <2>2 DEF OwnInv, OwnType, SocketsAreOwned
<1>6. IdsAreFresh' /\ SweptIsClosed' /\ HandlesAreExact'
  BY ZenonT(60) DEF OwnInv, IdsAreFresh, SweptIsClosed, HandlesAreExact
<1> QED
  BY SMTT(30), <1>1, <1>2, <1>3, <1>4, <1>5, <1>6 DEF OwnInv

(* The entry of a closed resource may go, and a goroutine or a drain end. *)
LEMMA RemoveMoves ==
  ASSUME OwnInv,
         NEW h \in Handles,
         sock[h] = "closed",
         entries' \in {entries, Remove(h)},
         drainer' \in [Handles -> SUBSET Actors],
         goroutines' \in [Handles -> SUBSET Actors],
         \A x \in Handles : /\ drainer'[x] \subseteq drainer[x]
                             /\ goroutines'[x] \subseteq goroutines[x],
         UNCHANGED <<kind, current, stage, shut, call, token, lastId, id,
                     sock, closer, target, hit, transport>>
  PROVE  OwnInv'
<1>1. OwnType'
  BY SMTT(30) DEF OwnInv, OwnType, Remove
<1>2. Untouched'
  BY SMTT(30) DEF OwnInv, OwnType, Untouched
<1>3. EntriesAreBound'
  <2>1. \A g \in Gens : entries'[g] \subseteq entries[g]
    BY SMTT(30) DEF OwnInv, OwnType, Remove
  <2> QED
    BY SMTT(30), <2>1 DEF OwnInv, EntriesAreBound
<1>4. DrainedIsClosed'
  BY SMTT(30) DEF OwnInv, OwnType, DrainedIsClosed
<1>5. SocketsAreOwned'
  <2>1. \A x \in Handles \ {h}, g \in Gens :
          x \in entries[g] => x \in entries'[g]
    BY SMTT(30) DEF OwnInv, OwnType, Remove
  <2>2. \A x \in Handles : sock'[x] = "open" =>
          x # h /\ sock[x] = "open" /\ token[x] \in Gens
    BY SMTT(30) DEF OwnInv, OwnType, Untouched
  <2> QED
    BY SMTT(30), <2>1, <2>2 DEF OwnInv, OwnType, SocketsAreOwned
<1>6. IdsAreFresh' /\ SweptIsClosed' /\ HandlesAreExact'
  BY DEF OwnInv, IdsAreFresh, SweptIsClosed, HandlesAreExact
<1> QED
  BY ZenonT(60), <1>1, <1>2, <1>3, <1>4, <1>5, <1>6 DEF OwnInv

(* A goroutine that ends becomes a closer of its resource. *)
LEMMA CloserMoves ==
  ASSUME OwnInv,
         NEW h \in Handles,
         NEW a \in Actors,
         a \in goroutines[h],
         closer' = [closer EXCEPT ![h] = @ \cup {a}],
         goroutines' \in {goroutines, [goroutines EXCEPT ![h] = @ \ {a}]},
         UNCHANGED <<kind, current, stage, entries, shut, call, token,
                     lastId, id, sock, drainer, target, hit,
                     transport>>
  PROVE  OwnInv'
<1>1. OwnType'
  BY SMTT(30) DEF OwnInv, OwnType
<1>2. Untouched'
  BY DEF OwnInv, OwnType, Untouched
<1>3. SocketsAreOwned'
  BY ZenonT(60) DEF OwnInv, OwnType, SocketsAreOwned
<1>4. EntriesAreBound' /\ IdsAreFresh' /\ DrainedIsClosed' /\ SweptIsClosed'
      /\ HandlesAreExact'
  BY DEF OwnInv, EntriesAreBound, IdsAreFresh, DrainedIsClosed,
         SweptIsClosed, HandlesAreExact
<1> QED
  BY SMTT(30), <1>1, <1>2, <1>3, <1>4 DEF OwnInv

(* A dead socket needs no owner. *)
LEMMA DeathMoves ==
  ASSUME OwnInv,
         NEW h \in Handles,
         call[h] = "bound",
         sock' = [sock EXCEPT ![h] = "closed"],
         UNCHANGED <<kind, current, stage, entries, shut, call, token,
                     lastId, id, closer, drainer, goroutines,
                     target, hit, transport>>
  PROVE  OwnInv'
<1>1. OwnType'
  BY SMTT(30) DEF OwnInv, OwnType
<1>2. Untouched'
  BY SMTT(30) DEF OwnInv, OwnType, Untouched
<1>3. DrainedIsClosed'
  BY SMTT(30) DEF OwnInv, OwnType, DrainedIsClosed
<1>4. SocketsAreOwned'
  BY SMTT(30) DEF OwnInv, OwnType, SocketsAreOwned
<1>5. EntriesAreBound' /\ IdsAreFresh' /\ SweptIsClosed' /\ HandlesAreExact'
  BY DEF OwnInv, EntriesAreBound, IdsAreFresh, SweptIsClosed,
         HandlesAreExact
<1> QED
  BY SMTT(30), <1>1, <1>2, <1>3, <1>4, <1>5 DEF OwnInv
=============================================================================
