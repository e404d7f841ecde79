------------------------- MODULE FdResources_proofs -------------------------
(***************************************************************************)
(* Ownership of the descriptor resources for any number of binding calls,  *)
(* runtimes and items: Spec => []ResourcesAreOwned, by the invariant and   *)
(* the moves of FdMoves_proofs.                                            *)
(***************************************************************************)
EXTENDS FdMoves_proofs

(* The moves of accept and close calls. *)

(* An accept waits on its own resource or on none. *)
LEMMA TargetMoves ==
  ASSUME OwnInv,
         NEW h \in Handles,
         target' \in {[target EXCEPT ![h] = h], [target EXCEPT ![h] = None]},
         UNCHANGED <<kind, current, stage, entries, shut, call, token,
                     lastId, id, sock, closer, drainer,
                     goroutines, hit, transport>>
  PROVE  OwnInv'
<1>1. OwnType'
  BY DEF OwnInv, OwnType
<1>2. HandlesAreExact'
  BY DEF OwnInv, OwnType, HandlesAreExact
<1>3. Untouched' /\ EntriesAreBound' /\ IdsAreFresh' /\ DrainedIsClosed' /\
      SocketsAreOwned' /\ SweptIsClosed'
  BY ZenonT(60) DEF OwnInv, Untouched, EntriesAreBound, IdsAreFresh,
         DrainedIsClosed, SocketsAreOwned, SweptIsClosed
<1> QED
  BY <1>1, <1>2, <1>3 DEF OwnInv

(* An explicit close takes its own resource out of the registry and owns it. *)
LEMMA TakeMoves ==
  ASSUME OwnInv,
         NEW h \in Handles,
         call[h] = "bound",
         hit' = [hit EXCEPT ![h] = h],
         entries' = Remove(h),
         closer' = [closer EXCEPT ![h] = @ \cup {"taker"}],
         UNCHANGED <<kind, current, stage, shut, call, token, lastId, id,
                     sock, drainer, goroutines, target,
                     transport>>
  PROVE  OwnInv'
<1>1. OwnType'
  BY DEF OwnInv, OwnType, Remove, Actors
<1>2. Untouched'
  BY DEF OwnInv, OwnType, Untouched
<1>3. EntriesAreBound'
  <2>1. \A g \in Gens : entries'[g] \subseteq entries[g]
    BY DEF OwnInv, OwnType, Remove
  <2> QED
    BY <2>1 DEF OwnInv, EntriesAreBound
<1>4. SocketsAreOwned'
  <2>1. \A x \in Handles \ {h}, g \in Gens :
          x \in entries[g] => x \in entries'[g]
    BY DEF OwnInv, OwnType, Remove
  <2>2. closer'[h] # {} /\ \A x \in Handles \ {h} : closer'[x] = closer[x]
    BY DEF OwnInv, OwnType
  <2>3. \A x \in Handles : sock[x] = "open" => token[x] \in Gens
    BY DEF OwnInv, Untouched
  <2> QED
    BY <2>1, <2>2, <2>3 DEF OwnInv, SocketsAreOwned
<1>5. HandlesAreExact'
  BY DEF OwnInv, OwnType, HandlesAreExact
<1>6. IdsAreFresh' /\ DrainedIsClosed' /\ SweptIsClosed'
  BY Zenon DEF OwnInv, IdsAreFresh, DrainedIsClosed, SweptIsClosed
<1> QED
  BY <1>1, <1>2, <1>3, <1>4, <1>5, <1>6 DEF OwnInv

(* An explicit close that finds nothing changes nothing. *)
LEMMA MissMoves ==
  ASSUME OwnInv,
         NEW h \in Handles,
         hit' \in {hit, [hit EXCEPT ![h] = None]},
         UNCHANGED <<kind, current, stage, entries, shut, call, token,
                     lastId, id, sock, closer, drainer,
                     goroutines, target, transport>>
  PROVE  OwnInv'
<1>1. OwnType'
  BY DEF OwnInv, OwnType
<1>2. HandlesAreExact'
  BY SMTT(30) DEF OwnInv, OwnType, HandlesAreExact
<1>3. Untouched' /\ EntriesAreBound' /\ IdsAreFresh' /\ DrainedIsClosed' /\
      SocketsAreOwned' /\ SweptIsClosed'
  BY DEF OwnInv, Untouched, EntriesAreBound, IdsAreFresh,
         DrainedIsClosed, SocketsAreOwned, SweptIsClosed
<1> QED
  BY <1>1, <1>2, <1>3 DEF OwnInv

-----------------------------------------------------------------------------
(* Each action is one of these moves. *)

(* What an accept or a close finds under its id is its own resource, and   *)
(* that is bound.                                                          *)
LEMMA LookupIsExact ==
  ASSUME OwnInv, NEW h \in Handles, Lookup(kind[h], id[h]) # None
  PROVE  Lookup(kind[h], id[h]) = h /\ call[h] = "bound"
<1>1. PICK x \in entries[current] : /\ x = Lookup(kind[h], id[h])
                                    /\ kind[x] = kind[h] /\ id[x] = id[h]
  BY DEF Lookup
<1>2. current \in Gens
  BY DEF OwnInv, OwnType, Lookup
<1>3. x \in Handles /\ call[x] = "bound" /\ id[x] > 0
  BY <1>1, <1>2 DEF OwnInv, OwnType, EntriesAreBound
<1>4. x = h
  BY <1>1, <1>3 DEF OwnInv, IdsAreFresh
<1> QED
  BY <1>1, <1>3, <1>4

(* The runtime and its sweep. *)
LEMMA RuntimeKeeps ==
  ASSUME OwnInv,
         \/ DetachRuntime
         \/ \E g \in Gens : StartRuntime(g) \/ SweepStep(g)
  PROVE  OwnInv'
<1> USE DEF runtimeVars, registryVars, callVars, nativeVars, itemVars,
            loopVars, dartVars, clientVars
<1>1. CASE DetachRuntime
  <2>1. current \in Gens
    BY SMTT(30), <1>1 DEF DetachRuntime, OwnInv, OwnType
  <2>2. /\ current' \in Gens \cup {None} /\ stage' \in [Gens -> Stages]
        /\ transport' = transport
        /\ \A g \in Gens : stage'[g] = "swept" => stage[g] = "swept"
    BY <1>1, <2>1 DEF DetachRuntime, OwnInv, OwnType, Stages, Kinds
  <2> QED
    BY <1>1, <2>2, StageMoves, Zenon DEF DetachRuntime, OwnInv, OwnType
<1>2. ASSUME NEW g \in Gens, StartRuntime(g)
      PROVE  OwnInv'
  <2>1. /\ current' \in Gens \cup {None} /\ stage' \in [Gens -> Stages]
        /\ transport' = transport
        /\ \A x \in Gens : stage'[x] = "swept" => stage[x] = "swept"
    BY SMTT(30), <1>2 DEF StartRuntime, OwnInv, OwnType, Stages
  <2> QED
    BY <1>2, <2>1, StageMoves, Zenon DEF StartRuntime, OwnInv, OwnType
<1>3. ASSUME NEW g \in Gens, CloseAllGoesOn(g)
      PROVE  OwnInv'
  <2>1. stage' = [stage EXCEPT ![g] = "http"] \/ stage' = [stage EXCEPT ![g] = "udp"]
          \/ stage' = [stage EXCEPT ![g] = "transport"]
    BY <1>3, Zenon DEF CloseAllGoesOn, OwnInv, OwnType
  <2>2. /\ stage' \in [Gens -> Stages] /\ transport' = transport
        /\ \A x \in Gens : stage'[x] = "swept" => stage[x] = "swept"
    BY <1>3, <2>1 DEF CloseAllGoesOn, OwnInv, OwnType, Stages, Kinds
  <2> QED
    BY <1>3, <2>2, StageMoves DEF CloseAllGoesOn, OwnInv, OwnType
<1>4. ASSUME NEW g \in Gens, CloseTailnetTransport(g)
      PROVE  OwnInv'
  <2>1. /\ stage' \in [Gens -> Stages]
        /\ transport' \in [Gens -> {"none", "pooled", "closed"}]
        /\ \A x \in Gens : stage'[x] = "swept" =>
             stage[x] = "swept" \/ transport'[x] = "closed"
        /\ \A x \in Gens : transport[x] = "closed" => transport'[x] = "closed"
    BY <1>4 DEF CloseTailnetTransport, OwnInv, OwnType, Stages
  <2> QED
    BY <1>4, <2>1, StageMoves, Zenon DEF CloseTailnetTransport, OwnInv, OwnType
<1>5. ASSUME NEW g \in Gens, DrainRegistry(g)
      PROVE  OwnInv'
  BY <1>5, DrainMoves, Zenon DEF DrainRegistry
<1> QED
  BY SMTT(30), <1>1, <1>2, <1>3, <1>4, <1>5 DEF SweepStep

(* The binding calls. *)
LEMMA BindKeeps ==
  ASSUME OwnInv, NEW h \in Handles, AskBind(h) \/ BindStep(h)
  PROVE  OwnInv'
<1> USE DEF runtimeVars, registryVars, callVars, nativeVars, itemVars,
            loopVars, dartVars, clientVars
<1>0. call[h] # "idle" => token[h] \in Gens
  BY DEF OwnInv, Untouched
<1>1. CASE AskBind(h)
  <2>1. /\ token' \in [Handles -> Gens \cup {None}] /\ token'[h] \in Gens
        /\ \A x \in Handles \ {h} : token'[x] = token[x]
    BY <1>1 DEF AskBind, OwnInv, OwnType
  <2> QED
    BY <1>1, <2>1, CallMoves, Zenon DEF AskBind
<1>2. CASE PassGate(h)
  <2>1. call' = [call EXCEPT ![h] = "gated"] \/ call' = [call EXCEPT ![h] = "failed"]
    BY <1>2, Zenon DEF PassGate
  <2> QED
    BY <1>0, <1>2, <2>1, CallMoves, Zenon DEF PassGate, OwnInv, OwnType
<1>3. CASE AwaitDataPlane(h)
  BY <1>0, <1>3, CallMoves, Zenon DEF AwaitDataPlane, OwnInv, OwnType
<1>4. CASE OpenSocket(h)
  <2>1. CASE call' = [call EXCEPT ![h] = "failed"] /\ UNCHANGED sock
    BY <1>0, <1>4, <2>1, CallMoves, Zenon DEF OpenSocket, OwnInv, OwnType
  <2>2. CASE /\ call' = [call EXCEPT ![h] = "opened"]
             /\ sock' = [sock EXCEPT ![h] = "open"]
    BY <1>4, <2>2, OpenMoves, Zenon DEF OpenSocket
  <2> QED
    BY <1>4, <2>1, <2>2 DEF OpenSocket
<1>5. CASE Commit(h)
  <2>1. NextId(h) = lastId[kind[h]] + 1 /\ NextId(h) \in Nat
    BY DEF NextId, OwnInv, OwnType
  <2>2. CASE CommitAdmits(h)
    <3>1. /\ goroutines' \in [Handles -> SUBSET Actors]
          /\ \A x \in Handles \ {h} : goroutines'[x] = goroutines[x]
      BY SMTT(30), <1>5, <2>2 DEF Commit, OwnInv, OwnType, Actors
    <3> QED
      BY <1>5, <2>1, <2>2, <3>1, CommitMoves, Zenon DEF Commit, CommitAdmits
  <2>3. CASE ~CommitAdmits(h)
    BY <1>5, <2>1, <2>3, IdMoves, Zenon DEF Commit
  <2> QED
    BY <2>2, <2>3
<1>6. CASE AbandonBind(h)
  BY <1>6, AbandonMoves, Zenon DEF AbandonBind
<1> QED
  BY SMTT(30), <1>1, <1>2, <1>3, <1>4, <1>5, <1>6 DEF BindStep

(* Closing, draining, and what ends by itself. *)
LEMMA CloseKeeps ==
  ASSUME OwnInv, NEW h \in Handles,
         \/ CloseStep(h) \/ ListenerDies(h)
         \/ \E p \in {"in", "out"} : PumpFails(h, p)
  PROVE  OwnInv'
<1> USE DEF runtimeVars, registryVars, callVars, nativeVars, itemVars,
            loopVars, dartVars, clientVars
<1>1. ASSUME NEW a \in Actors,
             CloseListener(h, a) \/ CloseBridge(h, a) \/ CloseBinding(h, a)
      PROVE  OwnInv'
  <2>1. CASE CloseListener(h, a)
    BY <2>1, CloseMoves, Zenon DEF CloseListener
  <2>2. CASE CloseBridge(h, a)
    BY <2>2, CloseMoves, Zenon DEF CloseBridge
  <2>3. CASE CloseBinding(h, a)
    BY <2>3, CloseMoves, Zenon DEF CloseBinding
  <2> QED
    BY <1>1, <2>1, <2>2, <2>3
<1>2. ASSUME NEW a \in Actors, DrainQueue(h, a)
      PROVE  OwnInv'
  <2>1. CASE queue[h] # <<>>
    BY SMTT(30), <1>2, <2>1, QuietKeeps DEF DrainQueue, own
  <2>2. CASE queue[h] = <<>>
    <3>1. sock[h] = "closed"
      BY SMTT(30), <1>2 DEF DrainQueue, OwnInv, DrainedIsClosed
    <3>2. /\ entries' \in {entries, Remove(h)}
          /\ drainer' = [drainer EXCEPT ![h] = @ \ {a}]
          /\ goroutines' = [goroutines EXCEPT ![h] = @ \ {a}]
      BY SMTT(30), <1>2, <2>2 DEF DrainQueue
    <3>3. /\ drainer' \in [Handles -> SUBSET Actors]
          /\ goroutines' \in [Handles -> SUBSET Actors]
          /\ \A x \in Handles : /\ drainer'[x] \subseteq drainer[x]
                                /\ goroutines'[x] \subseteq goroutines[x]
      BY <3>2 DEF OwnInv, OwnType
    <3> QED
      BY SMTT(30), <1>2, <3>1, <3>2, <3>3, RemoveMoves DEF DrainQueue
  <2> QED
    BY SMTT(30), <2>1, <2>2
<1>3. CASE ServeReturns(h)
  BY <1>3, CloserMoves, Zenon DEF ServeReturns, Actors
<1>4. ASSUME NEW p \in {"in", "out"}, PumpFails(h, p)
      PROVE  OwnInv'
  <2>1. p \in Actors /\ p \in goroutines[h]
    BY SMTT(30), <1>4 DEF PumpFails, Actors
  <2>2. /\ closer' = [closer EXCEPT ![h] = @ \cup {p}]
        /\ goroutines' = [goroutines EXCEPT ![h] = @ \ {p}]
    BY <1>4 DEF PumpFails
  <2> QED
    BY <1>4, <2>1, <2>2, CloserMoves, Zenon DEF PumpFails
<1>5. CASE ListenerDies(h)
  BY <1>5, DeathMoves, Zenon DEF ListenerDies
<1> QED
  BY <1>1, <1>2, <1>3, <1>4, <1>5 DEF CloseStep

(* The accept isolate and the listener. *)
LEMMA AcceptKeeps ==
  ASSUME OwnInv, NEW h \in Handles,
         EnterAccept(h) \/ AcceptEnds(h) \/ NativeClose(h)
  PROVE  OwnInv'
<1> USE DEF runtimeVars, registryVars, callVars, nativeVars, itemVars,
            loopVars, dartVars, clientVars
<1>1. CASE EnterAccept(h)
  BY <1>1, LookupIsExact, TargetMoves, Zenon DEF EnterAccept
<1>2. CASE AcceptEnds(h)
  <2>1. CASE UNCHANGED entries
    BY <1>2, <2>1, QuietKeeps DEF AcceptEnds, own
  <2>2. CASE sock[target[h]] = "closed" /\ entries' = Remove(target[h])
    <3>1. CASE target[h] = h
      BY <1>2, <2>2, <3>1, RemoveMoves, Zenon DEF AcceptEnds, OwnInv, OwnType
    <3>2. CASE target[h] = None
      <4>1. entries' = entries
        BY <2>2, <3>2, RemoveNone, Zenon
      <4> QED
        BY <1>2, <4>1, QuietKeeps, Zenon DEF AcceptEnds, own
    <3> QED
      BY <3>1, <3>2, Zenon DEF OwnInv, HandlesAreExact
  <2> QED
    BY <1>2, <2>1, <2>2, Zenon DEF AcceptEnds
<1>3. CASE NativeClose(h)
  <2>1. CASE UNCHANGED <<entries, closer>> /\ hit' \in {hit, [hit EXCEPT ![h] = None]}
    BY <1>3, <2>1, MissMoves, Zenon DEF NativeClose
  <2>2. CASE ~(UNCHANGED <<entries, closer>> /\ hit' \in {hit, [hit EXCEPT ![h] = None]})
    <3>1. Lookup(kind[h], id[h]) # None
      BY <1>3, <2>2, Zenon DEF NativeClose
    <3>2. /\ hit' = [hit EXCEPT ![h] = h] /\ entries' = Remove(h)
          /\ closer' = [closer EXCEPT ![h] = @ \cup {"taker"}]
      BY <1>3, <2>2, <3>1, LookupIsExact, Zenon DEF NativeClose
    <3> QED
      BY <1>3, <3>1, <3>2, LookupIsExact, TakeMoves, Zenon DEF NativeClose
  <2> QED
    BY <2>1, <2>2
<1> QED
  BY <1>1, <1>2, <1>3

(* Steps that move only items and messages. *)
LEMMA QuietActions ==
  ASSUME OwnInv,
         \/ \E h \in Handles :
              \/ StartLoop(h) \/ BeginClose(h) \/ HandleAccepted(h)
              \/ HandleClosed(h) \/ FinishClose(h) \/ PostAccepted(h)
              \/ \E i \in Items :
                   Arrive(i, h) \/ AcceptItem(h, i) \/ AcceptFails(h, i)
         \/ \E i \in Items :
              EnqueueRequest(i) \/ RefuseRequest(i) \/ Resume(i) \/ Deliver(i)
         \/ \E q \in Requests : HttpStart(q) \/ FinishRequest(q)
  PROVE  OwnInv'
<1> USE DEF own, runtimeVars, registryVars, callVars, nativeVars, itemVars,
            loopVars, dartVars, clientVars
<1>1. ASSUME NEW h \in Handles,
             \/ StartLoop(h) \/ BeginClose(h) \/ HandleAccepted(h)
             \/ HandleClosed(h) \/ FinishClose(h) \/ PostAccepted(h)
      PROVE  UNCHANGED own
  BY <1>1, Zenon DEF StartLoop, BeginClose, HandleAccepted, HandleClosed, FinishClose,
              PostAccepted
<1>2. ASSUME NEW h \in Handles, NEW i \in Items,
             Arrive(i, h) \/ AcceptItem(h, i) \/ AcceptFails(h, i)
      PROVE  UNCHANGED own
  BY <1>2, Zenon DEF Arrive, AcceptItem, AcceptFails
<1>3. ASSUME NEW i \in Items,
             EnqueueRequest(i) \/ RefuseRequest(i) \/ Resume(i) \/ Deliver(i)
      PROVE  UNCHANGED own
  BY <1>3, Zenon DEF EnqueueRequest, RefuseRequest, Resume, Deliver
<1>4. ASSUME NEW q \in Requests, HttpStart(q) \/ FinishRequest(q)
      PROVE  UNCHANGED own
  BY <1>4, Zenon DEF HttpStart, FinishRequest
<1>5. UNCHANGED own
  BY <1>1, <1>2, <1>3, <1>4
<1> QED
  BY <1>5, QuietKeeps

(* A closed transport slot is not filled again. *)
LEMMA TransportKeeps ==
  ASSUME OwnInv, NEW q \in Requests, TailnetTransport(q)
  PROVE  OwnInv'
<1>1. /\ transport' \in [Gens -> {"none", "pooled", "closed"}]
      /\ \A g \in Gens : transport[g] = "closed" => transport'[g] = "closed"
  BY DEF TailnetTransport, OwnInv, OwnType
<1> QED
  BY <1>1, StageMoves
    , Zenon DEF TailnetTransport, OwnInv, OwnType, runtimeVars, registryVars,
         callVars, nativeVars, itemVars, loopVars, dartVars

(* Every step keeps the invariant. *)
LEMMA NextOwn ==
  ASSUME OwnInv, [Next]_vars
  PROVE  OwnInv'
<1>1. CASE UNCHANGED vars
  BY SMTT(30), <1>1, QuietKeeps
     DEF vars, own, runtimeVars, registryVars, callVars, nativeVars, loopVars,
         dartVars, clientVars
<1>2. CASE Next
  BY <1>2, RuntimeKeeps, BindKeeps, CloseKeeps, AcceptKeeps, QuietActions,
     TransportKeeps
     DEF Next, LoopStep, ListenerStep
<1> QED
  BY <1>1, <1>2

(* Whatever the number of binding calls, runtimes and items, every open    *)
(* socket has an owner that will close it, a swept runtime keeps nothing,  *)
(* and a handle never reaches another's resource (fdRegistry.commit, take  *)
(* and drain; the process-wide id counters).                               *)
THEOREM FdOwned == Spec => []ResourcesAreOwned
<1>1. OwnInv => ResourcesAreOwned
  BY DEF OwnInv, ResourcesAreOwned, SocketsAreOwned, EntriesAreBound,
         SweptIsClosed
<1>2. OwnInv /\ [Next]_vars => OwnInv'
  BY NextOwn
<1> QED
  BY <1>1, <1>2, InitOwn, PTL DEF Spec
=============================================================================
