---------------------------- MODULE FdResources ----------------------------
(***************************************************************************)
(* The native resources that a runtime owns on behalf of Dart: tailnet TCP *)
(* listeners, HTTP bindings and UDP bridges, each registered in one of the *)
(* runtime's three registries (go/fd_registry.go, fd_resources_posix.go)   *)
(* under an id that Dart keeps as its handle, the descriptors that flow    *)
(* through them (go/tcp_fd_posix.go, udp_fd_posix.go, http_fd_posix.go;    *)
(* lib/src/api/connection.dart, http.dart), and the pooled HTTP transport. *)
(*                                                                         *)
(* The actors are the binding calls, the runtime's close sweep, the native *)
(* goroutines (http.Serve, request handlers, the two pumps of a bridge),   *)
(* the Dart accept isolate of each listener and the Dart listener itself.  *)
(* What travels (addresses, headers, bytes) is left out: an item is a      *)
(* connection or a request, known by where its Dart-side descriptors are.  *)
(***************************************************************************)
EXTENDS Integers, FiniteSets, Sequences

CONSTANTS Handles,      \* binding calls, each of at most one resource
          Items,        \* inbound connections and requests
          Requests,     \* outbound HTTP requests
          Runtimes,     \* how many runtimes follow one another
          Backlog,      \* httpAcceptBacklog, 128 in the code
          MaxPending,   \* _maxPendingAcceptedConnections, 128 in the code
          None

ASSUME FdAssumption ==
  /\ Runtimes \in Nat /\ Backlog \in Nat \ {0} /\ MaxPending \in Nat \ {0}
  /\ None \notin Handles \cup Items \cup Nat
  /\ IsFiniteSet(Items)

Kinds  == {"tcp", "http", "udp"}
Gens   == 1 .. Runtimes
Actors == {"taker", "sweep", "serve", "in", "out"}

VARIABLES
  kind,        \* what each binding call opens
  current,     \* the current runtime, or None
  epoch,       \* nodeEpoch
  generation,  \* nodeRuntime.generation of each runtime
  stage,       \* where each runtime's life, then its close sweep, has got to
  entries,     \* the registered resources of each runtime
  shut,        \* the registries of each runtime that drain has closed
  call,        \* the binding call: where it has got to
  token,       \* the runtime whose token the call carries
  lastId,      \* tcpFdListenerID, httpBindingID, udpBindingID
  id,          \* the id under which a call registered its resource
  sock,        \* the tailnet listener or packet conn: none, open, closed
  once,        \* the once.Do of an HTTP binding or UDP bridge has run
  closer,      \* who is about to close a resource
  drainer,     \* who is draining a closed HTTP binding's queue
  goroutines,  \* http.Serve and the bridge pumps that are running
  place,       \* who holds the Dart-side descriptors of an item
  at,          \* the resource through which the item arrived
  queue,       \* httpBindingState.requests
  late,        \* items queued when no drain was left to come (history)
  loop,        \* the accept isolate of a listener
  target,      \* what its native accept call found under the id
  hold,        \* the item it is carrying
  events,      \* its messages to the listener
  closed,      \* the listener's _closed
  nclose,      \* the listener's native close: no, asked, closing, done, ended
  hit,         \* what the native close found under the id
  rq,          \* an outbound request: idle, running, pooled, oneoff, done
  rqGen,       \* the runtime of its gate
  transport    \* nodeRuntime.httpTransport: none, pooled, closed

runtimeVars  == <<current, epoch, generation, stage>>
registryVars == <<entries, shut>>
callVars     == <<call, token, lastId, id>>
nativeVars   == <<sock, once, closer, drainer, goroutines>>
itemVars     == <<place, at, queue, late>>
loopVars     == <<loop, target, hold>>
dartVars     == <<events, closed, nclose, hit>>
clientVars   == <<rq, rqGen, transport>>
vars == <<kind, runtimeVars, registryVars, callVars, nativeVars, itemVars,
          loopVars, dartVars, clientVars>>

-----------------------------------------------------------------------------
Init ==
  /\ kind \in [Handles -> Kinds]
  /\ current = None /\ epoch = 0
  /\ generation = [g \in Gens |-> 0] /\ stage = [g \in Gens |-> "none"]
  /\ entries = [g \in Gens |-> {}] /\ shut = [g \in Gens |-> {}]
  /\ call = [h \in Handles |-> "idle"] /\ token = [h \in Handles |-> None]
  /\ lastId = [k \in Kinds |-> 0] /\ id = [h \in Handles |-> 0]
  /\ sock = [h \in Handles |-> "none"] /\ once = [h \in Handles |-> FALSE]
  /\ closer = [h \in Handles |-> {}] /\ drainer = [h \in Handles |-> {}]
  /\ goroutines = [h \in Handles |-> {}]
  /\ place = [i \in Items |-> "none"] /\ at = [i \in Items |-> None]
  /\ queue = [h \in Handles |-> <<>>] /\ late = {}
  /\ loop = [h \in Handles |-> "off"] /\ target = [h \in Handles |-> None]
  /\ hold = [h \in Handles |-> None]
  /\ events = [h \in Handles |-> <<>>] /\ closed = [h \in Handles |-> FALSE]
  /\ nclose = [h \in Handles |-> "no"] /\ hit = [h \in Handles |-> None]
  /\ rq = [q \in Requests |-> "idle"] /\ rqGen = [q \in Requests |-> None]
  /\ transport = [g \in Gens |-> "none"]

(* The resource registered under an id in the current runtime's registry   *)
(* of a kind; None when there is no runtime or no such entry.              *)
Lookup(k, n) ==
  IF current = None THEN None
  ELSE LET found == {h \in entries[current] : kind[h] = k /\ id[h] = n}
       IN  IF found = {} THEN None ELSE CHOOSE h \in found : TRUE

(* nodeGate.stillCurrent: one atomic load of the epoch. *)
StillCurrent(h) == epoch = generation[token[h]]

Remove(h) == [g \in Gens |-> entries[g] \ {h}]

-----------------------------------------------------------------------------
(* The runtime.  A successor starts only when its predecessor's close is   *)
(* over (module RuntimeController); detaching bumps the epoch and takes    *)
(* the runtime out of reach of every lookup before the sweep begins.       *)

StartRuntime(g) ==
  /\ current = None /\ stage[g] = "none"
  /\ \A p \in 1 .. g - 1 : stage[p] = "swept"
  /\ current' = g /\ epoch' = epoch + 1
  /\ generation' = [generation EXCEPT ![g] = epoch + 1]
  /\ stage' = [stage EXCEPT ![g] = "live"]
  /\ UNCHANGED <<kind, registryVars, callVars, nativeVars, itemVars, loopVars,
                 dartVars, clientVars>>

DetachRuntime ==
  /\ current # None
  /\ current' = None /\ epoch' = epoch + 1
  /\ stage' = [stage EXCEPT ![current] = "tcp"]
  /\ UNCHANGED <<kind, generation, registryVars, callVars, nativeVars,
                 itemVars, loopVars, dartVars, clientVars>>

(* fdRegistry.drain on the family that closeAll has come to. *)
DrainRegistry(g) ==
  LET drained == {h \in entries[g] : kind[h] = stage[g]}
  IN  /\ stage[g] \in Kinds \ shut[g]
      /\ shut' = [shut EXCEPT ![g] = @ \cup {stage[g]}]
      /\ entries' = [entries EXCEPT ![g] = @ \ drained]
      /\ closer' = [h \in Handles |->
                      IF h \in drained THEN closer[h] \cup {"sweep"}
                      ELSE closer[h]]
      /\ UNCHANGED <<kind, runtimeVars, callVars, sock, once, drainer,
                     goroutines, itemVars, loopVars, dartVars, clientVars>>

(* closeAll goes on when what it drained has been closed. *)
CloseAllGoesOn(g) ==
  /\ stage[g] \in shut[g]
  /\ \A h \in Handles : token[h] = g => "sweep" \notin closer[h] \cup drainer[h]
  /\ stage' = [stage EXCEPT ![g] = CASE @ = "tcp"  -> "http"
                                     [] @ = "http" -> "udp"
                                     [] OTHER      -> "transport"]
  /\ UNCHANGED <<kind, current, epoch, generation, registryVars, callVars,
                 nativeVars, itemVars, loopVars, dartVars, clientVars>>

CloseTailnetTransport(g) ==
  /\ stage[g] = "transport"
  /\ stage' = [stage EXCEPT ![g] = "swept"]
  /\ transport' = [transport EXCEPT ![g] = "closed"]
  /\ UNCHANGED <<kind, current, epoch, generation, registryVars, callVars,
                 nativeVars, itemVars, loopVars, dartVars, rq, rqGen>>

-----------------------------------------------------------------------------
(* TcpListenFd, TlsListenFd, HttpBind, UdpBindFd: Dart captures the token, *)
(* the call passes the gate, waits for the data plane, opens the tailnet   *)
(* socket and commits it; any step may fail.                               *)

AskBind(h) ==
  /\ call[h] = "idle" /\ current # None
  /\ call' = [call EXCEPT ![h] = "asked"]
  /\ token' = [token EXCEPT ![h] = current]
  /\ UNCHANGED <<kind, runtimeVars, registryVars, lastId, id, nativeVars,
                 itemVars, loopVars, dartVars, clientVars>>

(* gateForRuntimeToken *)
PassGate(h) ==
  /\ call[h] = "asked"
  /\ call' = [call EXCEPT ![h] = IF current = token[h] THEN "gated"
                                 ELSE "failed"]
  /\ UNCHANGED <<kind, runtimeVars, registryVars, token, lastId, id,
                 nativeVars, itemVars, loopVars, dartVars, clientVars>>

(* awaitDataPlaneReadyForCall: bounded, and re-checked at its end. *)
AwaitDataPlane(h) ==
  /\ call[h] = "gated"
  /\ \/ StillCurrent(h) /\ call' = [call EXCEPT ![h] = "ready"]
     \/ call' = [call EXCEPT ![h] = "failed"]
  /\ UNCHANGED <<kind, runtimeVars, registryVars, token, lastId, id,
                 nativeVars, itemVars, loopVars, dartVars, clientVars>>

(* Server.Listen, ListenTLS or ListenPacket *)
OpenSocket(h) ==
  /\ call[h] = "ready"
  /\ \/ /\ call' = [call EXCEPT ![h] = "opened"]
        /\ sock' = [sock EXCEPT ![h] = "open"]
     \/ call' = [call EXCEPT ![h] = "failed"] /\ UNCHANGED sock
  /\ UNCHANGED <<kind, runtimeVars, registryVars, token, lastId, id, once,
                 closer, drainer, goroutines, itemVars, loopVars, dartVars,
                 clientVars>>

(* commit that trusts the check made before the socket was opened. *)
CommitAdmitsUnchecked(h) == TRUE

(* fdRegistry.commit: the closed mark and the epoch, under the lock that   *)
(* drain takes.                                                            *)
CommitAdmits(h) == kind[h] \notin shut[token[h]] /\ StillCurrent(h)

(* The id is drawn from a process-wide counter of the kind.  http.Serve    *)
(* and the pumps are started only once the resource is registered.         *)
NextId(h) == lastId[kind[h]] + 1

Commit(h) ==
  /\ call[h] = "opened"
  /\ lastId' = [lastId EXCEPT ![kind[h]] = NextId(h)]
  /\ id' = [id EXCEPT ![h] = NextId(h)]
  /\ IF CommitAdmits(h)
     THEN /\ call' = [call EXCEPT ![h] = "bound"]
          /\ entries' = [entries EXCEPT ![token[h]] = @ \cup {h}]
          /\ goroutines' = [goroutines EXCEPT ![h] =
                              CASE kind[h] = "http" -> {"serve"}
                                [] kind[h] = "udp"  -> {"in", "out"}
                                [] OTHER            -> {}]
     ELSE /\ call' = [call EXCEPT ![h] = "refused"]
          /\ UNCHANGED <<entries, goroutines>>
  /\ UNCHANGED <<kind, runtimeVars, shut, token, sock, once, closer, drainer,
                 itemVars, loopVars, dartVars, clientVars>>

(* A refused commit, an unresolved port or a failed socketpair: the call   *)
(* closes what it opened.                                                  *)
AbandonBind(h) ==
  /\ call[h] \in {"opened", "refused"}
  /\ call' = [call EXCEPT ![h] = "failed"]
  /\ sock' = [sock EXCEPT ![h] = "closed"]
  /\ UNCHANGED <<kind, runtimeVars, registryVars, token, lastId, id, once,
                 closer, drainer, goroutines, itemVars, loopVars, dartVars,
                 clientVars>>

-----------------------------------------------------------------------------
(* Closing a resource.  Any of the explicit close (taker), the sweep,      *)
(* http.Serve's goroutine and the pumps may come to it, in any order.      *)

(* Connections that wait in a closed listener's backlog go with it. *)
DropBacklog(h) ==
  place' = [i \in Items |-> IF at[i] = h /\ place[i] = "wire" THEN "closed"
                            ELSE place[i]]

CloseListener(h, a) ==
  /\ kind[h] = "tcp" /\ a \in closer[h]
  /\ closer' = [closer EXCEPT ![h] = @ \ {a}]
  /\ sock' = [sock EXCEPT ![h] = "closed"]
  /\ DropBacklog(h)
  /\ UNCHANGED <<kind, runtimeVars, registryVars, callVars, once, drainer,
                 goroutines, at, queue, late, loopVars, dartVars, clientVars>>

(* udpBridge.close: once, deregister from the current runtime's registry,  *)
(* close the packet conn and the Go end of the socketpair.                 *)
CloseBridge(h, a) ==
  /\ kind[h] = "udp" /\ a \in closer[h]
  /\ closer' = [closer EXCEPT ![h] = @ \ {a}]
  /\ once' = [once EXCEPT ![h] = TRUE]
  /\ sock' = [sock EXCEPT ![h] = "closed"]
  /\ entries' = IF ~once[h] /\ current = token[h] THEN Remove(h) ELSE entries
  /\ UNCHANGED <<kind, runtimeVars, shut, callVars, drainer, goroutines,
                 itemVars, loopVars, dartVars, clientVars>>

(* httpBindingState.close that drains inside once.Do. *)
CloseBindingDrainsOnce(h, a) ==
  /\ kind[h] = "http" /\ a \in closer[h]
  /\ closer' = [closer EXCEPT ![h] = @ \ {a}]
  /\ once' = [once EXCEPT ![h] = TRUE]
  /\ sock' = [sock EXCEPT ![h] = "closed"]
  /\ drainer' = [drainer EXCEPT ![h] = IF once[h] THEN @ ELSE @ \cup {a}]
  /\ goroutines' = [goroutines EXCEPT ![h] = IF once[h] THEN @ \ {a} ELSE @]
  /\ UNCHANGED <<kind, runtimeVars, registryVars, callVars, itemVars,
                 loopVars, dartVars, clientVars>>

(* httpBindingState.close, the part inside once.Do. *)
CloseBinding(h, a) ==
  /\ kind[h] = "http" /\ a \in closer[h]
  /\ closer' = [closer EXCEPT ![h] = @ \ {a}]
  /\ once' = [once EXCEPT ![h] = TRUE]
  /\ sock' = [sock EXCEPT ![h] = "closed"]
  /\ drainer' = [drainer EXCEPT ![h] = @ \cup {a}]
  /\ UNCHANGED <<kind, runtimeVars, registryVars, callVars, goroutines,
                 itemVars, loopVars, dartVars, clientVars>>

(* The drain loop, outside once.Do: each receive closes both descriptors   *)
(* of an unaccepted request, an empty queue ends it.  After its own drain  *)
(* the Serve goroutine removes the registry entry.                         *)
DrainQueue(h, a) ==
  /\ a \in drainer[h]
  /\ IF queue[h] # <<>>
     THEN /\ place' = [place EXCEPT ![Head(queue[h])] = "closed"]
          /\ queue' = [queue EXCEPT ![h] = Tail(@)]
          /\ UNCHANGED <<drainer, goroutines, entries>>
     ELSE /\ drainer' = [drainer EXCEPT ![h] = @ \ {a}]
          /\ goroutines' = [goroutines EXCEPT ![h] = @ \ {a}]
          /\ entries' = IF a = "serve" THEN Remove(h) ELSE entries
          /\ UNCHANGED <<place, queue>>
  /\ UNCHANGED <<kind, runtimeVars, shut, callVars, sock, once, closer, at,
                 late, loopVars, dartVars, clientVars>>

(* server.Serve returns once its listener is closed. *)
ServeReturns(h) ==
  /\ "serve" \in goroutines[h] /\ sock[h] = "closed"
  /\ "serve" \notin closer[h] \cup drainer[h]
  /\ closer' = [closer EXCEPT ![h] = @ \cup {"serve"}]
  /\ UNCHANGED <<kind, runtimeVars, registryVars, callVars, sock, once,
                 drainer, goroutines, itemVars, loopVars, dartVars,
                 clientVars>>

(* A pump leaves its loop on a failed read or write and closes the bridge. *)
PumpFails(h, p) ==
  /\ p \in goroutines[h] \ {"serve"}
  /\ goroutines' = [goroutines EXCEPT ![h] = @ \ {p}]
  /\ closer' = [closer EXCEPT ![h] = @ \cup {p}]
  /\ UNCHANGED <<kind, runtimeVars, registryVars, callVars, sock, once,
                 drainer, itemVars, loopVars, dartVars, clientVars>>

(* The tailnet listener dies under its owner. *)
ListenerDies(h) ==
  /\ call[h] = "bound" /\ sock[h] = "open"
  /\ sock' = [sock EXCEPT ![h] = "closed"]
  /\ DropBacklog(h)
  /\ UNCHANGED <<kind, runtimeVars, registryVars, callVars, once, closer,
                 drainer, goroutines, at, queue, late, loopVars, dartVars,
                 clientVars>>

-----------------------------------------------------------------------------
(* Inbound items.  A TCP connection waits in the listener's backlog; a     *)
(* request has a handler, which allocates its two socketpairs and looks up *)
(* the caller before it offers the request to the accept queue.            *)

Arrive(i, h) ==
  /\ place[i] = "none"
  /\ call[h] = "bound" /\ sock[h] = "open" /\ kind[h] # "udp"
  /\ at' = [at EXCEPT ![i] = h]
  /\ place' = [place EXCEPT ![i] = IF kind[h] = "tcp" THEN "wire"
                                   ELSE "handler"]
  /\ UNCHANGED <<kind, runtimeVars, registryVars, callVars, nativeVars, queue,
                 late, loopVars, dartVars, clientVars>>

(* Nothing is left that would drain the queue of h. *)
Unattended(h) == goroutines[h] = {} /\ closer[h] = {} /\ drainer[h] = {}

(* The offer that blocks while the queue is full, past its capacity. *)
EnqueueRequestUnbounded(i) ==
  /\ place[i] = "handler"
  /\ place' = [place EXCEPT ![i] = "queue"]
  /\ queue' = [queue EXCEPT ![at[i]] = Append(@, i)]
  /\ late' = IF Unattended(at[i]) THEN late \cup {i} ELSE late
  /\ UNCHANGED <<kind, runtimeVars, registryVars, callVars, nativeVars, at,
                 loopVars, dartVars, clientVars>>

(* The select of serveHTTPFdRequest.  The queue is offered the request     *)
(* whenever it has room, also when done is already closed.                 *)
EnqueueRequest(i) ==
  /\ place[i] = "handler" /\ Len(queue[at[i]]) < Backlog
  /\ place' = [place EXCEPT ![i] = "queue"]
  /\ queue' = [queue EXCEPT ![at[i]] = Append(@, i)]
  /\ late' = IF Unattended(at[i]) THEN late \cup {i} ELSE late
  /\ UNCHANGED <<kind, runtimeVars, registryVars, callVars, nativeVars, at,
                 loopVars, dartVars, clientVars>>

(* Its other cases (backlog full, binding closed, caller gone): the        *)
(* handler closes all four ends.                                           *)
RefuseRequest(i) ==
  /\ place[i] = "handler"
  /\ place' = [place EXCEPT ![i] = "closed"]
  /\ UNCHANGED <<kind, runtimeVars, registryVars, callVars, nativeVars, at,
                 queue, late, loopVars, dartVars, clientVars>>

-----------------------------------------------------------------------------
(* The accept isolate of a listener: _tcpAcceptLoop and _httpAcceptLoop    *)
(* over TcpAcceptFd and HttpAccept.                                        *)

PortOpen(h) == nclose[h] # "ended"

(* SendPort.send: a message to a closed port is dropped. *)
Post(h, m) ==
  events' = IF PortOpen(h) THEN [events EXCEPT ![h] = Append(@, m)]
            ELSE events

(* onListen: _startAcceptLoop *)
StartLoop(h) ==
  /\ call[h] = "bound" /\ kind[h] # "udp"
  /\ loop[h] = "off" /\ ~closed[h]
  /\ loop' = [loop EXCEPT ![h] = "call"]
  /\ UNCHANGED <<kind, runtimeVars, registryVars, callVars, nativeVars,
                 itemVars, target, hold, dartVars, clientVars>>

(* The native call looks its id up in the current runtime's registry; a    *)
(* miss reads as closed.                                                   *)
EnterAccept(h) ==
  LET found == Lookup(kind[h], id[h])
  IN  /\ loop[h] = "call"
      /\ target' = [target EXCEPT ![h] = found]
      /\ IF found = None
         THEN loop' = [loop EXCEPT ![h] = "ended"] /\ Post(h, "closed")
         ELSE loop' = [loop EXCEPT ![h] = "wait"] /\ UNCHANGED events
      /\ UNCHANGED <<kind, runtimeVars, registryVars, callVars, nativeVars,
                     itemVars, hold, closed, nclose, hit, clientVars>>

(* Listener.Accept returns a connection, and a socketpair is made for it;  *)
(* or a queued request is received.                                        *)
AcceptItem(h, i) ==
  /\ loop[h] = "wait" /\ at[i] = target[h]
  /\ \/ place[i] = "wire" /\ UNCHANGED queue
     \/ /\ place[i] = "queue" /\ Head(queue[target[h]]) = i
        /\ queue' = [queue EXCEPT ![target[h]] = Tail(@)]
  /\ place' = [place EXCEPT ![i] = "native"]
  /\ hold' = [hold EXCEPT ![h] = i]
  /\ loop' = [loop EXCEPT ![h] = "carry"]
  /\ UNCHANGED <<kind, runtimeVars, registryVars, callVars, nativeVars, at,
                 late, target, dartVars, clientVars>>

(* The socketpair fails: the connection is closed and the loop told; it    *)
(* calls again, or gives up after too many failures in a row.              *)
AcceptFails(h, i) ==
  /\ loop[h] = "wait" /\ at[i] = target[h] /\ place[i] = "wire"
  /\ place' = [place EXCEPT ![i] = "closed"]
  /\ \/ loop' = [loop EXCEPT ![h] = "call"] /\ UNCHANGED events
     \/ loop' = [loop EXCEPT ![h] = "ended"] /\ Post(h, "closed")
  /\ UNCHANGED <<kind, runtimeVars, registryVars, callVars, nativeVars, at,
                 queue, late, target, hold, closed, nclose, hit, clientVars>>

(* HttpAccept without the done case. *)
AcceptEndsTcpOnly(h) ==
  /\ loop[h] = "wait"
  /\ kind[h] = "tcp" /\ sock[target[h]] = "closed"
  /\ entries' = Remove(target[h])
  /\ loop' = [loop EXCEPT ![h] = "ended"]
  /\ Post(h, "closed")
  /\ UNCHANGED <<kind, runtimeVars, shut, callVars, nativeVars, itemVars,
                 target, hold, closed, nclose, hit, clientVars>>

(* The wait ends with the resource: Accept fails with net.ErrClosed, and   *)
(* the entry is removed if it is still there; or done is closed.           *)
AcceptEnds(h) ==
  /\ loop[h] = "wait"
  /\ \/ /\ kind[h] = "tcp" /\ sock[target[h]] = "closed"
        /\ entries' = Remove(target[h])
     \/ kind[h] = "http" /\ once[target[h]] /\ UNCHANGED entries
  /\ loop' = [loop EXCEPT ![h] = "ended"]
  /\ Post(h, "closed")
  /\ UNCHANGED <<kind, runtimeVars, shut, callVars, nativeVars, itemVars,
                 target, hold, closed, nclose, hit, clientVars>>

(* The result is sent to the listener.  Once the listener has killed the   *)
(* isolate and closed its port, what the isolate carries goes nowhere.     *)
PostAccepted(h) ==
  /\ loop[h] = "carry"
  /\ place' = [place EXCEPT ![hold[h]] = IF PortOpen(h) THEN "port"
                                         ELSE "lost"]
  /\ Post(h, hold[h])
  /\ hold' = [hold EXCEPT ![h] = None]
  /\ loop' = [loop EXCEPT ![h] = IF PortOpen(h) THEN "call" ELSE "ended"]
  /\ UNCHANGED <<kind, runtimeVars, registryVars, callVars, nativeVars, at,
                 queue, late, target, closed, nclose, hit, clientVars>>

-----------------------------------------------------------------------------
(* The Dart listener: _handleAcceptEvent, delivery and close.              *)

PendingAccepts(h) == {i \in Items : at[i] = h /\ place[i] = "pending"}

(* An accepted item that arrives after close() is released; otherwise it   *)
(* is delivered, or parked while the subscription is paused, up to the     *)
(* cap.  The closed message runs close().                                  *)
HandleAccepted(h) ==
  /\ PortOpen(h) /\ events[h] # <<>> /\ Head(events[h]) \in Items
  /\ \E where \in
       IF closed[h] THEN {"closed"}
       ELSE IF PendingAccepts(h) = {} THEN {"pending", "adopting"}
       ELSE IF Cardinality(PendingAccepts(h)) < MaxPending THEN {"pending"}
       ELSE {"closed"} :
         place' = [place EXCEPT ![Head(events[h])] = where]
  /\ events' = [events EXCEPT ![h] = Tail(@)]
  /\ UNCHANGED <<kind, runtimeVars, registryVars, callVars, nativeVars, at,
                 queue, late, loopVars, closed, nclose, hit, clientVars>>

HandleClosed(h) ==
  /\ PortOpen(h) /\ events[h] # <<>> /\ Head(events[h]) = "closed"
  /\ events' = [events EXCEPT ![h] = Tail(@)]
  /\ closed' = [closed EXCEPT ![h] = TRUE]
  /\ nclose' = IF closed[h] THEN nclose ELSE [nclose EXCEPT ![h] = "asked"]
  /\ UNCHANGED <<kind, runtimeVars, registryVars, callVars, nativeVars,
                 itemVars, loopVars, hit, clientVars>>

(* onResume: _drainPendingAccepts *)
Resume(i) ==
  /\ place[i] = "pending" /\ ~closed[at[i]]
  /\ place' = [place EXCEPT ![i] = "adopting"]
  /\ UNCHANGED <<kind, runtimeVars, registryVars, callVars, nativeVars, at,
                 queue, late, loopVars, dartVars, clientVars>>

(* _deliverAccepted: adopting may fail, and owns the descriptor then; a    *)
(* listener closed meanwhile closes the connection instead of adding it.   *)
Deliver(i) ==
  /\ place[i] = "adopting"
  /\ \E where \in {"closed"} \cup (IF closed[at[i]] THEN {} ELSE {"app"}) :
       place' = [place EXCEPT ![i] = where]
  /\ UNCHANGED <<kind, runtimeVars, registryVars, callVars, nativeVars, at,
                 queue, late, loopVars, dartVars, clientVars>>

(* close(), up to its await of the native close *)
BeginClose(h) ==
  /\ call[h] = "bound" /\ ~closed[h]
  /\ closed' = [closed EXCEPT ![h] = TRUE]
  /\ nclose' = [nclose EXCEPT ![h] = "asked"]
  /\ UNCHANGED <<kind, runtimeVars, registryVars, callVars, nativeVars,
                 itemVars, loopVars, events, hit, clientVars>>

(* TcpCloseFdListener, HttpCloseBinding, UdpCloseBinding: take the id from *)
(* the current runtime's registry and close what it named; or the worker   *)
(* is gone and the call fails.                                             *)
NativeClose(h) ==
  /\ nclose[h] = "asked"
  /\ \/ LET found == Lookup(kind[h], id[h])
        IN  /\ hit' = [hit EXCEPT ![h] = found]
            /\ IF found = None
               THEN /\ nclose' = [nclose EXCEPT ![h] = "done"]
                    /\ UNCHANGED <<entries, closer>>
               ELSE /\ nclose' = [nclose EXCEPT ![h] = "closing"]
                    /\ entries' = Remove(found)
                    /\ closer' = [closer EXCEPT ![found] = @ \cup {"taker"}]
     \/ /\ nclose' = [nclose EXCEPT ![h] = "done"]
        /\ UNCHANGED <<entries, closer, hit>>
  /\ UNCHANGED <<kind, runtimeVars, shut, callVars, sock, once, drainer,
                 goroutines, itemVars, loopVars, events, closed, clientVars>>

(* The rest of close(): the isolate is killed, the port closed, and what   *)
(* is parked released.  Messages still in the port are never read.         *)
FinishClose(h) ==
  /\ \/ nclose[h] = "done"
     \/ nclose[h] = "closing" /\ "taker" \notin closer[hit[h]] \cup drainer[hit[h]]
  /\ nclose' = [nclose EXCEPT ![h] = "ended"]
  /\ place' = [i \in Items |->
                 CASE at[i] = h /\ place[i] = "port"    -> "lost"
                   [] at[i] = h /\ place[i] = "pending" -> "closed"
                   [] OTHER                             -> place[i]]
  /\ events' = [events EXCEPT ![h] = <<>>]
  /\ UNCHANGED <<kind, runtimeVars, registryVars, callVars, nativeVars, at,
                 queue, late, loopVars, closed, hit, clientVars>>

-----------------------------------------------------------------------------
(* Outbound requests: HttpStart, runHttpFdRequest, tailnetTransport.       *)

HttpStart(q) ==
  /\ rq[q] = "idle" /\ current # None
  /\ rq' = [rq EXCEPT ![q] = "running"]
  /\ rqGen' = [rqGen EXCEPT ![q] = current]
  /\ UNCHANGED <<kind, runtimeVars, registryVars, callVars, nativeVars,
                 itemVars, loopVars, dartVars, transport>>

(* The runtime's pooled transport is built on first use; after the slot    *)
(* was closed each straggler gets one of its own.                          *)
TailnetTransport(q) ==
  /\ rq[q] = "running"
  /\ IF transport[rqGen[q]] = "closed"
     THEN rq' = [rq EXCEPT ![q] = "oneoff"] /\ UNCHANGED transport
     ELSE /\ rq' = [rq EXCEPT ![q] = "pooled"]
          /\ transport' = [transport EXCEPT ![rqGen[q]] = "pooled"]
  /\ UNCHANGED <<kind, runtimeVars, registryVars, callVars, nativeVars,
                 itemVars, loopVars, dartVars, rqGen>>

(* The response is copied or the request fails; the deferred closes run. *)
FinishRequest(q) ==
  /\ rq[q] \in {"running", "pooled", "oneoff"}
  /\ rq' = [rq EXCEPT ![q] = "done"]
  /\ UNCHANGED <<kind, runtimeVars, registryVars, callVars, nativeVars,
                 itemVars, loopVars, dartVars, rqGen, transport>>

-----------------------------------------------------------------------------
SweepStep(g) == DrainRegistry(g) \/ CloseAllGoesOn(g) \/ CloseTailnetTransport(g)

BindStep(h) ==
  \/ PassGate(h) \/ AwaitDataPlane(h) \/ OpenSocket(h) \/ Commit(h)
  \/ AbandonBind(h)

CloseStep(h) ==
  \/ \E a \in Actors : \/ CloseListener(h, a) \/ CloseBridge(h, a)
                       \/ CloseBinding(h, a) \/ DrainQueue(h, a)
  \/ ServeReturns(h)

LoopStep(h) ==
  \/ EnterAccept(h) \/ AcceptEnds(h) \/ PostAccepted(h)
  \/ \E i \in Items : AcceptItem(h, i) \/ AcceptFails(h, i)

ListenerStep(h) ==
  HandleAccepted(h) \/ HandleClosed(h) \/ NativeClose(h) \/ FinishClose(h)

Next ==
  \/ DetachRuntime
  \/ \E g \in Gens : StartRuntime(g) \/ SweepStep(g)
  \/ \E h \in Handles :
       \/ AskBind(h) \/ BindStep(h) \/ CloseStep(h) \/ LoopStep(h)
       \/ ListenerStep(h) \/ ListenerDies(h) \/ StartLoop(h) \/ BeginClose(h)
       \/ \E p \in {"in", "out"} : PumpFails(h, p)
       \/ \E i \in Items : Arrive(i, h)
  \/ \E i \in Items :
       EnqueueRequest(i) \/ RefuseRequest(i) \/ Resume(i) \/ Deliver(i)
  \/ \E q \in Requests :
       HttpStart(q) \/ TailnetTransport(q) \/ FinishRequest(q)

Spec == Init /\ [][Next]_vars

(* Native steps that have been begun are run to their end by the goroutine *)
(* or isolate that is in them; waits on the network and whatever the       *)
(* application decides are not fair.                                       *)
Fairness ==
  /\ \A g \in Gens : WF_vars(SweepStep(g))
  /\ \A h \in Handles : /\ WF_vars(BindStep(h))
                        /\ WF_vars(CloseStep(h))
                        /\ WF_vars(LoopStep(h))

FairSpec == Spec /\ Fairness

-----------------------------------------------------------------------------
(* The variables have their types; no queue outgrows its limit.            *)
TypeOK ==
  /\ kind \in [Handles -> Kinds]
  /\ current \in Gens \cup {None} /\ epoch \in 0 .. 2 * Runtimes
  /\ generation \in [Gens -> 0 .. epoch]
  /\ stage \in [Gens -> {"none", "live", "transport", "swept"} \cup Kinds]
  /\ entries \in [Gens -> SUBSET Handles] /\ shut \in [Gens -> SUBSET Kinds]
  /\ call \in [Handles -> {"idle", "asked", "gated", "ready", "opened",
                           "bound", "refused", "failed"}]
  /\ token \in [Handles -> Gens \cup {None}]
  /\ lastId \in [Kinds -> Nat] /\ id \in [Handles -> Nat]
  /\ sock \in [Handles -> {"none", "open", "closed"}]
  /\ once \in [Handles -> BOOLEAN]
  /\ closer \in [Handles -> SUBSET Actors]
  /\ drainer \in [Handles -> SUBSET {"taker", "sweep", "serve"}]
  /\ goroutines \in [Handles -> SUBSET {"serve", "in", "out"}]
  /\ place \in [Items -> {"none", "wire", "handler", "queue", "native",
                          "port", "pending", "adopting", "app", "closed",
                          "lost"}]
  /\ at \in [Items -> Handles \cup {None}]
  /\ \A h \in Handles : Len(queue[h]) \in 0 .. Backlog
  /\ late \subseteq Items
  /\ loop \in [Handles -> {"off", "call", "wait", "carry", "ended"}]
  /\ target \in [Handles -> Handles \cup {None}]
  /\ hold \in [Handles -> Items \cup {None}]
  /\ closed \in [Handles -> BOOLEAN]
  /\ nclose \in [Handles -> {"no", "asked", "closing", "done", "ended"}]
  /\ hit \in [Handles -> Handles \cup {None}]
  /\ rq \in [Requests -> {"idle", "running", "pooled", "oneoff", "done"}]
  /\ rqGen \in [Requests -> Gens \cup {None}]
  /\ transport \in [Gens -> {"none", "pooled", "closed"}]

(* A handle reaches only its own resource.  Accept and close calls look    *)
(* an id up in whatever runtime is current when they run, so a handle kept *)
(* across a restart misses and never names a successor's listener.         *)
HandlesAreExact ==
  \A h \in Handles : target[h] \in {h, None} /\ hit[h] \in {h, None}

(* Every open tailnet socket has somebody who will close it: the binding   *)
(* call that has not committed it, the registry of the runtime it belongs  *)
(* to, which is still to be swept, or a close that has already been        *)
(* started.  A swept registry stays empty and a swept runtime keeps no     *)
(* pooled transport, however late a binding call or an outbound request    *)
(* comes (fdRegistry.commit against drain, tailnetTransport against        *)
(* closeTailnetTransport), and no handle reaches another's resource.       *)
ResourcesAreOwned ==
  /\ \A h \in Handles : sock[h] = "open" =>
       \/ call[h] \in {"opened", "refused"}
       \/ h \in entries[token[h]]
       \/ closer[h] # {}
  /\ \A g \in Gens : \A h \in entries[g] : kind[h] \notin shut[g]
  /\ \A g \in Gens : stage[g] = "swept" => transport[g] # "pooled"
  /\ HandlesAreExact

(* When the listener comes to the closed message of its accept isolate,    *)
(* nothing the isolate accepted is still on its way, so closing the port   *)
(* then loses no descriptor: only a close() of the application can.  And a *)
(* queued request is left without anyone to drain it only if its handler   *)
(* queued it after the last drain of the closed binding.                   *)
DescriptorsAreKept ==
  /\ \A h \in Handles : events[h] # <<>> /\ Head(events[h]) = "closed" =>
       \A i \in Items : at[i] = h => place[i] \notin {"native", "port"}
  /\ \A i \in Items : place[i] = "queue" /\ Unattended(at[i]) => i \in late

(* What the comments of the two listeners and of httpBindingState.close    *)
(* say: descriptors in flight when a listener is closed are released, and  *)
(* requests that raced the close of done are reclaimed.                    *)
DescriptorsAreReclaimed ==
  \A i \in Items :
    place[i] # "lost" /\ (place[i] = "queue" => ~Unattended(at[i]))

(* Once a runtime is detached, its sweep ends, none of its sockets stays   *)
(* open, also not one that was being opened meanwhile, and no accept       *)
(* isolate stays blocked in a native call on it.                           *)
SweepReleases ==
  \A g \in Gens :
    stage[g] = "tcp" ~>
      /\ stage[g] = "swept"
      /\ \A h \in Handles : token[h] = g => /\ sock[h] # "open"
                                            /\ loop[h] \in {"off", "ended"}
=============================================================================
