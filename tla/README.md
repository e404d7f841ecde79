# Verification of the embedded Tailscale runtime

TLA+ models of the concurrent core of this package: the Go runtime under
`src/go/` and the Dart code under `src/lib/` that drives it. Every definition
that models code is mapped to its lines in `PROJECT.json`, which also lists the
hazards the models are aimed at, the runs, a mutant for each property, and the
theorems.

Contents: 1 the system; 2 the modules; 3 how state and actions correspond to the
code; 4 the runs; 5 fairness; 6 proofs; 7 where code and comments disagree;
8 abstractions; 9 what is not modelled; 10 running it.

## 1. The system

The package embeds one Tailscale node (`tsnet.Server`) in a Dart process. Dart
calls a Go shared library over FFI, mostly from a worker isolate; Go posts
status, peer and error messages back to a Dart port.

| part | source | state | operations |
|---|---|---|---|
| runtime controller | `go/node_runtime.go`, `go/lib.go` | the candidate / current / draining slots, tombstones, retained receipts, the poison, `nodeEpoch` | start, down, abandon, await, logout, retire, acknowledge |
| persistent preparation | `go/state_preparation.go`, `go/prepared_persistent_state.go` | the preparation slot, its phase flags, the initial envelope write | begin, mark, supply key, prepare, complete, finish, abandon |
| key custody (Dart) | `lib/src/state_custody_coordinator.dart`, `lib/src/keybay_state_custody.dart` | the custody session and what it owes Keybay | begin, read, write, transfer, complete, settle |
| local reset | `go/local_state_reset.go`, `go/state_reset_fs_unix.go` | the reset slot, the durable marker, the state subtree | begin, finish, abort, crash and retry |
| state lease | `go/state_lease*.go` | the per-process admission table and the file lock | acquire, abandon, release |
| ephemeral scratch | `go/ephemeral_state.go` | scratch directories, each with a lease | create, close, sweep |
| encrypted store | `go/encrypted_state_store.go`, `go/secure_state_layout.go` | memory image, envelope file, temporary file | create, open, write, close, inspect |
| publication bootstrap | `go/publication_bootstrap.go` | the bootstrap phase of a runtime, masking of Running | begin up, observe state, settle, fail, shut down |
| publication manager | `go/publication_manager.go` | mapping tokens, the node's ServeConfig and its ETag, pending deliveries | forward, acknowledge, expire, clear, close |
| watcher and pushes | `go/push.go` | the IPN watcher run, the debounce timer, the port | start, publish, stop |
| descriptor registries | `go/fd_registry.go`, `go/fd_resources_posix.go`, `go/node_gate.go`, `go/tcp*`, `go/udp*`, `go/http_fd_posix.go` | listeners, bindings, bridges and request queues of a runtime | bind, accept, close, sweep |
| listeners (Dart) | `lib/src/api/connection.dart`, `http.dart`, `udp.dart` | the accept isolate, its port, pending accepts | accept, deliver, resume, close |
| descriptor reactor (Dart) | `lib/src/posix_reactor.dart`, `lib/src/fd_transport.dart` | one adopted descriptor, its read and write state | write, half-close, pause, close, readiness |
| supervisor (Dart) | `lib/tailscale.dart`, `lib/src/worker/*` | lifecycle calls in flight, the worker isolate, rescue | up, down, logout, forget, worker exit |

What makes it hard: `Server.Start`, lease acquisition and Keybay calls cannot be
cancelled, so every caller that gives up leaves work running that must be
quarantined, not forgotten; several paths may close the same runtime; a failed
close must stop the process from opening a replacement over unknown resources;
key, envelope and reset marker are changed by two languages and must agree after
a crash; and descriptors change hands between Go, a registry, an accept isolate
and a reactor shard, each of which may be shutting down.

## 2. The modules

| module | models | instance | proofs |
|---|---|---|---|
| `RuntimeController` | the native lifecycle authority: slots, start, down, abandon, await, logout, reset, preparation slot, publication reaper | `MCRuntimeController` | `RuntimeController_proofs`, `SlotMoves_proofs`, `OwnerMoves_proofs`, `SingleServer_proofs` |
| `NodeHost` | what the controller promises: a host of one node | refined by `RuntimeController` | `NodeHost_proofs` |
| `StateCustody` | the DEK between native preparation, Dart session, Keybay and envelope | `MCStateCustody` | |
| `StateDisk` | the state directory, system call by system call, with power losses | `MCStateDisk` | |
| `StateLease` | the lease of one directory among processes, and the removal of scratch directories | `MCStateLease` | `StateLease_proofs` |
| `RootLease` | what the lease promises: an abstract lock | refined by `StateLease` | |
| `PublicationManager` | Serve/Funnel publications, their ownership, delivery and teardown | `MCPublicationManager` | |
| `RuntimeWatch` | the watcher, the first-Up bootstrap, its waiters and the teardown of one runtime | `MCRuntimeWatch` | |
| `FdResources` | registries, listeners, bindings and bridges, accept isolates, close sweep | `MCFdResources` | `FdMoves_proofs`, `FdResources_proofs` |
| `FdTransport` | one adopted descriptor between consumer, reactor isolate, poller and peer | `MCFdTransport` | |

The modules meet at shared objects, each modelled in full once and by its effect
elsewhere. The lease is a table of processes and files in `StateLease`, and one
variable (who holds it, whether it is poisoned) in `RuntimeController` and
`StateCustody`. A preparation is a slot with a phase in `RuntimeController` and
its whole record in `StateCustody`. The reset is a slot in `RuntimeController`,
a sequence with the key in `StateCustody` and its system calls in `StateDisk`.
The close of a runtime is a resource order in `RuntimeController`, the join of
watcher and worker in `RuntimeWatch`, the sweep of the registries in
`FdResources`, and the clearing of publications in `PublicationManager`.

## 3. Correspondence with the code

One action is one critical section under the mutex that guards the state, or one
blocking step taken with no lock held. `PROJECT.json` maps each to its lines.

**RuntimeController.** The variables are the fields of `runtimeController` and
`nodeRuntime`. The supervisor never reuses a token, so the fields of a runtime,
preparation, drain or logout are functions of the token. `pc[<<op, t>>]` is the
control point of native call `op` for token `t`; calls on one token overlap in
every way the supervisor's rescue allows. `stage` walks `closeOwnedResources`:
Server, store, lease, scratch, where each may fail. `cleanReports` is history:
which calls told their caller that a token closed cleanly.

**StateCustody.** `prep` is `persistentPreparation`, `session` is
`StateCustodySession`, `receipt` the shared settlement receipt; `rescue` is the
two callers of `_quarantineStateOperation` (the timeout of `up` and the failing
sequence itself). `keybay`, `envelope` and `marker` survive a crash; the rest
does not. A Keybay call may apply and report an error.

**StateDisk.** `mem` is the directory as running processes see it and `old` what
a power loss may bring back instead, entry by entry, until the directory is
fsynced. `pc` names the next system call; each may fail.

**StateLease.** Each system call of `acquireStateLease` and of
`removeEphemeralStateScratchRoot` is a step of a call; `admission` and
`poisoned` are a process's admission table; `locks` are the flocks the kernel
holds. `Crash` drops what the kernel drops.

**PublicationManager.** `m.mu` is held over a whole get / apply / conditional
set transaction, so `op` is the lock and the locals of its owner; other writers,
delivery timers, lost answers and the detach of the runtime interleave. `late`
are sets whose error the manager already has and which the node still handles:
the context of a forward or a clear is derived from the runtime's, which the
close cancels before it sweeps. `stray`, `untouched` and `decision` are history.

**RuntimeWatch.** One runtime; `loop`, `call`, `callbacks`, `worker`, `reaper`
and `answer` are the control points of the watcher goroutines, of `StartWatch`,
of the debounce callbacks, of the Server.Up worker, of the failure reaper and of
the data-plane calls that wait for it.

**FdResources.** A handle is one binding call with the resource it opens, its
registry id, its accept isolate and its Dart listener. `stage` walks the sweep
of the runtime through its three registries and the pooled transport. `closer`
and `drainer` are the goroutines that have decided to close a resource and have
not yet done so. `place` says who holds an item's descriptors.

**FdTransport.** `app` is `PosixFdTransport`, `st` is `_ReactorTransportState`,
`cmds` and `evts` the two ports; a drain of the socket stops between system
calls so that the peer can move. `proxyClosed` is the proxy's `_closed`, which
`RegisterTimesOut` sets while the reactor runs on: from then on `send` throws,
which `write`, `closeWrite` and `_enableReadIfReady` report and `close`, the
acknowledgements and `_disableRead` swallow. The peer is `pipe` in `go/tcp.go`.

## 4. The runs

All passing runs have bounds small enough to be exhausted and large enough for
the races they are about. Where everything at once is out of reach, the MC module
has a `scenario` variable: chosen initially, it restricts which of the optional
steps a behaviour may contain and changes no action.

| run | properties | what it shows |
|---|---|---|
| `lifecycle` | `TypeOK`, `HostsOneNode`, `SlotsExclusive`, `NoLateCommit`, `CleanAnswersAreCovered`, `RootHasOneWriter`, `ProvenConfigIsLastLaunched`, `HostNetworkBelongsToCurrent`, `LifecycleSettles` | rescue, logout, reset, publication failure and host-network refresh against starts of other tokens: one Server at a time, one owner, no clean answer that nothing accounts for; every call on one token joined by every other returns, and a quarantined token gives up its slots |
| `custody_pairs` | `TypeOK`, `EnvelopeHasItsKey`, `LeaseGuardsCustody`, `SettledPairIsCoherent`, `KeyMaterialWiped` | two public calls with timeouts, uncertain Keybay answers and a crash: no envelope loses its key, no key is left over, no key bytes stay |
| `disk_durability` | `TypeOK`, `StoreIsHonest`, `PowerLossIsRecoverable`, `RefusedOnlyAfterFault` | every power loss and failed call in provisioning, writing and resetting leaves something the next start or reset can use |
| `lease_exclusion` | `TypeOK`, `LeaseIsSound`, `LeaseIsExclusive` | two processes, three users and two sweepers: the lease is an abstract lock, and no sweep takes a live directory |
| `publication_ownership` | `TypeOK`, `SweptIsClean`, `MappingHasOneHolder`, `ForeignConfigPreserved` | forwards, clears, lost and late sets, timers, teardown and another writer: every mapping has a holder, and teardown removes what is ours, late sets aside, and nothing else |
| `watch_barrier` | `TypeOK`, `DartSeesTheNode`, `JoinsAreReal`, `PublicationBarrier`, `WaitersAreReleased`, `TeardownCompletes` | Running only after the first Up; nothing is posted behind the barrier; every join waits for something that ends |
| `transport_stream` | `TypeOK`, `InboundIsExact`, `OutboundIsHonest`, `TransferCompletes` | credit, half-close, pauses, faults, a marked proxy and a vanishing peer: no byte lost, none acknowledged too early, no stall while commands reach the reactor |
| `fd_resources` | `TypeOK`, `ResourcesAreOwned`, `DescriptorsAreKept`, `SweepReleases` | binding, accepting, closing and sweeping in every order: no socket without an owner, nothing on its way behind the accept loop's last message, no request left by a drain that found it, and no accept left blocked |
| `clean_answers` | `CleanAnswersAreTrue` (violated) | section 7 |
| `publication_sweep` | `SweepIsFinal` (violated) | section 7 |
| `transport_documented` | `TransferAsDocumented` (violated) | section 7 |
| `fd_reclaim` | `DescriptorsAreReclaimed` (violated) | section 7 |

Each violated property is what the comments promise; a passing run has the
weaker property that the code keeps, with the exception named:
`CleanAnswersAreCovered` lets a rescue answer while a reset owns the runtime and
a logout while the poison holds the failure; `SweptIsClean` excepts where a late
set landed; `TransferCompletes` excepts a marked proxy and an end of file after
`closeWrite()`; `DescriptorsAreKept` excepts a close by the application and a
request queued after the last drain.

Bounds. `lifecycle` has three tokens because the deepest race takes three: a
refresh for a runtime that is being replaced by another. Its scenarios pair
calls on one token with starts or a reset of another; its liveness property is
about the scenario `settling`, which has one token, since joins are per token.
`custody_pairs` has two tokens (a call, and the next one that a leftover would
hurt) and one crash; tokens also name keys. `disk_durability` has two keys and
two versions (an old and a new one) and two deaths, so that a recovery can be
interrupted too. `lease_exclusion` has two calls and a sweeper in one process
and one of each in the other, so that admission and flock are both contended.
`publication_ownership` has one port, two paths, two tokens (a publication and
its replacement), one foreign write and one late set, in scenarios that combine
one path with the foreign write, one path with the late set, and both paths with
neither; `MaxAttempts` is the code's 3. Both paths beside the foreign write,
both paths with the late set, and one path with both hold too, but take several
million states each and are not kept. `watch_barrier` has two `StartWatch`
calls, one waiter and one backend change beyond the initial one.
`transport_stream` has buffers, chunks and limits of 2 units against 3 units
sent and 3 writes, so that each is exceeded; the proxy is marked under a stream
that only reads or only writes. `fd_resources` has two binding calls, two items,
two runtimes, and a backlog and pending limit of 1, which two items overrun; its
scenarios are a stream listener, an HTTP binding, a resource of any kind beside
a listener, a restart, and the outbound client.

Symmetry is used only in the publication runs (handlers and paths), which check
no liveness. Deadlock is checked in `watch_barrier`; elsewhere a behaviour ends
where all calls the bounds allow have been made.

## 5. Fairness

Fairness is assumed only of code that has been entered and is runnable, never of
a user, a network or a timer.

- `RuntimeController` (in the scenario `settling`, the only one that a liveness
  property is about): every begun native call and every begun close goes on
  (weak fairness of its steps). `Server.Start` and `Server.Close` return, which
  is the assumption the code itself makes when it joins them without a deadline.
  Making a call is never fair.
- `RuntimeWatch`: goroutines that are not blocked go on; a blocked bus read ends
  when its context is cancelled. `Server.Up` runs under a deadline
  (`publicationBootstrapMaxWait`) and so returns. A
  waiting call is only owed an answer once the bootstrap's channel is closed.
- `FdTransport`: the event loops of both isolates go on. The peer need not read:
  `pipe` blocks while the remote end does not take what it forwards. Answers to
  writes are therefore promised only if the peer empties its buffer again and
  again (`PeerDrains`, the premise of `TransferCompletes`).
  Commands have strong fairness: the reactor yields to its port twice in every
  round, so a command is received between two rounds that keep disabling it.
- `FdResources`: begun native steps, the sweep, the binding calls and the accept
  isolate go on. Connections arriving, network waits that nobody has closed, and
  whatever the application does are not fair.

## 6. Proofs

Proved with TLAPS for every value of the constants:

| theorem | statement | property of run |
|---|---|---|
| `TypeCorrect` | `RuntimeController` is type correct | `lifecycle` |
| `Accounting` | `ServerAccounted` is an invariant | |
| `OneServer` | at most one Server runs, a lost one included | (conjunct of what `HostsOneNode` says) |
| `ExclusiveSlots` | `SlotsExclusive` | `lifecycle` |
| `PoisonIsFinal` | after a failed cleanup no slot is occupied and no Server runs | |
| `HostRefined` | `RuntimeController` implements `NodeHost` | `lifecycle` |
| `LeaseTypeCorrect`, `LeaseSound` | `TypeOK` and `LeaseIsSound` of `StateLease` | `lease_exclusion` |
| `LeaseRefines` | `StateLease` implements `RootLease` | `lease_exclusion` |
| `FdOwned` | `ResourcesAreOwned` | `fd_resources` |

Assumptions: `TokenAssumption` and `CallsAssumption` (None is not a token; calls
are operations on tokens), `LeaseAssumption` (every call belongs to a process),
`FdAssumption` (limits are positive, None is none of the values, items are
finitely many). TLC evaluates them in every run.

*One Server.* That two Servers never run together is not inductive: a step that
starts a Server must know that no other is hidden outside the slots.
`ServerAccounted` says, per token, which slot accounts for a starting or live
Server (`StartOwnsCandidate`, `FailureAccounted`), how far its close has come
(`CloseOrder`), that a failed close is still owned by the slot that will report
it or is already in the poison, and what a reset holds (`ResetOwnsSlot`,
`ResetHoldsRuntime`). Commit does not check the poison; the invariant shows why
it need not: a candidate and the poison exclude each other. The steps of each
call are reduced in `SlotMoves_proofs` and `OwnerMoves_proofs` to a few moves (a
control point, a slot, a close, a preparation phase), and `SingleServer_proofs`
identifies the move of each action. `NodeHost_proofs` adds which actions move a
Server or record a failure, and takes the abstract guards from the invariant.

*The lease.* `LeaseInv` adds to `LeaseIsSound` that a reservation and a lock are
kept from acquisition to release, that flock gives an inode to one open file,
that the lock file of a live root is not replaced, and that a scratch directory
has one owner. An uncertain cleanup keeps a lock alive; that it harms nobody
needs the poisoned admission.

*Descriptors.* `OwnInv` adds to `ResourcesAreOwned` that registered resources are
bound and open or being closed, that ids are distinct per registry, that only a
closed binding is drained, that a call which has not opened its socket owns
nothing, and that a swept runtime has closed registries. `FdMoves_proofs` shows
it preserved by each kind of move, `FdResources_proofs` finds the move of each
action.

Only model-checked: all liveness properties, and every property not listed. The
prover used has no support for liveness under fairness or `ENABLED`, and
`BytesOf` and `SumTo` in `FdTransport` would need induction over data.

## 7. Where code and comments disagree

Shown by a run. TLC prints the first case of each; the others violate the same
property in the variation named:

- `clean_answers`: a local reset takes the runtime out of the controller without
  a drain, so an `AbandonRuntime` of its token, run for a worker that exited
  meanwhile, finds no owner and answers clean with the Server still live
  (`go/node_runtime.go:979-988`), while `doc/concurrency.md:77-80` says the
  rescue joins native cleanup. A successor is still refused by the reset slot.
  With the scenario `reapLogout` alone: a publication failure can detach, close
  with an error and drain the runtime between the revocation and the close of a
  logout; `closeRuntime` then finds no runtime and the logout reports no cleanup
  failure (`go/lib.go:250`), while `doc/concurrency.md:91` says cleanup errors
  cannot be swallowed. The poison does record the failure.
- `publication_sweep`: the close cancels the runtime's context before the sweep
  (`go/node_runtime.go:207`, `:215`), so a set can return Canceled while the node
  handles it; it lands behind a sweep that succeeded, against the comment at
  `go/publication_manager.go:107-109`. With `MaxLate = 0`: after a `clear` that
  was applied and whose answer was lost, the sweep leaves the port's Funnel bit
  on (`go/publication_manager.go:473`), against the comment at line 436. In both
  cases the next runtime's first Up resets the configuration, the barrier that
  the comments at `go/node_runtime.go:210-212` name.
- `transport_documented`: a registration that times out marks the shard's proxy
  closed although the reactor runs on (`lib/src/posix_reactor.dart:130`).
  `close()` of a transport it has swallows the failed send and the descriptor
  stays registered (`lib/src/fd_transport.dart:279-284`, against the comment at
  271-278). Likewise an acknowledgement is dropped, and the stream stalls at its
  inbound limit without an error (356-363). In the scenario `both`, without
  faults: an end of file after `closeWrite()` tears the transport down and
  leaves the futures of queued writes and of `closeWrite()` itself uncompleted
  (368, against the doc at 203-204).
- `fd_reclaim`: `close()` of a Dart listener kills the accept isolate and shuts
  its port, so a descriptor that the native accept returns afterwards, or one in
  a message still in the port, is not released (`connection.dart:253-254`,
  `http.dart:266-267`, against the comments at `connection.dart:297-299` and
  `http.dart:310-312`). In the scenario `requests`: a handler that enqueues
  after both drains of a closed binding leaves its descriptors in the queue
  (`go/http_fd_posix.go:434`), against the comment at 201-204.

Met while modelling, without a run of its own:

- After `shutdown(SHUT_WR)` the flush returns without updating the interest
  (`lib/src/posix_reactor.dart:709`), so write interest armed by an earlier EAGAIN
  stays with an empty queue and a level-triggered wait returns at once until the
  next change. The comment at 791 says write interest is asserted only while
  there is queued data. `FdTransport` contains this.
- Two debounce callbacks may overlap and post peer snapshots in the wrong order
  (`go/push.go:263`); Dart then shows the older inventory until the next change,
  while `tailscale.dart:1013` promises one emission per change.
- Two sweepers may both work on a directory that was moved aside when its removal
  takes longer than the minimum age, which the comment at
  `ephemeral_state.go:275-279` rules out by the fresh modification time. It
  concerns directories that are being deleted anyway.
- A failed acquisition in `BeginLocalReset` with uncertain cleanup
  (`local_state_reset.go:82`) poisons the lease and not the controller, unlike
  the preparation (`state_preparation.go:509`). Later starts are refused by the
  lease itself, with a different error.
- A registration with a reactor shard that times out is retried on another shard
  while the first may still carry it out, and the exit handler of an old shard
  removes whatever instance is recorded under its number
  (`posix_reactor.dart:98`, `:129`, `:187`). Not modelled.

## 8. Abstractions

- `RuntimeController`: a configuration is the token that launched it; files,
  DNS and deadlines are left out, a deadline being an early return that may
  happen; an empty host-network snapshot, which changes nothing, is left out.
- `StateCustody`: a key is the token that generated it; path validation and
  spontaneous I/O errors of an inspection are left out; the acquisition whose
  cleanup is uncertain is in `RuntimeController`.
- `StateDisk`: the root is never replaced; legacy files and the tsnet sidecar
  directory are left out; entries reorder independently on power loss.
- `StateLease`: one directory inode; a collision of cleanup paths is one of the
  reasons to give up.
- `PublicationManager`: one DNS name; an ETag is the content; a set whose answer
  is lost was applied, dropped or is still being handled; other writers use their
  own handlers.
- `RuntimeWatch`: the Stopped of a down is posted where the drain ends, as for
  every other close, and not by the caller; error posts share the barrier of
  states and are not tracked; the deadline of an Up is a failure that may happen
  at any time; the worker calls `StartWatch` once per runtime, so a second call
  overlaps the first run but not a teardown in progress.
- `FdTransport`: a byte is a unit; datagram peers neither close nor half-close;
  the descriptor is registered from the start; listening to a closed transport,
  which does nothing, is left out.
- `FdResources`: an item is known by where its descriptors are; the consecutive
  accept errors that end a listener are one choice, and an accept error without
  a connection (which the loop retries) is left out; the gate, the data-plane
  wait and the failures of an outbound request before it runs are one step; a
  successor runtime starts after its predecessor was swept (what
  `RuntimeController` shows).

## 9. Not modelled

`PROJECT.json` lists every part. Left out on purpose:

- the Dart supervisor's lifecycle queue and the worker's request correlation:
  their calls are the environment of the native models, which allow more
  interleavings than the queue lets through;
- shard selection and registration of the reactor, the poller's handle table and
  wake pipe, the kqueue filters;
- the offload gate: a semaphore that one isolate changes atomically;
- outbound dials (they register nothing), byte pipes, the UDP envelope, HTTP heads
  and bodies: conversions and copying, where no state is shared;
- LocalAPI queries, preferences, exit nodes, diagnostics: stateless requests;
- file modes and owners, exports, wire codes, FFI bindings, platform stubs, the
  build hook and the demos.

## 10. Running it

In this directory, with the community modules on TLC's path:

    tlc -config RuntimeController_lifecycle.cfg MCRuntimeController
    tlapm SingleServer_proofs.tla

`PROJECT.json` names the module and configuration of each run. The longest takes
a few minutes; the proofs take a few minutes per module.
