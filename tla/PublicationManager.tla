------------------------ MODULE PublicationManager ------------------------
(***************************************************************************)
(* The Serve/Funnel authority of one runtime: publicationManager in        *)
(* go/publication_manager.go, the exported operations that use it          *)
(* (go/localapi.go) and the delivery of a publication handle to Dart       *)
(* (lib/src/worker/native_offload.dart).                                   *)
(*                                                                         *)
(* The manager's mutex is held over a whole get / apply / ETag-set         *)
(* transaction, so `op` is both the lock and the local variables of the    *)
(* operation that holds it. Other writers of the node's ServeConfig,       *)
(* runtime teardown, delivery timers and lost answers interleave with it.  *)
(*                                                                         *)
(* The runtime has one DNS name. An ETag is a digest of the configuration, *)
(* so a conditional set succeeds exactly when the configuration is the one *)
(* that was read. A set whose answer is lost, because its context ended or *)
(* the connection broke, was applied, was not, or is still being handled   *)
(* by the node when the error reaches the manager, and lands later. The    *)
(* context of a forward or a clear is cancelled before the sweep begins.   *)
(* Handler equality stands for reflect.DeepEqual; other writers use a      *)
(* handler of their own.                                                   *)
(***************************************************************************)
EXTENDS Integers, FiniteSets

CONSTANTS Ports, Paths, \* the coordinates
          Handlers,     \* web handlers that this package installs
          Ext,          \* a web handler installed by another writer
          None,         \* no handler
          MaxToken,     \* bound on mapping tokens: forwards
          MaxExternal,  \* bound on writes by other writers
          MaxLate       \* bound on sets the node handles after their error

ASSUME HandlerAssumption == Ext \notin Handlers /\ None \notin Handlers /\ Ext # None
ASSUME BoundAssumption == {MaxToken, MaxExternal, MaxLate} \subseteq Nat

Keys == Ports \X Paths
Port(k) == k[1]
Tokens == 1 .. MaxToken
MaxAttempts == 3  \* maxServeConfigMutationAttempts

VARIABLES
  config,     \* the node's ServeConfig
  late,       \* sets the node still handles though their error was returned
  external,   \* writes by other writers so far
  current,    \* the runtime is runtimes.current
  closed,     \* m.closed
  op,         \* the operation that holds m.mu
  mappings,   \* m.mappings
  visibility, \* m.visibility
  pending,    \* the tokens in m.pendingDelivery
  lastToken,  \* m.nextMappingToken
  quarantine, \* a goroutine entered quarantinePublicationFailure
  reply,      \* where the answer of a token's forward is, in Dart
  expired,    \* history: the tokens whose delivery timer fired
  swept,      \* history: how the teardown sweep ended
  decision,   \* history: the last package decision on a port's Funnel bit
  untouched,  \* history: package-enabled ports that no other writer and no
              \* late set touched since
  stray       \* history: where a late set landed that nobody owned any more

owned == <<mappings, visibility, pending, lastToken>>
runtime == <<current, closed, quarantine>>
history == <<expired, swept, decision, untouched, stray>>
vars == <<config, late, external, runtime, op, owned, reply, history>>

Configs == [web : [Keys -> Handlers \cup {Ext, None}], funnel : [Ports -> BOOLEAN]]
Evidence == [key : Keys, handler : Handlers, funnel : BOOLEAN]

NoMapping == [token |-> 0, variants |-> {}]
NoVisibility == [token |-> 0, funnel |-> FALSE, evidence |-> {}]
Free == [kind |-> "free"]

EmptyConfig ==
  [web |-> [k \in Keys |-> None], funnel |-> [p \in Ports |-> FALSE]]

\* newPublicationManagerWithClient. The first Up of the runtime has reset the
\* node's ServeConfig.
Init ==
  /\ config = EmptyConfig
  /\ external = 0
  /\ current = TRUE /\ closed = FALSE /\ quarantine = FALSE
  /\ op = Free
  /\ mappings = [k \in Keys |-> NoMapping]
  /\ visibility = [p \in Ports |-> NoVisibility]
  /\ pending = {} /\ lastToken = 0
  /\ reply = [t \in Tokens |-> "none"]
  /\ expired = {} /\ swept = "no"
  /\ decision = [p \in Ports |-> "none"]
  /\ untouched = {} /\ late = {} /\ stray = {}

-----------------------------------------------------------------------------
(* Pure transformations of a ServeConfig.                                  *)

SetFunnel(c, p, on) == [c EXCEPT !.funnel[p] = on]

HasWeb(c, p) == \E k \in Keys : Port(k) = p /\ c.web[k] # None

\* applyServeForward
ApplyForward(c, k, h, on) == SetFunnel([c EXCEPT !.web[k] = h], Port(k), on)

\* removeServeWebHandlerWithFunnelCleanup
RemoveHandler(c, k, cleanup) ==
  LET removed == [c EXCEPT !.web[k] = None]
  IN IF HasWeb(c, Port(k)) /\ cleanup /\ ~HasWeb(removed, Port(k))
     THEN SetFunnel(removed, Port(k), FALSE)
     ELSE removed

\* applyServeClearForHostWithFunnelCleanup
ApplyClear(c, k, funnel, cleanup) ==
  RemoveHandler(IF funnel THEN SetFunnel(c, Port(k), FALSE) ELSE c, k, cleanup)

\* mappingMatchesServeConfig
Matches(m, c, k) == c.web[k] \in m.variants

\* visibilityOwnsEnabledConfig
OwnsEnabled(c, p, v) ==
  \E e \in v.evidence :
    e.funnel /\ Port(e.key) = p /\ c.web[e.key] = e.handler

\* The sweep in close: the visibility evidence is evaluated before any owned
\* handler is removed.
ApplyClose(c) ==
  [web |-> [k \in Keys |-> IF Matches(mappings[k], c, k) THEN None ELSE c.web[k]],
   funnel |-> [p \in Ports |-> c.funnel[p] /\ ~OwnsEnabled(c, p, visibility[p])]]

\* A variant: the exact close does not look for an external replacement.
ApplyUnmatched(o, c) ==
  CASE o.kind = "forward" -> ApplyForward(c, o.key, o.handler, o.funnel)
    [] o.kind \in {"exact", "coordinate"} -> ApplyClear(c, o.key, o.funnel, o.cleanup)
    [] OTHER -> ApplyClose(c)

\* The apply callback of each operation.
Apply(o, c) ==
  CASE o.kind = "forward" -> ApplyForward(c, o.key, o.handler, o.funnel)
    [] o.kind = "exact" /\ ~Matches(o.mapping, c, o.key) -> c
    [] o.kind \in {"exact", "coordinate"} -> ApplyClear(c, o.key, o.funnel, o.cleanup)
    [] OTHER -> ApplyClose(c)

\* forward reports a change even when the handler is the same.
Changed(o, c) == o.kind = "forward" \/ Apply(o, c) # c

-----------------------------------------------------------------------------
(* Operations acquire the mutex. A refused one changes nothing.            *)

\* requireCurrentLocked
RequireCurrent == ~closed /\ current

Acquire(o) == op = Free /\ op' = o

\* forward, up to the transaction: the token is allocated before it.
ForwardBegin(k, h, on) ==
  /\ RequireCurrent
  /\ lastToken < MaxToken
  /\ lastToken' = lastToken + 1
  /\ Acquire([kind |-> "forward", key |-> k, handler |-> h, funnel |-> on,
              token |-> lastToken + 1, phase |-> "get", attempt |-> 1,
              base |-> EmptyConfig, result |-> "none"])
  /\ UNCHANGED <<config, late, external, runtime, mappings, visibility, pending,
                 reply, history>>

OwnsVisibility(k, t) == visibility[Port(k)].token = t

\* clear with a handle's generation and token: only the live mapping's own
\* token gets past the early returns.
ClearExactBegin(k) ==
  /\ RequireCurrent
  /\ mappings[k].token # 0
  /\ reply[mappings[k].token] = "handle"
  /\ LET t == mappings[k].token
         on == OwnsVisibility(k, t) /\ visibility[Port(k)].funnel
     IN Acquire([kind |-> "exact", key |-> k, mapping |-> mappings[k],
                 funnel |-> on, cleanup |-> on, owns |-> OwnsVisibility(k, t),
                 phase |-> "get", attempt |-> 1, base |-> EmptyConfig,
                 result |-> "none"])
  /\ UNCHANGED <<config, late, external, runtime, owned, reply, history>>

\* clear without a handle.
ClearCoordinateBegin(k, funnel) ==
  /\ RequireCurrent
  /\ Acquire([kind |-> "coordinate", key |-> k, mapping |-> mappings[k],
              funnel |-> funnel, cleanup |-> TRUE, owns |-> FALSE,
              phase |-> "get", attempt |-> 1, base |-> EmptyConfig,
              result |-> "none"])
  /\ UNCHANGED <<config, late, external, runtime, owned, reply, history>>

\* close, up to the transaction.
CloseBegin ==
  /\ ~current /\ ~closed
  /\ closed' = TRUE
  /\ pending' = {}
  /\ IF \A k \in Keys, p \in Ports : mappings[k] = NoMapping /\ visibility[p] = NoVisibility
     THEN op = Free /\ swept' = "ok" /\ UNCHANGED op
     ELSE /\ Acquire([kind |-> "close", phase |-> "get", attempt |-> 1,
                      base |-> EmptyConfig, result |-> "none"])
          /\ UNCHANGED swept
  /\ UNCHANGED <<config, late, external, current, quarantine, mappings, visibility,
                 lastToken, reply, expired, decision, untouched, stray>>

-----------------------------------------------------------------------------
(* mutateLocked.                                                           *)

Holding(phase) == op # Free /\ op.phase = phase

\* The configuration that was read matters only until the set.
Retry == [op EXCEPT !.phase = "get", !.attempt = @ + 1, !.base = EmptyConfig]

Result(r) ==
  op' = [op EXCEPT !.phase = "settle", !.attempt = 1, !.base = EmptyConfig,
                   !.result = r]

MayDispatch == op.kind = "close" \/ RequireCurrent

\* GetServeConfig and the apply callback; either may fail.
Get ==
  /\ Holding("get")
  /\ \/ Result("notApplied")
     \/ /\ MayDispatch
        /\ IF Changed(op, config)
           THEN op' = [op EXCEPT !.phase = "set", !.base = config]
           ELSE Result("ok")
  /\ UNCHANGED <<config, late, external, runtime, owned, reply, history>>

\* A set as the node handles it: the ETag it carries, what it stores, and the
\* ports it is about.
Request ==
  [base |-> op.base, next |-> Apply(op, op.base),
   ports |-> IF op.kind = "close" THEN Ports ELSE {Port(op.key)}]

\* The handler of the node: the request is stored when its ETag matches.
Store(q) == config = q.base /\ config' = q.next

\* The bookkeeping of an applied set: which enabled ports are the package's.
Untouched ==
  {p \in Ports : config'.funnel[p] /\
     (p \in untouched \/ (op.kind = "forward" /\ Port(op.key) = p))}

\* SetServeConfig: applied, refused because the configuration is no longer the
\* one that was read, denied, or answered by an error that proves nothing.
Set ==
  /\ Holding("set")
  /\ \/ /\ ~MayDispatch
        /\ Result("notApplied")
        /\ UNCHANGED <<config, untouched, late>>
     \/ /\ MayDispatch /\ Store(Request)
        /\ untouched' = Untouched
        /\ \E r \in {"ok", "indeterminate"} : Result(r)
        /\ UNCHANGED late
     \/ /\ MayDispatch /\ config # op.base
        /\ IF op.attempt = MaxAttempts THEN Result("conflict") ELSE op' = Retry
        /\ UNCHANGED <<config, untouched, late>>
     \/ /\ MayDispatch
        /\ \E r \in {"notApplied", "indeterminate"} : Result(r)
        /\ UNCHANGED <<config, untouched, late>>
     \/ /\ MayDispatch /\ Cardinality(late) < MaxLate
        /\ Result("indeterminate")
        /\ late' = late \cup {Request}
        /\ UNCHANGED <<config, untouched>>
  /\ UNCHANGED <<external, runtime, owned, reply, expired, swept, decision, stray>>

\* The node comes to a set whose caller has gone. What it installs is stray
\* where no mapping, or one for other handlers, is left, or where the sweep or
\* the clear that is about to drop the mapping has already made its last read.
Owned(k, c) == Matches(mappings[k], c, k) /\ ~(Holding("settle") /\ op.result = "ok")

Land(q) ==
  /\ q \in late
  /\ late' = late \ {q}
  /\ \/ /\ Store(q)
        /\ untouched' = untouched \ q.ports
        /\ stray' = stray \cup {k \in Keys : /\ q.next.web[k] \in Handlers
                                            /\ q.next.web[k] # q.base.web[k]
                                            /\ ~Owned(k, q.next)}
     \/ config # q.base /\ UNCHANGED <<config, untouched, stray>>
  /\ UNCHANGED <<external, runtime, op, owned, reply, expired, swept, decision>>

-----------------------------------------------------------------------------
(* What each operation does with the result, and the release of the mutex. *)

Release == op' = Free

\* A variant: the evidence does not record the visibility.
NewEvidenceBare(k, variants, on) ==
  {[key |-> k, handler |-> h] : h \in variants}

\* visibilityEvidence
NewEvidence(k, variants, on) ==
  {[key |-> k, handler |-> h, funnel |-> on] : h \in variants}

\* A confirmed forward: it replaces the mapping of its coordinate and the
\* policy of its port. A runtime detached meanwhile gets no handle.
ForwardApplied ==
  /\ Holding("settle") /\ op.kind = "forward" /\ op.result = "ok"
  /\ LET p == Port(op.key)
     IN /\ mappings' = [mappings EXCEPT ![op.key] = [token |-> op.token, variants |-> {op.handler}]]
        /\ visibility' = [visibility EXCEPT ![p] =
             [token |-> op.token, funnel |-> op.funnel,
              evidence |-> NewEvidence(op.key, {op.handler}, op.funnel)]]
        /\ decision' = [decision EXCEPT ![p] = IF op.funnel THEN "public" ELSE "private"]
  /\ pending' = (pending \ {mappings[op.key].token}) \cup (IF current THEN {op.token} ELSE {})
  /\ reply' = [reply EXCEPT ![op.token] = IF current THEN "inFlight" ELSE "failed"]
  /\ Release
  /\ UNCHANGED <<config, late, external, runtime, lastToken, expired, swept, untouched, stray>>

\* A variant: only the attempted handler is remembered.
ForwardIndeterminateForgetsPrior ==
  /\ Holding("settle") /\ op.kind = "forward" /\ op.result = "indeterminate"
  /\ LET p == Port(op.key)
     IN /\ mappings' = [mappings EXCEPT ![op.key] = [token |-> op.token, variants |-> {op.handler}]]
        /\ visibility' = [visibility EXCEPT ![p] =
             [token |-> op.token, funnel |-> op.funnel,
              evidence |-> NewEvidence(op.key, {op.handler}, op.funnel)]]
        /\ decision' = [decision EXCEPT ![p] = "unknown"]
  /\ quarantine' = TRUE
  /\ reply' = [reply EXCEPT ![op.token] = "failed"]
  /\ Release
  /\ UNCHANGED <<config, late, external, current, closed, pending, lastToken, expired, swept, untouched, stray>>

\* A forward that may have applied: the prior and the attempted handler are
\* both kept, and the runtime is quarantined.
ForwardIndeterminate ==
  /\ Holding("settle") /\ op.kind = "forward" /\ op.result = "indeterminate"
  /\ LET p == Port(op.key)
     IN /\ mappings' = [mappings EXCEPT ![op.key] =
             [token |-> op.token, variants |-> @.variants \cup {op.handler}]]
        /\ visibility' = [visibility EXCEPT ![p] =
             [token |-> op.token, funnel |-> op.funnel,
              evidence |-> @.evidence \cup NewEvidence(op.key, {op.handler}, op.funnel)]]
        /\ decision' = [decision EXCEPT ![p] = "unknown"]
  /\ quarantine' = TRUE
  /\ reply' = [reply EXCEPT ![op.token] = "failed"]
  /\ Release
  /\ UNCHANGED <<config, late, external, current, closed, pending, lastToken, expired,
                 swept, untouched, stray>>

ForwardRefused ==
  /\ Holding("settle") /\ op.kind = "forward"
  /\ op.result \in {"notApplied", "conflict"}
  /\ reply' = [reply EXCEPT ![op.token] = "failed"]
  /\ Release
  /\ UNCHANGED <<config, late, external, runtime, owned, history>>

\* transferVisibilityAfterCoordinateClearLocked: the newest mapping that is
\* left on the port inherits the policy; with none it is no longer owned.
Transferred(v, k, rest) ==
  LET left == {j \in Keys : Port(j) = Port(k) /\ rest[j].token # 0}
      newest == CHOOSE j \in left : \A i \in left : rest[i].token <= rest[j].token
  IN IF v = NoVisibility \/ v.token # mappings[k].token
     THEN [v EXCEPT !.evidence = {e \in v.evidence : e.key # k}]
     ELSE IF left = {} THEN NoVisibility
     ELSE [v EXCEPT !.token = rest[newest].token,
                    !.evidence = NewEvidence(newest, rest[newest].variants, v.funnel)]

\* A confirmed clear, or one that found nothing of its own to remove.
ClearApplied ==
  /\ Holding("settle") /\ op.kind \in {"exact", "coordinate"} /\ op.result = "ok"
  /\ pending' = pending \ {op.mapping.token}
  /\ mappings' = [mappings EXCEPT ![op.key] = NoMapping]
  /\ visibility' = [visibility EXCEPT ![Port(op.key)] =
       CASE op.owns \/ (op.kind = "coordinate" /\ op.funnel) -> NoVisibility
         [] op.kind = "coordinate" /\ op.mapping.token # 0 -> Transferred(@, op.key, mappings')
         [] OTHER -> @]
  /\ Release
  /\ UNCHANGED <<config, late, external, runtime, lastToken, reply, history>>

ClearFailed ==
  /\ Holding("settle") /\ op.kind \in {"exact", "coordinate"} /\ op.result # "ok"
  /\ IF op.result = "indeterminate"
     THEN quarantine' = TRUE /\ decision' = [decision EXCEPT ![Port(op.key)] = "unknown"]
     ELSE UNCHANGED <<quarantine, decision>>
  /\ Release
  /\ UNCHANGED <<config, late, external, current, closed, owned, reply, expired, swept,
                 untouched, stray>>

\* The end of close: ownership is forgotten whatever the sweep's result.
CloseEnd ==
  /\ Holding("settle") /\ op.kind = "close"
  /\ mappings' = [k \in Keys |-> NoMapping]
  /\ visibility' = [p \in Ports |-> NoVisibility]
  /\ swept' = IF op.result = "ok" THEN "ok" ELSE "failed"
  /\ Release
  /\ UNCHANGED <<config, late, external, runtime, pending, lastToken, reply, expired,
                 decision, untouched, stray>>

-----------------------------------------------------------------------------
(* Delivery of a handle, its timer, and quarantine.                        *)

\* The answer of a forward reaches the caller isolate, is invalid or lost
\* while that isolate can still compensate, or is lost with the isolate.
Deliver(t) ==
  /\ reply[t] = "inFlight"
  /\ \E r \in {"received", "compensate", "gone"} : reply' = [reply EXCEPT ![t] = r]
  /\ UNCHANGED <<config, late, external, runtime, op, owned, history>>

LiveMapping(t) == \E k \in Keys : mappings[k].token = t

\* AcknowledgePublication, and the return of the handle to the caller.
Acknowledge(t) ==
  /\ reply[t] = "received" /\ op = Free
  /\ \/ /\ ~RequireCurrent
        /\ reply' = [reply EXCEPT ![t] = "compensate"]
        /\ UNCHANGED <<pending, quarantine>>
     \/ /\ RequireCurrent /\ t \in pending
        /\ pending' = pending \ {t}
        /\ reply' = [reply EXCEPT ![t] = "handle"]
        /\ UNCHANGED quarantine
     \/ /\ RequireCurrent /\ t \notin pending /\ LiveMapping(t)
        /\ quarantine' = TRUE
        /\ reply' = [reply EXCEPT ![t] = "compensate"]
        /\ UNCHANGED pending
     \/ /\ RequireCurrent /\ t \notin pending /\ ~LiveMapping(t)
        /\ reply' = [reply EXCEPT ![t] = "handle"]
        /\ UNCHANGED <<pending, quarantine>>
  /\ UNCHANGED <<config, late, external, current, closed, op, mappings, visibility,
                 lastToken, history>>

\* FailPublicationDelivery: quarantines the runtime if it is still current,
\* and otherwise joins its drain.
Compensate(t) ==
  /\ reply[t] = "compensate"
  /\ reply' = [reply EXCEPT ![t] = "failed"]
  /\ quarantine' = (quarantine \/ current)
  /\ UNCHANGED <<config, late, external, current, closed, op, owned, history>>

\* A variant: an expired receipt is only dropped.
ExpireSilently(t) ==
  /\ t \in pending /\ op = Free
  /\ pending' = pending \ {t}
  /\ expired' = expired \cup {t}
  /\ UNCHANGED <<config, late, external, runtime, op, mappings, visibility, lastToken, reply, swept, decision, untouched, stray>>

\* expirePendingDelivery
Expire(t) ==
  /\ t \in pending /\ op = Free
  /\ pending' = pending \ {t}
  /\ expired' = expired \cup {t}
  /\ quarantine' = TRUE
  /\ UNCHANGED <<config, late, external, current, closed, op, mappings, visibility,
                 lastToken, reply, swept, decision, untouched, stray>>

\* detachRuntimeForPublicationFailure in quarantinePublicationFailure.
Quarantine ==
  /\ quarantine
  /\ quarantine' = FALSE
  /\ current' = FALSE
  /\ UNCHANGED <<config, late, external, closed, op, owned, reply, history>>

\* down, logout or abandon detach the runtime.
Detach ==
  /\ current
  /\ current' = FALSE
  /\ UNCHANGED <<config, late, external, closed, quarantine, op, owned, reply, history>>

\* Another LocalAPI client changes a handler and the Funnel bit of its port.
External(k) ==
  /\ external < MaxExternal
  /\ \E h \in {Ext, None, config.web[k]}, on \in BOOLEAN :
       config' = SetFunnel([config EXCEPT !.web[k] = h], Port(k), on)
  /\ config' # config
  /\ external' = external + 1
  /\ untouched' = untouched \ {Port(k)}
  /\ UNCHANGED <<late, runtime, op, owned, reply, expired, swept, decision, stray>>

Mutation ==
  \/ Get \/ Set
  \/ ForwardApplied \/ ForwardIndeterminate \/ ForwardRefused
  \/ ClearApplied \/ ClearFailed \/ CloseEnd

Next ==
  \/ \E k \in Keys, h \in Handlers, on \in BOOLEAN : ForwardBegin(k, h, on)
  \/ \E k \in Keys : ClearExactBegin(k)
  \/ \E k \in Keys, on \in BOOLEAN : ClearCoordinateBegin(k, on)
  \/ CloseBegin
  \/ Mutation
  \/ \E t \in Tokens : Deliver(t) \/ Acknowledge(t) \/ Compensate(t) \/ Expire(t)
  \/ Quarantine \/ Detach
  \/ \E k \in Keys : External(k)
  \/ \E q \in late : Land(q)

Spec == Init /\ [][Next]_vars

-----------------------------------------------------------------------------
(* Properties.                                                             *)

\* The variables have their types (an operation other than a forward is only
\* checked for its control fields).
TypeOK ==
  /\ config \in Configs /\ external \in 0 .. MaxExternal
  /\ current \in BOOLEAN /\ closed \in BOOLEAN /\ quarantine \in BOOLEAN
  /\ op # Free => /\ op.kind \in {"forward", "exact", "coordinate", "close"}
                  /\ op.phase \in {"get", "set", "settle"}
                  /\ op.attempt \in 1 .. MaxAttempts
                  /\ op.base \in Configs
  /\ mappings \in [Keys -> [token : 0 .. MaxToken, variants : SUBSET Handlers]]
  /\ visibility \in [Ports -> [token : 0 .. MaxToken, funnel : BOOLEAN,
                               evidence : SUBSET Evidence]]
  /\ pending \subseteq Tokens /\ expired \subseteq Tokens
  /\ lastToken \in 0 .. MaxToken
  /\ reply \in [Tokens -> {"none", "inFlight", "received", "compensate", "gone",
                           "handle", "failed"}]
  /\ swept \in {"no", "ok", "failed"}
  /\ decision \in [Ports -> {"none", "private", "public", "unknown"}]
  /\ untouched \subseteq Ports /\ stray \subseteq Keys
  /\ Cardinality(late) <= MaxLate
  /\ \A q \in late : {q.base, q.next} \subseteq Configs

\* Once the teardown sweep has succeeded the node serves a handler of this
\* package only where a set that the manager had given up on has landed after
\* its mapping was gone, whatever was replaced, cleared or lost before it.
SweptClean ==
  swept = "ok" =>
    \A k \in Keys : config.web[k] \in Handlers => k \in stray

\* Nor does a port stay public because this package published on it: a port
\* that no other writer and no late set touched since is private again, unless
\* a handler of another writer is served on it or the answer of its last
\* forward or clear was lost.
SweptPrivate ==
  swept = "ok" =>
    \A p \in untouched :
      decision[p] = "unknown" \/ \E q \in Paths : config.web[<<p, q>>] = Ext

\* What a successful teardown leaves: nothing that the manager still owned is
\* served, and nothing is public on its account.
SweptIsClean == SweptClean /\ SweptPrivate

\* What the comments say of the sweep, when nobody else writes. "It cannot
\* commit behind the cleanup sweep" (publicationManager): no handler of this
\* package is served once the sweep has succeeded. "Retain ownership for ...
\* runtime teardown" (the end of clear): if every forward was answered, no
\* port is left public either.
SweepIsFinal ==
  swept = "ok" /\ external = 0 =>
    /\ \A k \in Keys : config.web[k] \notin Handlers
    /\ (\A t \in Tokens : reply[t] # "failed") => untouched = {}

\* Closing a handle and tearing the runtime down never remove a handler that
\* another writer installed, even one installed between the read and the set.
ExternalPreserved ==
  [][op # Free /\ op.kind \in {"exact", "close"} /\ op' # op =>
       \A k \in Keys : config.web[k] = Ext => config'.web[k] = Ext]_vars

\* When the package's last decision on a port was to keep it private, a Funnel
\* bit that is on was set by another writer: closing a handle and tearing the
\* runtime down leave it on.
ExternalFunnelPreserved ==
  [][op # Free /\ op.kind \in {"exact", "close"} /\ op' # op =>
       \A p \in Ports : decision[p] = "private" /\ config.funnel[p] =>
                          config'.funnel[p]]_vars

\* What other writers put into the ServeConfig is never undone.
ForeignConfigPreserved == ExternalPreserved /\ ExternalFunnelPreserved

\* While the runtime is live and not being quarantined, every live mapping has
\* a holder: its delivery timer, or a handle that Dart acknowledged.
LiveMappingHasHolder ==
  current /\ ~quarantine /\ op = Free =>
    \A k \in Keys : LET t == mappings[k].token
                    IN t # 0 => t \in pending \/ reply[t] = "handle"

\* A handle that Dart returned to its caller and that owns a live mapping
\* never had its delivery timer fire: a late acknowledgement is refused.
HandleIsAcknowledged ==
  \A t \in Tokens : reply[t] = "handle" /\ LiveMapping(t) => t \notin expired

\* Every live mapping can be closed by somebody who knows of it, and nobody
\* holds a handle that the timer gave up.
MappingHasOneHolder == LiveMappingHasHolder /\ HandleIsAcknowledged

=============================================================================
