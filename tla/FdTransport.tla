---------------------------- MODULE FdTransport ----------------------------
(* One adopted descriptor: PosixFdTransport on the main isolate            *)
(* (lib/src/fd_transport.dart), its state in the reactor isolate           *)
(* (lib/src/posix_reactor.dart), the two FIFO ports between them, the      *)
(* level-triggered poller (go/reactor_linux.go) and the peer of the        *)
(* socketpair. A byte is a unit; the isolates run in parallel, and every   *)
(* system call of the reactor is a step, so the peer moves between two.    *)
EXTENDS Integers, Sequences, FiniteSets

CONSTANTS
  MaxReadChunkSize, MaxInboundQueuedBytes, MaxPendingWriteBytes,
  ReadBudget, WriteBudget, WriteChunk, \* _reactor...BudgetBytes, ChunkBytes
  SocketBuffer,  \* bytes the kernel buffers towards the peer
  Sizes,         \* sizes of a write and of an inbound datagram
  MaxSent,       \* bound: bytes the peer sends
  MaxWrites,     \* bound: calls of write and closeWrite
  MaxPauses,     \* bound: pauses of the input stream
  Faults         \* whether shutdown(2), poller updates and waits may fail,
                 \* and a registration of another transport may time out

ASSUME SizesAssumption ==
  /\ Sizes \subseteq 1..MaxReadChunkSize
  /\ \A n \in Sizes : n <= WriteChunk
  /\ MaxPendingWriteBytes <= WriteBudget

VARIABLES
  datagram,  \* SOCK_DGRAM rather than SOCK_STREAM
  app,       \* the PosixFdTransport object
  cmds,      \* commands posted to the reactor isolate
  evts,      \* events posted to the transport's port
  st,        \* _ReactorTransportState
  loop,      \* where _runFdReactor is, and the ready flags it dispatches
  pass,      \* the read or flush drain under way, and its budget
  reactor,   \* "up", "exiting" (commands port closed) or "gone" (poller too)
  proxyClosed, \* _SharedFdReactorProxy._closed, set for a reactor that runs
  inq,       \* sizes of the units waiting in the receive buffer
  outq,      \* bytes waiting for the peer
  peer,      \* "open", "shut" (no more sends), "closed" or "reset"
  sent,      \* bytes the peer sent
  written    \* bytes the reactor wrote

vars == <<datagram, app, cmds, evts, st, loop, pass, reactor, proxyClosed, inq,
          outq, peer, sent, written>>
kernel == <<inq, outq, peer, sent, written>>

Ids == 1..MaxWrites
Fault == IF Faults THEN BOOLEAN ELSE {FALSE}
NoPass == [op |-> "none", budget |-> 0]
Smallest(S) == CHOOSE x \in S : \A y \in S : x <= y

Cmd(op, id, n) == [op |-> op, id |-> id, n |-> n]
Evt(op, n) == [op |-> op, n |-> n]

Init ==
  /\ datagram \in BOOLEAN
  /\ app = [closed |-> FALSE, readFinished |-> FALSE, writeFinished |-> FALSE,
            readEnabled |-> FALSE, listener |-> "none", inputClosed |-> FALSE,
            pauses |-> 0, lastId |-> 0,
            pendingWriteBytes |-> 0,
            future |-> [i \in Ids |-> "none"], len |-> [i \in Ids |-> 0],
            received |-> 0]
  /\ st = [readEnabled |-> FALSE, readClosed |-> FALSE, closingWrite |-> FALSE,
           writeClosed |-> FALSE, closed |-> FALSE, inbound |-> 0,
           interest |-> {"unset"}, shutdownId |-> 0, queue |-> <<>>]
  /\ cmds = <<>> /\ evts = <<>> /\ inq = <<>> /\ outq = 0
  /\ loop = [at |-> "drain", ready |-> {}] /\ pass = NoPass
  /\ reactor = "up" /\ proxyClosed = FALSE
  /\ peer = "open" /\ sent = 0 /\ written = 0

-----------------------------------------------------------------------------
(* The main isolate. Each handler computes the next object and the         *)
(* commands it posts; send() throws once the poller is gone or the proxy   *)
(* is marked closed, and a command posted while the reactor is exiting is  *)
(* dropped with its port. close(), the acknowledgements and disableRead    *)
(* swallow the throw.                                                      *)

SendThrows == proxyClosed \/ reactor = "gone"

\* The object after a handler, with the commands it posted; a torn-down
\* transport has closed its event port.
Main(a, cs, rest) ==
  /\ app' = a
  /\ cmds' = IF reactor = "up" /\ ~SendThrows THEN cmds \o cs ELSE cmds
  /\ evts' = IF a.closed THEN <<>> ELSE rest
  /\ UNCHANGED <<datagram, st, loop, pass, reactor, proxyClosed, kernel>>

\* A registration of another transport on this shard got no answer in time:
\* the proxy is marked closed, the reactor isolate runs on.
RegisterTimesOut ==
  /\ Faults /\ reactor = "up" /\ ~proxyClosed
  /\ proxyClosed' = TRUE
  /\ UNCHANGED <<datagram, app, cmds, evts, st, loop, pass, reactor, kernel>>

\* _teardown and _failPendingWrites
Teardown(a, failWrites, closeInput) ==
  IF a.closed THEN a
  ELSE [a EXCEPT
          !.closed = TRUE, !.readFinished = TRUE, !.writeFinished = TRUE,
          !.future = [i \in Ids |-> IF failWrites /\ @[i] = "pending"
                                      THEN "error" ELSE @[i]],
          !.pendingWriteBytes = IF failWrites THEN 0 ELSE @,
          !.inputClosed = @ \/ closeInput]

FinishWithError(a) == Teardown(a, TRUE, TRUE)

MaybeCompleteDone(a) ==
  IF a.readFinished /\ a.writeFinished THEN Teardown(a, FALSE, FALSE) ELSE a

ReadReady(a) ==
  /\ ~a.closed /\ ~a.readFinished /\ ~a.readEnabled
  /\ a.listener = "on" /\ ~a.inputClosed

\* _enableReadIfReady: the object and the command it posts.
EnableReadIfReady(a) ==
  IF ~ReadReady(a) THEN a
  ELSE IF SendThrows THEN FinishWithError([a EXCEPT !.readEnabled = TRUE])
  ELSE [a EXCEPT !.readEnabled = TRUE]
EnableCmds(a) == IF ReadReady(a) THEN <<Cmd("enableRead", 0, 0)>> ELSE <<>>

DisableRead(a) == [a EXCEPT !.readEnabled = a.closed /\ @]
DisableCmds(a) ==
  IF ~a.closed /\ a.readEnabled THEN <<Cmd("disableRead", 0, 0)>> ELSE <<>>

\* The consumer listens to, or resumes, the input stream (of a closed
\* transport: nothing happens).
Listen ==
  /\ app.listener \in {"none", "paused"} /\ ~app.closed
  /\ LET a == [app EXCEPT !.listener = "on"]
     IN Main(EnableReadIfReady(a), EnableCmds(a), evts)

Pausable == app.listener = "on" /\ ~app.closed /\ app.pauses < MaxPauses
Paused == [app EXCEPT !.listener = "paused", !.pauses = @ + 1]

Pause ==
  /\ Pausable
  /\ Main(DisableRead(Paused), DisableCmds(app), evts)

\* write: a full queue, a closed transport and a closed write half refuse.
Write(n) ==
  /\ app.lastId < MaxWrites /\ ~app.closed /\ ~app.writeFinished
  /\ app.pendingWriteBytes + n <= MaxPendingWriteBytes
  /\ LET id == app.lastId + 1
         a == [app EXCEPT !.lastId = id, !.len[id] = n]
     IN IF SendThrows
        THEN Main(FinishWithError([a EXCEPT !.future[id] = "error"]), <<>>,
                  evts)
        ELSE Main([a EXCEPT !.future[id] = "pending",
                            !.pendingWriteBytes = @ + n],
                  <<Cmd("write", id, n)>>, evts)

CloseWrite ==
  /\ app.lastId < MaxWrites /\ ~app.closed /\ ~app.writeFinished
  /\ LET id == app.lastId + 1
         a == [app EXCEPT !.lastId = id, !.writeFinished = TRUE]
     IN IF SendThrows
        THEN Main(FinishWithError([a EXCEPT !.future[id] = "error"]), <<>>,
                  evts)
        ELSE Main([a EXCEPT !.future[id] = "pending"],
                  <<Cmd("shutdownWrite", id, 0)>>, evts)

Close ==
  /\ ~app.closed
  /\ Main(FinishWithError(app), <<Cmd("close", 0, 0)>>, evts)

\* _Evt.data: the chunk goes to the listener, which may pause; then it is
\* acknowledged and reads are enabled again.
OnData(n, pauses) ==
  LET a == IF pauses THEN DisableRead(Paused) ELSE app
      b == [a EXCEPT !.received = @ + n]
  IN Main(EnableReadIfReady(b),
          (IF pauses THEN DisableCmds(app) ELSE <<>>)
            \o <<Cmd("inboundConsumed", 0, n)>> \o EnableCmds(b),
          Tail(evts))

OnEof ==
  Main(MaybeCompleteDone([app EXCEPT !.readFinished = TRUE,
                                     !.inputClosed = TRUE]),
       <<>>, Tail(evts))

\* A variant: removal and completion both give the bytes back.
ResolvedTwice(id, how) ==
  [app EXCEPT !.future[id] = how, !.pendingWriteBytes = @ - 2 * app.len[id]]

\* The removal of one entry of _writeCompletions.
Resolved(id, how) ==
  [app EXCEPT !.future[id] = how, !.pendingWriteBytes = @ - app.len[id]]

OnWriteOk(id) ==
  LET a == Resolved(id, "ok")
  IN Main(IF app.len[id] = 0
            THEN MaybeCompleteDone([a EXCEPT !.writeFinished = TRUE]) ELSE a,
          <<>>, Tail(evts))

\* _handleReactorEvent
HandleReactorEvent ==
  /\ evts # <<>> /\ ~app.closed
  /\ LET e == Head(evts)
     IN \/ /\ e.op = "data"
           /\ \E pauses \in BOOLEAN :
                (pauses => Pausable) /\ OnData(e.n, pauses)
        \/ e.op = "eof" /\ OnEof
        \/ e.op = "writeOk" /\ OnWriteOk(e.n)
        \/ /\ e.op = "writeError"
           /\ Main(FinishWithError(Resolved(e.n, "error")), <<>>, <<>>)
        \/ /\ e.op \in {"readError", "closed"}
           /\ Main(FinishWithError(app), <<>>, <<>>)

-----------------------------------------------------------------------------
(* The reactor isolate. A step's result is the next state and the events   *)
(* it posts, in order.                                                     *)

Result(s, ev) == [st |-> s, ev |-> ev]

\* _closeReactorState: with an error the queued writes fail with it.
CloseState(s, ev, error) ==
  IF s.closed THEN Result(s, ev)
  ELSE Result([s EXCEPT !.closed = TRUE, !.queue = <<>>],
              ev \o (IF error THEN [i \in 1..Len(s.queue) |->
                                      Evt("writeError", s.queue[i].id)]
                              ELSE <<>>)
                 \o <<Evt("closed", 0)>>)

Interest(s) ==
  (IF /\ s.readEnabled /\ ~s.readClosed
      /\ s.inbound < MaxInboundQueuedBytes THEN {"read"} ELSE {})
  \cup (IF s.queue # <<>> THEN {"write"} ELSE {})

\* A variant: an interest that was dropped is not armed again.
UpdateInterestShrinks(s, ev, fails) ==
  IF s.closed THEN Result(s, ev)
  ELSE Result([s EXCEPT !.interest = IF @ = {"unset"} THEN Interest(s)
                                     ELSE @ \cap Interest(s)], ev)

\* _updateReactorInterest
UpdateInterest(s, ev, fails) ==
  IF s.closed \/ Interest(s) = s.interest THEN Result(s, ev)
  ELSE IF fails THEN CloseState(s, Append(ev, Evt("readError", 0)), TRUE)
  ELSE Result([s EXCEPT !.interest = Interest(s)], ev)

\* _closeIfFullyDone
CloseIfFullyDone(r) ==
  IF r.st.readClosed /\ r.st.writeClosed THEN CloseState(r.st, r.ev, FALSE)
  ELSE r

Reactor(r) ==
  /\ st' = r.st
  /\ evts' = IF app.closed THEN evts ELSE evts \o r.ev
  /\ UNCHANGED <<datagram, app, reactor, proxyClosed>>

Flush == [op |-> "flush", budget |-> WriteBudget]

\* One command of _processReactorCommands.
Command ==
  /\ reactor = "up" /\ pass = NoPass /\ loop.at # "dispatch" /\ cmds # <<>>
  /\ cmds' = Tail(cmds)
  /\ UNCHANGED <<loop, kernel>>
  /\ LET c == Head(cmds)
     IN \/ /\ st.closed
           /\ Reactor(Result(st, <<>>)) /\ UNCHANGED pass
        \/ /\ ~st.closed /\ c.op \in {"enableRead", "disableRead"}
           /\ \E fails \in Fault :
                Reactor(UpdateInterest(
                  [st EXCEPT !.readEnabled = c.op = "enableRead"],
                  <<>>, fails))
           /\ UNCHANGED pass
        \/ /\ ~st.closed /\ c.op = "inboundConsumed"
           /\ \E fails \in Fault :
                Reactor(UpdateInterest(
                  [st EXCEPT !.inbound = IF @ < c.n THEN 0 ELSE @ - c.n],
                  <<>>, fails))
           /\ UNCHANGED pass
        \/ /\ ~st.closed /\ c.op = "write"
           /\ Reactor(Result([st EXCEPT !.queue = Append(@,
                                [id |-> c.id, left |-> c.n])], <<>>))
           /\ pass' = Flush
        \/ /\ ~st.closed /\ c.op = "shutdownWrite"
           /\ Reactor(Result([st EXCEPT !.closingWrite = TRUE,
                                        !.shutdownId = c.id], <<>>))
           /\ pass' = Flush
        \/ /\ ~st.closed /\ c.op = "close"
           /\ Reactor(CloseState(st, <<>>, FALSE)) /\ UNCHANGED pass

\* What a level-triggered wait reports: a half-close only with read interest,
\* a full close always (epollInterestFlags).
Readiness ==
  (IF "read" \in st.interest /\ (inq # <<>> \/ peer # "open")
     THEN {"read"} ELSE {})
  \cup (IF "write" \in st.interest
           /\ (outq < SocketBuffer \/ peer \in {"closed", "reset"})
          THEN {"write"} ELSE {})
  \cup (IF \/ peer \in {"closed", "reset"}
           \/ peer = "shut" /\ (st.writeClosed \/ "read" \in st.interest)
          THEN {"hup"} ELSE {})

Wait ==
  /\ reactor = "up" /\ pass = NoPass /\ loop.at = "drain" /\ ~st.closed
  /\ Readiness # {}
  /\ loop' = [at |-> "ready", ready |-> Readiness]
  /\ UNCHANGED <<datagram, app, cmds, evts, st, pass, reactor, proxyClosed,
                 kernel>>

\* The flags of one event in the order the loop tests them.
Dispatch ==
  /\ reactor = "up" /\ pass = NoPass /\ loop.at # "drain"
  /\ LET r == IF st.closed THEN {} ELSE loop.ready
         next == IF "read" \in r THEN "read"
                 ELSE IF "write" \in r THEN "write" ELSE "hup"
     IN IF r = {} THEN loop' = [at |-> "drain", ready |-> {}] /\ UNCHANGED pass
        ELSE /\ loop' = [at |-> "dispatch", ready |-> r \ {next}]
             /\ pass' = IF next = "write" THEN Flush
                        ELSE [op |-> next, budget |-> ReadBudget]
  /\ UNCHANGED <<datagram, app, cmds, evts, st, reactor, proxyClosed, kernel>>

Reading ==
  /\ reactor = "up" /\ pass.op \in {"read", "hup"}
  /\ UNCHANGED <<cmds, loop, outq, peer, sent>>

InboundCredit == MaxInboundQueuedBytes - st.inbound

\* The drain is over before another read: nothing to do, no credit, no budget.
ReadStops ==
  /\ Reading
  /\ pass' = NoPass /\ UNCHANGED <<inq, written>>
  /\ \/ /\ ~st.readEnabled \/ st.readClosed \/ st.closed
        /\ Reactor(Result(st, <<>>))
     \/ /\ st.readEnabled /\ ~st.readClosed /\ ~st.closed
        /\ InboundCredit <= 0 \/ pass.budget <= 0
        /\ \E fails \in Fault : Reactor(UpdateInterest(st, <<>>, fails))

\* A variant: a datagram is read like a stream.
ReadSizeOfStream ==
  LET limit == Smallest({MaxReadChunkSize, InboundCredit, pass.budget})
  IN Smallest({limit, IF datagram THEN Head(inq) ELSE Len(inq)})

\* What read(2) returns: a datagram whole, a stream up to the clamped limit.
ReadSize ==
  IF datagram THEN Smallest({Head(inq), MaxReadChunkSize})
  ELSE Smallest({MaxReadChunkSize, InboundCredit, pass.budget, Len(inq)})

CanRead ==
  /\ st.readEnabled /\ ~st.readClosed /\ ~st.closed
  /\ InboundCredit > 0 /\ pass.budget > 0

ReadData ==
  /\ Reading /\ CanRead /\ inq # <<>>
  /\ inq' = IF datagram THEN Tail(inq) ELSE SubSeq(inq, ReadSize + 1, Len(inq))
  /\ pass' = [pass EXCEPT !.budget = @ - ReadSize]
  /\ Reactor(Result([st EXCEPT !.inbound = @ + ReadSize],
                    <<Evt("data", ReadSize)>>))
  /\ UNCHANGED written

\* Nothing left: end of file, a reset, or EAGAIN (which after HUP is an end
\* of file too).
ReadEnds ==
  /\ Reading /\ CanRead /\ inq = <<>>
  /\ pass' = NoPass /\ UNCHANGED <<inq, written>>
  /\ \/ /\ peer \in {"shut", "closed"} \/ (pass.op = "hup" /\ peer = "open")
        /\ \E fails \in Fault :
             Reactor(CloseIfFullyDone(UpdateInterest(
               [st EXCEPT !.readClosed = TRUE, !.readEnabled = FALSE],
               <<Evt("eof", 0)>>, fails)))
     \/ /\ peer = "open" /\ pass.op = "read"
        /\ Reactor(Result(st, <<>>))
     \/ /\ peer = "reset"
        /\ Reactor(CloseState(st, <<Evt("readError", 0)>>, TRUE))

Flushing ==
  /\ reactor = "up" /\ pass.op = "flush"
  /\ UNCHANGED <<cmds, loop, inq, peer, sent>>

\* One write(2) of the head of the queue.
WriteHead ==
  /\ Flushing /\ ~st.closed /\ ~st.writeClosed
  /\ st.queue # <<>> /\ pass.budget > 0
  /\ LET w == Head(st.queue)
         limit == Smallest({WriteChunk, w.left, pass.budget})
         room == SocketBuffer - outq
     IN \/ /\ peer \in {"closed", "reset"}
           /\ Reactor(CloseState(st, <<Evt("writeError", w.id)>>, TRUE))
           /\ pass' = NoPass /\ UNCHANGED <<outq, written>>
        \/ /\ peer \in {"open", "shut"}
           /\ IF datagram THEN room < limit ELSE room = 0
           /\ \E fails \in Fault : Reactor(UpdateInterest(st, <<>>, fails))
           /\ pass' = NoPass /\ UNCHANGED <<outq, written>>
        \/ /\ peer \in {"open", "shut"}
           /\ \E n \in 1..Smallest({limit, room}) :
                /\ datagram => n = limit
                /\ outq' = outq + n /\ written' = written + n
                /\ pass' = [pass EXCEPT !.budget = @ - n]
                /\ Reactor(IF n = w.left
                           THEN Result([st EXCEPT !.queue = Tail(@)],
                                       <<Evt("writeOk", w.id)>>)
                           ELSE Result([st EXCEPT !.queue[1].left = @ - n],
                                       <<>>))

\* A variant: the write half closes as soon as it is asked to.
ShutdownDueEarly == st.closingWrite /\ ~st.writeClosed

ShutdownDue == st.queue = <<>> /\ st.closingWrite /\ ~st.writeClosed

\* The end of _flushReactorWrites: the half-close once the queue is empty.
FlushEnds ==
  /\ Flushing /\ pass' = NoPass /\ UNCHANGED <<outq, written>>
  /\ \/ /\ st.closed \/ st.writeClosed
        /\ Reactor(Result(st, <<>>))
     \/ /\ ~st.closed /\ ~st.writeClosed /\ ShutdownDue
        /\ \E fails \in Fault :
             Reactor(IF fails
               THEN CloseState(st, <<Evt("writeError", st.shutdownId)>>, TRUE)
               ELSE CloseIfFullyDone(Result([st EXCEPT !.writeClosed = TRUE],
                      <<Evt("writeOk", st.shutdownId)>>)))
     \/ /\ ~st.closed /\ ~st.writeClosed /\ ~ShutdownDue
        /\ st.queue = <<>> \/ pass.budget <= 0
        /\ \E fails \in Fault : Reactor(UpdateInterest(st, <<>>, fails))

\* A failed wait closes every transport; an idle shard exits. Either way the
\* commands port goes first and the poller last.
Exit ==
  /\ reactor = "up" /\ pass = NoPass /\ loop.at # "dispatch"
  /\ Faults \/ (st.closed /\ cmds = <<>>)
  /\ st' = CloseState(st, <<>>, TRUE).st
  /\ evts' = IF app.closed THEN evts
             ELSE evts \o CloseState(st, <<>>, TRUE).ev
  /\ reactor' = "exiting" /\ cmds' = <<>>
  /\ UNCHANGED <<datagram, app, loop, pass, proxyClosed, kernel>>

ClosePoller ==
  /\ reactor = "exiting" /\ reactor' = "gone"
  /\ UNCHANGED <<datagram, app, cmds, evts, st, loop, pass, proxyClosed, kernel>>

-----------------------------------------------------------------------------
(* The peer: the embedded runtime's end of the socketpair. It reads only   *)
(* as fast as the remote end takes what it forwards.                       *)

Side == <<datagram, app, cmds, evts, st, loop, pass, reactor, proxyClosed,
          written>>

PeerSend(n) ==
  /\ peer = "open" /\ ~st.closed /\ sent + n <= MaxSent
  /\ inq' = IF datagram THEN Append(inq, n) ELSE inq \o [i \in 1..n |-> 1]
  /\ sent' = sent + n /\ UNCHANGED <<outq, peer, Side>>

PeerRead ==
  /\ outq > 0 /\ peer \in {"open", "shut"}
  /\ \E n \in 1..outq : outq' = outq - n
  /\ UNCHANGED <<inq, peer, sent, Side>>

PeerShut ==
  /\ ~datagram /\ peer = "open" /\ ~st.closed
  /\ peer' = "shut" /\ UNCHANGED <<inq, outq, sent, Side>>

PeerClose ==
  /\ ~datagram /\ peer \in {"open", "shut"} /\ ~st.closed
  /\ peer' = IF outq > 0 THEN "reset" ELSE "closed"
  /\ UNCHANGED <<inq, outq, sent, Side>>

Consumer == Listen \/ Pause \/ CloseWrite \/ Close \/ \E n \in Sizes : Write(n)
ReactorStep ==
  \/ Command \/ Wait \/ Dispatch \/ ReadStops \/ ReadData \/ ReadEnds
  \/ WriteHead \/ FlushEnds
Peer == PeerRead \/ PeerShut \/ PeerClose \/ \E n \in Sizes : PeerSend(n)

Next ==
  \/ Consumer \/ HandleReactorEvent \/ ReactorStep \/ Exit \/ ClosePoller
  \/ RegisterTimesOut \/ Peer

Spec == Init /\ [][Next]_vars

\* Both isolates run their event loops; the reactor's yields to its port twice
\* a round, so a command waits for no more than a round. Nothing forces the
\* consumer, the peer, a fault or an exit.
Fairness ==
  /\ WF_vars(HandleReactorEvent) /\ WF_vars(ReactorStep) /\ SF_vars(Command)

FairSpec == Spec /\ Fairness

-----------------------------------------------------------------------------
(* Properties.                                                             *)

SumTo(f, n) ==
  LET sum[i \in 0..n] == IF i = 0 THEN 0 ELSE f[i] + sum[i - 1] IN sum[n]
BytesOf(seq, op) ==
  SumTo([i \in 1..Len(seq) |-> IF seq[i].op = op THEN seq[i].n ELSE 0],
        Len(seq))
Pending == {i \in Ids : app.future[i] = "pending"}

\* The variables have their types.
TypeOK ==
  /\ app.future \in [Ids -> {"none", "pending", "ok", "error"}]
  /\ app.listener \in {"none", "on", "paused"}
  /\ app.lastId \in 0..MaxWrites
  /\ app.pendingWriteBytes \in 0..MaxPendingWriteBytes
  /\ st.interest \in {{"unset"}, {}, {"read"}, {"write"}, {"read", "write"}}
  /\ st.inbound \in 0..(MaxInboundQueuedBytes + MaxReadChunkSize)
  /\ loop.ready \subseteq {"read", "write", "hup"}
  /\ pass.op \in {"none", "read", "hup", "flush"}
  /\ reactor \in {"up", "exiting", "gone"} /\ outq \in 0..SocketBuffer
  /\ peer \in {"open", "shut", "closed", "reset"}

\* The reactor's inbound credit covers the bytes on their way to the consumer
\* or acknowledged on the way back, exactly so while acknowledgements are
\* posted, and a slow main isolate never holds more than the limit, or one
\* datagram beyond it.
CreditIsExact ==
  ~app.closed /\ ~st.closed =>
    /\ st.inbound >= BytesOf(evts, "data") + BytesOf(cmds, "inboundConsumed")
    /\ ~proxyClosed =>
         st.inbound = BytesOf(evts, "data") + BytesOf(cmds, "inboundConsumed")
    /\ st.inbound < MaxInboundQueuedBytes
                      + (IF datagram THEN MaxReadChunkSize ELSE 1)

\* The input stream ends by an end of file only after every byte the peer
\* sent was handed to it, whatever pauses, credit and half-closes did.
EofIsComplete ==
  ~app.closed /\ app.readFinished => app.received = sent

\* No unit is lost or truncated between the socket and the consumer.
NothingIsLost ==
  ~app.closed /\ ~st.closed =>
    app.received + BytesOf(evts, "data") + SumTo(inq, Len(inq)) = sent

\* What the consumer reads is what the peer sent: complete at the end of
\* file, and never more of it in memory than the credit allows.
InboundIsExact == CreditIsExact /\ EofIsComplete /\ NothingIsLost

\* A write future completes without error only when all bytes of its write
\* and of every earlier one are in the descriptor; the half-close after all.
OkMeansWritten ==
  \A i \in Ids : app.future[i] = "ok" => written >= SumTo(app.len, i)

\* The peer never sees the end of the stream before the last queued byte.
HalfCloseIsLast ==
  st.writeClosed => written = SumTo(app.len, app.lastId)

\* The write-queue limit counts exactly the writes not yet answered.
WriteAccounting ==
  ~app.closed =>
    app.pendingWriteBytes
      = SumTo([i \in Ids |-> IF i \in Pending THEN app.len[i] ELSE 0],
              MaxWrites)

\* A datagram is one write(2): the limit on queued bytes keeps the flush
\* budget from cutting one in two.
DatagramsAreWhole ==
  datagram => \A i \in 1..Len(st.queue) :
                st.queue[i].left = app.len[st.queue[i].id]

\* What write() and closeWrite() answer is true of the descriptor: bytes in
\* order and whole datagrams, the half-close last, the limit exact.
OutboundIsHonest ==
  OkMeansWritten /\ HalfCloseIsLast /\ WriteAccounting /\ DatagramsAreWhole

\* The peer keeps up: it empties its receive buffer again and again.
PeerDrains == []<>(outq = 0)

\* What the peer sent reaches a consumer that keeps listening.
DataIsDelivered ==
  (app.listener = "on" /\ app.received < sent)
    ~> (app.received = sent \/ app.closed \/ app.listener = "paused")

\* The future of every write and closeWrite completes.
FuturesComplete ==
  \A i \in Ids : app.future[i] = "pending" ~> app.future[i] # "pending"

\* A transport that is closed on the main isolate gives its descriptor back.
DescriptorIsReleased == app.closed ~> st.closed

\* What the comments of PosixFdTransport say of every transport whose peer
\* keeps reading: a write future completes when its bytes are written, a
\* swallowed send costs nothing because the reactor has let the descriptor go.
TransferAsDocumented ==
  PeerDrains => DataIsDelivered /\ FuturesComplete /\ DescriptorIsReleased

\* No transfer is stuck while commands reach the reactor: no credit, interest
\* or wake-up is lost between the isolates and the poller. Data is delivered;
\* a write is answered, or outlives a transport torn down at the end of file
\* and the reactor finishes it; a transport closed while its proxy was open
\* gives the descriptor back, even if the proxy is marked closed later.
TransferCompletes ==
  PeerDrains =>
    /\ (app.listener = "on" /\ app.received < sent)
         ~> (\/ app.received = sent \/ app.closed \/ app.listener = "paused"
             \/ proxyClosed)
    /\ \A i \in Ids :
         app.future[i] = "pending"
           ~> (\/ app.future[i] # "pending"
               \/ app.closed /\ (st.writeClosed \/ st.closed))
    /\ (app.closed /\ ~proxyClosed) ~> st.closed
=============================================================================
