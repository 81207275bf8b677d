-------------------------- MODULE UDPEntrySession --------------------------
(***************************************************************************)
(* The UDP sessions an entry node keeps for one client of one forward:     *)
(* submitUDPEntryPacket in the listener goroutine, udpEntrySession.run     *)
(* with its retries, udpSessionTransport.readLoop, and the ways a runtime  *)
(* that stops closes them (closeAll and the watcher of its context).       *)
(*                                                                         *)
(* Every critical section, channel operation and network call is a step.   *)
(* A datagram is a model value with a size; what reached a transport is    *)
(* recorded in wire.                                                       *)
(***************************************************************************)
EXTENDS Integers, Sequences, FiniteSets, SequencesExt, FiniteSetsExt

CONSTANTS
  Datagram,      \* what the client sends, each once
  Size,          \* its bytes
  Nil,           \* the nil payload of retryInitial(failure, nil, ...)
  MaxSessions,   \* bound: sessions created
  MaxTransports, \* bound: transports opened
  MaxGen,        \* bound: runtimes started
  MaxAttempts,   \* udpEntryAttemptLimit: targets or candidates
  QueueEntries,  \* maxUDPSessionQueueEntries
  QueueBytes     \* maxUDPSessionQueueBytes

ASSUME SizeAssumption == Size \in [Datagram -> Nat] /\ Nil \notin Datagram
ASSUME BoundsAssumption ==
  /\ {MaxSessions, MaxTransports, MaxGen, MaxAttempts} \subseteq Nat \ {0}
  /\ {QueueEntries, QueueBytes} \subseteq Nat

VARIABLES
  runtime,    \* generation of the runtime, and whether it runs
  sweeper,    \* those that empty the table: closeAll (0), a generation's watcher
  listener,   \* the goroutine udpLoop of each generation
  entry,      \* udpEntries.sessions[key], 0 for none
  sess,       \* the sessions, in the order of their creation
  trans,      \* the transports, in the order of their opening
  wire        \* payload -> transports that took bytes of it

vars == <<runtime, sweeper, listener, entry, sess, trans, wire>>

Gen == 1 .. MaxGen
Payload == Datagram \cup {Nil}

Session == [gen : Gen, pc : {"open", "replace", "loop", "dequeue", "send", "retry",
                             "reopen", "resend", "exit", "closing", "delete", "done"},
            closed : BOOLEAN, queue : Seq(Datagram), queued : Int,
            transport : 0 .. MaxTransports, next : 0 .. MaxTransports,
            attempts : 1 .. MaxAttempts, sent : BOOLEAN, confirmed : BOOLEAN,
            pending : Payload, again : BOOLEAN]

Transport == [owner : 1 .. MaxSessions, open : BOOLEAN, seen : BOOLEAN,
              reader : {"read", "response", "error", "gone"},
              events : Seq({"response", "error"})]

Listener == [pc : {"idle", "get", "enqueue", "check", "delete", "close", "closing"},
             payload : Payload, attempt : 0 .. 1, session : 0 .. MaxSessions]

Sweeper == [pc : {"idle", "wait", "close", "closing"}, session : 0 .. MaxSessions]

IdleSweeper == [pc |-> "idle", session |-> 0]
IdleListener == [pc |-> "idle", payload |-> Nil, attempt |-> 0, session |-> 0]

TypeOK ==
  /\ runtime \in [gen : Gen, phase : {"running", "cancelled"}]
  /\ sweeper \in [0 .. MaxGen -> Sweeper]
  /\ listener \in [Gen -> Listener]
  /\ entry \in 0 .. MaxSessions
  /\ sess \in Seq(Session) /\ Len(sess) <= MaxSessions
  /\ trans \in Seq(Transport) /\ Len(trans) <= MaxTransports
  /\ wire \in [Payload -> SUBSET (1 .. MaxTransports)]

Init ==
  /\ runtime = [gen |-> 1, phase |-> "running"]
  /\ sweeper = [w \in 0 .. MaxGen |-> IF w = 1 THEN [IdleSweeper EXCEPT !.pc = "wait"] ELSE IdleSweeper]
  /\ listener = [g \in Gen |-> IdleListener]
  /\ entry = 0
  /\ sess = <<>>
  /\ trans = <<>>
  /\ wire = [p \in Payload |-> {}]

\* ctx.Err() # nil for the context of generation g
Cancelled(g) == g < runtime.gen \/ runtime.phase # "running"

Bytes(q) ==
  LET sum[n \in 0 .. Len(q)] == IF n = 0 THEN 0 ELSE sum[n - 1] + Size[q[n]]
  IN  sum[Len(q)]

CloseTransport(T, t) == IF t = 0 THEN T ELSE [T EXCEPT ![t].open = FALSE]

\* udpEntrySession.close, as far as it holds stateMu ...
MarkClosed(s) == sess' = [sess EXCEPT ![s].closed = TRUE]

\* ... and after it: whoever marked the session closes its transport.
CloseMarked(s) == trans' = CloseTransport(trans, sess[s].transport)

-----------------------------------------------------------------------------
(* The listener: submitUDPEntryPacket *)

\* udpLoop reads a datagram; a socket of a stopped runtime is closed.
Receive(g, d) ==
  /\ g = runtime.gen
  /\ runtime.phase = "running"
  /\ listener[g].pc = "idle"
  /\ \A p \in Gen : listener[p].payload # d
  /\ wire[d] = {} /\ \A s \in DOMAIN sess : ~Contains(sess[s].queue, d) /\ sess[s].pending # d
  /\ listener' = [listener EXCEPT ![g] = [IdleListener EXCEPT !.pc = "get", !.payload = d]]
  /\ UNCHANGED <<runtime, sweeper, entry, sess, trans, wire>>

NewSession(g) ==
  [gen |-> g, pc |-> "open", closed |-> FALSE, queue |-> <<>>, queued |-> 0,
   transport |-> 0, next |-> 0, attempts |-> 1, sent |-> FALSE,
   confirmed |-> FALSE, pending |-> Nil, again |-> FALSE]

GetOrCreate(g) ==
  /\ listener[g].pc = "get"
  /\ \/ /\ entry # 0
        /\ listener' = [listener EXCEPT ![g].pc = "enqueue", ![g].session = entry]
        /\ UNCHANGED <<entry, sess>>
     \/ /\ entry = 0
        /\ Len(sess) < MaxSessions
        /\ sess' = Append(sess, NewSession(g))
        /\ entry' = Len(sess) + 1
        /\ listener' = [listener EXCEPT ![g].pc = "enqueue", ![g].session = Len(sess) + 1]
     \/ /\ entry = 0                      \* the table is full of other clients
        /\ listener' = [listener EXCEPT ![g] = IdleListener]
        /\ UNCHANGED <<entry, sess>>
  /\ UNCHANGED <<runtime, sweeper, trans, wire>>

Unavailable(s) ==
  \/ sess[s].closed
  \/ Cancelled(sess[s].gen)
  \/ sess[s].transport # 0 /\ ~trans[sess[s].transport].open

Fits(s, d) ==
  /\ sess[s].queued + Size[d] <= QueueBytes
  /\ Len(sess[s].queue) < QueueEntries

Enqueue(g) ==
  LET s == listener[g].session
      d == listener[g].payload
  IN  /\ listener[g].pc = "enqueue"
      /\ \/ /\ ~Unavailable(s) /\ Fits(s, d)
            /\ sess' = [sess EXCEPT ![s].queue = Append(@, d), ![s].queued = @ + Size[d]]
            /\ listener' = [listener EXCEPT ![g] = IdleListener]
         \/ /\ Unavailable(s) \/ ~Fits(s, d)
            /\ listener' = [listener EXCEPT ![g].pc = "check"]
            /\ UNCHANGED sess
      /\ UNCHANGED <<runtime, sweeper, entry, trans, wire>>

\* isUnavailable: a session that is only full drops the datagram.
CheckUnavailable(g) ==
  /\ listener[g].pc = "check"
  /\ listener' = [listener EXCEPT ![g] =
       IF Unavailable(@.session) THEN [@ EXCEPT !.pc = "delete"] ELSE IdleListener]
  /\ UNCHANGED <<runtime, sweeper, entry, sess, trans, wire>>

\* A slip: the key is deleted whoever it belongs to.
DeleteKey(s) == entry' = 0

\* delete(key, session)
DeleteEntry(s) == entry' = IF entry = s THEN 0 ELSE entry

SubmitDelete(g) ==
  /\ listener[g].pc = "delete"
  /\ DeleteEntry(listener[g].session)
  /\ listener' = [listener EXCEPT ![g].pc = "close"]
  /\ UNCHANGED <<runtime, sweeper, sess, trans, wire>>

\* The listener is done with the session: once more, or the datagram is dropped.
Resubmit(g) ==
  listener' = [listener EXCEPT ![g] =
    IF @.attempt = 0 THEN [@ EXCEPT !.pc = "get", !.attempt = 1] ELSE IdleListener]

SubmitClose(g) ==
  LET s == listener[g].session
  IN  /\ listener[g].pc = "close"
      /\ \/ sess[s].closed /\ Resubmit(g) /\ UNCHANGED sess
         \/ /\ ~sess[s].closed
            /\ MarkClosed(s)
            /\ listener' = [listener EXCEPT ![g].pc = "closing"]
      /\ UNCHANGED <<runtime, sweeper, entry, trans, wire>>

SubmitClosing(g) ==
  /\ listener[g].pc = "closing"
  /\ CloseMarked(listener[g].session)
  /\ Resubmit(g)
  /\ UNCHANGED <<runtime, sweeper, entry, sess, wire>>

-----------------------------------------------------------------------------
(* udpEntrySession.run *)

Goto(s, pc) == sess' = [sess EXCEPT ![s].pc = pc]

NewTransport(s) ==
  [owner |-> s, open |-> TRUE, seen |-> FALSE, reader |-> "read", events |-> <<>>]

\* openUDPEntryTransport; a dial under a cancelled context fails.
Open(s) ==
  /\ sess[s].pc = "open"
  /\ \/ /\ ~Cancelled(sess[s].gen)
        /\ Len(trans) < MaxTransports
        /\ trans' = Append(trans, NewTransport(s))
        /\ sess' = [sess EXCEPT ![s].pc = "replace", ![s].next = Len(trans) + 1]
     \/ Goto(s, "exit") /\ UNCHANGED trans
  /\ UNCHANGED <<runtime, sweeper, listener, entry, wire>>

\* A slip: the transport opened for a session closed meanwhile is dropped.
ReplaceLeaks(s) ==
  LET t == sess[s].next
  IN  /\ sess[s].pc = "replace"
      /\ \/ /\ sess[s].closed \/ Cancelled(sess[s].gen)
            /\ Goto(s, "exit")
            /\ UNCHANGED trans
         \/ /\ ~sess[s].closed /\ ~Cancelled(sess[s].gen)
            /\ trans' = CloseTransport(trans, sess[s].transport)
            /\ sess' = [sess EXCEPT ![s].transport = t,
                          ![s].pc = IF sess[s].again THEN "resend" ELSE "loop"]
      /\ UNCHANGED <<runtime, sweeper, listener, entry, wire>>

ReplaceTransport(s) ==
  LET t == sess[s].next
  IN  /\ sess[s].pc = "replace"
      /\ \/ /\ sess[s].closed \/ Cancelled(sess[s].gen)
            /\ trans' = CloseTransport(trans, t)
            /\ Goto(s, "exit")
         \/ /\ ~sess[s].closed /\ ~Cancelled(sess[s].gen)
            /\ trans' = CloseTransport(trans, sess[s].transport)
            /\ sess' = [sess EXCEPT ![s].transport = t,
                          ![s].pc = IF sess[s].again THEN "resend" ELSE "loop"]
      /\ UNCHANGED <<runtime, sweeper, listener, entry, wire>>

\* ctx.Done() or s.done
LoopDone(s) ==
  /\ sess[s].pc = "loop"
  /\ sess[s].closed \/ Cancelled(sess[s].gen)
  /\ Goto(s, "exit")
  /\ UNCHANGED <<runtime, sweeper, listener, entry, trans, wire>>

LoopIdle(s) ==
  /\ sess[s].pc = "loop"
  /\ Goto(s, "exit")
  /\ UNCHANGED <<runtime, sweeper, listener, entry, trans, wire>>

LoopReceives(s) ==
  /\ sess[s].pc = "loop"
  /\ sess[s].queue # <<>>
  /\ sess' = [sess EXCEPT ![s].pc = "dequeue", ![s].pending = Head(sess[s].queue),
                          ![s].queue = Tail(@)]
  /\ UNCHANGED <<runtime, sweeper, listener, entry, trans, wire>>

\* A slip: datagrams are subtracted, not bytes.
DequeueOne(s) ==
  /\ sess[s].pc = "dequeue"
  /\ sess' = [sess EXCEPT ![s].pc = "send", ![s].queued = Max({0, @ - 1})]
  /\ UNCHANGED <<runtime, sweeper, listener, entry, trans, wire>>

Dequeue(s) ==
  /\ sess[s].pc = "dequeue"
  /\ sess' = [sess EXCEPT ![s].pc = "send",
                ![s].queued = Max({0, @ - Size[sess[s].pending]})]
  /\ UNCHANGED <<runtime, sweeper, listener, entry, trans, wire>>

\* transport.send: a write succeeds, fails after some bytes, or fails at once.
Writes(t, p) == trans[t].open /\ wire' = [wire EXCEPT ![p] = @ \cup {t}]

\* A slip: a failed write is retried with its payload whatever it wrote.
SendAgain(s) ==
  LET t == sess[s].transport
      p == sess[s].pending
  IN  /\ sess[s].pc = "send"
      /\ \/ /\ Writes(t, p)
            /\ sess' = [sess EXCEPT ![s].pc = "loop", ![s].sent = TRUE, ![s].pending = Nil]
         \/ /\ Writes(t, p)
            /\ sess' = [sess EXCEPT ![s].pc = "retry", ![s].again = TRUE]
         \/ /\ sess' = [sess EXCEPT ![s].pc = "retry", ![s].again = TRUE]
            /\ UNCHANGED wire
      /\ UNCHANGED <<runtime, sweeper, listener, entry, trans>>

Send(s) ==
  LET t == sess[s].transport
      p == sess[s].pending
  IN  /\ sess[s].pc = "send"
      /\ \/ /\ Writes(t, p)
            /\ sess' = [sess EXCEPT ![s].pc = "loop", ![s].sent = TRUE, ![s].pending = Nil]
         \/ /\ Writes(t, p)
            /\ sess' = [sess EXCEPT ![s].pc = "retry", ![s].again = FALSE, ![s].pending = Nil]
         \/ /\ sess' = [sess EXCEPT ![s].pc = "retry", ![s].again = TRUE]
            /\ UNCHANGED wire
      /\ UNCHANGED <<runtime, sweeper, listener, entry, trans>>

\* A response is passed on to the client; the end of the transport is not
\* the end of the session before the first one.
LoopEvent(s) ==
  LET t == sess[s].transport
  IN  /\ sess[s].pc = "loop"
      /\ \/ /\ trans[t].events # <<>> /\ Head(trans[t].events) = "response"
            /\ sess' = [sess EXCEPT ![s].confirmed = TRUE]
            /\ trans' = [trans EXCEPT ![t].events = Tail(@)]
         \/ /\ trans[t].events # <<>> /\ Head(trans[t].events) = "error"
            /\ sess' = [sess EXCEPT ![s].pc = "retry", ![s].pending = Nil, ![s].again = ~sess[s].sent]
            /\ trans' = [trans EXCEPT ![t].events = Tail(@)]
         \/ /\ trans[t].events = <<>> /\ trans[t].reader = "gone"
            /\ sess' = [sess EXCEPT ![s].pc = "retry", ![s].pending = Nil, ![s].again = ~sess[s].sent]
            /\ UNCHANGED trans
      /\ UNCHANGED <<runtime, sweeper, listener, entry, wire>>

\* retryInitial up to its loop
Retry(s) ==
  LET t == sess[s].transport
  IN  /\ sess[s].pc = "retry"
      /\ \/ /\ sess[s].confirmed \/ trans[t].seen \/ sess[s].attempts >= MaxAttempts
            /\ Goto(s, "exit")
            /\ UNCHANGED trans
         \/ /\ ~sess[s].confirmed /\ ~trans[t].seen /\ sess[s].attempts < MaxAttempts
            /\ Goto(s, "reopen")
            /\ trans' = CloseTransport(trans, t)
      /\ UNCHANGED <<runtime, sweeper, listener, entry, wire>>

\* A slip: an attempt that cannot be opened is not counted.
ReopenUncounted(s) ==
  /\ sess[s].pc = "reopen"
  /\ \/ /\ sess[s].attempts < MaxAttempts
        /\ ~Cancelled(sess[s].gen)
        /\ Len(trans) < MaxTransports
        /\ trans' = Append(trans, NewTransport(s))
        /\ sess' = [sess EXCEPT ![s].attempts = @ + 1, ![s].pc = "replace",
                                ![s].next = Len(trans) + 1]
     \/ /\ sess[s].attempts < MaxAttempts
        /\ UNCHANGED <<sess, trans>>
     \/ /\ sess[s].attempts >= MaxAttempts
        /\ Goto(s, "exit")
        /\ UNCHANGED trans
  /\ UNCHANGED <<runtime, sweeper, listener, entry, wire>>

\* The loop of retryInitial: a replacement is opened, or the attempt is lost.
Reopen(s) ==
  /\ sess[s].pc = "reopen"
  /\ \/ /\ sess[s].attempts < MaxAttempts
        /\ ~Cancelled(sess[s].gen)
        /\ Len(trans) < MaxTransports
        /\ trans' = Append(trans, NewTransport(s))
        /\ sess' = [sess EXCEPT ![s].attempts = @ + 1, ![s].pc = "replace",
                                ![s].next = Len(trans) + 1]
     \/ /\ sess[s].attempts < MaxAttempts
        /\ sess' = [sess EXCEPT ![s].attempts = @ + 1]
        /\ UNCHANGED trans
     \/ /\ sess[s].attempts >= MaxAttempts
        /\ Goto(s, "exit")
        /\ UNCHANGED trans
  /\ UNCHANGED <<runtime, sweeper, listener, entry, wire>>

\* The pending payload on the new transport; what send reports of its
\* progress is not looked at.
Resend(s) ==
  LET t == sess[s].transport
      p == sess[s].pending
      failed == /\ sess' = [sess EXCEPT ![s].pc = "reopen"]
                /\ trans' = CloseTransport(trans, t)
  IN  /\ sess[s].pc = "resend"
      /\ \/ /\ Writes(t, p)
            /\ sess' = [sess EXCEPT ![s].pc = "loop", ![s].sent = TRUE,
                                    ![s].pending = Nil, ![s].again = FALSE]
            /\ UNCHANGED trans
         \/ Writes(t, p) /\ failed
         \/ UNCHANGED wire /\ failed
      /\ UNCHANGED <<runtime, sweeper, listener, entry>>

\* The deferred close and delete.
Exit(s) ==
  /\ sess[s].pc = "exit"
  /\ sess' = [sess EXCEPT ![s].closed = TRUE,
                          ![s].pc = IF sess[s].closed THEN "delete" ELSE "closing"]
  /\ UNCHANGED <<runtime, sweeper, listener, entry, trans, wire>>

ExitClosing(s) ==
  /\ sess[s].pc = "closing"
  /\ CloseMarked(s)
  /\ Goto(s, "delete")
  /\ UNCHANGED <<runtime, sweeper, listener, entry, wire>>

\* What is left of a session is garbage, but for the transport that another
\* goroutine may be about to close.
Finished(q) == [NewSession(q.gen) EXCEPT !.pc = "done", !.closed = TRUE, !.transport = q.transport]

ExitDelete(s) ==
  /\ sess[s].pc = "delete"
  /\ DeleteEntry(s)
  /\ sess' = [sess EXCEPT ![s] = Finished(@)]
  /\ UNCHANGED <<runtime, sweeper, listener, trans, wire>>

Run(s) ==
  \/ Open(s) \/ ReplaceTransport(s) \/ LoopDone(s) \/ LoopIdle(s) \/ LoopReceives(s) \/ Dequeue(s)
  \/ Send(s) \/ LoopEvent(s) \/ Retry(s) \/ Reopen(s) \/ Resend(s)
  \/ Exit(s) \/ ExitClosing(s) \/ ExitDelete(s)

-----------------------------------------------------------------------------
(* udpSessionTransport.readLoop *)

ReadResponse(t) ==
  /\ trans[t].reader = "read"
  /\ trans[t].open
  /\ trans' = [trans EXCEPT ![t].seen = TRUE, ![t].reader = "response"]
  /\ UNCHANGED <<runtime, sweeper, listener, entry, sess, wire>>

\* The peer or close() ended the connection: only the former is an event.
ReadError(t) ==
  /\ trans[t].reader = "read"
  /\ trans' = [trans EXCEPT ![t].reader = IF trans[t].open THEN "error" ELSE "gone"]
  /\ UNCHANGED <<runtime, sweeper, listener, entry, sess, wire>>

\* One event fits the channel (maxUDPTransportEvents); t.done ends the wait.
PushEvent(t) ==
  /\ trans[t].reader \in {"response", "error"}
  /\ \/ /\ trans[t].events = <<>>
        /\ trans' = [trans EXCEPT ![t] =
             IF @.reader = "response"
             THEN [@ EXCEPT !.events = <<"response">>, !.reader = "read"]
             ELSE [@ EXCEPT !.events = <<"error">>, !.reader = "gone", !.open = FALSE]]
     \/ /\ ~trans[t].open
        /\ trans' = [trans EXCEPT ![t].reader = "gone"]
  /\ UNCHANGED <<runtime, sweeper, listener, entry, sess, wire>>

Reader(t) == ReadResponse(t) \/ ReadError(t) \/ PushEvent(t)

-----------------------------------------------------------------------------
(* The runtime starts and stops (module RelayService) *)

\* stopRuntimeLocked cancels the context, then closes all sessions.
CancelRuntime ==
  /\ runtime.phase = "running"
  /\ runtime' = [runtime EXCEPT !.phase = "cancelled"]
  /\ sweeper' = [sweeper EXCEPT ![0].pc = "wait"]
  /\ UNCHANGED <<listener, entry, sess, trans, wire>>

StartRuntime ==
  /\ runtime.phase = "cancelled"
  /\ sweeper[0].pc = "idle"
  /\ runtime.gen < MaxGen
  /\ runtime' = [gen |-> runtime.gen + 1, phase |-> "running"]
  /\ sweeper' = [sweeper EXCEPT ![runtime.gen + 1].pc = "wait"]
  /\ UNCHANGED <<listener, entry, sess, trans, wire>>

\* closeIfGeneration: the watcher of an older runtime leaves the table alone.
SameGeneration(g) == runtime.gen = g

\* closeAll and closeIfGeneration take the session out of the table ...
EmptyTable(w) ==
  /\ sweeper[w].pc = "wait"
  /\ w = 0 \/ Cancelled(w)
  /\ \/ /\ w = 0 \/ SameGeneration(w)
        /\ entry # 0
        /\ entry' = 0
        /\ sweeper' = [sweeper EXCEPT ![w] = [pc |-> "close", session |-> entry]]
     \/ /\ entry = 0 \/ ~(w = 0 \/ SameGeneration(w))
        /\ sweeper' = [sweeper EXCEPT ![w] = IdleSweeper]
        /\ UNCHANGED entry
  /\ UNCHANGED <<runtime, listener, sess, trans, wire>>

\* ... and close it when they have released the table's mutex.
SweepClose(w) ==
  LET s == sweeper[w].session
  IN  /\ sweeper[w].pc = "close"
      /\ \/ sess[s].closed /\ sweeper' = [sweeper EXCEPT ![w] = IdleSweeper] /\ UNCHANGED sess
         \/ /\ ~sess[s].closed
            /\ MarkClosed(s)
            /\ sweeper' = [sweeper EXCEPT ![w].pc = "closing"]
      /\ UNCHANGED <<runtime, listener, entry, trans, wire>>

SweepClosing(w) ==
  /\ sweeper[w].pc = "closing"
  /\ CloseMarked(sweeper[w].session)
  /\ sweeper' = [sweeper EXCEPT ![w] = IdleSweeper]
  /\ UNCHANGED <<runtime, listener, entry, sess, wire>>

Sweep(w) == EmptyTable(w) \/ SweepClose(w) \/ SweepClosing(w)

-----------------------------------------------------------------------------
Submit(g) ==
  \/ GetOrCreate(g) \/ Enqueue(g) \/ CheckUnavailable(g)
  \/ SubmitDelete(g) \/ SubmitClose(g) \/ SubmitClosing(g)

Next ==
  \/ \E g \in Gen : Submit(g) \/ \E d \in Datagram : Receive(g, d)
  \/ \E w \in 0 .. MaxGen : Sweep(w)
  \/ \E s \in DOMAIN sess : Run(s)
  \/ \E t \in DOMAIN trans : Reader(t)
  \/ CancelRuntime \/ StartRuntime

\* A step of run that waits for nothing: every state but the select.
RunOn(s) == s \in DOMAIN sess /\ sess[s].pc # "loop" /\ Run(s)

\* The select itself: a branch that is ready is taken.
Select(s) == s \in DOMAIN sess /\ (LoopDone(s) \/ LoopReceives(s) \/ LoopEvent(s))

\* Goroutines that can go on do: run, readLoop and the listener wait only for
\* each other's channels and for calls with a deadline.  A select whose Done
\* branch is ready again and again takes it at some time; nothing is assumed of
\* the idle timer, which traffic keeps postponing.
Fairness ==
  /\ \A s \in 1 .. MaxSessions :
       WF_vars(RunOn(s)) /\ WF_vars(Select(s)) /\ SF_vars(s \in DOMAIN sess /\ LoopDone(s))
  /\ \A t \in 1 .. MaxTransports : WF_vars(t \in DOMAIN trans /\ Reader(t))
  /\ \A g \in Gen : WF_vars(Submit(g))
  /\ \A w \in 0 .. MaxGen : WF_vars(Sweep(w))

Spec == Init /\ [][Next]_vars

FairSpec == Spec /\ Fairness

-----------------------------------------------------------------------------
(* Properties *)

OpenTransports(s) == {t \in DOMAIN trans : trans[t].owner = s /\ trans[t].open}

\* A goroutine has marked s as closed and not yet closed its transport.
BeingClosed(s) ==
  \/ sess[s].pc = "closing"
  \/ \E g \in Gen : listener[g].pc = "closing" /\ listener[g].session = s
  \/ \E w \in 0 .. MaxGen : sweeper[w].pc = "closing" /\ sweeper[w].session = s

\* No socket is leaked: a session has at most one open transport however its
\* retries, close() by others and the end of the runtime interleave; and when
\* run has returned, one that is still open is the session's own and a goroutine
\* is about to close it (close() releases stateMu first).
NoTransportLeak ==
  \A s \in DOMAIN sess :
    /\ Cardinality(OpenTransports(s)) <= 1
    /\ sess[s].pc = "done" /\ OpenTransports(s) # {} =>
         OpenTransports(s) = {sess[s].transport} /\ BeingClosed(s)

\* The table holds the client's live session: one that is neither closed nor of
\* a stopped runtime is in it, so that no second one is created beside it, or
\* has just been taken out by a listener that closes it next.  (A listener of
\* the runtime before may do that while the present one creates the successor:
\* nothing waits for it.)  In particular a session that ends late never takes
\* its successor out of the table.  And the table holds no session whose
\* goroutine has returned: datagrams are never queued where nobody reads.
OneLiveSession ==
  /\ \A s \in DOMAIN sess :
       ~sess[s].closed /\ ~Cancelled(sess[s].gen) =>
         entry = s \/ \E g \in Gen : listener[g].pc = "close" /\ listener[g].session = s
  /\ entry # 0 => sess[entry].pc # "done"

\* queuedByte counts the bytes of the channel and of the datagram taken from it
\* but not yet subtracted; the clamp at zero in dequeue is never needed.
QueueAccounting ==
  \A s \in DOMAIN sess :
    sess[s].pc # "done" =>
      /\ sess[s].queued = Bytes(sess[s].queue)
           + IF sess[s].pc = "dequeue" THEN Size[sess[s].pending] ELSE 0
      /\ sess[s].queued <= QueueBytes
      /\ Len(sess[s].queue) <= QueueEntries

\* Every session of a runtime that was stopped ends, whatever its traffic, and
\* no transport of it stays open.
StoppedSessionsEnd ==
  \A s \in 1 .. MaxSessions :
    (s \in DOMAIN sess /\ Cancelled(sess[s].gen))
      ~> (s \in DOMAIN sess /\ sess[s].pc = "done" /\ OpenTransports(s) = {})

\* udpEntrySession.run: "A datagram is replayed only when the failed write made
\* no progress": of what the first transport of a session took bytes of, no
\* other transport ever gets any, whatever retries, replacements and closes
\* follow.  (retryInitial does not look at the progress of its own writes on the
\* replacements, and for those the comment does not hold.)
FirstSendNotReplayed ==
  \A t \in DOMAIN trans, d \in Datagram :
    (t \in wire[d] /\ \A u \in DOMAIN trans : trans[u].owner = trans[t].owner => t <= u)
      => wire[d] = {t}
=============================================================================
