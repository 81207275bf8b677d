-------------------------- MODULE RelayConnections --------------------------
(***************************************************************************)
(* The connections one node relays: acceptLoop and listenWSStage, the      *)
(* connection slots, handleTCPForward, handleStageConn with validateHello, *)
(* pipe, and the UDP streams of inner stages: handleUDPStageTransit,       *)
(* handleUDPStageExit, openUDPStageTarget and runUDPPersistentSession      *)
(* (internal/node/relay/service.go and udp.go).                            *)
(*                                                                         *)
(* A handler belongs to the runtime whose listener accepted it, and keeps  *)
(* that runtime's tunnel; but it looks a forward up in Service.config,     *)
(* which a concurrent Apply may have replaced.  Nothing rechecks the       *)
(* forward after the second lookup.  Against another revision it is        *)
(* protected: Apply cancels the old runtime before it stores the new       *)
(* configuration, and a dial under a cancelled context is refused.  A      *)
(* renewal, the same revision again, replaces the configuration and        *)
(* cancels nothing: if it brings another content, nothing protects it.     *)
(*                                                                         *)
(* Payload, counters and frame contents are left out; which candidate is   *)
(* dialled is CandidateSelector's subject, and the datagrams of entry      *)
(* nodes UDPEntrySession's.                                                *)
(***************************************************************************)
EXTENDS Integers, FiniteSets

CONSTANTS
  Conn,         \* identities for the connections alive at one time
  Forward,      \* forwards
  Tunnel,       \* tunnels
  Stage,        \* this node's stage in each tunnel: its role and protocols
  Configs,      \* configurations the controller may issue
  Absent,       \* no such forward, no tunnel
  MaxSlots,     \* cap(Service.connSlots)
  Attempts,     \* len(forward.Targets), at least 1
  MaxRuntimes   \* bound on the configurations applied

Network == {"tcp", "udp"}

Roles == {"entry", "transit", "exit"}

\* The part of a ForwardRuntime the handlers look at; a forward that is not
\* enabled is treated like one that is not there.
Record == [tunnel : Tunnel, networks : SUBSET Network]

ASSUME StageAssumption ==
  Stage \in [Tunnel -> [role : Roles, networks : SUBSET Network]]
ASSUME ConfigsAssumption ==
  Configs # {} /\ Configs \subseteq [Forward -> Record \cup {Absent}]
ASSUME AbsentAssumption == Absent \notin Record \cup Tunnel \cup Forward
ASSUME BoundsAssumption ==
  MaxSlots \in Nat \ {0} /\ Attempts \in Nat \ {0} /\ MaxRuntimes \in Nat \ {0}

VARIABLES
  runtime,   \* how many runtimes were started; the last one is not cancelled
  config,    \* Service.config
  started,   \* the configuration the open listeners were made from
  slots,     \* len(Service.connSlots)
  conns      \* the connection handlers

vars == <<runtime, config, started, slots, conns>>

\* Where a handler is.  "done": it has returned, but a copy of its pipe has
\* not ended yet.
Pcs == {"idle", "accepted", "hello", "lookup", "first", "dial", "dialing",
        "send", "pipe", "session", "closing", "done"}

Socket == {"none", "open", "closed"}

Sides == {"up", "down"}

\* How a pump ended: its source was at an end, its source failed (or carried
\* a frame of another session), or the write to its destination failed.
Causes == {"eof", "read", "write"}

\* A udpPersistentSessionResult: a pump's result, or the reason it is not one.
Results == [side : Sides, cause : Causes]
             \cup [side : {"none"}, cause : {"none", "context", "idle"}]

\* "seen": responseSeen.  The others are history.  "fault": the candidate could
\* not be reached, or its connection failed or ended by itself.  "givenup": a
\* dial ended because the runtime was stopped or the budget was used up.
\* "blamed": recordFailure was called.  "renewed": a renewal brought another
\* entry for the forward between its two lookups.
Marks == {"seen", "fault", "givenup", "blamed", "renewed"}

NoResult == [side |-> "none", cause |-> "none"]

\* A handler with its local variables.
Handler == [pc : Pcs, run : 0 .. MaxRuntimes, tunnel : Tunnel \cup {Absent},
            net : Network, fwd : Forward \cup {Absent},
            rec : Record \cup {Absent}, in : Socket, out : Socket,
            alive : SUBSET Sides, results : SUBSET Results, result : Results,
            tries : 0 .. Attempts, marks : SUBSET Marks]

Free == [pc |-> "idle", run |-> 0, tunnel |-> Absent, net |-> "tcp",
         fwd |-> Absent, rec |-> Absent, in |-> "none", out |-> "none",
         alive |-> {}, results |-> {}, result |-> NoResult, tries |-> 0,
         marks |-> {}]

Init ==
  /\ runtime = 1
  /\ config \in Configs
  /\ started = config
  /\ slots = 0
  /\ conns = [c \in Conn |-> Free]

-----------------------------------------------------------------------------
(* The runtime *)

\* <-ctx.Done() for the context the handler was given.
Cancelled(c) == conns[c].run # runtime

\* Apply with another revision: the old context is cancelled and the old
\* listeners closed before the new configuration is stored, all under
\* Service.mu.  Connections that were accepted live on.
Apply(cfg) ==
  /\ runtime < MaxRuntimes
  /\ runtime' = runtime + 1
  /\ config' = cfg
  /\ started' = cfg
  /\ UNCHANGED <<slots, conns>>

\* Apply with the revision that runs: the configuration is replaced, the
\* listeners and the context stay.  The controller may have compiled another
\* content under one revision.
Renew(cfg) ==
  /\ config' = cfg
  /\ conns' = [c \in Conn |->
       IF conns[c].pc = "lookup" /\ cfg[conns[c].fwd] # config[conns[c].fwd]
       THEN [conns[c] EXCEPT !.marks = @ \cup {"renewed"}]
       ELSE conns[c]]
  /\ UNCHANGED <<runtime, started, slots>>

-----------------------------------------------------------------------------
(* Steps of one handler *)

Role(c) == Stage[conns[c].tunnel].role

Close(s) == IF s = "open" THEN "closed" ELSE s

\* The handler goes on with the fields of r.
Become(c, r) ==
  /\ conns' = [conns EXCEPT ![c] = r]
  /\ UNCHANGED <<runtime, config, started>>

Goto(c, pc) == Become(c, [conns[c] EXCEPT !.pc = pc]) /\ UNCHANGED slots

\* A slip: the deferred close of the outbound connection is missing.
ReturnLeaking(c, r) ==
  /\ Become(c, [Free EXCEPT !.pc = "done", !.run = r.run, !.alive = r.alive,
                            !.marks = r.marks \ {"seen", "renewed"}, !.in = Close(r.in), !.out = r.out])
  /\ slots' = slots - 1

\* The handler returns: the deferred closes run, then releaseConnection, and
\* its local variables are gone.
Return(c, r) ==
  /\ Become(c, [Free EXCEPT !.pc = "done", !.run = r.run, !.alive = r.alive,
                            !.marks = r.marks \ {"seen", "renewed"}, !.in = Close(r.in),
                            !.out = Close(r.out)])
  /\ slots' = slots - 1

\* The identity is free again once no goroutine of the handler is left.
Reap(c) ==
  /\ conns[c].pc = "done" /\ conns[c].alive = {}
  /\ Become(c, Free) /\ UNCHANGED slots

-----------------------------------------------------------------------------
(* Accepting *)

Accepted(c, t, f, r) ==
  /\ Become(c, [Free EXCEPT !.pc = "accepted", !.run = runtime, !.tunnel = t,
                            !.fwd = f, !.rec = r, !.in = "open"])
  /\ UNCHANGED slots

\* A connection to the TCP listener of a forward this node is the entry of:
\* the handler gets the forward and the tunnel the listener was made with.
AcceptForward(c, f) ==
  /\ conns[c].pc = "idle"
  /\ started[f] # Absent
  /\ Stage[started[f].tunnel].role = "entry"
  /\ "tcp" \in started[f].networks
  /\ Accepted(c, started[f].tunnel, f, started[f])

\* A connection to the listener of an inner stage.
AcceptStage(c, t) ==
  /\ conns[c].pc = "idle"
  /\ Stage[t].role # "entry"
  /\ Accepted(c, t, Absent, Absent)

\* tryAcquireConnection succeeds and the handler starts.
TakeSlot(c) ==
  /\ conns[c].pc = "accepted"
  /\ slots < MaxSlots
  /\ slots' = slots + 1
  /\ Become(c, [conns[c] EXCEPT !.pc = IF Role(c) = "entry" THEN "dial" ELSE "hello"])

\* No slot: the connection is closed, no handler starts.
Refuse(c) ==
  /\ conns[c].pc = "accepted"
  /\ slots = MaxSlots
  /\ Become(c, Free) /\ UNCHANGED slots

-----------------------------------------------------------------------------
(* The hello of an inner stage *)

\* The checks of validateHello on the forward: there in the present
\* configuration, of this tunnel, and with the protocol of the hello, which
\* the stage has to support too.
Valid(c, f, n) ==
  /\ config[f] # Absent
  /\ config[f].tunnel = conns[c].tunnel
  /\ n \in config[f].networks
  /\ n \in Stage[conns[c].tunnel].networks

\* ReadHello and validateHello.
Hello(c, f, n) ==
  /\ conns[c].pc = "hello"
  /\ Valid(c, f, n)
  /\ Become(c, [conns[c] EXCEPT !.pc = "lookup", !.fwd = f, !.net = n])
  /\ UNCHANGED slots

\* No hello before relayHelloTimeout, a malformed one, a wrong tunnel, stage
\* or secret, or a forward validateHello does not accept.
HelloRejected(c) ==
  /\ conns[c].pc = "hello"
  /\ Return(c, conns[c])

\* The second findForward, again in the configuration of the moment.
FindForward(c) ==
  /\ conns[c].pc = "lookup"
  /\ IF config[conns[c].fwd] = Absent
     THEN Return(c, conns[c])
     ELSE /\ Become(c, [conns[c] EXCEPT
                          !.pc = IF conns[c].net = "udp" THEN "first" ELSE "dial",
                          !.rec = config[conns[c].fwd]])
          /\ UNCHANGED slots

\* readInitialUDPFrame and validateInitialUDPFrame.
FirstFrame(c) == conns[c].pc = "first" /\ Goto(c, "dial")

\* The stream ends, the frame is not acceptable or late, or the context's
\* watcher closed the connection.
FirstFrameFails(c) == conns[c].pc = "first" /\ Return(c, conns[c])

-----------------------------------------------------------------------------
(* Dialling *)

Udp(c) == conns[c].net = "udp"

\* openUDPStageTarget tries again while it has attempts left; every other
\* dial is the handler's only one.
MayRetry(c) == Udp(c) /\ Role(c) = "exit" /\ conns[c].tries + 1 < Attempts

GiveUpOrRetry(c, r) ==
  IF MayRetry(c)
  THEN Become(c, [r EXCEPT !.pc = "dial", !.out = Close(@), !.tries = @ + 1])
       /\ UNCHANGED slots
  ELSE Return(c, r)

\* A slip: the dial is not bound to the runtime's context.
DialStartDetached(c) == conns[c].pc = "dial" /\ Goto(c, "dialing")

\* DialContext looks at its context before it does anything.
DialStart(c) == conns[c].pc = "dial" /\ ~Cancelled(c) /\ Goto(c, "dialing")

\* A dial that failed, and what it leaves: nothing if no candidate was in the
\* order, otherwise recordFailure for every candidate it tried, whatever the
\* error was.
DialFailed(c, marks) ==
  GiveUpOrRetry(c, [conns[c] EXCEPT !.marks = @ \cup marks])

\* Under a context that is done each candidate of the order fails at once,
\* and is blamed for it.
DialRefused(c) ==
  /\ conns[c].pc = "dial" /\ Cancelled(c)
  /\ \E marks \in {{}, {"givenup", "blamed"}} : DialFailed(c, marks)

\* The dial succeeds; it may do so although the context ends meanwhile.  A
\* UDP stream sends its first datagram next, TCP connections are piped.  What
\* earlier dials of the handler recorded is no longer of interest.
Dialled(c) ==
  /\ conns[c].pc = "dialing"
  /\ Become(c, [conns[c] EXCEPT !.pc = IF Udp(c) THEN "send" ELSE "pipe",
                                !.out = "open", !.marks = @ \cap {"renewed"},
                                !.alive = IF Udp(c) THEN {} ELSE Sides])
  /\ UNCHANGED slots

\* Refused or out of time, which is the candidate's fault; or given up because
\* the context ended or earlier candidates used up relayDialBudget.
DialFails(c) ==
  /\ conns[c].pc = "dialing"
  /\ \E marks \in {{}, {"fault", "blamed"}, {"givenup", "blamed"}} :
       DialFailed(c, marks)

-----------------------------------------------------------------------------
(* pipe *)

\* One direction ends, because an end of the pipe does or because both
\* were closed here; it closes both connections.
CopyEnds(c, side) ==
  /\ side \in conns[c].alive /\ conns[c].pc \in {"pipe", "done"}
  /\ Become(c, [conns[c] EXCEPT !.alive = @ \ {side},
                                !.in = Close(@), !.out = Close(@)])
  /\ UNCHANGED slots

\* A slip: the watcher is not there.
PipeUnwatched(c) == FALSE /\ Goto(c, "pipe")

\* The watcher goroutine: the context is done, both connections are closed.
PipeWatch(c) ==
  /\ conns[c].pc = "pipe" /\ Cancelled(c) /\ conns[c].out = "open"
  /\ Become(c, [conns[c] EXCEPT !.in = Close(@), !.out = Close(@)])
  /\ UNCHANGED slots

\* "<-done" returns with the first direction that ended; the handler does not
\* wait for the other one.
PipeReturns(c) ==
  /\ conns[c].pc = "pipe" /\ conns[c].alive # Sides
  /\ Return(c, conns[c])

-----------------------------------------------------------------------------
(* UDP streams *)

\* The first datagram goes out and the two pumps start.
SendFirst(c) ==
  /\ conns[c].pc = "send"
  /\ Become(c, [conns[c] EXCEPT !.pc = "session", !.alive = Sides])
  /\ UNCHANGED slots

\* It does not: the candidate is blamed.  An exit stage closes the socket and
\* tries again, a transit stage gives up.
SendFirstFails(c) ==
  /\ conns[c].pc = "send"
  /\ GiveUpOrRetry(c, [conns[c] EXCEPT !.marks = @ \cup {"fault", "blamed"}])

\* The downstream pump passes a response on.
Response(c) ==
  /\ conns[c].pc = "session" /\ "down" \in conns[c].alive
  /\ Become(c, [conns[c] EXCEPT !.marks = @ \cup {"seen"}])
  /\ UNCHANGED slots

\* The outbound connection is what failed: downstream cannot read from it,
\* upstream cannot write to it.
OutboundFault(side, cause) ==
  \/ side = "down" /\ cause \in {"eof", "read"}
  \/ side = "up" /\ cause = "write"

\* A pump ends.  Once the session closed the connections it ends because of
\* that, with whatever error its call returns then, but not with EOF,
\* and nobody looks at its result any more.
PumpEnds(c, side, cause) ==
  /\ side \in conns[c].alive /\ conns[c].pc \in {"session", "closing"}
  /\ conns[c].out = "closed" => cause # "eof"
  /\ Become(c, [conns[c] EXCEPT
                  !.alive = @ \ {side},
                  !.results = IF conns[c].pc = "session"
                              THEN @ \cup {[side |-> side, cause |-> cause]} ELSE {},
                  !.marks = @ \cup (IF OutboundFault(side, cause)
                                         /\ conns[c].out = "open"
                                    THEN {"fault"} ELSE {})])
  /\ UNCHANGED slots

\* The select takes one of the branches that are ready: a pump's result, the
\* context, or the idle timer.
Ready(c) == conns[c].results
              \cup (IF Cancelled(c)
                    THEN {[side |-> "none", cause |-> "context"]} ELSE {})
              \cup {[side |-> "none", cause |-> "idle"]}

\* A slip: the context branch closes the connections and waits for a result.
SessionEndsLate(c, r) ==
  /\ conns[c].pc = "session" /\ r \in Ready(c)
  /\ Become(c, [conns[c] EXCEPT
                  !.pc = IF r.cause = "context" THEN @ ELSE "closing",
                  !.result = r, !.results = {}, !.in = Close(@), !.out = Close(@)])
  /\ UNCHANGED slots

\* Its result is kept, and both connections are closed.
SessionEnds(c, r) ==
  /\ conns[c].pc = "session" /\ r \in Ready(c)
  /\ Become(c, [conns[c] EXCEPT !.pc = "closing", !.result = r,
                                !.results = {}, !.in = Close(@), !.out = Close(@)])
  /\ UNCHANGED slots

\* Which results count as a failure of the candidate.
Blames(r, seen) ==
  \/ r.side = "down" /\ (r.cause = "eof" => ~seen) /\ r.cause # "write"
  \/ r.side = "up" /\ r.cause = "write"

\* Both pumps have ended; the kept result decides whether the failure is
\* recorded, and the handler returns.
SessionReturns(c) ==
  /\ conns[c].pc = "closing" /\ conns[c].alive = {}
  /\ Return(c, [conns[c] EXCEPT
                  !.marks = @ \cup (IF Blames(conns[c].result, "seen" \in @)
                                    THEN {"blamed"} ELSE {})])

-----------------------------------------------------------------------------
Accept(c) ==
  \/ \E f \in Forward : AcceptForward(c, f)
  \/ \E t \in Tunnel : AcceptStage(c, t)

Handle(c) ==
  \/ TakeSlot(c) \/ Refuse(c) \/ Reap(c)
  \/ HelloRejected(c) \/ FindForward(c) \/ FirstFrameFails(c)
  \/ DialStart(c) \/ DialRefused(c) \/ Dialled(c) \/ DialFails(c)
  \/ PipeWatch(c) \/ PipeReturns(c)
  \/ SendFirst(c) \/ SendFirstFails(c) \/ SessionReturns(c)
  \/ \E r \in Results : r.cause # "idle" /\ SessionEnds(c, r)

Idle(c) == SessionEnds(c, [side |-> "none", cause |-> "idle"])

Peer(c) ==
  \/ \E f \in Forward, n \in Network : Hello(c, f, n)
  \/ FirstFrame(c)
  \/ Response(c)
  \/ \E side \in Sides : CopyEnds(c, side)
  \/ \E side \in Sides, cause \in Causes : PumpEnds(c, side, cause)

Next ==
  \/ \E cfg \in Configs : Apply(cfg) \/ Renew(cfg)
  \/ \E c \in Conn : Accept(c) \/ Handle(c) \/ Idle(c) \/ Peer(c)

Spec == Init /\ [][Next]_vars

\* Every read of the hello and the first frame, every dial and every write of
\* a UDP stream has a deadline, the select of a session sees a context that is
\* done, and a goroutine whose connections are closed returns.
Unblocked(c) ==
  /\ conns[c].out = "closed"
  /\ \/ \E side \in Sides : CopyEnds(c, side)
     \/ \E side \in Sides, cause \in Causes : PumpEnds(c, side, cause)

Fairness == \A c \in Conn : WF_vars(Handle(c)) /\ WF_vars(Unblocked(c))

FairSpec == Spec /\ Fairness

-----------------------------------------------------------------------------
(* Properties *)

Holders == {c \in Conn : conns[c].pc \notin {"idle", "accepted", "done"}}

\* Every variable has its type.
TypeOK ==
  /\ runtime \in 1 .. MaxRuntimes
  /\ config \in Configs
  /\ started \in Configs
  /\ slots \in 0 .. MaxSlots
  /\ conns \in [Conn -> Handler]

\* Slots and sockets go together, on every path through the handlers: a slot
\* is taken exactly by the handlers that have not returned, of which there are
\* never more than maxRelayConnections, and no connection
\* of a handler that returned is still open, although the pipe returns
\* before its second copy ends.
SocketsHoldSlots ==
  /\ slots = Cardinality(Holders) /\ slots <= MaxSlots
  /\ \A c \in Conn :
       conns[c].in = "open" \/ conns[c].out = "open"
         => c \in Holders \/ conns[c].pc = "accepted"

\* An outbound connection is only ever open for a forward of the tunnel whose
\* listener authenticated the peer, and for a protocol that forward has,
\* although validateHello and the second findForward look it up in a
\* configuration that Apply replaces with another revision in between, or that
\* a renewal replaces at any other time.  The one exception is a renewal with
\* another entry for the forward just between the two lookups: it cancels
\* nothing, and the record of the second lookup is dialled unchecked.
AuthorisedDial ==
  \A c \in Conn :
    conns[c].out = "open" /\ "renewed" \notin conns[c].marks =>
      /\ conns[c].rec.tunnel = conns[c].tunnel
      /\ conns[c].net \in conns[c].rec.networks

\* A candidate is blamed for the end of a UDP stream only when its connection
\* failed or ended by itself: never because the runtime was stopped, the
\* stream was idle or the previous stage went away.  A dial is not as careful:
\* it blames the candidate also when the handler gave it up, on a runtime that
\* was stopped or a budget that was used up, and this is the only blame that
\* is not deserved.
BlameIsDeserved ==
  \A c \in Conn :
    "blamed" \in conns[c].marks =>
      \/ "fault" \in conns[c].marks
      \/ "givenup" \in conns[c].marks /\ conns[c].pc \in {"dial", "dialing", "done"}

\* After Apply stopped a runtime every connection it accepted comes to its
\* end and gives its slot back, wherever its handler was at that moment.
StoppedConnectionsEnd ==
  \A c \in Conn :
    conns[c].pc # "idle" /\ Cancelled(c) ~> conns[c].pc = "idle"

=============================================================================
