---------------------- MODULE RelayConnections_proofs ----------------------
(***************************************************************************)
(* Proofs that a connection is only ever dialled for a forward of the      *)
(* tunnel that authenticated its peer, that slots and sockets go together, *)
(* and that a candidate is blamed only for its own failure, for any number *)
(* of connections, forwards, tunnels, configurations and reloads.          *)
(*                                                                         *)
(* AuthorisedDial is not inductive: it says nothing of the handlers that   *)
(* have not dialled yet.  What carries it there is that a handler whose    *)
(* runtime is still in force has looked at the configuration in force, and *)
(* that only such a handler dials.                                         *)
(*                                                                         *)
(* The last part is about CandidateSelector, which keeps variables of its  *)
(* own and decides which candidate such a connection dials: whatever the   *)
(* strategy, weights and cursor, an order has every available candidate    *)
(* once; bindings stay within their limit and inside the list; cooldowns   *)
(* are bounded.                                                            *)
(***************************************************************************)
EXTENDS RelayConnections, CandidateSelector, FiniteSetTheorems, WellFoundedInduction, TLAPS

\* The record the handler holds is one of its tunnel and has its protocol,
\* unless a renewal came between its two lookups.
Authorised(r) ==
  "renewed" \notin r.marks =>
    r.rec.tunnel = r.tunnel /\ r.net \in r.rec.networks

\* What holds of a handler r while rt is the runtime and cfg the
\* configuration in force.
Sound(r, rt, cfg) ==
  /\ r.run \in 0 .. rt
  /\ r.out = "open" => Authorised(r)
  /\ r.pc \in {"accepted", "hello", "lookup"} => r.out # "open" /\ r.tunnel \in Tunnel
  /\ r.pc \in {"lookup", "first"} => r.fwd \in Forward
  /\ r.pc = "accepted" /\ Stage[r.tunnel].role = "entry" => Authorised(r)
  /\ r.pc = "lookup" /\ r.run = rt /\ "renewed" \notin r.marks =>
       /\ cfg[r.fwd] # Absent
       /\ cfg[r.fwd].tunnel = r.tunnel
       /\ r.net \in cfg[r.fwd].networks
  /\ r.pc \in {"first", "dial"} /\ r.run = rt => Authorised(r)
  /\ r.pc \in {"dialing", "send"} => Authorised(r)

\* The inductive invariant.
IInv ==
  /\ runtime \in 1 .. MaxRuntimes
  /\ config \in Configs
  /\ started \in Configs
  /\ conns \in [Conn -> Handler]
  /\ \A c \in Conn : Sound(conns[c], runtime, config)

USE StageAssumption, ConfigsAssumption, AbsentAssumption, BoundsAssumption

-----------------------------------------------------------------------------
(* Steps of a handler *)

\* A free identity is a handler that is sound under any configuration.
LEMMA FreeSound ==
  ASSUME NEW rt \in 1 .. MaxRuntimes, NEW cfg
  PROVE  Free \in Handler /\ Sound(Free, rt, cfg)
  BY DEF Free, Handler, Sound, Pcs, Network, Socket, Sides, Results, NoResult,
         Causes, Marks

\* A handler that goes on with sound fields keeps the invariant: the others
\* are left alone, and neither runtime nor configuration changes.
LEMMA BecomeKeeps ==
  ASSUME IInv, NEW c \in Conn, NEW r \in Handler,
         Sound(r, runtime, config), Become(c, r)
  PROVE  IInv'
  <1>1. /\ conns' = [conns EXCEPT ![c] = r]
        /\ runtime' = runtime /\ config' = config /\ started' = started
    BY DEF Become
  <1>2. conns' \in [Conn -> Handler]
    BY <1>1 DEF IInv
  <1>3. ASSUME NEW d \in Conn PROVE Sound(conns'[d], runtime', config')
    <2>1. conns'[d] = IF d = c THEN r ELSE conns[d]
      BY <1>1 DEF IInv
    <2> QED
      BY <1>1, <2>1 DEF IInv
  <1> QED
    BY <1>1, <1>2, <1>3 DEF IInv

\* A handler that returns has closed what it had open.
LEMMA ReturnKeeps ==
  ASSUME IInv, NEW c \in Conn, NEW r \in Handler, r.run \in 0 .. runtime,
         Return(c, r)
  PROVE  IInv'
  <1> DEFINE q == [Free EXCEPT !.pc = "done", !.run = r.run, !.alive = r.alive,
                               !.marks = r.marks \ {"seen", "renewed"},
                               !.in = Close(r.in),
                               !.out = Close(r.out)]
  <1>1. q \in Handler
    <2>1. Free \in Handler
      BY FreeSound DEF IInv
    <2>2. Close(r.in) \in Socket /\ Close(r.out) \in Socket
      BY DEF Handler, Socket, Close
    <2>3. "done" \in Pcs
      BY DEF Pcs
    <2>4. /\ r.run \in 0 .. MaxRuntimes /\ r.alive \in SUBSET Sides
          /\ r.marks \ {"seen", "renewed"} \in SUBSET Marks
      BY DEF Handler
    <2> QED
      BY <2>1, <2>2, <2>3, <2>4 DEF Handler
  <1>2. q.pc = "done" /\ q.out # "open" /\ q.run = r.run
    BY DEF Free, Handler, Socket, Close
  <1>3. Sound(q, runtime, config)
    BY <1>2 DEF Sound
  <1>4. Become(c, q)
    BY DEF Return
  <1> HIDE DEF q
  <1> QED
    BY <1>1, <1>3, <1>4, BecomeKeeps

\* Only the program counter changes.
LEMMA GotoKeeps ==
  ASSUME IInv, NEW c \in Conn, NEW pc \in Pcs, Goto(c, pc),
         Sound([conns[c] EXCEPT !.pc = pc], runtime, config)
  PROVE  IInv'
  <1>0. conns[c] \in Handler
    BY DEF IInv
  <1>1. [conns[c] EXCEPT !.pc = pc] \in Handler
    BY <1>0 DEF Handler
  <1> QED
    BY <1>1, BecomeKeeps DEF Goto

\* A dial that failed is tried again by a handler whose record is still
\* authorised, or ends the handler.
LEMMA RetryKeeps ==
  ASSUME IInv, NEW c \in Conn, NEW r \in Handler, r.run \in 0 .. runtime,
         r.run = runtime => Authorised(r),
         r.tries = conns[c].tries,
         GiveUpOrRetry(c, r)
  PROVE  IInv'
  <1>1. CASE MayRetry(c)
    <2> DEFINE q == [r EXCEPT !.pc = "dial", !.out = Close(@), !.tries = @ + 1]
    <2>1. r.tries + 1 \in 0 .. Attempts
      BY <1>1 DEF MayRetry, Handler
    <2>2. q \in Handler
      BY ZenonT(60), <2>1 DEF Handler, Pcs, Socket, Close
    <2>3. /\ q.pc = "dial" /\ q.out # "open" /\ q.run = r.run /\ q.marks = r.marks
          /\ q.rec = r.rec /\ q.tunnel = r.tunnel /\ q.net = r.net /\ q.marks = r.marks
      BY DEF Handler, Socket, Close
    <2>4. Sound(q, runtime, config)
      BY <2>3 DEF Sound, Authorised
    <2>5. Become(c, q)
      BY <1>1 DEF GiveUpOrRetry
    <2> HIDE DEF q
    <2> QED
      BY <2>2, <2>4, <2>5, BecomeKeeps
  <1>2. CASE ~MayRetry(c)
    BY <1>2, ReturnKeeps DEF GiveUpOrRetry
  <1> QED
    BY <1>1, <1>2

-----------------------------------------------------------------------------
(* Each action keeps the invariant *)

\* Apply: no handler belongs to the runtime it starts.
LEMMA ApplyKeeps ==
  ASSUME IInv, NEW cfg \in Configs, Apply(cfg)
  PROVE  IInv'
  <1>1. /\ runtime' = runtime + 1 /\ runtime' \in 1 .. MaxRuntimes
        /\ config' = cfg /\ started' = cfg /\ conns' = conns
    BY DEF Apply, IInv
  <1>2. ASSUME NEW c \in Conn PROVE Sound(conns[c], runtime', config')
    <2>1. Sound(conns[c], runtime, config)
      BY DEF IInv
    <2>2. conns[c].run # runtime' /\ conns[c].run \in 0 .. runtime'
      BY <1>1, <2>1 DEF Sound, IInv
    <2> QED
      BY <2>1, <2>2 DEF Sound
  <1> QED
    BY <1>1, <1>2 DEF IInv

\* A renewal: a handler whose forward changes between its lookups is marked,
\* every other handler at its second lookup finds what the first one found.
LEMMA RenewKeeps ==
  ASSUME IInv, NEW cfg \in Configs, Renew(cfg)
  PROVE  IInv'
  <1> DEFINE Hit(c) == conns[c].pc = "lookup" /\ cfg[conns[c].fwd] # config[conns[c].fwd]
             q(c) == [conns[c] EXCEPT !.marks = @ \cup {"renewed"}]
  <1>1. /\ runtime' = runtime /\ started' = started /\ config' = cfg
        /\ conns' = [c \in Conn |-> IF Hit(c) THEN q(c) ELSE conns[c]]
    BY DEF Renew
  <1>2. ASSUME NEW c \in Conn
        PROVE  conns'[c] \in Handler /\ Sound(conns'[c], runtime', config')
    <2>1. conns[c] \in Handler /\ Sound(conns[c], runtime, config)
      BY DEF IInv
    <2>2. CASE Hit(c)
      <3>1. q(c) \in Handler
        BY <2>1 DEF Handler, Marks
      <3>2. /\ q(c).pc = "lookup" /\ "renewed" \in q(c).marks /\ q(c).run = conns[c].run
            /\ q(c).out = conns[c].out /\ q(c).tunnel = conns[c].tunnel
            /\ q(c).fwd = conns[c].fwd
        BY <2>1, <2>2 DEF Handler
      <3>3. conns'[c] = q(c)
        BY <1>1, <2>2
      <3> HIDE DEF q
      <3>4. conns[c].pc = "lookup"
        BY <2>2
      <3> QED
        BY <1>1, <2>1, <3>1, <3>2, <3>3, <3>4 DEF Sound, Authorised
    <2>3. CASE ~Hit(c)
      <3>1. conns'[c] = conns[c]
        BY <1>1, <2>3
      <3>2. conns[c].pc = "lookup" => cfg[conns[c].fwd] = config[conns[c].fwd]
        BY <2>3
      <3> QED
        BY <1>1, <2>1, <3>1, <3>2 DEF Sound
    <2> QED
      BY <2>2, <2>3
  <1>3. DOMAIN conns' = Conn /\ conns' = [c \in Conn |-> conns'[c]]
    BY <1>1
  <1> QED
    BY <1>1, <1>2, <1>3 DEF IInv

\* A connection to a forward's listener starts with the forward itself.
LEMMA AcceptForwardKeeps ==
  ASSUME IInv, NEW c \in Conn, NEW f \in Forward, AcceptForward(c, f)
  PROVE  IInv'
  <1> DEFINE q == [Free EXCEPT !.pc = "accepted", !.run = runtime,
                               !.tunnel = started[f].tunnel, !.fwd = f,
                               !.rec = started[f], !.in = "open"]
  <1>1. started[f] \in Record /\ started[f].tunnel \in Tunnel
    BY DEF AcceptForward, IInv, Record
  <1>2. runtime \in 0 .. MaxRuntimes
    BY DEF IInv
  <1>3. q \in Handler
    <2>1. Free \in Handler
      BY FreeSound DEF IInv
    <2>2. "accepted" \in Pcs /\ "open" \in Socket
      BY DEF Pcs, Socket
    <2> QED
      BY <1>1, <1>2, <2>1, <2>2 DEF Handler
  <1>4. /\ q.pc = "accepted" /\ q.out = "none" /\ q.run = runtime
        /\ q.rec = started[f] /\ q.tunnel = started[f].tunnel /\ q.net = "tcp"
    BY DEF Free
  <1>5. Sound(q, runtime, config)
    BY <1>1, <1>4 DEF Sound, Authorised, AcceptForward, IInv
  <1>6. Become(c, q)
    BY DEF AcceptForward, Accepted
  <1> HIDE DEF q
  <1> QED
    BY <1>3, <1>5, <1>6, BecomeKeeps

\* One to a stage's listener starts without a forward.
LEMMA AcceptStageKeeps ==
  ASSUME IInv, NEW c \in Conn, NEW t \in Tunnel, AcceptStage(c, t)
  PROVE  IInv'
  <1> DEFINE q == [Free EXCEPT !.pc = "accepted", !.run = runtime, !.tunnel = t,
                               !.fwd = Absent, !.rec = Absent, !.in = "open"]
  <1>1. runtime \in 0 .. MaxRuntimes
    BY DEF IInv
  <1>2. q \in Handler
    <2>1. Free \in Handler
      BY FreeSound DEF IInv
    <2>2. "accepted" \in Pcs /\ "open" \in Socket
      BY DEF Pcs, Socket
    <2> QED
      BY <1>1, <2>1, <2>2 DEF Handler
  <1>3. q.pc = "accepted" /\ q.out = "none" /\ q.run = runtime /\ q.tunnel = t
    BY DEF Free
  <1>4. Sound(q, runtime, config)
    BY <1>3 DEF Sound, AcceptStage, IInv
  <1>5. Become(c, q)
    BY DEF AcceptStage, Accepted
  <1> HIDE DEF q
  <1> QED
    BY <1>2, <1>4, <1>5, BecomeKeeps

\* The handler starts: an entry's has its forward, a stage's reads a hello.
LEMMA TakeSlotKeeps ==
  ASSUME IInv, NEW c \in Conn, TakeSlot(c)
  PROVE  IInv'
  <1> DEFINE r == conns[c]
             pc == IF Role(c) = "entry" THEN "dial" ELSE "hello"
             q == [r EXCEPT !.pc = pc]
  <1>1. r \in Handler /\ Sound(r, runtime, config)
    BY DEF IInv
  <1>2. pc \in {"dial", "hello"} /\ pc \in Pcs
    BY DEF Pcs
  <1>3. q \in Handler
    BY <1>1, <1>2 DEF Handler
  <1>4. /\ q.pc = pc /\ q.run = r.run /\ q.out = r.out /\ q.fwd = r.fwd
        /\ q.rec = r.rec /\ q.tunnel = r.tunnel /\ q.net = r.net /\ q.marks = r.marks
    BY <1>1 DEF Handler
  <1>5. r.pc = "accepted" /\ (pc = "dial" => Stage[r.tunnel].role = "entry")
    BY DEF TakeSlot, Role
  <1>6. Sound(q, runtime, config)
    <2> HIDE DEF q, pc, r
    <2> QED
      BY <1>1, <1>2, <1>4, <1>5 DEF Sound, Authorised
  <1>7. Become(c, q)
    BY DEF TakeSlot
  <1> HIDE DEF q
  <1> QED
    BY <1>3, <1>6, <1>7, BecomeKeeps

\* validateHello looks at the configuration in force.
LEMMA HelloKeeps ==
  ASSUME IInv, NEW c \in Conn, NEW f \in Forward, NEW n \in Network, Hello(c, f, n)
  PROVE  IInv'
  <1> DEFINE r == conns[c]
             q == [r EXCEPT !.pc = "lookup", !.fwd = f, !.net = n]
  <1>1. r \in Handler /\ Sound(r, runtime, config)
    BY DEF IInv
  <1>2. q \in Handler
    BY <1>1 DEF Handler, Pcs
  <1>3. /\ q.pc = "lookup" /\ q.run = r.run /\ q.out = r.out /\ q.fwd = f
        /\ q.tunnel = r.tunnel /\ q.net = n /\ q.marks = r.marks
    BY <1>1 DEF Handler
  <1>4. r.pc = "hello" /\ Valid(c, f, n)
    BY DEF Hello
  <1>5. Sound(q, runtime, config)
    <2> HIDE DEF q
    <2> QED
      BY <1>1, <1>3, <1>4 DEF Sound, Valid
  <1>6. Become(c, q)
    BY DEF Hello
  <1> HIDE DEF q
  <1> QED
    BY <1>2, <1>5, <1>6, BecomeKeeps

\* The second lookup sees the same configuration, or the handler's runtime
\* is no longer in force.
LEMMA FindForwardKeeps ==
  ASSUME IInv, NEW c \in Conn, FindForward(c)
  PROVE  IInv'
  <1> DEFINE r == conns[c]
             pc == IF r.net = "udp" THEN "first" ELSE "dial"
             q == [r EXCEPT !.pc = pc, !.rec = config[r.fwd]]
  <1>1. r \in Handler /\ Sound(r, runtime, config) /\ r.pc = "lookup"
    BY DEF IInv, FindForward
  <1>2. CASE config[r.fwd] = Absent
    <2>1. Return(c, r) /\ r.run \in 0 .. runtime
      BY <1>1, <1>2 DEF FindForward, Sound
    <2> HIDE DEF r
    <2> QED
      BY <1>1, <2>1, ReturnKeeps
  <1>3. CASE config[r.fwd] # Absent
    <2>1. config[r.fwd] \in Record
      BY <1>1, <1>3 DEF IInv, Sound
    <2>2. pc \in {"first", "dial"} /\ pc \in Pcs
      BY DEF Pcs
    <2>3. q \in Handler
      BY <1>1, <2>1, <2>2 DEF Handler
    <2>4. /\ q.pc = pc /\ q.run = r.run /\ q.out = r.out /\ q.fwd = r.fwd
          /\ q.rec = config[r.fwd] /\ q.tunnel = r.tunnel /\ q.net = r.net
          /\ q.marks = r.marks
      BY <1>1 DEF Handler
    <2>5. Sound(q, runtime, config)
      <3> HIDE DEF q, pc
      <3> QED
        BY <1>1, <2>1, <2>2, <2>4 DEF Sound, Authorised
    <2>6. Become(c, q)
      BY <1>3 DEF FindForward
    <2> HIDE DEF q
    <2> QED
      BY <2>3, <2>5, <2>6, BecomeKeeps
  <1> QED
    BY <1>2, <1>3

\* Once it has an outbound connection a handler keeps its record; what it
\* opens is not authorised anew, so it must not open anything.
LEMMA RelayingKeeps ==
  ASSUME IInv, NEW c \in Conn, NEW q \in Handler, Become(c, q),
         q.pc \in {"pipe", "session", "closing", "done"},
         q.run = conns[c].run, q.rec = conns[c].rec,
         q.tunnel = conns[c].tunnel, q.net = conns[c].net,
         "renewed" \in conns[c].marks => "renewed" \in q.marks,
         q.out = "open" => conns[c].out = "open"
  PROVE  IInv'
  <1>1. Sound(conns[c], runtime, config)
    BY DEF IInv
  <1>2. Sound(q, runtime, config)
    BY <1>1 DEF Sound, Authorised
  <1> QED
    BY <1>2, BecomeKeeps

\* The steps that end a handler or free its identity.
LEMMA EndsKeep ==
  ASSUME IInv, NEW c \in Conn,
         \/ Refuse(c) \/ Reap(c) \/ HelloRejected(c) \/ FirstFrameFails(c)
         \/ PipeReturns(c) \/ SessionReturns(c)
  PROVE  IInv'
  <1> DEFINE r == conns[c]
  <1>1. r \in Handler /\ r.run \in 0 .. runtime
    BY DEF IInv, Sound
  <1>2. CASE Refuse(c) \/ Reap(c)
    <2>1. Become(c, Free)
      BY <1>2 DEF Refuse, Reap
    <2>2. Free \in Handler /\ Sound(Free, runtime, config)
      BY FreeSound DEF IInv
    <2> QED
      BY <2>1, <2>2, BecomeKeeps
  <1>3. CASE HelloRejected(c) \/ FirstFrameFails(c) \/ PipeReturns(c)
    <2>1. Return(c, r)
      BY <1>3 DEF HelloRejected, FirstFrameFails, PipeReturns
    <2> HIDE DEF r
    <2> QED
      BY <1>1, <2>1, ReturnKeeps
  <1>4. CASE SessionReturns(c)
    <2> DEFINE q == [r EXCEPT !.marks = @ \cup (IF Blames(r.result, "seen" \in @)
                                                THEN {"blamed"} ELSE {})]
    <2>1. q \in Handler /\ q.run = r.run
      BY <1>1 DEF Handler, Marks
    <2>2. Return(c, q)
      BY <1>4 DEF SessionReturns
    <2> HIDE DEF q, r
    <2> QED
      BY <1>1, <2>1, <2>2, ReturnKeeps
  <1> QED
    BY <1>2, <1>3, <1>4

\* A dial starts under the runtime in force: this is where the second lookup
\* is made good.
LEMMA DialStartKeeps ==
  ASSUME IInv, NEW c \in Conn, DialStart(c)
  PROVE  IInv'
  <1> DEFINE r == conns[c]
             q == [r EXCEPT !.pc = "dialing"]
  <1>1. r \in Handler /\ Sound(r, runtime, config)
    BY DEF IInv
  <1>2. r.pc = "dial" /\ r.run = runtime
    BY DEF DialStart, Cancelled
  <1>3. /\ q.pc = "dialing" /\ q.run = r.run /\ q.out = r.out
        /\ q.rec = r.rec /\ q.tunnel = r.tunnel /\ q.net = r.net /\ q.marks = r.marks
    BY <1>1 DEF Handler
  <1>4. Sound(q, runtime, config)
    <2> HIDE DEF q
    <2> QED
      BY <1>1, <1>2, <1>3 DEF Sound, Authorised
  <1> QED
    BY <1>4, GotoKeeps DEF DialStart, Pcs

\* The first frame of a UDP stream does not touch the record.
LEMMA FirstFrameKeeps ==
  ASSUME IInv, NEW c \in Conn, FirstFrame(c)
  PROVE  IInv'
  <1> DEFINE r == conns[c]
             q == [r EXCEPT !.pc = "dial"]
  <1>1. r \in Handler /\ Sound(r, runtime, config) /\ r.pc = "first"
    BY DEF IInv, FirstFrame
  <1>2. /\ q.pc = "dial" /\ q.run = r.run /\ q.out = r.out
        /\ q.rec = r.rec /\ q.tunnel = r.tunnel /\ q.net = r.net /\ q.marks = r.marks
    BY <1>1 DEF Handler
  <1>3. Sound(q, runtime, config)
    <2> HIDE DEF q
    <2> QED
      BY <1>1, <1>2 DEF Sound, Authorised
  <1> QED
    BY <1>3, GotoKeeps DEF FirstFrame, Pcs

\* Dials that are refused or fail, and first datagrams that cannot be sent.
LEMMA DialFailsKeep ==
  ASSUME IInv, NEW c \in Conn,
         DialRefused(c) \/ DialFails(c) \/ SendFirstFails(c)
  PROVE  IInv'
  <1> DEFINE r == conns[c]
             q(marks) == [r EXCEPT !.marks = @ \cup marks]
  <1>1. r \in Handler /\ Sound(r, runtime, config) /\ r.run \in 0 .. runtime
    BY DEF IInv, Sound
  <1>2. r.run = runtime => Authorised(r)
    BY <1>1 DEF DialRefused, DialFails, SendFirstFails, Cancelled, Sound
  <1>3. PICK marks \in SUBSET Marks : GiveUpOrRetry(c, q(marks))
    <2>1. {} \in SUBSET Marks /\ {"fault", "blamed"} \in SUBSET Marks
            /\ {"givenup", "blamed"} \in SUBSET Marks
      BY DEF Marks
    <2> QED
      BY <2>1 DEF DialRefused, DialFails, DialFailed, SendFirstFails
  <1>4. /\ q(marks) \in Handler /\ q(marks).run = r.run /\ q(marks).tries = r.tries
        /\ q(marks).rec = r.rec /\ q(marks).tunnel = r.tunnel /\ q(marks).net = r.net
        /\ ("renewed" \in r.marks => "renewed" \in q(marks).marks)
    BY <1>1 DEF Handler
  <1> HIDE DEF q
  <1>5. q(marks).run = runtime => Authorised(q(marks))
    BY <1>2, <1>4 DEF Authorised
  <1> QED
    BY <1>1, <1>3, <1>4, <1>5, RetryKeeps

\* The outbound connection is opened for the record of the dial.
LEMMA DialledKeeps ==
  ASSUME IInv, NEW c \in Conn, Dialled(c)
  PROVE  IInv'
  <1> DEFINE r == conns[c]
             pc == IF Udp(c) THEN "send" ELSE "pipe"
             alive == IF Udp(c) THEN {} ELSE Sides
             q == [r EXCEPT !.pc = pc, !.out = "open", !.marks = @ \cap {"renewed"},
                            !.alive = alive]
  <1>1. r \in Handler /\ Sound(r, runtime, config) /\ r.pc = "dialing"
    BY DEF IInv, Dialled
  <1>2. pc \in {"send", "pipe"} /\ pc \in Pcs /\ alive \in SUBSET Sides
    BY DEF Pcs
  <1>3. q \in Handler
    BY <1>1, <1>2 DEF Handler, Socket, Marks
  <1>4. /\ q.pc = pc /\ q.run = r.run
        /\ q.rec = r.rec /\ q.tunnel = r.tunnel /\ q.net = r.net /\ ("renewed" \in r.marks => "renewed" \in q.marks)
    BY <1>1 DEF Handler
  <1>5. Sound(q, runtime, config)
    <2> HIDE DEF q, pc
    <2> QED
      BY <1>1, <1>2, <1>4 DEF Sound, Authorised
  <1>6. Become(c, q)
    BY DEF Dialled
  <1> HIDE DEF q
  <1> QED
    BY <1>3, <1>5, <1>6, BecomeKeeps

\* The steps of a pipe.
LEMMA PipeKeeps ==
  ASSUME IInv, NEW c \in Conn,
         PipeWatch(c) \/ \E side \in Sides : CopyEnds(c, side)
  PROVE  IInv'
  <1> DEFINE r == conns[c]
  <1>1. r \in Handler
    BY DEF IInv
  <1>2. PICK A \in SUBSET Sides :
          /\ r.pc \in {"pipe", "done"}
          /\ Become(c, [r EXCEPT !.alive = A, !.in = Close(@), !.out = Close(@)])
    <2>1. CASE PipeWatch(c)
      <3>1. [r EXCEPT !.in = Close(@), !.out = Close(@)]
              = [r EXCEPT !.alive = r.alive, !.in = Close(@), !.out = Close(@)]
        BY <1>1 DEF Handler
      <3>2. r.alive \in SUBSET Sides
        BY <1>1 DEF Handler
      <3> QED
        BY <2>1, <3>1, <3>2 DEF PipeWatch
    <2>2. ASSUME NEW side \in Sides, CopyEnds(c, side)
          PROVE  /\ r.alive \ {side} \in SUBSET Sides
                 /\ r.pc \in {"pipe", "done"}
                 /\ Become(c, [r EXCEPT !.alive = r.alive \ {side},
                                        !.in = Close(@), !.out = Close(@)])
      BY <1>1, <2>2 DEF CopyEnds, Handler
    <2> QED
      BY <2>1, <2>2
  <1> DEFINE q == [r EXCEPT !.alive = A, !.in = Close(@), !.out = Close(@)]
  <1>3. q \in Handler
    BY ZenonT(60), <1>1 DEF Handler, Socket, Close
  <1>4. /\ q.pc = r.pc /\ q.run = r.run /\ q.out # "open"
        /\ q.rec = r.rec /\ q.tunnel = r.tunnel /\ q.net = r.net /\ q.marks = r.marks
    BY <1>1 DEF Handler, Socket, Close
  <1> HIDE DEF q
  <1> QED
    BY <1>2, <1>3, <1>4, RelayingKeeps DEF q

\* The start of a UDP session and its responses.
LEMMA StreamKeeps ==
  ASSUME IInv, NEW c \in Conn, SendFirst(c) \/ Response(c)
  PROVE  IInv'
  <1> DEFINE r == conns[c]
  <1>1. r \in Handler
    BY DEF IInv
  <1>2. CASE SendFirst(c)
    <2> DEFINE q == [r EXCEPT !.pc = "session", !.alive = Sides]
    <2>1. q \in Handler
      BY <1>1 DEF Handler, Pcs
    <2>2. /\ q.pc = "session" /\ q.run = r.run /\ q.out = r.out
          /\ q.rec = r.rec /\ q.tunnel = r.tunnel /\ q.net = r.net /\ q.marks = r.marks
      BY <1>1 DEF Handler
    <2>3. Become(c, q)
      BY <1>2 DEF SendFirst
    <2> HIDE DEF q
    <2> QED
      BY <2>1, <2>2, <2>3, RelayingKeeps
  <1>3. CASE Response(c)
    <2> DEFINE q == [r EXCEPT !.marks = @ \cup {"seen"}]
    <2>1. q \in Handler
      BY <1>1 DEF Handler, Marks
    <2>2. /\ q.pc = "session" /\ q.run = r.run /\ q.out = r.out
          /\ q.rec = r.rec /\ q.tunnel = r.tunnel /\ q.net = r.net /\ ("renewed" \in r.marks => "renewed" \in q.marks)
      BY <1>1, <1>3 DEF Handler, Response
    <2>3. Become(c, q)
      BY <1>3 DEF Response
    <2> HIDE DEF q
    <2> QED
      BY <2>1, <2>2, <2>3, RelayingKeeps
  <1> QED
    BY <1>2, <1>3

\* A pump that ends.
LEMMA PumpEndsKeeps ==
  ASSUME IInv, NEW c \in Conn, NEW side \in Sides, NEW cause \in Causes,
         PumpEnds(c, side, cause)
  PROVE  IInv'
  <1> DEFINE r == conns[c]
             results == IF r.pc = "session"
                        THEN r.results \cup {[side |-> side, cause |-> cause]} ELSE {}
             marks == r.marks \cup (IF OutboundFault(side, cause) /\ r.out = "open"
                                    THEN {"fault"} ELSE {})
             q == [r EXCEPT !.alive = r.alive \ {side}, !.results = results,
                            !.marks = marks]
  <1>1. r \in Handler
    BY DEF IInv
  <1>2. results \in SUBSET Results /\ marks \in SUBSET Marks
        /\ r.alive \ {side} \in SUBSET Sides
    <2>1. [side |-> side, cause |-> cause] \in Results
      BY DEF Results
    <2> QED
      BY <1>1, <2>1 DEF Handler, Marks
  <1>3. Become(c, q)
    BY DEF PumpEnds
  <1>4. r.pc \in {"session", "closing"}
    BY DEF PumpEnds
  <1> HIDE DEF results, marks
  <1>5. q \in Handler
    BY <1>1, <1>2 DEF Handler
  <1>6. /\ q.pc = r.pc /\ q.run = r.run /\ q.out = r.out
        /\ q.rec = r.rec /\ q.tunnel = r.tunnel /\ q.net = r.net
        /\ ("renewed" \in r.marks => "renewed" \in q.marks)
    BY <1>1 DEF Handler, marks
  <1> HIDE DEF q
  <1> QED
    BY <1>3, <1>4, <1>5, <1>6, RelayingKeeps

\* A session that ends, for whatever reason.
LEMMA SessionEndsKeeps ==
  ASSUME IInv, NEW c \in Conn, NEW result \in Results, SessionEnds(c, result)
  PROVE  IInv'
  <1> DEFINE r == conns[c]
             q == [r EXCEPT !.pc = "closing", !.result = result, !.results = {},
                            !.in = Close(@), !.out = Close(@)]
  <1>1. r \in Handler
    BY DEF IInv
  <1>2. q \in Handler
    <2>1. Close(r.in) \in Socket /\ Close(r.out) \in Socket /\ "closing" \in Pcs
      BY <1>1 DEF Handler, Socket, Close, Pcs
    <2> QED
      BY <1>1, <2>1 DEF Handler
  <1>3. /\ q.pc = "closing" /\ q.run = r.run /\ q.out # "open"
        /\ q.rec = r.rec /\ q.tunnel = r.tunnel /\ q.net = r.net /\ q.marks = r.marks
    BY <1>1 DEF Handler, Socket, Close
  <1>4. Become(c, q)
    BY DEF SessionEnds
  <1> HIDE DEF q
  <1> QED
    BY <1>2, <1>3, <1>4, RelayingKeeps

-----------------------------------------------------------------------------
(* The theorem *)

\* Before anything is accepted no handler is there.
LEMMA InitSound ==
  ASSUME Init
  PROVE  IInv
  <1>1. runtime \in 1 .. MaxRuntimes /\ config \in Configs /\ started \in Configs
    BY DEF Init
  <1>2. Free \in Handler /\ Sound(Free, runtime, config)
    BY <1>1, FreeSound
  <1> QED
    BY <1>1, <1>2 DEF Init, IInv

\* Every step of the relay keeps the invariant.
LEMMA NextKeeps ==
  ASSUME IInv, Next
  PROVE  IInv'
  <1>1. ASSUME NEW cfg \in Configs, Apply(cfg) PROVE IInv'
    BY <1>1, ApplyKeeps
  <1>6. ASSUME NEW cfg \in Configs, Renew(cfg) PROVE IInv'
    BY <1>6, RenewKeeps
  <1>2. ASSUME NEW c \in Conn, Accept(c) PROVE IInv'
    BY <1>2, AcceptForwardKeeps, AcceptStageKeeps DEF Accept
  <1>3. ASSUME NEW c \in Conn, Handle(c) PROVE IInv'
    <2>1. CASE Refuse(c) \/ Reap(c) \/ HelloRejected(c) \/ FirstFrameFails(c)
                 \/ PipeReturns(c) \/ SessionReturns(c)
      BY <2>1, EndsKeep
    <2>2. CASE TakeSlot(c)
      BY <2>2, TakeSlotKeeps
    <2>3. CASE FindForward(c)
      BY <2>3, FindForwardKeeps
    <2>4. CASE DialStart(c)
      BY <2>4, DialStartKeeps
    <2>5. CASE DialRefused(c) \/ DialFails(c) \/ SendFirstFails(c)
      BY <2>5, DialFailsKeep
    <2>6. CASE Dialled(c)
      BY <2>6, DialledKeeps
    <2>7. CASE PipeWatch(c)
      BY <2>7, PipeKeeps
    <2>8. CASE SendFirst(c)
      BY <2>8, StreamKeeps
    <2>9. CASE \E r \in Results : r.cause # "idle" /\ SessionEnds(c, r)
      BY <2>9, SessionEndsKeeps
    <2> QED
      BY <1>3, <2>1, <2>2, <2>3, <2>4, <2>5, <2>6, <2>7, <2>8, <2>9 DEF Handle
  <1>4. ASSUME NEW c \in Conn, Idle(c) PROVE IInv'
    <2>1. [side |-> "none", cause |-> "idle"] \in Results
      BY DEF Results
    <2> QED
      BY <1>4, <2>1, SessionEndsKeeps DEF Idle
  <1>5. ASSUME NEW c \in Conn, Peer(c) PROVE IInv'
    BY <1>5, HelloKeeps, FirstFrameKeeps, StreamKeeps, PipeKeeps, PumpEndsKeeps
       DEF Peer
  <1> QED
    BY <1>1, <1>2, <1>3, <1>4, <1>5, <1>6 DEF Next

\* Every reachable state satisfies the inductive invariant of the lookups.
THEOREM Invariance == Spec => []IInv
  <1>1. Init => IInv
    BY InitSound
  <1>2. IInv /\ [Next]_vars => IInv'
    <2>1. CASE Next
      BY <2>1, NextKeeps
    <2>2. CASE UNCHANGED vars
      BY <2>2 DEF IInv, vars
    <2> QED
      BY <2>1, <2>2
  <1> QED
    BY <1>1, <1>2, PTL DEF Spec

\* AuthorisedDial for every instance: whatever configuration of another
\* revision Apply stores between validateHello and the second findForward, and
\* whatever renewals come before or after, an outbound connection is open only
\* for a forward of the handler's tunnel and for a protocol it has, unless a
\* renewal with another entry came just between the two lookups.
THEOREM DialsAreAuthorised == Spec => []AuthorisedDial
  <1>1. IInv => AuthorisedDial
    BY DEF IInv, Sound, Authorised, AuthorisedDial
  <1> QED
    BY <1>1, Invariance, PTL

-----------------------------------------------------------------------------
(* Slots, sockets and blame *)

\* The handler has a slot.
Holding(r) == r.pc \notin {"idle", "accepted", "done"}

\* What is recorded of a candidate is its own fault, or that of a dial that
\* was given up.
Explained(r) ==
  "blamed" \in r.marks => "fault" \in r.marks \/ "givenup" \in r.marks

\* BlameIsDeserved of one handler.
Deserved(r) ==
  "blamed" \in r.marks =>
    \/ "fault" \in r.marks
    \/ "givenup" \in r.marks /\ r.pc \in {"dial", "dialing", "done"}

\* A handler that is not there or has returned has no open connection; from the
\* first datagram on a session has its outbound connection; and what a result
\* says of the outbound connection is true of it, as is what was recorded.
Tidy(r) ==
  /\ r.pc \in {"idle", "done"} => r.in # "open" /\ r.out # "open"
  /\ r.pc \in {"send", "session"} => r.out = "open"
  /\ r.pc # "session" => r.results = {}
  /\ Deserved(r)
  /\ \A x \in r.results : OutboundFault(x.side, x.cause) => "fault" \in r.marks
  /\ r.pc = "closing" /\ OutboundFault(r.result.side, r.result.cause) => "fault" \in r.marks

\* The inductive invariant of the slots, beside IInv.
SlotInv ==
  /\ IsFiniteSet(Holders) /\ slots = Cardinality(Holders) /\ slots <= MaxSlots
  /\ \A c \in Conn : Tidy(conns[c])

\* A handler goes on with tidy fields, and takes or gives back its slot when it
\* starts or returns.
LEMMA SlotMoves ==
  ASSUME IInv, SlotInv, NEW c \in Conn, NEW q \in Handler, Tidy(q), Become(c, q),
         \/ (Holding(q) <=> Holding(conns[c])) /\ slots' = slots
         \/ Holding(q) /\ ~Holding(conns[c]) /\ slots < MaxSlots /\ slots' = slots + 1
         \/ ~Holding(q) /\ Holding(conns[c]) /\ slots' = slots - 1
  PROVE  SlotInv'
  <1>1. conns \in [Conn -> Handler] /\ conns' = [conns EXCEPT ![c] = q]
    BY DEF IInv, Become
  <1>2. \A d \in Conn : conns'[d] = IF d = c THEN q ELSE conns[d]
    BY <1>1
  <1>3. \A d \in Conn : Tidy(conns'[d])
    BY <1>2 DEF SlotInv
  <1>4. /\ Holders = {d \in Conn : Holding(conns[d])} /\ Holders' = {d \in Conn : Holding(conns'[d])}
    BY DEF Holders, Holding
  <1>5. /\ IsFiniteSet(Holders) /\ slots = Cardinality(Holders) /\ slots <= MaxSlots
        /\ slots \in Nat /\ MaxSlots \in Nat
    BY FS_CardinalityType DEF SlotInv
  <1>6. IsFiniteSet(Holders') /\ slots' = Cardinality(Holders') /\ slots' <= MaxSlots
    <2>1. CASE (Holding(q) <=> Holding(conns[c])) /\ slots' = slots
      <3>1. Holders' = Holders
        BY <1>2, <1>4, <2>1
      <3> QED
        BY <1>5, <2>1, <3>1
    <2>2. CASE Holding(q) /\ ~Holding(conns[c]) /\ slots < MaxSlots /\ slots' = slots + 1
      <3>1. Holders' = Holders \cup {c} /\ c \notin Holders
        BY <1>2, <1>4, <2>2
      <3>2. /\ IsFiniteSet(Holders \cup {c})
            /\ Cardinality(Holders \cup {c}) = Cardinality(Holders) + 1
        BY <1>5, <3>1, FS_AddElement
      <3> QED
        BY <1>5, <2>2, <3>1, <3>2
    <2>3. CASE ~Holding(q) /\ Holding(conns[c]) /\ slots' = slots - 1
      <3>1. Holders' = Holders \ {c} /\ c \in Holders
        BY <1>2, <1>4, <2>3
      <3>2. /\ IsFiniteSet(Holders \ {c})
            /\ Cardinality(Holders \ {c}) = Cardinality(Holders) - 1
        BY <1>5, <3>1, FS_RemoveElement
      <3> QED
        BY <1>5, <2>3, <3>1, <3>2
    <2> QED
      BY <2>1, <2>2, <2>3
  <1> QED
    BY <1>3, <1>6 DEF SlotInv

\* A handler that returns gives its slot back, and has closed what it had open.
LEMMA ReturnTidies ==
  ASSUME IInv, SlotInv, NEW c \in Conn, NEW r \in Handler, Holding(conns[c]),
         Explained(r), Return(c, r)
  PROVE  SlotInv'
  <1> DEFINE q == [Free EXCEPT !.pc = "done", !.run = r.run, !.alive = r.alive,
                               !.marks = r.marks \ {"seen", "renewed"},
                               !.in = Close(r.in),
                               !.out = Close(r.out)]
  <1>1. q \in Handler
    <2>1. Free \in Handler
      BY FreeSound DEF IInv
    <2>2. Close(r.in) \in Socket /\ Close(r.out) \in Socket
      BY DEF Handler, Socket, Close
    <2>3. "done" \in Pcs
      BY DEF Pcs
    <2>4. /\ r.run \in 0 .. MaxRuntimes /\ r.alive \in SUBSET Sides
          /\ r.marks \ {"seen", "renewed"} \in SUBSET Marks
      BY DEF Handler
    <2> QED
      BY <2>1, <2>2, <2>3, <2>4 DEF Handler
  <1>2. /\ q.pc = "done" /\ q.in # "open" /\ q.out # "open" /\ q.results = {}
        /\ q.marks = r.marks \ {"seen", "renewed"}
    BY DEF Free, Handler, Socket, Close
  <1>3. Become(c, q) /\ slots' = slots - 1
    BY DEF Return
  <1> HIDE DEF q
  <1>4. Tidy(q) /\ ~Holding(q)
    BY <1>2 DEF Tidy, Holding, Deserved, Explained
  <1> QED
    BY <1>1, <1>3, <1>4, SlotMoves

\* A handler on its way to its outbound connection.
LEMMA OnItsWay ==
  ASSUME IInv, SlotInv, NEW c \in Conn, NEW q \in Handler, Become(c, q),
         q.pc \in {"accepted", "hello", "lookup", "first", "dial", "dialing", "pipe"},
         q.results = {}, Deserved(q),
         \/ (Holding(q) <=> Holding(conns[c])) /\ slots' = slots
         \/ Holding(q) /\ ~Holding(conns[c]) /\ slots < MaxSlots /\ slots' = slots + 1
  PROVE  SlotInv'
  <1>1. Tidy(q)
    BY DEF Tidy
  <1> QED
    BY <1>1, SlotMoves

\* Accepting: a connection without a slot.
LEMMA AcceptTidy ==
  ASSUME IInv, SlotInv, NEW c \in Conn, Accept(c)
  PROVE  SlotInv'
  <1>1. conns[c].pc = "idle" /\ slots' = slots
    BY DEF Accept, AcceptForward, AcceptStage, Accepted
  <1>2. PICK t \in Tunnel, f \in Forward \cup {Absent}, r \in Record \cup {Absent} :
          Become(c, [Free EXCEPT !.pc = "accepted", !.run = runtime, !.tunnel = t,
                                 !.fwd = f, !.rec = r, !.in = "open"])
    <2>1. CASE \E f \in Forward : AcceptForward(c, f)
      <3>1. PICK f \in Forward : AcceptForward(c, f)
        BY <2>1
      <3>2. started[f] \in Record /\ started[f].tunnel \in Tunnel
        BY <3>1 DEF AcceptForward, IInv, Record
      <3>3. Become(c, [Free EXCEPT !.pc = "accepted", !.run = runtime,
                                   !.tunnel = started[f].tunnel,
                                   !.fwd = f, !.rec = started[f], !.in = "open"])
        BY <3>1 DEF AcceptForward, Accepted
      <3> QED
        BY <3>2, <3>3
    <2>2. CASE \E t \in Tunnel : AcceptStage(c, t)
      <3>1. PICK t \in Tunnel : AcceptStage(c, t)
        BY <2>2
      <3>2. Become(c, [Free EXCEPT !.pc = "accepted", !.run = runtime, !.tunnel = t,
                                   !.fwd = Absent, !.rec = Absent, !.in = "open"])
        BY <3>1 DEF AcceptStage, Accepted
      <3> QED
        BY <3>2
    <2> QED
      BY <2>1, <2>2 DEF Accept
  <1> DEFINE q == [Free EXCEPT !.pc = "accepted", !.run = runtime, !.tunnel = t,
                               !.fwd = f, !.rec = r, !.in = "open"]
  <1>3. q \in Handler
    <2>1. Free \in Handler
      BY FreeSound DEF IInv
    <2>2. "accepted" \in Pcs /\ "open" \in Socket /\ runtime \in 0 .. MaxRuntimes
      BY DEF Pcs, Socket, IInv
    <2> QED
      BY <2>1, <2>2 DEF Handler
  <1>4. q.pc = "accepted" /\ q.results = {} /\ Deserved(q)
    BY DEF Free, Deserved
  <1>5. Become(c, q)
    BY <1>2
  <1> HIDE DEF q
  <1>6. ~Holding(q) /\ ~Holding(conns[c])
    BY <1>1, <1>4 DEF Holding
  <1> QED
    BY <1>1, <1>3, <1>4, <1>5, <1>6, OnItsWay

\* Up to the dial: the slot is taken once, and kept.
LEMMA ApproachTidy ==
  ASSUME IInv, SlotInv, NEW c \in Conn,
         \/ TakeSlot(c) \/ FirstFrame(c) \/ DialStart(c)
         \/ \E f \in Forward, n \in Network : Hello(c, f, n)
  PROVE  SlotInv'
  <1> DEFINE r == conns[c]
  <1>1. r \in Handler /\ Tidy(r)
    BY DEF IInv, SlotInv
  <1>2. CASE TakeSlot(c)
    <2> DEFINE pc == IF Role(c) = "entry" THEN "dial" ELSE "hello"
               q == [r EXCEPT !.pc = pc]
    <2>1. pc \in {"dial", "hello"} /\ pc \in Pcs
      BY DEF Pcs
    <2>2. Become(c, q) /\ r.pc = "accepted" /\ slots < MaxSlots /\ slots' = slots + 1
      BY <1>2 DEF TakeSlot
    <2> HIDE DEF pc
    <2>3. q \in Handler /\ q.pc = pc /\ q.results = r.results /\ q.marks = r.marks
      BY <1>1, <2>1 DEF Handler
    <2> HIDE DEF q
    <2>4. /\ q.pc \in {"accepted", "hello", "lookup", "first", "dial", "dialing", "pipe"}
          /\ q.results = {} /\ Deserved(q)
      BY <1>1, <2>1, <2>2, <2>3 DEF Tidy, Deserved
    <2>5. Holding(q) /\ ~Holding(r)
      BY <2>1, <2>2, <2>3 DEF Holding
    <2> QED
      BY <2>2, <2>3, <2>4, <2>5, OnItsWay
  <1>3. ASSUME NEW pc \in {"dial", "dialing"}, r.pc \in {"first", "dial"}, Goto(c, pc)
        PROVE  SlotInv'
    <2> DEFINE q == [r EXCEPT !.pc = pc]
    <2>1. pc \in Pcs
      BY <1>3 DEF Pcs
    <2>2. q \in Handler /\ q.pc = pc /\ q.results = r.results /\ q.marks = r.marks
      BY <1>1, <2>1 DEF Handler
    <2>3. Become(c, q) /\ slots' = slots
      BY <1>3 DEF Goto
    <2> HIDE DEF q
    <2>4. /\ q.pc \in {"accepted", "hello", "lookup", "first", "dial", "dialing", "pipe"}
          /\ q.results = {} /\ Deserved(q)
      BY <1>1, <1>3, <2>2 DEF Tidy, Deserved
    <2>5. Holding(q) /\ Holding(r)
      BY <1>3, <2>2 DEF Holding
    <2> QED
      BY <2>2, <2>3, <2>4, <2>5, OnItsWay
  <1>4. ASSUME NEW f \in Forward, NEW n \in Network, Hello(c, f, n)
        PROVE  SlotInv'
    <2> DEFINE q == [r EXCEPT !.pc = "lookup", !.fwd = f, !.net = n]
    <2>1. q \in Handler /\ q.pc = "lookup" /\ q.results = r.results /\ q.marks = r.marks
      BY <1>1 DEF Handler, Pcs
    <2>2. Become(c, q) /\ slots' = slots /\ r.pc = "hello"
      BY <1>4 DEF Hello
    <2> HIDE DEF q
    <2>3. q.results = {} /\ Deserved(q)
      BY <1>1, <2>1, <2>2 DEF Tidy, Deserved
    <2>4. Holding(q) /\ Holding(r)
      BY <2>1, <2>2 DEF Holding
    <2> QED
      BY <2>1, <2>2, <2>3, <2>4, OnItsWay
  <1> QED
    BY <1>2, <1>3, <1>4 DEF FirstFrame, DialStart

\* The second lookup.
LEMMA FindForwardTidy ==
  ASSUME IInv, SlotInv, NEW c \in Conn, FindForward(c)
  PROVE  SlotInv'
  <1> DEFINE r == conns[c]
             pc == IF r.net = "udp" THEN "first" ELSE "dial"
             q == [r EXCEPT !.pc = pc, !.rec = config[r.fwd]]
  <1>1. r \in Handler /\ Tidy(r) /\ r.pc = "lookup" /\ Sound(r, runtime, config) /\ Holding(r)
    BY DEF IInv, SlotInv, FindForward, Holding
  <1>2. CASE config[r.fwd] = Absent
    <2>1. Return(c, r) /\ Explained(r)
      BY <1>1, <1>2 DEF FindForward, Tidy, Deserved, Explained
    <2> HIDE DEF r
    <2> QED
      BY <1>1, <2>1, ReturnTidies DEF r
  <1>3. CASE config[r.fwd] # Absent
    <2>1. config[r.fwd] \in Record
      BY <1>1, <1>3 DEF IInv, Sound
    <2>2. pc \in {"first", "dial"} /\ pc \in Pcs
      BY DEF Pcs
    <2>3. Become(c, q) /\ slots' = slots
      BY <1>3 DEF FindForward
    <2> HIDE DEF pc
    <2>4. q \in Handler /\ q.pc = pc /\ q.results = r.results /\ q.marks = r.marks
      BY <1>1, <2>1, <2>2 DEF Handler
    <2> HIDE DEF q
    <2>5. /\ q.pc \in {"accepted", "hello", "lookup", "first", "dial", "dialing", "pipe"}
          /\ q.results = {} /\ Deserved(q) /\ Holding(q)
      BY <1>1, <2>2, <2>4 DEF Tidy, Holding, Deserved
    <2> QED
      BY <1>1, <2>3, <2>4, <2>5, OnItsWay
  <1> QED
    BY <1>2, <1>3

\* A dial or a first datagram that failed: another attempt, or the end.
LEMMA RetryTidies ==
  ASSUME IInv, SlotInv, NEW c \in Conn, NEW r \in Handler, Holding(conns[c]),
         Explained(r), r.results = {},
         r.tries = conns[c].tries, GiveUpOrRetry(c, r)
  PROVE  SlotInv'
  <1>1. CASE MayRetry(c)
    <2> DEFINE q == [r EXCEPT !.pc = "dial", !.out = Close(@), !.tries = @ + 1]
    <2>1. r.tries + 1 \in 0 .. Attempts
      BY <1>1 DEF MayRetry, Handler
    <2>2. q \in Handler /\ q.pc = "dial" /\ q.results = r.results /\ q.marks = r.marks
      BY ZenonT(60), <2>1 DEF Handler, Pcs, Socket, Close
    <2>3. Become(c, q) /\ slots' = slots
      BY <1>1 DEF GiveUpOrRetry
    <2> HIDE DEF q
    <2>4. Holding(q) /\ Deserved(q)
      BY <2>2 DEF Holding, Deserved, Explained
    <2> QED
      BY <2>2, <2>3, <2>4, OnItsWay
  <1>2. CASE ~MayRetry(c)
    BY <1>2, ReturnTidies DEF GiveUpOrRetry
  <1> QED
    BY <1>1, <1>2

LEMMA DialFailsTidy ==
  ASSUME IInv, SlotInv, NEW c \in Conn,
         DialRefused(c) \/ DialFails(c) \/ SendFirstFails(c)
  PROVE  SlotInv'
  <1> DEFINE r == conns[c]
             q(marks) == [r EXCEPT !.marks = @ \cup marks]
             Outcomes == {{}, {"fault", "blamed"}, {"givenup", "blamed"}}
  <1>1. r \in Handler /\ Tidy(r)
    BY DEF IInv, SlotInv
  <1>2. r.pc \in {"dial", "dialing", "send"} /\ Holding(r)
    BY DEF DialRefused, DialFails, SendFirstFails, Holding
  <1>3. r.results = {} /\ Explained(r)
    BY <1>1, <1>2 DEF Tidy, Deserved, Explained
  <1>4. PICK marks \in Outcomes : GiveUpOrRetry(c, q(marks))
    BY DEF DialRefused, DialFails, DialFailed, SendFirstFails
  <1>5. /\ q(marks) \in Handler /\ q(marks).tries = r.tries
        /\ q(marks).results = r.results /\ q(marks).marks = r.marks \cup marks
    BY <1>1 DEF Handler, Marks
  <1> HIDE DEF q
  <1>6. Explained(q(marks))
    BY <1>3, <1>5 DEF Explained
  <1> QED
    BY <1>2, <1>3, <1>4, <1>5, <1>6, RetryTidies

LEMMA DialledTidy ==
  ASSUME IInv, SlotInv, NEW c \in Conn, Dialled(c)
  PROVE  SlotInv'
  <1> DEFINE r == conns[c]
             pc == IF Udp(c) THEN "send" ELSE "pipe"
             alive == IF Udp(c) THEN {} ELSE Sides
             q == [r EXCEPT !.pc = pc, !.out = "open", !.marks = @ \cap {"renewed"},
                            !.alive = alive]
  <1>1. r \in Handler /\ Tidy(r) /\ r.pc = "dialing" /\ Holding(r)
    BY DEF IInv, SlotInv, Dialled, Holding
  <1>2. pc \in {"send", "pipe"} /\ pc \in Pcs /\ alive \in SUBSET Sides
    BY DEF Pcs
  <1>3. Become(c, q) /\ slots' = slots
    BY DEF Dialled
  <1> HIDE DEF pc, alive
  <1>4. /\ q \in Handler /\ q.pc = pc /\ q.out = "open" /\ q.results = r.results
        /\ q.marks = r.marks \cap {"renewed"}
    BY <1>1, <1>2 DEF Handler, Socket, Marks
  <1> HIDE DEF q
  <1>5. Tidy(q) /\ Holding(q)
    BY <1>1, <1>2, <1>4 DEF Tidy, Holding, Deserved
  <1> QED
    BY <1>1, <1>3, <1>4, <1>5, SlotMoves

\* A pipe that is closed or whose copy ends, also after its handler returned.
LEMMA PipeTidy ==
  ASSUME IInv, SlotInv, NEW c \in Conn,
         PipeWatch(c) \/ \E side \in Sides : CopyEnds(c, side)
  PROVE  SlotInv'
  <1> DEFINE r == conns[c]
  <1>1. r \in Handler /\ Tidy(r)
    BY DEF IInv, SlotInv
  <1>2. PICK A \in SUBSET Sides :
          /\ r.pc \in {"pipe", "done"} /\ slots' = slots
          /\ Become(c, [r EXCEPT !.alive = A, !.in = Close(@), !.out = Close(@)])
    <2>1. CASE PipeWatch(c)
      <3>1. [r EXCEPT !.in = Close(@), !.out = Close(@)]
              = [r EXCEPT !.alive = r.alive, !.in = Close(@), !.out = Close(@)]
        BY <1>1 DEF Handler
      <3>2. r.alive \in SUBSET Sides
        BY <1>1 DEF Handler
      <3> QED
        BY <2>1, <3>1, <3>2 DEF PipeWatch
    <2>2. ASSUME NEW side \in Sides, CopyEnds(c, side)
          PROVE  /\ r.alive \ {side} \in SUBSET Sides
                 /\ r.pc \in {"pipe", "done"} /\ slots' = slots
                 /\ Become(c, [r EXCEPT !.alive = r.alive \ {side},
                                        !.in = Close(@), !.out = Close(@)])
      BY <1>1, <2>2 DEF CopyEnds, Handler
    <2> QED
      BY <2>1, <2>2
  <1> DEFINE q == [r EXCEPT !.alive = A, !.in = Close(@), !.out = Close(@)]
  <1>3. q \in Handler
    BY ZenonT(60), <1>1 DEF Handler, Socket, Close
  <1>4. /\ q.pc = r.pc /\ q.in # "open" /\ q.out # "open" /\ q.results = r.results
        /\ q.marks = r.marks
    BY <1>1 DEF Handler, Socket, Close
  <1>5. Become(c, q) /\ slots' = slots
    BY <1>2
  <1> HIDE DEF q
  <1>6. Tidy(q) /\ (Holding(q) <=> Holding(r))
    BY <1>1, <1>2, <1>4 DEF Tidy, Holding, Deserved
  <1> QED
    BY <1>3, <1>5, <1>6, SlotMoves

\* What the kept result says decides, and it is true of the connection.
LEMMA EndsTidy ==
  ASSUME IInv, SlotInv, NEW c \in Conn,
         \/ Refuse(c) \/ Reap(c) \/ HelloRejected(c) \/ FirstFrameFails(c)
         \/ PipeReturns(c) \/ SessionReturns(c)
  PROVE  SlotInv'
  <1> DEFINE r == conns[c]
  <1>1. r \in Handler /\ Tidy(r)
    BY DEF IInv, SlotInv
  <1>2. CASE Refuse(c) \/ Reap(c)
    <2>1. Become(c, Free) /\ r.pc \in {"accepted", "done"} /\ slots' = slots
      BY <1>2 DEF Refuse, Reap
    <2>2. Free \in Handler
      BY FreeSound DEF IInv
    <2>3. Tidy(Free) /\ ~Holding(Free) /\ ~Holding(r)
      BY <2>1 DEF Tidy, Holding, Free, Deserved
    <2> QED
      BY <2>1, <2>2, <2>3, SlotMoves
  <1>3. CASE HelloRejected(c) \/ FirstFrameFails(c) \/ PipeReturns(c)
    <2>1. Return(c, r) /\ Holding(r) /\ Explained(r)
      BY <1>1, <1>3 DEF HelloRejected, FirstFrameFails, PipeReturns, Holding, Tidy,
                        Deserved, Explained
    <2> QED
      BY <1>1, <2>1, ReturnTidies
  <1>4. CASE SessionReturns(c)
    <2> DEFINE q == [r EXCEPT !.marks = @ \cup (IF Blames(r.result, "seen" \in @)
                                                THEN {"blamed"} ELSE {})]
    <2>1. /\ q \in Handler
          /\ q.marks = r.marks \cup (IF Blames(r.result, "seen" \in r.marks)
                                     THEN {"blamed"} ELSE {})
      BY <1>1 DEF Handler, Marks
    <2>2. Return(c, q) /\ r.pc = "closing" /\ Holding(r)
      BY <1>4 DEF SessionReturns, Holding
    <2>3. Blames(r.result, "seen" \in r.marks) => OutboundFault(r.result.side, r.result.cause)
      <3>1. r.result \in Results
        BY <1>1 DEF Handler
      <3> QED
        BY <3>1 DEF Blames, OutboundFault, Results, Sides, Causes
    <2> HIDE DEF q
    <2>4. Explained(q)
      BY <1>1, <2>1, <2>2, <2>3 DEF Tidy, Deserved, Explained
    <2> QED
      BY <2>1, <2>2, <2>4, ReturnTidies
  <1> QED
    BY <1>2, <1>3, <1>4

\* A UDP session starts, passes a response on, or loses a pump.
LEMMA SessionTidy ==
  ASSUME IInv, SlotInv, NEW c \in Conn,
         \/ SendFirst(c) \/ Response(c)
         \/ \E side \in Sides, cause \in Causes : PumpEnds(c, side, cause)
  PROVE  SlotInv'
  <1> DEFINE r == conns[c]
  <1>1. r \in Handler /\ Tidy(r)
    BY DEF IInv, SlotInv
  <1>2. CASE SendFirst(c)
    <2> DEFINE q == [r EXCEPT !.pc = "session", !.alive = Sides]
    <2>1. /\ q \in Handler /\ q.pc = "session" /\ q.out = r.out
          /\ q.results = r.results /\ q.marks = r.marks
      BY <1>1 DEF Handler, Pcs
    <2>2. Become(c, q) /\ slots' = slots /\ r.pc = "send"
      BY <1>2 DEF SendFirst
    <2> HIDE DEF q
    <2>3. Tidy(q) /\ Holding(q) /\ Holding(r)
      BY <1>1, <2>1, <2>2 DEF Tidy, Holding, Deserved
    <2> QED
      BY <2>1, <2>2, <2>3, SlotMoves
  <1>3. CASE Response(c)
    <2> DEFINE q == [r EXCEPT !.marks = @ \cup {"seen"}]
    <2>1. /\ q \in Handler /\ q.pc = r.pc /\ q.out = r.out
          /\ q.results = r.results /\ q.marks = r.marks \cup {"seen"}
      BY <1>1 DEF Handler, Marks
    <2>2. Become(c, q) /\ slots' = slots /\ r.pc = "session"
      BY <1>3 DEF Response
    <2> HIDE DEF q
    <2>3. Tidy(q) /\ Holding(q) /\ Holding(r)
      BY <1>1, <2>1, <2>2 DEF Tidy, Holding, Deserved
    <2> QED
      BY <2>1, <2>2, <2>3, SlotMoves
  <1>4. ASSUME NEW side \in Sides, NEW cause \in Causes, PumpEnds(c, side, cause)
        PROVE  SlotInv'
    <2> DEFINE x == [side |-> side, cause |-> cause]
               results == IF r.pc = "session" THEN r.results \cup {x} ELSE {}
               marks == r.marks \cup (IF OutboundFault(side, cause) /\ r.out = "open"
                                      THEN {"fault"} ELSE {})
               q == [r EXCEPT !.alive = r.alive \ {side}, !.results = results,
                              !.marks = marks]
    <2>1. x \in Results /\ x.side = side /\ x.cause = cause
      BY DEF Results
    <2>2. Become(c, q) /\ slots' = slots /\ r.pc \in {"session", "closing"}
      BY <1>4 DEF PumpEnds
    <2> HIDE DEF x
    <2>3. results \in SUBSET Results /\ marks \in SUBSET Marks
          /\ r.alive \ {side} \in SUBSET Sides
      BY <1>1, <2>1 DEF Handler, Marks
    <2>4. /\ r.marks \subseteq marks /\ marks \subseteq r.marks \cup {"fault"}
          /\ \A y \in results : OutboundFault(y.side, y.cause) => "fault" \in marks
          /\ r.pc # "session" => results = {}
      BY <1>1, <2>1, <2>2 DEF Tidy
    <2> HIDE DEF results, marks
    <2>5. /\ q \in Handler /\ q.pc = r.pc /\ q.out = r.out /\ q.result = r.result
          /\ q.results = results /\ q.marks = marks
      BY <1>1, <2>3 DEF Handler
    <2> HIDE DEF q
    <2>6. Tidy(q) /\ Holding(q) /\ Holding(r)
      BY <1>1, <2>2, <2>4, <2>5 DEF Tidy, Holding, Deserved
    <2> QED
      BY <2>2, <2>5, <2>6, SlotMoves
  <1> QED
    BY <1>2, <1>3, <1>4

\* The session ends with one of the results it has, or for a reason of its own.
LEMMA SessionEndsTidy ==
  ASSUME IInv, SlotInv, NEW c \in Conn, NEW result \in Results, SessionEnds(c, result)
  PROVE  SlotInv'
  <1> DEFINE r == conns[c]
             q == [r EXCEPT !.pc = "closing", !.result = result, !.results = {},
                            !.in = Close(@), !.out = Close(@)]
  <1>1. r \in Handler /\ Tidy(r)
    BY DEF IInv, SlotInv
  <1>2. q \in Handler
    <2>1. Close(r.in) \in Socket /\ Close(r.out) \in Socket /\ "closing" \in Pcs
      BY <1>1 DEF Handler, Socket, Close, Pcs
    <2> QED
      BY <1>1, <2>1 DEF Handler
  <1>3. q.pc = "closing" /\ q.result = result /\ q.results = {} /\ q.marks = r.marks
    BY <1>1 DEF Handler
  <1>4. Become(c, q) /\ slots' = slots /\ r.pc = "session" /\ result \in Ready(c)
    BY DEF SessionEnds
  <1>5. OutboundFault(result.side, result.cause) => "fault" \in r.marks
    <2>1. result \in r.results \/ result.side = "none"
      BY <1>4 DEF Ready
    <2> QED
      BY <1>1, <2>1 DEF Tidy, OutboundFault
  <1> HIDE DEF q
  <1>6. Tidy(q) /\ Holding(q) /\ Holding(r)
    BY <1>1, <1>3, <1>4, <1>5 DEF Tidy, Holding, Deserved
  <1> QED
    BY <1>2, <1>4, <1>6, SlotMoves

\* A renewal moves no handler and leaves no other mark than its own.
LEMMA RenewTidy ==
  ASSUME IInv, SlotInv, NEW cfg \in Configs, Renew(cfg)
  PROVE  SlotInv'
  <1>1. ASSUME NEW c \in Conn
        PROVE  conns'[c].pc = conns[c].pc /\ Tidy(conns'[c])
    <2> DEFINE q == [conns[c] EXCEPT !.marks = @ \cup {"renewed"}]
    <2>1. conns[c] \in Handler /\ Tidy(conns[c])
      BY DEF IInv, SlotInv
    <2>2. conns'[c] = conns[c] \/ conns'[c] = q
      BY DEF Renew
    <2>3. /\ q.pc = conns[c].pc /\ q.in = conns[c].in /\ q.out = conns[c].out
          /\ q.results = conns[c].results /\ q.result = conns[c].result
          /\ q.marks = conns[c].marks \cup {"renewed"}
      BY <2>1 DEF Handler
    <2> HIDE DEF q
    <2> QED
      BY <2>1, <2>2, <2>3 DEF Tidy, Deserved
  <1>2. Holders' = Holders /\ slots' = slots
    BY <1>1 DEF Holders, Renew
  <1> QED
    BY <1>1, <1>2 DEF SlotInv

LEMMA NextTidy ==
  ASSUME IInv, SlotInv, Next
  PROVE  SlotInv'
  <1>1. ASSUME NEW cfg \in Configs, Apply(cfg) PROVE SlotInv'
    BY <1>1 DEF Apply, SlotInv, Holders
  <1>5. ASSUME NEW cfg \in Configs, Renew(cfg) PROVE SlotInv'
    BY <1>5, RenewTidy
  <1>2. ASSUME NEW c \in Conn, Handle(c) PROVE SlotInv'
    <2>1. CASE Refuse(c) \/ Reap(c) \/ HelloRejected(c) \/ FirstFrameFails(c)
                 \/ PipeReturns(c) \/ SessionReturns(c)
      BY <2>1, EndsTidy
    <2>2. CASE TakeSlot(c) \/ DialStart(c)
      BY <2>2, ApproachTidy
    <2>3. CASE FindForward(c)
      BY <2>3, FindForwardTidy
    <2>4. CASE DialRefused(c) \/ DialFails(c) \/ SendFirstFails(c)
      BY <2>4, DialFailsTidy
    <2>5. CASE Dialled(c)
      BY <2>5, DialledTidy
    <2>6. CASE PipeWatch(c)
      BY <2>6, PipeTidy
    <2>7. CASE SendFirst(c)
      BY <2>7, SessionTidy
    <2>8. CASE \E r \in Results : r.cause # "idle" /\ SessionEnds(c, r)
      BY <2>8, SessionEndsTidy
    <2> QED
      BY <1>2, <2>1, <2>2, <2>3, <2>4, <2>5, <2>6, <2>7, <2>8 DEF Handle
  <1>3. ASSUME NEW c \in Conn, Idle(c) PROVE SlotInv'
    <2>1. [side |-> "none", cause |-> "idle"] \in Results
      BY DEF Results
    <2> QED
      BY <1>3, <2>1, SessionEndsTidy DEF Idle
  <1>4. ASSUME NEW c \in Conn, Peer(c) PROVE SlotInv'
    BY <1>4, ApproachTidy, SessionTidy, PipeTidy DEF Peer
  <1> QED
    BY <1>1, <1>2, <1>3, <1>4, <1>5, AcceptTidy DEF Next

\* Every reachable state satisfies the invariant of the slots.
THEOREM SlotInvariance == Spec => []SlotInv
  <1>1. Init => SlotInv
    <2>1. ASSUME Init PROVE SlotInv
      <3>1. Holders = {} /\ slots = 0
        BY <2>1 DEF Init, Holders, Free
      <3>2. IsFiniteSet(Holders) /\ slots = Cardinality(Holders) /\ slots <= MaxSlots
        BY <3>1, FS_EmptySet
      <3>3. Tidy(Free)
        BY DEF Tidy, Free, Deserved
      <3> QED
        BY <2>1, <3>2, <3>3 DEF Init, SlotInv
    <2> QED
      BY <2>1
  <1>2. IInv /\ SlotInv /\ [Next]_vars => SlotInv'
    <2>1. CASE UNCHANGED vars
      BY <2>1 DEF SlotInv, Holders, vars
    <2> QED
      BY <2>1, NextTidy
  <1> QED
    BY <1>1, <1>2, Invariance, PTL DEF Spec

\* Slots and sockets go together on every path through the handlers: connSlots
\* counts those that have not returned, never more than its capacity, and no
\* connection of a handler that returned is open.
THEOREM SlotsCountHandlers == Spec => []SocketsHoldSlots
  <1>1. IInv /\ SlotInv => SocketsHoldSlots
    <2>1. ASSUME IInv, SlotInv, NEW c \in Conn, conns[c].in = "open" \/ conns[c].out = "open"
          PROVE  c \in Holders \/ conns[c].pc = "accepted"
      BY <2>1 DEF SlotInv, Tidy, Holders
    <2> QED
      BY <2>1 DEF SocketsHoldSlots, SlotInv
  <1> QED
    BY <1>1, Invariance, SlotInvariance, PTL

\* Once its connection is there, recordFailure follows a failure of the
\* candidate's own only, for whichever of the pumps, the context and the idle
\* timer the select takes; the one other blame is that of a dial that was
\* given up.
THEOREM BlameIsTrue == Spec => []BlameIsDeserved
  <1>1. SlotInv => BlameIsDeserved
    BY DEF SlotInv, Tidy, Deserved, BlameIsDeserved
  <1> QED
    BY <1>1, SlotInvariance, PTL

-----------------------------------------------------------------------------
(* CandidateSelector: sequences built step by step                         *)

\* Induction over the natural numbers, for the elements of a set.
LEMMA NatInductionSet ==
  ASSUME NEW S, 0 \in S, \A n \in Nat : n \in S => n + 1 \in S
  PROVE  Nat \subseteq S
<1> SUFFICES ASSUME Nat \ S # {}
             PROVE  FALSE
  OBVIOUS
<1> DEFINE Below == {ss \in Nat \X Nat : ss[1] < ss[2]}
<1>1. IsWellFoundedOn(Below, Nat)
  BY NatLessThanWellFounded DEF OpToRel
<1> HIDE DEF Below
<1>2. PICK x \in Nat \ S : \A y \in Nat \ S : ~(<<y, x>> \in Below)
  BY <1>1, WFMin
<1>3. x # 0 /\ x - 1 \in Nat /\ x - 1 < x /\ x = (x - 1) + 1
  BY <1>2
<1>4. x - 1 \in S
  BY <1>2, <1>3 DEF Below
<1> QED
  BY <1>2, <1>3, <1>4

\* A sequence repeats nothing.
Distinct(q) == \A i, j \in 1 .. Len(q) : q[i] = q[j] => i = j

\* What the first n elements of a sequence are.
FirstOf(q, n) == {q[i] : i \in 1 .. n}

LEMMA ToSetIs ==
  ASSUME NEW T, NEW q \in Seq(T)
  PROVE  ToSet(q) = FirstOf(q, Len(q)) /\ ToSet(q) \subseteq T
BY DEF ToSet, FirstOf

LEMMA FirstGrows ==
  ASSUME NEW q, NEW n \in Nat
  PROVE  FirstOf(q, n + 1) = FirstOf(q, n) \cup {q[n + 1]}
<1>1. 1 .. (n + 1) = (1 .. n) \cup {n + 1}
  OBVIOUS
<1> QED
  BY <1>1 DEF FirstOf

LEMMA AppendIs ==
  ASSUME NEW T, NEW q \in Seq(T), NEW x \in T
  PROVE  /\ Append(q, x) \in Seq(T) /\ Append(q, x) # <<>>
         /\ ToSet(Append(q, x)) = ToSet(q) \cup {x}
         /\ Distinct(q) /\ x \notin ToSet(q) => Distinct(Append(q, x))
<1> DEFINE r == Append(q, x)
<1>1. /\ r \in Seq(T) /\ Len(r) = Len(q) + 1 /\ Len(q) \in Nat
      /\ \A i \in 1 .. Len(q) : r[i] = q[i]
      /\ r[Len(q) + 1] = x
  OBVIOUS
<1> HIDE DEF r
<1>2. FirstOf(r, Len(q)) = FirstOf(q, Len(q))
  BY <1>1 DEF FirstOf
<1>3. ToSet(r) = ToSet(q) \cup {x}
  <2>1. ToSet(r) = FirstOf(r, Len(r)) /\ ToSet(q) = FirstOf(q, Len(q))
    BY <1>1, ToSetIs
  <2>2. FirstOf(r, Len(q) + 1) = FirstOf(r, Len(q)) \cup {r[Len(q) + 1]}
    BY <1>1, FirstGrows
  <2> QED
    BY <1>1, <1>2, <2>1, <2>2
<1>4. ASSUME Distinct(q), x \notin ToSet(q), NEW i \in 1 .. Len(r), NEW j \in 1 .. Len(r),
             r[i] = r[j]
      PROVE  i = j
  <2>1. \A k \in 1 .. Len(r) : k \in 1 .. Len(q) \/ k = Len(q) + 1
    BY <1>1
  <2>2. \A k \in 1 .. Len(q) : r[k] # x
    BY <1>1, <1>4, ToSetIs DEF FirstOf
  <2> QED
    BY <1>1, <1>4, <2>1, <2>2 DEF Distinct
<1>5. r # <<>>
  BY <1>1
<1> QED
  BY <1>1, <1>3, <1>4, <1>5 DEF r, Distinct

\* Keep and Dedupe are what their recursions say.
KeepsBy(g, q, set) ==
  g = [n \in 0 .. Len(q) |->
         IF n = 0 THEN <<>>
         ELSE IF q[n] \in set THEN Append(g[n - 1], q[n]) ELSE g[n - 1]]

DedupesBy(g, q) ==
  g = [n \in 0 .. Len(q) |->
         IF n = 0 THEN <<>>
         ELSE IF q[n] \in ToSet(g[n - 1]) THEN g[n - 1] ELSE Append(g[n - 1], q[n])]

LEMMA KeepIs ==
  ASSUME NEW q \in Seq(Nat), NEW set
  PROVE  \E g : Keep(q, set) = g[Len(q)] /\ KeepsBy(g, q, set)
<1> DEFINE Eq(N, g) == g = [n \in 0 .. N |->
                              IF n = 0 THEN <<>>
                              ELSE IF q[n] \in set THEN Append(g[n - 1], q[n]) ELSE g[n - 1]]
           Works == {N \in Nat : \E g : Eq(N, g)}
<1>1. 0 \in Works
  <2> DEFINE g0 == [n \in 0 .. 0 |-> <<>>]
  <2>1. Eq(0, g0)
    OBVIOUS
  <2> QED
    BY <2>1
<1>2. ASSUME NEW N \in Nat, N \in Works
      PROVE  N + 1 \in Works
  <2>1. PICK g : Eq(N, g)
    BY <1>2
  <2> DEFINE h == [n \in 0 .. N + 1 |->
                     IF n = N + 1
                     THEN IF q[n] \in set THEN Append(g[n - 1], q[n]) ELSE g[n - 1]
                     ELSE g[n]]
  <2>2. ASSUME NEW n \in 0 .. N + 1
        PROVE  h[n] = IF n = 0 THEN <<>>
                      ELSE IF q[n] \in set THEN Append(h[n - 1], q[n]) ELSE h[n - 1]
    <3>1. n # 0 => n - 1 \in 0 .. N /\ h[n - 1] = g[n - 1]
      OBVIOUS
    <3>2. n # N + 1 => n \in 0 .. N /\ h[n] = g[n]
      OBVIOUS
    <3>3. CASE n = N + 1
      BY <3>1, <3>3
    <3>4. CASE n # N + 1
      <4>1. g[n] = IF n = 0 THEN <<>>
                   ELSE IF q[n] \in set THEN Append(g[n - 1], q[n]) ELSE g[n - 1]
        BY <2>1, <3>2, <3>4
      <4> QED
        BY <3>1, <3>2, <3>4, <4>1
    <3> QED
      BY <3>3, <3>4
  <2>3. Eq(N + 1, h)
    BY <2>2
  <2>4. N + 1 \in Nat
    OBVIOUS
  <2> HIDE DEF h, Eq
  <2> QED
    BY <2>3, <2>4
<1>3. Len(q) \in Works
  <2> HIDE DEF Works
  <2>1. Len(q) \in Nat
    OBVIOUS
  <2> QED
    BY <1>1, <1>2, <2>1, NatInductionSet
<1> DEFINE kept[n \in 0 .. Len(q)] ==
             IF n = 0 THEN <<>>
             ELSE IF q[n] \in set THEN Append(kept[n - 1], q[n]) ELSE kept[n - 1]
<1>4. Eq(Len(q), kept)
  BY <1>3
<1>5. Keep(q, set) = kept[Len(q)]
  BY DEF Keep
<1>6. KeepsBy(kept, q, set)
  BY <1>4 DEF KeepsBy
<1> HIDE DEF kept
<1> QED
  BY <1>5, <1>6

LEMMA DedupeIs ==
  ASSUME NEW q \in Seq(Nat)
  PROVE  \E g : Dedupe(q) = g[Len(q)] /\ DedupesBy(g, q)
<1> DEFINE Eq(N, g) == g = [n \in 0 .. N |->
                              IF n = 0 THEN <<>>
                              ELSE IF q[n] \in ToSet(g[n - 1]) THEN g[n - 1]
                              ELSE Append(g[n - 1], q[n])]
           Works == {N \in Nat : \E g : Eq(N, g)}
<1>1. 0 \in Works
  <2> DEFINE g0 == [n \in 0 .. 0 |-> <<>>]
  <2>1. Eq(0, g0)
    OBVIOUS
  <2> QED
    BY <2>1
<1>2. ASSUME NEW N \in Nat, N \in Works
      PROVE  N + 1 \in Works
  <2>1. PICK g : Eq(N, g)
    BY <1>2
  <2> DEFINE h == [n \in 0 .. N + 1 |->
                     IF n = N + 1
                     THEN IF q[n] \in ToSet(g[n - 1]) THEN g[n - 1] ELSE Append(g[n - 1], q[n])
                     ELSE g[n]]
  <2>2. ASSUME NEW n \in 0 .. N + 1
        PROVE  h[n] = IF n = 0 THEN <<>>
                      ELSE IF q[n] \in ToSet(h[n - 1]) THEN h[n - 1]
                      ELSE Append(h[n - 1], q[n])
    <3>1. n # 0 => n - 1 \in 0 .. N /\ h[n - 1] = g[n - 1]
      OBVIOUS
    <3>2. n # N + 1 => n \in 0 .. N /\ h[n] = g[n]
      OBVIOUS
    <3>3. CASE n = N + 1
      BY <3>1, <3>3
    <3>4. CASE n # N + 1
      <4>1. g[n] = IF n = 0 THEN <<>>
                   ELSE IF q[n] \in ToSet(g[n - 1]) THEN g[n - 1] ELSE Append(g[n - 1], q[n])
        BY <2>1, <3>2, <3>4
      <4> QED
        BY <3>1, <3>2, <3>4, <4>1
    <3> QED
      BY <3>3, <3>4
  <2>3. Eq(N + 1, h)
    BY <2>2
  <2>4. N + 1 \in Nat
    OBVIOUS
  <2> HIDE DEF h, Eq
  <2> QED
    BY <2>3, <2>4
<1>3. Len(q) \in Works
  <2> HIDE DEF Works
  <2>1. Len(q) \in Nat
    OBVIOUS
  <2> QED
    BY <1>1, <1>2, <2>1, NatInductionSet
<1> DEFINE out[n \in 0 .. Len(q)] ==
             IF n = 0 THEN <<>>
             ELSE IF q[n] \in ToSet(out[n - 1]) THEN out[n - 1]
             ELSE Append(out[n - 1], q[n])
<1>4. Eq(Len(q), out)
  BY <1>3
<1>5. Dedupe(q) = out[Len(q)]
  BY DEF Dedupe
<1>6. DedupesBy(out, q)
  BY <1>4 DEF DedupesBy
<1> HIDE DEF out
<1> QED
  BY <1>5, <1>6

LEMMA EmptyIs ==
  /\ <<>> \in Seq(Nat) /\ ToSet(<<>>) = {} /\ Distinct(<<>>)
  /\ \A q : FirstOf(q, 0) = {}
<1>1. 1 .. 0 = {}
  OBVIOUS
<1>2. <<>> \in Seq(Nat) /\ Len(<<>>) = 0
  OBVIOUS
<1>3. \A q : FirstOf(q, 0) = {}
  BY <1>1 DEF FirstOf
<1>4. ToSet(<<>>) = {}
  BY <1>2, <1>3, ToSetIs
<1> QED
  BY <1>1, <1>2, <1>3, <1>4 DEF Distinct

\* Keep takes the elements that are in the set, and repeats none of them.
LEMMA KeepTakes ==
  ASSUME NEW q \in Seq(Nat), NEW set
  PROVE  /\ Keep(q, set) \in Seq(Nat)
         /\ ToSet(Keep(q, set)) = ToSet(q) \cap set
         /\ Distinct(q) => Distinct(Keep(q, set))
<1>1. PICK g : Keep(q, set) = g[Len(q)] /\ KeepsBy(g, q, set)
  BY KeepIs
<1> DEFINE Good(n) == /\ g[n] \in Seq(Nat)
                      /\ ToSet(g[n]) = FirstOf(q, n) \cap set
                      /\ Distinct(q) => Distinct(g[n])
           Holds == {n \in Nat : n <= Len(q) => Good(n)}
<1>2. 0 \in Holds
  <2>1. g[0] = <<>>
    BY <1>1 DEF KeepsBy
  <2> QED
    BY <2>1, EmptyIs
<1>3. ASSUME NEW n \in Nat, n \in Holds
      PROVE  n + 1 \in Holds
  <2> SUFFICES ASSUME n + 1 <= Len(q)
               PROVE  Good(n + 1)
    OBVIOUS
  <2>1. n + 1 \in 0 .. Len(q) /\ n + 1 # 0 /\ (n + 1) - 1 = n /\ n <= Len(q)
        /\ n + 1 \in 1 .. Len(q) /\ q[n + 1] \in Nat
    OBVIOUS
  <2>2. Good(n)
    BY <1>3, <2>1
  <2>3. g[n + 1] = IF q[n + 1] \in set THEN Append(g[n], q[n + 1]) ELSE g[n]
    BY <1>1, <2>1 DEF KeepsBy
  <2>4. FirstOf(q, n + 1) = FirstOf(q, n) \cup {q[n + 1]}
    BY FirstGrows
  <2>5. Distinct(q) => q[n + 1] \notin FirstOf(q, n)
    <3>1. ASSUME Distinct(q), NEW i \in 1 .. n, q[n + 1] = q[i]
          PROVE  FALSE
      <4>1. i \in 1 .. Len(q) /\ i # n + 1
        BY <2>1
      <4> QED
        BY <2>1, <3>1, <4>1 DEF Distinct
    <3> QED
      BY <3>1 DEF FirstOf
  <2> HIDE DEF Holds
  <2>6. CASE q[n + 1] \in set
    BY <2>1, <2>2, <2>3, <2>4, <2>5, <2>6, AppendIs
  <2>7. CASE q[n + 1] \notin set
    BY <2>2, <2>3, <2>4, <2>7
  <2> QED
    BY <2>6, <2>7
<1>4. Good(Len(q))
  <2>1. Len(q) \in Holds
    <3> HIDE DEF Holds
    <3>1. Len(q) \in Nat
      OBVIOUS
    <3> QED
      BY <1>2, <1>3, <3>1, NatInductionSet
  <2> QED
    BY <2>1
<1> QED
  BY <1>1, <1>4, ToSetIs

\* Dedupe keeps every element and repeats none.
LEMMA DedupeKeeps ==
  ASSUME NEW q \in Seq(Nat)
  PROVE  Dedupe(q) \in Seq(Nat) /\ ToSet(Dedupe(q)) = ToSet(q) /\ Distinct(Dedupe(q))
<1>1. PICK g : Dedupe(q) = g[Len(q)] /\ DedupesBy(g, q)
  BY DedupeIs
<1> DEFINE Good(n) == g[n] \in Seq(Nat) /\ ToSet(g[n]) = FirstOf(q, n) /\ Distinct(g[n])
           Holds == {n \in Nat : n <= Len(q) => Good(n)}
<1>2. 0 \in Holds
  <2>1. g[0] = <<>>
    BY <1>1 DEF DedupesBy
  <2> QED
    BY <2>1, EmptyIs
<1>3. ASSUME NEW n \in Nat, n \in Holds
      PROVE  n + 1 \in Holds
  <2> SUFFICES ASSUME n + 1 <= Len(q)
               PROVE  Good(n + 1)
    OBVIOUS
  <2>1. n + 1 \in 0 .. Len(q) /\ n + 1 # 0 /\ (n + 1) - 1 = n /\ n <= Len(q)
        /\ q[n + 1] \in Nat
    OBVIOUS
  <2>2. Good(n)
    BY <1>3, <2>1
  <2>3. g[n + 1] = IF q[n + 1] \in ToSet(g[n]) THEN g[n] ELSE Append(g[n], q[n + 1])
    BY <1>1, <2>1 DEF DedupesBy
  <2>4. FirstOf(q, n + 1) = FirstOf(q, n) \cup {q[n + 1]}
    BY FirstGrows
  <2> HIDE DEF Holds
  <2>5. CASE q[n + 1] \in ToSet(g[n])
    <3>1. g[n + 1] = g[n]
      BY <2>3, <2>5
    <3>2. FirstOf(q, n + 1) = FirstOf(q, n)
      <4>1. q[n + 1] \in FirstOf(q, n)
        BY <2>2, <2>5, Zenon
      <4>2. ASSUME NEW S, NEW x \in S
            PROVE  S \cup {x} = S
        OBVIOUS
      <4>3. FirstOf(q, n) \cup {q[n + 1]} = FirstOf(q, n)
        BY <4>1, <4>2, Zenon
      <4> QED
        BY <2>4, <4>3, Zenon
    <3> QED
      BY <2>2, <3>1, <3>2, Zenon
  <2>6. CASE q[n + 1] \notin ToSet(g[n])
    <3>1. /\ Append(g[n], q[n + 1]) \in Seq(Nat)
          /\ ToSet(Append(g[n], q[n + 1])) = ToSet(g[n]) \cup {q[n + 1]}
          /\ Distinct(Append(g[n], q[n + 1]))
      BY <2>1, <2>2, <2>6, AppendIs
    <3>2. g[n + 1] = Append(g[n], q[n + 1])
      BY <2>3, <2>6
    <3> QED
      BY <2>2, <2>4, <3>1, <3>2, Zenon
  <2> QED
    BY <2>5, <2>6
<1>4. Good(Len(q))
  <2>1. Len(q) \in Holds
    <3> HIDE DEF Holds
    <3>1. Len(q) \in Nat
      OBVIOUS
    <3> QED
      BY <1>2, <1>3, <3>1, NatInductionSet
  <2> QED
    BY <2>1
<1> QED
  BY <1>1, <1>4, ToSetIs

LEMMA ConcatSet ==
  ASSUME NEW T, NEW q \in Seq(T), NEW r \in Seq(T)
  PROVE  q \o r \in Seq(T) /\ ToSet(q \o r) = ToSet(q) \cup ToSet(r)
<1> DEFINE c == q \o r
<1>1. /\ c \in Seq(T) /\ Len(c) = Len(q) + Len(r) /\ Len(q) \in Nat /\ Len(r) \in Nat
      /\ \A i \in 1 .. Len(q) : c[i] = q[i]
      /\ \A i \in 1 .. Len(r) : c[Len(q) + i] = r[i]
  OBVIOUS
<1> HIDE DEF c
<1>2. ASSUME NEW i \in 1 .. Len(c), i \notin 1 .. Len(q)
      PROVE  i - Len(q) \in 1 .. Len(r) /\ c[i] = r[i - Len(q)]
  <2>1. i - Len(q) \in 1 .. Len(r) /\ i = Len(q) + (i - Len(q))
    BY <1>1, <1>2
  <2> QED
    BY <1>1, <2>1
<1>3. FirstOf(c, Len(c)) = FirstOf(q, Len(q)) \cup FirstOf(r, Len(r))
  <2>1. ASSUME NEW x \in FirstOf(c, Len(c))
        PROVE  x \in FirstOf(q, Len(q)) \cup FirstOf(r, Len(r))
    <3>1. PICK i \in 1 .. Len(c) : x = c[i]
      BY <2>1 DEF FirstOf
    <3>2. CASE i \in 1 .. Len(q)
      BY <1>1, <3>1, <3>2 DEF FirstOf
    <3>3. CASE i \notin 1 .. Len(q)
      BY <1>2, <3>1, <3>3 DEF FirstOf
    <3> QED
      BY <3>2, <3>3
  <2>2. ASSUME NEW x \in FirstOf(q, Len(q))
        PROVE  x \in FirstOf(c, Len(c))
    <3>1. PICK i \in 1 .. Len(q) : x = q[i]
      BY <2>2 DEF FirstOf
    <3>2. i \in 1 .. Len(c) /\ c[i] = x
      BY <1>1, <3>1
    <3> QED
      BY <3>2 DEF FirstOf
  <2>3. ASSUME NEW x \in FirstOf(r, Len(r))
        PROVE  x \in FirstOf(c, Len(c))
    <3>1. PICK i \in 1 .. Len(r) : x = r[i]
      BY <2>3 DEF FirstOf
    <3>2. Len(q) + i \in 1 .. Len(c) /\ c[Len(q) + i] = x
      BY <1>1, <3>1
    <3> QED
      BY <3>2 DEF FirstOf
  <2> QED
    BY <2>1, <2>2, <2>3
<1>4. /\ ToSet(c) = FirstOf(c, Len(c)) /\ ToSet(q) = FirstOf(q, Len(q))
      /\ ToSet(r) = FirstOf(r, Len(r))
  BY <1>1, ToSetIs
<1> QED
  BY <1>1, <1>3, <1>4 DEF c

LEMMA FlattenIs ==
  ASSUME NEW seqs \in Seq(Seq(Nat)), seqs # <<>>
  PROVE  \E g : /\ FlattenSeq(seqs) = g[Len(seqs)]
                /\ g = [i \in 1 .. Len(seqs) |->
                          IF i = 1 THEN seqs[i] ELSE g[i - 1] \o seqs[i]]
<1> DEFINE Eq(N, g) == g = [i \in 1 .. N |-> IF i = 1 THEN seqs[i] ELSE g[i - 1] \o seqs[i]]
           Works == {N \in Nat : \E g : Eq(N, g)}
<1>1. 0 \in Works
  <2> DEFINE g0 == [i \in 1 .. 0 |-> <<>>]
  <2>1. Eq(0, g0)
    OBVIOUS
  <2> HIDE DEF g0, Eq
  <2> QED
    BY <2>1
<1>2. ASSUME NEW N \in Nat, N \in Works
      PROVE  N + 1 \in Works
  <2>1. PICK g : Eq(N, g)
    BY <1>2
  <2> DEFINE h == [i \in 1 .. N + 1 |->
                     IF i = N + 1
                     THEN IF i = 1 THEN seqs[i] ELSE g[i - 1] \o seqs[i]
                     ELSE g[i]]
  <2>2. ASSUME NEW i \in 1 .. N + 1
        PROVE  h[i] = IF i = 1 THEN seqs[i] ELSE h[i - 1] \o seqs[i]
    <3>1. i # 1 => i - 1 \in 1 .. N /\ h[i - 1] = g[i - 1]
      OBVIOUS
    <3>2. i # N + 1 => i \in 1 .. N /\ h[i] = g[i]
      OBVIOUS
    <3>3. CASE i = N + 1
      BY <3>1, <3>3
    <3>4. CASE i # N + 1
      <4>1. g[i] = IF i = 1 THEN seqs[i] ELSE g[i - 1] \o seqs[i]
        BY <2>1, <3>2, <3>4
      <4> QED
        BY <3>1, <3>2, <3>4, <4>1
    <3> QED
      BY <3>3, <3>4
  <2>3. Eq(N + 1, h)
    BY <2>2
  <2>4. N + 1 \in Nat
    OBVIOUS
  <2> HIDE DEF h, Eq
  <2> QED
    BY <2>3, <2>4
<1>3. Len(seqs) \in Works
  <2> HIDE DEF Works
  <2>1. Len(seqs) \in Nat
    OBVIOUS
  <2> QED
    BY <1>1, <1>2, <2>1, NatInductionSet
<1> DEFINE flatten[i \in 1 .. Len(seqs)] ==
             IF i = 1 THEN seqs[i] ELSE flatten[i - 1] \o seqs[i]
<1>4. Eq(Len(seqs), flatten)
  BY <1>3
<1>5. FlattenSeq(seqs) = flatten[Len(seqs)]
  <2>1. Len(seqs) # 0
    OBVIOUS
  <2> QED
    BY <2>1 DEF FlattenSeq
<1> HIDE DEF flatten
<1> QED
  BY <1>4, <1>5

\* FlattenSeq has the elements of each of its sequences.
LEMMA FlattenKeeps ==
  ASSUME NEW seqs \in Seq(Seq(Nat)), seqs # <<>>
  PROVE  /\ FlattenSeq(seqs) \in Seq(Nat)
         /\ \A x : x \in ToSet(FlattenSeq(seqs))
                     <=> \E i \in 1 .. Len(seqs) : x \in ToSet(seqs[i])
<1>1. PICK g : /\ FlattenSeq(seqs) = g[Len(seqs)]
               /\ g = [i \in 1 .. Len(seqs) |->
                         IF i = 1 THEN seqs[i] ELSE g[i - 1] \o seqs[i]]
  BY FlattenIs
<1> DEFINE Good(n) == /\ g[n] \in Seq(Nat)
                      /\ \A x : x \in ToSet(g[n]) <=> \E i \in 1 .. n : x \in ToSet(seqs[i])
           Holds == {n \in Nat : n # 0 /\ n <= Len(seqs) => Good(n)}
<1>2. 0 \in Holds
  OBVIOUS
<1>3. ASSUME NEW n \in Nat, n \in Holds
      PROVE  n + 1 \in Holds
  <2> SUFFICES ASSUME n + 1 <= Len(seqs)
               PROVE  Good(n + 1)
    OBVIOUS
  <2>1. n + 1 \in 1 .. Len(seqs) /\ (n + 1) - 1 = n /\ n <= Len(seqs)
        /\ seqs[n + 1] \in Seq(Nat) /\ (n + 1 = 1 <=> n = 0)
    OBVIOUS
  <2>2. g[n + 1] = IF n = 0 THEN seqs[n + 1] ELSE g[n] \o seqs[n + 1]
    BY <1>1, <2>1
  <2>3. \A i : i \in 1 .. (n + 1) <=> i \in 1 .. n \/ i = n + 1
    OBVIOUS
  <2>4. CASE n = 0
    <3>1. \A i : i \in 1 .. 0 <=> FALSE
      OBVIOUS
    <3>2. g[n + 1] = seqs[n + 1]
      BY <2>2, <2>4
    <3> QED
      BY <2>1, <2>3, <2>4, <3>1, <3>2
  <2>5. CASE n # 0
    <3>1. Good(n)
      BY <1>3, <2>1, <2>5
    <3>2. /\ g[n + 1] \in Seq(Nat)
          /\ ToSet(g[n + 1]) = ToSet(g[n]) \cup ToSet(seqs[n + 1])
      <4>1. g[n + 1] = g[n] \o seqs[n + 1]
        BY <2>2, <2>5
      <4>2. g[n] \in Seq(Nat) /\ seqs[n + 1] \in Seq(Nat)
        BY <2>1, <3>1
      <4> QED
        BY <4>1, <4>2, ConcatSet
    <3> QED
      BY <2>3, <3>1, <3>2
  <2> QED
    BY <2>4, <2>5
<1>4. Good(Len(seqs))
  <2>1. Len(seqs) \in Holds
    <3> HIDE DEF Holds
    <3>1. Len(seqs) \in Nat
      OBVIOUS
    <3> QED
      BY <1>2, <1>3, <3>1, NatInductionSet
  <2>2. Len(seqs) # 0 /\ Len(seqs) <= Len(seqs)
    OBVIOUS
  <2> QED
    BY <2>1, <2>2
<1> QED
  BY <1>1, <1>4

-----------------------------------------------------------------------------
(* CandidateSelector: the order of the candidates                          *)

StageRow == [strategy : Strategies, nodes : Seq(Candidate)]

LEMMA StageIs ==
  ASSUME NEW s \in StageRow
  PROVE  s.nodes \in Seq(Candidate) /\ s.strategy \in Strategies
BY DEF StageRow

\* The candidates are the indices that carry UDP, each once.
LEMMA CandidatesAre ==
  ASSUME NEW s \in StageRow
  PROVE  /\ Candidates(s) \in Seq(Nat) /\ Distinct(Candidates(s))
         /\ ToSet(Candidates(s)) \subseteq DOMAIN s.nodes
<1> DEFINE ids == [i \in DOMAIN s.nodes |-> i]
           udp == {i \in DOMAIN s.nodes : s.nodes[i].udp}
<1>1. DOMAIN s.nodes = 1 .. Len(s.nodes) /\ Len(s.nodes) \in Nat
  BY StageIs
<1>2. ids \in Seq(Nat) /\ Len(ids) = Len(s.nodes) /\ \A i \in 1 .. Len(ids) : ids[i] = i
  BY <1>1
<1> HIDE DEF ids
<1>3. Distinct(ids)
  BY <1>2 DEF Distinct
<1> HIDE DEF udp
<1>4. /\ Keep(ids, udp) \in Seq(Nat)
      /\ ToSet(Keep(ids, udp)) = ToSet(ids) \cap udp
      /\ Distinct(Keep(ids, udp))
  BY <1>2, <1>3, KeepTakes
<1>5. Candidates(s) = Keep(ids, udp)
  BY DEF Candidates, ids, udp
<1>6. udp \subseteq DOMAIN s.nodes
  BY DEF udp
<1> QED
  BY <1>4, <1>5, <1>6

LEMMA WeightIs ==
  ASSUME NEW w \in Nat
  PROVE  boundedSelectionWeight(w) \in Nat \ {0}
BY DEF boundedSelectionWeight, maxSelectionWeight

\* The pool has the candidates and nothing else.
LEMMA PoolIs ==
  ASSUME NEW s \in StageRow, Candidates(s) # <<>>
  PROVE  /\ WeightedPool(s) \in Seq(Nat) /\ Len(WeightedPool(s)) \in Nat \ {0}
         /\ ToSet(WeightedPool(s)) = ToSet(Candidates(s))
<1> DEFINE c == Candidates(s)
           weight(j) == boundedSelectionWeight(s.nodes[c[j]].weight)
           seqs == [j \in DOMAIN c |-> [n \in 1 .. weight(j) |-> c[j]]]
<1>1. c \in Seq(Nat) /\ c # <<>> /\ ToSet(c) \subseteq DOMAIN s.nodes
  BY CandidatesAre
<1>2. Len(c) \in Nat \ {0} /\ DOMAIN c = 1 .. Len(c) /\ 1 \in 1 .. Len(c)
  BY <1>1
<1>3. WeightedPool(s) = FlattenSeq(seqs)
  BY DEF WeightedPool
<1> HIDE DEF c
<1>4. ASSUME NEW j \in 1 .. Len(c)
      PROVE  weight(j) \in Nat \ {0} /\ c[j] \in Nat
  <2>1. c[j] \in DOMAIN s.nodes /\ c[j] \in Nat
    BY <1>1, <1>2, ToSetIs DEF FirstOf
  <2>2. s.nodes[c[j]] \in Candidate
    BY <2>1, StageIs
  <2>3. s.nodes[c[j]].weight \in Nat
    BY <2>2 DEF Candidate
  <2> QED
    BY <2>1, <2>3, WeightIs
<1> HIDE DEF weight
<1>5. ASSUME NEW j \in 1 .. Len(c)
      PROVE  seqs[j] \in Seq(Nat) /\ ToSet(seqs[j]) = {c[j]}
  <2>1. seqs[j] = [n \in 1 .. weight(j) |-> c[j]]
    BY <1>2
  <2>2. seqs[j] \in Seq(Nat) /\ Len(seqs[j]) = weight(j)
    BY <1>4, <2>1
  <2>3. 1 \in 1 .. weight(j) /\ \A n \in 1 .. weight(j) : seqs[j][n] = c[j]
    BY <1>4, <2>1
  <2>4. FirstOf(seqs[j], weight(j)) = {c[j]}
    <3>1. \A x \in FirstOf(seqs[j], weight(j)) : x = c[j]
      BY <2>3 DEF FirstOf
    <3>2. c[j] \in FirstOf(seqs[j], weight(j))
      BY <2>3 DEF FirstOf
    <3> QED
      BY <3>1, <3>2
  <2> QED
    BY <2>2, <2>4, ToSetIs
<1>6. DOMAIN seqs = 1 .. Len(c)
  BY <1>2
<1> HIDE DEF seqs
<1>7. seqs \in Seq(Seq(Nat)) /\ Len(seqs) = Len(c) /\ seqs # <<>>
  <2>1. seqs = [j \in 1 .. Len(c) |-> seqs[j]]
    BY <1>2 DEF seqs
  <2>2. seqs \in [1 .. Len(c) -> Seq(Nat)]
    BY <1>5, <2>1
  <2> QED
    BY <1>2, <2>2
<1>8. /\ FlattenSeq(seqs) \in Seq(Nat)
      /\ \A x : x \in ToSet(FlattenSeq(seqs)) <=> \E i \in 1 .. Len(c) : x \in ToSet(seqs[i])
  BY <1>7, FlattenKeeps
<1>9. ToSet(FlattenSeq(seqs)) = FirstOf(c, Len(c))
  <2>1. ASSUME NEW x \in ToSet(FlattenSeq(seqs))
        PROVE  x \in FirstOf(c, Len(c))
    <3>1. PICK i \in 1 .. Len(c) : x \in ToSet(seqs[i])
      BY <1>8, <2>1
    <3>2. x = c[i]
      BY <1>5, <3>1
    <3> QED
      BY <3>2 DEF FirstOf
  <2>2. ASSUME NEW x \in FirstOf(c, Len(c))
        PROVE  x \in ToSet(FlattenSeq(seqs))
    <3>1. PICK i \in 1 .. Len(c) : x = c[i]
      BY <2>2 DEF FirstOf
    <3>2. x \in ToSet(seqs[i])
      BY <1>5, <3>1
    <3> QED
      BY <1>8, <3>2
  <2> QED
    BY <2>1, <2>2
<1>10. ToSet(FlattenSeq(seqs)) = ToSet(c)
  BY <1>1, <1>9, ToSetIs
<1>11. c[1] \in ToSet(FlattenSeq(seqs))
  BY <1>2, <1>9 DEF FirstOf
<1>12. Len(FlattenSeq(seqs)) \in Nat \ {0}
  <2>1. FlattenSeq(seqs) # <<>>
    BY <1>11, EmptyIs
  <2> QED
    BY <1>8, <2>1
<1> QED
  BY <1>3, <1>8, <1>10, <1>12 DEF c

\* Turning a sequence round loses nothing.
LEMMA RotatedKeeps ==
  ASSUME NEW q \in Seq(Nat), NEW k \in Nat, k < Len(q)
  PROVE  Rotated(q, k) \in Seq(Nat) /\ ToSet(Rotated(q, k)) = ToSet(q)
<1> DEFINE a == SubSeq(q, k + 1, Len(q))
           b == SubSeq(q, 1, k)
<1>1. Len(q) \in Nat
  OBVIOUS
<1>2. /\ a \in Seq(Nat) /\ Len(a) = Len(q) - k
      /\ \A i \in 1 .. Len(q) - k : a[i] = q[k + i]
  <2>1. k + 1 \in 1 .. Len(q) /\ Len(q) - (k + 1) + 1 = Len(q) - k
    BY <1>1
  <2>2. /\ a \in Seq(Nat)
        /\ Len(a) = Len(q) - k
    BY <1>1, <2>1
  <2>3. ASSUME NEW i \in 1 .. Len(q) - k PROVE a[i] = q[k + i]
    BY <1>1, <2>1, SMTT(30)
  <2> QED
    BY <2>2, <2>3
<1>3. /\ b \in Seq(Nat) /\ Len(b) = k
      /\ \A i \in 1 .. k : b[i] = q[i]
  BY <1>1
<1>4. Rotated(q, k) = a \o b
  BY DEF Rotated
<1> HIDE DEF a, b
<1>5. a \o b \in Seq(Nat) /\ ToSet(a \o b) = ToSet(a) \cup ToSet(b)
  BY <1>2, <1>3, ConcatSet
<1>6. ToSet(a) = FirstOf(a, Len(q) - k) /\ ToSet(b) = FirstOf(b, k) /\ ToSet(q) = FirstOf(q, Len(q))
  BY <1>2, <1>3, ToSetIs
<1>7. ASSUME NEW x \in FirstOf(a, Len(q) - k)
      PROVE  x \in FirstOf(q, Len(q))
  <2>1. PICK i \in 1 .. Len(q) - k : x = a[i]
    BY <1>7 DEF FirstOf
  <2>2. k + i \in 1 .. Len(q) /\ x = q[k + i]
    BY <1>1, <1>2, <2>1
  <2> QED
    BY <2>2 DEF FirstOf
<1>8. ASSUME NEW x \in FirstOf(b, k)
      PROVE  x \in FirstOf(q, Len(q))
  <2>1. PICK i \in 1 .. k : x = b[i]
    BY <1>8 DEF FirstOf
  <2>2. i \in 1 .. Len(q) /\ x = q[i]
    BY <1>1, <1>3, <2>1
  <2> QED
    BY <2>2 DEF FirstOf
<1>9. ASSUME NEW x \in FirstOf(q, Len(q))
      PROVE  x \in FirstOf(a, Len(q) - k) \cup FirstOf(b, k)
  <2>1. PICK i \in 1 .. Len(q) : x = q[i]
    BY <1>9 DEF FirstOf
  <2>2. CASE i <= k
    <3>1. i \in 1 .. k /\ x = b[i]
      BY <1>3, <2>1, <2>2
    <3> QED
      BY <3>1 DEF FirstOf
  <2>3. CASE ~(i <= k)
    <3>1. i - k \in 1 .. Len(q) - k /\ i = k + (i - k)
      BY <1>1, <2>3
    <3>2. x = a[i - k]
      BY <1>2, <2>1, <3>1
    <3> QED
      BY <3>1, <3>2 DEF FirstOf
  <2> QED
    BY <2>2, <2>3
<1>10. ToSet(a) \cup ToSet(b) = ToSet(q)
  BY <1>6, <1>7, <1>8, <1>9
<1> QED
  BY <1>4, <1>5, <1>10

\* A sequence without repetition is as long as its set of elements is large.
LEMMA DistinctLength ==
  ASSUME NEW q \in Seq(Nat), Distinct(q)
  PROVE  IsFiniteSet(ToSet(q)) /\ Len(q) = Cardinality(ToSet(q))
<1> DEFINE S == 1 .. Len(q)
           T == ToSet(q)
<1>1. Len(q) \in Nat /\ q \in [S -> Nat] /\ DOMAIN q = S
  OBVIOUS
<1>2. IsFiniteSet(S) /\ Cardinality(S) = Len(q)
  <2>1. 1 \in Int /\ Len(q) \in Int
    BY <1>1
  <2>2. IsFiniteSet(S) /\ Cardinality(S) = IF 1 > Len(q) THEN 0 ELSE Len(q) - 1 + 1
    BY <2>1, FS_Interval
  <2> QED
    BY <1>1, <2>2
<1>3. T = FirstOf(q, Len(q))
  BY ToSetIs
<1>4. q \in [S -> T]
  BY <1>1, <1>3 DEF FirstOf
<1>5. q \in Injection(S, T)
  BY <1>1, <1>4 DEF Distinct, Injection, IsInjective
<1>6. \A t \in T : \E s \in S : q[s] = t
  BY <1>3 DEF FirstOf
<1>7. q \in Surjection(S, T)
  BY <1>4, <1>6 DEF Surjection
<1>8. ExistsBijection(S, T)
  BY <1>5, <1>7 DEF ExistsBijection, Bijection
<1> HIDE DEF S, T
<1>9. IsFiniteSet(T) /\ Cardinality(T) = Cardinality(S)
  BY <1>2, <1>8, FS_Bijection
<1> QED
  BY <1>2, <1>9 DEF T

\* A sequence that SetToSeqs makes of a set has each of its elements once.
LEMMA ShuffleKeeps ==
  ASSUME NEW S \in SUBSET Nat, IsFiniteSet(S), NEW q \in SetToSeqs(S)
  PROVE  q \in Seq(Nat) /\ Distinct(q) /\ ToSet(q) = S
<1> DEFINE N == Cardinality(S)
           D == 1 .. N
<1>1. N \in Nat
  BY FS_CardinalityType
<1>2. q \in [D -> S] /\ \A i, j \in D : i # j => q[i] # q[j]
  BY DEF SetToSeqs
<1> HIDE DEF N
<1>3. q \in Seq(Nat) /\ Len(q) = N
  <2>1. q \in [1 .. N -> Nat]
    BY <1>2
  <2> QED
    BY <1>1, <2>1
<1>4. Distinct(q)
  BY <1>2, <1>3 DEF Distinct
<1>5. IsFiniteSet(D) /\ Cardinality(D) = N
  BY <1>1, FS_Interval
<1>6. q \in Injection(D, S)
  BY <1>2 DEF Injection, IsInjective
<1>7. q \in Surjection(D, S)
  <2> HIDE DEF D
  <2> QED
    BY <1>5, <1>6, FS_Injection DEF N
<1>8. \A t \in S : \E s \in D : q[s] = t
  BY <1>7 DEF Surjection
<1>9. FirstOf(q, N) = S
  BY <1>2, <1>8 DEF FirstOf
<1> QED
  BY <1>3, <1>4, <1>9, ToSetIs

\* Before the cooling ones are left out, an order has every candidate once,
\* unless the strategy takes only the first.
LEMMA RankedIs ==
  ASSUME NEW s \in StageRow, Candidates(s) # <<>>, cursor \in Nat,
         NEW q \in Ranked(s)
  PROVE  /\ q \in Seq(Nat) /\ Distinct(q)
         /\ s.strategy # "single" => ToSet(q) = ToSet(Candidates(s))
         /\ s.strategy = "single" => ToSet(q) \subseteq ToSet(Candidates(s))
<1> DEFINE c == Candidates(s)
           pool == WeightedPool(s)
           k == cursor % Len(pool)
<1>1. /\ c \in Seq(Nat) /\ c # <<>> /\ Distinct(c)
      /\ ToSet(c) \subseteq DOMAIN s.nodes
  BY CandidatesAre
<1>2. pool \in Seq(Nat) /\ Len(pool) \in Nat \ {0} /\ ToSet(pool) = ToSet(c)
  BY PoolIs
<1>3. s.strategy \in {"single", "failover", "round_robin", "random"}
  BY StageIs DEF Strategies
<1>4. k \in Nat /\ k < Len(pool)
  BY <1>2
<1> HIDE DEF c, pool, k
<1>5. CASE s.strategy = "round_robin"
  <2>1. q = Dedupe(Rotated(pool, k))
    BY <1>5 DEF Ranked, pool, k
  <2>2. Rotated(pool, k) \in Seq(Nat) /\ ToSet(Rotated(pool, k)) = ToSet(pool)
    BY <1>2, <1>4, RotatedKeeps
  <2>3. q \in Seq(Nat) /\ ToSet(q) = ToSet(pool) /\ Distinct(q)
    BY <2>1, <2>2, DedupeKeeps
  <2> QED
    BY <1>2, <1>5, <2>3 DEF c
<1>6. CASE s.strategy = "random"
  <2>1. q \in SetToSeqs(ToSet(c))
    BY <1>6 DEF Ranked, c
  <2>2. IsFiniteSet(ToSet(c)) /\ ToSet(c) \in SUBSET Nat
    BY <1>1, DistinctLength, ToSetIs
  <2>3. q \in Seq(Nat) /\ Distinct(q) /\ ToSet(q) = ToSet(c)
    BY <2>1, <2>2, ShuffleKeeps
  <2> QED
    BY <1>6, <2>3 DEF c
<1>7. CASE s.strategy = "failover"
  <2>1. q = c
    BY <1>7 DEF Ranked, c
  <2> QED
    BY <1>1, <1>7, <2>1 DEF c
<1>8. CASE s.strategy = "single"
  <2>1. q = <<Head(c)>>
    BY <1>8 DEF Ranked, c
  <2>2. Len(c) \in Nat \ {0} /\ 1 \in 1 .. Len(c) /\ Head(c) = c[1] /\ c[1] \in Nat
    BY <1>1
  <2>3. c[1] \in ToSet(c)
    BY <1>1, <2>2, ToSetIs DEF FirstOf
  <2>4. q \in Seq(Nat) /\ Len(q) = 1 /\ \A i \in 1 .. 1 : q[i] = c[1]
    BY <2>1, <2>2
  <2>5. \A i, j \in 1 .. 1 : i = j
    OBVIOUS
  <2>6. Distinct(q)
    BY <2>4, <2>5 DEF Distinct
  <2>7. ToSet(q) = FirstOf(q, 1)
    BY <2>4, ToSetIs
  <2>8. FirstOf(q, 1) \subseteq {c[1]}
    BY <2>4 DEF FirstOf
  <2> QED
    BY <1>8, <2>3, <2>4, <2>6, <2>7, <2>8 DEF c
<1> QED
  BY <1>3, <1>5, <1>6, <1>7, <1>8

\* What a dial is offered of such an order.
LEMMA OfferedIs ==
  ASSUME NEW s \in StageRow, Candidates(s) # <<>>, cursor \in Nat,
         NEW q \in Ranked(s)
  PROVE  /\ Offered(s, q) \in Seq(Nat) /\ Distinct(Offered(s, q))
         /\ ToSet(Offered(s, q)) \subseteq DOMAIN s.nodes
         /\ s.strategy # "single" =>
              ToSet(Offered(s, q)) = {i \in ToSet(Candidates(s)) :
                                        Available(s.nodes[i].node)}
<1> DEFINE free == {i \in DOMAIN s.nodes : Available(s.nodes[i].node)}
<1>1. /\ q \in Seq(Nat) /\ Distinct(q)
      /\ s.strategy # "single" => ToSet(q) = ToSet(Candidates(s))
      /\ s.strategy = "single" => ToSet(q) \subseteq ToSet(Candidates(s))
  BY RankedIs
<1>2. ToSet(Candidates(s)) \subseteq DOMAIN s.nodes
  BY CandidatesAre
<1>3. CASE s.strategy = "single"
  <2>1. Offered(s, q) = q
    BY <1>3 DEF Offered
  <2> QED
    BY <1>1, <1>2, <1>3, <2>1
<1>4. CASE s.strategy # "single"
  <2>1. Offered(s, q) = Keep(q, free)
    BY <1>4 DEF Offered
  <2>2. {i \in ToSet(Candidates(s)) : Available(s.nodes[i].node)}
          = ToSet(Candidates(s)) \cap free
    BY <1>2
  <2> HIDE DEF free
  <2>3. /\ Keep(q, free) \in Seq(Nat) /\ ToSet(Keep(q, free)) = ToSet(q) \cap free
        /\ Distinct(Keep(q, free))
    BY <1>1, KeepTakes
  <2> QED
    BY <1>1, <1>2, <1>4, <2>1, <2>2, <2>3
<1> QED
  BY <1>3, <1>4

\* The head of a sequence without repetition, and what is left after it.
LEMMA TailOf ==
  ASSUME NEW q \in Seq(Nat), q # <<>>, Distinct(q)
  PROVE  /\ Head(q) \in ToSet(q) /\ Head(q) \in Nat
         /\ Tail(q) \in Seq(Nat) /\ Distinct(Tail(q))
         /\ ToSet(Tail(q)) = ToSet(q) \ {Head(q)}
<1> DEFINE r == Tail(q)
           h == Head(q)
<1>1. Len(q) \in Nat \ {0} /\ 1 \in 1 .. Len(q) /\ h = q[1] /\ h \in Nat
  OBVIOUS
<1>2. r \in Seq(Nat) /\ Len(r) = Len(q) - 1 /\ \A i \in 1 .. Len(q) - 1 : r[i] = q[i + 1]
  OBVIOUS
<1> HIDE DEF r, h
<1>3. ToSet(q) = FirstOf(q, Len(q)) /\ ToSet(r) = FirstOf(r, Len(q) - 1)
  BY <1>2, ToSetIs
<1>4. \A i \in 1 .. Len(q) - 1 : i + 1 \in 1 .. Len(q) /\ i + 1 # 1
  BY <1>1
<1>5. Distinct(r)
  <2>1. ASSUME NEW i \in 1 .. Len(r), NEW j \in 1 .. Len(r), r[i] = r[j]
        PROVE  i = j
    <3>1. q[i + 1] = q[j + 1] /\ i + 1 \in 1 .. Len(q) /\ j + 1 \in 1 .. Len(q)
      BY <1>2, <1>4, <2>1
    <3>2. i + 1 = j + 1
      BY <3>1 DEF Distinct
    <3> QED
      BY <3>2
  <2> QED
    BY <2>1 DEF Distinct
<1>6. ASSUME NEW x \in FirstOf(r, Len(q) - 1)
      PROVE  x \in FirstOf(q, Len(q)) /\ x # h
  <2>1. PICK i \in 1 .. Len(q) - 1 : x = r[i]
    BY <1>6 DEF FirstOf
  <2>2. x = q[i + 1] /\ i + 1 \in 1 .. Len(q) /\ i + 1 # 1
    BY <1>2, <1>4, <2>1
  <2>3. x # q[1]
    BY <1>1, <2>2 DEF Distinct
  <2> QED
    BY <1>1, <2>2, <2>3 DEF FirstOf
<1>7. ASSUME NEW x \in FirstOf(q, Len(q)), x # h
      PROVE  x \in FirstOf(r, Len(q) - 1)
  <2>1. PICK i \in 1 .. Len(q) : x = q[i]
    BY <1>7 DEF FirstOf
  <2>2. i - 1 \in 1 .. Len(q) - 1 /\ (i - 1) + 1 = i
    BY <1>1, <1>7, <2>1
  <2>3. x = r[i - 1]
    BY <1>2, <2>1, <2>2
  <2> QED
    BY <2>2, <2>3 DEF FirstOf
<1>8. h \in FirstOf(q, Len(q))
  BY <1>1 DEF FirstOf
<1>9. ToSet(r) = ToSet(q) \ {h}
  BY <1>3, <1>6, <1>7
<1> QED
  BY <1>1, <1>2, <1>3, <1>5, <1>8, <1>9 DEF r, h

-----------------------------------------------------------------------------
(* CandidateSelector: the invariant                                        *)

DialPcs == {"idle", "get", "affine", "unbind", "order", "dial", "bind", "open", "drop"}

DialRow == [pc : DialPcs, key : Keys \cup {NoKey}, stage : StageRow,
            index : Nat, order : Seq(Nat), offered : SUBSET Nat]

\* A dial with a candidate in hand has it from its own list; one that works
\* down an order has the rest of it before it, each candidate once.
DialOK(r) ==
  /\ r.pc \in {"get", "affine", "unbind", "bind", "drop"} => r.key \in Keys
  /\ r.pc \in {"affine", "dial", "bind", "open", "drop"} =>
       r.index \in DOMAIN r.stage.nodes
  /\ r.pc = "dial" =>
       /\ r.order # <<>> /\ r.index = Head(r.order)
       /\ Distinct(r.order) /\ ToSet(r.order) \subseteq DOMAIN r.stage.nodes
       /\ r.stage.strategy # "single" => ToSet(r.order) = r.offered

DialsInv == dials \in [Dials -> DialRow] /\ \A d \in Dials : DialOK(dials[d])

TableInv ==
  /\ sessions \in [Keys -> [index : Nat, node : Nodes \cup {NoKey}, lastSeen : Nat]]
  /\ IsFiniteSet(Bound) /\ Cardinality(Bound) <= MaxEntries

\* A failure is recorded with the timeout that is set; while a configuration is
\* exchanged there is none of an earlier one, because the reset came first.
CooldownInv ==
  /\ failTimeout \in Nat /\ lastTimeout \in Nat
  /\ states \in [Nodes -> [fails : Nat, until : Nat]]
  /\ \A n \in Nodes :
       \/ states[n].until <= now + failTimeout
       \/ running = TRUE /\ states[n].until <= now + lastTimeout

SelectorInv ==
  /\ now \in Nat /\ cursor \in Nat /\ stage \in Stages
  /\ DialsInv /\ TableInv /\ CooldownInv

LEMMA StagesAre ==
  /\ Stages \subseteq StageRow /\ NoStage \in StageRow
  /\ NoKey \notin Keys /\ FailTimeouts \subseteq Nat /\ MaxEntries \in Nat \ {0} /\ MaxFails \in Nat
<1>1. <<>> \in Seq(Candidate)
  OBVIOUS
<1> QED
  BY <1>1, ConstantsAssumption DEF StageRow, NoStage, Strategies, Stages, FailTimeouts

LEMMA NoDialIs == NoDial \in DialRow /\ DialOK(NoDial)
<1>1. NoDial.pc = "idle"
  BY DEF NoDial
<1>2. NoDial \in DialRow
  <2>1. <<>> \in Seq(Nat) /\ {} \in SUBSET Nat /\ 0 \in Nat
    OBVIOUS
  <2> QED
    BY <2>1, StagesAre DEF NoDial, DialRow, DialPcs
<1> QED
  BY <1>1, <1>2 DEF DialOK

\* A step of one dial.
LEMMA OneDial ==
  ASSUME DialsInv, NEW d \in Dials, NEW r \in DialRow, DialOK(r),
         dials' = [dials EXCEPT ![d] = r]
  PROVE  DialsInv'
<1>1. dials' \in [Dials -> DialRow] /\ \A e \in Dials : dials'[e] = IF e = d THEN r ELSE dials[e]
  BY DEF DialsInv
<1>2. \A e \in Dials : DialOK(dials'[e])
  BY <1>1 DEF DialsInv
<1> QED
  BY <1>1, <1>2 DEF DialsInv

LEMMA EndedKeeps ==
  ASSUME DialsInv, NEW d \in Dials, Ended(d)
  PROVE  DialsInv'
BY OneDial, NoDialIs DEF Ended

LEMMA ResumeKeeps ==
  ASSUME DialsInv, NEW d \in Dials, NEW pc \in DialPcs \ {"dial"}, Resume(d, pc),
         pc \in {"get", "affine", "unbind", "bind", "drop"} => dials[d].key \in Keys,
         pc \in {"affine", "bind", "open", "drop"} =>
           dials[d].index \in DOMAIN dials[d].stage.nodes
  PROVE  DialsInv'
<1> DEFINE old == dials[d]
           r == [old EXCEPT !.pc = pc, !.order = <<>>, !.offered = {}]
<1>1. old \in DialRow /\ dials \in [Dials -> DialRow]
  BY DEF DialsInv
<1>2. dials' = [dials EXCEPT ![d] = r]
  BY <1>1 DEF Resume
<1>3. <<>> \in Seq(Nat) /\ {} \in SUBSET Nat
  OBVIOUS
<1> HIDE DEF old
<1>4. /\ r \in DialRow /\ r.pc = pc /\ r.key = old.key /\ r.stage = old.stage
      /\ r.index = old.index
  BY <1>1, <1>3 DEF DialRow
<1> HIDE DEF r
<1>5. DialOK(r)
  BY <1>4 DEF DialOK, old
<1> QED
  BY <1>2, <1>4, <1>5, OneDial

\* The table of bindings: nothing is added, or the new one has its room.
LEMMA TableShrinks ==
  ASSUME TableInv, Bound' \subseteq Bound,
         sessions' \in [Keys -> [index : Nat, node : Nodes \cup {NoKey}, lastSeen : Nat]]
  PROVE  TableInv'
<1>1. IsFiniteSet(Bound') /\ Cardinality(Bound') <= Cardinality(Bound)
  BY FS_Subset DEF TableInv
<1>2. Cardinality(Bound') \in Nat /\ Cardinality(Bound) \in Nat
  BY <1>1, FS_CardinalityType DEF TableInv
<1> QED
  BY <1>1, <1>2, StagesAre DEF TableInv

LEMMA UnboundRow ==
  Unbound \in [index : Nat, node : Nodes \cup {NoKey}, lastSeen : Nat]
BY DEF Unbound

LEMMA UnbindKeeps ==
  ASSUME TableInv, NEW k \in Keys, sessions' = [sessions EXCEPT ![k] = Unbound]
  PROVE  TableInv'
<1>1. sessions' \in [Keys -> [index : Nat, node : Nodes \cup {NoKey}, lastSeen : Nat]]
  BY UnboundRow DEF TableInv
<1>2. \A j \in Keys : sessions'[j] = IF j = k THEN Unbound ELSE sessions[j]
  BY DEF TableInv
<1>3. Bound' \subseteq Bound
  BY <1>2 DEF Bound
<1> QED
  BY <1>1, <1>3, TableShrinks

LEMMA BindKeeps ==
  ASSUME TableInv, NEW k \in Keys,
         NEW entry \in [index : Nat, node : Nodes \cup {NoKey}, lastSeen : Nat],
         Bind(k, entry)
  PROVE  TableInv'
<1> DEFINE Row == [index : Nat, node : Nodes \cup {NoKey}, lastSeen : Nat]
<1>1. Cardinality(Bound) \in Nat /\ IsFiniteSet(Bound) /\ Cardinality(Bound) <= MaxEntries
  BY FS_CardinalityType DEF TableInv
<1>2. MaxEntries \in Nat
  BY StagesAre
<1>3. CASE k \in Bound \/ Cardinality(Bound) < MaxEntries
  <2>1. sessions' = [sessions EXCEPT ![k] = entry]
    BY <1>3 DEF Bind
  <2>2. sessions' \in [Keys -> Row]
    BY <2>1 DEF TableInv
  <2>3. \A j \in Keys : j # k => sessions'[j] = sessions[j]
    BY <2>1 DEF TableInv
  <2>4. Bound' \subseteq Bound \cup {k}
    BY <2>3 DEF Bound
  <2>5. /\ IsFiniteSet(Bound \cup {k})
        /\ Cardinality(Bound \cup {k}) =
             IF k \in Bound THEN Cardinality(Bound) ELSE Cardinality(Bound) + 1
    BY <1>1, FS_AddElement
  <2>6. Cardinality(Bound \cup {k}) <= MaxEntries /\ Cardinality(Bound \cup {k}) \in Nat
    BY <1>1, <1>2, <1>3, <2>5
  <2>7. IsFiniteSet(Bound') /\ Cardinality(Bound') <= Cardinality(Bound \cup {k})
    BY <2>4, <2>5, FS_Subset
  <2>8. Cardinality(Bound') \in Nat
    BY <2>7, FS_CardinalityType
  <2>9. Cardinality(Bound') <= MaxEntries
    BY <1>2, <2>6, <2>7, <2>8
  <2> QED
    BY <2>2, <2>7, <2>9 DEF TableInv
<1>4. CASE ~(k \in Bound \/ Cardinality(Bound) < MaxEntries)
  <2>1. PICK victim \in Oldest :
          sessions' = [sessions EXCEPT ![victim] = Unbound, ![k] = entry]
    BY <1>4 DEF Bind
  <2>2. victim \in Bound /\ victim \in Keys /\ victim # k
    BY <1>4, <2>1 DEF Oldest, Bound
  <2>3. sessions' \in [Keys -> Row]
    BY <2>1, UnboundRow DEF TableInv
  <2>4. sessions'[victim] = Unbound
        /\ \A j \in Keys : j # k /\ j # victim => sessions'[j] = sessions[j]
    BY <2>1, <2>2 DEF TableInv
  <2> DEFINE rest == Bound \ {victim}
  <2>5. Bound' \subseteq rest \cup {k}
    BY <2>4 DEF Bound
  <2>6. k \notin rest
    BY <1>4
  <2>7. IsFiniteSet(rest) /\ Cardinality(rest) = Cardinality(Bound) - 1
    BY <1>1, <2>2, FS_RemoveElement
  <2> HIDE DEF rest
  <2>8. IsFiniteSet(rest \cup {k}) /\ Cardinality(rest \cup {k}) = Cardinality(rest) + 1
    BY <2>6, <2>7, FS_AddElement
  <2>9. Cardinality(rest \cup {k}) = Cardinality(Bound)
    BY <1>1, <2>7, <2>8
  <2>10. IsFiniteSet(Bound') /\ Cardinality(Bound') <= Cardinality(rest \cup {k})
    BY <2>5, <2>8, FS_Subset
  <2>11. Cardinality(Bound') \in Nat
    BY <2>10, FS_CardinalityType
  <2>12. Cardinality(Bound') <= MaxEntries
    BY <1>1, <1>2, <2>9, <2>10, <2>11
  <2> QED
    BY <2>3, <2>10, <2>12 DEF TableInv
<1> QED
  BY <1>3, <1>4

\* The failure state of the nodes.
\* A candidate that is bounded as CooldownInv says.
CoolsDown(r) ==
  /\ r \in [fails : Nat, until : Nat]
  /\ \/ r.until <= now + failTimeout
     \/ running = TRUE /\ r.until <= now + lastTimeout

\* A step that changes the record of some candidates.
LEMMA CooldownMoves ==
  ASSUME CooldownInv, UNCHANGED <<now, settings>>,
         states' = [n \in Nodes |-> states'[n]],
         \A n \in Nodes : states'[n] = states[n] \/ CoolsDown(states'[n])
  PROVE  CooldownInv'
BY DEF CooldownInv, CoolsDown, settings

\* A record without a failure is bounded.
LEMMA CooledIs ==
  ASSUME CooldownInv, now \in Nat,
         NEW r \in [fails : Nat, until : Nat], r.until = 0
  PROVE  CoolsDown(r)
<1>1. r.until <= now + failTimeout
  BY DEF CooldownInv
<1> QED
  BY Zenon, <1>1 DEF CoolsDown

LEMMA SuccessKeeps ==
  ASSUME CooldownInv, now \in Nat, UNCHANGED <<now, settings>>, NEW n, RecordSuccess(n)
  PROVE  CooldownInv'
<1>1. NoFailure \in [fails : Nat, until : Nat] /\ NoFailure.until = 0
  BY DEF NoFailure
<1>2. CoolsDown(NoFailure)
  BY <1>1, CooledIs
<1>3. /\ states' = [m \in Nodes |-> states'[m]]
      /\ \A m \in Nodes : states'[m] = IF m = n THEN NoFailure ELSE states[m]
  BY DEF CooldownInv, RecordSuccess
<1> QED
  BY <1>2, <1>3, CooldownMoves

LEMMA FailureKeeps ==
  ASSUME CooldownInv, now \in Nat, UNCHANGED <<now, settings>>,
         NEW n \in Nodes, RecordFailure(n)
  PROVE  CooldownInv'
<1> DEFINE until == IF FailsAfter(n) >= MaxFails THEN now + failTimeout ELSE states[n].until
           r == [fails |-> FailsAfter(n), until |-> until]
<1>1. /\ states[n] \in [fails : Nat, until : Nat] /\ failTimeout \in Nat
      /\ \/ states[n].until <= now + failTimeout
         \/ running = TRUE /\ states[n].until <= now + lastTimeout
  BY DEF CooldownInv
<1>2. FailsAfter(n) \in Nat
  BY <1>1, StagesAre DEF FailsAfter
<1>3. /\ until \in Nat
      /\ \/ until <= now + failTimeout
         \/ running = TRUE /\ until <= now + lastTimeout
  <2>1. until = now + failTimeout \/ until = states[n].until
    OBVIOUS
  <2> HIDE DEF until
  <2>2. CASE until = now + failTimeout
    <3>1. until \in Nat /\ until <= now + failTimeout
      BY <1>1, <2>2
    <3> QED
      BY Zenon, <3>1
  <2>3. CASE until = states[n].until
    <3>1. states[n].until \in Nat
      BY <1>1
    <3> QED
      BY Zenon, <1>1, <2>3, <3>1
  <2> QED
    BY <2>1, <2>2, <2>3
<1>4. states' = [states EXCEPT ![n] = r]
  BY DEF RecordFailure, CooldownInv
<1> HIDE DEF until
<1>5. CoolsDown(r)
  <2>1. r \in [fails : Nat, until : Nat] /\ r.until = until
    BY <1>2, <1>3
  <2> QED
    BY <1>3, <2>1 DEF CoolsDown
<1> HIDE DEF r
<1>6. /\ states' = [m \in Nodes |-> states'[m]]
      /\ \A m \in Nodes : states'[m] = IF m = n THEN r ELSE states[m]
  BY <1>4 DEF CooldownInv
<1> QED
  BY <1>5, <1>6, CooldownMoves

LEMMA RecoveredKeeps ==
  ASSUME CooldownInv, now \in Nat, UNCHANGED <<now, settings>>,
         NEW set, states' = Recovered(set)
  PROVE  CooldownInv'
<1>1. ASSUME NEW n \in Nodes
      PROVE  states'[n] = states[n] \/ CoolsDown(states'[n])
  <2> DEFINE r == [states[n] EXCEPT !.fails = 0, !.until = 0]
  <2>1. states[n] \in [fails : Nat, until : Nat]
    BY DEF CooldownInv
  <2>2. states'[n] = r \/ states'[n] = states[n]
    BY DEF Recovered
  <2>3. r \in [fails : Nat, until : Nat] /\ r.until = 0
    BY <2>1
  <2> HIDE DEF r
  <2> QED
    BY <2>2, <2>3, CooledIs
<1>2. states' = [n \in Nodes |-> states'[n]]
  BY DEF Recovered
<1> QED
  BY <1>1, <1>2, CooldownMoves

LEMMA NodeOfIs ==
  ASSUME DialsInv, NEW d \in Dials, dials[d].index \in DOMAIN dials[d].stage.nodes
  PROVE  NodeOf(d) \in Nodes
<1>1. dials[d].stage \in StageRow
  BY DEF DialsInv, DialRow
<1>2. dials[d].stage.nodes[dials[d].index] \in Candidate
  BY <1>1, StageIs
<1> QED
  BY <1>2 DEF NodeOf, Candidate

\* Steps that leave a part alone.
LEMMA TableStays ==
  ASSUME TableInv, UNCHANGED sessions
  PROVE  TableInv'
BY DEF TableInv, Bound

LEMMA CooldownStays ==
  ASSUME CooldownInv, UNCHANGED <<now, settings, states>>
  PROVE  CooldownInv'
BY DEF CooldownInv, settings

LEMMA DialsStay ==
  ASSUME DialsInv, UNCHANGED dials
  PROVE  DialsInv'
BY DEF DialsInv

LEMMA SelectorInvInit == SelectorInit => SelectorInv
<1> SUFFICES ASSUME SelectorInit
             PROVE  SelectorInv
  OBVIOUS
<1> USE DEF SelectorInit
<1>1. now \in Nat /\ cursor \in Nat /\ stage \in Stages
      /\ failTimeout \in Nat /\ lastTimeout \in Nat
  BY StagesAre DEF Stages, FailTimeouts
<1>2. DialsInv
  BY NoDialIs DEF DialsInv
<1>3. TableInv
  <2>1. Bound = {}
    BY DEF Bound
  <2>2. sessions \in [Keys -> [index : Nat, node : Nodes \cup {NoKey}, lastSeen : Nat]]
    BY UnboundRow
  <2> QED
    BY <2>1, <2>2, FS_EmptySet, StagesAre DEF TableInv
<1>4. CooldownInv
  BY <1>1 DEF CooldownInv, NoFailure
<1> QED
  BY <1>1, <1>2, <1>3, <1>4 DEF SelectorInv

LEMMA BeginKeeps ==
  ASSUME SelectorInv, NEW d \in Dials, Begin(d)
  PROVE  SelectorInv'
<1> USE DEF SelectorInv
<1>1. PICK k \in Keys \cup {NoKey} :
        dials' = [dials EXCEPT ![d] =
          [NoDial EXCEPT !.pc = IF k = NoKey THEN "order" ELSE "get",
                         !.key = k, !.stage = stage]]
  BY DEF Begin
<1> DEFINE pc == IF k = NoKey THEN "order" ELSE "get"
           r == [NoDial EXCEPT !.pc = pc, !.key = k, !.stage = stage]
<1>2. pc \in {"order", "get"} /\ (pc = "get" => k \in Keys) /\ stage \in StageRow
  BY StagesAre
<1> HIDE DEF pc
<1>3. r \in DialRow /\ r.pc = pc /\ r.key = k
  BY <1>2, NoDialIs DEF DialRow, DialPcs
<1>4. dials' = [dials EXCEPT ![d] = r]
  BY <1>1 DEF pc
<1> HIDE DEF r
<1>5. DialOK(r)
  BY <1>2, <1>3 DEF DialOK
<1>6. DialsInv'
  BY <1>3, <1>4, <1>5, OneDial
<1> QED
  BY <1>6, TableStays, CooldownStays DEF Begin, selector, settings

LEMMA GetKeeps ==
  ASSUME SelectorInv, NEW d \in Dials, Get(d)
  PROVE  SelectorInv'
<1> USE DEF SelectorInv
<1> DEFINE old == dials[d]
           k == old.key
           session == sessions[k]
           live == k \in Bound /\ ~Expired(session)
           usable == live /\ Usable(old.stage, session)
           past == live /\ session.index \notin DOMAIN old.stage.nodes
           pc == IF usable THEN "affine" ELSE IF past THEN "unbind" ELSE "order"
           index == IF usable THEN session.index ELSE 0
           entry == IF live THEN [session EXCEPT !.lastSeen = now] ELSE Unbound
           r == [old EXCEPT !.pc = pc, !.index = index]
<1>1. /\ sessions' = [sessions EXCEPT ![k] = entry]
      /\ dials' = [dials EXCEPT ![d].pc = pc, ![d].index = index]
      /\ UNCHANGED <<now, settings, selector>>
      /\ old.pc = "get"
  BY DEF Get, At
<1>2. old \in DialRow /\ dials \in [Dials -> DialRow] /\ k \in Keys
  BY <1>1 DEF DialsInv, DialOK
<1>3. session \in [index : Nat, node : Nodes \cup {NoKey}, lastSeen : Nat]
  BY <1>2 DEF TableInv
<1>4. dials' = [dials EXCEPT ![d] = r]
  BY <1>1, <1>2
<1>5. /\ pc \in {"affine", "unbind", "order"} /\ index \in Nat
      /\ pc = "affine" => index \in DOMAIN old.stage.nodes
  BY <1>3 DEF Usable
<1> HIDE DEF pc, index
<1>6. r \in DialRow /\ r.pc = pc /\ r.key = k /\ r.index = index /\ r.stage = old.stage
  BY <1>2, <1>5 DEF DialRow, DialPcs
<1> HIDE DEF r
<1>7. DialOK(r)
  BY <1>2, <1>5, <1>6 DEF DialOK
<1>8. DialsInv'
  BY <1>4, <1>6, <1>7, OneDial
<1>9. TableInv'
  <2>1. entry \in [index : Nat, node : Nodes \cup {NoKey}, lastSeen : Nat]
    <3>1. [session EXCEPT !.lastSeen = now] \in [index : Nat, node : Nodes \cup {NoKey}, lastSeen : Nat]
      BY <1>3
    <3> QED
      BY <3>1, UnboundRow
  <2>2. entry # Unbound => k \in Bound
    OBVIOUS
  <2> HIDE DEF entry, session, k
  <2>3. /\ sessions' \in [Keys -> [index : Nat, node : Nodes \cup {NoKey}, lastSeen : Nat]]
        /\ \A j \in Keys : sessions'[j] = IF j = k THEN entry ELSE sessions[j]
    BY <1>1, <2>1 DEF TableInv
  <2>4. Bound' \subseteq Bound
    BY <2>2, <2>3 DEF Bound
  <2> QED
    BY <2>3, <2>4, TableShrinks
<1> QED
  BY <1>1, <1>8, <1>9, CooldownStays DEF selector, settings

LEMMA DialBoundKeeps ==
  ASSUME SelectorInv, NEW d \in Dials, DialBound(d)
  PROVE  SelectorInv'
<1> USE DEF SelectorInv
<1>1. /\ dials[d].pc = "affine" /\ UNCHANGED <<now, settings, cursor, sessions>>
      /\ \/ RecordSuccess(NodeOf(d)) /\ Resume(d, "open")
         \/ RecordFailure(NodeOf(d)) /\ Resume(d, "unbind")
  BY DEF DialBound, At
<1>2. dials[d].index \in DOMAIN dials[d].stage.nodes
  BY <1>1 DEF DialsInv, DialOK
<1>3. dials[d].key \in Keys
  BY <1>1 DEF DialsInv, DialOK
<1>4. DialsInv'
  <2>1. "open" \in DialPcs \ {"dial"} /\ "unbind" \in DialPcs \ {"dial"}
    BY DEF DialPcs
  <2> QED
    BY <1>1, <1>2, <1>3, <2>1, ResumeKeeps
<1>5. CooldownInv'
  BY <1>1, <1>2, NodeOfIs, SuccessKeeps, FailureKeeps
<1> QED
  BY <1>1, <1>4, <1>5, TableStays DEF settings

LEMMA UnbindStepKeeps ==
  ASSUME SelectorInv, NEW d \in Dials, Unbind(d)
  PROVE  SelectorInv'
<1> USE DEF SelectorInv
<1>1. /\ dials[d].pc = "unbind" /\ UNCHANGED <<now, settings, selector>>
      /\ sessions' = [sessions EXCEPT ![dials[d].key] = Unbound] /\ Resume(d, "order")
  BY DEF Unbind, At
<1>2. dials[d].key \in Keys
  BY <1>1 DEF DialsInv, DialOK
<1>3. DialsInv'
  <2>1. "order" \in DialPcs \ {"dial"}
    BY DEF DialPcs
  <2> QED
    BY <1>1, <2>1, ResumeKeeps
<1>4. TableInv'
  BY <1>1, <1>2, UnbindKeeps
<1> QED
  BY <1>1, <1>3, <1>4, CooldownStays DEF selector, settings

LEMMA OrderKeeps ==
  ASSUME SelectorInv, NEW d \in Dials, Order(d)
  PROVE  SelectorInv'
<1> USE DEF SelectorInv
<1> DEFINE old == dials[d]
           s == old.stage
           none == Candidates(s) = <<>>
           pool == WeightedPool(s)
           free == {i \in ToSet(Candidates(s)) : Available(s.nodes[i].node)}
<1>1. PICK ranked \in IF none THEN {<<>>} ELSE Ranked(s) :
        /\ states' = IF s.strategy = "single" THEN states
                     ELSE Recovered(NodesOf(s, ToSet(ranked)))
        /\ cursor' = IF none \/ s.strategy # "round_robin" THEN cursor
                     ELSE ((cursor % Len(pool)) + 1) % Len(pool)
        /\ dials' = [dials EXCEPT ![d] =
             IF Offered(s, ranked) = <<>> THEN NoDial
             ELSE [@ EXCEPT !.pc = "dial", !.order = Offered(s, ranked),
                            !.index = Head(Offered(s, ranked)),
                            !.offered = free]]
  BY DEF Order
<1>2. UNCHANGED <<now, settings, sessions>>
  BY DEF Order
<1> DEFINE order == Offered(s, ranked)
           r == [old EXCEPT !.pc = "dial", !.order = order, !.index = Head(order),
                            !.offered = free]
<1>3. old \in DialRow /\ s \in StageRow /\ dials \in [Dials -> DialRow]
  BY DEF DialsInv, DialRow
<1>4. cursor' \in Nat
  <2>1. CASE none \/ s.strategy # "round_robin"
    BY <1>1, <2>1
  <2>2. CASE ~(none \/ s.strategy # "round_robin")
    <3>1. Len(pool) \in Nat \ {0}
      BY <1>3, <2>2, PoolIs
    <3>2. cursor' = ((cursor % Len(pool)) + 1) % Len(pool)
      BY <1>1, <2>2
    <3> HIDE DEF pool
    <3> QED
      BY <3>1, <3>2
  <2> QED
    BY <2>1, <2>2
<1>5. CooldownInv'
  <2>1. CASE s.strategy = "single"
    BY <1>1, <1>2, <2>1, CooldownStays
  <2>2. CASE s.strategy # "single"
    BY <1>1, <1>2, <2>2, RecoveredKeeps
  <2> QED
    BY <2>1, <2>2
<1>6. DialsInv'
  <2>1. CASE order = <<>>
    BY <1>1, <2>1, NoDialIs, OneDial
  <2>2. CASE order # <<>>
    <3>1. ~none
      <4>1. SUFFICES ASSUME none
                     PROVE  FALSE
        OBVIOUS
      <4>2. ranked = <<>>
        BY <1>1, <4>1
      <4>3. CASE s.strategy = "single"
        BY <2>2, <4>2, <4>3 DEF Offered
      <4>4. CASE s.strategy # "single"
        <5> DEFINE ready == {i \in DOMAIN s.nodes : Available(s.nodes[i].node)}
        <5>1. order = Keep(<<>>, ready)
          BY <4>2, <4>4 DEF Offered
        <5> HIDE DEF ready
        <5>2. order \in Seq(Nat) /\ ToSet(order) = {}
          <6>1. <<>> \in Seq(Nat) /\ ToSet(<<>>) = {}
            BY EmptyIs
          <6>2. /\ Keep(<<>>, ready) \in Seq(Nat)
                /\ ToSet(Keep(<<>>, ready)) = ToSet(<<>>) \cap ready
            BY <6>1, KeepTakes
          <6> QED
            BY <5>1, <6>1, <6>2
        <5> HIDE DEF order
        <5>3. 1 \in 1 .. Len(order) /\ Len(order) \in Nat
          BY <2>2, <5>2
        <5>4. order[1] \in ToSet(order)
          <6>1. order[1] \in FirstOf(order, Len(order))
            BY <5>3 DEF FirstOf
          <6> QED
            BY <5>2, <6>1, ToSetIs
        <5> QED
          BY <5>2, <5>4
      <4> QED
        BY <4>3, <4>4
    <3>2. ranked \in Ranked(s)
      BY <1>1, <3>1
    <3>3. /\ order \in Seq(Nat) /\ Distinct(order) /\ ToSet(order) \subseteq DOMAIN s.nodes
          /\ s.strategy # "single" => ToSet(order) = free
      BY <1>3, <3>1, <3>2, OfferedIs
    <3>4. free \in SUBSET Nat
      BY <1>3, CandidatesAre, ToSetIs
    <3>5. dials' = [dials EXCEPT ![d] = r]
      BY <1>1, <1>3, <2>2
    <3> HIDE DEF order, free
    <3>6. Head(order) \in ToSet(order) /\ Head(order) \in Nat
      BY <2>2, <3>3, TailOf
    <3> HIDE DEF old
    <3>7. /\ r \in DialRow /\ r.pc = "dial" /\ r.stage = old.stage /\ r.order = order
          /\ r.index = Head(order) /\ r.offered = free
      BY <1>3, <3>3, <3>4, <3>6 DEF DialRow, DialPcs
    <3> HIDE DEF r
    <3>8. DialOK(r)
      BY <2>2, <3>3, <3>6, <3>7 DEF DialOK
    <3> QED
      BY <3>5, <3>7, <3>8, OneDial
  <2> QED
    BY <2>1, <2>2
<1> QED
  BY <1>2, <1>4, <1>5, <1>6, TableStays DEF settings

LEMMA DialNextKeeps ==
  ASSUME SelectorInv, NEW d \in Dials, DialNext(d)
  PROVE  SelectorInv'
<1> USE DEF SelectorInv
<1> DEFINE old == dials[d]
           rest == Tail(old.order)
           r == [old EXCEPT !.order = rest, !.index = Head(rest),
                            !.offered = @ \ {old.index}]
           next == IF rest = <<>> THEN NoDial ELSE r
           opened == IF old.key = NoKey THEN "open" ELSE "bind"
<1>1. /\ old.pc = "dial" /\ UNCHANGED <<now, settings, cursor, sessions>>
      /\ \/ RecordSuccess(NodeOf(d)) /\ Resume(d, opened)
         \/ RecordFailure(NodeOf(d)) /\ dials' = [dials EXCEPT ![d] = next]
  BY DEF DialNext, At
<1> HIDE DEF next, opened
<1>2. /\ old \in DialRow /\ DialOK(old) /\ dials \in [Dials -> DialRow]
      /\ old.index \in DOMAIN old.stage.nodes
  BY <1>1 DEF DialsInv, DialOK
<1>3. CooldownInv'
  BY <1>1, <1>2, NodeOfIs, SuccessKeeps, FailureKeeps
<1>4. CASE RecordSuccess(NodeOf(d)) /\ Resume(d, opened)
  <2>1. old.key \in Keys \cup {NoKey}
    BY <1>2 DEF DialRow
  <2>2. "open" \in DialPcs \ {"dial"} /\ "bind" \in DialPcs \ {"dial"}
    BY DEF DialPcs
  <2>3. CASE old.key = NoKey
    <3>1. Resume(d, "open")
      BY <1>4, <2>3 DEF opened
    <3>2. DialsInv'
      BY <1>2, <2>2, <3>1, ResumeKeeps
    <3> QED
      BY <1>1, <1>3, <3>2, TableStays DEF settings
  <2>4. CASE old.key # NoKey
    <3>1. Resume(d, "bind") /\ old.key \in Keys
      BY <1>4, <2>1, <2>4 DEF opened
    <3>2. DialsInv'
      BY <1>2, <2>2, <3>1, ResumeKeeps
    <3> QED
      BY <1>1, <1>3, <3>2, TableStays DEF settings
  <2> QED
    BY <2>3, <2>4
<1>5. CASE dials' = [dials EXCEPT ![d] = next]
  <2>1. CASE rest = <<>>
    <3>1. dials' = [dials EXCEPT ![d] = NoDial]
      BY <1>5, <2>1 DEF next
    <3>2. DialsInv'
      BY <3>1, NoDialIs, OneDial
    <3> QED
      BY <1>1, <1>3, <3>2, TableStays DEF settings
  <2>2. CASE rest # <<>>
    <3>1. dials' = [dials EXCEPT ![d] = r]
      BY <1>5, <2>2 DEF next
    <3>2. /\ old.order \in Seq(Nat) /\ old.order # <<>> /\ Distinct(old.order)
          /\ ToSet(old.order) \subseteq DOMAIN old.stage.nodes
          /\ old.index = Head(old.order)
          /\ old.stage.strategy # "single" => ToSet(old.order) = old.offered
      BY <1>1, <1>2 DEF DialOK, DialRow
    <3>3. /\ rest \in Seq(Nat) /\ Distinct(rest)
          /\ ToSet(rest) = ToSet(old.order) \ {old.index}
      BY <3>2, TailOf
    <3> HIDE DEF rest
    <3>4. Head(rest) \in ToSet(rest) /\ Head(rest) \in Nat
      BY <2>2, <3>3, TailOf
    <3>5. old.offered \ {old.index} \in SUBSET Nat
      BY <1>2 DEF DialRow
    <3> HIDE DEF old
    <3>6. /\ r \in DialRow /\ r.pc = "dial" /\ r.stage = old.stage /\ r.order = rest
          /\ r.index = Head(rest) /\ r.offered = old.offered \ {old.index}
      BY <1>1, <1>2, <3>3, <3>4, <3>5 DEF DialRow
    <3> HIDE DEF r
    <3>7. DialOK(r)
      BY <2>2, <3>2, <3>3, <3>4, <3>6 DEF DialOK
    <3>8. DialsInv'
      BY <3>1, <3>6, <3>7, OneDial
    <3> QED
      BY <1>1, <1>3, <3>8, TableStays DEF settings
  <2> QED
    BY <2>1, <2>2
<1> QED
  BY <1>1, <1>4, <1>5

LEMMA BindChosenKeeps ==
  ASSUME SelectorInv, NEW d \in Dials, BindChosen(d)
  PROVE  SelectorInv'
<1> USE DEF SelectorInv
<1> DEFINE entry == [index |-> dials[d].index, node |-> NodeOf(d), lastSeen |-> now]
<1>1. /\ dials[d].pc = "bind" /\ UNCHANGED <<now, settings, selector>>
      /\ Bind(dials[d].key, entry) /\ Resume(d, "open")
  BY DEF BindChosen, At
<1>2. /\ dials[d].key \in Keys /\ dials[d].index \in DOMAIN dials[d].stage.nodes
      /\ dials[d].index \in Nat
  BY <1>1 DEF DialsInv, DialOK, DialRow
<1>3. DialsInv'
  <2>1. "open" \in DialPcs \ {"dial"}
    BY DEF DialPcs
  <2> QED
    BY <1>1, <1>2, <2>1, ResumeKeeps
<1>4. entry \in [index : Nat, node : Nodes \cup {NoKey}, lastSeen : Nat]
  BY <1>2, NodeOfIs
<1>5. TableInv'
  BY <1>1, <1>2, <1>4, BindKeeps
<1> QED
  BY <1>1, <1>3, <1>5, CooldownStays DEF selector, settings

LEMMA StreamFailsKeeps ==
  ASSUME SelectorInv, NEW d \in Dials, StreamFails(d)
  PROVE  SelectorInv'
<1> USE DEF SelectorInv
<1>1. /\ dials[d].pc = "open" /\ dials[d].key # NoKey
      /\ UNCHANGED <<now, settings, cursor, sessions>>
      /\ RecordFailure(NodeOf(d)) /\ Resume(d, "drop")
  BY DEF StreamFails, At
<1>2. /\ dials[d].key \in Keys
      /\ dials[d].index \in DOMAIN dials[d].stage.nodes
  BY <1>1 DEF DialsInv, DialOK, DialRow
<1>3. DialsInv'
  <2>1. "drop" \in DialPcs \ {"dial"}
    BY DEF DialPcs
  <2> QED
    BY <1>1, <1>2, <2>1, ResumeKeeps
<1>4. CooldownInv'
  BY <1>1, <1>2, NodeOfIs, FailureKeeps
<1> QED
  BY <1>1, <1>3, <1>4, TableStays DEF settings

LEMMA DropBindingKeeps ==
  ASSUME SelectorInv, NEW d \in Dials, DropBinding(d)
  PROVE  SelectorInv'
<1> USE DEF SelectorInv
<1>1. /\ dials[d].pc = "drop" /\ UNCHANGED <<now, settings, selector>>
      /\ sessions' = [sessions EXCEPT ![dials[d].key] = Unbound] /\ Ended(d)
  BY DEF DropBinding, At
<1>2. dials[d].key \in Keys
  BY <1>1 DEF DialsInv, DialOK
<1>3. TableInv'
  BY <1>1, <1>2, UnbindKeeps
<1> QED
  BY <1>1, <1>3, EndedKeeps, CooldownStays DEF selector, settings

LEMMA CloseStreamKeeps ==
  ASSUME SelectorInv, NEW d \in Dials, CloseStream(d)
  PROVE  SelectorInv'
BY EndedKeeps, CooldownStays, TableStays DEF SelectorInv, CloseStream, selector, settings

LEMMA GCKeeps ==
  ASSUME SelectorInv, GC
  PROVE  SelectorInv'
<1> USE DEF SelectorInv
<1>1. \A k \in Keys : sessions'[k] = Unbound \/ sessions'[k] = sessions[k]
  BY DEF GC
<1>2. sessions' = [k \in Keys |-> sessions'[k]]
  BY DEF GC
<1>3. sessions' \in [Keys -> [index : Nat, node : Nodes \cup {NoKey}, lastSeen : Nat]]
  BY <1>1, <1>2, UnboundRow DEF TableInv
<1>4. Bound' \subseteq Bound
  BY <1>1 DEF Bound
<1>5. TableInv'
  BY <1>3, <1>4, TableShrinks
<1>6. UNCHANGED <<now, settings, selector, dials>>
  BY DEF GC
<1> QED
  BY <1>5, <1>6, DialsStay, CooldownStays DEF selector, settings

LEMMA StopStageKeeps ==
  ASSUME SelectorInv, StopStage
  PROVE  SelectorInv'
<1> USE DEF SelectorInv, StopStage
<1>1. sessions' \in [Keys -> [index : Nat, node : Nodes \cup {NoKey}, lastSeen : Nat]]
  BY UnboundRow
<1>2. Bound' \subseteq Bound
  BY DEF Bound
<1>3. TableInv'
  BY <1>1, <1>2, TableShrinks
<1>4. CooldownInv'
  BY DEF CooldownInv, NoFailure
<1>5. cursor' \in Nat
  OBVIOUS
<1> QED
  BY <1>3, <1>4, <1>5, DialsStay

\* The timeout that was in force becomes the last one, so that what dials of the
\* stopped runtime left stays within it.
LEMMA ApplyStageKeeps ==
  ASSUME SelectorInv, ApplyStage
  PROVE  SelectorInv'
<1> USE DEF SelectorInv, ApplyStage
<1>1. stage' \in Stages /\ failTimeout' \in Nat
  BY StagesAre DEF Stages, FailTimeouts
<1>2. CooldownInv'
  BY <1>1 DEF CooldownInv, selector
<1> QED
  BY <1>1, <1>2, DialsStay, TableStays DEF selector

LEMMA TickKeeps ==
  ASSUME SelectorInv, Tick
  PROVE  SelectorInv'
<1> USE DEF SelectorInv, Tick
<1>1. now \in Nat /\ now' = now + 1
  OBVIOUS
<1>2. CooldownInv'
  BY <1>1 DEF CooldownInv, selector, settings
<1> QED
  BY <1>1, <1>2, DialsStay, TableStays DEF selector, settings

LEMMA SelectorStep == SelectorInv /\ [SelectorNext]_selectorVars => SelectorInv'
<1> SUFFICES ASSUME SelectorInv, [SelectorNext]_selectorVars
             PROVE  SelectorInv'
  OBVIOUS
<1>1. CASE \E d \in Dials : Begin(d) \/ DialStep(d) \/ CloseStream(d) \/ StreamFails(d)
  BY <1>1, BeginKeeps, GetKeeps, DialBoundKeeps, UnbindStepKeeps, OrderKeeps, DialNextKeeps,
     BindChosenKeeps, DropBindingKeeps, CloseStreamKeeps, StreamFailsKeeps DEF DialStep
<1>2. CASE GC \/ StopStage \/ ApplyStage \/ Tick
  BY <1>2, GCKeeps, StopStageKeeps, ApplyStageKeeps, TickKeeps
<1>3. CASE UNCHANGED selectorVars
  BY <1>3, DialsStay, TableStays, CooldownStays DEF SelectorInv, selectorVars, settings
<1> QED
  BY <1>1, <1>2, <1>3 DEF SelectorNext

LEMMA SelectorAlways == SelectorSpec => []SelectorInv
BY SelectorInvInit, SelectorStep, PTL DEF SelectorSpec

\* The cooldown of a candidate, which every failure sets anew, is never longer
\* than one failure_cooldown_seconds from now, of the configuration in force or
\* of the one before it, however configurations change the timeout
\* (recordFailure, reset, setFailTimeout).
THEOREM CooldownsAreBounded == SelectorSpec => []CooldownBounded
<1>1. SelectorInv => CooldownBounded
  BY DEF SelectorInv, CooldownInv, CooldownBounded
<1> QED
  BY <1>1, SelectorAlways, PTL

\* The table of UDP bindings keeps its limit, and no dial leaves the list of
\* candidates of its own configuration (udpCandidateSessions).
THEOREM AffinityKeepsToTheList == SelectorSpec => []AffinitySafe
<1>1. SelectorInv => AffinitySafe
  BY DEF SelectorInv, DialsInv, DialOK, TableInv, AffinitySafe
<1> QED
  BY <1>1, SelectorAlways, PTL

\* Whatever the strategy, the weights and the cursor, the candidates a dial
\* has before it are the available ones it has not tried, each once
\* (candidateSelector.order).
THEOREM OrdersAreComplete == SelectorSpec => []OrderIsComplete
<1>1. SelectorInv => OrderIsComplete
  <2> SUFFICES ASSUME SelectorInv, NEW d \in Dials,
                      At(d, "dial"), dials[d].stage.strategy # "single"
               PROVE  /\ ToSet(dials[d].order) = dials[d].offered
                      /\ Len(dials[d].order) = Cardinality(dials[d].offered)
    BY DEF OrderIsComplete
  <2>1. /\ dials[d].order \in Seq(Nat) /\ Distinct(dials[d].order)
        /\ ToSet(dials[d].order) = dials[d].offered
    BY DEF SelectorInv, DialsInv, DialRow, DialOK, At
  <2> QED
    BY <2>1, DistinctLength
<1> QED
  BY <1>1, SelectorAlways, PTL
=============================================================================
