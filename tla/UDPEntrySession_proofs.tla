----------------------- MODULE UDPEntrySession_proofs -----------------------
(***************************************************************************)
(* No transport is leaked, the table holds the live session, and what the  *)
(* first transport of a session took goes to no other one, and the byte    *)
(* count of a queue is that of its datagrams: for any number of datagrams, *)
(* sessions, transports, runtimes and attempts.                            *)
(***************************************************************************)
EXTENDS UDPEntrySession, FiniteSetTheorems, WellFoundedInduction, TLAPS

\* TypeOK, and what it takes to follow the model's numbers into its sequences.
Typed ==
  /\ TypeOK
  /\ entry \in 0 .. Len(sess)
  /\ \A g \in Gen :
       /\ listener[g].session \in 0 .. Len(sess)
       /\ listener[g].pc \in {"enqueue", "check", "delete", "close", "closing"} => listener[g].session # 0
       /\ listener[g].pc # "idle" => listener[g].payload \in Datagram

\* How a session q with number s and the transports T belong together: its
\* transport is its own; so is the one it has just opened; every other one it
\* opened is closed; and so is the current one when it is to be replaced.  Its
\* goroutine leaves a closed session.  What is taken from the queue is a datagram.
Linked(s, q, T) ==
  /\ q.transport \in 0 .. Len(T) /\ q.next \in 0 .. Len(T)
  /\ q.transport # 0 => T[q.transport].owner = s
  /\ q.pc = "replace" => q.next # 0 /\ T[q.next].owner = s
  /\ q.pc \in {"loop", "dequeue", "send", "retry", "resend"} => q.transport # 0
  /\ \A t \in 1 .. Len(T) :
       T[t].owner = s /\ T[t].open => t = q.transport \/ (q.pc = "replace" /\ t = q.next)
  /\ q.pc \in {"open", "reopen", "replace"} => q.transport = 0 \/ ~T[q.transport].open
  /\ q.pc \in {"closing", "delete", "done"} => q.closed
  /\ q.pc = "dequeue" => q.pending \in Datagram

Links ==
  /\ \A s \in 1 .. Len(sess) : Linked(s, sess[s], trans)
  /\ \A t \in 1 .. Len(trans) : trans[t].owner \in 1 .. Len(sess)

\* Nobody works for a runtime that has not started.
Started ==
  /\ \A s \in 1 .. Len(sess) : sess[s].gen <= runtime.gen
  /\ \A g \in Gen : listener[g].pc # "idle" => g <= runtime.gen

\* Who empties the table has a session in hand when it closes one; closeAll runs
\* for a cancelled runtime, and the watcher of one that has started.
Sweepers ==
  /\ \A w \in 0 .. MaxGen :
       /\ sweeper[w].session \in 0 .. Len(sess)
       /\ sweeper[w].pc \in {"close", "closing"} => sweeper[w].session # 0
  /\ sweeper[0].pc # "idle" => runtime.phase = "cancelled"
  /\ \A w \in 0 .. MaxGen : sweeper[w].pc # "idle" => w <= runtime.gen

\* The inductive invariant.
IInv == Typed /\ Links /\ Started /\ Sweepers /\ OneLiveSession

-----------------------------------------------------------------------------
(* Sequences and sets *)

\* One element of a sequence is replaced.
LEMMA ElementReplaced ==
  ASSUME NEW S, NEW f \in Seq(S), NEW i \in DOMAIN f, NEW x \in S,
         NEW f2, f2 = [f EXCEPT ![i] = x]
  PROVE  /\ f2 \in Seq(S) /\ Len(f2) = Len(f) /\ f2[i] = x
         /\ \A j \in (1 .. Len(f)) \ {i} : f2[j] = f[j]
OBVIOUS

\* One element comes at the end.
LEMMA AppendIs ==
  ASSUME NEW S, NEW f \in Seq(S), NEW x \in S
  PROVE  /\ Append(f, x) \in Seq(S) /\ Len(Append(f, x)) = Len(f) + 1
         /\ Append(f, x)[Len(f) + 1] = x
         /\ \A j \in 1 .. Len(f) : Append(f, x)[j] = f[j]
OBVIOUS

LEMMA DomainIs ==
  ASSUME NEW S, NEW f \in Seq(S)
  PROVE  DOMAIN f = 1 .. Len(f) /\ Len(f) \in Nat /\ \A i \in 1 .. Len(f) : f[i] \in S
OBVIOUS

LEMMA TailIs ==
  ASSUME NEW S, NEW f \in Seq(S), f # <<>>
  PROVE  Head(f) \in S /\ Tail(f) \in Seq(S)
OBVIOUS

\* The larger of two numbers.
LEMMA MaxOfTwo ==
  ASSUME NEW a \in Int, NEW b \in Int
  PROVE  Max({a, b}) \in Int
<1>1. \E x \in {a, b} : \A y \in {a, b} : x >= y
  OBVIOUS
<1> QED
  BY <1>1 DEF Max

-----------------------------------------------------------------------------
(* Transports *)

\* What may become of the transports while they are used: more come, none
\* changes hands, none is opened again.
Later(T, T2) ==
  /\ T2 \in Seq(Transport) /\ Len(T) <= Len(T2)
  /\ \A t \in 1 .. Len(T) : T2[t].owner = T[t].owner /\ (T2[t].open => T[t].open)

LEMMA SameIsLater ==
  ASSUME NEW T \in Seq(Transport)
  PROVE  Later(T, T)
BY DomainIs DEF Later

\* CloseTransport closes one transport, and changes nothing else.
LEMMA CloseTransportIs ==
  ASSUME NEW T \in Seq(Transport), NEW t \in 0 .. Len(T)
  PROVE  /\ Later(T, CloseTransport(T, t)) /\ Len(CloseTransport(T, t)) = Len(T)
         /\ t # 0 => ~CloseTransport(T, t)[t].open
<1>1. DOMAIN T = 1 .. Len(T) /\ Len(T) \in Nat /\ \A i \in 1 .. Len(T) : T[i] \in Transport
  BY DomainIs
<1>2. CASE t = 0
  BY <1>2, SameIsLater, DomainIs DEF CloseTransport
<1>3. CASE t # 0
  <2> DEFINE x == [T[t] EXCEPT !.open = FALSE]
  <2>1. t \in DOMAIN T /\ T[t] \in Transport
    BY <1>1, <1>3
  <2>2. x \in Transport /\ x.owner = T[t].owner /\ x.open = FALSE
    BY <2>1 DEF Transport
  <2>3. CloseTransport(T, t) = [T EXCEPT ![t] = x]
    BY <1>3 DEF CloseTransport
  <2> HIDE DEF x
  <2>4. /\ CloseTransport(T, t) \in Seq(Transport) /\ Len(CloseTransport(T, t)) = Len(T)
        /\ CloseTransport(T, t)[t] = x
        /\ \A j \in (1 .. Len(T)) \ {t} : CloseTransport(T, t)[j] = T[j]
    BY <2>1, <2>2, <2>3, ElementReplaced
  <2> QED
    BY <1>1, <2>2, <2>4 DEF Later
<1> QED
  BY <1>2, <1>3

\* openUDPEntryTransport.
LEMMA NewTransportIs ==
  ASSUME NEW s \in 1 .. MaxSessions
  PROVE  NewTransport(s) \in Transport /\ NewTransport(s).owner = s
<1>1. <<>> \in Seq({"response", "error"})
  OBVIOUS
<1> QED
  BY <1>1 DEF NewTransport, Transport

\* A session that takes no part in a step keeps its transports.
LEMMA OthersStayLinked ==
  ASSUME NEW T \in Seq(Transport), NEW T2, Later(T, T2), NEW s, NEW q, Linked(s, q, T),
         \A t \in Len(T) + 1 .. Len(T2) : T2[t].owner # s
  PROVE  Linked(s, q, T2)
<1>1. Len(T) \in Nat /\ Len(T2) \in Nat /\ Len(T) <= Len(T2)
  BY DomainIs DEF Later
<1>2. \A t \in 1 .. Len(T) : T2[t].owner = T[t].owner /\ (T2[t].open => T[t].open)
  BY DEF Later
<1>3. \A t \in 1 .. Len(T2) : T2[t].owner = s => t \in 1 .. Len(T)
  BY <1>1
<1> QED
  BY <1>1, <1>2, <1>3 DEF Linked

-----------------------------------------------------------------------------
(* Steps of a session *)

\* One session goes on as q, its transports may change, and those of the others
\* do not.
LEMMA SessionStep ==
  ASSUME Typed, Links, NEW s \in 1 .. Len(sess), NEW q \in Session,
         sess' = [sess EXCEPT ![s] = q], Later(trans, trans'),
         \A t \in Len(trans) + 1 .. Len(trans') : trans'[t].owner = s,
         Linked(s, q, trans')
  PROVE  /\ Links' /\ sess' \in Seq(Session) /\ Len(sess') = Len(sess) /\ sess'[s] = q
         /\ \A p \in (1 .. Len(sess)) \ {s} : sess'[p] = sess[p]
<1>1. sess \in Seq(Session) /\ trans \in Seq(Transport)
  BY DEF Typed, TypeOK
<1>2. DOMAIN sess = 1 .. Len(sess)
  BY <1>1, DomainIs
<1>3. /\ sess' \in Seq(Session) /\ Len(sess') = Len(sess) /\ sess'[s] = q
      /\ \A p \in (1 .. Len(sess)) \ {s} : sess'[p] = sess[p]
  BY <1>1, <1>2, ElementReplaced
<1>4. ASSUME NEW p \in 1 .. Len(sess) PROVE Linked(p, sess'[p], trans')
  <2>1. CASE p = s
    BY <1>3, <2>1
  <2>2. CASE p # s
    <3>1. Linked(p, sess[p], trans) /\ sess'[p] = sess[p]
      BY <1>3, <1>4, <2>2 DEF Links
    <3>2. \A t \in Len(trans) + 1 .. Len(trans') : trans'[t].owner # p
      BY <2>2
    <3> QED
      BY <1>1, <3>1, <3>2, OthersStayLinked
  <2> QED
    BY <2>1, <2>2
<1>5. \A t \in 1 .. Len(trans') : trans'[t].owner \in 1 .. Len(sess')
  <2>1. Len(trans) \in Nat /\ Len(trans') \in Nat
    BY <1>1, DomainIs DEF Later
  <2>2. \A t \in 1 .. Len(trans') : t \in 1 .. Len(trans) \/ t \in Len(trans) + 1 .. Len(trans')
    BY <2>1
  <2> QED
    BY <1>3, <2>2 DEF Links, Later
<1>6. Links'
  BY <1>3, <1>4, <1>5 DEF Links, Linked
<1> QED
  BY <1>3, <1>6

\* One session goes on as q; the table, the listeners and the runtime stay.
LEMMA SessionMoves ==
  ASSUME IInv, NEW s \in 1 .. Len(sess), NEW q \in Session,
         sess' = [sess EXCEPT ![s] = q], Later(trans, trans'), Len(trans') <= MaxTransports,
         \A t \in Len(trans) + 1 .. Len(trans') : trans'[t].owner = s,
         Linked(s, q, trans'), q.gen = sess[s].gen, sess[s].closed => q.closed,
         q.pc = "done" => sess[s].pc = "done",
         UNCHANGED <<runtime, listener, entry>>, sweeper' \in [0 .. MaxGen -> Sweeper],
         Len(sess') = Len(sess) => Sweepers',
         wire' \in [Payload -> SUBSET (1 .. MaxTransports)]
  PROVE  IInv'
<1>1. Typed /\ Links
  BY DEF IInv
<1>2. /\ Links' /\ sess' \in Seq(Session) /\ Len(sess') = Len(sess) /\ sess'[s] = q
      /\ \A p \in (1 .. Len(sess)) \ {s} : sess'[p] = sess[p]
  BY <1>1, SessionStep
<1>3. trans' \in Seq(Transport)
  BY DEF Later
<1>4. Typed'
  BY <1>1, <1>2, <1>3 DEF Typed, TypeOK
<1>5. Started'
  BY <1>2 DEF IInv, Started
<1>6. DOMAIN sess = 1 .. Len(sess) /\ DOMAIN sess' = 1 .. Len(sess)
  BY <1>1, <1>2, DomainIs DEF Typed, TypeOK
<1>7. entry \in 0 .. Len(sess) /\ Len(sess) \in Nat
  BY <1>1, DomainIs DEF Typed, TypeOK
<1>8. OneLiveSession'
  <2>1. \A p \in DOMAIN sess' :
          ~sess'[p].closed /\ ~Cancelled(sess[p].gen) =>
            entry = p \/ \E g \in Gen : listener[g].pc = "close" /\ listener[g].session = p
    BY <1>2, <1>6 DEF IInv, OneLiveSession
  <2>2. \A p \in DOMAIN sess' : sess'[p].gen = sess[p].gen
    BY <1>2, <1>6
  <2>3. entry # 0 => sess'[entry].pc # "done"
    BY <1>2, <1>7 DEF IInv, OneLiveSession
  <2> QED
    BY <2>1, <2>2, <2>3 DEF OneLiveSession, Cancelled
<1> QED
  BY <1>2, <1>4, <1>5, <1>8 DEF IInv

\* A step of run that leaves those that empty the table alone, too.
LEMMA RunMoves ==
  ASSUME IInv, NEW s \in 1 .. Len(sess), NEW q \in Session,
         sess' = [sess EXCEPT ![s] = q], Later(trans, trans'), Len(trans') <= MaxTransports,
         \A t \in Len(trans) + 1 .. Len(trans') : trans'[t].owner = s,
         Linked(s, q, trans'), q.gen = sess[s].gen, sess[s].closed => q.closed, q.pc # "done",
         UNCHANGED <<runtime, sweeper, listener, entry>>,
         wire' \in [Payload -> SUBSET (1 .. MaxTransports)]
  PROVE  IInv'
<1>1. sweeper' \in [0 .. MaxGen -> Sweeper] /\ (Len(sess') = Len(sess) => Sweepers')
  BY DEF IInv, Typed, TypeOK, Sweepers
<1> QED
  BY <1>1, SessionMoves

\* A session that only moves on to a place that asks no more of its transports.
LEMMA LinkedOn ==
  ASSUME NEW T \in Seq(Transport), NEW T2, Later(T, T2), Len(T2) = Len(T), NEW s, NEW p, NEW q,
         Linked(s, p, T), p.pc # "replace",
         q.transport = p.transport, q.next = p.next, q.closed = p.closed,
         q.pc \in {"loop", "dequeue", "send", "retry", "exit"},
         q.pc = "exit" \/ p.pc \in {"loop", "dequeue", "send", "retry", "resend"},
         q.pc = "dequeue" => q.pending \in Datagram
  PROVE  Linked(s, q, T2)
<1>1. \A t \in 1 .. Len(T) : T2[t].owner = T[t].owner /\ (T2[t].open => T[t].open)
  BY DEF Later
<1> QED
  BY <1>1, DomainIs DEF Linked

\* A session whose transport is closed for a replacement.
LEMMA LinkedReopen ==
  ASSUME NEW T \in Seq(Transport), NEW s, NEW p, NEW q, Linked(s, p, T),
         p.pc \in {"retry", "resend"}, NEW T2, T2 = CloseTransport(T, p.transport),
         q.transport = p.transport, q.next = p.next, q.closed = p.closed, q.pc = "reopen"
  PROVE  Linked(s, q, T2) /\ Later(T, T2) /\ Len(T2) = Len(T)
<1>1. p.transport \in 0 .. Len(T)
  BY DEF Linked
<1>2. /\ Later(T, T2) /\ Len(T2) = Len(T) /\ (p.transport # 0 => ~T2[p.transport].open)
  BY <1>1, CloseTransportIs
<1>3. \A t \in 1 .. Len(T) : T2[t].owner = T[t].owner /\ (T2[t].open => T[t].open)
  BY <1>2 DEF Later
<1> QED
  BY <1>2, <1>3, DomainIs DEF Linked

\* A transport more.
LEMMA OneMore ==
  ASSUME NEW T \in Seq(Transport), NEW s \in 1 .. MaxSessions
  PROVE  /\ Later(T, Append(T, NewTransport(s)))
         /\ Len(Append(T, NewTransport(s))) = Len(T) + 1
         /\ Append(T, NewTransport(s))[Len(T) + 1].owner = s
         /\ \A t \in 1 .. Len(T) : Append(T, NewTransport(s))[t] = T[t]
<1> DEFINE e == NewTransport(s)
<1>1. e \in Transport /\ e.owner = s
  BY NewTransportIs
<1> HIDE DEF e
<1>2. /\ Append(T, e) \in Seq(Transport) /\ Len(Append(T, e)) = Len(T) + 1
      /\ Append(T, e)[Len(T) + 1] = e /\ \A t \in 1 .. Len(T) : Append(T, e)[t] = T[t]
  BY <1>1, AppendIs
<1>3. Len(T) <= Len(Append(T, e))
  BY <1>2, DomainIs
<1>4. Later(T, Append(T, e)) /\ Append(T, e)[Len(T) + 1].owner = s
  BY <1>1, <1>2, <1>3 DEF Later
<1> QED
  BY <1>2, <1>4 DEF e

\* A session that has opened its next transport.
LEMMA LinkedNext ==
  ASSUME NEW T \in Seq(Transport), NEW s, NEW p, NEW q, Linked(s, p, T),
         p.pc \in {"open", "reopen"}, NEW T2, Later(T, T2), Len(T2) = Len(T) + 1,
         T2[Len(T2)].owner = s,
         q.transport = p.transport, q.next = Len(T2), q.closed = p.closed, q.pc = "replace"
  PROVE  Linked(s, q, T2) /\ \A t \in Len(T) + 1 .. Len(T2) : T2[t].owner = s
<1>1. /\ Len(T2) = Len(T) + 1 /\ T2[Len(T) + 1].owner = s /\ q.next = Len(T) + 1
      /\ \A t \in 1 .. Len(T) : T2[t].owner = T[t].owner /\ (T2[t].open => T[t].open)
  BY DEF Later
<1>2. Len(T) \in Nat
  BY DomainIs
<1>3. \A t \in 1 .. Len(T2) : t \in 1 .. Len(T) \/ t = Len(T) + 1
  BY <1>1, <1>2
<1>4. \A t \in Len(T) + 1 .. Len(T2) : T2[t].owner = s
  <2>1. \A t \in Len(T) + 1 .. Len(T2) : t = Len(T) + 1
    BY <1>1, <1>2
  <2> QED
    BY <1>1, <2>1
<1>5. /\ q.transport \in 0 .. Len(T2) /\ q.next \in 0 .. Len(T2) /\ q.next # 0
      /\ q.transport # 0 => q.transport \in 1 .. Len(T)
  BY <1>1, <1>2 DEF Linked
<1>6. \A t \in 1 .. Len(T2) : T2[t].owner = s /\ T2[t].open => t = q.transport \/ t = q.next
  BY <1>1, <1>3 DEF Linked
<1> QED
  BY <1>1, <1>4, <1>5, <1>6 DEF Linked

\* What is known of a session that is about to take a step.
LEMMA SessionFacts ==
  ASSUME IInv, NEW s \in 1 .. Len(sess)
  PROVE  /\ sess[s] \in Session /\ Linked(s, sess[s], trans) /\ s \in 1 .. MaxSessions
         /\ trans \in Seq(Transport) /\ Len(trans) \in Nat /\ Len(trans) <= MaxTransports
         /\ Later(trans, trans)
         /\ wire \in [Payload -> SUBSET (1 .. MaxTransports)]
         /\ MaxTransports \in Nat /\ MaxAttempts \in Nat \ {0}
         /\ \A t \in 1 .. Len(trans) : trans[t] \in Transport
<1>1. sess \in Seq(Session) /\ trans \in Seq(Transport) /\ Len(sess) <= MaxSessions
      /\ MaxSessions \in Nat /\ MaxTransports \in Nat /\ MaxAttempts \in Nat \ {0}
  BY BoundsAssumption DEF IInv, Typed, TypeOK
<1>2. /\ Len(sess) \in Nat /\ sess[s] \in Session /\ Len(trans) \in Nat
      /\ \A t \in 1 .. Len(trans) : trans[t] \in Transport
  BY <1>1, DomainIs
<1> QED
  BY <1>1, <1>2, SameIsLater DEF IInv, Typed, TypeOK, Links

\* A session goes on with the transport it has.
LEMMA RunOnward ==
  ASSUME IInv, NEW s \in 1 .. Len(sess), NEW q \in Session, sess' = [sess EXCEPT ![s] = q],
         Later(trans, trans'), Len(trans') = Len(trans), sess[s].pc # "replace",
         q.gen = sess[s].gen, q.transport = sess[s].transport, q.next = sess[s].next,
         q.closed = sess[s].closed, q.pc \in {"loop", "dequeue", "send", "retry", "exit"},
         q.pc = "exit" \/ sess[s].pc \in {"loop", "dequeue", "send", "retry", "resend"},
         q.pc = "dequeue" => q.pending \in Datagram,
         UNCHANGED <<runtime, sweeper, listener, entry>>,
         wire' \in [Payload -> SUBSET (1 .. MaxTransports)]
  PROVE  IInv'
<1>1. Linked(s, q, trans')
  BY SessionFacts, LinkedOn
<1>2. Len(trans') <= MaxTransports /\ \A t \in Len(trans) + 1 .. Len(trans') : trans'[t].owner = s
  BY SessionFacts
<1>3. q.pc # "done"
  OBVIOUS
<1> QED
  BY <1>1, <1>2, <1>3, RunMoves

\* Goto of a session.
LEMMA GotoIs ==
  ASSUME IInv, NEW s \in 1 .. Len(sess), Goto(s, "exit"), UNCHANGED trans, UNCHANGED wire,
         sess[s].pc # "replace", UNCHANGED <<runtime, sweeper, listener, entry>>
  PROVE  IInv'
<1> DEFINE q == [sess[s] EXCEPT !.pc = "exit"]
<1>1. sess[s] \in Session
  BY SessionFacts
<1>2. /\ q \in Session /\ q.pc = "exit" /\ q.gen = sess[s].gen /\ q.closed = sess[s].closed
      /\ q.transport = sess[s].transport /\ q.next = sess[s].next
  BY <1>1 DEF Session
<1>3. sess' = [sess EXCEPT ![s] = q]
  BY DEF Goto
<1> HIDE DEF q
<1>4. Later(trans, trans') /\ wire' \in [Payload -> SUBSET (1 .. MaxTransports)]
  BY SessionFacts
<1>5. Len(trans') = Len(trans) /\ q.pc \in {"loop", "dequeue", "send", "retry", "exit"}
  BY <1>2
<1> QED
  BY <1>2, <1>3, <1>4, <1>5, RunOnward

\* A write is to the session's transport.
LEMMA WritesIs ==
  ASSUME IInv, NEW s \in 1 .. Len(sess), sess[s].pc \in {"send", "resend"},
         Writes(sess[s].transport, sess[s].pending) \/ UNCHANGED wire
  PROVE  wire' \in [Payload -> SUBSET (1 .. MaxTransports)]
<1>1. sess[s].transport \in 1 .. MaxTransports /\ sess[s].pending \in Payload
  BY SessionFacts DEF Linked, Session
<1> QED
  BY <1>1, SessionFacts DEF Writes

-----------------------------------------------------------------------------
(* udpEntrySession.run *)

\* openUDPEntryTransport or a replacement: the session has a next transport.
LEMMA Opened ==
  ASSUME IInv, NEW s \in 1 .. Len(sess), NEW q \in Session, sess' = [sess EXCEPT ![s] = q],
         sess[s].pc \in {"open", "reopen"}, Len(trans) < MaxTransports,
         Later(trans, trans'), Len(trans') = Len(trans) + 1,
         trans'[Len(trans')].owner = s,
         q.gen = sess[s].gen, q.transport = sess[s].transport, q.next = Len(trans'),
         q.closed = sess[s].closed, q.pc = "replace",
         UNCHANGED <<runtime, sweeper, listener, entry, wire>>
  PROVE  IInv'
<1>1. Linked(s, q, trans') /\ \A t \in Len(trans) + 1 .. Len(trans') : trans'[t].owner = s
  <2>1. trans \in Seq(Transport) /\ Linked(s, sess[s], trans)
    BY SessionFacts
  <2> DEFINE p == sess[s]  T2 == trans'
  <2>2. /\ trans \in Seq(Transport) /\ Linked(s, p, trans) /\ p.pc \in {"open", "reopen"}
        /\ Later(trans, T2) /\ Len(T2) = Len(trans) + 1 /\ T2[Len(T2)].owner = s
        /\ q.transport = p.transport /\ q.next = Len(T2) /\ q.closed = p.closed /\ q.pc = "replace"
    BY <2>1
  <2> HIDE DEF p, T2
  <2>3. Linked(s, q, T2) /\ \A t \in Len(trans) + 1 .. Len(T2) : T2[t].owner = s
    BY SMTT(60), <2>2, LinkedNext
  <2> QED
    BY <2>3 DEF T2
<1>2. Len(trans') <= MaxTransports /\ q.pc # "done" /\ (sess[s].closed => q.closed)
  BY <1>1, SessionFacts
<1>3. wire' \in [Payload -> SUBSET (1 .. MaxTransports)]
  BY SessionFacts
<1> QED
  BY <1>1, <1>2, <1>3, RunMoves

LEMMA OpenStep ==
  ASSUME IInv, NEW s \in 1 .. Len(sess), Open(s)
  PROVE  IInv'
<1>1. sess[s] \in Session /\ sess[s].pc = "open" /\ Len(trans) \in Nat /\ MaxTransports \in Nat
  BY SessionFacts DEF Open
<1>2. CASE /\ Len(trans) < MaxTransports /\ trans' = Append(trans, NewTransport(s))
           /\ sess' = [sess EXCEPT ![s].pc = "replace", ![s].next = Len(trans) + 1]
  <2> DEFINE q == [sess[s] EXCEPT !.pc = "replace", !.next = Len(trans) + 1]
  <2>0. Len(trans) + 1 \in 0 .. MaxTransports
    BY <1>1, <1>2
  <2>1. /\ q \in Session /\ q.pc = "replace" /\ q.gen = sess[s].gen /\ q.closed = sess[s].closed
        /\ q.transport = sess[s].transport /\ q.next = Len(trans) + 1
    BY <1>1, <2>0 DEF Session
  <2>2. sess' = [sess EXCEPT ![s] = q]
    BY <1>2
  <2> HIDE DEF q
  <2>3. /\ Later(trans, trans') /\ Len(trans') = Len(trans) + 1
        /\ trans'[Len(trans) + 1].owner = s
    BY <1>2, SessionFacts, OneMore
  <2>4. Len(trans) < MaxTransports /\ UNCHANGED <<runtime, sweeper, listener, entry, wire>>
    BY <1>2 DEF Open
  <2> QED
    BY <1>1, <2>1, <2>2, <2>3, <2>4, Opened
<1>3. CASE Goto(s, "exit") /\ UNCHANGED trans
  BY <1>1, <1>3, GotoIs DEF Open
<1> QED
  BY <1>2, <1>3 DEF Open

LEMMA ReopenStep ==
  ASSUME IInv, NEW s \in 1 .. Len(sess), Reopen(s)
  PROVE  IInv'
<1>1. /\ sess[s] \in Session /\ sess[s].pc = "reopen" /\ Len(trans) \in Nat
      /\ MaxTransports \in Nat /\ MaxAttempts \in Nat \ {0}
  BY SessionFacts DEF Reopen
<1>2. CASE /\ sess[s].attempts < MaxAttempts /\ Len(trans) < MaxTransports
           /\ trans' = Append(trans, NewTransport(s))
           /\ sess' = [sess EXCEPT ![s].attempts = @ + 1, ![s].pc = "replace",
                                   ![s].next = Len(trans) + 1]
  <2> DEFINE q == [sess[s] EXCEPT !.attempts = @ + 1, !.pc = "replace", !.next = Len(trans) + 1]
  <2>1. sess[s].attempts + 1 \in 1 .. MaxAttempts /\ Len(trans) + 1 \in 0 .. MaxTransports
    BY <1>1, <1>2 DEF Session
  <2>2. /\ q \in Session /\ q.pc = "replace" /\ q.gen = sess[s].gen /\ q.closed = sess[s].closed
        /\ q.transport = sess[s].transport /\ q.next = Len(trans) + 1
    BY <1>1, <2>1 DEF Session
  <2>3. sess' = [sess EXCEPT ![s] = q]
    BY <1>2
  <2> HIDE DEF q
  <2>4. /\ Later(trans, trans') /\ Len(trans') = Len(trans) + 1
        /\ trans'[Len(trans) + 1].owner = s
    BY <1>2, SessionFacts, OneMore
  <2>5. Len(trans) < MaxTransports /\ UNCHANGED <<runtime, sweeper, listener, entry, wire>>
    BY <1>2 DEF Reopen
  <2> QED
    BY <1>1, <2>2, <2>3, <2>4, <2>5, Opened
<1>3. CASE /\ sess[s].attempts < MaxAttempts /\ UNCHANGED trans
           /\ sess' = [sess EXCEPT ![s].attempts = @ + 1]
  <2> DEFINE q == [sess[s] EXCEPT !.attempts = @ + 1]
  <2>1. sess[s].attempts + 1 \in 1 .. MaxAttempts
    BY <1>1, <1>3 DEF Session
  <2>2. /\ q \in Session /\ q.pc = "reopen" /\ q.gen = sess[s].gen /\ q.closed = sess[s].closed
        /\ q.transport = sess[s].transport /\ q.next = sess[s].next
    BY <1>1, <2>1 DEF Session
  <2>3. sess' = [sess EXCEPT ![s] = q]
    BY <1>3
  <2> HIDE DEF q
  <2>4. Linked(s, q, trans)
    BY <1>1, <2>2, SessionFacts DEF Linked
  <2>5. /\ Later(trans, trans') /\ Len(trans') <= MaxTransports /\ Linked(s, q, trans')
        /\ \A t \in Len(trans) + 1 .. Len(trans') : trans'[t].owner = s
    BY <1>1, <1>3, <2>4, SessionFacts
  <2>6. q.pc # "done" /\ (sess[s].closed => q.closed)
        /\ wire' \in [Payload -> SUBSET (1 .. MaxTransports)]
    BY <2>2, SessionFacts DEF Reopen
  <2> QED
    BY <2>2, <2>3, <2>5, <2>6, RunMoves DEF Reopen
<1>4. CASE Goto(s, "exit") /\ UNCHANGED trans
  BY <1>1, <1>4, GotoIs DEF Reopen
<1> QED
  BY <1>2, <1>3, <1>4 DEF Reopen

\* The transport is closed and the session looks for another.
LEMMA GivenUp ==
  ASSUME IInv, NEW s \in 1 .. Len(sess), sess[s].pc \in {"retry", "resend"},
         sess' = [sess EXCEPT ![s].pc = "reopen"],
         trans' = CloseTransport(trans, sess[s].transport),
         wire' \in [Payload -> SUBSET (1 .. MaxTransports)],
         UNCHANGED <<runtime, sweeper, listener, entry>>
  PROVE  IInv'
<1> DEFINE q == [sess[s] EXCEPT !.pc = "reopen"]
<1>1. /\ q \in Session /\ q.pc = "reopen" /\ q.gen = sess[s].gen /\ q.closed = sess[s].closed
      /\ q.transport = sess[s].transport /\ q.next = sess[s].next
  BY ZenonT(60), SessionFacts DEF Session
<1>2. sess' = [sess EXCEPT ![s] = q]
  OBVIOUS
<1> HIDE DEF q
<1>3. Linked(s, q, trans') /\ Later(trans, trans') /\ Len(trans') = Len(trans)
  BY <1>1, SessionFacts, LinkedReopen
<1>4. /\ Len(trans') <= MaxTransports /\ q.pc # "done" /\ (sess[s].closed => q.closed)
      /\ \A t \in Len(trans) + 1 .. Len(trans') : trans'[t].owner = s
  BY <1>1, <1>3, SessionFacts
<1> QED
  BY <1>1, <1>2, <1>3, <1>4, RunMoves

LEMMA RetryStep ==
  ASSUME IInv, NEW s \in 1 .. Len(sess), Retry(s)
  PROVE  IInv'
<1>1. sess[s].pc = "retry" /\ wire' \in [Payload -> SUBSET (1 .. MaxTransports)]
  BY SessionFacts DEF Retry
<1>2. CASE Goto(s, "exit") /\ UNCHANGED trans
  BY <1>1, <1>2, GotoIs DEF Retry
<1>3. CASE Goto(s, "reopen") /\ trans' = CloseTransport(trans, sess[s].transport)
  BY <1>1, <1>3, GivenUp DEF Retry, Goto
<1> QED
  BY <1>2, <1>3 DEF Retry

LEMMA ResendStep ==
  ASSUME IInv, NEW s \in 1 .. Len(sess), Resend(s)
  PROVE  IInv'
<1>1. sess[s].pc = "resend" /\ UNCHANGED <<runtime, sweeper, listener, entry>>
  BY DEF Resend
<1>2. Writes(sess[s].transport, sess[s].pending) \/ UNCHANGED wire
  BY DEF Resend
<1>3. wire' \in [Payload -> SUBSET (1 .. MaxTransports)]
  BY <1>1, <1>2, WritesIs
<1>4. CASE /\ sess' = [sess EXCEPT ![s].pc = "loop", ![s].sent = TRUE,
                                   ![s].pending = Nil, ![s].again = FALSE]
           /\ UNCHANGED trans
  <2> DEFINE q == [sess[s] EXCEPT !.pc = "loop", !.sent = TRUE, !.pending = Nil, !.again = FALSE]
  <2>1. /\ q \in Session /\ q.pc = "loop" /\ q.gen = sess[s].gen /\ q.closed = sess[s].closed
        /\ q.transport = sess[s].transport /\ q.next = sess[s].next
    BY ZenonT(60), SessionFacts DEF Session, Payload
  <2>2. sess' = [sess EXCEPT ![s] = q]
    BY <1>4
  <2> HIDE DEF q
  <2>3. Later(trans, trans') /\ Len(trans') = Len(trans)
    BY <1>4, SessionFacts
  <2> QED
    BY <1>1, <1>3, <2>1, <2>2, <2>3, RunOnward
<1>5. CASE /\ sess' = [sess EXCEPT ![s].pc = "reopen"]
           /\ trans' = CloseTransport(trans, sess[s].transport)
  BY <1>1, <1>3, <1>5, GivenUp
<1> QED
  BY <1>4, <1>5 DEF Resend

LEMMA SendStep ==
  ASSUME IInv, NEW s \in 1 .. Len(sess), Send(s)
  PROVE  IInv'
<1>1. sess[s].pc = "send" /\ UNCHANGED <<runtime, sweeper, listener, entry, trans>>
  BY DEF Send
<1>2. Writes(sess[s].transport, sess[s].pending) \/ UNCHANGED wire
  BY DEF Send
<1>3. /\ wire' \in [Payload -> SUBSET (1 .. MaxTransports)]
      /\ Later(trans, trans') /\ Len(trans') = Len(trans)
  BY <1>1, <1>2, WritesIs, SessionFacts
<1>4. \E q \in Session :
         /\ sess' = [sess EXCEPT ![s] = q] /\ q.pc \in {"loop", "retry"}
         /\ q.gen = sess[s].gen /\ q.closed = sess[s].closed
         /\ q.transport = sess[s].transport /\ q.next = sess[s].next
  <2>1. sess[s] \in Session
    BY SessionFacts
  <2>2. CASE sess' = [sess EXCEPT ![s].pc = "loop", ![s].sent = TRUE, ![s].pending = Nil]
    <3> DEFINE q == [sess[s] EXCEPT !.pc = "loop", !.sent = TRUE, !.pending = Nil]
    <3>1. /\ q \in Session /\ q.pc = "loop" /\ q.gen = sess[s].gen /\ q.closed = sess[s].closed
          /\ q.transport = sess[s].transport /\ q.next = sess[s].next
      BY <2>1 DEF Session, Payload
    <3>2. sess' = [sess EXCEPT ![s] = q]
      BY <2>2
    <3> HIDE DEF q
    <3> QED
      BY <3>1, <3>2
  <2>3. CASE sess' = [sess EXCEPT ![s].pc = "retry", ![s].again = FALSE, ![s].pending = Nil]
    <3> DEFINE q == [sess[s] EXCEPT !.pc = "retry", !.again = FALSE, !.pending = Nil]
    <3>1. /\ q \in Session /\ q.pc = "retry" /\ q.gen = sess[s].gen /\ q.closed = sess[s].closed
          /\ q.transport = sess[s].transport /\ q.next = sess[s].next
      BY <2>1 DEF Session, Payload
    <3>2. sess' = [sess EXCEPT ![s] = q]
      BY <2>3
    <3> HIDE DEF q
    <3> QED
      BY <3>1, <3>2
  <2>4. CASE sess' = [sess EXCEPT ![s].pc = "retry", ![s].again = TRUE]
    <3> DEFINE q == [sess[s] EXCEPT !.pc = "retry", !.again = TRUE]
    <3>1. /\ q \in Session /\ q.pc = "retry" /\ q.gen = sess[s].gen /\ q.closed = sess[s].closed
          /\ q.transport = sess[s].transport /\ q.next = sess[s].next
      BY <2>1 DEF Session
    <3>2. sess' = [sess EXCEPT ![s] = q]
      BY <2>4
    <3> HIDE DEF q
    <3> QED
      BY <3>1, <3>2
  <2> QED
    BY <2>2, <2>3, <2>4 DEF Send
<1>5. PICK q \in Session :
         /\ sess' = [sess EXCEPT ![s] = q] /\ q.pc \in {"loop", "retry"}
         /\ q.gen = sess[s].gen /\ q.closed = sess[s].closed
         /\ q.transport = sess[s].transport /\ q.next = sess[s].next
  BY <1>4
<1>6. q.pc \in {"loop", "dequeue", "send", "retry", "exit"} /\ sess[s].pc # "replace"
  BY <1>1, <1>5
<1> QED
  BY <1>1, <1>3, <1>5, <1>6, RunOnward

LEMMA LoopReceivesStep ==
  ASSUME IInv, NEW s \in 1 .. Len(sess), LoopReceives(s)
  PROVE  IInv'
<1> DEFINE q == [sess[s] EXCEPT !.pc = "dequeue", !.pending = Head(sess[s].queue),
                                !.queue = Tail(@)]
<1>1. sess[s] \in Session /\ sess[s].pc = "loop" /\ sess[s].queue # <<>>
  BY SessionFacts DEF LoopReceives
<1>2. sess[s].queue \in Seq(Datagram)
  BY <1>1 DEF Session
<1>3. Head(sess[s].queue) \in Datagram \cap Payload /\ Tail(sess[s].queue) \in Seq(Datagram)
  BY <1>1, <1>2, TailIs DEF Payload
<1>4. /\ q \in Session /\ q.pc = "dequeue" /\ q.pending \in Datagram
      /\ q.gen = sess[s].gen /\ q.closed = sess[s].closed
      /\ q.transport = sess[s].transport /\ q.next = sess[s].next
  BY <1>1, <1>3 DEF Session
<1>5. sess' = [sess EXCEPT ![s] = q]
  BY DEF LoopReceives
<1> HIDE DEF q
<1>6. /\ Later(trans, trans') /\ Len(trans') = Len(trans)
      /\ wire' \in [Payload -> SUBSET (1 .. MaxTransports)]
      /\ UNCHANGED <<runtime, sweeper, listener, entry>>
  BY SessionFacts DEF LoopReceives
<1>7. q.pc \in {"loop", "dequeue", "send", "retry", "exit"} /\ sess[s].pc # "replace"
  BY <1>1, <1>4
<1> QED
  BY <1>1, <1>4, <1>5, <1>6, <1>7, RunOnward

LEMMA DequeueStep ==
  ASSUME IInv, NEW s \in 1 .. Len(sess), Dequeue(s)
  PROVE  IInv'
<1> DEFINE n == Max({0, sess[s].queued - Size[sess[s].pending]})
           q == [sess[s] EXCEPT !.pc = "send", !.queued = n]
<1>1. sess[s] \in Session /\ sess[s].pc = "dequeue" /\ sess[s].pending \in Datagram
  BY SessionFacts DEF Dequeue, Linked
<1>2. n \in Int
  <2>1. sess[s].queued - Size[sess[s].pending] \in Int
    BY <1>1, SizeAssumption DEF Session
  <2> QED
    BY <2>1, MaxOfTwo
<1>3. sess' = [sess EXCEPT ![s] = q]
  BY DEF Dequeue
<1> HIDE DEF n
<1>4. /\ q \in Session /\ q.pc = "send" /\ q.gen = sess[s].gen /\ q.closed = sess[s].closed
      /\ q.transport = sess[s].transport /\ q.next = sess[s].next
  BY <1>1, <1>2 DEF Session
<1> HIDE DEF q
<1>5. /\ Later(trans, trans') /\ Len(trans') = Len(trans)
      /\ wire' \in [Payload -> SUBSET (1 .. MaxTransports)]
      /\ UNCHANGED <<runtime, sweeper, listener, entry>>
  BY SessionFacts DEF Dequeue
<1>6. q.pc \in {"loop", "dequeue", "send", "retry", "exit"} /\ sess[s].pc # "replace"
  BY <1>1, <1>4
<1> QED
  BY <1>1, <1>3, <1>4, <1>5, <1>6, RunOnward

\* The select of a session waits for its transport's events.
LEMMA EventSource ==
  ASSUME IInv, NEW s \in 1 .. Len(sess), LoopEvent(s)
  PROVE  /\ sess[s] \in Session /\ sess[s].pc = "loop" /\ sess[s].transport \in 1 .. Len(trans)
         /\ trans \in Seq(Transport) /\ DOMAIN trans = 1 .. Len(trans)
         /\ trans[sess[s].transport] \in Transport
<1> DEFINE k == sess[s].transport
<1>1. sess[s] \in Session /\ trans \in Seq(Transport) /\ Linked(s, sess[s], trans)
  BY SessionFacts
<1>2. sess[s].pc = "loop"
  BY DEF LoopEvent
<1>3. DOMAIN trans = 1 .. Len(trans) /\ Len(trans) \in Nat
      /\ \A t \in 1 .. Len(trans) : trans[t] \in Transport
  BY <1>1, DomainIs
<1>4. k \in 1 .. Len(trans)
  <2>1. k \in 0 .. Len(trans) /\ k # 0
    BY <1>1, <1>2 DEF Linked
  <2> QED
    BY <1>3, <2>1
<1> QED
  BY <1>1, <1>2, <1>3, <1>4

\* The select takes an event from its transport, and leaves the others alone.
LEMMA EventTaken ==
  ASSUME IInv, NEW s \in 1 .. Len(sess), LoopEvent(s)
  PROVE  Later(trans, trans') /\ Len(trans') = Len(trans)
<1> DEFINE k == sess[s].transport
<1>1. /\ sess[s] \in Session /\ sess[s].pc = "loop" /\ k \in 1 .. Len(trans)
      /\ trans \in Seq(Transport) /\ DOMAIN trans = 1 .. Len(trans)
      /\ trans[k] \in Transport
  BY EventSource
<1>2. CASE UNCHANGED trans
  BY <1>2, SessionFacts
<1>3. CASE trans[k].events # <<>> /\ trans' = [trans EXCEPT ![k].events = Tail(@)]
  <2> DEFINE x == [trans[k] EXCEPT !.events = Tail(@)]
  <2>1. trans[k].events \in Seq({"response", "error"})
    BY <1>1 DEF Transport
  <2>2. Tail(trans[k].events) \in Seq({"response", "error"})
    BY <1>3, <2>1, TailIs
  <2>3. x \in Transport /\ x.owner = trans[k].owner /\ x.open = trans[k].open
    BY <1>1, <2>2 DEF Transport
  <2>4. trans' = [trans EXCEPT ![k] = x]
    BY <1>3
  <2> HIDE DEF x, k
  <2>5. /\ trans' \in Seq(Transport) /\ Len(trans') = Len(trans) /\ trans'[k] = x
        /\ \A j \in (1 .. Len(trans)) \ {k} : trans'[j] = trans[j]
    BY <1>1, <2>3, <2>4, ElementReplaced
  <2>6. Len(trans) <= Len(trans')
    BY <2>5, SessionFacts
  <2> QED
    BY <2>3, <2>5, <2>6 DEF Later
<1> QED
  BY <1>2, <1>3 DEF LoopEvent

LEMMA LoopEventStep ==
  ASSUME IInv, NEW s \in 1 .. Len(sess), LoopEvent(s)
  PROVE  IInv'
<1> DEFINE k == sess[s].transport
<1>1. /\ sess[s] \in Session /\ sess[s].pc = "loop" /\ k \in 1 .. Len(trans)
      /\ trans \in Seq(Transport) /\ DOMAIN trans = 1 .. Len(trans)
      /\ trans[k] \in Transport /\ UNCHANGED <<runtime, sweeper, listener, entry>>
      /\ wire' \in [Payload -> SUBSET (1 .. MaxTransports)]
  <2>1. UNCHANGED <<runtime, sweeper, listener, entry, wire>>
    BY DEF LoopEvent
  <2>2. wire' \in [Payload -> SUBSET (1 .. MaxTransports)]
    BY <2>1, SessionFacts
  <2> QED
    BY <2>1, <2>2, EventSource
<1>2. Later(trans, trans') /\ Len(trans') = Len(trans)
  BY EventTaken
<1>3. \E q \in Session :
         /\ sess' = [sess EXCEPT ![s] = q] /\ q.pc \in {"loop", "retry"}
         /\ q.gen = sess[s].gen /\ q.closed = sess[s].closed
         /\ q.transport = sess[s].transport /\ q.next = sess[s].next
  <2>1. CASE sess' = [sess EXCEPT ![s].confirmed = TRUE]
    <3> DEFINE q == [sess[s] EXCEPT !.confirmed = TRUE]
    <3>1. /\ q \in Session /\ q.pc = "loop" /\ q.gen = sess[s].gen /\ q.closed = sess[s].closed
          /\ q.transport = sess[s].transport /\ q.next = sess[s].next
      BY <1>1 DEF Session
    <3>2. sess' = [sess EXCEPT ![s] = q]
      BY <2>1
    <3> HIDE DEF q
    <3> QED
      BY <3>1, <3>2
  <2>2. CASE sess' = [sess EXCEPT ![s].pc = "retry", ![s].pending = Nil,
                                  ![s].again = ~sess[s].sent]
    <3> DEFINE q == [sess[s] EXCEPT !.pc = "retry", !.pending = Nil, !.again = ~sess[s].sent]
    <3>1. /\ q \in Session /\ q.pc = "retry" /\ q.gen = sess[s].gen /\ q.closed = sess[s].closed
          /\ q.transport = sess[s].transport /\ q.next = sess[s].next
      BY <1>1 DEF Session, Payload
    <3>2. sess' = [sess EXCEPT ![s] = q]
      BY <2>2
    <3> HIDE DEF q
    <3> QED
      BY <3>1, <3>2
  <2> QED
    BY <2>1, <2>2 DEF LoopEvent
<1>4. PICK q \in Session :
         /\ sess' = [sess EXCEPT ![s] = q] /\ q.pc \in {"loop", "retry"}
         /\ q.gen = sess[s].gen /\ q.closed = sess[s].closed
         /\ q.transport = sess[s].transport /\ q.next = sess[s].next
  BY <1>3
<1>5. /\ q.pc \in {"loop", "dequeue", "send", "retry", "exit"} /\ q.pc # "dequeue"
      /\ sess[s].pc # "replace"
  BY <1>1, <1>4
<1> HIDE DEF k
<1> QED
  BY <1>1, <1>2, <1>4, <1>5, RunOnward

\* close() marks the session and leaves its transports.
LEMMA LinkedMarked ==
  ASSUME NEW T \in Seq(Transport), NEW s, NEW p, NEW q, Linked(s, p, T), q.closed,
         q.transport = p.transport, q.next = p.next,
         \/ q.pc = p.pc /\ q.pending = p.pending
         \/ p.pc = "exit" /\ q.pc \in {"closing", "delete"}
  PROVE  Linked(s, q, T)
BY DomainIs DEF Linked

\* Then its transport is closed; one it has opened but not installed is not.
LEMMA LinkedClosing ==
  ASSUME NEW T \in Seq(Transport), NEW T2, NEW s, NEW p, NEW q, Linked(s, p, T),
         T2 = CloseTransport(T, p.transport), q.closed = p.closed,
         q.transport = p.transport, q.next = p.next,
         \/ q.pc = p.pc /\ q.pending = p.pending
         \/ p.pc = "closing" /\ q.pc = "delete"
  PROVE  Linked(s, q, T2) /\ Later(T, T2) /\ Len(T2) = Len(T)
<1>1. p.transport \in 0 .. Len(T)
  BY DEF Linked
<1>2. Later(T, T2) /\ Len(T2) = Len(T)
  BY <1>1, CloseTransportIs
<1>3. \A t \in 1 .. Len(T) : T2[t].owner = T[t].owner /\ (T2[t].open => T[t].open)
  BY <1>2 DEF Later
<1> QED
  BY <1>2, <1>3, DomainIs DEF Linked

LEMMA ExitStep ==
  ASSUME IInv, NEW s \in 1 .. Len(sess), Exit(s)
  PROVE  IInv'
<1> DEFINE c == IF sess[s].closed THEN "delete" ELSE "closing"
           q == [sess[s] EXCEPT !.closed = TRUE, !.pc = c]
<1>1. sess[s] \in Session /\ sess[s].pc = "exit" /\ Linked(s, sess[s], trans)
      /\ trans \in Seq(Transport)
  BY SessionFacts DEF Exit
<1>2. sess' = [sess EXCEPT ![s] = q]
  BY DEF Exit
<1>3. c \in {"closing", "delete"}
  OBVIOUS
<1> HIDE DEF c
<1>4. /\ q \in Session /\ q.pc = c /\ q.gen = sess[s].gen /\ q.closed
      /\ q.transport = sess[s].transport /\ q.next = sess[s].next
  BY <1>1, <1>3 DEF Session
<1> HIDE DEF q
<1>5. Linked(s, q, trans)
  BY <1>1, <1>3, <1>4, LinkedMarked
<1>6. /\ Later(trans, trans') /\ Len(trans') <= MaxTransports /\ q.pc # "done"
      /\ \A t \in Len(trans) + 1 .. Len(trans') : trans'[t].owner = s
      /\ wire' \in [Payload -> SUBSET (1 .. MaxTransports)]
      /\ UNCHANGED <<runtime, sweeper, listener, entry, trans>>
  BY <1>3, <1>4, SessionFacts DEF Exit
<1>7. Linked(s, q, trans')
  BY <1>5, <1>6
<1> QED
  BY <1>2, <1>4, <1>6, <1>7, RunMoves

LEMMA ExitClosingStep ==
  ASSUME IInv, NEW s \in 1 .. Len(sess), ExitClosing(s)
  PROVE  IInv'
<1> DEFINE q == [sess[s] EXCEPT !.pc = "delete"]
<1>1. sess[s] \in Session /\ sess[s].pc = "closing" /\ Linked(s, sess[s], trans)
      /\ trans \in Seq(Transport)
  BY SessionFacts DEF ExitClosing
<1>2. /\ q \in Session /\ q.pc = "delete" /\ q.gen = sess[s].gen /\ q.closed = sess[s].closed
      /\ q.transport = sess[s].transport /\ q.next = sess[s].next
  BY <1>1 DEF Session
<1>3. sess' = [sess EXCEPT ![s] = q] /\ trans' = CloseTransport(trans, sess[s].transport)
  BY DEF ExitClosing, Goto, CloseMarked
<1> HIDE DEF q
<1>4. Linked(s, q, trans') /\ Later(trans, trans') /\ Len(trans') = Len(trans)
  BY <1>1, <1>2, <1>3, LinkedClosing
<1>5. /\ Len(trans') <= MaxTransports /\ q.pc # "done" /\ (sess[s].closed => q.closed)
      /\ \A t \in Len(trans) + 1 .. Len(trans') : trans'[t].owner = s
      /\ wire' \in [Payload -> SUBSET (1 .. MaxTransports)]
      /\ UNCHANGED <<runtime, sweeper, listener, entry>>
  BY <1>2, <1>4, SessionFacts DEF ExitClosing
<1> QED
  BY <1>2, <1>3, <1>4, <1>5, RunMoves

\* replaceTransport for a session that was closed meanwhile, or whose runtime
\* was: the new transport is closed, and the old one is closed already.
LEMMA LinkedRefused ==
  ASSUME NEW T \in Seq(Transport), NEW T2, NEW s, NEW p, NEW q, Linked(s, p, T),
         p.pc = "replace", T2 = CloseTransport(T, p.next),
         q.transport = p.transport, q.next = p.next, q.closed = p.closed, q.pc = "exit"
  PROVE  Linked(s, q, T2) /\ Later(T, T2) /\ Len(T2) = Len(T)
<1>1. p.next \in 0 .. Len(T) /\ p.next # 0
  BY DEF Linked
<1>2. /\ Later(T, T2) /\ Len(T2) = Len(T) /\ ~T2[p.next].open
  BY <1>1, CloseTransportIs
<1>3. \A t \in 1 .. Len(T) : T2[t].owner = T[t].owner /\ (T2[t].open => T[t].open)
  BY <1>2 DEF Later
<1> QED
  BY <1>2, <1>3, DomainIs DEF Linked

\* replaceTransport for a session that is still open.
LEMMA LinkedReplaced ==
  ASSUME NEW T \in Seq(Transport), NEW T2, NEW s, NEW p, NEW q, Linked(s, p, T),
         p.pc = "replace", T2 = CloseTransport(T, p.transport),
         q.transport = p.next, q.next = p.next, ~q.closed, q.pc \in {"loop", "resend"}
  PROVE  Linked(s, q, T2) /\ Later(T, T2) /\ Len(T2) = Len(T)
<1>1. p.transport \in 0 .. Len(T) /\ p.next # 0
  BY DEF Linked
<1>2. /\ Later(T, T2) /\ Len(T2) = Len(T) /\ (p.transport # 0 => ~T2[p.transport].open)
  BY <1>1, CloseTransportIs
<1>3. \A t \in 1 .. Len(T) : T2[t].owner = T[t].owner /\ (T2[t].open => T[t].open)
  BY <1>2 DEF Later
<1>4. \A t \in 1 .. Len(T) : T2[t].owner = s /\ T2[t].open => t = q.transport
  BY <1>2, <1>3 DEF Linked
<1> QED
  BY <1>1, <1>2, <1>3, <1>4, DomainIs DEF Linked

LEMMA ReplaceTransportStep ==
  ASSUME IInv, NEW s \in 1 .. Len(sess), ReplaceTransport(s)
  PROVE  IInv'
<1>1. /\ sess[s] \in Session /\ sess[s].pc = "replace" /\ Linked(s, sess[s], trans)
      /\ trans \in Seq(Transport) /\ wire' \in [Payload -> SUBSET (1 .. MaxTransports)]
      /\ UNCHANGED <<runtime, sweeper, listener, entry>>
  BY SessionFacts DEF ReplaceTransport
<1>2. \E q \in Session :
        /\ sess' = [sess EXCEPT ![s] = q] /\ Linked(s, q, trans')
        /\ Later(trans, trans') /\ Len(trans') = Len(trans)
        /\ q.gen = sess[s].gen /\ (sess[s].closed => q.closed) /\ q.pc # "done"
  <2>1. CASE trans' = CloseTransport(trans, sess[s].next) /\ Goto(s, "exit")
    <3> DEFINE q == [sess[s] EXCEPT !.pc = "exit"]
    <3>1. /\ q \in Session /\ q.pc = "exit" /\ q.gen = sess[s].gen /\ q.closed = sess[s].closed
          /\ q.transport = sess[s].transport /\ q.next = sess[s].next
      BY <1>1 DEF Session
    <3>2. sess' = [sess EXCEPT ![s] = q]
      BY <2>1 DEF Goto
    <3> HIDE DEF q
    <3>3. Linked(s, q, trans') /\ Later(trans, trans') /\ Len(trans') = Len(trans)
      BY <1>1, <2>1, <3>1, LinkedRefused
    <3> QED
      BY <3>1, <3>2, <3>3
  <2>2. CASE /\ ~sess[s].closed /\ trans' = CloseTransport(trans, sess[s].transport)
             /\ sess' = [sess EXCEPT ![s].transport = sess[s].next,
                           ![s].pc = IF sess[s].again THEN "resend" ELSE "loop"]
    <3> DEFINE c == IF sess[s].again THEN "resend" ELSE "loop"
               q == [sess[s] EXCEPT !.transport = sess[s].next, !.pc = c]
    <3>1. sess' = [sess EXCEPT ![s] = q]
      BY <2>2
    <3>2. c \in {"loop", "resend"}
      OBVIOUS
    <3> HIDE DEF c
    <3>3. /\ q \in Session /\ q.pc = c /\ q.gen = sess[s].gen /\ q.closed = sess[s].closed
          /\ q.transport = sess[s].next /\ q.next = sess[s].next
      BY <1>1, <3>2 DEF Session
    <3> HIDE DEF q
    <3>4. q.pc \in {"loop", "resend"} /\ ~q.closed /\ q.pc # "done"
      BY <2>2, <3>2, <3>3
    <3>5. Linked(s, q, trans') /\ Later(trans, trans') /\ Len(trans') = Len(trans)
      BY <1>1, <2>2, <3>3, <3>4, LinkedReplaced
    <3> QED
      BY <3>1, <3>3, <3>4, <3>5
  <2> QED
    BY <2>1, <2>2 DEF ReplaceTransport
<1>3. PICK q \in Session :
        /\ sess' = [sess EXCEPT ![s] = q] /\ Linked(s, q, trans')
        /\ Later(trans, trans') /\ Len(trans') = Len(trans)
        /\ q.gen = sess[s].gen /\ (sess[s].closed => q.closed) /\ q.pc # "done"
  BY <1>2
<1>4. /\ Len(trans') <= MaxTransports
      /\ \A t \in Len(trans) + 1 .. Len(trans') : trans'[t].owner = s
  BY <1>3, SessionFacts
<1> QED
  BY <1>1, <1>3, <1>4, RunMoves

\* A new session, and what is left of one.
LEMMA NewSessionIs ==
  ASSUME NEW g \in Gen
  PROVE  /\ NewSession(g) \in Session
         /\ NewSession(g).gen = g /\ NewSession(g).pc = "open" /\ ~NewSession(g).closed
         /\ NewSession(g).transport = 0 /\ NewSession(g).next = 0
<1>1. <<>> \in Seq(Datagram) /\ Nil \in Payload
  BY DEF Payload
<1>2. 0 \in 0 .. MaxTransports /\ 1 \in 1 .. MaxAttempts
  BY BoundsAssumption
<1> QED
  BY <1>1, <1>2 DEF NewSession, Session

LEMMA FinishedIs ==
  ASSUME NEW q \in Session
  PROVE  /\ Finished(q) \in Session /\ Finished(q).gen = q.gen /\ Finished(q).pc = "done"
         /\ Finished(q).closed /\ Finished(q).transport = q.transport /\ Finished(q).next = 0
         /\ Finished(q).queue = <<>> /\ Finished(q).pending = Nil /\ ~Finished(q).again
<1> DEFINE n == NewSession(q.gen)
<1>1. q.gen \in Gen /\ q.transport \in 0 .. MaxTransports
  BY DEF Session
<1>2. n \in Session /\ n.gen = q.gen /\ n.next = 0
  BY <1>1, NewSessionIs
<1>3. n.queue = <<>> /\ n.pending = Nil /\ ~n.again
  BY DEF NewSession
<1>4. Finished(q) = [n EXCEPT !.pc = "done", !.closed = TRUE, !.transport = q.transport]
  BY DEF Finished
<1> HIDE DEF n
<1> QED
  BY <1>1, <1>2, <1>3, <1>4 DEF Session

\* The goroutine of a session ends: it is closed, and no longer in the table.
LEMMA ExitDeleteStep ==
  ASSUME IInv, NEW s \in 1 .. Len(sess), ExitDelete(s)
  PROVE  IInv'
<1> DEFINE q == Finished(sess[s])
<1>1. /\ sess[s] \in Session /\ sess[s].pc = "delete" /\ Linked(s, sess[s], trans)
      /\ trans \in Seq(Transport) /\ sess[s].closed
      /\ UNCHANGED <<runtime, sweeper, listener, trans, wire>>
  BY SessionFacts DEF ExitDelete, Linked
<1>2. sess[s].gen \in Gen
  BY <1>1 DEF Session
<1>3. /\ q \in Session /\ q.pc = "done" /\ q.gen = sess[s].gen /\ q.closed
      /\ q.transport = sess[s].transport /\ q.next = 0
  BY <1>1, FinishedIs
<1>4. sess' = [sess EXCEPT ![s] = q]
  BY DEF ExitDelete
<1> HIDE DEF q
<1>5. Linked(s, q, trans')
  BY <1>1, <1>3, SessionFacts DEF Linked
<1>6. Later(trans, trans') /\ \A t \in Len(trans) + 1 .. Len(trans') : trans'[t].owner = s
  BY <1>1, SessionFacts
<1>7. Typed /\ Links
  BY DEF IInv
<1>8. /\ Links' /\ sess' \in Seq(Session) /\ Len(sess') = Len(sess) /\ sess'[s] = q
      /\ \A p \in (1 .. Len(sess)) \ {s} : sess'[p] = sess[p]
  BY <1>3, <1>4, <1>5, <1>6, <1>7, SessionStep
<1>9. /\ entry \in 0 .. Len(sess) /\ Len(sess) \in Nat /\ entry' \in 0 .. Len(sess)
      /\ entry' = 0 \/ (entry' = entry /\ entry # s)
  BY <1>7, DomainIs DEF Typed, TypeOK, ExitDelete, DeleteEntry
<1>10. DOMAIN sess = 1 .. Len(sess) /\ DOMAIN sess' = 1 .. Len(sess)
  BY <1>7, <1>8, DomainIs DEF Typed, TypeOK
<1>11. Typed'
  <2>1. entry' \in 0 .. MaxSessions
    BY <1>7, <1>9, BoundsAssumption DEF Typed, TypeOK
  <2> QED
    BY <1>1, <1>7, <1>8, <1>9, <2>1 DEF Typed, TypeOK
<1>12. Started' /\ Sweepers'
  BY <1>1, <1>3, <1>8 DEF IInv, Started, Sweepers
<1>13. OneLiveSession'
  <2>1. \A p \in DOMAIN sess' :
          ~sess'[p].closed /\ ~Cancelled(sess'[p].gen) =>
            p # s /\ (entry = p \/ \E g \in Gen : listener[g].pc = "close" /\ listener[g].session = p)
    BY <1>3, <1>8, <1>10 DEF IInv, OneLiveSession
  <2>2. \A p \in DOMAIN sess' : entry = p /\ p # s => entry' = p
    BY DEF ExitDelete, DeleteEntry
  <2>3. entry' # 0 => sess'[entry'].pc # "done"
    BY <1>8, <1>9 DEF IInv, OneLiveSession
  <2> QED
    BY <1>1, <2>1, <2>2, <2>3 DEF OneLiveSession, Cancelled
<1> QED
  BY <1>8, <1>11, <1>12, <1>13 DEF IInv

LEMMA RunStep ==
  ASSUME IInv, NEW s \in 1 .. Len(sess), Run(s)
  PROVE  IInv'
<1>1. CASE LoopDone(s)
  BY <1>1, GotoIs DEF LoopDone
<1>2. CASE LoopIdle(s)
  BY <1>2, GotoIs DEF LoopIdle
<1> QED
  BY <1>1, <1>2, OpenStep, ReplaceTransportStep, LoopReceivesStep, DequeueStep, SendStep,
     LoopEventStep, RetryStep, ReopenStep, ResendStep, ExitStep, ExitClosingStep,
     ExitDeleteStep DEF Run

-----------------------------------------------------------------------------
(* udpSessionTransport.readLoop *)

\* readLoop opens nothing and keeps the transport's owner.
LEMMA ReaderIs ==
  ASSUME IInv, NEW k \in 1 .. Len(trans), Reader(k)
  PROVE  Later(trans, trans') /\ Len(trans') = Len(trans)
<1>1. trans \in Seq(Transport)
  BY DEF IInv, Typed, TypeOK
<1>2. /\ DOMAIN trans = 1 .. Len(trans) /\ Len(trans) \in Nat
      /\ \A t \in 1 .. Len(trans) : trans[t] \in Transport
  BY <1>1, DomainIs
<1>3. trans[k] \in Transport
  BY <1>2
<1>4. <<"response">> \in Seq({"response", "error"}) /\ <<"error">> \in Seq({"response", "error"})
  OBVIOUS
<1>5. \E x \in Transport :
        /\ trans' = [trans EXCEPT ![k] = x]
        /\ x.owner = trans[k].owner /\ (x.open => trans[k].open)
  <2>1. CASE ReadResponse(k)
    <3> DEFINE x == [trans[k] EXCEPT !.seen = TRUE, !.reader = "response"]
    <3>1. x \in Transport /\ x.owner = trans[k].owner /\ x.open = trans[k].open
      BY <1>3 DEF Transport
    <3>2. trans' = [trans EXCEPT ![k] = x]
      BY <2>1 DEF ReadResponse
    <3> HIDE DEF x
    <3> QED
      BY <3>1, <3>2
  <2>2. CASE ReadError(k)
    <3> DEFINE c == IF trans[k].open THEN "error" ELSE "gone"
               x == [trans[k] EXCEPT !.reader = c]
    <3>1. trans' = [trans EXCEPT ![k] = x]
      BY <2>2 DEF ReadError
    <3>2. c \in {"error", "gone"}
      OBVIOUS
    <3> HIDE DEF c
    <3>3. x \in Transport /\ x.owner = trans[k].owner /\ x.open = trans[k].open
      BY <1>3, <3>2 DEF Transport
    <3> HIDE DEF x
    <3> QED
      BY <3>1, <3>3
  <2>3. CASE trans' = [trans EXCEPT ![k].reader = "gone"]
    <3> DEFINE x == [trans[k] EXCEPT !.reader = "gone"]
    <3>1. x \in Transport /\ x.owner = trans[k].owner /\ x.open = trans[k].open
      BY <1>3 DEF Transport
    <3>2. trans' = [trans EXCEPT ![k] = x]
      BY <2>3
    <3> HIDE DEF x
    <3> QED
      BY <3>1, <3>2
  <2>4. CASE trans' = [trans EXCEPT ![k] =
             IF @.reader = "response"
             THEN [@ EXCEPT !.events = <<"response">>, !.reader = "read"]
             ELSE [@ EXCEPT !.events = <<"error">>, !.reader = "gone", !.open = FALSE]]
    <3> DEFINE y == [trans[k] EXCEPT !.events = <<"response">>, !.reader = "read"]
               z == [trans[k] EXCEPT !.events = <<"error">>, !.reader = "gone", !.open = FALSE]
    <3>1. y \in Transport /\ y.owner = trans[k].owner /\ y.open = trans[k].open
      BY <1>3, <1>4 DEF Transport
    <3>2. z \in Transport /\ z.owner = trans[k].owner /\ ~z.open
      BY <1>3, <1>4 DEF Transport
    <3>3. trans' = [trans EXCEPT ![k] = y] \/ trans' = [trans EXCEPT ![k] = z]
      BY <2>4
    <3> HIDE DEF y, z
    <3> QED
      BY <3>1, <3>2, <3>3
  <2> QED
    BY <2>1, <2>2, <2>3, <2>4 DEF Reader, PushEvent
<1>6. PICK x \in Transport :
        /\ trans' = [trans EXCEPT ![k] = x]
        /\ x.owner = trans[k].owner /\ (x.open => trans[k].open)
  BY <1>5
<1>7. /\ trans' \in Seq(Transport) /\ Len(trans') = Len(trans) /\ trans'[k] = x
      /\ \A j \in (1 .. Len(trans)) \ {k} : trans'[j] = trans[j]
  BY <1>1, <1>2, <1>6, ElementReplaced
<1> QED
  BY <1>2, <1>6, <1>7 DEF Later

LEMMA ReaderStep ==
  ASSUME IInv, NEW k \in 1 .. Len(trans), Reader(k)
  PROVE  IInv'
<1>1. Later(trans, trans') /\ Len(trans') = Len(trans)
  BY ReaderIs
<1>2. UNCHANGED <<runtime, sweeper, listener, entry, sess, wire>>
  BY DEF Reader, ReadResponse, ReadError, PushEvent
<1>3. Typed /\ Links /\ trans \in Seq(Transport) /\ Len(trans) \in Nat
  BY DomainIs DEF IInv, Typed, TypeOK
<1>4. trans' \in Seq(Transport)
  BY <1>1 DEF Later
<1>5. Typed'
  BY <1>1, <1>2, <1>3, <1>4 DEF Typed, TypeOK
<1>6. Links'
  <2>1. \A t \in Len(trans) + 1 .. Len(trans') : FALSE
    BY <1>1, <1>3
  <2>2. \A s \in 1 .. Len(sess) : Linked(s, sess[s], trans')
    BY <1>1, <1>3, <2>1, OthersStayLinked DEF Links
  <2>3. \A t \in 1 .. Len(trans') : trans'[t].owner \in 1 .. Len(sess)
    BY <1>1, <1>3 DEF Links, Later
  <2> QED
    BY <1>2, <2>2, <2>3 DEF Links, Linked
<1>7. Started' /\ Sweepers' /\ OneLiveSession'
  BY <1>2 DEF IInv, Started, Sweepers, OneLiveSession, Cancelled
<1> QED
  BY <1>5, <1>6, <1>7 DEF IInv

-----------------------------------------------------------------------------
(* The listener *)

\* What is known of the goroutines.
LEMMA ListenerFacts ==
  ASSUME IInv
  PROVE  /\ listener \in [Gen -> Listener] /\ sess \in Seq(Session) /\ Len(sess) \in Nat
         /\ DOMAIN sess = 1 .. Len(sess) /\ entry \in 0 .. Len(sess) /\ Len(sess) <= MaxSessions
         /\ MaxSessions \in Nat /\ IdleListener \in Listener /\ IdleListener.pc = "idle"
         /\ IdleListener.session = 0
         /\ runtime \in [gen : Gen, phase : {"running", "cancelled"}]
         /\ \A g \in Gen : listener[g].pc # "idle" =>
              g <= runtime.gen /\ listener[g].payload \in Datagram
<1>1. sess \in Seq(Session) /\ Len(sess) <= MaxSessions /\ MaxSessions \in Nat
      /\ listener \in [Gen -> Listener] /\ entry \in 0 .. Len(sess)
      /\ runtime \in [gen : Gen, phase : {"running", "cancelled"}]
  BY BoundsAssumption DEF IInv, Typed, TypeOK
<1>2. Len(sess) \in Nat /\ DOMAIN sess = 1 .. Len(sess)
  BY <1>1, DomainIs
<1>3. Nil \in Payload /\ 0 \in 0 .. MaxSessions /\ 0 \in 0 .. 1
  BY <1>1 DEF Payload
<1>4. IdleListener \in Listener /\ IdleListener.pc = "idle" /\ IdleListener.session = 0
  BY <1>3 DEF IdleListener, Listener
<1>5. \A g \in Gen : listener[g].pc # "idle" => g <= runtime.gen /\ listener[g].payload \in Datagram
  BY DEF IInv, Typed, Started
<1> QED
  BY <1>1, <1>2, <1>4, <1>5

\* One listener goes on as l, while no session goes away.
LEMMA ListenerMoves ==
  ASSUME IInv, NEW g \in Gen, NEW l \in Listener, listener' = [listener EXCEPT ![g] = l],
         UNCHANGED runtime, sess' \in Seq(Session), Len(sess') \in Nat, Len(sess) <= Len(sess'),
         l.session \in 0 .. Len(sess'),
         l.pc \in {"enqueue", "check", "delete", "close", "closing"} => l.session # 0,
         l.pc # "idle" => l.payload \in Datagram /\ g <= runtime.gen
  PROVE  /\ listener' \in [Gen -> Listener] /\ listener'[g] = l
         /\ \A h \in Gen \ {g} : listener'[h] = listener[h]
         /\ \A h \in Gen :
              /\ listener'[h].session \in 0 .. Len(sess')
              /\ listener'[h].pc \in {"enqueue", "check", "delete", "close", "closing"} =>
                   listener'[h].session # 0
              /\ listener'[h].pc # "idle" => listener'[h].payload \in Datagram
         /\ \A h \in Gen : listener'[h].pc # "idle" => h <= runtime'.gen
<1>1. listener \in [Gen -> Listener] /\ Len(sess) \in Nat
  BY ListenerFacts
<1>2. /\ listener' \in [Gen -> Listener] /\ listener'[g] = l
      /\ \A h \in Gen \ {g} : listener'[h] = listener[h]
  BY <1>1
<1>3. ASSUME NEW h \in Gen
      PROVE  /\ listener'[h].session \in 0 .. Len(sess')
             /\ listener'[h].pc \in {"enqueue", "check", "delete", "close", "closing"} =>
                  listener'[h].session # 0
             /\ listener'[h].pc # "idle" => listener'[h].payload \in Datagram
             /\ listener'[h].pc # "idle" => h <= runtime'.gen
  <2>1. CASE h = g
    BY <1>2, <2>1
  <2>2. CASE h # g
    <3>1. listener'[h] = listener[h]
      BY <1>2, <2>2
    <3>2. /\ listener[h].session \in 0 .. Len(sess)
          /\ listener[h].pc \in {"enqueue", "check", "delete", "close", "closing"} =>
                  listener[h].session # 0
          /\ listener[h].pc # "idle" => listener[h].payload \in Datagram
          /\ listener[h].pc # "idle" => h <= runtime.gen
      BY DEF IInv, Typed, Started
    <3>3. listener[h].session \in 0 .. Len(sess')
      BY <1>1, <3>2
    <3> QED
      BY <3>1, <3>2, <3>3
  <2> QED
    BY <2>1, <2>2
<1> QED
  BY <1>2, <1>3

\* A step of a listener that changes nothing else, and does not leave "close".
LEMMA ListenerOnly ==
  ASSUME IInv, NEW g \in Gen, NEW l \in Listener, listener' = [listener EXCEPT ![g] = l],
         UNCHANGED <<runtime, sweeper, entry, sess, trans, wire>>,
         listener[g].pc # "close", l.session \in 0 .. Len(sess),
         l.pc \in {"enqueue", "check", "delete", "close", "closing"} => l.session # 0,
         l.pc # "idle" => l.payload \in Datagram /\ g <= runtime.gen
  PROVE  IInv'
<1>1. sess' \in Seq(Session) /\ Len(sess') \in Nat /\ Len(sess) <= Len(sess')
  BY ListenerFacts
<1>2. l.session \in 0 .. Len(sess')
  OBVIOUS
<1>3. /\ listener' \in [Gen -> Listener] /\ listener'[g] = l
      /\ \A h \in Gen \ {g} : listener'[h] = listener[h]
      /\ \A h \in Gen :
           /\ listener'[h].session \in 0 .. Len(sess')
           /\ listener'[h].pc \in {"enqueue", "check", "delete", "close", "closing"} =>
                listener'[h].session # 0
           /\ listener'[h].pc # "idle" => listener'[h].payload \in Datagram
      /\ \A h \in Gen : listener'[h].pc # "idle" => h <= runtime'.gen
  BY <1>1, <1>2, ListenerMoves
<1>4. Typed'
  BY <1>3 DEF IInv, Typed, TypeOK
<1>5. Links' /\ Started' /\ Sweepers'
  BY <1>3 DEF IInv, Links, Linked, Started, Sweepers
<1>6. OneLiveSession'
  <2>1. \A h \in Gen : listener[h].pc = "close" => listener'[h] = listener[h]
    BY <1>3
  <2>2. entry' # 0 => sess'[entry'].pc # "done"
    BY DEF IInv, OneLiveSession
  <2>3. ASSUME NEW s \in DOMAIN sess', ~sess'[s].closed, ~Cancelled(sess[s].gen)
        PROVE  entry' = s \/ \E h \in Gen : listener'[h].pc = "close" /\ listener'[h].session = s
    <3>1. entry = s \/ \E h \in Gen : listener[h].pc = "close" /\ listener[h].session = s
      BY <2>3 DEF IInv, OneLiveSession
    <3> QED
      BY <2>1, <3>1
  <2> QED
    BY <2>2, <2>3 DEF OneLiveSession, Cancelled
<1> QED
  BY <1>4, <1>5, <1>6 DEF IInv

LEMMA ReceiveStep ==
  ASSUME IInv, NEW g \in Gen, NEW d \in Datagram, Receive(g, d)
  PROVE  IInv'
<1> DEFINE l == [IdleListener EXCEPT !.pc = "get", !.payload = d]
<1>1. IdleListener \in Listener /\ d \in Payload /\ runtime.gen \in Nat
  BY ListenerFacts, BoundsAssumption DEF Payload, Gen
<1>2. l \in Listener /\ l.pc = "get" /\ l.payload = d /\ l.session = IdleListener.session
  BY <1>1 DEF Listener
<1>3. listener' = [listener EXCEPT ![g] = l]
  BY DEF Receive
<1> HIDE DEF l
<1>4. /\ listener[g].pc = "idle" /\ g <= runtime.gen /\ l.session \in 0 .. Len(sess)
      /\ UNCHANGED <<runtime, sweeper, entry, sess, trans, wire>>
  BY <1>1, <1>2, ListenerFacts DEF Receive
<1> QED
  BY <1>2, <1>3, <1>4, ListenerOnly

LEMMA CheckUnavailableStep ==
  ASSUME IInv, NEW g \in Gen, CheckUnavailable(g)
  PROVE  IInv'
<1> DEFINE l == [listener[g] EXCEPT !.pc = "delete"]
<1>1. /\ listener[g] \in Listener /\ listener[g].pc = "check"
      /\ listener[g].session \in 0 .. Len(sess) /\ listener[g].session # 0
      /\ g <= runtime.gen /\ listener[g].payload \in Datagram
      /\ UNCHANGED <<runtime, sweeper, entry, sess, trans, wire>>
  BY ListenerFacts DEF CheckUnavailable, IInv, Typed
<1>2. /\ l \in Listener /\ l.pc = "delete" /\ l.session = listener[g].session
      /\ l.payload = listener[g].payload
  BY <1>1 DEF Listener
<1>3. listener' = [listener EXCEPT ![g] = l] \/ listener' = [listener EXCEPT ![g] = IdleListener]
  BY DEF CheckUnavailable
<1> HIDE DEF l
<1>4. CASE listener' = [listener EXCEPT ![g] = l]
  <2>1. l.session \in 0 .. Len(sess) /\ l.session # 0 /\ l.payload \in Datagram
    BY <1>1, <1>2
  <2> QED
    BY <1>1, <1>2, <1>4, <2>1, ListenerOnly
<1>5. CASE listener' = [listener EXCEPT ![g] = IdleListener]
  <2>1. /\ IdleListener \in Listener /\ IdleListener.pc = "idle"
        /\ IdleListener.session \in 0 .. Len(sess)
    BY ListenerFacts
  <2> QED
    BY <1>1, <1>5, <2>1, ListenerOnly
<1> QED
  BY <1>3, <1>4, <1>5

LEMMA GetOrCreateStep ==
  ASSUME IInv, NEW g \in Gen, GetOrCreate(g)
  PROVE  IInv'
<1>1. /\ listener[g] \in Listener /\ listener[g].pc = "get" /\ g <= runtime.gen
      /\ listener[g].payload \in Datagram /\ UNCHANGED <<runtime, sweeper, trans, wire>>
  BY ListenerFacts DEF GetOrCreate
<1>2. CASE /\ entry # 0 /\ UNCHANGED <<entry, sess>>
           /\ listener' = [listener EXCEPT ![g].pc = "enqueue", ![g].session = entry]
  <2> DEFINE l == [listener[g] EXCEPT !.pc = "enqueue", !.session = entry]
  <2>1. entry \in 0 .. MaxSessions
    BY ListenerFacts
  <2>2. /\ l \in Listener /\ l.pc = "enqueue" /\ l.session = entry
        /\ l.payload = listener[g].payload
    BY <1>1, <2>1 DEF Listener
  <2>3. listener' = [listener EXCEPT ![g] = l]
    BY <1>2
  <2> HIDE DEF l
  <2>4. l.session \in 0 .. Len(sess) /\ l.session # 0 /\ l.payload \in Datagram
    BY <1>1, <1>2, <2>2, ListenerFacts
  <2> QED
    BY <1>1, <1>2, <2>2, <2>3, <2>4, ListenerOnly
<1>3. CASE /\ UNCHANGED <<entry, sess>> /\ listener' = [listener EXCEPT ![g] = IdleListener]
  <2>1. /\ IdleListener \in Listener /\ IdleListener.pc = "idle"
        /\ IdleListener.session \in 0 .. Len(sess)
    BY ListenerFacts
  <2> QED
    BY <1>1, <1>3, <2>1, ListenerOnly
<1>4. CASE /\ entry = 0 /\ Len(sess) < MaxSessions /\ entry' = Len(sess) + 1
           /\ sess' = Append(sess, NewSession(g))
           /\ listener' = [listener EXCEPT ![g].pc = "enqueue", ![g].session = Len(sess) + 1]
  <2> DEFINE n == Len(sess) + 1
             e == NewSession(g)
             l == [listener[g] EXCEPT !.pc = "enqueue", !.session = n]
  <2>1. /\ n \in 0 .. MaxSessions /\ Len(sess) \in Nat /\ sess \in Seq(Session)
        /\ Len(sess) < MaxSessions /\ MaxSessions \in Nat
    BY <1>4, ListenerFacts
  <2>2. /\ e \in Session /\ e.gen = g /\ e.pc = "open" /\ e.transport = 0 /\ e.next = 0
    BY NewSessionIs
  <2>3. listener' = [listener EXCEPT ![g] = l] /\ sess' = Append(sess, e) /\ entry' = n
    BY <1>4
  <2> HIDE DEF n, e
  <2>4. /\ l \in Listener /\ l.pc = "enqueue" /\ l.session = n
        /\ l.payload = listener[g].payload
    BY <1>1, <2>1 DEF Listener
  <2> HIDE DEF l
  <2>5. /\ sess' \in Seq(Session) /\ Len(sess') = Len(sess) + 1 /\ sess'[Len(sess) + 1] = e
        /\ \A p \in 1 .. Len(sess) : sess'[p] = sess[p]
    BY <2>1, <2>2, <2>3, AppendIs
  <2>6. /\ Len(sess') \in Nat /\ Len(sess) <= Len(sess') /\ n \in 0 .. Len(sess') /\ n # 0
        /\ Len(sess') = n /\ sess'[n] = e /\ Len(sess') <= MaxSessions
        /\ DOMAIN sess' = 1 .. Len(sess') /\ n \in 0 .. MaxSessions
        /\ \A p \in 1 .. Len(sess') : p \in 1 .. Len(sess) \/ p = n
    BY <2>1, <2>5, DomainIs DEF n
  <2>7. l.session \in 0 .. Len(sess') /\ l.session # 0 /\ l.payload \in Datagram
    BY <1>1, <2>4, <2>6
  <2>8. /\ listener' \in [Gen -> Listener] /\ listener'[g] = l
        /\ \A h \in Gen \ {g} : listener'[h] = listener[h]
        /\ \A h \in Gen :
             /\ listener'[h].session \in 0 .. Len(sess')
             /\ listener'[h].pc \in {"enqueue", "check", "delete", "close", "closing"} =>
                  listener'[h].session # 0
             /\ listener'[h].pc # "idle" => listener'[h].payload \in Datagram
        /\ \A h \in Gen : listener'[h].pc # "idle" => h <= runtime'.gen
    BY <1>1, <2>3, <2>4, <2>5, <2>6, <2>7, ListenerMoves
  <2>9. Typed'
    BY <1>1, <2>3, <2>5, <2>6, <2>8 DEF IInv, Typed, TypeOK
  <2>10. Links'
    <3>1. \A p \in 1 .. Len(sess) : Linked(p, sess'[p], trans)
      BY <2>5 DEF IInv, Links
    <3>2. \A t \in 1 .. Len(trans) : trans[t].owner \in 1 .. Len(sess) /\ trans[t].owner # n
      BY <2>1 DEF IInv, Links, n
    <3>3. Linked(n, sess'[n], trans)
      <4>1. 0 \in 0 .. Len(trans)
        BY DomainIs DEF IInv, Typed, TypeOK
      <4> QED
        BY <2>2, <2>6, <3>2, <4>1 DEF Linked
    <3>4. \A t \in 1 .. Len(trans) : trans[t].owner \in 1 .. Len(sess')
      BY <2>1, <2>5, <3>2
    <3> QED
      <4>1. UNCHANGED trans
        BY <1>1
      <4>2. ASSUME NEW p \in 1 .. Len(sess') PROVE Linked(p, sess'[p], trans)
        BY <2>6, <3>1, <3>3
      <4> QED
        BY <3>4, <4>1, <4>2 DEF Links, Linked
  <2>11. Started' /\ Sweepers'
    <3>1. Started'
      BY <1>1, <2>2, <2>5, <2>6, <2>8 DEF IInv, Started
    <3>2. \A k \in 0 .. Len(sess) : k \in 0 .. Len(sess')
      BY <2>1, <2>5
    <3> QED
      BY <1>1, <3>1, <3>2 DEF IInv, Sweepers
  <2>12. OneLiveSession'
    <3>1. ASSUME NEW s \in 1 .. Len(sess'), ~sess'[s].closed, ~Cancelled(sess'[s].gen)
          PROVE  entry' = s \/ \E h \in Gen : listener'[h].pc = "close" /\ listener'[h].session = s
      <4>1. CASE s = n
        BY <2>3, <4>1
      <4>2. CASE s \in 1 .. Len(sess)
        <5>1. s \in DOMAIN sess /\ ~sess[s].closed /\ ~Cancelled(sess[s].gen) /\ s # entry
          BY <1>4, <2>1, <2>5, <3>1, <4>2, ListenerFacts
        <5>2. \E h \in Gen : listener[h].pc = "close" /\ listener[h].session = s
          BY <5>1 DEF IInv, OneLiveSession
        <5> QED
          BY <1>1, <2>8, <5>2
      <4> QED
        BY <2>6, <3>1, <4>1, <4>2
    <3>2. entry' # 0 => sess'[entry'].pc # "done"
      BY <2>2, <2>3, <2>6
    <3> QED
      BY <1>1, <2>6, <3>1, <3>2 DEF OneLiveSession, Cancelled
  <2> QED
    BY <2>9, <2>10, <2>11, <2>12 DEF IInv
<1> QED
  BY <1>2, <1>3, <1>4 DEF GetOrCreate

\* One session goes on as q and one listener as l; no transport is opened.
LEMMA SessionAndListener ==
  ASSUME IInv, NEW s \in 1 .. Len(sess), NEW q \in Session, sess' = [sess EXCEPT ![s] = q],
         Later(trans, trans'), Len(trans') = Len(trans), Linked(s, q, trans'),
         q.gen = sess[s].gen, q.pc = sess[s].pc, sess[s].closed => q.closed,
         NEW g \in Gen, NEW l \in Listener, listener' = [listener EXCEPT ![g] = l],
         l.session \in 0 .. Len(sess),
         l.pc \in {"enqueue", "check", "delete", "close", "closing"} => l.session # 0,
         l.pc # "idle" => l.payload \in Datagram /\ g <= runtime.gen,
         listener[g].pc = "close" => listener[g].session = s /\ q.closed,
         UNCHANGED <<runtime, sweeper, entry, wire>>
  PROVE  IInv'
<1>1. Typed /\ Links /\ Len(trans) \in Nat /\ Len(trans) <= MaxTransports
  BY DomainIs DEF IInv, Typed, TypeOK
<1>2. \A t \in Len(trans) + 1 .. Len(trans') : trans'[t].owner = s
  BY <1>1
<1>3. /\ Links' /\ sess' \in Seq(Session) /\ Len(sess') = Len(sess) /\ sess'[s] = q
      /\ \A p \in (1 .. Len(sess)) \ {s} : sess'[p] = sess[p]
  BY <1>1, <1>2, SessionStep
<1>4. Len(sess') \in Nat /\ Len(sess) <= Len(sess') /\ l.session \in 0 .. Len(sess')
      /\ DOMAIN sess' = 1 .. Len(sess) /\ DOMAIN sess = 1 .. Len(sess)
  BY <1>3, ListenerFacts, DomainIs
<1>5. /\ listener' \in [Gen -> Listener] /\ listener'[g] = l
      /\ \A h \in Gen \ {g} : listener'[h] = listener[h]
      /\ \A h \in Gen :
           /\ listener'[h].session \in 0 .. Len(sess')
           /\ listener'[h].pc \in {"enqueue", "check", "delete", "close", "closing"} =>
                listener'[h].session # 0
           /\ listener'[h].pc # "idle" => listener'[h].payload \in Datagram
      /\ \A h \in Gen : listener'[h].pc # "idle" => h <= runtime'.gen
  BY <1>3, <1>4, ListenerMoves
<1>6. Typed'
  <2>1. trans' \in Seq(Transport)
    BY DEF Later
  <2> QED
    BY <1>1, <1>3, <1>5, <2>1 DEF Typed, TypeOK
<1>7. Started' /\ Sweepers'
  BY <1>3, <1>5 DEF IInv, Started, Sweepers
<1>8. OneLiveSession'
  <2>1. ASSUME NEW p \in 1 .. Len(sess), ~sess'[p].closed, ~Cancelled(sess'[p].gen)
        PROVE  entry = p \/ \E h \in Gen : listener'[h].pc = "close" /\ listener'[h].session = p
    <3>1. p \in DOMAIN sess /\ ~sess[p].closed /\ ~Cancelled(sess[p].gen)
      BY <1>3, <1>4, <2>1
    <3>2. entry = p \/ \E h \in Gen : listener[h].pc = "close" /\ listener[h].session = p
      BY <3>1 DEF IInv, OneLiveSession
    <3>3. listener[g].pc = "close" => listener[g].session # p
      BY <1>3, <2>1
    <3> QED
      BY <1>5, <3>2, <3>3
  <2>2. entry # 0 => sess'[entry].pc # "done"
    BY <1>3, ListenerFacts DEF IInv, OneLiveSession
  <2> QED
    BY <1>4, <2>1, <2>2 DEF OneLiveSession, Cancelled
<1> QED
  BY <1>3, <1>6, <1>7, <1>8 DEF IInv

LEMMA EnqueueStep ==
  ASSUME IInv, NEW g \in Gen, Enqueue(g)
  PROVE  IInv'
<1> DEFINE k == listener[g].session
           d == listener[g].payload
<1>1. /\ listener[g] \in Listener /\ listener[g].pc = "enqueue" /\ k \in 1 .. Len(sess)
      /\ g <= runtime.gen /\ d \in Datagram /\ UNCHANGED <<runtime, sweeper, entry, trans, wire>>
  BY ListenerFacts DEF Enqueue, IInv, Typed
<1>2. CASE /\ sess' = [sess EXCEPT ![k].queue = Append(@, d), ![k].queued = @ + Size[d]]
           /\ listener' = [listener EXCEPT ![g] = IdleListener]
  <2> DEFINE q == [sess[k] EXCEPT !.queue = Append(@, d), !.queued = @ + Size[d]]
  <2>1. sess[k] \in Session /\ Linked(k, sess[k], trans) /\ Later(trans, trans')
    BY <1>1, SessionFacts
  <2>2. Append(sess[k].queue, d) \in Seq(Datagram) /\ sess[k].queued + Size[d] \in Int
    <3>1. sess[k].queue \in Seq(Datagram) /\ sess[k].queued \in Int
      BY <2>1 DEF Session
    <3> QED
      BY <1>1, <3>1, AppendIs, SizeAssumption
  <2>3. /\ q \in Session /\ q.pc = sess[k].pc /\ q.gen = sess[k].gen /\ q.closed = sess[k].closed
        /\ q.transport = sess[k].transport /\ q.next = sess[k].next /\ q.pending = sess[k].pending
    BY <2>1, <2>2 DEF Session
  <2>4. sess' = [sess EXCEPT ![k] = q]
    BY <1>2
  <2> HIDE DEF q, k
  <2>5. Linked(k, q, trans') /\ Len(trans') = Len(trans)
    BY <1>1, <2>1, <2>3 DEF Linked
  <2>6. /\ IdleListener \in Listener /\ IdleListener.pc = "idle"
        /\ IdleListener.session \in 0 .. Len(sess)
    BY ListenerFacts
  <2> QED
    BY <1>1, <1>2, <2>1, <2>3, <2>4, <2>5, <2>6, SessionAndListener
<1>3. CASE listener' = [listener EXCEPT ![g].pc = "check"] /\ UNCHANGED sess
  <2> DEFINE l == [listener[g] EXCEPT !.pc = "check"]
  <2>1. /\ l \in Listener /\ l.pc = "check" /\ l.session = listener[g].session
        /\ l.payload = listener[g].payload
    BY <1>1 DEF Listener
  <2>2. listener' = [listener EXCEPT ![g] = l]
    BY <1>3
  <2> HIDE DEF l
  <2>3. l.session \in 0 .. Len(sess) /\ l.session # 0 /\ l.payload \in Datagram
    BY <1>1, <2>1, ListenerFacts
  <2> QED
    BY <1>1, <1>3, <2>1, <2>2, <2>3, ListenerOnly
<1> QED
  BY <1>2, <1>3 DEF Enqueue

\* close() marks a session; it stays where it is.
LEMMA MarkedIs ==
  ASSUME IInv, NEW s \in 1 .. Len(sess)
  PROVE  \E q \in Session :
           /\ MarkClosed(s) => sess' = [sess EXCEPT ![s] = q]
           /\ Linked(s, q, trans) /\ q.closed
           /\ q.gen = sess[s].gen /\ q.pc = sess[s].pc /\ q.transport = sess[s].transport
<1> DEFINE q == [sess[s] EXCEPT !.closed = TRUE]
<1>1. sess[s] \in Session /\ Linked(s, sess[s], trans) /\ trans \in Seq(Transport)
  BY SessionFacts
<1>2. /\ q \in Session /\ q.pc = sess[s].pc /\ q.gen = sess[s].gen /\ q.closed
      /\ q.transport = sess[s].transport /\ q.next = sess[s].next /\ q.pending = sess[s].pending
  BY <1>1 DEF Session
<1>3. MarkClosed(s) => sess' = [sess EXCEPT ![s] = q]
  BY DEF MarkClosed
<1> HIDE DEF q
<1>4. Linked(s, q, trans)
  BY <1>1, <1>2, LinkedMarked
<1> QED
  BY <1>2, <1>3, <1>4

\* Then it closes the session's transport; the session itself stays as it is.
LEMMA ClosingIs ==
  ASSUME IInv, NEW s \in 1 .. Len(sess), CloseMarked(s)
  PROVE  /\ sess[s] \in Session /\ sess = [sess EXCEPT ![s] = sess[s]]
         /\ Linked(s, sess[s], trans') /\ Later(trans, trans') /\ Len(trans') = Len(trans)
<1>1. sess[s] \in Session /\ Linked(s, sess[s], trans) /\ trans \in Seq(Transport)
  BY SessionFacts
<1>2. Linked(s, sess[s], trans') /\ Later(trans, trans') /\ Len(trans') = Len(trans)
  BY <1>1, LinkedClosing DEF CloseMarked
<1>3. sess \in Seq(Session)
  BY DEF IInv, Typed, TypeOK
<1>4. sess = [sess EXCEPT ![s] = sess[s]]
  BY <1>3
<1> QED
  BY <1>1, <1>2, <1>4

LEMMA SubmitDeleteStep ==
  ASSUME IInv, NEW g \in Gen, SubmitDelete(g)
  PROVE  IInv'
<1> DEFINE k == listener[g].session
           l == [listener[g] EXCEPT !.pc = "close"]
<1>1. /\ listener[g] \in Listener /\ listener[g].pc = "delete" /\ k \in 1 .. Len(sess)
      /\ g <= runtime.gen /\ listener[g].payload \in Datagram
      /\ UNCHANGED <<runtime, sweeper, sess, trans, wire>>
  BY ListenerFacts DEF SubmitDelete, IInv, Typed
<1>2. l \in Listener /\ l.pc = "close" /\ l.session = k /\ l.payload = listener[g].payload
  BY <1>1 DEF Listener
<1>3. listener' = [listener EXCEPT ![g] = l] /\ entry' = IF entry = k THEN 0 ELSE entry
  BY DEF SubmitDelete, DeleteEntry
<1> HIDE DEF k, l
<1>4. /\ sess' \in Seq(Session) /\ Len(sess') \in Nat /\ Len(sess) <= Len(sess')
      /\ l.session \in 0 .. Len(sess') /\ l.session # 0 /\ l.payload \in Datagram
      /\ entry' \in 0 .. MaxSessions /\ entry' \in 0 .. Len(sess')
  BY <1>1, <1>2, <1>3, ListenerFacts
<1>5. /\ listener' \in [Gen -> Listener] /\ listener'[g] = l
      /\ \A h \in Gen \ {g} : listener'[h] = listener[h]
      /\ \A h \in Gen :
           /\ listener'[h].session \in 0 .. Len(sess')
           /\ listener'[h].pc \in {"enqueue", "check", "delete", "close", "closing"} =>
                listener'[h].session # 0
           /\ listener'[h].pc # "idle" => listener'[h].payload \in Datagram
      /\ \A h \in Gen : listener'[h].pc # "idle" => h <= runtime'.gen
  BY <1>1, <1>2, <1>3, <1>4, ListenerMoves
<1>6. Typed' /\ Links' /\ Started' /\ Sweepers'
  BY <1>1, <1>4, <1>5 DEF IInv, Typed, TypeOK, Links, Linked, Started, Sweepers
<1>7. OneLiveSession'
  <2>1. ASSUME NEW s \in DOMAIN sess, ~sess[s].closed, ~Cancelled(sess[s].gen)
        PROVE  entry' = s \/ \E h \in Gen : listener'[h].pc = "close" /\ listener'[h].session = s
    <3>1. entry = s \/ \E h \in Gen : listener[h].pc = "close" /\ listener[h].session = s
      BY <2>1 DEF IInv, OneLiveSession
    <3>2. CASE s = k
      BY <1>2, <1>5, <3>2
    <3>3. CASE entry = s /\ s # k
      BY <1>3, <3>3
    <3>4. CASE \E h \in Gen : listener[h].pc = "close" /\ listener[h].session = s
      BY <1>1, <1>5, <3>4
    <3> QED
      BY <3>1, <3>2, <3>3, <3>4
  <2>2. entry' # 0 => sess[entry'].pc # "done"
    BY <1>3 DEF IInv, OneLiveSession
  <2> QED
    BY <1>1, <2>1, <2>2 DEF OneLiveSession, Cancelled
<1> QED
  BY <1>6, <1>7 DEF IInv

\* The listener tries the datagram once more, or is done with it.
LEMMA ResubmitIs ==
  ASSUME IInv, NEW g \in Gen, listener[g].pc # "idle", Resubmit(g)
  PROVE  \E l \in Listener :
           /\ listener' = [listener EXCEPT ![g] = l] /\ l.pc \in {"get", "idle"}
           /\ l.session \in 0 .. Len(sess)
           /\ l.pc # "idle" => l.payload \in Datagram /\ g <= runtime.gen
<1> DEFINE l == IF listener[g].attempt = 0
                THEN [listener[g] EXCEPT !.pc = "get", !.attempt = 1] ELSE IdleListener
<1>1. /\ listener[g] \in Listener /\ listener[g].session \in 0 .. Len(sess)
      /\ g <= runtime.gen /\ listener[g].payload \in Datagram
  BY ListenerFacts DEF IInv, Typed
<1>2. /\ l \in Listener /\ l.pc \in {"get", "idle"} /\ l.session \in 0 .. Len(sess)
      /\ l.pc # "idle" => l.payload \in Datagram
  <2>1. 1 \in 0 .. 1
    OBVIOUS
  <2>2. CASE listener[g].attempt = 0
    BY <1>1, <2>1, <2>2 DEF Listener
  <2>3. CASE listener[g].attempt # 0
    BY <2>3, ListenerFacts
  <2> QED
    BY <2>2, <2>3
<1>3. listener' = [listener EXCEPT ![g] = l]
  BY DEF Resubmit
<1> HIDE DEF l
<1> QED
  BY <1>1, <1>2, <1>3

LEMMA SubmitCloseStep ==
  ASSUME IInv, NEW g \in Gen, SubmitClose(g)
  PROVE  IInv'
<1> DEFINE k == listener[g].session
<1>1. /\ listener[g] \in Listener /\ listener[g].pc = "close" /\ k \in 1 .. Len(sess)
      /\ g <= runtime.gen /\ listener[g].payload \in Datagram
      /\ UNCHANGED <<runtime, sweeper, entry, trans, wire>>
  BY ListenerFacts DEF SubmitClose, IInv, Typed
<1>2. /\ Later(trans, trans') /\ Len(trans') = Len(trans) /\ sess \in Seq(Session)
      /\ sess[k] \in Session /\ Linked(k, sess[k], trans)
  BY <1>1, SessionFacts, ListenerFacts
<1>3. CASE sess[k].closed /\ Resubmit(g) /\ UNCHANGED sess
  <2>1. PICK l \in Listener :
          /\ listener' = [listener EXCEPT ![g] = l] /\ l.pc \in {"get", "idle"}
          /\ l.session \in 0 .. Len(sess)
          /\ l.pc # "idle" => l.payload \in Datagram /\ g <= runtime.gen
    BY <1>1, <1>3, ResubmitIs
  <2>2. sess' = [sess EXCEPT ![k] = sess[k]] /\ Linked(k, sess[k], trans')
    BY <1>1, <1>2, <1>3
  <2>3. /\ l.pc \in {"enqueue", "check", "delete", "close", "closing"} => l.session # 0
        /\ listener[g].session = k
    BY <2>1 DEF k
  <2> HIDE DEF k
  <2> QED
    BY <1>1, <1>2, <1>3, <2>1, <2>2, <2>3, SessionAndListener
<1>4. CASE /\ MarkClosed(k) /\ listener' = [listener EXCEPT ![g].pc = "closing"]
  <2> DEFINE l == [listener[g] EXCEPT !.pc = "closing"]
  <2>1. /\ l \in Listener /\ l.pc = "closing" /\ l.session = k /\ l.payload = listener[g].payload
    BY <1>1 DEF Listener
  <2>2. listener' = [listener EXCEPT ![g] = l]
    BY <1>4
  <2>3. listener[g].session = k
    BY DEF k
  <2> HIDE DEF k, l
  <2>4. PICK q \in Session :
          /\ MarkClosed(k) => sess' = [sess EXCEPT ![k] = q]
          /\ Linked(k, q, trans) /\ q.closed
          /\ q.gen = sess[k].gen /\ q.pc = sess[k].pc /\ q.transport = sess[k].transport
    BY <1>1, MarkedIs
  <2>5. sess' = [sess EXCEPT ![k] = q] /\ Linked(k, q, trans')
    BY <1>1, <1>4, <2>4
  <2>6. l.session # 0 /\ l.session \in 0 .. Len(sess)
    BY <1>1, <2>1, ListenerFacts
  <2>7. l.pc # "idle" => l.payload \in Datagram /\ g <= runtime.gen
    BY <1>1, <2>1
  <2>8. listener[g].pc = "close" => listener[g].session = k /\ q.closed
    BY <2>3, <2>4
  <2>9. UNCHANGED <<runtime, sweeper, entry, wire>>
    BY <1>1
  <2> QED
    BY <1>1, <1>2, <2>1, <2>2, <2>4, <2>5, <2>6, <2>7, <2>8, <2>9, SessionAndListener
<1> QED
  BY <1>3, <1>4 DEF SubmitClose

LEMMA SubmitClosingStep ==
  ASSUME IInv, NEW g \in Gen, SubmitClosing(g)
  PROVE  IInv'
<1> DEFINE k == listener[g].session
<1>1. /\ listener[g] \in Listener /\ listener[g].pc = "closing" /\ k \in 1 .. Len(sess)
      /\ UNCHANGED <<runtime, sweeper, entry, sess, wire>>
  BY ListenerFacts DEF SubmitClosing, IInv, Typed
<1>2. CloseMarked(k) /\ Resubmit(g)
  BY DEF SubmitClosing
<1>3. PICK l \in Listener :
        /\ listener' = [listener EXCEPT ![g] = l] /\ l.pc \in {"get", "idle"}
        /\ l.session \in 0 .. Len(sess)
        /\ l.pc # "idle" => l.payload \in Datagram /\ g <= runtime.gen
  BY <1>1, <1>2, ResubmitIs
<1> HIDE DEF k
<1>4. /\ sess[k] \in Session /\ sess' = [sess EXCEPT ![k] = sess[k]]
      /\ Linked(k, sess[k], trans') /\ Later(trans, trans') /\ Len(trans') = Len(trans)
  BY <1>1, <1>2, ClosingIs
<1>5. l.pc \in {"enqueue", "check", "delete", "close", "closing"} => l.session # 0
  BY <1>3
<1> QED
  BY <1>1, <1>3, <1>4, <1>5, SessionAndListener

-----------------------------------------------------------------------------
(* The runtime *)

\* One of those that empty the table goes on as x.
LEMMA SweeperMoves ==
  ASSUME IInv, NEW w \in 0 .. MaxGen, NEW x \in Sweeper, sweeper' = [sweeper EXCEPT ![w] = x],
         x.session \in 0 .. Len(sess), x.pc \in {"close", "closing"} => x.session # 0,
         sweeper[w].pc # "idle", UNCHANGED runtime
  PROVE  sweeper' \in [0 .. MaxGen -> Sweeper] /\ (Len(sess') = Len(sess) => Sweepers')
<1>1. sweeper \in [0 .. MaxGen -> Sweeper] /\ 0 \in 0 .. MaxGen
  BY BoundsAssumption DEF IInv, Typed, TypeOK
<1>2. /\ sweeper' \in [0 .. MaxGen -> Sweeper] /\ sweeper'[w] = x
      /\ \A v \in (0 .. MaxGen) \ {w} : sweeper'[v] = sweeper[v]
  BY <1>1
<1>3. ASSUME Len(sess') = Len(sess), NEW v \in 0 .. MaxGen
      PROVE  /\ sweeper'[v].session \in 0 .. Len(sess')
             /\ sweeper'[v].pc \in {"close", "closing"} => sweeper'[v].session # 0
             /\ sweeper'[v].pc # "idle" => sweeper[v].pc # "idle"
  BY <1>2, <1>3 DEF IInv, Sweepers
<1> QED
  BY <1>1, <1>2, <1>3 DEF IInv, Sweepers

\* An idle one.
LEMMA IdleSweeperIs ==
  ASSUME IInv
  PROVE  /\ IdleSweeper \in Sweeper /\ IdleSweeper.pc = "idle" /\ IdleSweeper.session = 0
         /\ IdleSweeper.session \in 0 .. Len(sess)
BY ListenerFacts DEF IdleSweeper, Sweeper

\* The table is emptied while every session's context is cancelled.
LEMMA EmptyTableStep ==
  ASSUME IInv, NEW w \in 0 .. MaxGen, EmptyTable(w)
  PROVE  IInv'
<1>1. /\ sweeper[w].pc = "wait" /\ entry \in 0 .. Len(sess) /\ entry \in 0 .. MaxSessions
      /\ UNCHANGED <<runtime, listener, sess, trans, wire>>
  BY ListenerFacts DEF EmptyTable
<1>2. /\ sweeper' \in [0 .. MaxGen -> Sweeper] /\ Sweepers'
      /\ entry' = entry \/ (entry' = 0 /\ (w = 0 \/ SameGeneration(w)))
  <2>1. CASE /\ entry # 0 /\ entry' = 0 /\ (w = 0 \/ SameGeneration(w))
             /\ sweeper' = [sweeper EXCEPT ![w] = [pc |-> "close", session |-> entry]]
    <3> DEFINE x == [pc |-> "close", session |-> entry]
    <3>1. x \in Sweeper /\ x.pc = "close" /\ x.session = entry
      BY <1>1 DEF Sweeper
    <3>2. sweeper' = [sweeper EXCEPT ![w] = x]
      BY <2>1
    <3> HIDE DEF x
    <3>3. /\ sweeper' \in [0 .. MaxGen -> Sweeper] /\ (Len(sess') = Len(sess) => Sweepers')
      BY <1>1, <2>1, <3>1, <3>2, SweeperMoves
    <3> QED
      BY <1>1, <2>1, <3>3
  <2>2. CASE sweeper' = [sweeper EXCEPT ![w] = IdleSweeper] /\ UNCHANGED entry
    <3>1. /\ sweeper' \in [0 .. MaxGen -> Sweeper] /\ (Len(sess') = Len(sess) => Sweepers')
      BY <1>1, <2>2, IdleSweeperIs, SweeperMoves
    <3> QED
      BY <1>1, <2>2, <3>1
  <2> QED
    BY <2>1, <2>2 DEF EmptyTable
<1>3. entry' \in 0 .. Len(sess) /\ entry' \in 0 .. MaxSessions
  <2>1. 0 \in 0 .. Len(sess) /\ 0 \in 0 .. MaxSessions
    BY ListenerFacts
  <2> QED
    BY <1>1, <1>2, <2>1
<1>4. Typed'
  BY <1>1, <1>2, <1>3 DEF IInv, Typed, TypeOK
<1>5. Links' /\ Started'
  BY <1>1 DEF IInv, Links, Linked, Started
<1>6. OneLiveSession'
  <2>1. CASE entry' = entry
    BY <1>1, <2>1 DEF IInv, OneLiveSession, Cancelled
  <2>2. CASE entry' = 0 /\ (w = 0 \/ SameGeneration(w))
    <3>1. runtime.phase # "running"
      <4>1. CASE w = 0
        BY <1>1, <4>1 DEF IInv, Sweepers
      <4>2. CASE w # 0
        BY <2>2, <4>2 DEF EmptyTable, SameGeneration, Cancelled
      <4> QED
        BY <4>1, <4>2
    <3> QED
      BY <1>1, <2>2, <3>1 DEF OneLiveSession, Cancelled
  <2> QED
    BY <1>2, <2>1, <2>2
<1> QED
  BY <1>2, <1>4, <1>5, <1>6 DEF IInv

LEMMA SweepCloseStep ==
  ASSUME IInv, NEW w \in 0 .. MaxGen, SweepClose(w)
  PROVE  IInv'
<1> DEFINE k == sweeper[w].session
<1>1. /\ sweeper[w].pc = "close" /\ k \in 1 .. Len(sess) /\ sweeper[w] \in Sweeper
      /\ UNCHANGED <<runtime, listener, entry, trans, wire>>
  BY ListenerFacts DEF SweepClose, IInv, Sweepers, Typed, TypeOK
<1>2. /\ Later(trans, trans') /\ Len(trans') <= MaxTransports /\ sess \in Seq(Session)
      /\ sess[k] \in Session /\ Linked(k, sess[k], trans)
      /\ \A t \in Len(trans) + 1 .. Len(trans') : trans'[t].owner = k
      /\ wire' \in [Payload -> SUBSET (1 .. MaxTransports)]
  BY <1>1, SessionFacts, ListenerFacts
<1>3. CASE /\ sess[k].closed /\ UNCHANGED sess
           /\ sweeper' = [sweeper EXCEPT ![w] = IdleSweeper]
  <2>1. sweeper' \in [0 .. MaxGen -> Sweeper] /\ (Len(sess') = Len(sess) => Sweepers')
    BY <1>1, <1>3, IdleSweeperIs, SweeperMoves
  <2>2. sess' = [sess EXCEPT ![k] = sess[k]] /\ Linked(k, sess[k], trans')
    BY <1>1, <1>2, <1>3
  <2> HIDE DEF k
  <2> QED
    BY <1>1, <1>2, <2>1, <2>2, SessionMoves
<1>4. CASE MarkClosed(k) /\ sweeper' = [sweeper EXCEPT ![w].pc = "closing"]
  <2> DEFINE x == [sweeper[w] EXCEPT !.pc = "closing"]
  <2>1. x \in Sweeper /\ x.pc = "closing" /\ x.session = k
    BY <1>1 DEF Sweeper
  <2>2. sweeper' = [sweeper EXCEPT ![w] = x]
    BY <1>4
  <2> HIDE DEF k, x
  <2>3. k \in 0 .. Len(sess) /\ k # 0
    BY <1>1, ListenerFacts
  <2>4. sweeper' \in [0 .. MaxGen -> Sweeper] /\ (Len(sess') = Len(sess) => Sweepers')
    BY <1>1, <2>1, <2>2, <2>3, SweeperMoves
  <2>5. PICK q \in Session :
          /\ MarkClosed(k) => sess' = [sess EXCEPT ![k] = q]
          /\ Linked(k, q, trans) /\ q.closed
          /\ q.gen = sess[k].gen /\ q.pc = sess[k].pc /\ q.transport = sess[k].transport
    BY <1>1, MarkedIs
  <2>6. Linked(k, q, trans')
    BY <1>1, <2>5
  <2> QED
    BY <1>1, <1>2, <1>4, <2>4, <2>5, <2>6, SessionMoves
<1> QED
  BY <1>3, <1>4 DEF SweepClose

LEMMA SweepClosingStep ==
  ASSUME IInv, NEW w \in 0 .. MaxGen, SweepClosing(w)
  PROVE  IInv'
<1> DEFINE k == sweeper[w].session
<1>1. /\ sweeper[w].pc = "closing" /\ k \in 1 .. Len(sess)
      /\ UNCHANGED <<runtime, listener, entry, sess, wire>>
  BY ListenerFacts DEF SweepClosing, IInv, Sweepers
<1>2. CloseMarked(k) /\ sweeper' = [sweeper EXCEPT ![w] = IdleSweeper]
  BY DEF SweepClosing
<1> HIDE DEF k
<1>3. sweeper' \in [0 .. MaxGen -> Sweeper] /\ (Len(sess') = Len(sess) => Sweepers')
  BY <1>1, <1>2, IdleSweeperIs, SweeperMoves
<1>4. /\ sess[k] \in Session /\ sess' = [sess EXCEPT ![k] = sess[k]]
      /\ Linked(k, sess[k], trans') /\ Later(trans, trans') /\ Len(trans') = Len(trans)
  BY <1>1, <1>2, ClosingIs
<1>5. /\ Len(trans') <= MaxTransports
      /\ \A t \in Len(trans) + 1 .. Len(trans') : trans'[t].owner = k
      /\ wire' \in [Payload -> SUBSET (1 .. MaxTransports)]
  BY <1>1, <1>4, SessionFacts
<1> QED
  BY <1>1, <1>3, <1>4, <1>5, SessionMoves

LEMMA RuntimeStep ==
  ASSUME IInv, CancelRuntime \/ StartRuntime
  PROVE  IInv'
<1>1. /\ runtime \in [gen : Gen, phase : {"running", "cancelled"}]
      /\ sweeper \in [0 .. MaxGen -> Sweeper] /\ runtime.gen \in Nat /\ 0 \in 0 .. MaxGen
  BY BoundsAssumption DEF IInv, Typed, TypeOK, Gen
<1>2. \A w \in 0 .. MaxGen : sweeper[w] \in Sweeper /\ [sweeper[w] EXCEPT !.pc = "wait"] \in Sweeper
                            /\ [sweeper[w] EXCEPT !.pc = "wait"].pc = "wait"
                            /\ [sweeper[w] EXCEPT !.pc = "wait"].session = sweeper[w].session
  BY <1>1 DEF Sweeper
<1>3. ASSUME NEW w \in 0 .. MaxGen, sweeper' = [sweeper EXCEPT ![w].pc = "wait"],
             w = 0 => runtime'.phase = "cancelled", UNCHANGED sess,
             w # 0 => sweeper[0].pc = "idle", w <= runtime'.gen, runtime'.gen \in Nat,
             runtime.gen <= runtime'.gen
      PROVE  sweeper' \in [0 .. MaxGen -> Sweeper] /\ Sweepers'
  <2> DEFINE x == [sweeper[w] EXCEPT !.pc = "wait"]
  <2>1. x \in Sweeper /\ x.pc = "wait" /\ x.session = sweeper[w].session
    BY <1>2
  <2>2. sweeper' = [sweeper EXCEPT ![w] = x]
    BY <1>3
  <2> HIDE DEF x
  <2>3. /\ sweeper' \in [0 .. MaxGen -> Sweeper] /\ sweeper'[w] = x
        /\ \A v \in (0 .. MaxGen) \ {w} : sweeper'[v] = sweeper[v]
    BY <1>1, <2>1, <2>2
  <2>4. \A v \in 0 .. MaxGen :
          /\ sweeper'[v].session = sweeper[v].session
          /\ sweeper'[v].pc \in {"close", "closing"} => sweeper'[v] = sweeper[v]
          /\ v = w \/ sweeper'[v] = sweeper[v]
    BY <2>1, <2>3
  <2>5. sweeper'[0].pc # "idle" => w = 0
    BY <1>1, <1>3, <2>3
  <2>6. \A v \in 0 .. MaxGen : sweeper'[v].pc # "idle" => v <= runtime'.gen
    <3>1. \A v \in 0 .. MaxGen : sweeper[v].pc # "idle" => v <= runtime.gen
      BY DEF IInv, Sweepers
    <3> QED
      BY <1>1, <1>3, <2>4, <3>1, BoundsAssumption
  <2> QED
    BY <1>3, <2>3, <2>4, <2>5, <2>6 DEF IInv, Sweepers
<1>4. CASE CancelRuntime
  <2>1. /\ runtime' \in [gen : Gen, phase : {"running", "cancelled"}]
        /\ runtime'.phase = "cancelled" /\ runtime'.gen = runtime.gen
        /\ sweeper' = [sweeper EXCEPT ![0].pc = "wait"] /\ 0 <= runtime.gen
        /\ UNCHANGED <<listener, entry, sess, trans, wire>>
    BY <1>1, <1>4 DEF CancelRuntime
  <2>2. sweeper' \in [0 .. MaxGen -> Sweeper] /\ Sweepers'
    <3>1. runtime.gen <= runtime'.gen /\ runtime'.gen \in Nat
      BY <1>1, <2>1
    <3> QED
      BY <1>1, <1>3, <2>1, <3>1
  <2>3. Typed'
    BY <2>1, <2>2 DEF IInv, Typed, TypeOK
  <2>4. Links' /\ Started'
    BY <2>1 DEF IInv, Links, Linked, Started
  <2>5. OneLiveSession'
    BY <2>1 DEF IInv, OneLiveSession, Cancelled
  <2> QED
    BY <2>2, <2>3, <2>4, <2>5 DEF IInv
<1>5. CASE StartRuntime
  <2>1. runtime.gen + 1 \in Gen /\ runtime.gen + 1 \in 0 .. MaxGen /\ runtime.gen + 1 # 0
    BY <1>1, <1>5, BoundsAssumption DEF StartRuntime, Gen
  <2>2. /\ runtime' \in [gen : Gen, phase : {"running", "cancelled"}]
        /\ runtime'.gen = runtime.gen + 1 /\ sweeper[0].pc = "idle"
        /\ sweeper' = [sweeper EXCEPT ![runtime.gen + 1].pc = "wait"]
        /\ UNCHANGED <<listener, entry, sess, trans, wire>>
    BY <1>1, <1>5, <2>1 DEF StartRuntime
  <2>3. sweeper' \in [0 .. MaxGen -> Sweeper] /\ Sweepers'
    <3>1. /\ runtime.gen <= runtime'.gen /\ runtime'.gen \in Nat
          /\ runtime.gen + 1 <= runtime'.gen
      BY <1>1, <2>2
    <3> QED
      BY <1>3, <2>1, <2>2, <3>1
  <2>4. Typed' /\ Links'
    BY <2>2, <2>3 DEF IInv, Typed, TypeOK, Links, Linked
  <2>5. /\ \A s \in 1 .. Len(sess) : sess[s].gen \in Nat /\ sess[s].gen <= runtime.gen
        /\ \A g \in Gen : g \in Nat /\ (listener[g].pc # "idle" => g <= runtime.gen)
    <3>1. \A s \in 1 .. Len(sess) : sess[s].gen \in Gen
      <4>1. \A s \in 1 .. Len(sess) : sess[s] \in Session
        BY SessionFacts
      <4> QED
        BY <4>1 DEF Session
    <3>2. \A g \in Gen : g \in Nat
      BY DEF Gen
    <3> QED
      BY <3>1, <3>2 DEF IInv, Started
  <2>6. Started'
    BY <1>1, <2>2, <2>5 DEF Started
  <2>7. OneLiveSession'
    <3>1. \A s \in 1 .. Len(sess) : sess[s].gen < runtime'.gen
      BY <1>1, <2>2, <2>5
    <3>2. DOMAIN sess = 1 .. Len(sess)
      BY ListenerFacts
    <3> QED
      BY <2>2, <3>1, <3>2 DEF IInv, OneLiveSession, Cancelled
  <2> QED
    BY <2>3, <2>4, <2>6, <2>7 DEF IInv
<1> QED
  BY <1>4, <1>5

-----------------------------------------------------------------------------
LEMMA InitIInv ==
  ASSUME Init
  PROVE  IInv
<1>1. /\ 1 \in Gen /\ 0 \in 0 .. MaxSessions /\ 0 \in 0 .. 1 /\ Nil \in Payload
      /\ MaxSessions \in Nat /\ MaxTransports \in Nat
  BY BoundsAssumption DEF Gen, Payload
<1>2. /\ sess = <<>> /\ trans = <<>> /\ entry = 0 /\ sess \in Seq(Session)
      /\ trans \in Seq(Transport) /\ Len(sess) = 0 /\ Len(trans) = 0
      /\ DOMAIN sess = {}
  BY DEF Init
<1>3. IdleListener \in Listener /\ IdleListener.pc = "idle" /\ IdleListener.session = 0
  BY <1>1 DEF IdleListener, Listener
<1>4. /\ listener \in [Gen -> Listener]
      /\ \A g \in Gen : listener[g].pc = "idle" /\ listener[g].session = 0
  BY <1>3 DEF Init
<1>5. /\ runtime \in [gen : Gen, phase : {"running", "cancelled"}]
      /\ wire \in [Payload -> SUBSET (1 .. MaxTransports)]
  BY <1>1 DEF Init
<1>6. /\ sweeper \in [0 .. MaxGen -> Sweeper]
      /\ \A w \in 0 .. MaxGen : sweeper[w].pc \in {"idle", "wait"} /\ sweeper[w].session = 0
      /\ \A w \in 0 .. MaxGen : sweeper[w].pc = "wait" => w = 1
      /\ sweeper[0].pc = "idle"
  <2> DEFINE x == [IdleSweeper EXCEPT !.pc = "wait"]
  <2>1. IdleSweeper \in Sweeper /\ IdleSweeper.pc = "idle" /\ IdleSweeper.session = 0
    BY <1>1 DEF IdleSweeper, Sweeper
  <2>2. x \in Sweeper /\ x.pc = "wait" /\ x.session = 0
    BY <2>1 DEF Sweeper
  <2>3. sweeper = [w \in 0 .. MaxGen |-> IF w = 1 THEN x ELSE IdleSweeper]
    BY DEF Init
  <2> HIDE DEF x
  <2>4. 0 \in 0 .. MaxGen
    BY BoundsAssumption
  <2> QED
    BY <2>1, <2>2, <2>3, <2>4
<1>7. TypeOK
  BY <1>1, <1>2, <1>4, <1>5, <1>6 DEF TypeOK
<1>8. Typed
  BY <1>2, <1>4, <1>7 DEF Typed
<1>9. Links /\ Started /\ Sweepers /\ OneLiveSession
  <2>1. runtime.gen = 1
    BY DEF Init
  <2>2. Sweepers
    BY <1>2, <1>6, <2>1 DEF Sweepers
  <2> QED
    BY <1>2, <1>4, <2>2 DEF Links, Started, OneLiveSession
<1> QED
  BY <1>8, <1>9 DEF IInv

LEMMA NextIInv ==
  ASSUME IInv, [Next]_vars
  PROVE  IInv'
<1>1. CASE UNCHANGED vars
  BY <1>1 DEF vars, IInv, Typed, TypeOK, Links, Linked, Started, Sweepers, OneLiveSession, Cancelled
<1>2. DOMAIN sess = 1 .. Len(sess) /\ DOMAIN trans = 1 .. Len(trans)
  BY DomainIs DEF IInv, Typed, TypeOK
<1>3. ASSUME NEW g \in Gen, Submit(g)
      PROVE  IInv'
  BY <1>3, GetOrCreateStep, EnqueueStep, CheckUnavailableStep, SubmitDeleteStep, SubmitCloseStep,
     SubmitClosingStep DEF Submit
<1>4. ASSUME NEW w \in 0 .. MaxGen, Sweep(w)
      PROVE  IInv'
  BY <1>4, EmptyTableStep, SweepCloseStep, SweepClosingStep DEF Sweep
<1> QED
  BY <1>1, <1>2, <1>3, <1>4, ReceiveStep, RunStep, ReaderStep, RuntimeStep DEF Next

\* Every reachable state of the entry's sessions satisfies the inductive
\* invariant, for any datagrams, sizes, sessions, transports, runtimes, attempts
\* and queue limits.
THEOREM Invariance == Spec => []IInv
<1>1. Init => IInv
  BY InitIInv
<1>2. IInv /\ [Next]_vars => IInv'
  BY NextIInv
<1> QED
  BY <1>1, <1>2, PTL DEF Spec

\* The table holds the client's live session, also while listeners, watchers and
\* sessions of earlier runtimes are still at work: a delete takes only the
\* session it names out of it (udpEntrySessionTable.delete compares), and a
\* session whose goroutine has returned is never in it.
THEOREM TableHoldsTheLiveSession == Spec => []OneLiveSession
<1>1. IInv => OneLiveSession
  BY DEF IInv
<1> QED
  BY <1>1, Invariance, PTL

-----------------------------------------------------------------------------
(* What close() has left to do *)

\* The transport of a closed session is open only while the goroutine that
\* marked the session is about to close it.
Closers ==
  \A s \in 1 .. Len(sess) :
    sess[s].closed /\ sess[s].transport # 0 /\ trans[sess[s].transport].open => BeingClosed(s)

\* A step keeps that if each session it leaves closed is being closed, or was
\* closed with the same transport and is in the same hands.
LEMMA ClosersKeep ==
  ASSUME IInv, Closers, Later(trans, trans'),
         \A s \in 1 .. Len(sess') :
           sess'[s].closed /\ sess'[s].transport # 0 /\ trans'[sess'[s].transport].open =>
             \/ BeingClosed(s)'
             \/ /\ s \in 1 .. Len(sess) /\ sess[s].closed /\ sess'[s].transport = sess[s].transport
                /\ BeingClosed(s) => BeingClosed(s)'
  PROVE  Closers'
<1>1. ASSUME NEW s \in 1 .. Len(sess'), sess'[s].closed, sess'[s].transport # 0,
             trans'[sess'[s].transport].open
      PROVE  BeingClosed(s)'
  <2>1. CASE /\ s \in 1 .. Len(sess) /\ sess[s].closed /\ sess'[s].transport = sess[s].transport
             /\ BeingClosed(s) => BeingClosed(s)'
    <3>1. sess[s].transport \in 1 .. Len(trans)
      BY <1>1, <2>1, SessionFacts DEF Linked
    <3>2. trans[sess[s].transport].open
      BY <1>1, <2>1, <3>1 DEF Later
    <3> QED
      BY <1>1, <2>1, <3>2 DEF Closers
  <2> QED
    BY <1>1, <2>1
<1> QED
  BY <1>1 DEF Closers, BeingClosed

\* The same goroutines are about to close s.
SameHands(s) ==
  /\ \A g \in Gen : listener[g].pc = "closing" /\ listener[g].session = s => listener'[g] = listener[g]
  /\ \A w \in 0 .. MaxGen :
       sweeper[w].pc = "closing" /\ sweeper[w].session = s => sweeper'[w] = sweeper[w]

LEMMA HandsKeep ==
  ASSUME NEW s, SameHands(s), BeingClosed(s), sess[s].pc = "closing" => sess'[s].pc = "closing"
  PROVE  BeingClosed(s)'
BY DEF SameHands, BeingClosed

\* Session s alone takes part in a step, and is closed after it only if it was,
\* with the transport it had, or its own goroutine closes it.
LEMMA OneCloses ==
  ASSUME IInv, Closers, NEW s \in 1 .. Len(sess), Later(trans, trans'),
         DOMAIN sess' = DOMAIN sess, \A p \in (1 .. Len(sess)) \ {s} : sess'[p] = sess[p],
         sess[s].pc # "closing", \A p \in 1 .. Len(sess) : SameHands(p),
         sess'[s].closed => \/ sess'[s].pc = "closing"
                            \/ sess[s].closed /\ sess'[s].transport = sess[s].transport,
         IInv'
  PROVE  Closers'
<1>1. 1 .. Len(sess') = 1 .. Len(sess)
  BY DomainIs DEF IInv, Typed, TypeOK
<1>2. \A p \in 1 .. Len(sess) : sess[p].pc = "closing" => sess'[p].pc = "closing"
  OBVIOUS
<1>3. \A p \in 1 .. Len(sess) : BeingClosed(p) => BeingClosed(p)'
  BY <1>2, HandsKeep
<1>4. sess'[s].pc = "closing" => BeingClosed(s)'
  BY DEF BeingClosed
<1>5. ASSUME NEW p \in 1 .. Len(sess'), sess'[p].closed
      PROVE  \/ BeingClosed(p)'
             \/ /\ p \in 1 .. Len(sess) /\ sess[p].closed /\ sess'[p].transport = sess[p].transport
                /\ BeingClosed(p) => BeingClosed(p)'
  BY <1>1, <1>3, <1>4, <1>5
<1> QED
  BY <1>5, ClosersKeep

\* The steps of run but for the last ones.
LEMMA RunUncloses ==
  ASSUME IInv, NEW s \in 1 .. Len(sess),
         \/ Open(s) \/ ReplaceTransport(s) \/ LoopDone(s) \/ LoopIdle(s) \/ LoopReceives(s)
         \/ Dequeue(s) \/ Send(s) \/ LoopEvent(s) \/ Retry(s) \/ Reopen(s) \/ Resend(s)
         \/ Exit(s) \/ ExitDelete(s)
  PROVE  /\ DOMAIN sess' = DOMAIN sess /\ \A p \in (1 .. Len(sess)) \ {s} : sess'[p] = sess[p]
         /\ sess[s].pc # "closing" /\ UNCHANGED <<listener, sweeper>>
         /\ sess'[s].closed => \/ sess'[s].pc = "closing"
                               \/ sess[s].closed /\ sess'[s].transport = sess[s].transport
<1>1. sess[s] \in Session /\ s \in DOMAIN sess /\ sess \in [DOMAIN sess -> Session]
      /\ DOMAIN sess = 1 .. Len(sess)
  BY SessionFacts, DomainIs DEF IInv, Typed, TypeOK
<1> DEFINE P == /\ DOMAIN sess' = DOMAIN sess
                /\ \A p \in (1 .. Len(sess)) \ {s} : sess'[p] = sess[p]
                /\ sess[s].pc # "closing" /\ UNCHANGED <<listener, sweeper>>
                /\ sess'[s].closed => \/ sess'[s].pc = "closing"
                                      \/ sess[s].closed /\ sess'[s].transport = sess[s].transport
<1> USE DEF Session
<1>2. CASE Open(s)
  <2>1. CASE sess' = [sess EXCEPT ![s].pc = "replace", ![s].next = Len(trans) + 1]
    BY <1>1, <1>2, <2>1 DEF Open
  <2>2. CASE Goto(s, "exit")
    BY <1>1, <1>2, <2>2 DEF Open, Goto
  <2> QED
    BY <1>2, <2>1, <2>2 DEF Open
<1>3. CASE ReplaceTransport(s)
  <2>1. sess[s].pc = "replace" /\ UNCHANGED <<listener, sweeper>>
    BY <1>3 DEF ReplaceTransport
  <2>2. CASE sess' = [sess EXCEPT ![s].pc = "exit"]
    BY <1>1, <2>1, <2>2
  <2>3. CASE ~sess[s].closed /\ \E pc \in {"resend", "loop"} :
               sess' = [sess EXCEPT ![s].transport = sess[s].next, ![s].pc = pc]
    BY <1>1, <2>1, <2>3
  <2> QED
    BY <1>3, <2>2, <2>3 DEF ReplaceTransport, Goto
<1>4. CASE LoopDone(s) \/ LoopIdle(s)
  BY <1>1, <1>4 DEF LoopDone, LoopIdle, Goto
<1>5. CASE LoopReceives(s)
  BY <1>1, <1>5 DEF LoopReceives
<1>6. CASE Dequeue(s)
  BY <1>1, <1>6 DEF Dequeue
<1>7. CASE Send(s)
  <2>1. sess[s].pc = "send" /\ UNCHANGED <<listener, sweeper>>
    BY <1>7 DEF Send
  <2>2. CASE sess' = [sess EXCEPT ![s].pc = "loop", ![s].sent = TRUE, ![s].pending = Nil]
    BY <1>1, <2>1, <2>2
  <2>3. CASE sess' = [sess EXCEPT ![s].pc = "retry", ![s].again = FALSE, ![s].pending = Nil]
    BY <1>1, <2>1, <2>3
  <2>4. CASE sess' = [sess EXCEPT ![s].pc = "retry", ![s].again = TRUE]
    BY <1>1, <2>1, <2>4
  <2> QED
    BY <1>7, <2>2, <2>3, <2>4 DEF Send
<1>8. CASE LoopEvent(s)
  <2>1. sess[s].pc = "loop" /\ UNCHANGED <<listener, sweeper>>
    BY <1>8 DEF LoopEvent
  <2>2. CASE sess' = [sess EXCEPT ![s].confirmed = TRUE]
    BY <1>1, <2>1, <2>2
  <2>3. CASE sess' = [sess EXCEPT ![s].pc = "retry", ![s].pending = Nil, ![s].again = ~sess[s].sent]
    BY <1>1, <2>1, <2>3
  <2> QED
    BY <1>8, <2>2, <2>3 DEF LoopEvent
<1>9. CASE Retry(s)
  BY <1>1, <1>9 DEF Retry, Goto
<1>10. CASE Reopen(s)
  <2>1. sess[s].pc = "reopen" /\ UNCHANGED <<listener, sweeper>>
    BY <1>10 DEF Reopen
  <2>2. CASE sess' = [sess EXCEPT ![s].attempts = @ + 1, ![s].pc = "replace",
                                  ![s].next = Len(trans) + 1]
    BY <1>1, <2>1, <2>2
  <2>3. CASE sess' = [sess EXCEPT ![s].attempts = @ + 1]
    BY <1>1, <2>1, <2>3
  <2>4. CASE Goto(s, "exit")
    BY <1>1, <2>1, <2>4 DEF Goto
  <2> QED
    BY <1>10, <2>2, <2>3, <2>4 DEF Reopen
<1>11. CASE Resend(s)
  <2>1. sess[s].pc = "resend" /\ UNCHANGED <<listener, sweeper>>
    BY <1>11 DEF Resend
  <2>2. CASE sess' = [sess EXCEPT ![s].pc = "loop", ![s].sent = TRUE,
                                  ![s].pending = Nil, ![s].again = FALSE]
    BY <1>1, <2>1, <2>2
  <2>3. CASE sess' = [sess EXCEPT ![s].pc = "reopen"]
    BY <1>1, <2>1, <2>3
  <2> QED
    BY <1>11, <2>2, <2>3 DEF Resend
<1>12. CASE Exit(s)
  BY <1>1, <1>12 DEF Exit
<1>13. CASE ExitDelete(s)
  <2>1. sess[s].closed /\ sess[s].pc = "delete"
    BY <1>13, SessionFacts DEF ExitDelete, Linked
  <2>2. Finished(sess[s]).transport = sess[s].transport
    BY <1>1, FinishedIs
  <2>3. sess' = [sess EXCEPT ![s] = Finished(sess[s])] /\ UNCHANGED <<listener, sweeper>>
    BY <1>13 DEF ExitDelete
  <2> QED
    BY <1>1, <2>1, <2>2, <2>3
<1> QED
  BY <1>2, <1>3, <1>4, <1>5, <1>6, <1>7, <1>8, <1>9, <1>10, <1>11, <1>12, <1>13

\* Whoever marked s closes its transport and forgets about it; the others have
\* the sessions they had.
LEMMA ClosingCloses ==
  ASSUME IInv, Closers, NEW s \in 1 .. Len(sess), CloseMarked(s), IInv',
         DOMAIN sess' = DOMAIN sess, sess'[s].transport = sess[s].transport,
         \A p \in (1 .. Len(sess)) \ {s} : sess'[p] = sess[p] /\ SameHands(p)
  PROVE  Closers'
<1>1. 1 .. Len(sess') = 1 .. Len(sess)
  BY DomainIs DEF IInv, Typed, TypeOK
<1>2. sess[s].transport \in 0 .. Len(trans) /\ trans \in Seq(Transport)
  BY SessionFacts DEF Linked
<1>3. /\ Later(trans, trans')
      /\ sess[s].transport # 0 => ~trans'[sess[s].transport].open
  BY <1>2, CloseTransportIs DEF CloseMarked
<1>4. \A p \in (1 .. Len(sess)) \ {s} : BeingClosed(p) => BeingClosed(p)'
  BY HandsKeep
<1>5. ASSUME NEW p \in 1 .. Len(sess'), sess'[p].closed, sess'[p].transport # 0,
             trans'[sess'[p].transport].open
      PROVE  /\ p \in 1 .. Len(sess) /\ sess[p].closed /\ sess'[p].transport = sess[p].transport
             /\ BeingClosed(p) => BeingClosed(p)'
  BY <1>1, <1>3, <1>4, <1>5
<1> QED
  BY <1>3, <1>5, ClosersKeep

\* Sessions and transports stay as they are.
LEMMA RestCloses ==
  ASSUME IInv, Closers, Later(trans, trans'), UNCHANGED sess,
         \A s \in 1 .. Len(sess) : SameHands(s)
  PROVE  Closers'
<1>1. \A s \in 1 .. Len(sess) : BeingClosed(s) => BeingClosed(s)'
  BY HandsKeep
<1> QED
  BY <1>1, ClosersKeep

\* run opens transports and closes some, and no more.
LEMMA RunIsLater ==
  ASSUME IInv, NEW s \in 1 .. Len(sess), Run(s)
  PROVE  Later(trans, trans')
<1>1. /\ trans \in Seq(Transport) /\ s \in 1 .. MaxSessions /\ Later(trans, trans)
      /\ sess[s].transport \in 0 .. Len(trans) /\ sess[s].next \in 0 .. Len(trans)
  BY SessionFacts DEF Linked
<1>2. CASE UNCHANGED trans
  BY <1>1, <1>2
<1>3. CASE \/ trans' = CloseTransport(trans, sess[s].transport)
           \/ trans' = CloseTransport(trans, sess[s].next)
  BY <1>1, <1>3, CloseTransportIs
<1>4. CASE trans' = Append(trans, NewTransport(s))
  BY <1>1, <1>4, OneMore
<1>5. CASE LoopEvent(s)
  BY <1>5, EventTaken
<1> QED
  BY <1>2, <1>3, <1>4, <1>5
     DEF Run, Open, ReplaceTransport, LoopDone, LoopIdle, LoopReceives, Dequeue, Send, Retry,
         Reopen, Resend, Exit, ExitClosing, CloseMarked, ExitDelete

LEMMA RunCloses ==
  ASSUME IInv, IInv', Closers, NEW s \in 1 .. Len(sess), Run(s)
  PROVE  Closers'
<1>1. CASE ExitClosing(s)
  <2>1. /\ sess[s] \in Session /\ s \in DOMAIN sess /\ DOMAIN sess = 1 .. Len(sess)
    BY SessionFacts, DomainIs DEF IInv, Typed, TypeOK
  <2>2. /\ CloseMarked(s) /\ DOMAIN sess' = DOMAIN sess /\ sess'[s].transport = sess[s].transport
        /\ \A p \in (1 .. Len(sess)) \ {s} : sess'[p] = sess[p] /\ SameHands(p)
    BY <1>1, <2>1 DEF ExitClosing, Goto, SameHands, Session
  <2> QED
    BY <2>2, ClosingCloses
<1>2. CASE ~ExitClosing(s)
  <2>1. /\ DOMAIN sess' = DOMAIN sess /\ \A p \in (1 .. Len(sess)) \ {s} : sess'[p] = sess[p]
        /\ sess[s].pc # "closing" /\ UNCHANGED <<listener, sweeper>>
        /\ sess'[s].closed => \/ sess'[s].pc = "closing"
                              \/ sess[s].closed /\ sess'[s].transport = sess[s].transport
    BY <1>2, RunUncloses DEF Run
  <2>2. Later(trans, trans')
    BY RunIsLater
  <2>3. \A p \in 1 .. Len(sess) : SameHands(p)
    BY <2>1 DEF SameHands
  <2> QED
    BY <2>1, <2>2, <2>3, OneCloses
<1> QED
  BY <1>1, <1>2

LEMMA SubmitCloses ==
  ASSUME IInv, IInv', Closers, NEW g \in Gen, Submit(g)
  PROVE  Closers'
<1>1. /\ listener \in [Gen -> Listener] /\ sess \in Seq(Session) /\ DOMAIN sess = 1 .. Len(sess)
      /\ sess \in [1 .. Len(sess) -> Session] /\ Later(trans, trans) /\ Len(sess) \in Nat
  BY ListenerFacts, SameIsLater DEF IInv, Typed, TypeOK
<1>2. /\ UNCHANGED sweeper
      /\ \A h \in Gen \ {g} : listener'[h] = listener[h]
  BY <1>1 DEF Submit, GetOrCreate, Enqueue, CheckUnavailable, SubmitDelete, SubmitClose,
     SubmitClosing, Resubmit
<1>3. listener[g].pc # "closing" => \A s \in 1 .. Len(sess) : SameHands(s)
  <2>1. ASSUME listener[g].pc # "closing", NEW h \in Gen, listener[h].pc = "closing"
        PROVE  listener'[h] = listener[h]
    BY <1>2, <2>1
  <2>2. \A w \in 0 .. MaxGen : sweeper'[w] = sweeper[w]
    BY <1>2
  <2> QED
    BY <2>1, <2>2 DEF SameHands
<1>4. CASE UNCHANGED <<sess, trans>> /\ listener[g].pc # "closing"
  BY <1>1, <1>3, <1>4, RestCloses
<1>5. CASE GetOrCreate(g) /\ ~UNCHANGED sess
  <2>1. /\ sess' = Append(sess, NewSession(g)) /\ UNCHANGED trans /\ listener[g].pc = "get"
        /\ NewSession(g) \in Session /\ ~NewSession(g).closed
    BY <1>5, NewSessionIs DEF GetOrCreate
  <2>2. /\ Len(sess') = Len(sess) + 1 /\ sess'[Len(sess) + 1] = NewSession(g)
        /\ \A s \in 1 .. Len(sess) : sess'[s] = sess[s]
    BY <1>1, <2>1, AppendIs
  <2>3. \A s \in 1 .. Len(sess') : s \in 1 .. Len(sess) \/ ~sess'[s].closed
    BY <1>1, <2>1, <2>2
  <2>4. \A s \in 1 .. Len(sess) : BeingClosed(s) => BeingClosed(s)'
    BY <1>3, <2>1, <2>2, HandsKeep
  <2> QED
    BY <1>1, <2>1, <2>2, <2>3, <2>4, ClosersKeep
<1>6. CASE Enqueue(g) /\ ~UNCHANGED sess
  <2> DEFINE k == listener[g].session
             d == listener[g].payload
  <2>1. /\ sess' = [sess EXCEPT ![k].queue = Append(@, d), ![k].queued = @ + Size[d]]
        /\ UNCHANGED trans /\ listener[g].pc = "enqueue"
    BY <1>6 DEF Enqueue
  <2>2. ASSUME NEW s \in 1 .. Len(sess)
        PROVE  /\ sess'[s].closed = sess[s].closed /\ sess'[s].pc = sess[s].pc
               /\ sess'[s].transport = sess[s].transport
    <3>1. CASE s = k
      <4>1. sess[k] \in Session /\ k \in DOMAIN sess
        BY <1>1, <3>1
      <4>2. sess'[k] = [sess[k] EXCEPT !.queue = Append(@, d), !.queued = @ + Size[d]]
        BY <1>1, <2>1, <4>1
      <4> QED
        BY <3>1, <4>1, <4>2 DEF Session
    <3>2. CASE s # k
      BY <1>1, <2>1, <3>2
    <3> QED
      BY <3>1, <3>2
  <2>3. 1 .. Len(sess') = 1 .. Len(sess)
    <3>1. DOMAIN sess' = DOMAIN sess /\ Len(sess') \in Nat /\ DOMAIN sess' = 1 .. Len(sess')
      BY <1>1, <2>1, DomainIs DEF IInv, Typed, TypeOK
    <3> QED
      BY <1>1, <3>1
  <2>4. \A s \in 1 .. Len(sess) : BeingClosed(s) => BeingClosed(s)'
    BY <1>3, <2>1, <2>2, HandsKeep
  <2> QED
    BY <1>1, <2>1, <2>2, <2>3, <2>4, ClosersKeep
<1>7. CASE SubmitClose(g) /\ ~UNCHANGED sess
  <2> DEFINE k == listener[g].session
  <2>1. /\ sess' = [sess EXCEPT ![k].closed = TRUE] /\ UNCHANGED trans /\ listener[g].pc = "close"
        /\ listener' = [listener EXCEPT ![g].pc = "closing"]
    BY <1>7 DEF SubmitClose, MarkClosed
  <2>2. listener'[g].pc = "closing" /\ listener'[g].session = k
    BY <1>1, <2>1 DEF Listener
  <2>3. ASSUME NEW s, s = k PROVE BeingClosed(s)'
    BY <2>2, <2>3 DEF BeingClosed
  <2>4. \A s \in 1 .. Len(sess) :
          /\ sess'[s].pc = sess[s].pc /\ sess'[s].transport = sess[s].transport
          /\ s = k \/ sess'[s] = sess[s]
    BY <1>1, <2>1 DEF Session
  <2>5. 1 .. Len(sess') = 1 .. Len(sess)
    <3>1. DOMAIN sess' = DOMAIN sess /\ Len(sess') \in Nat /\ DOMAIN sess' = 1 .. Len(sess')
      BY <1>1, <2>1, DomainIs DEF IInv, Typed, TypeOK
    <3> QED
      BY <1>1, <3>1
  <2>6. \A s \in 1 .. Len(sess) : BeingClosed(s) => BeingClosed(s)'
    BY <1>3, <2>1, <2>4, HandsKeep
  <2> HIDE DEF k
  <2>7. Later(trans, trans')
    BY <1>1, <2>1
  <2>8. ASSUME NEW s \in 1 .. Len(sess'), sess'[s].closed
        PROVE  \/ BeingClosed(s)'
               \/ /\ s \in 1 .. Len(sess) /\ sess[s].closed
                  /\ sess'[s].transport = sess[s].transport
                  /\ BeingClosed(s) => BeingClosed(s)'
    <3>1. CASE s = k
      BY <2>3, <3>1
    <3>2. CASE s # k
      BY <2>4, <2>5, <2>6, <2>8, <3>2
    <3> QED
      BY <3>1, <3>2
  <2> QED
    BY <2>7, <2>8, ClosersKeep
<1>8. CASE SubmitClosing(g)
  <2> DEFINE k == listener[g].session
  <2>1. k \in 1 .. Len(sess) /\ CloseMarked(k) /\ UNCHANGED sess
    BY <1>8, ListenerFacts DEF SubmitClosing, IInv, Typed
  <2>2. ASSUME NEW p \in (1 .. Len(sess)) \ {k}
        PROVE  sess'[p] = sess[p] /\ SameHands(p)
    <3>1. ASSUME NEW h \in Gen, listener[h].session = p
          PROVE  listener'[h] = listener[h]
      <4>1. h # g
        BY <3>1
      <4> QED
        BY <1>2, <4>1
    <3>2. \A w \in 0 .. MaxGen : sweeper'[w] = sweeper[w]
      BY <1>2
    <3> QED
      BY <2>1, <3>1, <3>2 DEF SameHands
  <2> HIDE DEF k
  <2> QED
    BY <2>1, <2>2, ClosingCloses
<1> QED
  BY <1>4, <1>5, <1>6, <1>7, <1>8
     DEF Submit, GetOrCreate, Enqueue, CheckUnavailable, SubmitDelete, SubmitClose

LEMMA SweepCloses ==
  ASSUME IInv, IInv', Closers, NEW w \in 0 .. MaxGen, Sweep(w)
  PROVE  Closers'
<1> DEFINE k == sweeper[w].session
<1>1. /\ sweeper \in [0 .. MaxGen -> Sweeper] /\ sess \in Seq(Session)
      /\ DOMAIN sess = 1 .. Len(sess) /\ sess \in [1 .. Len(sess) -> Session]
      /\ Later(trans, trans) /\ Len(sess) \in Nat
  BY ListenerFacts, SameIsLater DEF IInv, Typed, TypeOK
<1>2. UNCHANGED listener /\ \A v \in (0 .. MaxGen) \ {w} : sweeper'[v] = sweeper[v]
  BY <1>1 DEF Sweep, EmptyTable, SweepClose, SweepClosing
<1>3. sweeper[w].pc # "closing" => \A s \in 1 .. Len(sess) : SameHands(s)
  BY <1>2 DEF SameHands
<1>4. CASE UNCHANGED <<sess, trans>> /\ sweeper[w].pc # "closing"
  BY <1>1, <1>3, <1>4, RestCloses
<1>5. CASE SweepClose(w) /\ ~UNCHANGED sess
  <2>1. /\ sess' = [sess EXCEPT ![k].closed = TRUE] /\ UNCHANGED trans /\ sweeper[w].pc = "close"
        /\ sweeper' = [sweeper EXCEPT ![w].pc = "closing"]
    BY <1>5 DEF SweepClose, MarkClosed
  <2>2. sweeper'[w].pc = "closing" /\ sweeper'[w].session = k
    BY <1>1, <2>1 DEF Sweeper
  <2>3. ASSUME NEW s, s = k PROVE BeingClosed(s)'
    BY <2>2, <2>3 DEF BeingClosed
  <2>4. \A s \in 1 .. Len(sess) :
          /\ sess'[s].pc = sess[s].pc /\ sess'[s].transport = sess[s].transport
          /\ s = k \/ sess'[s] = sess[s]
    BY <1>1, <2>1 DEF Session
  <2>5. 1 .. Len(sess') = 1 .. Len(sess)
    <3>1. DOMAIN sess' = DOMAIN sess /\ Len(sess') \in Nat /\ DOMAIN sess' = 1 .. Len(sess')
      BY <1>1, <2>1, DomainIs DEF IInv, Typed, TypeOK
    <3> QED
      BY <1>1, <3>1
  <2>6. \A s \in 1 .. Len(sess) : BeingClosed(s) => BeingClosed(s)'
    BY <1>3, <2>1, <2>4, HandsKeep
  <2> HIDE DEF k
  <2>7. Later(trans, trans')
    BY <1>1, <2>1
  <2>8. ASSUME NEW s \in 1 .. Len(sess'), sess'[s].closed
        PROVE  \/ BeingClosed(s)'
               \/ /\ s \in 1 .. Len(sess) /\ sess[s].closed
                  /\ sess'[s].transport = sess[s].transport
                  /\ BeingClosed(s) => BeingClosed(s)'
    <3>1. CASE s = k
      BY <2>3, <3>1
    <3>2. CASE s # k
      BY <2>4, <2>5, <2>6, <2>8, <3>2
    <3> QED
      BY <3>1, <3>2
  <2> QED
    BY <2>7, <2>8, ClosersKeep
<1>6. CASE SweepClosing(w)
  <2>1. k \in 1 .. Len(sess) /\ CloseMarked(k) /\ UNCHANGED sess
    BY <1>6, ListenerFacts DEF SweepClosing, IInv, Sweepers
  <2>2. \A p \in (1 .. Len(sess)) \ {k} : sess'[p] = sess[p] /\ SameHands(p)
    BY <1>2, <2>1 DEF SameHands
  <2> HIDE DEF k
  <2> QED
    BY <2>1, <2>2, ClosingCloses
<1> QED
  BY <1>4, <1>5, <1>6 DEF Sweep, EmptyTable, SweepClose

LEMMA NextClosers ==
  ASSUME IInv, IInv', Closers, [Next]_vars
  PROVE  Closers'
<1>1. /\ DOMAIN sess = 1 .. Len(sess) /\ DOMAIN trans = 1 .. Len(trans) /\ Later(trans, trans)
      /\ sweeper \in [0 .. MaxGen -> Sweeper] /\ listener \in [Gen -> Listener]
      /\ 0 \in 0 .. MaxGen
  BY DomainIs, SameIsLater, BoundsAssumption DEF IInv, Typed, TypeOK
<1>2. CASE UNCHANGED vars
  BY <1>1, <1>2, RestCloses DEF vars, SameHands
<1>3. ASSUME NEW g \in Gen, NEW d \in Datagram, Receive(g, d)
      PROVE  Closers'
  BY <1>1, <1>3, RestCloses DEF Receive, SameHands
<1>4. ASSUME NEW t \in 1 .. Len(trans), Reader(t)
      PROVE  Closers'
  <2>1. Later(trans, trans') /\ UNCHANGED <<sess, listener, sweeper>>
    BY <1>4, ReaderIs DEF Reader, ReadResponse, ReadError, PushEvent
  <2> QED
    BY <2>1, RestCloses DEF SameHands
<1>5. CASE CancelRuntime
  <2>1. sweeper[0].pc = "idle" /\ sweeper' = [sweeper EXCEPT ![0].pc = "wait"]
        /\ UNCHANGED <<sess, trans, listener>>
    BY <1>1, <1>5 DEF CancelRuntime, IInv, Sweepers
  <2>2. \A s \in 1 .. Len(sess) : SameHands(s)
    BY <1>1, <2>1 DEF SameHands
  <2> QED
    BY <1>1, <2>1, <2>2, RestCloses
<1>6. CASE StartRuntime
  <2> DEFINE n == runtime.gen + 1
  <2>1. /\ n \in 0 .. MaxGen /\ ~(n <= runtime.gen)
    BY <1>6, ListenerFacts, BoundsAssumption DEF StartRuntime, Gen
  <2>2. sweeper[n].pc = "idle" /\ sweeper' = [sweeper EXCEPT ![n].pc = "wait"]
        /\ UNCHANGED <<sess, trans, listener>>
    BY <1>6, <2>1 DEF StartRuntime, IInv, Sweepers
  <2> HIDE DEF n
  <2>3. \A s \in 1 .. Len(sess) : SameHands(s)
    BY <1>1, <2>1, <2>2 DEF SameHands
  <2> QED
    BY <1>1, <2>2, <2>3, RestCloses
<1> QED
  BY <1>1, <1>2, <1>3, <1>4, <1>5, <1>6, RunCloses, SubmitCloses, SweepCloses DEF Next

\* What close() has left to do is always in somebody's hands.
THEOREM ClosersInvariance == Spec => []Closers
<1>1. Init => Closers
  BY DEF Init, Closers
<1>2. IInv /\ IInv' /\ Closers /\ [Next]_vars => Closers'
  BY NextClosers
<1> QED
  BY <1>1, <1>2, Invariance, PTL DEF Spec

\* No UDP socket is leaked: retryInitial, replaceTransport, close() by a
\* listener, a watcher or stopRuntimeLocked and the deferred close of run leave a
\* session at most one open transport; once run has returned it is the session's
\* own, and the goroutine that marked the session is about to close it.
THEOREM TransportsAreClosed == Spec => []NoTransportLeak
<1>1. ASSUME IInv, Closers, NEW s \in DOMAIN sess
      PROVE  /\ Cardinality(OpenTransports(s)) <= 1
             /\ sess[s].pc = "done" /\ OpenTransports(s) # {} =>
                  OpenTransports(s) = {sess[s].transport} /\ BeingClosed(s)
  <2>1. s \in 1 .. Len(sess) /\ DOMAIN trans = 1 .. Len(trans)
    BY <1>1, DomainIs DEF IInv, Typed, TypeOK
  <2>2. Linked(s, sess[s], trans)
    BY <1>1, <2>1, SessionFacts
  <2> DEFINE x == IF sess[s].pc = "replace" THEN sess[s].next ELSE sess[s].transport
  <2>3. OpenTransports(s) \subseteq {x}
    BY <2>1, <2>2 DEF Linked, OpenTransports
  <2>4. Cardinality(OpenTransports(s)) <= 1
    <3>1. IsFiniteSet({x}) /\ Cardinality({x}) = 1
      BY FS_Singleton
    <3>2. Cardinality(OpenTransports(s)) <= Cardinality({x})
      BY <2>3, <3>1, FS_Subset
    <3> QED
      BY <3>1, <3>2
  <2>5. ASSUME sess[s].pc = "done", OpenTransports(s) # {}
        PROVE  OpenTransports(s) = {sess[s].transport} /\ BeingClosed(s)
    <3>1. OpenTransports(s) = {sess[s].transport}
      BY <2>3, <2>5
    <3>2. sess[s].transport \in 1 .. Len(trans) /\ trans[sess[s].transport].open
      BY <2>1, <3>1 DEF OpenTransports
    <3>3. sess[s].closed /\ sess[s].transport # 0
      BY <2>2, <2>5, <3>2 DEF Linked
    <3> QED
      BY <1>1, <2>1, <3>1, <3>2, <3>3 DEF Closers
  <2> QED
    BY <2>4, <2>5
<1>2. IInv /\ Closers => NoTransportLeak
  BY <1>1 DEF NoTransportLeak
<1> QED
  BY <1>2, Invariance, ClosersInvariance, PTL

-----------------------------------------------------------------------------
(* What is sent twice *)

\* A transport that is not the first of its session.
Late(t, T) ==
  t \in 1 .. Len(T) /\ \E u \in 1 .. Len(T) : u < t /\ T[u].owner = T[t].owner

\* The datagrams a session has in hand.
Held(q) == {q.queue[i] : i \in 1 .. Len(q.queue)} \cup ({q.pending} \cap Datagram)

\* A session q with the transports T, of which those in w took bytes: nothing in
\* its queue was sent or is pending too; neither was what it is about to send;
\* what it sends again went to no first transport, and goes to none.
Careful(q, T, w) ==
  /\ \A i, j \in 1 .. Len(q.queue) : q.queue[i] = q.queue[j] => i = j
  /\ \A i \in 1 .. Len(q.queue) : q.queue[i] # q.pending /\ w[q.queue[i]] = {}
  /\ q.pc \in {"dequeue", "send"} => q.pending \in Datagram /\ w[q.pending] = {}
  /\ q.pending \in Datagram => \A t \in w[q.pending] : Late(t, T)
  /\ q.pc = "open" => ~q.again
  /\ q.pc \in {"retry", "reopen"} => q.transport # 0
  /\ q.pc = "replace" /\ q.again => Late(q.next, T)
  /\ q.pc = "resend" => Late(q.transport, T)

\* A datagram is in one place: with one listener or one session.
InOnePlace ==
  /\ \A s, r \in 1 .. Len(sess) : s # r => Held(sess[s]) \cap Held(sess[r]) = {}
  /\ \A g \in Gen : \A s \in 1 .. Len(sess) : listener[g].payload \notin Held(sess[s])
  /\ \A g, h \in Gen :
       g # h => listener[g].payload = Nil \/ listener[g].payload # listener[h].payload

\* What a listener has just received was not sent.
Unsent == \A g \in Gen : listener[g].payload \in Datagram => wire[listener[g].payload] = {}

\* FirstSendNotReplayed, of transports there are.
SentOnce ==
  \A d \in Datagram : \A t \in wire[d] :
    t \in 1 .. Len(trans) /\ (Late(t, trans) \/ wire[d] = {t})

\* The inductive invariant of the datagrams, beside IInv.
SendInv ==
  /\ \A s \in 1 .. Len(sess) : Careful(sess[s], trans, wire)
  /\ InOnePlace /\ Unsent /\ SentOnce

\* More transports make no late one the first.
LEMMA LateStays ==
  ASSUME NEW T \in Seq(Transport), NEW T2, Later(T, T2), NEW t, Late(t, T)
  PROVE  Late(t, T2)
<1>1. Len(T) \in Nat /\ Len(T2) \in Nat /\ Len(T) <= Len(T2)
  BY DomainIs DEF Later
<1>2. \A u \in 1 .. Len(T) : u \in 1 .. Len(T2) /\ T2[u].owner = T[u].owner
  BY <1>1 DEF Later
<1> QED
  BY <1>2 DEF Late

\* A session that takes no part in a step stays careful.
LEMMA CarefulStays ==
  ASSUME NEW T \in Seq(Transport), NEW T2, Later(T, T2), NEW q, NEW w, NEW w2, Careful(q, T, w),
         \A d \in Held(q) : w2[d] = w[d]
  PROVE  Careful(q, T2, w2)
<1>1. \A i \in 1 .. Len(q.queue) : q.queue[i] \in Held(q)
  BY DEF Held
<1>2. q.pending \in Datagram => q.pending \in Held(q)
  BY DEF Held
<1>3. \A t : Late(t, T) => Late(t, T2)
  BY LateStays
<1>4. /\ \A i \in 1 .. Len(q.queue) : q.queue[i] # q.pending /\ w2[q.queue[i]] = {}
      /\ \A i, j \in 1 .. Len(q.queue) : q.queue[i] = q.queue[j] => i = j
  BY <1>1 DEF Careful
<1>5. /\ q.pc \in {"dequeue", "send"} => q.pending \in Datagram /\ w2[q.pending] = {}
      /\ q.pending \in Datagram => \A t \in w2[q.pending] : Late(t, T2)
  BY <1>2, <1>3 DEF Careful
<1>6. /\ q.pc = "open" => ~q.again
      /\ q.pc \in {"retry", "reopen"} => q.transport # 0
      /\ q.pc = "replace" /\ q.again => Late(q.next, T2)
      /\ q.pc = "resend" => Late(q.transport, T2)
  BY <1>3 DEF Careful
<1> QED
  BY <1>4, <1>5, <1>6 DEF Careful

\* Datagrams may leave their places, and sessions that are new have none.
LEMMA PlacesShrink ==
  ASSUME IInv, IInv', InOnePlace, Len(sess) <= Len(sess'),
         \A g \in Gen : listener'[g].payload \in {listener[g].payload, Nil},
         \A s \in 1 .. Len(sess) : Held(sess'[s]) \subseteq Held(sess[s]),
         \A s \in Len(sess) + 1 .. Len(sess') : Held(sess'[s]) = {}
  PROVE  InOnePlace'
<1>1. Len(sess) \in Nat /\ Len(sess') \in Nat
  BY DomainIs DEF IInv, Typed, TypeOK
<1>2. ASSUME NEW s \in 1 .. Len(sess'), s \notin 1 .. Len(sess) PROVE Held(sess'[s]) = {}
  <2>1. s \in Len(sess) + 1 .. Len(sess')
    BY <1>1, <1>2
  <2> QED
    BY <2>1
<1>3. \A s : Nil \notin Held(sess'[s]) \/ s \notin 1 .. Len(sess')
  <2>1. ASSUME NEW s \in 1 .. Len(sess') PROVE Nil \notin Held(sess'[s])
    <3>1. sess'[s] \in Session
      BY <2>1, DomainIs DEF IInv, Typed, TypeOK
    <3>2. sess'[s].queue \in Seq(Datagram)
      BY <3>1 DEF Session
    <3>3. \A i \in 1 .. Len(sess'[s].queue) : sess'[s].queue[i] \in Datagram
      BY <3>2, DomainIs
    <3> QED
      BY <3>3, SizeAssumption DEF Held
  <2> QED
    BY <2>1
<1>4. ASSUME NEW s \in 1 .. Len(sess'), NEW r \in 1 .. Len(sess'), s # r
      PROVE  Held(sess'[s]) \cap Held(sess'[r]) = {}
  <2>1. CASE s \in 1 .. Len(sess) /\ r \in 1 .. Len(sess)
    <3>1. Held(sess[s]) \cap Held(sess[r]) = {}
      BY <1>4, <2>1 DEF InOnePlace
    <3>2. Held(sess'[s]) \subseteq Held(sess[s]) /\ Held(sess'[r]) \subseteq Held(sess[r])
      BY <2>1
    <3> QED
      BY <3>1, <3>2
  <2> QED
    BY <1>2, <1>4, <2>1
<1>5. ASSUME NEW g \in Gen, NEW s \in 1 .. Len(sess')
      PROVE  listener'[g].payload \notin Held(sess'[s])
  <2>1. CASE listener'[g].payload = listener[g].payload /\ s \in 1 .. Len(sess)
    <3>1. listener[g].payload \notin Held(sess[s]) /\ Held(sess'[s]) \subseteq Held(sess[s])
      BY <2>1 DEF InOnePlace
    <3> QED
      BY <2>1, <3>1
  <2> QED
    BY <1>2, <1>3, <1>5, <2>1
<1>6. \A g, h \in Gen :
        g # h => listener'[g].payload = Nil \/ listener'[g].payload # listener'[h].payload
  BY DEF InOnePlace
<1> QED
  BY <1>4, <1>5, <1>6 DEF InOnePlace, Held

\* A session p goes on as q, with its queue and with or without what is pending:
\* the only datagram that is sent is the pending one.
Sends(p, T, w, q, T2, w2) ==
  /\ Later(T, T2) /\ Careful(p, T, w)
  /\ q.queue = p.queue /\ q.pending \in {p.pending, Nil}
  /\ \A d \in Datagram : d # p.pending => w2[d] = w[d]
  /\ q.pending \in Datagram => \A t \in w2[q.pending] : Late(t, T2)
  /\ q.pc \in {"dequeue", "send"} => q.pending \in Datagram /\ w2[q.pending] = {}
  /\ q.pc = "open" => ~q.again
  /\ q.pc \in {"retry", "reopen"} => q.transport # 0
  /\ q.pc = "replace" /\ q.again => Late(q.next, T2)
  /\ q.pc = "resend" => Late(q.transport, T2)

LEMMA SendsCarefully ==
  ASSUME NEW T, NEW T2, NEW p \in Session, NEW q, NEW w, NEW w2, Sends(p, T, w, q, T2, w2)
  PROVE  Careful(q, T2, w2) /\ Held(q) \subseteq Held(p)
<1> USE DEF Sends
<1>1. \A i \in 1 .. Len(p.queue) : p.queue[i] \in Datagram /\ p.queue[i] # Nil
  <2>1. p.queue \in Seq(Datagram)
    BY DEF Session
  <2> QED
    BY <2>1, DomainIs, SizeAssumption
<1>2. \A i \in 1 .. Len(q.queue) : q.queue[i] # q.pending /\ w2[q.queue[i]] = {}
  <2>1. \A i \in 1 .. Len(p.queue) : p.queue[i] # p.pending /\ w[p.queue[i]] = {}
    BY DEF Careful
  <2>2. \A i \in 1 .. Len(p.queue) : p.queue[i] # q.pending
    BY <1>1, <2>1
  <2>3. \A i \in 1 .. Len(p.queue) : w2[p.queue[i]] = {}
    BY <1>1, <2>1
  <2> QED
    BY <2>2, <2>3
<1>3. \A i, j \in 1 .. Len(q.queue) : q.queue[i] = q.queue[j] => i = j
  BY DEF Careful
<1>4. Careful(q, T2, w2)
  BY <1>2, <1>3 DEF Careful
<1>5. Held(q) \subseteq Held(p)
  BY SizeAssumption DEF Held
<1> QED
  BY <1>4, <1>5

\* A step of one session that takes no datagram from elsewhere.
LEMMA OneSessionCareful ==
  ASSUME IInv, IInv', SendInv, NEW s \in 1 .. Len(sess), NEW q \in Session,
         sess' = [sess EXCEPT ![s] = q], Later(trans, trans'),
         \A g \in Gen : listener'[g].payload \in {listener[g].payload, Nil},
         Careful(q, trans', wire') /\ Held(q) \subseteq Held(sess[s]),
         \A d \in Datagram : d \notin Held(sess[s]) => wire'[d] = wire[d],
         \A d \in Datagram : wire'[d] # wire[d] =>
           \A t \in wire'[d] : t \in 1 .. Len(trans') /\ (Late(t, trans') \/ wire'[d] = {t})
  PROVE  SendInv'
<1>1. sess \in Seq(Session) /\ trans \in Seq(Transport) /\ s \in DOMAIN sess /\ Len(sess) \in Nat
  BY DomainIs DEF IInv, Typed, TypeOK
<1>2. /\ sess' \in Seq(Session) /\ Len(sess') = Len(sess) /\ sess'[s] = q
      /\ \A r \in (1 .. Len(sess)) \ {s} : sess'[r] = sess[r]
  BY <1>1, ElementReplaced
<1>3. InOnePlace'
  <2>1. InOnePlace
    BY DEF SendInv
  <2>2. Len(sess) <= Len(sess') /\ \A r \in Len(sess) + 1 .. Len(sess') : Held(sess'[r]) = {}
    BY <1>1, <1>2
  <2>3. \A r \in 1 .. Len(sess) : Held(sess'[r]) \subseteq Held(sess[r])
    BY <1>2
  <2> QED
    BY <2>1, <2>2, <2>3, PlacesShrink
<1>4. ASSUME NEW r \in 1 .. Len(sess') PROVE Careful(sess'[r], trans', wire')
  <2>1. CASE r = s
    BY <1>2, <2>1
  <2>2. CASE r # s
    <3>1. Careful(sess[r], trans, wire) /\ sess'[r] = sess[r] /\ r \in 1 .. Len(sess)
      BY <1>2, <1>4, <2>2 DEF SendInv
    <3>2. Held(sess[r]) \cap Held(sess[s]) = {} /\ Held(sess[r]) \subseteq Datagram
      <4>1. Held(sess[r]) \cap Held(sess[s]) = {}
        BY <2>2, <3>1 DEF SendInv, InOnePlace
      <4>2. sess[r].queue \in Seq(Datagram)
        <5>1. sess[r] \in Session
          BY <1>1, <3>1, DomainIs
        <5> QED
          BY <5>1 DEF Session
      <4>3. \A i \in 1 .. Len(sess[r].queue) : sess[r].queue[i] \in Datagram
        BY <4>2, DomainIs
      <4> QED
        BY <4>1, <4>3 DEF Held
    <3>3. \A d \in Held(sess[r]) : wire'[d] = wire[d]
      BY <3>2
    <3> QED
      BY <1>1, <3>1, <3>3, CarefulStays
  <2> QED
    BY <2>1, <2>2
<1>5. Unsent'
  <2>1. ASSUME NEW g \in Gen, listener'[g].payload \in Datagram
        PROVE  wire'[listener'[g].payload] = {}
    <3>1. listener'[g].payload = listener[g].payload
      BY <2>1, SizeAssumption
    <3>2. listener[g].payload \notin Held(sess[s]) /\ wire[listener[g].payload] = {}
      BY <2>1, <3>1 DEF SendInv, InOnePlace, Unsent
    <3> QED
      BY <2>1, <3>1, <3>2
  <2> QED
    BY <2>1 DEF Unsent
<1>6. SentOnce'
  <2>1. ASSUME NEW d \in Datagram, NEW t \in wire'[d]
        PROVE  t \in 1 .. Len(trans') /\ (Late(t, trans') \/ wire'[d] = {t})
    <3>1. CASE wire'[d] # wire[d]
      BY <2>1, <3>1
    <3>2. CASE wire'[d] = wire[d]
      <4>1. t \in 1 .. Len(trans) /\ (Late(t, trans) \/ wire[d] = {t})
        BY <2>1, <3>2 DEF SendInv, SentOnce
      <4>2. t \in 1 .. Len(trans')
        BY <1>1, <4>1, DomainIs DEF Later
      <4>3. Late(t, trans) => Late(t, trans')
        BY <1>1, LateStays
      <4> QED
        BY <3>2, <4>1, <4>2, <4>3
    <3> QED
      BY <3>1, <3>2
  <2> QED
    BY <2>1 DEF SentOnce
<1> QED
  BY <1>3, <1>4, <1>5, <1>6 DEF SendInv, Careful

\* A step of one session that sends nothing.
LEMMA MovesCarefully ==
  ASSUME IInv, IInv', SendInv, NEW s \in 1 .. Len(sess), NEW q \in Session,
         sess' = [sess EXCEPT ![s] = q], Later(trans, trans'), UNCHANGED wire,
         \A g \in Gen : listener'[g].payload \in {listener[g].payload, Nil},
         q.queue = sess[s].queue, q.pending \in {sess[s].pending, Nil},
         q.pc \in {"dequeue", "send"} =>
           sess[s].pc \in {"dequeue", "send"} /\ q.pending = sess[s].pending,
         q.pc = "open" => ~q.again,
         q.pc \in {"retry", "reopen"} => q.transport # 0,
         q.pc = "replace" /\ q.again => Late(q.next, trans'),
         q.pc = "resend" => Late(q.transport, trans')
  PROVE  SendInv'
<1>1. trans \in Seq(Transport) /\ sess[s] \in Session /\ Careful(sess[s], trans, wire)
  BY SessionFacts DEF SendInv
<1>2. q.pc \in {"dequeue", "send"} => q.pending \in Datagram /\ wire'[q.pending] = {}
  BY <1>1 DEF Careful
<1>3. q.pending \in Datagram => \A t \in wire'[q.pending] : Late(t, trans')
  <2>1. q.pending \in Datagram => q.pending = sess[s].pending
    BY SizeAssumption
  <2>2. \A t : Late(t, trans) => Late(t, trans')
    BY <1>1, LateStays
  <2> QED
    BY <1>1, <2>1, <2>2 DEF Careful
<1>4. Careful(q, trans', wire') /\ Held(q) \subseteq Held(sess[s])
  <2>1. Sends(sess[s], trans, wire, q, trans', wire')
    BY <1>1, <1>2, <1>3 DEF Sends
  <2> QED
    BY <1>1, <2>1, SendsCarefully
<1> QED
  BY <1>4, OneSessionCareful

\* Goto, and its like: the session has nothing more to send.
LEMMA EndsCarefully ==
  ASSUME IInv, IInv', SendInv, NEW s \in 1 .. Len(sess), Goto(s, "exit"),
         Later(trans, trans'), UNCHANGED <<listener, wire>>
  PROVE  SendInv'
<1> DEFINE q == [sess[s] EXCEPT !.pc = "exit"]
<1>1. sess[s] \in Session
  BY SessionFacts
<1>2. q \in Session /\ q.pc = "exit" /\ q.queue = sess[s].queue /\ q.pending = sess[s].pending
  BY <1>1 DEF Session
<1>3. sess' = [sess EXCEPT ![s] = q]
  BY DEF Goto
<1> HIDE DEF q
<1>4. \A g \in Gen : listener'[g].payload \in {listener[g].payload, Nil}
  OBVIOUS
<1>5. q.pc \notin {"dequeue", "send", "open", "retry", "reopen", "replace", "resend"}
  BY <1>2
<1>6. q.pending \in {sess[s].pending, Nil}
  BY <1>2
<1> QED
  BY <1>2, <1>3, <1>4, <1>5, <1>6, MovesCarefully

\* The next transport of a session that has one is not its first.
LEMMA NextIsLate ==
  ASSUME NEW s \in 1 .. MaxSessions, NEW q, Linked(s, q, trans), q.transport # 0,
         trans \in Seq(Transport), trans' = Append(trans, NewTransport(s))
  PROVE  Late(Len(trans) + 1, trans')
<1>1. q.transport \in 1 .. Len(trans) /\ trans[q.transport].owner = s /\ Len(trans) \in Nat
  BY DomainIs DEF Linked
<1>2. /\ Len(trans') = Len(trans) + 1 /\ trans'[Len(trans) + 1].owner = s
      /\ trans'[q.transport] = trans[q.transport]
  BY <1>1, OneMore
<1>3. /\ Len(trans) + 1 \in 1 .. Len(trans') /\ q.transport \in 1 .. Len(trans')
      /\ q.transport < Len(trans) + 1
  BY <1>1, <1>2
<1> QED
  BY <1>1, <1>2, <1>3 DEF Late

LEMMA OpenCareful ==
  ASSUME IInv, IInv', SendInv, NEW s \in 1 .. Len(sess), Open(s) \/ Reopen(s)
  PROVE  SendInv'
<1>1. /\ sess[s] \in Session /\ Careful(sess[s], trans, wire) /\ Linked(s, sess[s], trans)
      /\ trans \in Seq(Transport) /\ Len(trans) \in Nat /\ s \in 1 .. MaxSessions
      /\ MaxTransports \in Nat /\ MaxAttempts \in Nat \ {0} /\ Later(trans, trans)
      /\ UNCHANGED <<listener, wire>>
  BY SessionFacts DEF SendInv, Open, Reopen
<1>2. \A g \in Gen : listener'[g].payload \in {listener[g].payload, Nil}
  BY <1>1
<1>3. CASE Goto(s, "exit") /\ UNCHANGED trans
  BY <1>1, <1>3, EndsCarefully
<1>4. CASE /\ Open(s) /\ Len(trans) < MaxTransports /\ trans' = Append(trans, NewTransport(s))
           /\ sess' = [sess EXCEPT ![s].pc = "replace", ![s].next = Len(trans) + 1]
  <2> DEFINE q == [sess[s] EXCEPT !.pc = "replace", !.next = Len(trans) + 1]
  <2>1. Len(trans) + 1 \in 0 .. MaxTransports
    BY <1>1, <1>4
  <2>2. /\ q \in Session /\ q.pc = "replace" /\ q.again = sess[s].again
        /\ q.queue = sess[s].queue /\ q.pending = sess[s].pending
    BY <1>1, <2>1 DEF Session
  <2>3. sess' = [sess EXCEPT ![s] = q]
    BY <1>4
  <2> HIDE DEF q
  <2>4. ~q.again
    BY <1>1, <1>4, <2>2 DEF Careful, Open
  <2>5. Later(trans, trans')
    BY <1>1, <1>4, OneMore
  <2>6. q.pending \in {sess[s].pending, Nil} /\ UNCHANGED wire
    BY <1>1, <2>2
  <2>7. q.pc \notin {"dequeue", "send", "open", "retry", "reopen", "resend"}
    BY <2>2
  <2> QED
    BY <1>2, <2>2, <2>3, <2>4, <2>5, <2>6, <2>7, MovesCarefully
<1>5. CASE /\ Reopen(s) /\ sess[s].attempts < MaxAttempts /\ Len(trans) < MaxTransports
           /\ trans' = Append(trans, NewTransport(s))
           /\ sess' = [sess EXCEPT ![s].attempts = @ + 1, ![s].pc = "replace",
                                   ![s].next = Len(trans) + 1]
  <2> DEFINE q == [sess[s] EXCEPT !.attempts = @ + 1, !.pc = "replace", !.next = Len(trans) + 1]
  <2>1. sess[s].attempts + 1 \in 1 .. MaxAttempts /\ Len(trans) + 1 \in 0 .. MaxTransports
    BY <1>1, <1>5 DEF Session
  <2>2. /\ q \in Session /\ q.pc = "replace" /\ q.next = Len(trans) + 1
        /\ q.queue = sess[s].queue /\ q.pending = sess[s].pending
    BY <1>1, <2>1 DEF Session
  <2>3. sess' = [sess EXCEPT ![s] = q]
    BY <1>5
  <2> HIDE DEF q
  <2>4. sess[s].transport # 0
    BY <1>1, <1>5 DEF Careful, Reopen
  <2>5. Late(q.next, trans')
    <3>1. Late(Len(trans) + 1, trans')
      BY <1>1, <1>5, <2>4, NextIsLate
    <3> QED
      BY <2>2, <3>1
  <2>6. Later(trans, trans')
    BY <1>1, <1>5, OneMore
  <2>7. q.pending \in {sess[s].pending, Nil} /\ UNCHANGED wire
    BY <1>1, <2>2
  <2>8. q.pc \notin {"dequeue", "send", "open", "retry", "reopen", "resend"}
    BY <2>2
  <2> QED
    BY <1>2, <2>2, <2>3, <2>5, <2>6, <2>7, <2>8, MovesCarefully
<1>6. CASE /\ Reopen(s) /\ sess[s].attempts < MaxAttempts
           /\ sess' = [sess EXCEPT ![s].attempts = @ + 1] /\ UNCHANGED trans
  <2> DEFINE q == [sess[s] EXCEPT !.attempts = @ + 1]
  <2>1. sess[s].attempts + 1 \in 1 .. MaxAttempts
    BY <1>1, <1>6 DEF Session
  <2>2. /\ q \in Session /\ q.pc = "reopen" /\ q.transport = sess[s].transport
        /\ q.queue = sess[s].queue /\ q.pending = sess[s].pending
    BY <1>1, <1>6, <2>1 DEF Session, Reopen
  <2>3. sess' = [sess EXCEPT ![s] = q]
    BY <1>6
  <2> HIDE DEF q
  <2>4. q.transport # 0
    BY <1>1, <1>6, <2>2 DEF Careful, Reopen
  <2>5. Later(trans, trans') /\ q.pending \in {sess[s].pending, Nil} /\ UNCHANGED wire
    BY <1>1, <1>6, <2>2
  <2>6. q.pc \notin {"dequeue", "send", "open", "replace", "resend"}
    BY <2>2
  <2> QED
    BY <1>2, <2>2, <2>3, <2>4, <2>5, <2>6, MovesCarefully
<1> QED
  BY <1>3, <1>4, <1>5, <1>6 DEF Open, Reopen

LEMMA ReplaceCareful ==
  ASSUME IInv, IInv', SendInv, NEW s \in 1 .. Len(sess), ReplaceTransport(s)
  PROVE  SendInv'
<1>1. /\ sess[s] \in Session /\ Careful(sess[s], trans, wire) /\ Linked(s, sess[s], trans)
      /\ trans \in Seq(Transport) /\ sess[s].pc = "replace"
      /\ UNCHANGED wire /\ UNCHANGED listener
  BY SessionFacts DEF SendInv, ReplaceTransport
<1>2. Later(trans, trans')
  <2>1. sess[s].transport \in 0 .. Len(trans) /\ sess[s].next \in 0 .. Len(trans)
    BY <1>1 DEF Linked
  <2> QED
    BY <1>1, <2>1, CloseTransportIs DEF ReplaceTransport
<1>3. CASE Goto(s, "exit")
  BY <1>1, <1>2, <1>3, EndsCarefully
<1>4. CASE sess' = [sess EXCEPT ![s].transport = sess[s].next,
                          ![s].pc = IF sess[s].again THEN "resend" ELSE "loop"]
  <2> DEFINE c == IF sess[s].again THEN "resend" ELSE "loop"
             q == [sess[s] EXCEPT !.transport = sess[s].next, !.pc = c]
  <2>1. sess' = [sess EXCEPT ![s] = q]
    BY <1>4
  <2>2. c \in {"loop", "resend"} /\ (c = "resend" => sess[s].again)
    OBVIOUS
  <2> HIDE DEF c
  <2>3. /\ q \in Session /\ q.pc = c /\ q.transport = sess[s].next
        /\ q.queue = sess[s].queue /\ q.pending = sess[s].pending
    BY <1>1, <2>2 DEF Session
  <2> HIDE DEF q
  <2>4. q.pc = "resend" => Late(q.transport, trans')
    <3>1. q.pc = "resend" => Late(sess[s].next, trans)
      BY <1>1, <2>2, <2>3 DEF Careful
    <3>2. Late(sess[s].next, trans) => Late(sess[s].next, trans')
      BY <1>1, <1>2, LateStays
    <3> QED
      BY <2>3, <3>1, <3>2
  <2>5. /\ q.pending \in {sess[s].pending, Nil}
        /\ \A g \in Gen : listener'[g].payload \in {listener[g].payload, Nil}
        /\ q.pc \notin {"dequeue", "send", "open", "retry", "reopen", "replace"}
    BY <1>1, <2>2, <2>3
  <2> QED
    BY <1>1, <1>2, <2>1, <2>3, <2>4, <2>5, MovesCarefully
<1> QED
  BY <1>3, <1>4 DEF ReplaceTransport

\* The first datagram of the queue becomes the pending one.
LEMMA TakenCarefully ==
  ASSUME NEW T, NEW w, NEW p \in Session, NEW q, Careful(p, T, w), p.queue # <<>>,
         q.queue = Tail(p.queue), q.pending = Head(p.queue), q.pc = "dequeue"
  PROVE  Careful(q, T, w) /\ Held(q) \subseteq Held(p)
<1>1. /\ p.queue \in Seq(Datagram) /\ Len(p.queue) \in Nat /\ Len(p.queue) # 0
      /\ Len(q.queue) = Len(p.queue) - 1
      /\ \A i \in 1 .. Len(q.queue) : q.queue[i] = p.queue[i + 1]
  BY DEF Session
<1>2. \A i \in 1 .. Len(q.queue) : i + 1 \in 1 .. Len(p.queue) /\ i + 1 # 1
  BY <1>1
<1>3. 1 \in 1 .. Len(p.queue) /\ q.pending = p.queue[1] /\ p.queue[1] \in Datagram
  BY <1>1
<1>4. /\ \A i \in 1 .. Len(p.queue) : w[p.queue[i]] = {}
      /\ \A i, j \in 1 .. Len(p.queue) : p.queue[i] = p.queue[j] => i = j
  BY DEF Careful
<1>5. ASSUME NEW i \in 1 .. Len(q.queue) PROVE q.queue[i] # q.pending /\ w[q.queue[i]] = {}
  BY <1>1, <1>2, <1>3, <1>4
<1>6. ASSUME NEW i \in 1 .. Len(q.queue), NEW j \in 1 .. Len(q.queue), q.queue[i] = q.queue[j]
      PROVE  i = j
  <2>1. p.queue[i + 1] = p.queue[j + 1]
    BY <1>1, <1>6
  <2>2. i + 1 = j + 1
    BY <1>2, <1>4, <2>1
  <2> QED
    BY <2>2
<1>7. w[q.pending] = {} /\ q.pending \in Datagram
  BY <1>3, <1>4
<1>8. Careful(q, T, w)
  BY <1>5, <1>6, <1>7 DEF Careful
<1>9. Held(q) \subseteq Held(p)
  BY <1>1, <1>2, <1>3 DEF Held
<1> QED
  BY <1>8, <1>9

LEMMA LoopReceivesCareful ==
  ASSUME IInv, IInv', SendInv, NEW s \in 1 .. Len(sess), LoopReceives(s)
  PROVE  SendInv'
<1> DEFINE q == [sess[s] EXCEPT !.pc = "dequeue", !.pending = Head(sess[s].queue),
                                !.queue = Tail(@)]
<1>1. /\ sess[s] \in Session /\ Careful(sess[s], trans, wire) /\ sess[s].queue # <<>>
      /\ UNCHANGED trans /\ UNCHANGED wire /\ UNCHANGED listener /\ Later(trans, trans')
  BY SessionFacts DEF SendInv, LoopReceives
<1>2. sess[s].queue \in Seq(Datagram)
  BY <1>1 DEF Session
<1>3. Head(sess[s].queue) \in Datagram \cap Payload /\ Tail(sess[s].queue) \in Seq(Datagram)
  BY <1>1, <1>2, TailIs DEF Payload
<1>4. /\ q \in Session /\ q.pc = "dequeue" /\ q.pending = Head(sess[s].queue)
      /\ q.queue = Tail(sess[s].queue)
  BY <1>1, <1>3 DEF Session
<1>5. sess' = [sess EXCEPT ![s] = q]
  BY DEF LoopReceives
<1> HIDE DEF q
<1>6. Careful(q, trans, wire) /\ Held(q) \subseteq Held(sess[s])
  BY <1>1, <1>4, TakenCarefully
<1>7. Careful(q, trans', wire')
  BY <1>1, <1>6
<1>8. /\ \A g \in Gen : listener'[g].payload \in {listener[g].payload, Nil}
      /\ \A d \in Datagram : wire'[d] = wire[d]
  BY <1>1
<1> QED
  BY <1>1, <1>4, <1>5, <1>6, <1>7, <1>8, OneSessionCareful

LEMMA DequeueCareful ==
  ASSUME IInv, IInv', SendInv, NEW s \in 1 .. Len(sess), Dequeue(s)
  PROVE  SendInv'
<1> DEFINE n == Max({0, sess[s].queued - Size[sess[s].pending]})
           q == [sess[s] EXCEPT !.pc = "send", !.queued = n]
<1>1. /\ sess[s] \in Session /\ sess[s].pc = "dequeue" /\ sess[s].pending \in Datagram
      /\ UNCHANGED wire /\ UNCHANGED listener /\ Later(trans, trans')
  BY SessionFacts DEF Dequeue, Linked
<1>2. n \in Int
  <2>1. sess[s].queued - Size[sess[s].pending] \in Int
    BY <1>1, SizeAssumption DEF Session
  <2> QED
    BY <2>1, MaxOfTwo
<1>3. sess' = [sess EXCEPT ![s] = q]
  BY DEF Dequeue
<1> HIDE DEF n
<1>4. /\ q \in Session /\ q.pc = "send" /\ q.queue = sess[s].queue /\ q.pending = sess[s].pending
  BY <1>1, <1>2 DEF Session
<1> HIDE DEF q
<1>5. /\ q.pending \in {sess[s].pending, Nil}
      /\ sess[s].pc \in {"dequeue", "send"} /\ q.pending = sess[s].pending
      /\ \A g \in Gen : listener'[g].payload \in {listener[g].payload, Nil}
      /\ q.pc \notin {"open", "retry", "reopen", "replace", "resend"}
  BY <1>1, <1>4
<1> QED
  BY <1>1, <1>3, <1>4, <1>5, MovesCarefully

LEMMA LoopEventCareful ==
  ASSUME IInv, IInv', SendInv, NEW s \in 1 .. Len(sess), LoopEvent(s)
  PROVE  SendInv'
<1>1. /\ sess[s] \in Session /\ sess[s].pc = "loop" /\ sess[s].transport # 0
      /\ UNCHANGED wire /\ UNCHANGED listener /\ Nil \in Payload
  BY SessionFacts DEF LoopEvent, Linked, Payload
<1>2. Later(trans, trans')
  BY EventTaken
<1>3. \A g \in Gen : listener'[g].payload \in {listener[g].payload, Nil}
  BY <1>1
<1>4. CASE sess' = [sess EXCEPT ![s].confirmed = TRUE]
  <2> DEFINE q == [sess[s] EXCEPT !.confirmed = TRUE]
  <2>1. /\ q \in Session /\ q.pc = "loop" /\ q.queue = sess[s].queue
        /\ q.pending = sess[s].pending
    BY <1>1 DEF Session
  <2>2. sess' = [sess EXCEPT ![s] = q]
    BY <1>4
  <2> HIDE DEF q
  <2>3. /\ q.pending \in {sess[s].pending, Nil}
        /\ q.pc \notin {"dequeue", "send", "open", "retry", "reopen", "replace", "resend"}
    BY <2>1
  <2> QED
    BY <1>1, <1>2, <1>3, <2>1, <2>2, <2>3, MovesCarefully
<1>5. CASE sess' = [sess EXCEPT ![s].pc = "retry", ![s].pending = Nil,
                                ![s].again = ~sess[s].sent]
  <2> DEFINE q == [sess[s] EXCEPT !.pc = "retry", !.pending = Nil, !.again = ~sess[s].sent]
  <2>1. /\ q \in Session /\ q.pc = "retry" /\ q.queue = sess[s].queue /\ q.pending = Nil
        /\ q.transport = sess[s].transport
    BY <1>1 DEF Session
  <2>2. sess' = [sess EXCEPT ![s] = q]
    BY <1>5
  <2> HIDE DEF q
  <2>3. /\ q.pending \in {sess[s].pending, Nil} /\ q.transport # 0
        /\ q.pc \notin {"dequeue", "send", "open", "replace", "resend"}
    BY <1>1, <2>1
  <2> QED
    BY <1>1, <1>2, <1>3, <2>1, <2>2, <2>3, MovesCarefully
<1> QED
  BY <1>4, <1>5 DEF LoopEvent

LEMMA RetryCareful ==
  ASSUME IInv, IInv', SendInv, NEW s \in 1 .. Len(sess), Retry(s)
  PROVE  SendInv'
<1>1. /\ sess[s] \in Session /\ sess[s].pc = "retry" /\ sess[s].transport \in 1 .. Len(trans)
      /\ trans \in Seq(Transport) /\ Later(trans, trans)
      /\ UNCHANGED wire /\ UNCHANGED listener
  BY SessionFacts DEF Retry, Linked
<1>2. Later(trans, trans')
  BY <1>1, CloseTransportIs DEF Retry
<1>3. CASE Goto(s, "exit")
  BY <1>1, <1>2, <1>3, EndsCarefully
<1>4. CASE Goto(s, "reopen")
  <2> DEFINE q == [sess[s] EXCEPT !.pc = "reopen"]
  <2>1. /\ q \in Session /\ q.pc = "reopen" /\ q.queue = sess[s].queue
        /\ q.pending = sess[s].pending /\ q.transport = sess[s].transport
    BY <1>1 DEF Session
  <2>2. sess' = [sess EXCEPT ![s] = q]
    BY <1>4 DEF Goto
  <2> HIDE DEF q
  <2>3. /\ q.pending \in {sess[s].pending, Nil} /\ q.transport # 0
        /\ \A g \in Gen : listener'[g].payload \in {listener[g].payload, Nil}
        /\ q.pc \notin {"dequeue", "send", "open", "replace", "resend"}
    BY <1>1, <2>1
  <2> QED
    BY <1>1, <1>2, <2>1, <2>2, <2>3, MovesCarefully
<1> QED
  BY <1>3, <1>4 DEF Retry

LEMMA ExitCareful ==
  ASSUME IInv, IInv', SendInv, NEW s \in 1 .. Len(sess), Exit(s) \/ ExitClosing(s)
  PROVE  SendInv'
<1> DEFINE c == IF Exit(s) /\ ~sess[s].closed THEN "closing" ELSE "delete"
           q == [sess[s] EXCEPT !.closed = TRUE, !.pc = c]
<1>1. /\ sess[s] \in Session /\ sess[s].transport \in 0 .. Len(trans)
      /\ trans \in Seq(Transport) /\ Later(trans, trans)
      /\ UNCHANGED wire /\ UNCHANGED listener
  BY SessionFacts DEF Exit, ExitClosing, Linked
<1>2. Later(trans, trans')
  BY <1>1, CloseTransportIs DEF Exit, ExitClosing, CloseMarked
<1>3. c \in {"closing", "delete"}
  OBVIOUS
<1>4. sess' = [sess EXCEPT ![s] = q]
  <2>1. CASE Exit(s)
    BY <2>1 DEF Exit
  <2>2. CASE ExitClosing(s)
    <3>1. sess[s].closed = TRUE /\ c = "delete" /\ sess' = [sess EXCEPT ![s].pc = "delete"]
      BY <1>1, <2>2, SessionFacts DEF Exit, ExitClosing, Goto, Linked, Session
    <3>2. q = [sess[s] EXCEPT !.pc = "delete"]
      BY <1>1, <3>1 DEF Session
    <3> QED
      BY <3>1, <3>2
  <2> QED
    BY <2>1, <2>2
<1> HIDE DEF c
<1>6. /\ q \in Session /\ q.pc \in {"closing", "delete"}
      /\ q.queue = sess[s].queue /\ q.pending = sess[s].pending
  BY <1>1, <1>3 DEF Session
<1> HIDE DEF q
<1>5. /\ q.pending \in {sess[s].pending, Nil}
      /\ \A g \in Gen : listener'[g].payload \in {listener[g].payload, Nil}
      /\ q.pc \notin {"dequeue", "send", "open", "retry", "reopen", "replace", "resend"}
  BY <1>1, <1>6
<1> QED
  BY <1>1, <1>2, <1>4, <1>5, <1>6, MovesCarefully

\* A session that begins or is over has nothing in hand.
LEMMA EmptyHands ==
  ASSUME NEW q, q.queue = <<>>, q.pending = Nil, q.pc \in {"open", "done"}, ~q.again,
         NEW T, NEW w
  PROVE  Careful(q, T, w) /\ Held(q) = {}
<1>1. \A i : i \notin 1 .. Len(q.queue)
  OBVIOUS
<1>2. q.pending \notin Datagram
  BY SizeAssumption
<1> QED
  BY <1>1, <1>2 DEF Careful, Held

LEMMA ExitDeleteCareful ==
  ASSUME IInv, IInv', SendInv, NEW s \in 1 .. Len(sess), ExitDelete(s)
  PROVE  SendInv'
<1> DEFINE q == Finished(sess[s])
<1>1. sess[s] \in Session
  BY SessionFacts
<1>2. /\ q \in Session /\ q.pc = "done" /\ q.queue = <<>> /\ q.pending = Nil /\ ~q.again
  BY <1>1, FinishedIs
<1>3. sess' = [sess EXCEPT ![s] = q]
  BY DEF ExitDelete
<1> HIDE DEF q
<1>4. UNCHANGED wire /\ UNCHANGED listener /\ Later(trans, trans')
  BY SessionFacts DEF ExitDelete
<1>5. Careful(q, trans', wire') /\ Held(q) \subseteq Held(sess[s])
  BY <1>2, EmptyHands
<1>6. /\ \A g \in Gen : listener'[g].payload \in {listener[g].payload, Nil}
      /\ \A d \in Datagram : wire'[d] = wire[d]
  BY <1>4
<1> QED
  BY <1>2, <1>3, <1>4, <1>5, <1>6, OneSessionCareful

\* A step of one session that sends what is pending: on its first transport and
\* it is pending no more, or on later ones only.
LEMMA SendsAndMoves ==
  ASSUME IInv, IInv', SendInv, NEW s \in 1 .. Len(sess), NEW q \in Session,
         sess' = [sess EXCEPT ![s] = q], Later(trans, trans'), UNCHANGED listener,
         q.queue = sess[s].queue, q.pending \in {sess[s].pending, Nil},
         q.pc \in {"loop", "retry", "reopen"}, q.transport # 0,
         \A d \in Datagram : d # sess[s].pending => wire'[d] = wire[d],
         sess[s].pending \in Datagram =>
           \/ \A u \in wire'[sess[s].pending] : Late(u, trans')
           \/ q.pending = Nil /\ \E u \in 1 .. Len(trans') : wire'[sess[s].pending] = {u}
  PROVE  SendInv'
<1>1. trans \in Seq(Transport) /\ sess[s] \in Session /\ Careful(sess[s], trans, wire)
  BY SessionFacts DEF SendInv
<1>2. q.pc \notin {"dequeue", "send", "open", "replace", "resend"}
  OBVIOUS
<1>3. q.pending \in Datagram => \A t \in wire'[q.pending] : Late(t, trans')
  BY SizeAssumption
<1>4. Careful(q, trans', wire') /\ Held(q) \subseteq Held(sess[s])
  <2>1. Sends(sess[s], trans, wire, q, trans', wire')
    BY <1>1, <1>2, <1>3 DEF Sends
  <2> QED
    BY <1>1, <2>1, SendsCarefully
<1>5. \A g \in Gen : listener'[g].payload \in {listener[g].payload, Nil}
  OBVIOUS
<1>6. ASSUME NEW d \in Datagram, d \notin Held(sess[s]) PROVE wire'[d] = wire[d]
  BY <1>6 DEF Held
<1>7. ASSUME NEW d \in Datagram, wire'[d] # wire[d], NEW t \in wire'[d]
      PROVE  t \in 1 .. Len(trans') /\ (Late(t, trans') \/ wire'[d] = {t})
  <2>1. d = sess[s].pending
    BY <1>7
  <2>2. CASE \A u \in wire'[d] : Late(u, trans')
    BY <1>7, <2>2 DEF Late
  <2>3. CASE \E u \in 1 .. Len(trans') : wire'[d] = {u}
    BY <1>7, <2>3
  <2> QED
    BY <2>1, <2>2, <2>3
<1> QED
  BY <1>4, <1>5, <1>6, <1>7, OneSessionCareful

\* transport.send adds the session's transport to what it sends, if anything.
LEMMA WrittenIs ==
  ASSUME IInv, NEW s \in 1 .. Len(sess), Writes(sess[s].transport, sess[s].pending)
  PROVE  /\ wire'[sess[s].pending] = wire[sess[s].pending] \cup {sess[s].transport}
         /\ \A d \in Datagram : d # sess[s].pending => wire'[d] = wire[d]
<1>1. sess[s].pending \in Payload /\ wire \in [Payload -> SUBSET (1 .. MaxTransports)]
  BY SessionFacts DEF Session
<1>2. wire' = [wire EXCEPT ![sess[s].pending] = @ \cup {sess[s].transport}]
  BY DEF Writes
<1> QED
  BY <1>1, <1>2 DEF Payload

LEMMA SendCareful ==
  ASSUME IInv, IInv', SendInv, NEW s \in 1 .. Len(sess), Send(s)
  PROVE  SendInv'
<1>1. /\ sess[s] \in Session /\ sess[s].transport \in 1 .. Len(trans)
      /\ UNCHANGED listener /\ UNCHANGED trans /\ Later(trans, trans') /\ Nil \in Payload
      /\ sess[s].pending \in Datagram /\ wire[sess[s].pending] = {}
  BY SessionFacts DEF Send, Linked, Payload, SendInv, Careful
<1>2. CASE /\ Writes(sess[s].transport, sess[s].pending)
           /\ sess' = [sess EXCEPT ![s].pc = "loop", ![s].sent = TRUE, ![s].pending = Nil]
  <2> DEFINE q == [sess[s] EXCEPT !.pc = "loop", !.sent = TRUE, !.pending = Nil]
  <2>1. /\ q \in Session /\ q.pc = "loop" /\ q.queue = sess[s].queue /\ q.pending = Nil
        /\ q.transport = sess[s].transport
    BY <1>1 DEF Session
  <2>2. sess' = [sess EXCEPT ![s] = q]
    BY <1>2
  <2> HIDE DEF q
  <2>3. /\ \A d \in Datagram : d # sess[s].pending => wire'[d] = wire[d]
        /\ \E u \in 1 .. Len(trans') : wire'[sess[s].pending] = {u}
    BY <1>1, <1>2, WrittenIs
  <2>4. /\ q.pending \in {sess[s].pending, Nil} /\ q.transport # 0
        /\ q.pc \in {"loop", "retry", "reopen"}
    BY <1>1, <2>1
  <2> QED
    BY <1>1, <2>1, <2>2, <2>3, <2>4, SendsAndMoves
<1>3. CASE /\ Writes(sess[s].transport, sess[s].pending)
           /\ sess' = [sess EXCEPT ![s].pc = "retry", ![s].again = FALSE, ![s].pending = Nil]
  <2> DEFINE q == [sess[s] EXCEPT !.pc = "retry", !.again = FALSE, !.pending = Nil]
  <2>1. /\ q \in Session /\ q.pc = "retry" /\ q.queue = sess[s].queue /\ q.pending = Nil
        /\ q.transport = sess[s].transport
    BY <1>1 DEF Session
  <2>2. sess' = [sess EXCEPT ![s] = q]
    BY <1>3
  <2> HIDE DEF q
  <2>3. /\ \A d \in Datagram : d # sess[s].pending => wire'[d] = wire[d]
        /\ \E u \in 1 .. Len(trans') : wire'[sess[s].pending] = {u}
    BY <1>1, <1>3, WrittenIs
  <2>4. /\ q.pending \in {sess[s].pending, Nil} /\ q.transport # 0
        /\ q.pc \in {"loop", "retry", "reopen"}
    BY <1>1, <2>1
  <2> QED
    BY <1>1, <2>1, <2>2, <2>3, <2>4, SendsAndMoves
<1>4. CASE sess' = [sess EXCEPT ![s].pc = "retry", ![s].again = TRUE] /\ UNCHANGED wire
  <2> DEFINE q == [sess[s] EXCEPT !.pc = "retry", !.again = TRUE]
  <2>1. /\ q \in Session /\ q.pc = "retry" /\ q.queue = sess[s].queue
        /\ q.pending = sess[s].pending /\ q.transport = sess[s].transport
    BY <1>1 DEF Session
  <2>2. sess' = [sess EXCEPT ![s] = q]
    BY <1>4
  <2> HIDE DEF q
  <2>3. /\ \A d \in Datagram : d # sess[s].pending => wire'[d] = wire[d]
        /\ \A u \in wire'[sess[s].pending] : Late(u, trans')
    BY <1>1, <1>4
  <2>4. /\ q.pending \in {sess[s].pending, Nil} /\ q.transport # 0
        /\ q.pc \in {"loop", "retry", "reopen"}
    BY <1>1, <2>1
  <2> QED
    BY <1>1, <2>1, <2>2, <2>3, <2>4, SendsAndMoves
<1> QED
  BY <1>2, <1>3, <1>4 DEF Send

LEMMA ResendCareful ==
  ASSUME IInv, IInv', SendInv, NEW s \in 1 .. Len(sess), Resend(s)
  PROVE  SendInv'
<1>1. /\ sess[s] \in Session /\ sess[s].transport \in 1 .. Len(trans) /\ Careful(sess[s], trans, wire)
      /\ UNCHANGED listener /\ Nil \in Payload /\ trans \in Seq(Transport) /\ Later(trans, trans)
  BY SessionFacts DEF Resend, Linked, Payload, SendInv
<1>2. Later(trans, trans')
  BY <1>1, CloseTransportIs DEF Resend
<1>3. /\ Late(sess[s].transport, trans)
      /\ sess[s].pending \in Datagram => \A u \in wire[sess[s].pending] : Late(u, trans)
  BY <1>1 DEF Careful, Resend
<1>4. /\ Late(sess[s].transport, trans')
      /\ sess[s].pending \in Datagram => \A u \in wire[sess[s].pending] : Late(u, trans')
  BY <1>1, <1>2, <1>3, LateStays
<1>5. /\ \A d \in Datagram : d # sess[s].pending => wire'[d] = wire[d]
      /\ \/ wire'[sess[s].pending] = wire[sess[s].pending] \cup {sess[s].transport}
         \/ wire'[sess[s].pending] = wire[sess[s].pending]
  BY WrittenIs DEF Resend
<1>6. sess[s].pending \in Datagram => \A u \in wire'[sess[s].pending] : Late(u, trans')
  BY <1>4, <1>5
<1>7. CASE sess' = [sess EXCEPT ![s].pc = "loop", ![s].sent = TRUE,
                                ![s].pending = Nil, ![s].again = FALSE]
  <2> DEFINE q == [sess[s] EXCEPT !.pc = "loop", !.sent = TRUE, !.pending = Nil, !.again = FALSE]
  <2>1. /\ q \in Session /\ q.pc = "loop" /\ q.queue = sess[s].queue /\ q.pending = Nil
        /\ q.transport = sess[s].transport
    BY <1>1 DEF Session
  <2>2. sess' = [sess EXCEPT ![s] = q]
    BY <1>7
  <2> HIDE DEF q
  <2>3. /\ q.pending \in {sess[s].pending, Nil} /\ q.transport # 0
        /\ q.pc \in {"loop", "retry", "reopen"}
    BY <1>1, <2>1
  <2> QED
    BY <1>1, <1>2, <1>5, <1>6, <2>1, <2>2, <2>3, SendsAndMoves
<1>8. CASE sess' = [sess EXCEPT ![s].pc = "reopen"]
  <2> DEFINE q == [sess[s] EXCEPT !.pc = "reopen"]
  <2>1. /\ q \in Session /\ q.pc = "reopen" /\ q.queue = sess[s].queue
        /\ q.pending = sess[s].pending /\ q.transport = sess[s].transport
    BY <1>1 DEF Session
  <2>2. sess' = [sess EXCEPT ![s] = q]
    BY <1>8
  <2> HIDE DEF q
  <2>3. /\ q.pending \in {sess[s].pending, Nil} /\ q.transport # 0
        /\ q.pc \in {"loop", "retry", "reopen"}
    BY <1>1, <2>1
  <2> QED
    BY <1>1, <1>2, <1>5, <1>6, <2>1, <2>2, <2>3, SendsAndMoves
<1> QED
  BY <1>7, <1>8 DEF Resend

LEMMA RunCareful ==
  ASSUME IInv, IInv', SendInv, NEW s \in 1 .. Len(sess), Run(s)
  PROVE  SendInv'
<1>1. CASE LoopDone(s) \/ LoopIdle(s)
  <2>1. Goto(s, "exit") /\ Later(trans, trans') /\ UNCHANGED <<listener, wire>>
    BY <1>1, SessionFacts DEF LoopDone, LoopIdle
  <2> QED
    BY <2>1, EndsCarefully
<1> QED
  BY <1>1, OpenCareful, ReplaceCareful, LoopReceivesCareful, DequeueCareful, SendCareful,
     LoopEventCareful, RetryCareful, ResendCareful, ExitCareful, ExitDeleteCareful DEF Run

-----------------------------------------------------------------------------
(* Steps that send nothing *)

\* The sessions are left alone, or one that has nothing in hand is added.
LEMMA SessionsStayCareful ==
  ASSUME IInv, IInv', SendInv, Later(trans, trans'), UNCHANGED wire,
         \A g \in Gen : listener'[g].payload \in {listener[g].payload, Nil},
         Len(sess) <= Len(sess'),
         \A s \in 1 .. Len(sess) : sess'[s] = sess[s],
         \A s \in Len(sess) + 1 .. Len(sess') :
           Careful(sess'[s], trans', wire') /\ Held(sess'[s]) = {}
  PROVE  SendInv'
<1>1. trans \in Seq(Transport) /\ Len(sess) \in Nat /\ Len(sess') \in Nat
  BY DomainIs DEF IInv, Typed, TypeOK
<1>2. InOnePlace'
  <2>1. InOnePlace /\ \A s \in 1 .. Len(sess) : Held(sess'[s]) \subseteq Held(sess[s])
    BY DEF SendInv
  <2> QED
    BY <2>1, PlacesShrink
<1>3. ASSUME NEW s \in 1 .. Len(sess') PROVE Careful(sess'[s], trans', wire')
  <2>1. CASE s \in 1 .. Len(sess)
    <3>1. Careful(sess[s], trans, wire) /\ sess'[s] = sess[s]
      BY <2>1 DEF SendInv
    <3>2. \A d \in Held(sess[s]) : wire'[d] = wire[d]
      OBVIOUS
    <3> QED
      BY <1>1, <3>1, <3>2, CarefulStays
  <2>2. CASE s \notin 1 .. Len(sess)
    BY <1>1, <1>3, <2>2
  <2> QED
    BY <2>1, <2>2
<1>4. Unsent'
  <2>1. \A g \in Gen : listener'[g].payload \in Datagram => listener'[g].payload = listener[g].payload
    BY SizeAssumption
  <2> QED
    BY <2>1 DEF SendInv, Unsent
<1>5. SentOnce'
  <2>1. ASSUME NEW d \in Datagram, NEW t \in wire[d]
        PROVE  t \in 1 .. Len(trans') /\ (Late(t, trans') \/ wire[d] = {t})
    <3>1. t \in 1 .. Len(trans) /\ (Late(t, trans) \/ wire[d] = {t})
      BY <2>1 DEF SendInv, SentOnce
    <3>2. t \in 1 .. Len(trans')
      BY <1>1, <3>1, DomainIs DEF Later
    <3> QED
      BY <1>1, <3>1, <3>2, LateStays
  <2> QED
    BY <2>1 DEF SentOnce
<1> QED
  BY <1>2, <1>3, <1>4, <1>5 DEF SendInv, Careful

\* Nothing but the listeners, and they only let go of what they have.
LEMMA SessionsRest ==
  ASSUME IInv, IInv', SendInv, Later(trans, trans'), UNCHANGED <<sess, wire>>,
         \A g \in Gen : listener'[g].payload \in {listener[g].payload, Nil}
  PROVE  SendInv'
<1>1. Len(sess) \in Nat
  BY ListenerFacts
<1>2. /\ Len(sess) <= Len(sess') /\ \A s \in 1 .. Len(sess) : sess'[s] = sess[s]
      /\ \A s \in Len(sess) + 1 .. Len(sess') : FALSE
  BY <1>1
<1>3. UNCHANGED wire
  OBVIOUS
<1> QED
  BY <1>2, <1>3, SessionsStayCareful

\* close() of a session by another goroutine.
LEMMA CloseCareful ==
  ASSUME IInv, IInv', SendInv, NEW s \in 1 .. Len(sess), MarkClosed(s), UNCHANGED <<trans, wire>>,
         \A g \in Gen : listener'[g].payload \in {listener[g].payload, Nil}
  PROVE  SendInv'
<1> DEFINE q == [sess[s] EXCEPT !.closed = TRUE]
<1>1. sess[s] \in Session /\ Careful(sess[s], trans, wire) /\ trans \in Seq(Transport)
  BY SessionFacts DEF SendInv
<1>2. /\ q \in Session /\ q.pc = sess[s].pc /\ q.transport = sess[s].transport
      /\ q.next = sess[s].next /\ q.pending = sess[s].pending /\ q.queue = sess[s].queue
      /\ q.again = sess[s].again
  BY <1>1 DEF Session
<1>3. sess' = [sess EXCEPT ![s] = q]
  BY DEF MarkClosed
<1> HIDE DEF q
<1>4. Later(trans, trans') /\ UNCHANGED wire
  BY <1>1, SameIsLater
<1>5. /\ q.pc \in {"dequeue", "send"} =>
           sess[s].pc \in {"dequeue", "send"} /\ q.pending = sess[s].pending
      /\ q.pc = "open" => ~q.again
      /\ q.pc \in {"retry", "reopen"} => q.transport # 0
      /\ q.pc = "replace" /\ q.again => Late(q.next, trans)
      /\ q.pc = "resend" => Late(q.transport, trans)
      /\ q.pending \in {sess[s].pending, Nil}
  BY <1>1, <1>2 DEF Careful
<1>6. \A t : Late(t, trans) => Late(t, trans')
  BY <1>1, <1>4, LateStays
<1>7. /\ q.pc = "replace" /\ q.again => Late(q.next, trans')
      /\ q.pc = "resend" => Late(q.transport, trans')
  BY <1>5, <1>6
<1> QED
  BY <1>2, <1>3, <1>4, <1>5, <1>7, MovesCarefully

\* The end of it, and of the table: no session and no listener has less in hand.
LEMMA SweepCareful ==
  ASSUME IInv, IInv', SendInv, NEW w \in 0 .. MaxGen, Sweep(w)
  PROVE  SendInv'
<1>1. /\ \A g \in Gen : listener'[g].payload \in {listener[g].payload, Nil}
      /\ trans \in Seq(Transport) /\ UNCHANGED <<listener, wire>>
  BY DEF Sweep, EmptyTable, SweepClose, SweepClosing, IInv, Typed, TypeOK
<1>2. CASE EmptyTable(w)
  BY <1>1, <1>2, SameIsLater, SessionsRest DEF EmptyTable
<1>3. CASE SweepClose(w)
  <2>1. sweeper[w].session \in 1 .. Len(sess) /\ UNCHANGED trans
    BY <1>3, ListenerFacts DEF SweepClose, IInv, Sweepers
  <2>2. CASE UNCHANGED sess
    BY <1>1, <2>1, <2>2, SameIsLater, SessionsRest
  <2>3. CASE MarkClosed(sweeper[w].session)
    BY <1>1, <2>1, <2>3, CloseCareful
  <2> QED
    BY <1>3, <2>2, <2>3 DEF SweepClose
<1>4. CASE SweepClosing(w)
  <2>1. /\ sweeper[w].session \in 1 .. Len(sess) /\ CloseMarked(sweeper[w].session)
        /\ UNCHANGED sess
    BY <1>4, ListenerFacts DEF SweepClosing, IInv, Sweepers
  <2>2. Later(trans, trans')
    BY <2>1, ClosingIs
  <2> QED
    BY <1>1, <2>1, <2>2, SessionsRest
<1> QED
  BY <1>2, <1>3, <1>4 DEF Sweep

\* udpLoop has a datagram that is nowhere else.
LEMMA ReceiveCareful ==
  ASSUME IInv, IInv', SendInv, NEW g \in Gen, NEW d \in Datagram, Receive(g, d)
  PROVE  SendInv'
<1> DEFINE l == [IdleListener EXCEPT !.pc = "get", !.payload = d]
<1>1. /\ listener \in [Gen -> Listener] /\ listener' = [listener EXCEPT ![g] = l]
      /\ UNCHANGED <<sess, trans, wire>> /\ wire[d] = {}
      /\ \A p \in Gen : listener[p].payload # d
      /\ \A s \in DOMAIN sess : ~Contains(sess[s].queue, d) /\ sess[s].pending # d
      /\ DOMAIN sess = 1 .. Len(sess)
  BY ListenerFacts DEF Receive
<1>2. l.payload = d
  BY DEF IdleListener
<1> HIDE DEF l
<1>3. /\ listener'[g].payload = d
      /\ \A h \in Gen \ {g} : listener'[h] = listener[h]
  BY <1>1, <1>2
<1>4. \A s \in 1 .. Len(sess) : d \notin Held(sess[s])
  BY <1>1 DEF Held, Contains
<1>5. InOnePlace'
  <2>1. \A h \in Gen : \A s \in 1 .. Len(sess) : listener'[h].payload \notin Held(sess[s])
    BY <1>3, <1>4 DEF SendInv, InOnePlace
  <2>2. \A h, k \in Gen :
          h # k => listener'[h].payload = Nil \/ listener'[h].payload # listener'[k].payload
    BY <1>1, <1>3 DEF SendInv, InOnePlace
  <2>3. \A s, r \in 1 .. Len(sess) : s # r => Held(sess[s]) \cap Held(sess[r]) = {}
    BY DEF SendInv, InOnePlace
  <2>4. ASSUME NEW s \in 1 .. Len(sess'), NEW r \in 1 .. Len(sess'), s # r
        PROVE  Held(sess'[s]) \cap Held(sess'[r]) = {}
    BY <1>1, <2>3, <2>4
  <2>5. ASSUME NEW h \in Gen, NEW s \in 1 .. Len(sess')
        PROVE  listener'[h].payload \notin Held(sess'[s])
    BY <1>1, <2>1, <2>5
  <2> QED
    BY <2>2, <2>4, <2>5 DEF InOnePlace, Held
<1>6. Unsent'
  BY <1>1, <1>3 DEF SendInv, Unsent
<1>7. SentOnce'
  BY <1>1 DEF SendInv, SentOnce, Late
<1>8. \A s \in 1 .. Len(sess') : Careful(sess'[s], trans', wire')
  BY <1>1 DEF SendInv
<1> QED
  BY <1>5, <1>6, <1>7, <1>8 DEF SendInv, Careful

\* The listener's datagram comes at the end of the session's queue.
LEMMA QueuedCarefully ==
  ASSUME NEW T, NEW w, NEW p \in Session, NEW q, Careful(p, T, w), NEW d \in Datagram,
         d \notin Held(p), w[d] = {}, q.queue = Append(p.queue, d), q.pending = p.pending,
         q.pc = p.pc, q.again = p.again, q.transport = p.transport, q.next = p.next
  PROVE  Careful(q, T, w) /\ Held(q) \subseteq Held(p) \cup {d}
<1>1. p.queue \in Seq(Datagram)
  BY DEF Session
<1>2. /\ Len(q.queue) = Len(p.queue) + 1 /\ q.queue[Len(p.queue) + 1] = d
      /\ \A i \in 1 .. Len(p.queue) : q.queue[i] = p.queue[i]
  BY <1>1, AppendIs
<1>3. /\ Len(p.queue) \in Nat
      /\ \A i \in 1 .. Len(q.queue) : i \in 1 .. Len(p.queue) \/ i = Len(p.queue) + 1
  BY <1>1, <1>2, DomainIs
<1>4. /\ \A i \in 1 .. Len(p.queue) : p.queue[i] # d
      /\ d # p.pending
  BY DEF Held
<1>5. \A i \in 1 .. Len(q.queue) : q.queue[i] # q.pending /\ w[q.queue[i]] = {}
  <2>1. \A i \in 1 .. Len(p.queue) : p.queue[i] # p.pending /\ w[p.queue[i]] = {}
    BY DEF Careful
  <2> QED
    BY <1>2, <1>3, <1>4, <2>1
<1>6. ASSUME NEW i \in 1 .. Len(q.queue), NEW j \in 1 .. Len(q.queue), q.queue[i] = q.queue[j]
      PROVE  i = j
  <2>1. \A a, b \in 1 .. Len(p.queue) : p.queue[a] = p.queue[b] => a = b
    BY DEF Careful
  <2>2. CASE i = Len(p.queue) + 1 \/ j = Len(p.queue) + 1
    BY <1>2, <1>3, <1>4, <1>6, <2>2
  <2>3. CASE i \in 1 .. Len(p.queue) /\ j \in 1 .. Len(p.queue)
    BY <1>2, <1>6, <2>1, <2>3
  <2> QED
    BY <1>3, <2>2, <2>3
<1>7. Careful(q, T, w)
  BY <1>5, <1>6 DEF Careful
<1>8. Held(q) \subseteq Held(p) \cup {d}
  BY <1>2, <1>3 DEF Held
<1> QED
  BY <1>7, <1>8

LEMMA EnqueueCareful ==
  ASSUME IInv, IInv', SendInv, NEW g \in Gen, Enqueue(g)
  PROVE  SendInv'
<1> DEFINE s == listener[g].session
           d == listener[g].payload
<1>1. /\ listener \in [Gen -> Listener] /\ listener[g] \in Listener /\ s \in 1 .. Len(sess)
      /\ d \in Datagram /\ UNCHANGED <<trans, wire>> /\ listener[g].pc = "enqueue"
  BY ListenerFacts DEF Enqueue, IInv, Typed
<1>2. /\ sess \in Seq(Session) /\ sess[s] \in Session /\ Careful(sess[s], trans, wire)
      /\ s \in DOMAIN sess /\ IdleListener.payload = Nil /\ Later(trans, trans)
      /\ \A r \in 1 .. Len(sess) : sess[r] \in Session
  BY <1>1, SessionFacts, ListenerFacts DEF SendInv, IdleListener
<1>3. CASE UNCHANGED sess /\ listener' = [listener EXCEPT ![g].pc = "check"]
  <2>1. \A h \in Gen : listener'[h].payload = listener[h].payload
    BY <1>1, <1>3 DEF Listener
  <2> QED
    BY <1>1, <1>2, <1>3, <2>1, SessionsRest
<1>4. CASE /\ sess' = [sess EXCEPT ![s].queue = Append(@, d), ![s].queued = @ + Size[d]]
           /\ listener' = [listener EXCEPT ![g] = IdleListener]
  <2> DEFINE q == [sess[s] EXCEPT !.queue = Append(@, d), !.queued = @ + Size[d]]
  <2>1. Append(sess[s].queue, d) \in Seq(Datagram) /\ sess[s].queued + Size[d] \in Int
    <3>1. sess[s].queue \in Seq(Datagram) /\ sess[s].queued \in Int
      BY <1>2 DEF Session
    <3> QED
      BY <1>1, <3>1, AppendIs, SizeAssumption
  <2>2. /\ q \in Session /\ q.queue = Append(sess[s].queue, d) /\ q.pending = sess[s].pending
        /\ q.pc = sess[s].pc /\ q.again = sess[s].again /\ q.transport = sess[s].transport
        /\ q.next = sess[s].next
    BY <1>2, <2>1 DEF Session
  <2>3. sess' = [sess EXCEPT ![s] = q]
    BY <1>4
  <2> HIDE DEF q
  <2>4. \A r \in 1 .. Len(sess) : d \notin Held(sess[r])
    BY DEF SendInv, InOnePlace
  <2>5. wire[d] = {}
    BY <1>1 DEF SendInv, Unsent
  <2> HIDE DEF s, d
  <2>6. Careful(q, trans, wire) /\ Held(q) \subseteq Held(sess[s]) \cup {d}
    BY <1>1, <1>2, <2>2, <2>4, <2>5, QueuedCarefully
  <2>7. /\ Len(sess') = Len(sess) /\ sess'[s] = q
        /\ \A r \in (1 .. Len(sess)) \ {s} : sess'[r] = sess[r]
    BY <1>2, <2>2, <2>3, ElementReplaced
  <2>8. /\ listener'[g].payload = Nil
        /\ \A h \in Gen \ {g} : listener'[h] = listener[h]
    BY <1>1, <1>2, <1>4
  <2>9. \A r, u \in 1 .. Len(sess) : r # u => Held(sess'[r]) \cap Held(sess'[u]) = {}
    <3>1. \A r, u \in 1 .. Len(sess) : r # u => Held(sess[r]) \cap Held(sess[u]) = {}
      BY DEF SendInv, InOnePlace
    <3>2. ASSUME NEW r \in 1 .. Len(sess), r # s PROVE Held(sess'[r]) \cap Held(q) = {}
      BY <1>1, <2>4, <2>6, <2>7, <3>1, <3>2
    <3>3. ASSUME NEW r \in 1 .. Len(sess), NEW u \in 1 .. Len(sess), r # u
          PROVE  Held(sess'[r]) \cap Held(sess'[u]) = {}
      <4>1. CASE r = s
        BY <2>7, <3>2, <3>3, <4>1
      <4>2. CASE u = s
        BY <2>7, <3>2, <3>3, <4>2
      <4>3. CASE r # s /\ u # s
        BY <2>7, <3>1, <3>3, <4>3
      <4> QED
        BY <4>1, <4>2, <4>3
    <3> QED
      BY <3>3
  <2>10. ASSUME NEW h \in Gen, NEW r \in 1 .. Len(sess)
         PROVE  listener'[h].payload \notin Held(sess'[r])
    <3>1. CASE h = g
      <4>1. Nil \notin Held(sess'[r])
        <5>1. sess'[r] \in Session
          BY <1>2, <2>2, <2>7, <2>10
        <5>2. sess'[r].queue \in Seq(Datagram)
          BY <5>1 DEF Session
        <5>3. \A i \in 1 .. Len(sess'[r].queue) : sess'[r].queue[i] \in Datagram
          BY <5>2, DomainIs
        <5> QED
          BY <5>3, SizeAssumption DEF Held
      <4> QED
        BY <2>8, <3>1, <4>1
    <3>2. CASE h # g
      <4>1. \A u \in 1 .. Len(sess) : listener[h].payload \notin Held(sess[u])
        BY <2>10 DEF SendInv, InOnePlace
      <4>2. listener[h].payload = Nil \/ listener[h].payload # d
        BY <2>10, <3>2 DEF SendInv, InOnePlace, d
      <4>3. listener'[h] = listener[h]
        BY <2>8, <2>10, <3>2
      <4>4. Nil # d
        BY <1>1, SizeAssumption
      <4>5. listener[h].payload # d
        BY <2>10, <3>2, <4>2, <4>4 DEF SendInv, InOnePlace, d
      <4> QED
        BY <1>1, <2>6, <2>7, <2>10, <4>1, <4>3, <4>5
    <3> QED
      BY <3>1, <3>2
  <2>11. \A h, k \in Gen :
           h # k => listener'[h].payload = Nil \/ listener'[h].payload # listener'[k].payload
    BY <2>8 DEF SendInv, InOnePlace
  <2>12. InOnePlace'
    <3>1. ASSUME NEW r \in 1 .. Len(sess'), NEW u \in 1 .. Len(sess'), r # u
          PROVE  Held(sess'[r]) \cap Held(sess'[u]) = {}
      <4>1. r \in 1 .. Len(sess) /\ u \in 1 .. Len(sess)
        BY <2>7
      <4> QED
        BY <2>9, <3>1, <4>1
    <3>2. ASSUME NEW h \in Gen, NEW r \in 1 .. Len(sess')
          PROVE  listener'[h].payload \notin Held(sess'[r])
      <4>1. r \in 1 .. Len(sess)
        BY <2>7
      <4> QED
        BY <2>10, <4>1
    <3> QED
      BY <2>11, <3>1, <3>2 DEF InOnePlace, Held
  <2>13. Unsent'
    BY <1>1, <2>8, SizeAssumption DEF SendInv, Unsent
  <2>14. ASSUME NEW r \in 1 .. Len(sess') PROVE Careful(sess'[r], trans, wire)
    BY <2>6, <2>7 DEF SendInv
  <2>15. SentOnce'
    BY <1>1 DEF SendInv, SentOnce, Late
  <2>16. \A r \in 1 .. Len(sess') : Careful(sess'[r], trans', wire')
    BY <1>1, <2>14
  <2> QED
    BY <2>12, <2>13, <2>15, <2>16 DEF SendInv, Careful
<1> QED
  BY <1>3, <1>4 DEF Enqueue

LEMMA GetOrCreateCareful ==
  ASSUME IInv, IInv', SendInv, NEW g \in Gen, GetOrCreate(g)
  PROVE  SendInv'
<1>1. /\ listener \in [Gen -> Listener] /\ UNCHANGED <<trans, wire>> /\ IdleListener.payload = Nil
      /\ trans \in Seq(Transport) /\ sess \in Seq(Session) /\ listener[g] \in Listener
  BY ListenerFacts DEF GetOrCreate, IInv, Typed, TypeOK, IdleListener
<1>2. Later(trans, trans') /\ UNCHANGED wire
  BY <1>1, SameIsLater
<1>3. CASE UNCHANGED sess /\ listener' = [listener EXCEPT ![g] = IdleListener]
  <2>1. \A h \in Gen : listener'[h].payload \in {listener[h].payload, Nil}
    BY <1>1, <1>3
  <2> QED
    BY <1>2, <1>3, <2>1, SessionsRest
<1>4. CASE UNCHANGED sess /\ listener' = [listener EXCEPT ![g].pc = "enqueue", ![g].session = entry]
  <2>1. \A h \in Gen : listener'[h].payload \in {listener[h].payload, Nil}
    BY <1>1, <1>4 DEF Listener
  <2> QED
    BY <1>2, <1>4, <2>1, SessionsRest
<1>5. CASE /\ sess' = Append(sess, NewSession(g))
           /\ listener' = [listener EXCEPT ![g].pc = "enqueue", ![g].session = Len(sess) + 1]
  <2>1. \A h \in Gen : listener'[h].payload \in {listener[h].payload, Nil}
    BY <1>1, <1>5 DEF Listener
  <2>2. NewSession(g) \in Session /\ Len(sess) \in Nat
    BY ListenerFacts, NewSessionIs
  <2>3. /\ Len(sess') = Len(sess) + 1 /\ sess'[Len(sess) + 1] = NewSession(g)
        /\ \A s \in 1 .. Len(sess) : sess'[s] = sess[s]
    BY <1>1, <1>5, <2>2, AppendIs
  <2>4. Careful(NewSession(g), trans', wire') /\ Held(NewSession(g)) = {}
    BY EmptyHands, SizeAssumption DEF NewSession
  <2>5. /\ Len(sess) <= Len(sess')
        /\ \A s \in Len(sess) + 1 .. Len(sess') :
             Careful(sess'[s], trans', wire') /\ Held(sess'[s]) = {}
    BY <2>2, <2>3, <2>4
  <2> QED
    BY <1>2, <2>1, <2>3, <2>5, SessionsStayCareful
<1> QED
  BY <1>3, <1>4, <1>5 DEF GetOrCreate

LEMMA SubmitCareful ==
  ASSUME IInv, IInv', SendInv, NEW g \in Gen, Submit(g)
  PROVE  SendInv'
<1>1. /\ listener \in [Gen -> Listener] /\ listener[g] \in Listener /\ IdleListener.payload = Nil
      /\ Later(trans, trans)
  BY SameIsLater, ListenerFacts DEF IInv, Typed, TypeOK, IdleListener
<1>2. CASE CheckUnavailable(g)
  <2>1. \A h \in Gen : listener'[h].payload \in {listener[h].payload, Nil}
    BY <1>1, <1>2 DEF CheckUnavailable, Listener
  <2>2. Later(trans, trans') /\ UNCHANGED <<sess, wire>>
    BY <1>1, <1>2 DEF CheckUnavailable
  <2> QED
    BY <2>1, <2>2, SessionsRest
<1>3. CASE SubmitDelete(g)
  <2>1. \A h \in Gen : listener'[h].payload \in {listener[h].payload, Nil}
    BY <1>1, <1>3 DEF SubmitDelete, Listener
  <2>2. Later(trans, trans') /\ UNCHANGED <<sess, wire>>
    BY <1>1, <1>3 DEF SubmitDelete
  <2> QED
    BY <2>1, <2>2, SessionsRest
<1>4. CASE SubmitClose(g)
  <2>1. \A h \in Gen : listener'[h].payload \in {listener[h].payload, Nil}
    <3>1. CASE Resubmit(g)
      BY <1>1, <3>1 DEF Resubmit, Listener
    <3>2. CASE listener' = [listener EXCEPT ![g].pc = "closing"]
      BY <1>1, <3>2 DEF Listener
    <3> QED
      BY <1>4, <3>1, <3>2 DEF SubmitClose
  <2>2. listener[g].session \in 1 .. Len(sess) /\ UNCHANGED <<trans, wire>>
    BY <1>4 DEF SubmitClose, IInv, Typed
  <2>3. CASE UNCHANGED sess
    BY <1>1, <2>1, <2>2, <2>3, SessionsRest
  <2>4. CASE MarkClosed(listener[g].session)
    BY <2>1, <2>2, <2>4, CloseCareful
  <2> QED
    BY <1>4, <2>3, <2>4 DEF SubmitClose
<1>5. CASE SubmitClosing(g)
  <2>1. \A h \in Gen : listener'[h].payload \in {listener[h].payload, Nil}
    BY <1>1, <1>5 DEF SubmitClosing, Resubmit, Listener
  <2>2. listener[g].session \in 1 .. Len(sess) /\ CloseMarked(listener[g].session)
    BY <1>5 DEF SubmitClosing, IInv, Typed
  <2>3. Later(trans, trans') /\ UNCHANGED <<sess, wire>>
    BY <1>5, <2>2, ClosingIs DEF SubmitClosing
  <2> QED
    BY <2>1, <2>3, SessionsRest
<1> QED
  BY <1>2, <1>3, <1>4, <1>5, GetOrCreateCareful, EnqueueCareful DEF Submit

\* The readers and the runtime have no datagrams.
LEMMA ReaderCareful ==
  ASSUME IInv, IInv', SendInv, NEW t \in 1 .. Len(trans), Reader(t)
  PROVE  SendInv'
<1>1. Later(trans, trans') /\ UNCHANGED <<sess, wire, listener>>
  BY ReaderIs DEF Reader, ReadResponse, ReadError, PushEvent
<1>2. \A g \in Gen : listener'[g].payload \in {listener[g].payload, Nil}
  BY <1>1
<1> QED
  BY <1>1, <1>2, SessionsRest

LEMMA RuntimeCareful ==
  ASSUME IInv, IInv', SendInv, CancelRuntime \/ StartRuntime
  PROVE  SendInv'
<1>1. Later(trans, trans') /\ UNCHANGED <<sess, wire, listener>>
  BY SameIsLater DEF CancelRuntime, StartRuntime, IInv, Typed, TypeOK
<1>2. \A g \in Gen : listener'[g].payload \in {listener[g].payload, Nil}
  BY <1>1
<1> QED
  BY <1>1, <1>2, SessionsRest

LEMMA InitSendInv ==
  ASSUME Init
  PROVE  SendInv
<1>1. Len(sess) = 0 /\ \A g \in Gen : listener[g].payload = Nil
  BY DEF Init, IdleListener
<1>2. \A d \in Datagram : wire[d] = {}
  BY DEF Init, Payload
<1> QED
  BY <1>1, <1>2 DEF SendInv, InOnePlace, Unsent, SentOnce

LEMMA NextSendInv ==
  ASSUME IInv, IInv', SendInv, [Next]_vars
  PROVE  SendInv'
<1>1. CASE UNCHANGED vars
  <2>1. UNCHANGED <<sess, wire, listener, trans>>
    BY <1>1 DEF vars
  <2>2. Later(trans, trans') /\ \A g \in Gen : listener'[g].payload \in {listener[g].payload, Nil}
    BY <2>1, SameIsLater DEF IInv, Typed, TypeOK
  <2> QED
    BY <2>1, <2>2, SessionsRest
<1>2. DOMAIN sess = 1 .. Len(sess) /\ DOMAIN trans = 1 .. Len(trans)
  BY DomainIs DEF IInv, Typed, TypeOK
<1> QED
  BY <1>1, <1>2, SubmitCareful, ReceiveCareful, RunCareful, ReaderCareful, SweepCareful,
     RuntimeCareful DEF Next

\* Every reachable state satisfies the inductive invariant of the datagrams.
THEOREM SendInvariance == Spec => []SendInv
<1>1. Init => SendInv
  BY InitSendInv
<1>2. IInv /\ IInv' /\ SendInv /\ [Next]_vars => SendInv'
  BY NextSendInv
<1> QED
  BY <1>1, <1>2, Invariance, PTL DEF Spec

\* udpEntrySession.run replays a datagram only when the failed write made no
\* progress: what the first transport of a session took bytes of reaches no
\* other transport, of that session or of another, whatever listeners, retries,
\* closes and restarts of the runtime come in between.
THEOREM FirstSendIsFinal == Spec => []FirstSendNotReplayed
<1>1. ASSUME IInv, SendInv, NEW t \in DOMAIN trans, NEW d \in Datagram, t \in wire[d],
             \A u \in DOMAIN trans : trans[u].owner = trans[t].owner => t <= u
      PROVE  wire[d] = {t}
  <2>1. DOMAIN trans = 1 .. Len(trans) /\ Len(trans) \in Nat
    BY <1>1, DomainIs DEF IInv, Typed, TypeOK
  <2>2. ~Late(t, trans)
    <3>1. ASSUME NEW u \in 1 .. Len(trans), u < t, trans[u].owner = trans[t].owner PROVE FALSE
      <4>1. t <= u /\ t \in Nat /\ u \in Nat
        BY <1>1, <2>1, <3>1
      <4> QED
        BY <3>1, <4>1
    <3> QED
      BY <3>1 DEF Late
  <2> QED
    BY <1>1, <2>2 DEF SendInv, SentOnce
<1>2. IInv /\ SendInv => FirstSendNotReplayed
  BY <1>1 DEF FirstSendNotReplayed
<1> QED
  BY <1>2, Invariance, SendInvariance, PTL

-----------------------------------------------------------------------------
(* The bytes of a queue                                                    *)

\* Induction over the natural numbers, for the elements of a set.
LEMMA NatInductionSet ==
  ASSUME NEW S, 0 \in S, \A n \in Nat : n \in S => n + 1 \in S
  PROVE  Nat \subseteq S
<1> SUFFICES ASSUME Nat \ S # {}
             PROVE  FALSE
  OBVIOUS
<1> DEFINE Below == {ss \in Nat \X Nat : ss[1] < ss[2]}
<1>1. IsWellFoundedOn(Below, Nat)
  BY NatLessThanWellFounded DEF OpToRel
<1> HIDE DEF Below
<1>2. PICK x \in Nat \ S : \A y \in Nat \ S : ~(<<y, x>> \in Below)
  BY <1>1, WFMin
<1>3. x # 0 /\ x - 1 \in Nat /\ x - 1 < x /\ x = (x - 1) + 1
  BY <1>2
<1>4. x - 1 \in S
  BY <1>2, <1>3 DEF Below
<1> QED
  BY <1>2, <1>3, <1>4

\* g[n] is the size of the first n datagrams.
Sums(g, q) == g = [n \in 0 .. Len(q) |-> IF n = 0 THEN 0 ELSE g[n - 1] + Size[q[n]]]

LEMMA BytesIs ==
  ASSUME NEW q \in Seq(Datagram)
  PROVE  \E g : Bytes(q) = g[Len(q)] /\ Sums(g, q)
<1> DEFINE Eq(N, g) == g = [n \in 0 .. N |-> IF n = 0 THEN 0 ELSE g[n - 1] + Size[q[n]]]
           Works == {N \in Nat : \E g : Eq(N, g)}
<1>1. 0 \in Works
  <2> DEFINE g0 == [n \in 0 .. 0 |-> 0]
  <2>1. Eq(0, g0)
    OBVIOUS
  <2> QED
    BY <2>1
<1>2. ASSUME NEW N \in Nat, N \in Works
      PROVE  N + 1 \in Works
  <2>1. PICK g : Eq(N, g)
    BY <1>2
  <2> DEFINE h == [n \in 0 .. N + 1 |->
                     IF n = N + 1 THEN g[n - 1] + Size[q[n]] ELSE g[n]]
  <2>2. ASSUME NEW n \in 0 .. N + 1
        PROVE  h[n] = IF n = 0 THEN 0 ELSE h[n - 1] + Size[q[n]]
    <3>1. n # 0 => n - 1 \in 0 .. N /\ h[n - 1] = g[n - 1]
      OBVIOUS
    <3>2. n # N + 1 => n \in 0 .. N /\ h[n] = g[n]
      OBVIOUS
    <3>3. CASE n = N + 1
      BY <3>1, <3>3
    <3>4. CASE n # N + 1
      <4>1. g[n] = IF n = 0 THEN 0 ELSE g[n - 1] + Size[q[n]]
        BY <2>1, <3>2, <3>4
      <4> QED
        BY <3>1, <3>2, <3>4, <4>1
    <3> QED
      BY <3>3, <3>4
  <2>3. Eq(N + 1, h)
    BY <2>2
  <2>4. N + 1 \in Nat
    OBVIOUS
  <2> HIDE DEF h, Eq
  <2> QED
    BY <2>3, <2>4
<1>3. Len(q) \in Works
  <2> HIDE DEF Works
  <2>1. Len(q) \in Nat
    OBVIOUS
  <2> QED
    BY <1>1, <1>2, <2>1, NatInductionSet
<1> DEFINE sum[n \in 0 .. Len(q)] == IF n = 0 THEN 0 ELSE sum[n - 1] + Size[q[n]]
<1>4. Eq(Len(q), sum)
  BY <1>3
<1>5. Bytes(q) = sum[Len(q)]
  BY DEF Bytes
<1>6. Sums(sum, q)
  BY <1>4 DEF Sums
<1> HIDE DEF sum
<1> QED
  BY <1>5, <1>6

LEMMA SumStep ==
  ASSUME NEW q \in Seq(Datagram), NEW g, Sums(g, q)
  PROVE  /\ g[0] = 0
         /\ \A n \in Nat : n + 1 <= Len(q) => g[n + 1] = g[n] + Size[q[n + 1]]
<1>1. g[0] = 0
  BY DEF Sums
<1>2. ASSUME NEW n \in Nat, n + 1 <= Len(q)
      PROVE  g[n + 1] = g[n] + Size[q[n + 1]]
  <2>1. n + 1 \in 0 .. Len(q) /\ n + 1 # 0 /\ (n + 1) - 1 = n
    BY <1>2
  <2> QED
    BY <2>1 DEF Sums
<1> QED
  BY <1>1, <1>2

LEMMA SizeIs ==
  ASSUME NEW q \in Seq(Datagram), NEW n \in Nat, n + 1 <= Len(q)
  PROVE  q[n + 1] \in Datagram /\ Size[q[n + 1]] \in Nat
<1>1. n + 1 \in 1 .. Len(q)
  OBVIOUS
<1> QED
  BY <1>1, SizeAssumption

\* Where one queue has the datagrams of another, perhaps after a first one, their
\* sums differ by the size of that one.
LEMMA SumsAgree ==
  ASSUME NEW q \in Seq(Datagram), NEW r \in Seq(Datagram), NEW g, NEW h,
         Sums(g, q), Sums(h, r), NEW k \in {0, 1}, NEW N \in Nat, N <= Len(r), k + N <= Len(q),
         \A n \in 1 .. N : r[n] = q[k + n]
  PROVE  g[k + N] = g[k] + h[N] /\ g[k] \in Nat /\ h[N] \in Nat
<1> DEFINE Holds == {n \in Nat : n <= N => g[k + n] = g[k] + h[n] /\ h[n] \in Nat}
<1>1. g[k] \in Nat
  <2>1. CASE k = 0
    BY <2>1, SumStep
  <2>2. CASE k = 1
    <3>1. 0 + 1 <= Len(q) /\ Len(q) \in Nat
      BY <2>2
    <3>2. g[0 + 1] = g[0] + Size[q[0 + 1]] /\ g[0] = 0
      BY <3>1, SumStep
    <3>3. Size[q[0 + 1]] \in Nat
      BY <3>1, SizeIs
    <3> QED
      BY <2>2, <3>2, <3>3
  <2> QED
    BY <2>1, <2>2
<1>2. 0 \in Holds
  <2>1. h[0] = 0
    BY SumStep
  <2>2. k + 0 = k
    OBVIOUS
  <2> QED
    BY <1>1, <2>1, <2>2
<1>3. ASSUME NEW n \in Nat, n \in Holds
      PROVE  n + 1 \in Holds
  <2> SUFFICES ASSUME n + 1 <= N
               PROVE  g[k + (n + 1)] = g[k] + h[n + 1] /\ h[n + 1] \in Nat
    OBVIOUS
  <2>1. /\ n <= N /\ n + 1 <= Len(r) /\ (k + n) + 1 <= Len(q) /\ k + n \in Nat
        /\ n + 1 \in 1 .. N /\ k + (n + 1) = (k + n) + 1
    OBVIOUS
  <2>2. g[k + n] = g[k] + h[n] /\ h[n] \in Nat
    BY <1>3, <2>1
  <2>3. g[(k + n) + 1] = g[k + n] + Size[q[(k + n) + 1]]
    BY <2>1, SumStep
  <2>4. h[n + 1] = h[n] + Size[r[n + 1]]
    BY <2>1, SumStep
  <2>5. Size[r[n + 1]] \in Nat
    BY <2>1, SizeIs
  <2>6. r[n + 1] = q[(k + n) + 1]
    BY <2>1
  <2>7. g[k + (n + 1)] = g[k + n] + Size[r[n + 1]]
    BY <2>1, <2>3, <2>6
  <2>8. \A a, b, c \in Nat : (a + b) + c = a + (b + c) /\ b + c \in Nat
    OBVIOUS
  <2>9. g[k] + h[n] + Size[r[n + 1]] = g[k] + (h[n] + Size[r[n + 1]])
        /\ h[n] + Size[r[n + 1]] \in Nat
    <3>1. g[k] \in Nat
      BY <1>1
    <3>2. h[n] \in Nat
      BY <2>2
    <3>3. Size[r[n + 1]] \in Nat
      BY <2>5
    <3> QED
      BY <2>8, <3>1, <3>2, <3>3, SMTT(60)
  <2> QED
    BY <2>2, <2>4, <2>7, <2>9, Zenon
<1>4. N \in Holds
  <2> HIDE DEF Holds
  <2> QED
    BY <1>2, <1>3, NatInductionSet
<1> QED
  BY <1>1, <1>4

LEMMA BytesTyped ==
  ASSUME NEW q \in Seq(Datagram)
  PROVE  Bytes(q) \in Nat
<1>1. PICK g : Bytes(q) = g[Len(q)] /\ Sums(g, q)
  BY BytesIs
<1>2. Len(q) \in Nat /\ 0 + Len(q) = Len(q) /\ \A n \in 1 .. Len(q) : q[n] = q[0 + n]
  OBVIOUS
<1> QED
  BY <1>1, <1>2, SumsAgree

LEMMA BytesOfNone == Bytes(<<>>) = 0
<1>1. <<>> \in Seq(Datagram) /\ Len(<<>>) = 0
  OBVIOUS
<1>2. PICK g : Bytes(<<>>) = g[Len(<<>>)] /\ Sums(g, <<>>)
  BY <1>1, BytesIs
<1> QED
  BY <1>1, <1>2, SumStep

\* A datagram at the end adds its size.
LEMMA BytesOfAppend ==
  ASSUME NEW q \in Seq(Datagram), NEW d \in Datagram
  PROVE  Bytes(Append(q, d)) = Bytes(q) + Size[d]
<1> DEFINE r == Append(q, d)
<1>1. /\ r \in Seq(Datagram) /\ Len(r) = Len(q) + 1 /\ r[Len(q) + 1] = d
      /\ \A n \in 1 .. Len(q) : r[n] = q[n]
      /\ Len(q) \in Nat
  BY AppendIs
<1> HIDE DEF r
<1>2. PICK g : Bytes(q) = g[Len(q)] /\ Sums(g, q)
  BY BytesIs
<1>3. PICK h : Bytes(r) = h[Len(r)] /\ Sums(h, r)
  BY <1>1, BytesIs
<1>4. h[Len(q) + 1] = h[Len(q)] + Size[d] /\ h[0] = 0
  BY <1>1, <1>3, SumStep
<1>5. h[0 + Len(q)] = h[0] + g[Len(q)] /\ g[Len(q)] \in Nat
  <2>1. \A n \in 1 .. Len(q) : q[n] = r[0 + n]
    BY <1>1
  <2>2. Len(q) <= Len(q) /\ 0 + Len(q) <= Len(r) /\ 0 \in {0, 1}
    BY <1>1
  <2> HIDE DEF r
  <2>3. q \in Seq(Datagram) /\ r \in Seq(Datagram) /\ Sums(g, q) /\ Sums(h, r) /\ Len(q) \in Nat
    BY <1>1, <1>2, <1>3
  <2> QED
    BY <2>1, <2>2, <2>3, SumsAgree
<1>6. h[Len(q)] = g[Len(q)]
  BY <1>1, <1>4, <1>5
<1> QED
  BY <1>1, <1>2, <1>3, <1>4, <1>6 DEF r

\* The datagram taken from the front takes its size with it.
LEMMA BytesOfTail ==
  ASSUME NEW q \in Seq(Datagram), q # <<>>
  PROVE  Bytes(q) = Bytes(Tail(q)) + Size[Head(q)]
<1> DEFINE r == Tail(q)
<1>1. /\ r \in Seq(Datagram) /\ Len(r) = Len(q) - 1 /\ Len(q) \in Nat \ {0} /\ Len(r) \in Nat
      /\ \A n \in 1 .. Len(r) : r[n] = q[1 + n]
      /\ Head(q) = q[1]
  OBVIOUS
<1> HIDE DEF r
<1>2. PICK g : Bytes(q) = g[Len(q)] /\ Sums(g, q)
  BY BytesIs
<1>3. PICK h : Bytes(r) = h[Len(r)] /\ Sums(h, r)
  BY <1>1, BytesIs
<1>4. g[1 + Len(r)] = g[1] + h[Len(r)] /\ g[1] \in Nat /\ h[Len(r)] \in Nat
  <2>1. Len(r) <= Len(r) /\ 1 + Len(r) <= Len(q) /\ 1 \in {0, 1}
    BY <1>1
  <2> QED
    BY <1>1, <1>2, <1>3, <2>1, SumsAgree
<1>5. g[1] = Size[q[1]]
  <2>1. 0 + 1 <= Len(q) /\ 0 + 1 = 1
    BY <1>1
  <2>2. g[0 + 1] = g[0] + Size[q[0 + 1]] /\ g[0] = 0
    BY <1>2, <2>1, SumStep
  <2>3. Size[q[0 + 1]] \in Nat
    BY <2>1, SizeIs
  <2> QED
    BY <2>1, <2>2, <2>3
<1>6. 1 + Len(r) = Len(q)
  BY <1>1
<1> QED
  BY <1>1, <1>2, <1>3, <1>4, <1>5, <1>6 DEF r

-----------------------------------------------------------------------------
(* The byte count of a queue                                               *)

\* QueueAccounting, of one session.
Accounted(q) ==
  q.pc # "done" =>
    /\ q.queued = Bytes(q.queue) + IF q.pc = "dequeue" THEN Size[q.pending] ELSE 0
    /\ q.queued <= QueueBytes
    /\ Len(q.queue) <= QueueEntries

QueueInv == \A s \in 1 .. Len(sess) : Accounted(sess[s])

\* Session s alone takes part in a step.
OneSession(s) ==
  /\ DOMAIN sess' = DOMAIN sess
  /\ \A p \in (1 .. Len(sess)) \ {s} : sess'[p] = sess[p]

\* It leaves its queue and its count alone, and takes nothing from the queue.
Quiet(s) ==
  /\ OneSession(s)
  /\ sess'[s].queue = sess[s].queue /\ sess'[s].queued = sess[s].queued
  /\ \/ sess'[s].pc = sess[s].pc /\ sess'[s].pending = sess[s].pending
     \/ sess[s].pc \notin {"dequeue", "done"} /\ sess'[s].pc # "dequeue"

LEMMA OneAccounted ==
  ASSUME IInv, IInv', QueueInv, NEW s \in 1 .. Len(sess), OneSession(s),
         Accounted(sess[s]) => Accounted(sess'[s])
  PROVE  QueueInv'
<1>1. /\ DOMAIN sess = 1 .. Len(sess) /\ DOMAIN sess' = 1 .. Len(sess')
      /\ Len(sess) \in Nat /\ Len(sess') \in Nat
  BY DomainIs DEF IInv, Typed, TypeOK
<1>2. 1 .. Len(sess') = 1 .. Len(sess)
  BY <1>1 DEF OneSession
<1>3. \A p \in 1 .. Len(sess) : Accounted(sess'[p])
  BY DEF QueueInv, OneSession
<1> QED
  BY <1>2, <1>3 DEF QueueInv, Accounted

LEMMA QuietAccounted ==
  ASSUME IInv, IInv', QueueInv, NEW s \in 1 .. Len(sess), Quiet(s)
  PROVE  QueueInv'
<1>1. Accounted(sess[s]) => Accounted(sess'[s])
  BY DEF Quiet, Accounted
<1> QED
  BY <1>1, OneAccounted DEF Quiet

LEMMA RunQuiet ==
  ASSUME IInv, NEW s \in 1 .. Len(sess),
         \/ Open(s) \/ ReplaceTransport(s) \/ LoopDone(s) \/ LoopIdle(s) \/ Send(s)
         \/ LoopEvent(s) \/ Retry(s) \/ Reopen(s) \/ Resend(s) \/ Exit(s) \/ ExitClosing(s)
  PROVE  Quiet(s)
<1>1. sess[s] \in Session /\ s \in DOMAIN sess /\ sess \in [DOMAIN sess -> Session]
      /\ DOMAIN sess = 1 .. Len(sess)
  BY SessionFacts, DomainIs DEF IInv, Typed, TypeOK
<1> USE DEF Quiet, OneSession, Session
<1>2. CASE Open(s)
  <2>1. CASE sess' = [sess EXCEPT ![s].pc = "replace", ![s].next = Len(trans) + 1]
    BY <1>1, <1>2, <2>1 DEF Open
  <2>2. CASE Goto(s, "exit")
    BY <1>1, <1>2, <2>2 DEF Open, Goto
  <2> QED
    BY <1>2, <2>1, <2>2 DEF Open
<1>3. CASE ReplaceTransport(s)
  <2>1. sess[s].pc = "replace" /\ UNCHANGED <<listener, sweeper>>
    BY <1>3 DEF ReplaceTransport
  <2>2. CASE sess' = [sess EXCEPT ![s].pc = "exit"]
    BY <1>1, <2>1, <2>2
  <2>3. CASE ~sess[s].closed /\ \E pc \in {"resend", "loop"} :
               sess' = [sess EXCEPT ![s].transport = sess[s].next, ![s].pc = pc]
    BY <1>1, <2>1, <2>3
  <2> QED
    BY <1>3, <2>2, <2>3 DEF ReplaceTransport, Goto
<1>4. CASE LoopDone(s) \/ LoopIdle(s)
  BY <1>1, <1>4 DEF LoopDone, LoopIdle, Goto
<1>5. CASE Send(s)
  <2>1. sess[s].pc = "send"
    BY <1>5 DEF Send
  <2>2. CASE sess' = [sess EXCEPT ![s].pc = "loop", ![s].sent = TRUE, ![s].pending = Nil]
    BY <1>1, <2>1, <2>2
  <2>3. CASE sess' = [sess EXCEPT ![s].pc = "retry", ![s].again = FALSE, ![s].pending = Nil]
    BY <1>1, <2>1, <2>3
  <2>4. CASE sess' = [sess EXCEPT ![s].pc = "retry", ![s].again = TRUE]
    BY <1>1, <2>1, <2>4
  <2> QED
    BY <1>5, <2>2, <2>3, <2>4 DEF Send
<1>6. CASE LoopEvent(s)
  <2>1. sess[s].pc = "loop"
    BY <1>6 DEF LoopEvent
  <2>2. CASE sess' = [sess EXCEPT ![s].confirmed = TRUE]
    BY <1>1, <2>1, <2>2
  <2>3. CASE sess' = [sess EXCEPT ![s].pc = "retry", ![s].pending = Nil, ![s].again = ~sess[s].sent]
    BY <1>1, <2>1, <2>3
  <2> QED
    BY <1>6, <2>2, <2>3 DEF LoopEvent
<1>7. CASE Retry(s)
  BY <1>1, <1>7 DEF Retry, Goto
<1>8. CASE Reopen(s)
  <2>1. CASE sess' = [sess EXCEPT ![s].attempts = @ + 1, ![s].pc = "replace",
                                  ![s].next = Len(trans) + 1]
    BY <1>1, <1>8, <2>1 DEF Reopen
  <2>2. CASE sess' = [sess EXCEPT ![s].attempts = @ + 1]
    BY <1>1, <2>2
  <2>3. CASE Goto(s, "exit")
    BY <1>1, <1>8, <2>3 DEF Reopen, Goto
  <2> QED
    BY <1>8, <2>1, <2>2, <2>3 DEF Reopen
<1>9. CASE Resend(s)
  <2>1. sess[s].pc = "resend"
    BY <1>9 DEF Resend
  <2>2. CASE sess' = [sess EXCEPT ![s].pc = "loop", ![s].sent = TRUE,
                                  ![s].pending = Nil, ![s].again = FALSE]
    BY <1>1, <2>1, <2>2
  <2>3. CASE sess' = [sess EXCEPT ![s].pc = "reopen"]
    BY <1>1, <2>1, <2>3
  <2> QED
    BY <1>9, <2>2, <2>3 DEF Resend
<1>10. CASE Exit(s) \/ ExitClosing(s)
  BY <1>1, <1>10 DEF Exit, ExitClosing, Goto
<1> QED
  BY <1>2, <1>3, <1>4, <1>5, <1>6, <1>7, <1>8, <1>9, <1>10

\* The datagram taken is counted until it is subtracted.
LEMMA LoopReceivesAccounted ==
  ASSUME IInv, IInv', QueueInv, NEW s \in 1 .. Len(sess), LoopReceives(s)
  PROVE  QueueInv'
<1> DEFINE q == sess[s].queue
           d == Head(q)
<1>1. sess[s] \in Session /\ s \in DOMAIN sess /\ sess \in [DOMAIN sess -> Session]
      /\ DOMAIN sess = 1 .. Len(sess)
  BY SessionFacts, DomainIs DEF IInv, Typed, TypeOK
<1>2. q \in Seq(Datagram) /\ q # <<>> /\ sess[s].pc = "loop"
  BY <1>1 DEF LoopReceives, Session
<1>3. OneSession(s)
  BY <1>1 DEF LoopReceives, OneSession
<1>4. /\ sess'[s].pc = "dequeue" /\ sess'[s].pending = d /\ sess'[s].queue = Tail(q)
      /\ sess'[s].queued = sess[s].queued
  BY <1>1 DEF LoopReceives, Session
<1>5. Len(q) \in Nat /\ Len(Tail(q)) \in Nat /\ Len(Tail(q)) <= Len(q)
  BY <1>2
<1> HIDE DEF q, d
<1>6. Bytes(q) = Bytes(Tail(q)) + Size[d]
  BY <1>2, BytesOfTail DEF d
<1>7. Accounted(sess[s]) => Accounted(sess'[s])
  <2> SUFFICES ASSUME Accounted(sess[s])
               PROVE  Accounted(sess'[s])
    OBVIOUS
  <2>1. /\ sess[s].queued = Bytes(q) + 0 /\ sess[s].queued <= QueueBytes
        /\ Len(q) <= QueueEntries
    BY <1>2 DEF Accounted, q
  <2>2. Bytes(q) \in Nat
    BY <1>2, BytesTyped
  <2>3. sess'[s].queued = Bytes(Tail(q)) + Size[d]
    BY <1>4, <1>6, <2>1, <2>2
  <2>4. Len(Tail(q)) <= QueueEntries
    BY <1>5, <2>1, BoundsAssumption
  <2> QED
    BY <1>4, <2>1, <2>3, <2>4 DEF Accounted
<1> QED
  BY <1>3, <1>7, OneAccounted

\* dequeue subtracts what was added for the datagram, never more.
LEMMA DequeueAccounted ==
  ASSUME IInv, IInv', QueueInv, NEW s \in 1 .. Len(sess), Dequeue(s)
  PROVE  QueueInv'
<1> DEFINE q == sess[s].queue
           z == Size[sess[s].pending]
           n == Max({0, sess[s].queued - z})
<1>1. sess[s] \in Session /\ s \in DOMAIN sess /\ sess \in [DOMAIN sess -> Session]
      /\ DOMAIN sess = 1 .. Len(sess)
  BY SessionFacts, DomainIs DEF IInv, Typed, TypeOK
<1>2. /\ q \in Seq(Datagram) /\ sess[s].pc = "dequeue" /\ sess[s].pending \in Datagram
      /\ z \in Nat
  BY <1>1, SessionFacts, SizeAssumption DEF Dequeue, Session, Linked
<1>3. OneSession(s)
  BY <1>1 DEF Dequeue, OneSession
<1>4. sess'[s].pc = "send" /\ sess'[s].queue = q /\ sess'[s].queued = n
  BY <1>1 DEF Dequeue, Session
<1>5. Accounted(sess[s]) => Accounted(sess'[s])
  <2> SUFFICES ASSUME Accounted(sess[s])
               PROVE  Accounted(sess'[s])
    OBVIOUS
  <2>1. /\ sess[s].queued = Bytes(q) + z /\ sess[s].queued <= QueueBytes
        /\ Len(q) <= QueueEntries
    BY <1>2 DEF Accounted
  <2>2. Bytes(q) \in Nat
    BY <1>2, BytesTyped
  <2> HIDE DEF q, z
  <2>3. sess[s].queued - z = Bytes(q)
    BY <1>2, <2>1, <2>2
  <2>4. Max({0, Bytes(q)}) = Bytes(q)
    <3>1. \A x \in {0, Bytes(q)} : (\A y \in {0, Bytes(q)} : x >= y) <=> x = Bytes(q)
      BY <2>2
    <3> QED
      BY <3>1 DEF Max
  <2>5. n = Bytes(q)
    BY <2>3, <2>4
  <2> HIDE DEF n
  <2>6. Bytes(q) <= QueueBytes
    BY <1>2, <2>1, <2>2, BoundsAssumption
  <2>7. /\ sess'[s].queued = Bytes(sess'[s].queue) + 0 /\ sess'[s].queued <= QueueBytes
        /\ Len(sess'[s].queue) <= QueueEntries
    BY <1>4, <2>1, <2>2, <2>5, <2>6
  <2> QED
    BY <1>4, <2>7 DEF Accounted
<1> QED
  BY <1>3, <1>5, OneAccounted

LEMMA ExitDeleteAccounted ==
  ASSUME IInv, IInv', QueueInv, NEW s \in 1 .. Len(sess), ExitDelete(s)
  PROVE  QueueInv'
<1>1. sess[s] \in Session /\ s \in DOMAIN sess /\ DOMAIN sess = 1 .. Len(sess)
  BY SessionFacts, DomainIs DEF IInv, Typed, TypeOK
<1>2. OneSession(s) /\ sess'[s] = Finished(sess[s])
  BY <1>1 DEF ExitDelete, OneSession
<1>3. sess'[s].pc = "done"
  BY <1>1, <1>2, FinishedIs
<1> QED
  BY <1>2, <1>3, OneAccounted DEF Accounted

LEMMA RunAccounted ==
  ASSUME IInv, IInv', QueueInv, NEW s \in 1 .. Len(sess), Run(s)
  PROVE  QueueInv'
BY RunQuiet, QuietAccounted, LoopReceivesAccounted, DequeueAccounted, ExitDeleteAccounted DEF Run

\* Only a datagram that fits is queued, with its bytes.
LEMMA EnqueueAccounted ==
  ASSUME IInv, IInv', QueueInv, NEW g \in Gen, Enqueue(g), ~UNCHANGED sess
  PROVE  QueueInv'
<1> DEFINE s == listener[g].session
           d == listener[g].payload
           q == sess[s].queue
<1>1. /\ Fits(s, d) /\ listener[g].pc = "enqueue" /\ ~Unavailable(s)
      /\ sess' = [sess EXCEPT ![s].queue = Append(@, d), ![s].queued = @ + Size[d]]
  BY DEF Enqueue
<1>2. s \in 1 .. Len(sess) /\ d \in Datagram
  BY <1>1, ListenerFacts DEF IInv, Typed
<1> HIDE DEF s, d
<1>3. sess[s] \in Session /\ s \in DOMAIN sess /\ sess \in [DOMAIN sess -> Session]
      /\ DOMAIN sess = 1 .. Len(sess)
  BY <1>2, SessionFacts, DomainIs DEF IInv, Typed, TypeOK
<1>4. q \in Seq(Datagram) /\ Size[d] \in Nat
  BY <1>2, <1>3, SizeAssumption DEF Session
<1>5. OneSession(s)
  BY <1>1, <1>3 DEF OneSession
<1>6. /\ sess'[s].pc = sess[s].pc /\ sess'[s].pending = sess[s].pending
      /\ sess'[s].queue = Append(q, d) /\ sess'[s].queued = sess[s].queued + Size[d]
  BY <1>1, <1>3 DEF Session
<1>7. sess[s].queued + Size[d] <= QueueBytes /\ Len(q) < QueueEntries
  BY <1>1 DEF Fits
<1> HIDE DEF q
<1>8. /\ Bytes(Append(q, d)) = Bytes(q) + Size[d] /\ Bytes(q) \in Nat
      /\ Len(Append(q, d)) = Len(q) + 1 /\ Len(q) \in Nat
  BY <1>2, <1>4, BytesOfAppend, BytesTyped
<1>9. Accounted(sess[s]) => Accounted(sess'[s])
  <2> SUFFICES ASSUME Accounted(sess[s]), sess[s].pc # "done"
               PROVE  Accounted(sess'[s])
    BY <1>6 DEF Accounted
  <2> DEFINE z == IF sess[s].pc = "dequeue" THEN Size[sess[s].pending] ELSE 0
  <2>1. sess[s].queued = Bytes(q) + z
    BY DEF Accounted, q
  <2>2. z \in Nat
    BY <1>2, SessionFacts, SizeAssumption DEF Linked
  <2>3. sess'[s].queued = Bytes(Append(q, d)) + z
    <3> HIDE DEF z
    <3> QED
      BY <1>4, <1>6, <1>8, <2>1, <2>2
  <2>4. Len(Append(q, d)) <= QueueEntries
    BY <1>7, <1>8, BoundsAssumption
  <2> QED
    BY <1>6, <1>7, <2>3, <2>4 DEF Accounted
<1> QED
  BY <1>2, <1>5, <1>9, OneAccounted

LEMMA CreateAccounted ==
  ASSUME IInv, IInv', QueueInv, NEW g \in Gen, GetOrCreate(g), ~UNCHANGED sess
  PROVE  QueueInv'
<1>1. /\ sess' = Append(sess, NewSession(g)) /\ sess \in Seq(Session) /\ NewSession(g) \in Session
      /\ Len(sess) \in Nat
  BY ListenerFacts, NewSessionIs DEF GetOrCreate
<1>2. /\ Len(sess') = Len(sess) + 1 /\ sess'[Len(sess) + 1] = NewSession(g)
      /\ \A s \in 1 .. Len(sess) : sess'[s] = sess[s]
  BY <1>1, AppendIs
<1>3. Accounted(NewSession(g))
  <2>1. Bytes(<<>>) = 0 /\ Len(<<>>) = 0 /\ QueueBytes \in Nat /\ QueueEntries \in Nat
    BY BytesOfNone, BoundsAssumption
  <2> QED
    BY <2>1 DEF Accounted, NewSession
<1>4. \A s \in 1 .. Len(sess') : s \in 1 .. Len(sess) \/ s = Len(sess) + 1
  BY <1>1, <1>2
<1> QED
  BY <1>2, <1>3, <1>4 DEF QueueInv, Accounted

\* close() leaves the queue alone.
LEMMA CloseQuiet ==
  ASSUME IInv, NEW s \in 1 .. Len(sess), MarkClosed(s)
  PROVE  Quiet(s)
<1>1. sess[s] \in Session /\ s \in DOMAIN sess /\ sess \in [DOMAIN sess -> Session]
      /\ DOMAIN sess = 1 .. Len(sess)
  BY SessionFacts, DomainIs DEF IInv, Typed, TypeOK
<1> QED
  BY <1>1 DEF MarkClosed, Quiet, OneSession, Session

LEMMA InitAccounted ==
  ASSUME Init
  PROVE  QueueInv
<1>1. Len(sess) = 0
  BY DEF Init
<1> QED
  BY <1>1 DEF QueueInv

LEMMA NextAccounted ==
  ASSUME IInv, IInv', QueueInv, [Next]_vars
  PROVE  QueueInv'
<1>1. CASE UNCHANGED sess
  BY <1>1 DEF QueueInv, Accounted
<1>2. DOMAIN sess = 1 .. Len(sess) /\ DOMAIN trans = 1 .. Len(trans)
  BY DomainIs DEF IInv, Typed, TypeOK
<1>3. ASSUME NEW g \in Gen, Submit(g), ~UNCHANGED sess
      PROVE  QueueInv'
  <2>1. CASE SubmitClose(g)
    <3>1. listener[g].session \in 1 .. Len(sess) /\ MarkClosed(listener[g].session)
      BY <1>3, <2>1 DEF SubmitClose, IInv, Typed
    <3> QED
      BY <3>1, CloseQuiet, QuietAccounted
  <2>2. CASE CheckUnavailable(g) \/ SubmitDelete(g) \/ SubmitClosing(g)
    BY <1>3, <2>2 DEF CheckUnavailable, SubmitDelete, SubmitClosing
  <2> QED
    BY <1>3, <2>1, <2>2, CreateAccounted, EnqueueAccounted DEF Submit
<1>4. ASSUME NEW w \in 0 .. MaxGen, Sweep(w), ~UNCHANGED sess
      PROVE  QueueInv'
  <2>1. sweeper[w].session \in 1 .. Len(sess) /\ MarkClosed(sweeper[w].session)
    BY <1>4, ListenerFacts DEF Sweep, EmptyTable, SweepClose, SweepClosing, IInv, Sweepers
  <2> QED
    BY <2>1, CloseQuiet, QuietAccounted
<1>5. ASSUME CancelRuntime \/ StartRuntime
      PROVE  UNCHANGED sess
  BY <1>5 DEF CancelRuntime, StartRuntime
<1>6. ASSUME NEW t \in 1 .. Len(trans), Reader(t)
      PROVE  UNCHANGED sess
  BY <1>6 DEF Reader, ReadResponse, ReadError, PushEvent
<1>7. ASSUME NEW g \in Gen, NEW d \in Datagram, Receive(g, d)
      PROVE  UNCHANGED sess
  BY <1>7 DEF Receive
<1>8. UNCHANGED vars => UNCHANGED sess
  BY DEF vars
<1> QED
  BY <1>1, <1>2, <1>3, <1>4, <1>5, <1>6, <1>7, <1>8, RunAccounted DEF Next

THEOREM QueueInvariance == Spec => []QueueInv
<1>1. Init => QueueInv
  BY InitAccounted
<1>2. IInv /\ IInv' /\ QueueInv /\ [Next]_vars => QueueInv'
  BY NextAccounted
<1> QED
  BY <1>1, <1>2, Invariance, PTL DEF Spec

\* queuedByte is the bytes of the queue and of the datagram just taken from it,
\* and both limits hold, whatever the listener, run and close() do between the
\* channel operation and the subtraction.
THEOREM QueueIsAccounted == Spec => []QueueAccounting
<1>1. IInv /\ QueueInv => QueueAccounting
  BY ListenerFacts DEF QueueInv, Accounted, QueueAccounting
<1> QED
  BY <1>1, Invariance, QueueInvariance, PTL
=============================================================================
