---------------------------- MODULE NodeHub_proofs ----------------------------
(***************************************************************************)
(* One control connection per node and none for a revoked node, for any    *)
(* number of connections and admin requests.                               *)
(***************************************************************************)
EXTENDS NodeHub, TLAPS

\* handleNodeWS is between nodeSocketMu.Lock and Unlock.
Registering(c) == conns[c].pc \in {"seen", "register", "replace"}

\* handleRevokeNode is between nodeSocketMu.Lock and Unlock.
Revoking(j) ==
  \/ j.pc \in {"bump", "cut", "cutting"}
  \/ j.revokes /\ j.pc \in {"push", "send", "sending"}

\* nodeSocketMu is held by who is between its Lock and its Unlock.
LockHeld ==
  /\ \A c \in Conn : Registering(c) => socketMu = c
  /\ \A a \in Admin : Revoking(admins[a]) => socketMu = a

\* The hub's table names a connection whose handler has yet to unregister it,
\* and a handler that is replacing a socket has put its own there.
TableFollows ==
  /\ sockets # None => Serving(sockets) \/ At(sockets, "replace") \/ At(sockets, "unregister")
  /\ \A c \in Conn : At(c, "replace") => sockets = c

\* The open connections that are served are the one in the table and the one
\* that is being replaced.
OpenServed ==
  \A c \in Conn : Serving(c) /\ conns[c].wire = "open" =>
    sockets = c \/ \E d \in Conn : At(d, "replace") /\ conns[d].to = c

\* No connection of a revoked node is being registered.
RevokedNotRegistering == status = "revoked" => socketMu \notin Conn

\* Between the lookup and the close of Hub.Close nobody else is registered.
CutsTheSocket ==
  \A a \in Admin : AdminAt(a, "cutting") => sockets = None \/ sockets = admins[a].to

\* The inductive invariant.
IInv ==
  /\ TypeOK /\ LockHeld /\ TableFollows /\ OpenServed
  /\ RevokedNotRegistering /\ RevokedIsCut /\ CutsTheSocket
-----------------------------------------------------------------------------
(* Types *)

\* A handler's record is replaced by another.
LEMMA ConnTyped ==
  ASSUME TypeOK, NEW c \in Conn, NEW r \in Handler
  PROVE  [conns EXCEPT ![c] = r] \in [Conn -> Handler]
BY DEF TypeOK

LEMMA AdminTyped ==
  ASSUME TypeOK, NEW a \in Admin, NEW j \in AdminJob
  PROVE  [admins EXCEPT ![a] = j] \in [Admin -> AdminJob]
BY DEF TypeOK

\* A write mutex is taken or released.
LEMMA WriteMuTyped ==
  ASSUME TypeOK, NEW to, NEW who \in Actor \cup {None}
  PROVE  [writeMu EXCEPT ![to] = who] \in [Conn -> Actor \cup {None}]
BY DEF TypeOK

\* A socket is closed through its socketConn.
LEMMA ClosedConn ==
  ASSUME TypeOK, NEW to
  PROVE  LET closed == [conns EXCEPT ![to].wire = "closed"]
         IN  /\ closed \in [Conn -> Handler]
             /\ \A d \in Conn : /\ closed[d].pc = conns[d].pc /\ closed[d].to = conns[d].to
                                /\ closed[d].wire = IF d = to THEN "closed" ELSE conns[d].wire
BY ZenonT(60) DEF TypeOK, Handler

LEMMA ConnType ==
  ASSUME TypeOK, NEW c \in Conn, Hello(c) \/ Handle(c) \/ PeerLeaves(c)
                                  \/ ReadHeartbeat(c) \/ ReadPullConfig(c)
  PROVE  TypeOK'
<1> USE DEF At, Goto, Returns, NoConn, Mark, Fault
<1>1. CASE Hello(c)
  BY <1>1 DEF Hello, TypeOK, Handler
<1>2. CASE LockSockets(c)
  BY <1>2 DEF LockSockets, TypeOK, Handler, Actor
<1>3. CASE Seen(c)
  BY <1>3, BoundsAssumption DEF Seen, TypeOK, Handler
<1>4. CASE RegisterSocket(c)
  BY <1>4 DEF RegisterSocket, TypeOK, Handler
<1>5. CASE CloseReplaced(c)
  <2> DEFINE closed == [conns EXCEPT ![conns[c].to].wire = "closed"]
  <2>1. closed \in [Conn -> Handler]
    BY ClosedConn
  <2>2. conns' = [closed EXCEPT ![c].pc = "push", ![c].to = None]
    BY <1>5 DEF CloseReplaced
  <2> DEFINE r == [closed[c] EXCEPT !.pc = "push", !.to = None]
  <2>3. r \in Handler
    BY ZenonT(60), <2>1 DEF Handler
  <2>4. conns' = [closed EXCEPT ![c] = r]
    BY <2>1, <2>2
  <2>5. conns' \in [Conn -> Handler]
    BY <2>1, <2>3, <2>4
  <2> QED
    BY <1>5, <2>5 DEF CloseReplaced, TypeOK
<1>6. CASE Lookup(c)
  BY <1>6 DEF Lookup, TypeOK, Handler
<1>7. CASE LockWrite(c)
  <2>1. conns' \in [Conn -> Handler]
    BY <1>7 DEF LockWrite, TypeOK, Handler
  <2>2. writeMu' \in [Conn -> Actor \cup {None}]
    BY <1>7, WriteMuTyped DEF LockWrite, Actor
  <2> QED
    BY <1>7, <2>1, <2>2 DEF LockWrite, TypeOK
<1>8. CASE Write(c)
  <2>1. PICK pc \in {"loop", "more", "unregister"} :
               conns' = [conns EXCEPT ![c].pc = pc, ![c].to = None]
    BY <1>8 DEF Write, Written
  <2> DEFINE r == [conns[c] EXCEPT !.pc = pc, !.to = None]
  <2>2. r \in Handler
    BY ZenonT(60) DEF TypeOK, Handler
  <2>3. conns' = [conns EXCEPT ![c] = r]
    BY <2>1
  <2>4. conns' \in [Conn -> Handler]
    BY <2>2, <2>3, ConnTyped
  <2>5. writeMu' \in [Conn -> Actor \cup {None}]
    BY <1>8, WriteMuTyped DEF Write, Written
  <2> QED
    BY <1>8, <2>4, <2>5 DEF Write, Written, TypeOK
<1>9. CASE Heartbeat(c)
  BY <1>9, BoundsAssumption DEF Heartbeat, TypeOK, Handler
<1>10. CASE ReadFails(c)
  BY <1>10 DEF ReadFails, TypeOK, Handler
<1>11. CASE UnregisterSocket(c)
  BY <1>11 DEF UnregisterSocket, TypeOK, Handler
<1>12. CASE MarkNodeOffline(c)
  BY <1>12, BoundsAssumption DEF MarkNodeOffline, TypeOK, Handler
<1>13. CASE PeerLeaves(c)
  BY <1>13 DEF PeerLeaves, TypeOK, Handler
<1>14. CASE ReadHeartbeat(c) \/ ReadPullConfig(c)
  BY <1>14 DEF ReadHeartbeat, ReadPullConfig, TypeOK, Handler
<1> QED
  BY <1>1, <1>2, <1>3, <1>4, <1>5, <1>6, <1>7, <1>8, <1>9, <1>10, <1>11, <1>12, <1>13, <1>14
  DEF Handle

LEMMA AdminType ==
  ASSUME TypeOK, NEW a \in Admin, Change(a) \/ Revoke(a) \/ Administer(a)
  PROVE  TypeOK'
<1> USE DEF AdminAt, AdminGoto, Fault
<1>0. admins[a] \in AdminJob /\ sockets \in Conn \cup {None}
  BY DEF TypeOK
<1>1. CASE Change(a)
  BY <1>1 DEF Change, TypeOK, AdminJob, NoJob
<1>2. CASE Revoke(a)
  BY <1>2 DEF Revoke, TypeOK, AdminJob, NoJob, Actor
<1>3. CASE BumpRevision(a)
  BY <1>3, BoundsAssumption DEF BumpRevision, TypeOK, AdminJob
<1>5. CASE AdminLookup(a)
  BY <1>5 DEF AdminLookup, AfterPush, TypeOK, AdminJob
<1>6. CASE AdminLockWrite(a)
  <2>1. admins' \in [Admin -> AdminJob]
    BY <1>6 DEF AdminLockWrite, TypeOK, AdminJob
  <2>2. writeMu' \in [Conn -> Actor \cup {None}]
    BY <1>6, WriteMuTyped DEF AdminLockWrite, Actor
  <2> QED
    BY <1>6, <2>1, <2>2 DEF AdminLockWrite, TypeOK
<1>7. CASE AdminWrite(a)
  <2> DEFINE j == [admins[a] EXCEPT !.pc = AfterPush(a), !.to = None]
  <2>1. j \in AdminJob /\ admins' = [admins EXCEPT ![a] = j]
    BY <1>0, <1>7 DEF AfterPush, AdminJob, AdminWrite
  <2>2. admins' \in [Admin -> AdminJob]
    BY <2>1, AdminTyped
  <2>3. writeMu' \in [Conn -> Actor \cup {None}]
    BY <1>7, WriteMuTyped DEF AdminWrite
  <2> QED
    BY <1>7, <2>2, <2>3 DEF AdminWrite, TypeOK
<1>8. CASE CutLookup(a)
  <2>1. admins' \in [Admin -> AdminJob]
    BY <1>0, <1>8 DEF CutLookup, TypeOK, AdminJob
  <2> QED
    BY <1>8, <2>1 DEF CutLookup, TypeOK
<1>9. CASE Cut(a)
  <2>1. conns' \in [Conn -> Handler]
    BY ZenonT(60), <1>9 DEF Cut, TypeOK, Handler
  <2>2. NoJob \in AdminJob /\ [NoJob EXCEPT !.pc = "push"] \in AdminJob
    BY DEF NoJob, AdminJob
  <2>3. admins' \in [Admin -> AdminJob]
    BY <1>9, <2>2, AdminTyped DEF Cut
  <2> QED
    BY <1>9, <2>1, <2>3 DEF Cut, TypeOK
<1> QED
  BY <1>1, <1>2, <1>3, <1>5, <1>6, <1>7, <1>8, <1>9 DEF Administer

LEMMA TypeStep == TypeOK /\ [Next]_vars => TypeOK'
<1> SUFFICES ASSUME TypeOK, [Next]_vars
             PROVE  TypeOK'
  OBVIOUS
<1>3. CASE UNCHANGED vars
  BY <1>3 DEF vars, TypeOK
<1> QED
  BY <1>3, ConnType, AdminType DEF Next

-----------------------------------------------------------------------------
(* The connections *)

ServingPC == {"push", "send", "sending", "loop", "beat", "more", "moresend", "moresending"}

\* What the parts of the invariant about the table read, but for one handler.
Quiet ==
  /\ sockets' = sockets /\ socketMu' = socketMu
  /\ status' = "revoked" <=> status = "revoked"
  /\ admins' = admins

\* A handler that serves its connection goes on serving it, or is about to
\* unregister it.
LEMMA ServingMoves ==
  ASSUME IInv, TypeOK', NEW c \in Conn, NEW r, conns' = [conns EXCEPT ![c] = r],
         Serving(c), r.pc \in ServingPC \cup {"unregister"}, r.wire = conns[c].wire,
         Quiet
  PROVE  IInv'
<1> USE DEF Quiet
<1>0. conns'[c] = r /\ \A d \in Conn \ {c} : conns'[d] = conns[d]
  BY DEF IInv, TypeOK
<1>1. LockHeld'
  BY <1>0 DEF IInv, LockHeld, Registering, Revoking, ServingPC
<1>2. TableFollows'
  BY <1>0 DEF IInv, TableFollows, Serving, At, ServingPC, TypeOK
<1>3. OpenServed'
  BY <1>0 DEF IInv, OpenServed, Serving, At, ServingPC
<1>4. RevokedNotRegistering' /\ RevokedIsCut'
  BY <1>0 DEF IInv, RevokedNotRegistering, RevokedIsCut, TypeOK
<1>5. CutsTheSocket'
  BY DEF IInv, CutsTheSocket, AdminAt
<1> QED
  BY <1>1, <1>2, <1>3, <1>4, <1>5 DEF IInv
LEMMA HelloStep ==
  ASSUME IInv, TypeOK', NEW c \in Conn, Hello(c)
  PROVE  IInv'
<1> USE DEF Hello
<1>0. /\ conns'[c] = [pc |-> "lock", wire |-> "open", to |-> None]
      /\ \A d \in Conn \ {c} : conns'[d] = conns[d]
      /\ sockets # c /\ At(c, "idle")
  BY DEF IInv, TypeOK, Referenced
<1>1. LockHeld'
  BY <1>0 DEF IInv, LockHeld, Registering
<1>2. TableFollows'
  BY <1>0 DEF IInv, TableFollows, Serving, At, TypeOK
<1>3. OpenServed'
  BY <1>0 DEF IInv, OpenServed, Serving, At
<1>4. RevokedNotRegistering' /\ RevokedIsCut'
  BY <1>0 DEF IInv, RevokedNotRegistering, RevokedIsCut, TypeOK
<1>5. CutsTheSocket'
  BY DEF IInv, CutsTheSocket, AdminAt
<1> QED
  BY <1>1, <1>2, <1>3, <1>4, <1>5 DEF IInv

LEMMA LockSocketsStep ==
  ASSUME IInv, TypeOK', NEW c \in Conn, LockSockets(c)
  PROVE  IInv'
<1> USE DEF LockSockets, At
<1>0. /\ conns'[c].pc = "idle" \/ conns'[c].pc = "seen"
      /\ conns'[c].pc = "seen" => socketMu' = c /\ status # "revoked"
      /\ conns'[c].pc = "idle" => socketMu' = None
      /\ \A d \in Conn \ {c} : conns'[d] = conns[d]
      /\ socketMu = None
  BY DEF IInv, TypeOK, Handler, Returns, Goto, NoConn
<1>1. LockHeld'
  BY <1>0, NoneAssumption DEF IInv, LockHeld, Registering
<1>2. TableFollows'
  BY <1>0 DEF IInv, TableFollows, Serving, TypeOK
<1>3. OpenServed'
  BY <1>0 DEF IInv, OpenServed, Serving
<1>4. RevokedNotRegistering' /\ RevokedIsCut'
  BY <1>0, NoneAssumption
  DEF IInv, RevokedNotRegistering, RevokedIsCut, TypeOK, TableFollows, Serving
<1>5. CutsTheSocket'
  BY DEF IInv, CutsTheSocket, AdminAt
<1> QED
  BY <1>1, <1>2, <1>3, <1>4, <1>5 DEF IInv

LEMMA SeenStep ==
  ASSUME IInv, TypeOK', NEW c \in Conn, Seen(c)
  PROVE  IInv'
<1> USE DEF Seen, At
<1>0. /\ conns'[c].pc = "idle" \/ conns'[c].pc = "register"
      /\ conns'[c].pc = "register" => socketMu' = c
      /\ conns'[c].pc = "idle" => socketMu' = None
      /\ \A d \in Conn \ {c} : conns'[d] = conns[d]
      /\ socketMu = c
      /\ status' # "revoked" /\ status # "revoked"
  <2>1. socketMu = c /\ status # "revoked"
    BY DEF IInv, LockHeld, Registering, RevokedNotRegistering
  <2> QED
    BY <2>1 DEF IInv, TypeOK, Handler, Returns, Goto, NoConn, Mark
<1>1. LockHeld'
  BY <1>0, NoneAssumption, ActorAssumption DEF IInv, LockHeld, Registering
<1>2. TableFollows'
  BY <1>0 DEF IInv, TableFollows, Serving, TypeOK
<1>3. OpenServed'
  BY <1>0 DEF IInv, OpenServed, Serving
<1>4. RevokedNotRegistering' /\ RevokedIsCut'
  BY <1>0 DEF RevokedNotRegistering, RevokedIsCut
<1>5. CutsTheSocket'
  BY DEF IInv, CutsTheSocket, AdminAt
<1> QED
  BY <1>1, <1>2, <1>3, <1>4, <1>5 DEF IInv

\* While one handler is registering nobody else is, nor is the node being
\* revoked.
LEMMA RegisteringAlone ==
  ASSUME IInv, NEW c \in Conn, Registering(c)
  PROVE  /\ socketMu = c /\ status # "revoked"
         /\ \A d \in Conn \ {c} : ~Registering(d)
         /\ \A a \in Admin : ~Revoking(admins[a])
BY ActorAssumption DEF IInv, LockHeld, RevokedNotRegistering

LEMMA RegisterSocketStep ==
  ASSUME IInv, TypeOK', NEW c \in Conn, RegisterSocket(c)
  PROVE  IInv'
<1> USE DEF RegisterSocket, At
<1>0. /\ socketMu = c /\ status # "revoked"
      /\ \A d \in Conn \ {c} : ~Registering(d)
      /\ \A a \in Admin : ~Revoking(admins[a])
  BY RegisteringAlone DEF Registering
<1>1. /\ sockets = None =>
           conns'[c].pc = "push" /\ conns'[c].wire = conns[c].wire /\ socketMu' = None
      /\ sockets # None =>
           /\ conns'[c].pc = "replace" /\ conns'[c].wire = conns[c].wire
           /\ conns'[c].to = sockets /\ socketMu' = c
      /\ \A d \in Conn \ {c} : conns'[d] = conns[d]
  BY <1>0 DEF IInv, TypeOK, Handler, Goto
<1>2. LockHeld'
  BY <1>0, <1>1 DEF LockHeld, Registering
<1>3. TableFollows'
  BY <1>0, <1>1 DEF TableFollows, Serving, Registering
<1>4. OpenServed'
  BY <1>0, <1>1, NoneAssumption DEF IInv, OpenServed, Serving, Registering
<1>5. RevokedNotRegistering' /\ RevokedIsCut'
  BY <1>0 DEF RevokedNotRegistering, RevokedIsCut
<1>6. CutsTheSocket'
  BY <1>0 DEF IInv, CutsTheSocket, AdminAt, Revoking
<1> QED
  BY <1>2, <1>3, <1>4, <1>5, <1>6 DEF IInv

LEMMA CloseReplacedStep ==
  ASSUME IInv, TypeOK', NEW c \in Conn, CloseReplaced(c)
  PROVE  IInv'
<1> USE DEF At
<1>0. /\ socketMu = c /\ status # "revoked" /\ sockets = c
      /\ \A d \in Conn \ {c} : ~Registering(d)
      /\ \A a \in Admin : ~Revoking(admins[a])
  BY RegisteringAlone DEF CloseReplaced, Registering, IInv, TableFollows
<1>1. /\ conns'[c].pc = "push"
      /\ \A d \in Conn \ {c} : conns'[d].pc = conns[d].pc /\ conns'[d].to = conns[d].to
      /\ \A d \in Conn \ {c} : conns'[d].wire = IF d = conns[c].to THEN "closed" ELSE conns[d].wire
  <2> DEFINE closed == [conns EXCEPT ![conns[c].to].wire = "closed"]
  <2>1. /\ closed \in [Conn -> Handler]
        /\ \A d \in Conn : /\ closed[d].pc = conns[d].pc /\ closed[d].to = conns[d].to
                           /\ closed[d].wire = IF d = conns[c].to THEN "closed" ELSE conns[d].wire
    BY ClosedConn DEF IInv
  <2>2. conns' = [closed EXCEPT ![c].pc = "push", ![c].to = None]
    BY DEF CloseReplaced
  <2> HIDE DEF closed
  <2>3. conns'[c].pc = "push" /\ \A d \in Conn \ {c} : conns'[d] = closed[d]
    BY <2>1, <2>2 DEF Handler
  <2> QED
    BY <2>1, <2>3
<1>2. LockHeld'
  BY <1>0, <1>1 DEF CloseReplaced, LockHeld, Registering
<1>3. TableFollows'
  BY ZenonT(60), <1>0, <1>1 DEF CloseReplaced, TableFollows, Serving, Registering
<1>4. OpenServed'
  <2> SUFFICES ASSUME NEW e \in Conn, Serving(e)', conns'[e].wire = "open"
               PROVE  sockets' = e
    BY DEF OpenServed
  <2>1. sockets' = c
    BY <1>0 DEF CloseReplaced
  <2>2. ASSUME e # c
        PROVE  FALSE
    <3>1. Serving(e) /\ conns[e].wire = "open" /\ e # conns[c].to
      BY <1>1, <2>2 DEF Serving
    <3>2. PICK d \in Conn : At(d, "replace") /\ conns[d].to = e
      BY <1>0, <2>2, <3>1 DEF IInv, OpenServed
    <3> QED
      BY <1>0, <3>1, <3>2 DEF Registering
  <2> QED
    BY <2>1, <2>2
<1>5. RevokedNotRegistering' /\ RevokedIsCut'
  BY <1>0 DEF CloseReplaced, RevokedNotRegistering, RevokedIsCut
<1>6. CutsTheSocket'
  BY <1>0 DEF CloseReplaced, IInv, CutsTheSocket, AdminAt, Revoking
<1> QED
  BY <1>2, <1>3, <1>4, <1>5, <1>6 DEF IInv

LEMMA UnregisterSocketStep ==
  ASSUME IInv, TypeOK', NEW c \in Conn, UnregisterSocket(c)
  PROVE  IInv'
<1> USE DEF UnregisterSocket, At
<1>0. /\ conns'[c].pc \in {"idle", "offline"}
      /\ \A d \in Conn \ {c} : conns'[d] = conns[d]
      /\ sockets' = IF sockets = c THEN None ELSE sockets
  BY DEF IInv, TypeOK, Handler, Returns, Goto, NoConn
<1>1. LockHeld'
  BY <1>0 DEF IInv, LockHeld, Registering
<1>2. TableFollows'
  BY <1>0 DEF IInv, TableFollows, Serving, TypeOK
<1>3. OpenServed'
  BY <1>0 DEF IInv, OpenServed, Serving
<1>4. RevokedNotRegistering' /\ RevokedIsCut'
  BY <1>0 DEF IInv, RevokedNotRegistering, RevokedIsCut, TypeOK
<1>5. CutsTheSocket'
  BY <1>0 DEF IInv, CutsTheSocket, AdminAt
<1> QED
  BY <1>1, <1>2, <1>3, <1>4, <1>5 DEF IInv

LEMMA MarkNodeOfflineStep ==
  ASSUME IInv, TypeOK', NEW c \in Conn, MarkNodeOffline(c)
  PROVE  IInv'
<1> USE DEF MarkNodeOffline, At
<1>0. /\ conns'[c].pc = "idle"
      /\ \A d \in Conn \ {c} : conns'[d] = conns[d]
      /\ status' = "revoked" <=> status = "revoked"
  BY DEF IInv, TypeOK, Returns, NoConn, Mark
<1>1. LockHeld'
  BY <1>0 DEF IInv, LockHeld, Registering
<1>2. TableFollows'
  BY <1>0 DEF IInv, TableFollows, Serving, TypeOK
<1>3. OpenServed'
  BY <1>0 DEF IInv, OpenServed, Serving
<1>4. RevokedNotRegistering' /\ RevokedIsCut'
  BY <1>0 DEF IInv, RevokedNotRegistering, RevokedIsCut, TypeOK, TableFollows, Serving
<1>5. CutsTheSocket'
  BY DEF IInv, CutsTheSocket, AdminAt
<1> QED
  BY <1>1, <1>2, <1>3, <1>4, <1>5 DEF IInv

LEMMA PeerLeavesStep ==
  ASSUME IInv, TypeOK', NEW c \in Conn, PeerLeaves(c)
  PROVE  IInv'
<1> USE DEF PeerLeaves, At
<1>0. /\ \A d \in Conn : conns'[d].pc = conns[d].pc /\ conns'[d].to = conns[d].to
      /\ \A d \in Conn : conns'[d].wire = "open" => conns[d].wire = "open"
  BY DEF IInv, TypeOK, Handler
<1>1. LockHeld'
  BY <1>0 DEF IInv, LockHeld, Registering
<1>2. TableFollows'
  BY <1>0 DEF IInv, TableFollows, Serving, TypeOK
<1>3. OpenServed'
  BY <1>0 DEF IInv, OpenServed, Serving
<1>4. RevokedNotRegistering' /\ RevokedIsCut'
  BY <1>0 DEF IInv, RevokedNotRegistering, RevokedIsCut, TypeOK
<1>5. CutsTheSocket'
  BY DEF IInv, CutsTheSocket, AdminAt
<1> QED
  BY <1>1, <1>2, <1>3, <1>4, <1>5 DEF IInv
-----------------------------------------------------------------------------
(* The admin handlers *)

\* An admin handler goes on: it does not take nodeSocketMu, nor is it
\* about to close a socket.
LEMMA AdminMoves ==
  ASSUME IInv, TypeOK', NEW a \in Admin, NEW j, admins' = [admins EXCEPT ![a] = j],
         Revoking(j) => Revoking(admins[a]), j.pc # "cutting",
         UNCHANGED <<status, sockets, socketMu, conns>>
  PROVE  IInv'
<1>0. admins'[a] = j /\ \A b \in Admin \ {a} : admins'[b] = admins[b]
  BY DEF IInv, TypeOK
<1>1. LockHeld'
  BY <1>0 DEF IInv, LockHeld, Registering
<1>2. TableFollows' /\ OpenServed'
  BY DEF IInv, TableFollows, OpenServed, Serving, At
<1>3. RevokedNotRegistering' /\ RevokedIsCut'
  BY DEF IInv, RevokedNotRegistering, RevokedIsCut
<1>4. CutsTheSocket'
  BY <1>0 DEF IInv, CutsTheSocket, AdminAt
<1> QED
  BY <1>1, <1>2, <1>3, <1>4 DEF IInv

LEMMA AdminStep ==
  ASSUME IInv, TypeOK', NEW a \in Admin,
         Change(a) \/ BumpRevision(a) \/ AdminLookup(a) \/ AdminLockWrite(a) \/ AdminWrite(a)
  PROVE  IInv'
<1>0. admins[a] \in AdminJob
  BY DEF IInv, TypeOK
<1>1. CASE Change(a)
  <2> DEFINE j == [NoJob EXCEPT !.pc = "push"]
  <2>1. UNCHANGED <<status, sockets, socketMu, conns>>
    BY <1>1 DEF Change
  <2>2. CASE admins' = [admins EXCEPT ![a] = j]
    <3>1. j.pc = "push" /\ ~j.revokes
      BY <1>0 DEF AdminJob, NoJob, AfterPush
    <3>2. (Revoking(j) => Revoking(admins[a])) /\ j.pc # "cutting"
      BY <1>1, <3>1 DEF Change, Revoking, AdminAt
    <3> HIDE DEF j
    <3> QED
      BY <2>1, <2>2, <3>2, AdminMoves
  <2> QED
    BY <1>1, <2>2 DEF Change
<1>2. CASE BumpRevision(a)
  <2> DEFINE j1 == [admins[a] EXCEPT !.pc = "push"]
             j2 == [admins[a] EXCEPT !.pc = "cut", !.revokes = FALSE]
  <2>1. UNCHANGED <<status, sockets, socketMu, conns>>
    BY <1>2 DEF BumpRevision
  <2>2. CASE admins' = [admins EXCEPT ![a] = j1]
    <3>1. j1.pc = "push" /\ j1.revokes = admins[a].revokes
      BY <1>0 DEF AdminJob, NoJob, AfterPush
    <3>2. (Revoking(j1) => Revoking(admins[a])) /\ j1.pc # "cutting"
      BY <1>2, <3>1 DEF BumpRevision, Revoking, AdminAt
    <3> HIDE DEF j1
    <3> QED
      BY <2>1, <2>2, <3>2, AdminMoves
  <2>3. CASE admins' = [admins EXCEPT ![a] = j2]
    <3>1. j2.pc = "cut"
      BY <1>0 DEF AdminJob, NoJob, AfterPush
    <3>2. (Revoking(j2) => Revoking(admins[a])) /\ j2.pc # "cutting"
      BY <1>2, <3>1 DEF BumpRevision, Revoking, AdminAt
    <3> HIDE DEF j2
    <3> QED
      BY <2>1, <2>3, <3>2, AdminMoves
  <2> QED
    BY <1>2, <2>2, <2>3 DEF BumpRevision, AdminGoto
<1>3. CASE AdminLookup(a)
  <2> DEFINE j1 == [admins[a] EXCEPT !.pc = "send", !.to = sockets]
             j2 == [admins[a] EXCEPT !.pc = AfterPush(a)]
  <2>1. UNCHANGED <<status, sockets, socketMu, conns>>
    BY <1>3 DEF AdminLookup
  <2>2. CASE admins' = [admins EXCEPT ![a] = j1]
    <3>1. j1.pc = "send" /\ j1.revokes = admins[a].revokes
      BY <1>0 DEF AdminJob, NoJob, AfterPush
    <3>2. (Revoking(j1) => Revoking(admins[a])) /\ j1.pc # "cutting"
      BY <1>3, <3>1 DEF AdminLookup, Revoking, AdminAt
    <3> HIDE DEF j1
    <3> QED
      BY <2>1, <2>2, <3>2, AdminMoves
  <2>3. CASE admins' = [admins EXCEPT ![a] = j2]
    <3>1. /\ j2.pc = AfterPush(a) /\ j2.revokes = admins[a].revokes
          /\ AfterPush(a) = (IF admins[a].revokes THEN "cut" ELSE "idle")
      BY <1>0 DEF AdminJob, NoJob, AfterPush
    <3>2. (Revoking(j2) => Revoking(admins[a])) /\ j2.pc # "cutting"
      BY <1>3, <3>1 DEF AdminLookup, Revoking, AdminAt
    <3> HIDE DEF j2
    <3> QED
      BY <2>1, <2>3, <3>2, AdminMoves
  <2> QED
    BY <1>3, <2>2, <2>3 DEF AdminLookup, AdminGoto
<1>4. CASE AdminLockWrite(a)
  <2> DEFINE j == [admins[a] EXCEPT !.pc = "sending"]
  <2>1. UNCHANGED <<status, sockets, socketMu, conns>>
    BY <1>4 DEF AdminLockWrite
  <2>2. CASE admins' = [admins EXCEPT ![a] = j]
    <3>1. j.pc = "sending" /\ j.revokes = admins[a].revokes
      BY <1>0 DEF AdminJob, NoJob, AfterPush
    <3>2. (Revoking(j) => Revoking(admins[a])) /\ j.pc # "cutting"
      BY <1>4, <3>1 DEF AdminLockWrite, Revoking, AdminAt
    <3> HIDE DEF j
    <3> QED
      BY <2>1, <2>2, <3>2, AdminMoves
  <2> QED
    BY <1>4, <2>2 DEF AdminLockWrite, AdminGoto
<1>5. CASE AdminWrite(a)
  <2> DEFINE j == [admins[a] EXCEPT !.pc = AfterPush(a), !.to = None]
  <2>1. UNCHANGED <<status, sockets, socketMu, conns>>
    BY <1>5 DEF AdminWrite
  <2>2. CASE admins' = [admins EXCEPT ![a] = j]
    <3>1. /\ j.pc = AfterPush(a) /\ j.revokes = admins[a].revokes
          /\ AfterPush(a) = (IF admins[a].revokes THEN "cut" ELSE "idle")
      BY <1>0 DEF AdminJob, NoJob, AfterPush
    <3>2. (Revoking(j) => Revoking(admins[a])) /\ j.pc # "cutting"
      BY <1>5, <3>1 DEF AdminWrite, Revoking, AdminAt
    <3> HIDE DEF j
    <3> QED
      BY <2>1, <2>2, <3>2, AdminMoves
  <2> QED
    BY <1>5, <2>2 DEF AdminWrite
<1> QED
  BY <1>1, <1>2, <1>3, <1>4, <1>5

\* nodeSocketMu was free: no connection is being registered.
LEMMA RevokeStep ==
  ASSUME IInv, TypeOK', NEW a \in Admin, Revoke(a)
  PROVE  IInv'
<1> USE DEF Revoke
<1> DEFINE j == [NoJob EXCEPT !.pc = "bump", !.revokes = TRUE]
<1>0. j.pc = "bump"
  BY DEF NoJob
<1>1. admins'[a] = j /\ \A b \in Admin \ {a} : admins'[b] = admins[b]
  BY DEF IInv, TypeOK
<1> HIDE DEF j
<1>2. LockHeld'
  BY <1>1, NoneAssumption DEF IInv, LockHeld, Registering
<1>3. TableFollows' /\ OpenServed'
  BY DEF IInv, TableFollows, OpenServed, Serving, At
<1>4. RevokedNotRegistering' /\ RevokedIsCut'
  BY NoneAssumption, ActorAssumption DEF RevokedNotRegistering, RevokedIsCut
<1>5. CutsTheSocket'
  BY <1>0, <1>1 DEF IInv, CutsTheSocket, AdminAt
<1> QED
  BY <1>2, <1>3, <1>4, <1>5 DEF IInv

LEMMA CutLookupStep ==
  ASSUME IInv, TypeOK', NEW a \in Admin, CutLookup(a)
  PROVE  IInv'
<1> USE DEF CutLookup, AdminAt
<1>0. /\ admins'[a].pc = "cutting" /\ admins'[a].to = sockets
      /\ \A b \in Admin \ {a} : admins'[b] = admins[b]
  BY DEF IInv, TypeOK, AdminJob
<1>1. LockHeld'
  BY <1>0 DEF IInv, LockHeld, Registering, Revoking
<1>2. TableFollows' /\ OpenServed'
  BY DEF IInv, TableFollows, OpenServed, Serving, At
<1>3. RevokedNotRegistering' /\ RevokedIsCut'
  BY DEF IInv, RevokedNotRegistering, RevokedIsCut
<1>4. CutsTheSocket'
  BY <1>0 DEF IInv, CutsTheSocket
<1> QED
  BY <1>1, <1>2, <1>3, <1>4 DEF IInv

LEMMA CutStep ==
  ASSUME IInv, TypeOK', NEW a \in Admin, Cut(a)
  PROVE  IInv'
<1> DEFINE c == admins[a].to
<1>0. /\ socketMu = a /\ (sockets = None \/ sockets = c)
      /\ \A d \in Conn : ~Registering(d)
      /\ \A b \in Admin \ {a} : ~Revoking(admins[b])
  BY ActorAssumption DEF Cut, AdminAt, IInv, LockHeld, Revoking, CutsTheSocket
<1>1. /\ \A d \in Conn : conns'[d].pc = conns[d].pc /\ conns'[d].to = conns[d].to
      /\ \A d \in Conn : conns'[d].wire = IF d = c THEN "closed" ELSE conns[d].wire
  BY ClosedConn, NoneAssumption DEF Cut, IInv
<1>2. /\ ~Revoking(admins'[a]) /\ admins'[a].pc # "cutting"
      /\ \A b \in Admin \ {a} : admins'[b] = admins[b]
  BY DEF Cut, IInv, TypeOK, NoJob, Revoking
<1>3. /\ socketMu' = None
      /\ UNCHANGED <<status, sockets>>
  BY DEF Cut
<1> HIDE DEF c
<1>4. LockHeld'
  BY <1>0, <1>1, <1>2 DEF LockHeld, Registering
<1>5. TableFollows' /\ OpenServed'
  BY <1>1, <1>3 DEF IInv, TableFollows, OpenServed, Serving, At, TypeOK
<1>6. RevokedNotRegistering' /\ RevokedIsCut'
  BY <1>0, <1>1, <1>3, NoneAssumption DEF IInv, RevokedNotRegistering, RevokedIsCut, TypeOK
<1>7. CutsTheSocket'
  BY <1>2, <1>3
  DEF IInv, CutsTheSocket, AdminAt, TypeOK
<1> QED
  BY <1>4, <1>5, <1>6, <1>7 DEF IInv

-----------------------------------------------------------------------------
LEMMA ServingStep ==
  ASSUME IInv, TypeOK', NEW c \in Conn,
         Lookup(c) \/ LockWrite(c) \/ Write(c) \/ Heartbeat(c) \/ ReadFails(c)
           \/ ReadHeartbeat(c) \/ ReadPullConfig(c)
  PROVE  IInv'
<1> USE DEF At
<1>1. Serving(c)
  BY DEF Serving, Lookup, LockWrite, Write, Heartbeat, ReadFails, ReadHeartbeat, ReadPullConfig
<1>2. Quiet
  BY DEF Quiet, Lookup, LockWrite, Write, Written, Heartbeat, ReadFails, ReadHeartbeat,
         ReadPullConfig, Mark, IInv, TypeOK
<1>3. PICK r : /\ conns' = [conns EXCEPT ![c] = r]
               /\ r.pc \in ServingPC \cup {"unregister"} /\ r.wire = conns[c].wire
  <2>1. conns[c] \in Handler
    BY DEF IInv, TypeOK
  <2>2. CASE \E pc \in ServingPC \cup {"unregister"} : Goto(c, pc)
    <3>1. PICK pc \in ServingPC \cup {"unregister"} : Goto(c, pc)
      BY <2>2
    <3>2. LET r == [conns[c] EXCEPT !.pc = pc]
          IN  r.pc = pc /\ r.wire = conns[c].wire
      BY <2>1 DEF Handler
    <3> QED
      BY <3>1, <3>2 DEF Goto
  <2>3. CASE Lookup(c)
    <3>1. PICK pc \in {"send", "moresend", "unregister", "loop"} :
                 conns' = [conns EXCEPT ![c] = [conns[c] EXCEPT !.to = sockets, !.pc = pc]]
      BY <2>3 DEF Lookup
    <3>2. LET r == [conns[c] EXCEPT !.to = sockets, !.pc = pc]
          IN  r.pc = pc /\ r.wire = conns[c].wire
      BY <2>1 DEF Handler
    <3> QED
      BY <3>1, <3>2 DEF ServingPC
  <2>4. CASE Write(c)
    <3>1. PICK pc \in {"loop", "more", "unregister"} :
                 conns' = [conns EXCEPT ![c] = [conns[c] EXCEPT !.pc = pc, !.to = None]]
      BY <2>4 DEF Write, Written
    <3>2. LET r == [conns[c] EXCEPT !.pc = pc, !.to = None]
          IN  r.pc = pc /\ r.wire = conns[c].wire
      BY <2>1 DEF Handler
    <3> QED
      BY <3>1, <3>2 DEF ServingPC
  <2>5. LockWrite(c) \/ Heartbeat(c) \/ ReadFails(c) \/ ReadHeartbeat(c) \/ ReadPullConfig(c)
          => \E pc \in ServingPC \cup {"unregister"} : Goto(c, pc)
    BY DEF ServingPC, LockWrite, Heartbeat, ReadFails, ReadHeartbeat, ReadPullConfig
  <2> QED
    BY <2>2, <2>3, <2>4, <2>5
<1> QED
  BY <1>1, <1>2, <1>3, ServingMoves

LEMMA InvariantStep == IInv /\ [Next]_vars => IInv'
<1> SUFFICES ASSUME IInv, [Next]_vars
             PROVE  IInv'
  OBVIOUS
<1>0. TypeOK'
  BY TypeStep DEF IInv
<1>1. ASSUME NEW c \in Conn,
             Hello(c) \/ Handle(c) \/ PeerLeaves(c) \/ ReadHeartbeat(c) \/ ReadPullConfig(c)
      PROVE  IInv'
  BY <1>0, <1>1, HelloStep, LockSocketsStep, SeenStep, RegisterSocketStep, CloseReplacedStep,
     UnregisterSocketStep, MarkNodeOfflineStep, PeerLeavesStep, ServingStep DEF Handle
<1>2. ASSUME NEW a \in Admin, Change(a) \/ Revoke(a) \/ Administer(a)
      PROVE  IInv'
  BY <1>0, <1>2, AdminStep, RevokeStep, CutLookupStep, CutStep DEF Administer
<1>3. CASE UNCHANGED vars
  BY <1>0, <1>3
  DEF vars, IInv, LockHeld, TableFollows, OpenServed, RevokedNotRegistering, RevokedIsCut,
      CutsTheSocket, Registering, Serving, At, AdminAt
<1> QED
  BY <1>0, <1>1, <1>2, <1>3 DEF Next

LEMMA InvariantInitially == Init => IInv
<1> SUFFICES ASSUME Init
             PROVE  IInv
  OBVIOUS
<1>1. TypeOK
  BY BoundsAssumption DEF Init, TypeOK, NoConn, NoJob, Handler, AdminJob
<1> QED
  BY <1>1
  DEF Init, IInv, LockHeld, TableFollows, OpenServed, RevokedNotRegistering, RevokedIsCut,
      CutsTheSocket, Registering, Revoking, Serving, At, AdminAt, NoConn, NoJob

\* Every reachable state of the hub and its handlers satisfies the inductive
\* invariant.
THEOREM Invariance == Spec => []IInv
BY InvariantInitially, InvariantStep, PTL DEF Spec

\* Whatever handlers of a node register, replace and unregister at the same
\* time, when nodeSocketMu is free no connection but the one in the hub's table
\* is open and served.
THEOREM HubHasTheConnection == Spec => []OneControlConnection
<1>1. IInv => OneControlConnection
  BY NoneAssumption DEF IInv, OneControlConnection, OpenServed, LockHeld, Registering, At
<1> QED
  BY <1>1, Invariance, PTL

\* handleRevokeNode leaves a revoked node no open connection in the table,
\* whatever hello was on its way and whichever of its own steps failed.
THEOREM RevocationCuts == Spec => []RevokedIsCut
<1>1. IInv => RevokedIsCut
  BY DEF IInv
<1> QED
  BY <1>1, Invariance, PTL

=============================================================================
