------------------------------- MODULE NodeHub -------------------------------
(***************************************************************************)
(* The control connections of one node as the controller sees them:        *)
(* handleNodeWS from the hello to its deferred calls, the hub's table of   *)
(* sockets with their write mutexes, the node's status in the database,    *)
(* the admin handlers that push a configuration, and handleRevokeNode.     *)
(*                                                                         *)
(* A handler may hold three mutexes at a time, always in this order:       *)
(* nodeSocketMu, hub.mu (never across a blocking call, so each of its      *)
(* critical sections is one step) and the write mutex of one socket.  What *)
(* the messages contain is ConfigDistribution's and NodeUpdate's subject;  *)
(* the hub's revision, which only the long polls of Hub.Wait read, is left *)
(* out with them.                                                          *)
(***************************************************************************)
EXTENDS Naturals, FiniteSets

CONSTANTS
  Conn,         \* identities for the node's connections alive at one time
  Admin,        \* concurrent admin requests
  None,         \* no socket, nobody
  MaxFaults     \* bound on failed database operations

ASSUME NoneAssumption == None \notin Conn \cup Admin
ASSUME ActorAssumption == Conn \cap Admin = {}
ASSUME BoundsAssumption == MaxFaults \in Nat

VARIABLES
  status,    \* the node's status column; "revoked" stands for revoked = 1 too
  sockets,   \* Hub.sockets[node]
  socketMu,  \* who holds Server.nodeSocketMu
  writeMu,   \* who holds each socketConn.mu
  conns,     \* the connections and their handlers
  admins,    \* the admin handlers
  faults     \* failed database operations so far

vars == <<status, sockets, socketMu, writeMu, conns, admins, faults>>

Actor == Conn \cup Admin

\* wire: "lost" once the peer is gone, "closed" once the controller closed it.
\* to: the socket the handler is about to write to or to close.
Handler == [pc : {"idle", "lock", "seen", "register", "replace", "push", "send",
                  "sending", "loop", "beat", "more", "moresend", "moresending",
                  "unregister", "offline"},
            wire : {"open", "lost", "closed"}, to : Conn \cup {None}]

AdminJob == [pc : {"idle", "bump", "push", "send", "sending", "cut", "cutting"},
             revokes : BOOLEAN, to : Conn \cup {None}]

NoConn == [pc |-> "idle", wire |-> "closed", to |-> None]
NoJob == [pc |-> "idle", revokes |-> FALSE, to |-> None]

TypeOK ==
  /\ status \in {"offline", "online", "revoked"}
  /\ sockets \in Conn \cup {None}
  /\ socketMu \in Actor \cup {None}
  /\ writeMu \in [Conn -> Actor \cup {None}]
  /\ conns \in [Conn -> Handler]
  /\ admins \in [Admin -> AdminJob]
  /\ faults \in 0 .. MaxFaults

Init ==
  /\ status = "offline"
  /\ sockets = None
  /\ socketMu = None
  /\ writeMu = [c \in Conn |-> None]
  /\ conns = [c \in Conn |-> NoConn]
  /\ admins = [a \in Admin |-> NoJob]
  /\ faults = 0

-----------------------------------------------------------------------------
At(c, pc) == conns[c].pc = pc

Goto(c, pc) == conns' = [conns EXCEPT ![c].pc = pc]

\* The deferred closeWebSocket: not through the socketConn and its mutex.
Returns(c) == conns' = [conns EXCEPT ![c] = NoConn]

Fault == faults < MaxFaults /\ faults' = faults + 1

\* MarkNodeSeen and MarkNodeOffline leave a revoked node alone.
Mark(s) == status' = IF status = "revoked" THEN status ELSE s

\* A socket somebody still has a pointer to; its identity is not reused.
Referenced(c) ==
  \/ sockets = c \/ writeMu[c] # None
  \/ \E d \in Conn : conns[d].to = c
  \/ \E a \in Admin : admins[a].to = c

-----------------------------------------------------------------------------
(* handleNodeWS *)

\* withNode has authenticated the node, which was not revoked then, and a
\* valid hello has arrived; without one the handler returns and leaves nothing.
Hello(c) ==
  /\ At(c, "idle") /\ ~Referenced(c)
  /\ status # "revoked"
  /\ conns' = [conns EXCEPT ![c] = [pc |-> "lock", wire |-> "open", to |-> None]]
  /\ UNCHANGED <<status, sockets, socketMu, writeMu, admins, faults>>

\* Mutant: the node authenticated for the request is not read again.
LockSocketsTrusts(c) ==
  /\ At(c, "lock") /\ socketMu = None
  /\ Goto(c, "seen") /\ socketMu' = c
  /\ UNCHANGED <<status, sockets, writeMu, admins, faults>>

\* nodeSocketMu.Lock and GetNode: a node revoked meanwhile is refused.
LockSockets(c) ==
  /\ At(c, "lock") /\ socketMu = None
  /\ IF status = "revoked"
       THEN Returns(c) /\ UNCHANGED socketMu
       ELSE Goto(c, "seen") /\ socketMu' = c
  /\ UNCHANGED <<status, sockets, writeMu, admins, faults>>

\* Mutant: the return after a failed MarkNodeSeen keeps the mutex.
SeenKeepsLock(c) ==
  /\ At(c, "seen")
  /\ \/ Mark("online") /\ Goto(c, "register") /\ UNCHANGED faults
     \/ Fault /\ Returns(c) /\ UNCHANGED status
  /\ UNCHANGED <<sockets, socketMu, writeMu, admins>>

Seen(c) ==
  /\ At(c, "seen")
  /\ \/ /\ Mark("online")
        /\ Goto(c, "register")
        /\ UNCHANGED <<socketMu, faults>>
     \/ /\ Fault
        /\ Returns(c)
        /\ socketMu' = None
        /\ UNCHANGED status
  /\ UNCHANGED <<sockets, writeMu, admins>>

\* RegisterSocket, and nodeSocketMu.Unlock when there is nothing to replace.
RegisterSocket(c) ==
  /\ At(c, "register")
  /\ sockets' = c
  /\ IF sockets = None
       THEN Goto(c, "push") /\ socketMu' = None
       ELSE /\ conns' = [conns EXCEPT ![c].pc = "replace", ![c].to = sockets]
            /\ UNCHANGED socketMu
  /\ UNCHANGED <<status, writeMu, admins, faults>>

\* Mutant: the replaced socket is left open.
CloseReplacedLeaves(c) ==
  /\ At(c, "replace") /\ writeMu[conns[c].to] = None
  /\ conns' = [conns EXCEPT ![c].pc = "push", ![c].to = None]
  /\ socketMu' = None
  /\ UNCHANGED <<status, sockets, writeMu, admins, faults>>

\* old.Close waits for a write to the old socket.
CloseReplaced(c) ==
  /\ At(c, "replace") /\ writeMu[conns[c].to] = None
  /\ conns' = [conns EXCEPT ![conns[c].to].wire = "closed",
                            ![c].pc = "push", ![c].to = None]
  /\ socketMu' = None
  /\ UNCHANGED <<status, sockets, writeMu, admins, faults>>

\* SendContext looks the node's socket up: it may be another one by now, or
\* none.  The first push ends the handler when it fails, later ones do not.
Lookup(c) ==
  /\ \/ /\ At(c, "push")
        /\ conns' = [conns EXCEPT ![c].to = sockets,
                                  ![c].pc = IF sockets = None THEN "unregister" ELSE "send"]
     \/ /\ At(c, "more")
        /\ conns' = [conns EXCEPT ![c].to = sockets,
                                  ![c].pc = IF sockets = None THEN "loop" ELSE "moresend"]
  /\ UNCHANGED <<status, sockets, socketMu, writeMu, admins, faults>>

LockWrite(c) ==
  /\ \/ At(c, "send") /\ Goto(c, "sending")
     \/ At(c, "moresend") /\ Goto(c, "moresending")
  /\ writeMu[conns[c].to] = None
  /\ writeMu' = [writeMu EXCEPT ![conns[c].to] = c]
  /\ UNCHANGED <<status, sockets, socketMu, admins, faults>>

\* wsjson.Write returns within its ten seconds: it succeeds on an open
\* connection only.  After the first configuration an update may be due.
Written(c) ==
  /\ writeMu' = [writeMu EXCEPT ![conns[c].to] = None]
  /\ \E pc \in {"loop", "more", "unregister"} :
       /\ \/ pc = "loop" /\ (At(c, "sending") => conns[conns[c].to].wire = "open")
          \/ pc = "more" /\ At(c, "sending") /\ conns[conns[c].to].wire = "open"
          \/ pc = "unregister" /\ At(c, "sending") /\ conns[conns[c].to].wire # "open"
       /\ conns' = [conns EXCEPT ![c].pc = pc, ![c].to = None]
  /\ UNCHANGED <<status, sockets, socketMu, admins, faults>>

Write(c) == (At(c, "sending") \/ At(c, "moresending")) /\ Written(c)

\* A message that had arrived is read even after the peer went away, but not
\* after the controller closed the connection.
ReadHeartbeat(c) ==
  /\ At(c, "loop") /\ conns[c].wire # "closed"
  /\ Goto(c, "beat")
  /\ UNCHANGED <<status, sockets, socketMu, writeMu, admins, faults>>

ReadPullConfig(c) ==
  /\ At(c, "loop") /\ conns[c].wire # "closed"
  /\ Goto(c, "more")
  /\ UNCHANGED <<status, sockets, socketMu, writeMu, admins, faults>>

\* Mutant: only the hello marks the node as seen.
HeartbeatUnseen(c) ==
  /\ At(c, "beat")
  /\ \E pc \in {"loop", "more"} : Goto(c, pc)
  /\ UNCHANGED <<status, sockets, socketMu, writeMu, admins, faults>>

\* MarkNodeSeen, which may fail, before pushNodeUpdate.
Heartbeat(c) ==
  /\ At(c, "beat")
  /\ \/ Mark("online") /\ UNCHANGED faults
     \/ Fault /\ UNCHANGED status
  /\ \E pc \in {"loop", "more"} : Goto(c, pc)
  /\ UNCHANGED <<sockets, socketMu, writeMu, admins>>

\* A live node sends a heartbeat before the idle timeout.
ReadFails(c) ==
  /\ At(c, "loop") /\ conns[c].wire # "open"
  /\ Goto(c, "unregister")
  /\ UNCHANGED <<status, sockets, socketMu, writeMu, admins, faults>>

UnregisterSocket(c) ==
  /\ At(c, "unregister")
  /\ IF sockets = c
       THEN sockets' = None /\ Goto(c, "offline")
       ELSE Returns(c) /\ UNCHANGED sockets
  /\ UNCHANGED <<status, socketMu, writeMu, admins, faults>>

MarkNodeOffline(c) ==
  /\ At(c, "offline")
  /\ Returns(c)
  /\ \/ Mark("offline") /\ UNCHANGED faults
     \/ Fault /\ UNCHANGED status
  /\ UNCHANGED <<sockets, socketMu, writeMu, admins>>

PeerLeaves(c) ==
  /\ conns[c].wire = "open"
  /\ conns' = [conns EXCEPT ![c].wire = "lost"]
  /\ UNCHANGED <<status, sockets, socketMu, writeMu, admins, faults>>

\* The handler on its way, wherever it does not wait for the node.
Handle(c) ==
  \/ LockSockets(c) \/ Seen(c) \/ RegisterSocket(c) \/ CloseReplaced(c)
  \/ Lookup(c) \/ LockWrite(c) \/ Write(c)
  \/ Heartbeat(c) \/ ReadFails(c)
  \/ UnregisterSocket(c) \/ MarkNodeOffline(c)

-----------------------------------------------------------------------------
(* Admin handlers *)

AdminAt(a, pc) == admins[a].pc = pc

AdminGoto(a, pc) == admins' = [admins EXCEPT ![a].pc = pc]

\* A change is committed.  handleCreateNode and handleUpdateNode push whether or
\* not BumpRevision failed.
Change(a) ==
  /\ AdminAt(a, "idle")
  /\ admins' = [admins EXCEPT ![a] = [NoJob EXCEPT !.pc = "push"]]
  /\ UNCHANGED <<status, sockets, socketMu, writeMu, conns, faults>>

\* handleRevokeNode: nodeSocketMu.Lock and RevokeNode.
Revoke(a) ==
  /\ AdminAt(a, "idle") /\ socketMu = None
  /\ status # "revoked"
  /\ status' = "revoked"
  /\ socketMu' = a
  /\ admins' = [admins EXCEPT ![a] = [NoJob EXCEPT !.pc = "bump", !.revokes = TRUE]]
  /\ UNCHANGED <<sockets, writeMu, conns, faults>>

\* Mutant: a failed BumpRevision ends the handler at once.
BumpFailureReturns(a) ==
  /\ AdminAt(a, "bump")
  /\ \/ AdminGoto(a, "push") /\ UNCHANGED <<socketMu, faults>>
     \/ Fault /\ admins' = [admins EXCEPT ![a] = NoJob] /\ socketMu' = None
  /\ UNCHANGED <<status, sockets, writeMu, conns>>

\* Without a revision nothing is announced or pushed; the socket is still cut.
BumpRevision(a) ==
  /\ AdminAt(a, "bump")
  /\ \/ AdminGoto(a, "push") /\ UNCHANGED faults
     \/ Fault /\ admins' = [admins EXCEPT ![a].pc = "cut", ![a].revokes = FALSE]
  /\ UNCHANGED <<status, sockets, socketMu, writeMu, conns>>

\* pushConfigs, or pushConfig of the node being revoked; the compilation may
\* fail, and errors end this push only.
AfterPush(a) == IF admins[a].revokes THEN "cut" ELSE "idle"

AdminLookup(a) ==
  /\ AdminAt(a, "push")
  /\ \/ /\ sockets # None
        /\ admins' = [admins EXCEPT ![a].pc = "send", ![a].to = sockets]
     \/ AdminGoto(a, AfterPush(a))
  /\ UNCHANGED <<status, sockets, socketMu, writeMu, conns, faults>>

AdminLockWrite(a) ==
  /\ AdminAt(a, "send") /\ writeMu[admins[a].to] = None
  /\ writeMu' = [writeMu EXCEPT ![admins[a].to] = a]
  /\ AdminGoto(a, "sending")
  /\ UNCHANGED <<status, sockets, socketMu, conns, faults>>

AdminWrite(a) ==
  /\ AdminAt(a, "sending")
  /\ writeMu' = [writeMu EXCEPT ![admins[a].to] = None]
  /\ admins' = [admins EXCEPT ![a].pc = AfterPush(a), ![a].to = None]
  /\ UNCHANGED <<status, sockets, socketMu, conns, faults>>

\* Hub.Close: the lookup, and the close that waits for a write.
CutLookup(a) ==
  /\ AdminAt(a, "cut")
  /\ admins' = [admins EXCEPT ![a].pc = "cutting", ![a].to = sockets]
  /\ UNCHANGED <<status, sockets, socketMu, writeMu, conns, faults>>

\* The close, nodeSocketMu.Unlock, and pushConfigs unless the bump failed.
Cut(a) ==
  LET c == admins[a].to
  IN  /\ AdminAt(a, "cutting")
      /\ c # None => writeMu[c] = None
      /\ conns' = IF c = None THEN conns ELSE [conns EXCEPT ![c].wire = "closed"]
      /\ socketMu' = None
      /\ admins' = [admins EXCEPT ![a] =
           IF admins[a].revokes THEN [NoJob EXCEPT !.pc = "push"] ELSE NoJob]
      /\ UNCHANGED <<status, sockets, writeMu, faults>>

Administer(a) ==
  \/ BumpRevision(a) \/ AdminLookup(a) \/ AdminLockWrite(a) \/ AdminWrite(a)
  \/ CutLookup(a) \/ Cut(a)

-----------------------------------------------------------------------------
Next ==
  \/ \E c \in Conn : \/ Hello(c) \/ Handle(c) \/ PeerLeaves(c)
                     \/ ReadHeartbeat(c) \/ ReadPullConfig(c)
  \/ \E a \in Admin : Change(a) \/ Revoke(a) \/ Administer(a)

Spec == Init /\ [][Next]_vars

\* Handlers go on, every database call and every write ends, a mutex is handed
\* to whoever has waited long enough, and a connected node sends heartbeats.
\* (A handler has one step to take at a time; strong fairness for those that
\* wait for a mutex others keep taking.)
Fairness ==
  /\ \A c \in Conn : SF_vars(Handle(c)) /\ SF_vars(ReadHeartbeat(c))
  /\ \A a \in Admin : SF_vars(Administer(a))

FairSpec == Spec /\ Fairness

-----------------------------------------------------------------------------
(* Properties *)

\* The handler has registered its socket and has not left its loop.
Serving(c) ==
  conns[c].pc \in {"push", "send", "sending", "loop", "beat", "more", "moresend",
                   "moresending"}

\* Whatever handlers of the same node register, replace and unregister at the
\* same time, once nodeSocketMu is free the only control connection that is
\* open and served is the one in the hub's table: no push goes to one
\* connection while the node listens to another.
OneControlConnection ==
  socketMu = None =>
    \A c \in Conn : Serving(c) /\ conns[c].wire = "open" => sockets = c

\* Once handleRevokeNode has released nodeSocketMu a revoked node has no open
\* control connection in the table, even when its hello was on its way.
RevokedIsCut ==
  status = "revoked" /\ socketMu = None /\ sockets # None =>
    conns[sockets].wire # "open"

Connected == sockets # None /\ conns[sockets].wire = "open"

\* The status of a node that stays connected, by this socket or by the ones
\* that replace it, becomes "online", although the deferred MarkNodeOffline of
\* an earlier connection may come after the MarkNodeSeen of this one: its
\* heartbeats make it good.
ConnectedIsOnline ==
  Connected ~> status \in {"online", "revoked"} \/ ~Connected

\* A revocation comes to its end and takes the node's connections with it, the
\* one in the table and those being replaced, registered or written to just
\* then, and even when no revision could be announced: every handler of the
\* revoked node returns, and handleRevokeNode lets go of nodeSocketMu.
RevocationEnds ==
  status = "revoked" ~> socketMu = None /\ \A c \in Conn : At(c, "idle")

\* No handler waits for ever for nodeSocketMu or for the write mutex of a
\* socket, whoever else registers, pushes, revokes and closes.
RegistrationEnds ==
  \A c \in Conn : At(c, "lock") ~> At(c, "loop") \/ At(c, "idle")
=============================================================================
