------------------------- MODULE ConfigDistribution -------------------------
(***************************************************************************)
(* How a configuration travels from the controller's database to the       *)
(* relay of one node: the admin handlers that commit a change and push,    *)
(* compileConfigWithLease with its separate database reads, the control    *)
(* WebSocket, the node agent's applySignedConfig, its cache file and       *)
(* bootstrapConfig after a restart.                                        *)
(*                                                                         *)
(* The tables a configuration is compiled from are abstracted to a counter *)
(* each: the number of changes committed to it.  "nodes" counts changes of *)
(* the set of active peers, "revoked" tells whether this node itself is.   *)
(***************************************************************************)
EXTENDS Naturals, Sequences, FiniteSets

CONSTANTS
  Admin,       \* concurrent admin API requests
  MaxRev,      \* bound on the configuration revision
  MaxFaults    \* bound on crashes, lost connections and failed operations

ASSUME BoundsAssumption == MaxRev \in Nat /\ MaxFaults \in Nat

\* The goroutines of the controller that compile a configuration for the node:
\* admin handlers, the handler of its WebSocket, the handler of its HTTP pull.
Handler == Admin \cup {"ws", "http"}

VARIABLES
  store,       \* the database: tables and config_revision
  job,         \* what each handler is doing, and what it has read so far
  socketMu,    \* the admin handler that holds nodeSocketMu, or "free"
  conn,        \* the node's control socket in the hub
  queue,       \* configurations written to the socket and not yet read
  node,        \* the agent: its phase and currentRevision
  relay,       \* relay.Service: its revision, its configuration, running or not
  cache,       \* the cache file
  faults       \* faults so far

vars == <<store, job, socketMu, conn, queue, node, relay, cache, faults>>

Tables == [nodes : 0 .. MaxRev, tunnels : 0 .. MaxRev, forwards : 0 .. MaxRev,
           revoked : BOOLEAN]

\* scopeConfigForNodeWithActiveNodes: a node that is not active has no routes.
Empty == [nodes |-> 0, tunnels |-> 0, forwards |-> 0, revoked |-> TRUE]
Scope(t) == IF t.revoked THEN Empty ELSE t

Nothing == [nodes |-> 0, tunnels |-> 0, forwards |-> 0, revoked |-> FALSE]

Config == [rev : 0 .. MaxRev, content : Tables]

NoConfig == [rev |-> 0, content |-> Empty]

\* relay.New
NoRelay == [rev |-> 0, cfg |-> Empty, on |-> FALSE]

\* What the node listens for.
Served == IF relay.on THEN relay.cfg ELSE Empty

Idle == [pc |-> "idle", kind |-> "push", snap |-> Nothing, rev |-> 0]

StepName == {"idle", "bump", "push", "nodes", "tunnels", "forwards", "rev",
             "send", "close"}

\* What a handler is for: a push, the revocation of a peer or of this node, a
\* revocation of this node whose BumpRevision failed.
Kind == {"push", "peer", "self", "failed"}

TypeOK ==
  /\ store \in [tables : Tables, rev : 0 .. MaxRev]
  /\ job \in [Handler -> [pc : StepName, kind : Kind, snap : Tables, rev : 0 .. MaxRev]]
  /\ socketMu \in Admin \cup {"free"}
  /\ conn \in {"down", "up", "closing"}
  /\ queue \in Seq(Config)
  /\ node \in [phase : {"down", "pulling", "caching", "up"}, cur : 0 .. MaxRev]
  /\ relay \in [rev : 0 .. MaxRev, cfg : Tables, on : BOOLEAN]
  /\ cache \in Config
  /\ faults \in 0 .. MaxFaults

Init ==
  /\ store = [tables |-> Nothing, rev |-> 1]
  /\ job = [h \in Handler |-> Idle]
  /\ socketMu = "free"
  /\ conn = "down"
  /\ queue = <<>>
  /\ node = [phase |-> "down", cur |-> 0]
  /\ relay = NoRelay
  /\ cache = NoConfig
  /\ faults = 0

Goto(h, step) == job' = [job EXCEPT ![h].pc = step]

Fault == faults < MaxFaults /\ faults' = faults + 1

\* The bound on revisions leaves room for the revocations under way.
RevisionLeft == store.rev + Cardinality({h \in Admin : job[h].pc = "bump"}) < MaxRev

-----------------------------------------------------------------------------
(* Admin handlers *)

\* Save, delete, enable or disable a tunnel or a forward: the change and the
\* new revision are one transaction; pushConfigs follows.
AdminWrite(h, tabs) ==
  /\ job[h].pc = "idle"
  /\ RevisionLeft
  /\ store' = [tables |-> [store.tables EXCEPT
                 !.tunnels  = IF "tunnels" \in tabs THEN @ + 1 ELSE @,
                 !.forwards = IF "forwards" \in tabs THEN @ + 1 ELSE @],
               rev |-> store.rev + 1]
  /\ job' = [job EXCEPT ![h] = [Idle EXCEPT !.pc = "push"]]
  /\ UNCHANGED <<socketMu, conn, queue, node, relay, cache, faults>>

\* handleRevokeNode for a peer: it takes nodeSocketMu and marks the row, the
\* revision follows in a transaction of its own.
RevokePeer(h) ==
  /\ job[h].pc = "idle"
  /\ socketMu = "free"
  /\ RevisionLeft
  /\ store.tables.nodes < MaxRev
  /\ socketMu' = h
  /\ store' = [store EXCEPT !.tables.nodes = @ + 1]
  /\ job' = [job EXCEPT ![h] = [Idle EXCEPT !.pc = "bump", !.kind = "peer"]]
  /\ UNCHANGED <<conn, queue, node, relay, cache, faults>>

\* handleRevokeNode for this node.
RevokeSelf(h) ==
  /\ job[h].pc = "idle"
  /\ socketMu = "free"
  /\ RevisionLeft
  /\ ~store.tables.revoked
  /\ socketMu' = h
  /\ store' = [store EXCEPT !.tables.revoked = TRUE]
  /\ job' = [job EXCEPT ![h] = [Idle EXCEPT !.pc = "bump", !.kind = "self"]]
  /\ UNCHANGED <<conn, queue, node, relay, cache, faults>>

\* BumpRevision.  A revoked peer's own socket is not modelled: its mutex
\* section ends here, and pushConfigs to the others follows.
Bump(h) ==
  /\ job[h].pc = "bump"
  /\ store' = [store EXCEPT !.rev = @ + 1]
  /\ IF job[h].kind = "self"
     THEN Goto(h, "nodes") /\ UNCHANGED socketMu
     ELSE Goto(h, "push") /\ socketMu' = "free"
  /\ UNCHANGED <<conn, queue, node, relay, cache, faults>>

\* BumpRevision returns an error (a cancelled request, a busy database): the
\* handler skips the push, still closes the socket and reports the error.
BumpFails(h) ==
  /\ job[h].pc = "bump"
  /\ Fault
  /\ IF job[h].kind = "self"
     THEN /\ job' = [job EXCEPT ![h].pc = "close", ![h].kind = "failed"]
          /\ UNCHANGED socketMu
     ELSE job' = [job EXCEPT ![h] = Idle] /\ socketMu' = "free"
  /\ UNCHANGED <<store, conn, queue, node, relay, cache>>

-----------------------------------------------------------------------------
(* pushConfig and compileConfigWithLease *)

\* pushConfigs walks hub.NodeIDs().
PushConfigs(h) ==
  /\ job[h].pc = "push"
  /\ IF conn = "down" THEN job' = [job EXCEPT ![h] = Idle] ELSE Goto(h, "nodes")
  /\ UNCHANGED <<store, socketMu, conn, queue, node, relay, cache, faults>>

\* ListNodes
ReadNodes(h) ==
  /\ job[h].pc = "nodes"
  /\ job' = [job EXCEPT ![h].pc = "tunnels",
                        ![h].snap.nodes = store.tables.nodes,
                        ![h].snap.revoked = store.tables.revoked]
  /\ UNCHANGED <<store, socketMu, conn, queue, node, relay, cache, faults>>

\* ListTunnels
ReadTunnels(h) ==
  /\ job[h].pc = "tunnels"
  /\ job' = [job EXCEPT ![h].pc = "forwards",
                        ![h].snap.tunnels = store.tables.tunnels]
  /\ UNCHANGED <<store, socketMu, conn, queue, node, relay, cache, faults>>

\* ListForwards
ReadForwards(h) ==
  /\ job[h].pc = "forwards"
  /\ job' = [job EXCEPT ![h].pc = "rev",
                        ![h].snap.forwards = store.tables.forwards]
  /\ UNCHANGED <<store, socketMu, conn, queue, node, relay, cache, faults>>

\* CurrentRevision, read last; the configuration is scoped and signed.
ReadRevision(h) ==
  /\ job[h].pc = "rev"
  /\ job' = [job EXCEPT ![h].pc = "send", ![h].rev = store.rev,
                        ![h].snap = Scope(@)]
  /\ UNCHANGED <<store, socketMu, conn, queue, node, relay, cache, faults>>

\* hub.SendContext: one write at a time on a socket; a socket that is closing
\* or gone refuses it.
Send(h) ==
  /\ job[h].pc = "send"
  /\ h # "http"
  /\ queue' = IF conn = "up"
              THEN Append(queue, [rev |-> job[h].rev, content |-> job[h].snap])
              ELSE queue
  /\ job' = [job EXCEPT ![h] = IF @.kind = "self" THEN [@ EXCEPT !.pc = "close"]
                               ELSE Idle]
  /\ UNCHANGED <<store, socketMu, conn, node, relay, cache, faults>>

\* A slip: the revoked node's socket is left open.
CloseForgotten(h) ==
  /\ job[h].pc = "close"
  /\ job' = [job EXCEPT ![h] = IF @.kind = "failed" THEN Idle
                               ELSE [Idle EXCEPT !.pc = "push"]]
  /\ socketMu' = "free"
  /\ UNCHANGED <<store, conn, queue, node, relay, cache, faults>>

\* hub.Close and nodeSocketMu.Unlock, then pushConfigs unless the revision
\* could not be written.  What was sent before the close is still read.
CloseRevoked(h) ==
  /\ job[h].pc = "close"
  /\ conn' = IF conn = "up" THEN "closing" ELSE conn
  /\ job' = [job EXCEPT ![h] = IF @.kind = "failed" THEN Idle
                               ELSE [Idle EXCEPT !.pc = "push"]]
  /\ socketMu' = "free"
  /\ UNCHANGED <<store, queue, node, relay, cache, faults>>

-----------------------------------------------------------------------------
(* The control socket *)

\* handleNodeWS: under nodeSocketMu the row is read again before the socket is
\* registered; the handler then pushes the configuration.
Connect ==
  /\ node.phase = "up"
  /\ conn = "down"
  /\ socketMu = "free"
  /\ ~store.tables.revoked
  /\ job["ws"].pc = "idle"
  /\ conn' = "up"
  /\ queue' = <<>>
  /\ Goto("ws", "nodes")
  /\ UNCHANGED <<store, socketMu, node, relay, cache, faults>>

\* A slip: the controller reads pull_config and sends nothing.
PullIgnored ==
  /\ node.phase = "up"
  /\ conn = "up"
  /\ UNCHANGED vars

\* The agent's refresh ticker sends pull_config, the handler pushes.
PullConfig ==
  /\ node.phase = "up"
  /\ conn = "up"
  /\ queue = <<>>
  /\ job["ws"].pc = "idle"
  /\ Goto("ws", "nodes")
  /\ UNCHANGED <<store, socketMu, conn, queue, node, relay, cache, faults>>

\* The node sees the close frame after the messages before it.
CloseSeen ==
  /\ conn = "closing"
  /\ queue = <<>>
  /\ conn' = "down"
  /\ UNCHANGED <<store, job, socketMu, queue, node, relay, cache, faults>>

Disconnect ==
  /\ conn # "down"
  /\ Fault
  /\ conn' = "down"
  /\ queue' = <<>>
  /\ UNCHANGED <<store, job, socketMu, node, relay, cache>>

\* The controller process dies: handlers, mutex and sockets with it.
ControllerCrash ==
  /\ Fault
  /\ job' = [h \in Handler |-> Idle]
  /\ socketMu' = "free"
  /\ conn' = "down"
  /\ queue' = <<>>
  /\ UNCHANGED <<store, node, relay, cache>>

-----------------------------------------------------------------------------
(* applySignedConfig *)

\* A slip: any signed configuration is accepted.
AcceptsAny(cfg) == cfg.rev # 0

\* A configuration older than the current one is dropped.
Accepts(cfg) == cfg.rev >= node.cur

\* relay.Service.Apply (module RelayService): the running revision only has
\* its lease renewed, any other configuration is started.
RelayApply(cfg) ==
  IF cfg.rev # 0 /\ cfg.rev = relay.rev /\ relay.on THEN relay
  ELSE [rev |-> cfg.rev, cfg |-> cfg.content, on |-> TRUE]

\* A listen failed: the previous configuration is started again, if there is
\* one and its listeners start.
RelayRestored == {[relay EXCEPT !.on = b] : b \in {FALSE, relay.rev # 0}}

ApplyAccepted(cfg, phase) ==
  /\ Accepts(cfg)
  /\ relay' = RelayApply(cfg)
  /\ cache' = cfg
  /\ node' = [phase |-> phase, cur |-> cfg.rev]
  /\ UNCHANGED faults

ApplyStale(cfg, phase) ==
  /\ ~Accepts(cfg)
  /\ node' = [node EXCEPT !.phase = phase]
  /\ UNCHANGED <<relay, cache, faults>>

\* Apply fails: neither the cache nor the revision is written.
ApplyFails(cfg, phase) ==
  /\ Accepts(cfg)
  /\ RelayApply(cfg) # relay
  /\ Fault
  /\ relay' \in RelayRestored
  /\ node' = [node EXCEPT !.phase = phase]
  /\ UNCHANGED cache

\* saveConfig fails: it is logged, the revision is kept all the same.
ApplyUncached(cfg, phase) ==
  /\ Accepts(cfg)
  /\ Fault
  /\ relay' = RelayApply(cfg)
  /\ node' = [phase |-> phase, cur |-> cfg.rev]
  /\ UNCHANGED cache

ApplySignedConfig(cfg, phase) ==
  \/ ApplyAccepted(cfg, phase)
  \/ ApplyStale(cfg, phase)
  \/ ApplyFails(cfg, phase)
  \/ ApplyUncached(cfg, phase)

-----------------------------------------------------------------------------
(* The node agent *)

\* controlLoop reads one message.
Deliver ==
  /\ node.phase = "up"
  /\ queue # <<>>
  /\ queue' = Tail(queue)
  /\ ApplySignedConfig(Head(queue), "up")
  /\ UNCHANGED <<store, job, socketMu, conn>>

NodeCrash ==
  /\ node.phase # "down"
  /\ Fault
  /\ node' = [phase |-> "down", cur |-> 0]
  /\ relay' = NoRelay
  /\ conn' = "down"
  /\ queue' = <<>>
  /\ job' = [job EXCEPT !["http"] = Idle]
  /\ UNCHANGED <<store, socketMu, cache>>

\* bootstrapConfig asks the controller first; withNode admits only a node that
\* is not revoked.
NodeStart ==
  /\ node.phase = "down"
  /\ node' = [node EXCEPT !.phase = "pulling"]
  /\ job' = [job EXCEPT !["http"] =
               IF store.tables.revoked THEN Idle ELSE [Idle EXCEPT !.pc = "nodes"]]
  /\ UNCHANGED <<store, socketMu, conn, queue, relay, cache, faults>>

HTTPConfig ==
  /\ node.phase = "pulling"
  /\ job["http"].pc = "send"
  /\ ApplySignedConfig([rev |-> job["http"].rev, content |-> job["http"].snap],
                       "caching")
  /\ job' = [job EXCEPT !["http"] = Idle]
  /\ UNCHANGED <<store, socketMu, conn, queue>>

\* The pull was refused, or its answer is lost.
HTTPFails ==
  /\ node.phase = "pulling"
  /\ \/ job["http"].pc = "idle" /\ UNCHANGED faults
     \/ job["http"].pc # "idle" /\ Fault
  /\ node' = [node EXCEPT !.phase = "caching"]
  /\ job' = [job EXCEPT !["http"] = Idle]
  /\ UNCHANGED <<store, socketMu, conn, queue, relay, cache>>

\* bootstrapConfig ends with the cache file: only a newer revision changes
\* more than the lease.  controlLoop starts.
CachedConfig ==
  /\ node.phase = "caching"
  /\ \/ cache.rev > node.cur /\ ApplySignedConfig(cache, "up")
     \/ /\ cache.rev <= node.cur
        /\ node' = [node EXCEPT !.phase = "up"]
        /\ UNCHANGED <<relay, cache, faults>>
  /\ UNCHANGED <<store, job, socketMu, conn, queue>>

\* Leases run out only while no connection renews them (module RelayService);
\* an expired cache file is refused by verifySignedConfig.
LeaseExpires ==
  /\ conn = "down"
  /\ node.phase = "up"
  /\ relay.on
  /\ relay' = [relay EXCEPT !.on = FALSE, !.cfg = Empty]
  /\ UNCHANGED <<store, job, socketMu, conn, queue, node, cache, faults>>

CacheExpires ==
  /\ conn = "down"
  /\ cache # NoConfig
  /\ cache' = NoConfig
  /\ UNCHANGED <<store, job, socketMu, conn, queue, node, relay, faults>>

-----------------------------------------------------------------------------
Compile(h) ==
  \/ PushConfigs(h)
  \/ ReadNodes(h)
  \/ ReadTunnels(h)
  \/ ReadForwards(h)
  \/ ReadRevision(h)
  \/ Send(h)

AdminStep(h) ==
  \/ \E tabs \in SUBSET {"tunnels", "forwards"} : tabs # {} /\ AdminWrite(h, tabs)
  \/ RevokePeer(h)
  \/ RevokeSelf(h)
  \/ Bump(h)
  \/ BumpFails(h)
  \/ CloseRevoked(h)

Next ==
  \/ \E h \in Admin : AdminStep(h)
  \/ \E h \in Handler : Compile(h)
  \/ Connect \/ PullConfig \/ CloseSeen \/ Disconnect \/ ControllerCrash
  \/ Deliver \/ NodeCrash \/ NodeStart \/ HTTPConfig \/ HTTPFails \/ CachedConfig
  \/ LeaseExpires \/ CacheExpires

\* Handlers that have started finish, the agent starts, connects, refreshes and
\* reads its socket, and leases run out while nobody renews them.
Fairness ==
  /\ \A h \in Handler : WF_vars(Compile(h))
  /\ \A h \in Admin : WF_vars(Bump(h)) /\ WF_vars(CloseRevoked(h))
  /\ WF_vars(Connect) /\ WF_vars(PullConfig) /\ WF_vars(CloseSeen)
  /\ WF_vars(Deliver) /\ WF_vars(NodeStart) /\ WF_vars(HTTPConfig)
  /\ WF_vars(HTTPFails) /\ WF_vars(CachedConfig)
  /\ WF_vars(LeaseExpires) /\ WF_vars(CacheExpires)

Spec == Init /\ [][Next]_vars

FairSpec == Spec /\ Fairness

-----------------------------------------------------------------------------
(* Properties *)

\* While the agent's process lives it never goes back to an older revision,
\* whatever the order in which concurrent handlers write to its socket and
\* whatever bootstrapConfig finds in the cache; the relay follows the agent.
RunningNeverRollsBack ==
  [][node.cur # 0 /\ node'.phase # "down"
       => node'.cur >= node.cur /\ relay'.rev >= relay.rev]_vars

\* When changes and faults cease, the node runs the newest revision: pushes
\* lost, refused or never sent are made good by the next connection or by the
\* periodic pull_config.
RevisionConverges ==
  <>[](store.tables.revoked \/ (node.phase = "up" /\ node.cur = store.rev))

\* A revoked node stops forwarding for good, at the latest when its lease and
\* that of its cache run out: nothing renews them any more.
RevocationEffective == store.tables.revoked ~> [](Served = Empty)
=============================================================================
