---------------------- MODULE ConfigDistribution_proofs ----------------------
(***************************************************************************)
(* A running node never goes back to an older revision and never runs one  *)
(* the controller has not committed, for any number of admin requests,     *)
(* revisions and faults.                                                   *)
(***************************************************************************)
EXTENDS ConfigDistribution, TLAPS

Content == [nodes : Nat, tunnels : Nat, forwards : Nat, revoked : BOOLEAN]

\* The configurations and the handlers there may be when the database is at
\* revision n.
Known(n) == [rev : 0 .. n, content : Content]
JobType(n) == [pc : StepName, kind : Kind, snap : Content, rev : 0 .. n]
Phase == {"down", "pulling", "caching", "up"}

StoreTyped == store \in [tables : Content, rev : Nat]
JobTyped == job \in [Handler -> JobType(store.rev)]
QueueTyped == queue \in Seq(Known(store.rev))
NodeTyped ==
  /\ node \in [phase : Phase, cur : 0 .. store.rev]
  /\ relay \in [rev : 0 .. store.rev, cfg : Content, on : BOOLEAN]
  /\ cache \in Known(store.rev)

\* The relay and the agent agree on the revision between two messages.
InStep == relay.rev = node.cur

\* The inductive invariant: whatever is on its way to the node, or kept by it,
\* was committed.
IInv == StoreTyped /\ JobTyped /\ QueueTyped /\ NodeTyped /\ InStep

\* No node runs a revision that is not committed.
NeverAhead == node.cur <= store.rev /\ relay.rev <= store.rev

NotBack ==
  node.cur # 0 /\ node'.phase # "down" => node'.cur >= node.cur /\ relay'.rev >= relay.rev

-----------------------------------------------------------------------------
(* Records and queues *)

LEMMA TailIs ==
  ASSUME NEW S, NEW s \in Seq(S), s # <<>>
  PROVE  Head(s) \in S /\ Tail(s) \in Seq(S)
OBVIOUS

LEMMA SeqGrows ==
  ASSUME NEW S, NEW T, S \subseteq T, NEW s \in Seq(S)
  PROVE  s \in Seq(T)
OBVIOUS

\* A later revision of the database knows all that an earlier one knew.
LEMMA KnownGrows ==
  ASSUME NEW m \in Nat, NEW n \in Nat, m <= n
  PROVE  0 .. m \subseteq 0 .. n /\ Known(m) \subseteq Known(n) /\ JobType(m) \subseteq JobType(n)
<1>1. 0 .. m \subseteq 0 .. n
  OBVIOUS
<1> QED
  BY <1>1 DEF Known, JobType

LEMMA ContentIs == Empty \in Content /\ Nothing \in Content
BY DEF Empty, Nothing, Content

LEMMA IdleIs ==
  ASSUME NEW n \in Nat
  PROVE  /\ Idle \in JobType(n)
         /\ \A pc \in StepName, kind \in Kind :
              /\ [Idle EXCEPT !.pc = pc] \in JobType(n)
              /\ [Idle EXCEPT !.pc = pc, !.kind = kind] \in JobType(n)
<1>1. Idle \in JobType(n)
  <2>1. "idle" \in StepName /\ "push" \in Kind /\ 0 \in 0 .. n
    BY DEF StepName, Kind
  <2> QED
    BY <2>1, ContentIs DEF Idle, JobType
<1>2. \A j \in JobType(n), pc \in StepName, kind \in Kind :
        [j EXCEPT !.pc = pc] \in JobType(n) /\ [j EXCEPT !.pc = pc, !.kind = kind] \in JobType(n)
  BY DEF JobType
<1> QED
  BY <1>1, <1>2

LEMMA StepNames == StepName = {"idle", "bump", "push", "nodes", "tunnels", "forwards", "rev",
                              "send", "close"} /\ Kind = {"push", "peer", "self", "failed"}
BY DEF StepName, Kind

\* The invariant from its parts, the node's side unchanged.
LEMMA ControllerSide ==
  ASSUME IInv, StoreTyped', store.rev <= store'.rev, JobTyped',
         queue' \in Seq(Known(store'.rev)), UNCHANGED <<node, relay, cache>>
  PROVE  IInv' /\ NotBack
<1>1. store.rev \in Nat /\ store'.rev \in Nat
  BY DEF IInv, StoreTyped
<1>2. /\ 0 .. store.rev \subseteq 0 .. store'.rev
      /\ Known(store.rev) \subseteq Known(store'.rev)
  BY <1>1, KnownGrows
<1>3. NodeTyped'
  BY <1>2 DEF IInv, NodeTyped
<1>4. node.cur \in Nat /\ relay.rev \in Nat
  BY <1>1 DEF IInv, NodeTyped
<1> QED
  BY <1>3, <1>4 DEF IInv, QueueTyped, InStep, NotBack

\* A handler's step, with or without a commit.
LEMMA HandlerStep ==
  ASSUME IInv, StoreTyped', store.rev <= store'.rev, NEW h \in Handler,
         NEW j \in JobType(store'.rev), job' = [job EXCEPT ![h] = j],
         UNCHANGED <<queue, node, relay, cache>>
  PROVE  IInv' /\ NotBack
<1>1. store.rev \in Nat /\ store'.rev \in Nat
  BY DEF IInv, StoreTyped
<1>2. /\ JobType(store.rev) \subseteq JobType(store'.rev)
      /\ Known(store.rev) \subseteq Known(store'.rev)
  BY <1>1, KnownGrows
<1>3. job' \in [Handler -> JobType(store'.rev)]
  BY <1>2 DEF IInv, JobTyped
<1>4. queue' \in Seq(Known(store'.rev))
  BY <1>2, SeqGrows DEF IInv, QueueTyped
<1> QED
  BY <1>3, <1>4, ControllerSide DEF JobTyped

\* applySignedConfig never lowers the revision, and the relay keeps in step.
LEMMA ApplyStep ==
  ASSUME IInv, store' = store, NEW cfg \in Known(store.rev), NEW phase \in Phase,
         ApplySignedConfig(cfg, phase)
  PROVE  NodeTyped' /\ InStep' /\ NotBack
<1>1. /\ store.rev \in Nat /\ cfg.rev \in 0 .. store.rev /\ cfg.content \in Content
      /\ node \in [phase : Phase, cur : 0 .. store.rev] /\ node.cur \in 0 .. store.rev
      /\ relay \in [rev : 0 .. store.rev, cfg : Content, on : BOOLEAN]
      /\ cache \in Known(store.rev) /\ relay.rev = node.cur
  BY DEF IInv, StoreTyped, NodeTyped, Known, InStep
<1>2. /\ RelayApply(cfg) \in [rev : 0 .. store.rev, cfg : Content, on : BOOLEAN]
      /\ RelayApply(cfg).rev = cfg.rev
  BY <1>1 DEF RelayApply
<1>3. \A r \in RelayRestored : /\ r \in [rev : 0 .. store.rev, cfg : Content, on : BOOLEAN]
                               /\ r.rev = relay.rev
  BY <1>1 DEF RelayRestored
<1>4. ASSUME Accepts(cfg), relay' = RelayApply(cfg), node' = [phase |-> phase, cur |-> cfg.rev],
             cache' \in {cache, cfg}
      PROVE  NodeTyped' /\ InStep' /\ NotBack
  <2>1. node' \in [phase : Phase, cur : 0 .. store.rev] /\ node'.cur = cfg.rev
    BY <1>1, <1>4
  <2>2. cache' \in Known(store.rev)
    BY <1>1, <1>4
  <2> QED
    BY <1>1, <1>2, <1>4, <2>1, <2>2 DEF Accepts, NodeTyped, InStep, NotBack
<1>5. ASSUME node' = [node EXCEPT !.phase = phase], relay' \in {relay} \cup RelayRestored,
             cache' = cache
      PROVE  NodeTyped' /\ InStep' /\ NotBack
  <2>1. node' \in [phase : Phase, cur : 0 .. store.rev] /\ node'.cur = node.cur
    BY <1>1, <1>5
  <2>2. relay' \in [rev : 0 .. store.rev, cfg : Content, on : BOOLEAN] /\ relay'.rev = relay.rev
    BY <1>1, <1>3, <1>5
  <2> QED
    BY <1>1, <1>5, <2>1, <2>2 DEF NodeTyped, InStep, NotBack
<1> QED
  BY <1>4, <1>5 DEF ApplySignedConfig, ApplyAccepted, ApplyStale, ApplyFails, ApplyUncached

-----------------------------------------------------------------------------
(* The steps *)

\* What the admin handlers commit.
LEMMA AdminSteps ==
  ASSUME IInv, NEW h \in Admin, AdminStep(h)
  PROVE  IInv' /\ NotBack
<1>1. /\ store \in [tables : Content, rev : Nat] /\ store.tables \in Content /\ store.rev \in Nat
      /\ job \in [Handler -> JobType(store.rev)] /\ h \in Handler /\ store.rev + 1 \in Nat
      /\ job[h] \in JobType(store.rev) /\ JobType(store.rev) \subseteq JobType(store.rev + 1)
  <2>1. /\ store \in [tables : Content, rev : Nat] /\ h \in Handler
        /\ job \in [Handler -> JobType(store.rev)]
    BY DEF IInv, StoreTyped, JobTyped, Handler
  <2>2. store.tables \in Content /\ store.rev \in Nat /\ store.rev + 1 \in Nat
    BY <2>1
  <2>3. JobType(store.rev) \subseteq JobType(store.rev + 1)
    BY <2>2, KnownGrows
  <2> QED
    BY <2>1, <2>2, <2>3
<1>2. ASSUME NEW tabs, AdminWrite(h, tabs) PROVE IInv' /\ NotBack
  <2> DEFINE a == IF "tunnels" \in tabs THEN store.tables.tunnels + 1 ELSE store.tables.tunnels
             b == IF "forwards" \in tabs THEN store.tables.forwards + 1 ELSE store.tables.forwards
             t == [store.tables EXCEPT !.tunnels = a, !.forwards = b]
             j == [Idle EXCEPT !.pc = "push"]
  <2>1. t \in Content
    <3>1. a \in Nat /\ b \in Nat
      BY <1>1 DEF Content
    <3> HIDE DEF a, b
    <3> QED
      BY <1>1, <3>1 DEF Content
  <2>2. store' = [tables |-> t, rev |-> store.rev + 1]
    BY <1>2 DEF AdminWrite
  <2> HIDE DEF t
  <2>3. store'.rev = store.rev + 1 /\ StoreTyped'
    BY <1>1, <2>1, <2>2 DEF StoreTyped
  <2>4. j \in JobType(store.rev + 1)
    BY <1>1, IdleIs, StepNames
  <2>5. job' = [job EXCEPT ![h] = j] /\ UNCHANGED <<queue, node, relay, cache>>
    BY <1>2 DEF AdminWrite
  <2> HIDE DEF j
  <2>6. store.rev <= store'.rev
    BY <1>1, <2>3
  <2> QED
    BY <1>1, <2>3, <2>4, <2>5, <2>6, HandlerStep
<1>3. ASSUME NEW s \in [tables : Content, rev : Nat], s.rev = store.rev, store' = s,
             NEW j \in JobType(store.rev), job' = [job EXCEPT ![h] = j],
             UNCHANGED <<queue, node, relay, cache>>
      PROVE  IInv' /\ NotBack
  <2>1. StoreTyped' /\ store'.rev = store.rev
    BY <1>3 DEF StoreTyped
  <2>2. store.rev <= store'.rev /\ j \in JobType(store'.rev)
    BY <1>1, <2>1
  <2> QED
    BY <1>1, <1>3, <2>1, <2>2, HandlerStep
<1>4. CASE RevokePeer(h)
  <2> DEFINE s == [store EXCEPT !.tables.nodes = @ + 1]
             j == [Idle EXCEPT !.pc = "bump", !.kind = "peer"]
  <2>1. s \in [tables : Content, rev : Nat] /\ s.rev = store.rev
    BY <1>1 DEF Content
  <2>2. j \in JobType(store.rev)
    BY <1>1, IdleIs, StepNames
  <2>3. store' = s /\ job' = [job EXCEPT ![h] = j] /\ UNCHANGED <<queue, node, relay, cache>>
    BY <1>4 DEF RevokePeer
  <2> HIDE DEF s, j
  <2> QED
    BY <1>3, <2>1, <2>2, <2>3
<1>5. CASE RevokeSelf(h)
  <2> DEFINE s == [store EXCEPT !.tables.revoked = TRUE]
             j == [Idle EXCEPT !.pc = "bump", !.kind = "self"]
  <2>1. s \in [tables : Content, rev : Nat] /\ s.rev = store.rev
    BY <1>1 DEF Content
  <2>2. j \in JobType(store.rev)
    BY <1>1, IdleIs, StepNames
  <2>3. store' = s /\ job' = [job EXCEPT ![h] = j] /\ UNCHANGED <<queue, node, relay, cache>>
    BY <1>5 DEF RevokeSelf
  <2> HIDE DEF s, j
  <2> QED
    BY <1>3, <2>1, <2>2, <2>3
<1>6. ASSUME NEW n \in Nat
      PROVE  \A j \in JobType(n), pc \in StepName, kind \in Kind :
               [j EXCEPT !.pc = pc] \in JobType(n) /\ [j EXCEPT !.pc = pc, !.kind = kind] \in JobType(n)
  BY DEF JobType
<1>7. CASE Bump(h)
  <2> DEFINE s == [store EXCEPT !.rev = @ + 1]
             j(pc) == [job[h] EXCEPT !.pc = pc]
  <2>1. s \in [tables : Content, rev : Nat] /\ s.rev = store.rev + 1
    BY <1>1
  <2>2. j("nodes") \in JobType(store.rev + 1) /\ j("push") \in JobType(store.rev + 1)
    BY <1>1, <1>6, StepNames
  <2>3. store' = s /\ UNCHANGED <<queue, node, relay, cache>>
    BY <1>7 DEF Bump
  <2>4. job' = [job EXCEPT ![h] = j("nodes")] \/ job' = [job EXCEPT ![h] = j("push")]
    BY <1>1, <1>7 DEF Bump, Goto
  <2> HIDE DEF s, j
  <2>5. StoreTyped' /\ store.rev <= store'.rev /\ store'.rev = store.rev + 1
    BY <1>1, <2>1, <2>3 DEF StoreTyped
  <2> QED
    BY <1>1, <2>2, <2>3, <2>4, <2>5, HandlerStep
<1>8. CASE BumpFails(h)
  <2> DEFINE j == [job[h] EXCEPT !.pc = "close", !.kind = "failed"]
  <2>1. j \in JobType(store.rev) /\ Idle \in JobType(store.rev)
    BY <1>1, <1>6, IdleIs, StepNames
  <2>2. store' = store /\ UNCHANGED <<queue, node, relay, cache>>
    BY <1>8 DEF BumpFails
  <2>3. job' = [job EXCEPT ![h] = j] \/ job' = [job EXCEPT ![h] = Idle]
    BY <1>1, <1>8 DEF BumpFails
  <2> HIDE DEF j
  <2> QED
    BY <1>1, <1>3, <2>1, <2>2, <2>3
<1>9. CASE CloseRevoked(h)
  <2> DEFINE j == [Idle EXCEPT !.pc = "push"]
  <2>1. j \in JobType(store.rev) /\ Idle \in JobType(store.rev)
    BY <1>1, IdleIs, StepNames
  <2>2. store' = store /\ UNCHANGED <<queue, node, relay, cache>>
    BY <1>9 DEF CloseRevoked
  <2>3. job' = [job EXCEPT ![h] = j] \/ job' = [job EXCEPT ![h] = Idle]
    BY <1>1, <1>9 DEF CloseRevoked
  <2> HIDE DEF j
  <2> QED
    BY <1>1, <1>3, <2>1, <2>2, <2>3
<1> QED
  BY <1>2, <1>4, <1>5, <1>7, <1>8, <1>9 DEF AdminStep

\* What a handler does to compile and send.
LEMMA CompileSteps ==
  ASSUME IInv, NEW h \in Handler, Compile(h)
  PROVE  IInv' /\ NotBack
<1>1. /\ store \in [tables : Content, rev : Nat] /\ store.tables \in Content /\ store.rev \in Nat
      /\ job \in [Handler -> JobType(store.rev)] /\ job[h] \in JobType(store.rev)
      /\ store.rev <= store.rev
  BY DEF IInv, StoreTyped, JobTyped
<1>2. ASSUME NEW j \in JobType(store.rev), job' = [job EXCEPT ![h] = j], store' = store,
             UNCHANGED <<queue, node, relay, cache>>
      PROVE  IInv' /\ NotBack
  <2>1. StoreTyped' /\ store'.rev = store.rev
    BY <1>2 DEF IInv, StoreTyped
  <2> QED
    BY <1>1, <1>2, <2>1, HandlerStep
<1>3. /\ job[h].snap \in Content /\ job[h].rev \in 0 .. store.rev
      /\ Scope(job[h].snap) \in Content /\ store.rev \in 0 .. store.rev
      /\ store.tables.nodes \in Nat /\ store.tables.tunnels \in Nat
      /\ store.tables.forwards \in Nat /\ store.tables.revoked \in BOOLEAN
  BY <1>1, ContentIs DEF JobType, Content, Scope
<1>4. /\ \A pc \in StepName : [job[h] EXCEPT !.pc = pc] \in JobType(store.rev)
      /\ \A pc \in StepName, c \in Content :
           [job[h] EXCEPT !.pc = pc, !.snap = c] \in JobType(store.rev)
      /\ \A pc \in StepName, c \in Content, n \in 0 .. store.rev :
           [job[h] EXCEPT !.pc = pc, !.rev = n, !.snap = c] \in JobType(store.rev)
  BY <1>1 DEF JobType
<1>5. CASE PushConfigs(h)
  <2> DEFINE j == [job[h] EXCEPT !.pc = "nodes"]
  <2>1. j \in JobType(store.rev) /\ Idle \in JobType(store.rev)
    BY <1>1, <1>4, IdleIs, StepNames
  <2>2. job' = [job EXCEPT ![h] = j] \/ job' = [job EXCEPT ![h] = Idle]
    BY <1>1, <1>5 DEF PushConfigs, Goto
  <2> HIDE DEF j
  <2> QED
    BY <1>2, <1>5, <2>1, <2>2 DEF PushConfigs
<1>6. CASE ReadNodes(h)
  <2> DEFINE c == [job[h].snap EXCEPT !.nodes = store.tables.nodes,
                                      !.revoked = store.tables.revoked]
             j == [job[h] EXCEPT !.pc = "tunnels", !.snap = c]
  <2>1. c \in Content
    BY <1>3 DEF Content
  <2>2. job' = [job EXCEPT ![h] = j]
    BY <1>1, <1>6 DEF ReadNodes, JobType
  <2> HIDE DEF c
  <2>3. j \in JobType(store.rev)
    BY <1>1, <1>4, <2>1, StepNames
  <2> HIDE DEF j
  <2> QED
    BY <1>2, <1>6, <2>2, <2>3 DEF ReadNodes
<1>7. CASE ReadTunnels(h)
  <2> DEFINE c == [job[h].snap EXCEPT !.tunnels = store.tables.tunnels]
             j == [job[h] EXCEPT !.pc = "forwards", !.snap = c]
  <2>1. c \in Content
    BY <1>3 DEF Content
  <2>2. job' = [job EXCEPT ![h] = j]
    BY <1>1, <1>7 DEF ReadTunnels, JobType
  <2> HIDE DEF c
  <2>3. j \in JobType(store.rev)
    BY <1>1, <1>4, <2>1, StepNames
  <2> HIDE DEF j
  <2> QED
    BY <1>2, <1>7, <2>2, <2>3 DEF ReadTunnels
<1>8. CASE ReadForwards(h)
  <2> DEFINE c == [job[h].snap EXCEPT !.forwards = store.tables.forwards]
             j == [job[h] EXCEPT !.pc = "rev", !.snap = c]
  <2>1. c \in Content
    BY <1>3 DEF Content
  <2>2. job' = [job EXCEPT ![h] = j]
    BY <1>1, <1>8 DEF ReadForwards, JobType
  <2> HIDE DEF c
  <2>3. j \in JobType(store.rev)
    BY <1>1, <1>4, <2>1, StepNames
  <2> HIDE DEF j
  <2> QED
    BY <1>2, <1>8, <2>2, <2>3 DEF ReadForwards
<1>9. CASE ReadRevision(h)
  <2> DEFINE c == Scope(job[h].snap)
             j == [job[h] EXCEPT !.pc = "send", !.rev = store.rev, !.snap = c]
  <2>1. job' = [job EXCEPT ![h] = j]
    BY <1>1, <1>9 DEF ReadRevision, JobType
  <2>2. c \in Content
    BY <1>3
  <2> HIDE DEF c
  <2>3. j \in JobType(store.rev)
    BY <1>1, <1>3, <1>4, <2>2, StepNames
  <2> HIDE DEF j
  <2> QED
    BY <1>2, <1>9, <2>1, <2>3 DEF ReadRevision
<1>10. CASE Send(h)
  <2> DEFINE j == [job[h] EXCEPT !.pc = "close"]
             m == [rev |-> job[h].rev, content |-> job[h].snap]
  <2>1. j \in JobType(store.rev) /\ Idle \in JobType(store.rev) /\ m \in Known(store.rev)
    BY <1>1, <1>3, <1>4, IdleIs, StepNames DEF Known
  <2>2. /\ job' = [job EXCEPT ![h] = j] \/ job' = [job EXCEPT ![h] = Idle]
        /\ queue' = queue \/ queue' = Append(queue, m)
        /\ UNCHANGED <<store, node, relay, cache>>
    BY <1>1, <1>10 DEF Send
  <2> HIDE DEF j, m
  <2>3. queue' \in Seq(Known(store.rev))
    BY <2>1, <2>2 DEF IInv, QueueTyped
  <2>4. JobTyped' /\ StoreTyped' /\ store'.rev = store.rev
    BY <1>1, <2>1, <2>2 DEF JobTyped, StoreTyped
  <2> QED
    BY <1>1, <2>2, <2>3, <2>4, ControllerSide
<1> QED
  BY <1>5, <1>6, <1>7, <1>8, <1>9, <1>10 DEF Compile

\* Every step keeps the invariant and rolls nothing back.
LEMMA NextIInv == IInv /\ [Next]_vars => IInv' /\ NotBack
<1> SUFFICES ASSUME IInv, [Next]_vars PROVE IInv' /\ NotBack
  OBVIOUS
<1>1. /\ store \in [tables : Content, rev : Nat] /\ store.rev \in Nat /\ store.rev <= store.rev
      /\ job \in [Handler -> JobType(store.rev)] /\ {"ws", "http"} \subseteq Handler
      /\ queue \in Seq(Known(store.rev)) /\ cache \in Known(store.rev)
      /\ node \in [phase : Phase, cur : 0 .. store.rev] /\ node.cur \in 0 .. store.rev
      /\ relay \in [rev : 0 .. store.rev, cfg : Content, on : BOOLEAN]
      /\ relay.rev = node.cur
  BY DEF IInv, StoreTyped, JobTyped, QueueTyped, NodeTyped, InStep, Handler
<1>2. /\ Idle \in JobType(store.rev) /\ [Idle EXCEPT !.pc = "nodes"] \in JobType(store.rev)
      /\ \A j \in JobType(store.rev) : [j EXCEPT !.pc = "nodes"] \in JobType(store.rev)
  <2>1. Idle \in JobType(store.rev)
    BY <1>1, IdleIs
  <2>2. \A j \in JobType(store.rev) : [j EXCEPT !.pc = "nodes"] \in JobType(store.rev)
    BY StepNames DEF JobType
  <2> QED
    BY <2>1, <2>2
<1>3. ASSUME store' = store, job' \in [Handler -> JobType(store.rev)],
             queue' \in Seq(Known(store.rev)), NodeTyped', InStep', NotBack
      PROVE  IInv' /\ NotBack
  BY <1>1, <1>3 DEF IInv, StoreTyped, JobTyped, QueueTyped
<1>4. ASSUME UNCHANGED <<store, node, relay>>, cache' \in Known(store.rev)
      PROVE  NodeTyped' /\ InStep' /\ NotBack
  BY <1>1, <1>4 DEF NodeTyped, InStep, NotBack
<1>5. CASE Connect \/ PullConfig
  <2> DEFINE j == [job["ws"] EXCEPT !.pc = "nodes"]
  <2>1. j \in JobType(store.rev)
    BY <1>1, <1>2
  <2>2. job' = [job EXCEPT !["ws"] = j]
    BY <1>1, <1>5 DEF Connect, PullConfig, Goto
  <2> HIDE DEF j
  <2>3. job' \in [Handler -> JobType(store.rev)]
    BY <1>1, <2>1, <2>2
  <2>4. queue' \in Seq(Known(store.rev)) /\ UNCHANGED <<store, node, relay, cache>>
    <3>1. (queue' = queue \/ queue' = <<>>) /\ UNCHANGED <<store, node, relay, cache>>
      BY <1>5 DEF Connect, PullConfig
    <3>2. <<>> \in Seq(Known(store.rev)) /\ queue \in Seq(Known(store.rev))
      BY <1>1
    <3> QED
      BY <3>1, <3>2
  <2> QED
    BY <1>1, <1>3, <1>4, <2>3, <2>4
<1>6. CASE CloseSeen \/ Disconnect \/ ControllerCrash
  <2>1. job' \in [Handler -> JobType(store.rev)]
    BY <1>1, <1>2, <1>6 DEF CloseSeen, Disconnect, ControllerCrash
  <2>2. queue' \in Seq(Known(store.rev)) /\ UNCHANGED <<store, node, relay, cache>>
    <3>1. (queue' = queue \/ queue' = <<>>) /\ UNCHANGED <<store, node, relay, cache>>
      BY <1>6 DEF CloseSeen, Disconnect, ControllerCrash
    <3>2. <<>> \in Seq(Known(store.rev)) /\ queue \in Seq(Known(store.rev))
      BY <1>1
    <3> QED
      BY <3>1, <3>2
  <2> QED
    BY <1>1, <1>3, <1>4, <2>1, <2>2
<1>7. CASE Deliver
  <2>1. /\ Head(queue) \in Known(store.rev) /\ queue' \in Seq(Known(store.rev))
        /\ UNCHANGED <<store, job>>
    BY <1>1, <1>7, TailIs DEF Deliver
  <2>2. "up" \in Phase
    BY DEF Phase
  <2>3. NodeTyped' /\ InStep' /\ NotBack
    BY <1>7, <2>1, <2>2, ApplyStep DEF Deliver
  <2> QED
    BY <1>1, <1>3, <2>1, <2>3
<1>8. CASE NodeCrash
  <2>1. /\ node' = [phase |-> "down", cur |-> 0] /\ relay' = NoRelay
        /\ UNCHANGED <<store, cache>>
    BY <1>8 DEF NodeCrash
  <2>2. NodeTyped' /\ InStep' /\ NotBack
    BY <1>1, <2>1, ContentIs DEF NodeTyped, InStep, NotBack, NoRelay, Phase
  <2>3. job' \in [Handler -> JobType(store.rev)] /\ queue' \in Seq(Known(store.rev))
    BY <1>1, <1>2, <1>8 DEF NodeCrash
  <2> QED
    BY <1>3, <2>1, <2>2, <2>3
<1>9. ASSUME NEW phase \in Phase, node' = [node EXCEPT !.phase = phase],
             UNCHANGED <<store, relay, cache>>
      PROVE  NodeTyped' /\ InStep' /\ NotBack
  <2>1. node' \in [phase : Phase, cur : 0 .. store.rev] /\ node'.cur = node.cur
    BY <1>1, <1>9
  <2> QED
    BY <1>1, <1>9, <2>1 DEF NodeTyped, InStep, NotBack
<1>10. CASE NodeStart
  <2>1. NodeTyped' /\ InStep' /\ NotBack
    BY <1>9, <1>10 DEF NodeStart, Phase
  <2>2. job' \in [Handler -> JobType(store.rev)]
    BY <1>1, <1>2, <1>10 DEF NodeStart
  <2> QED
    BY <1>1, <1>3, <1>10, <2>1, <2>2 DEF NodeStart
<1>11. CASE HTTPConfig
  <2> DEFINE m == [rev |-> job["http"].rev, content |-> job["http"].snap]
  <2>1. m \in Known(store.rev) /\ "caching" \in Phase
    BY <1>1 DEF Known, JobType, Phase
  <2>2. ApplySignedConfig(m, "caching") /\ job' = [job EXCEPT !["http"] = Idle]
        /\ UNCHANGED <<store, queue>>
    BY <1>11 DEF HTTPConfig
  <2> HIDE DEF m
  <2>3. NodeTyped' /\ InStep' /\ NotBack
    BY <2>1, <2>2, ApplyStep
  <2>4. job' \in [Handler -> JobType(store.rev)]
    BY <1>1, <1>2, <2>2
  <2> QED
    BY <1>1, <1>3, <2>2, <2>3, <2>4
<1>12. CASE HTTPFails
  <2>1. NodeTyped' /\ InStep' /\ NotBack
    BY <1>9, <1>12 DEF HTTPFails, Phase
  <2>2. job' \in [Handler -> JobType(store.rev)]
    BY <1>1, <1>2, <1>12 DEF HTTPFails
  <2> QED
    BY <1>1, <1>3, <1>12, <2>1, <2>2 DEF HTTPFails
<1>13. CASE CachedConfig
  <2>1. "up" \in Phase /\ UNCHANGED <<store, job, queue>>
    BY <1>13 DEF CachedConfig, Phase
  <2>2. CASE ApplySignedConfig(cache, "up")
    BY <1>1, <1>3, <2>1, <2>2, ApplyStep
  <2>3. CASE node' = [node EXCEPT !.phase = "up"] /\ UNCHANGED <<relay, cache, faults>>
    BY <1>1, <1>3, <1>9, <2>1, <2>3
  <2> QED
    BY <1>13, <2>2, <2>3 DEF CachedConfig
<1>14. CASE LeaseExpires
  <2>1. /\ relay' \in [rev : 0 .. store.rev, cfg : Content, on : BOOLEAN]
        /\ relay'.rev = relay.rev
    BY <1>1, <1>14, ContentIs DEF LeaseExpires
  <2>2. UNCHANGED <<store, job, queue, node, cache>>
    BY <1>14 DEF LeaseExpires
  <2>3. NodeTyped' /\ InStep' /\ NotBack
    BY <1>1, <2>1, <2>2 DEF NodeTyped, InStep, NotBack
  <2> QED
    BY <1>1, <1>3, <2>2, <2>3
<1>15. CASE CacheExpires
  <2>1. NoConfig \in Known(store.rev)
    BY <1>1, ContentIs DEF NoConfig, Known
  <2> QED
    BY <1>1, <1>3, <1>4, <1>15, <2>1 DEF CacheExpires
<1>16. CASE UNCHANGED vars
  BY <1>1, <1>3, <1>4, <1>16 DEF vars
<1> QED
  BY <1>5, <1>6, <1>7, <1>8, <1>10, <1>11, <1>12, <1>13, <1>14, <1>15, <1>16,
     AdminSteps, CompileSteps DEF Next

LEMMA InitIInv == Init => IInv
<1> SUFFICES ASSUME Init PROVE IInv
  OBVIOUS
<1>1. store = [tables |-> Nothing, rev |-> 1] /\ store.rev = 1 /\ queue = <<>>
  BY DEF Init
<1>2. StoreTyped /\ QueueTyped
  BY <1>1, ContentIs DEF StoreTyped, QueueTyped
<1>3. JobTyped
  BY <1>1, IdleIs DEF Init, JobTyped
<1>4. NodeTyped /\ InStep
  BY <1>1, ContentIs DEF Init, NodeTyped, InStep, NoRelay, NoConfig, Known, Phase
<1> QED
  BY <1>2, <1>3, <1>4 DEF IInv

\* While the agent's process lives, neither it nor its relay goes back to an
\* older revision: applySignedConfig compares, bootstrapConfig takes only a
\* newer cache file, and the order of the handlers' writes does not matter.
THEOREM NoRollback == Spec => RunningNeverRollsBack
<1> DEFINE A == node.cur # 0 /\ node'.phase # "down"
                  => node'.cur >= node.cur /\ relay'.rev >= relay.rev
<1>1. IInv /\ [Next]_vars => [A]_vars
  BY NextIInv DEF NotBack
<1>2. Spec => [][A]_vars
  BY <1>1, InitIInv, NextIInv, PTL DEF Spec
<1> QED
  BY <1>2 DEF RunningNeverRollsBack

\* No node runs a revision that the controller has not committed, whatever was
\* sent, cached and applied over crashes of either: compileConfig reads the
\* revision from the database, which never takes one back.
THEOREM RevisionsAreCommitted == Spec => []NeverAhead
<1>1. IInv => NeverAhead
  BY DEF IInv, StoreTyped, NodeTyped, NeverAhead
<1> QED
  BY <1>1, InitIInv, NextIInv, PTL DEF Spec

=============================================================================
