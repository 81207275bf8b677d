--------------------------- MODULE PortAllocation ---------------------------
(***************************************************************************)
(* Tunnels, forwards and the ports they are given: prepareTunnel and       *)
(* prepareForward with their database reads, and the transactions          *)
(* SaveTunnel, SaveForward, DeleteTunnel, DeleteForward, SetTunnelEnabled  *)
(* and SetForwardEnabled, by concurrent admin requests.                    *)
(*                                                                         *)
(* Every read of prepareTunnel and prepareForward is a query of its own    *)
(* and a step of its own; every transaction is one step (the pool has one  *)
(* connection).  Names, targets, strategies, secrets and certificates are  *)
(* left out.                                                               *)
(***************************************************************************)
EXTENDS Integers, Sequences, FiniteSets, FiniteSetsExt, Functions

CONSTANTS
  Node, Tunnel, Forward, Handler,
  PortRange,       \* normalizedPortRange of each node, as the set of its ports
  TunnelRequest,   \* tunnelRequests: [id, entry, stages, listen, enabled], entry
                   \* and stages with the protocols of their candidates
  ForwardRequest,  \* forwardRequests: [id, tunnel, protocols, listen, enabled]
  Absent,          \* no such row; a field the request leaves out
  MaxRev           \* bound on the configuration revision

Protocol == {"tcp", "udp"}
Switch == {"on", "off"}

Port == UNION Range(PortRange)

\* What each candidate of a stage supports.
Candidates == UNION {[S -> SUBSET Protocol] : S \in SUBSET Node}

\* The port of every candidate of a middle or exit stage.
Stage == UNION {[S -> Port] : S \in SUBSET Node}

TunnelRow == [entry : Candidates, stages : Seq(Stage), carries : Seq(Candidates),
              enabled : Switch]

ForwardRow == [tunnel : Tunnel, protocols : SUBSET Protocol, listen : Port, enabled : Switch]

\* A stage node's row belongs to a tunnel and an index; it keeps its id while
\* its node stays at that index.
StageOwner(t, i, n) == <<"tunnel_stage_node", t, i, n>>
ForwardOwner(f) == <<"forward", f>>

ASSUME PortRangeAssumption == PortRange \in [Node -> SUBSET Nat]
ASSUME MaxRevAssumption == MaxRev \in Nat
ASSUME AbsentAssumption == Absent \notin TunnelRow \cup ForwardRow
ASSUME HistoryAssumption == Forward \cap Handler = {}

\* A request that passed validation.
ASSUME TunnelRequestAssumption ==
  \A req \in TunnelRequest :
    /\ req.id \in Tunnel
    /\ req.entry \in Candidates /\ req.stages \in Seq(Candidates)
    /\ req.enabled \in Switch \cup {Absent}
ASSUME ForwardRequestAssumption ==
  ForwardRequest \subseteq
    [id : Forward, tunnel : Tunnel \cup {Absent}, protocols : (SUBSET Protocol) \cup {Absent},
     listen : Nat \cup {Absent}, enabled : Switch \cup {Absent}]

VARIABLES
  tunnels,      \* the tables tunnels, tunnel_stages and tunnel_stage_nodes
  forwards,     \* the table forwards
  allocations,  \* the table port_allocations
  revoked,      \* revoked nodes
  revision,     \* config_revision
  job,          \* what each handler has read so far
  moved         \* history: forwards whose tunnel got another entry after GetTunnel
                \* had read it for them, handlers about to save such a forward

vars == <<tunnels, forwards, allocations, revoked, revision, job, moved>>

tables == <<tunnels, forwards, allocations, revoked, revision>>

Idle == [pc |-> "idle"]

\* A row of port_allocations; whose it is, AllocationsAgree says.
IsAllocation(a) == a.node \in Node /\ a.protocol \in Protocol /\ a.port \in Port

\* A forward request in which what it left out has been filled in.
FilledRequest ==
  [id : Forward, tunnel : Tunnel, protocols : SUBSET Protocol, listen : Nat \cup {Absent},
   enabled : Switch]

\* What a handler has read, from its first query to its transaction.
Job ==
  {Idle}
    \cup [pc : {"listNodes", "listTunnelPorts"}, req : TunnelRequest,
          existing : TunnelRow \cup {Absent}]
    \cup [pc : {"saveTunnel"}, id : Tunnel, row : TunnelRow]
    \cup [pc : {"getTunnel"}, req : FilledRequest]
    \cup [pc : {"getNodes", "listForwardPorts"}, req : FilledRequest, candidates : Candidates]
    \cup [pc : {"saveForward"}, id : Forward, candidates : Candidates, row : ForwardRow]

TypeOK ==
  /\ tunnels \in [Tunnel -> TunnelRow \cup {Absent}]
  /\ forwards \in [Forward -> ForwardRow \cup {Absent}]
  /\ \A a \in allocations : IsAllocation(a)
  /\ revoked \in SUBSET Node
  /\ revision \in 0 .. MaxRev
  /\ job \in [Handler -> Job]
  /\ moved \in SUBSET (Forward \cup Handler)

Init ==
  /\ tunnels = [t \in Tunnel |-> Absent]
  /\ forwards = [f \in Forward |-> Absent]
  /\ allocations = {}
  /\ revoked = {}
  /\ revision = 0
  /\ job = [h \in Handler |-> Idle]
  /\ moved = {}

\* usedPortSet: the ports of a node and protocol that others hold.
Used(excluded, n, p) ==
  {a.port : a \in {b \in allocations : b.node = n /\ b.protocol = p /\ b.owner \notin excluded}}

\* The handler answers, with an error or without.
Done(h) == job' = [job EXCEPT ![h] = Idle]

Chosen(asked, existing) == IF asked = Absent THEN existing ELSE asked

SamePort(a, b) == a.node = b.node /\ a.protocol = b.protocol /\ a.port = b.port

\* A slip: the unique index is gone.
NeverConflicts(kept, new) == FALSE

\* UNIQUE(node_id, protocol, port): insertAllocations fails, and with it the
\* transaction.
Conflicts(kept, new) ==
  \E b \in new : \E a \in kept \cup new : a # b /\ SamePort(a, b)

\* bumpRevisionTx
BumpRevision == revision < MaxRev /\ revision' = revision + 1

-----------------------------------------------------------------------------
(* prepareTunnel and SaveTunnel *)

\* GetTunnel
BeginTunnel(h, req) ==
  /\ job[h] = Idle
  /\ job' = [job EXCEPT ![h] = [pc |-> "listNodes", req |-> req, existing |-> tunnels[req.id]]]
  /\ UNCHANGED <<tables, moved>>

RequestNodes(req) == DOMAIN req.entry \cup UNION {DOMAIN c : c \in Range(req.stages)}

\* ListNodes: a node that is revoked cannot be a candidate.
ListNodes(h) ==
  /\ job[h].pc = "listNodes"
  /\ IF RequestNodes(job[h].req) \cap revoked = {}
     THEN job' = [job EXCEPT ![h].pc = "listTunnelPorts"]
     ELSE Done(h)
  /\ UNCHANGED <<tables, moved>>

\* findExistingStageNode
HasStageNode(row, i, n) ==
  row # Absent /\ i \in DOMAIN row.stages /\ n \in DOMAIN row.stages[i]

StageOwners(t, row) ==
  IF row = Absent THEN {}
  ELSE UNION {{StageOwner(t, i, n) : n \in DOMAIN row.stages[i]} : i \in DOMAIN row.stages}

\* The ports a stage node may get: the one asked for, the one it has, or the
\* first free one.  Only the last is checked against the ports in use.
StagePort(req, existing, i, n) ==
  LET free == PortRange[n] \ Used(StageOwners(req.id, existing), n, "tcp")
  IN  IF n \in DOMAIN req.listen THEN {req.listen[n]} \cap PortRange[n]
      ELSE IF HasStageNode(existing, i, n) THEN {existing.stages[i][n]} \cap PortRange[n]
      ELSE IF free = {} THEN {} ELSE {Min(free)}

\* ListPortAllocations, and the rest of prepareTunnel.
ListTunnelPorts(h) ==
  LET req == job[h].req
      existing == job[h].existing
      ports(i, n) == StagePort(req, existing, i, n)
      enabled == Chosen(req.enabled, IF existing = Absent THEN "on" ELSE existing.enabled)
  IN  /\ job[h].pc = "listTunnelPorts"
      /\ IF \E i \in DOMAIN req.stages : \E n \in DOMAIN req.stages[i] : ports(i, n) = {}
         THEN Done(h)
         ELSE job' = [job EXCEPT ![h] =
                [pc |-> "saveTunnel", id |-> req.id,
                 row |-> [entry |-> req.entry,
                          stages |-> [i \in DOMAIN req.stages |->
                             [n \in DOMAIN req.stages[i] |-> CHOOSE p \in ports(i, n) : TRUE]],
                          carries |-> req.stages,
                          enabled |-> enabled]]]
      /\ UNCHANGED <<tables, moved>>

StageAllocations(t, row) ==
  UNION {{[node |-> n, owner |-> StageOwner(t, i, n), protocol |-> "tcp", port |-> row.stages[i][n]] :
            n \in DOMAIN row.stages[i]} : i \in DOMAIN row.stages}

NotOwnedBy(owners) == {a \in allocations : a.owner \notin owners}

ForwardsOf(t) == {f \in Forward : forwards[f] # Absent /\ forwards[f].tunnel = t}

\* The handlers whose GetTunnel has found t.
ReadersOf(t) ==
  {h \in Handler : \/ job[h].pc \in {"getNodes", "listForwardPorts"} /\ job[h].req.tunnel = t
                   \/ job[h].pc = "saveForward" /\ job[h].row.tunnel = t}

\* The transaction replaces the rows and the allocations of the tunnel, or
\* changes nothing.  The forwards of the tunnel keep the allocations they have.
SaveTunnel(h) ==
  LET t == job[h].id
      row == job[h].row
      kept == NotOwnedBy(StageOwners(t, tunnels[t]))
      new == StageAllocations(t, row)
  IN  /\ job[h].pc = "saveTunnel"
      /\ \/ /\ ~Conflicts(kept, new)
            /\ allocations' = kept \cup new
            /\ tunnels' = [tunnels EXCEPT ![t] = row]
            /\ moved' = IF tunnels[t] # Absent /\ tunnels[t].entry = row.entry THEN moved
                         ELSE moved \cup ForwardsOf(t) \cup ReadersOf(t)
            /\ BumpRevision
            /\ UNCHANGED <<forwards, revoked>>
         \/ Conflicts(kept, new) /\ UNCHANGED <<tables, moved>>
      /\ Done(h)

-----------------------------------------------------------------------------
(* prepareForward and SaveForward *)

\* GetForward: what the request leaves out is kept.
BeginForward(h, req) ==
  LET existing == forwards[req.id]
      row == IF existing = Absent
             THEN [req EXCEPT !.enabled = Chosen(@, "on")]
             ELSE [req EXCEPT !.tunnel = Chosen(@, existing.tunnel),
                              !.protocols = Chosen(@, existing.protocols),
                              !.listen = Chosen(@, existing.listen),
                              !.enabled = Chosen(@, existing.enabled)]
  IN  /\ job[h] = Idle
      /\ row.tunnel # Absent /\ row.protocols # Absent
      /\ job' = [job EXCEPT ![h] = [pc |-> "getTunnel", req |-> row]]
      /\ UNCHANGED <<tables, moved>>

\* forwardEntryCandidates and filterForwardProtocols
EntryCandidates(row, protocols) ==
  LET supports(n) == row.entry[n] \cap protocols
  IN  [n \in {m \in DOMAIN row.entry : supports(m) # {}} |-> supports(n)]

\* stageHasEffectiveCandidate
Supports(stage, p) == \E n \in DOMAIN stage : p \in stage[n]

\* validateTunnelEffectiveCandidates
Effective(row, protocols) ==
  \A p \in protocols :
    Supports(row.entry, p) /\ \A i \in DOMAIN row.carries : Supports(row.carries[i], p)

GetTunnel(h) ==
  LET row == tunnels[job[h].req.tunnel]
  IN  /\ job[h].pc = "getTunnel"
      /\ IF /\ row # Absent
            /\ row.enabled = "on"
            /\ Effective(row, job[h].req.protocols)
         THEN /\ job' = [job EXCEPT ![h] = [pc |-> "getNodes", req |-> job[h].req,
                           candidates |-> EntryCandidates(row, job[h].req.protocols)]]
              /\ moved' = moved \ {h}
         ELSE Done(h) /\ UNCHANGED moved
      /\ UNCHANGED tables

GetNodes(h) ==
  /\ job[h].pc = "getNodes"
  /\ IF DOMAIN job[h].candidates \cap revoked = {}
     THEN job' = [job EXCEPT ![h].pc = "listForwardPorts"]
     ELSE Done(h)
  /\ UNCHANGED <<tables, moved>>

\* portAvailableAcrossEntryCandidates
AvailablePorts(f, candidates) ==
  {port \in Port : \A n \in DOMAIN candidates :
      /\ port \in PortRange[n]
      /\ \A p \in candidates[n] : port \notin Used({ForwardOwner(f)}, n, p)}

\* ListPortAllocations, and the rest of prepareForward: the port asked for or
\* the first one free on every entry node for every protocol.
ListForwardPorts(h) ==
  LET req == job[h].req
      available == AvailablePorts(req.id, job[h].candidates)
      wanted == IF req.listen = Absent THEN available ELSE {req.listen} \cap available
  IN  /\ job[h].pc = "listForwardPorts"
      /\ IF wanted = {} THEN Done(h)
         ELSE job' = [job EXCEPT ![h] =
                [pc |-> "saveForward", id |-> req.id, candidates |-> job[h].candidates,
                 row |-> [tunnel |-> req.tunnel, protocols |-> req.protocols,
                          listen |-> Min(wanted), enabled |-> req.enabled]]]
      /\ UNCHANGED <<tables, moved>>

ForwardAllocations(f, row, candidates) ==
  UNION {{[node |-> n, owner |-> ForwardOwner(f), protocol |-> p, port |-> row.listen] :
            p \in candidates[n]} : n \in DOMAIN candidates}

\* A slip: INSERT OR REPLACE takes the port from whoever has it.
SaveForwardReplaces(h) ==
  LET f == job[h].id
      row == job[h].row
      new == ForwardAllocations(f, row, job[h].candidates)
      kept == {a \in NotOwnedBy({ForwardOwner(f)}) : \A b \in new : ~SamePort(a, b)}
  IN  /\ job[h].pc = "saveForward"
      /\ allocations' = kept \cup new
      /\ forwards' = [forwards EXCEPT ![f] = row]
      /\ BumpRevision
      /\ UNCHANGED <<tunnels, revoked, moved>>
      /\ Done(h)

\* The transaction.  Whether the tunnel still exists is not asked again.
SaveForward(h) ==
  LET f == job[h].id
      row == job[h].row
      kept == NotOwnedBy({ForwardOwner(f)})
      new == ForwardAllocations(f, row, job[h].candidates)
  IN  /\ job[h].pc = "saveForward"
      /\ \/ /\ ~Conflicts(kept, new)
            /\ allocations' = kept \cup new
            /\ forwards' = [forwards EXCEPT ![f] = row]
            /\ moved' = IF h \in moved THEN moved \cup {f} ELSE moved \ {f}
            /\ BumpRevision
            /\ UNCHANGED <<tunnels, revoked>>
         \/ Conflicts(kept, new) /\ UNCHANGED <<tables, moved>>
      /\ Done(h)

-----------------------------------------------------------------------------
(* The other transactions *)

\* A slip: a forced deletion leaves the ports of the forwards taken.
DeleteKeepsPorts(t, force) ==
  /\ tunnels[t] # Absent
  /\ ForwardsOf(t) = {} \/ force
  /\ allocations' = NotOwnedBy(StageOwners(t, tunnels[t]))
  /\ forwards' = [f \in Forward |-> IF f \in ForwardsOf(t) THEN Absent ELSE forwards[f]]
  /\ tunnels' = [tunnels EXCEPT ![t] = Absent]
  /\ BumpRevision
  /\ UNCHANGED <<revoked, job, moved>>

\* DeleteTunnel refuses a tunnel with forwards, or deletes them with it.
DeleteTunnel(t, force) ==
  /\ tunnels[t] # Absent
  /\ ForwardsOf(t) = {} \/ force
  /\ allocations' = NotOwnedBy(StageOwners(t, tunnels[t])
                                 \cup {ForwardOwner(f) : f \in ForwardsOf(t)})
  /\ forwards' = [f \in Forward |-> IF f \in ForwardsOf(t) THEN Absent ELSE forwards[f]]
  /\ tunnels' = [tunnels EXCEPT ![t] = Absent]
  /\ BumpRevision
  /\ UNCHANGED <<revoked, job, moved>>

DeleteForward(f) ==
  /\ forwards[f] # Absent
  /\ allocations' = NotOwnedBy({ForwardOwner(f)})
  /\ forwards' = [forwards EXCEPT ![f] = Absent]
  /\ BumpRevision
  /\ UNCHANGED <<tunnels, revoked, job, moved>>

SetTunnelEnabled(t, enabled) ==
  /\ tunnels[t] # Absent
  /\ tunnels' = [tunnels EXCEPT ![t].enabled = enabled]
  /\ BumpRevision
  /\ UNCHANGED <<forwards, allocations, revoked, job, moved>>

SetForwardEnabled(f, enabled) ==
  /\ forwards[f] # Absent
  /\ forwards' = [forwards EXCEPT ![f].enabled = enabled]
  /\ BumpRevision
  /\ UNCHANGED <<tunnels, allocations, revoked, job, moved>>

\* RevokeNode and the revision after it.  The node's allocations stay.
RevokeNode(n) ==
  /\ n \notin revoked
  /\ revoked' = revoked \cup {n}
  /\ BumpRevision
  /\ UNCHANGED <<tunnels, forwards, allocations, job, moved>>

-----------------------------------------------------------------------------
PrepareTunnel(h) ==
  \/ \E req \in TunnelRequest : BeginTunnel(h, req)
  \/ ListNodes(h)
  \/ ListTunnelPorts(h)
  \/ SaveTunnel(h)

PrepareForward(h) ==
  \/ \E req \in ForwardRequest : BeginForward(h, req)
  \/ GetTunnel(h)
  \/ GetNodes(h)
  \/ ListForwardPorts(h)
  \/ SaveForward(h)

Next ==
  \/ \E h \in Handler : PrepareTunnel(h) \/ PrepareForward(h)
  \/ \E t \in Tunnel : \/ \E force \in BOOLEAN : DeleteTunnel(t, force)
                       \/ \E s \in Switch : SetTunnelEnabled(t, s)
  \/ \E f \in Forward : DeleteForward(f) \/ \E s \in Switch : SetForwardEnabled(f, s)
  \/ \E n \in Node : RevokeNode(n)

Spec == Init /\ [][Next]_vars

-----------------------------------------------------------------------------
(* Properties *)

\* Whatever the handlers read before their transactions, the table never gives
\* a port of a node and protocol to two owners.
AllocationsUnique ==
  \A a, b \in allocations : SamePort(a, b) => a = b

\* No port is leaked and none is recorded wrongly: every allocation is that of
\* a stage node or a forward that exists, for the port its row has.
AllocationsOwned ==
  \A a \in allocations :
    \/ \E f \in Forward :
         /\ a.owner = ForwardOwner(f) /\ forwards[f] # Absent
         /\ a.port = forwards[f].listen /\ a.protocol \in forwards[f].protocols
    \/ \E t \in Tunnel : tunnels[t] # Absent /\ a \in StageAllocations(t, tunnels[t])

\* The port of every stage node that is not an entry is allocated to it, and a
\* forward holds its port for each of its protocols on some node.
RowsAllocated ==
  /\ \A t \in Tunnel : tunnels[t] # Absent => StageAllocations(t, tunnels[t]) \subseteq allocations
  /\ \A f \in Forward : forwards[f] # Absent =>
       \A p \in forwards[f].protocols : \E a \in allocations :
         a.owner = ForwardOwner(f) /\ a.protocol = p /\ a.port = forwards[f].listen

\* A forward holds its port on exactly the nodes where it listens, its tunnel's
\* entry candidates, for the protocols they support, as long as the tunnel has
\* not been given another entry since prepareForward read it.
EntriesAllocated ==
  \A f \in Forward \ moved : forwards[f] # Absent =>
    LET row == forwards[f]
        tunnel == tunnels[row.tunnel]
    IN  tunnel # Absent =>
          {a \in allocations : a.owner = ForwardOwner(f)}
            = ForwardAllocations(f, row, EntryCandidates(tunnel, row.protocols))

\* A tunnel or forward and its allocations are prepared from reads that other
\* transactions overtake, and still no allocation is leaked or left out: each
\* row has its own and no other, on the nodes it is for.  The one exception are
\* the forwards of a tunnel whose entry was changed: SaveTunnel does not touch
\* them, so they listen on the new entry and hold their ports on the old one.
AllocationsAgree == AllocationsOwned /\ RowsAllocated /\ EntriesAllocated

-----------------------------------------------------------------------------
(* The ledger the tables implement *)

\* The tunnel or the forward an allocation belongs to.
Principal(owner) == <<owner[1], owner[2]>>

\* Who holds each port of each node and protocol.
Holder ==
  [k \in Node \X Protocol \X Port |->
     LET held == {a \in allocations : <<a.node, a.protocol, a.port>> = k}
     IN  IF held = {} THEN Absent ELSE Principal((CHOOSE a \in held : TRUE).owner)]

Ledger == INSTANCE PortLedger
  WITH Key <- Node \X Protocol \X Port,
       Owner <- {<<"tunnel_stage_node", t>> : t \in Tunnel} \cup {<<"forward", f>> : f \in Forward},
       Nobody <- Absent,
       holder <- Holder

\* The transactions of SaveTunnel, SaveForward, DeleteTunnel and DeleteForward
\* implement the ledger: a port goes from one tunnel or forward to another
\* only by way of being free, and no request moves the ports of a third party.
LedgerSpec == Ledger!Spec
=============================================================================
