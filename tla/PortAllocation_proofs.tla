------------------------ MODULE PortAllocation_proofs ------------------------
(***************************************************************************)
(* Proofs about the tables of PortAllocation and the configurations of     *)
(* RouteScope, for every set of nodes, tunnels, forwards, requests and     *)
(* handlers.  A port of a node and protocol has one owner: the unique      *)
(* index and the transactions carry it, whatever a handler read before its *)
(* transaction.  The tables agree with each other, and implement a ledger  *)
(* of ports.  The configurations the nodes get fit together and keep each  *)
(* key where it belongs.                                                   *)
(*                                                                         *)
(* The last part is about History, which keeps the rest of the store on    *)
(* variables of its own: the cleanup follows the settings, deletes only    *)
(* rows that are old enough, and nothing is counted twice.                 *)
(***************************************************************************)
EXTENDS RouteScope, History, WellFoundedInduction, TLAPS

\* AllocationsUnique, of any table.
Unique(table) == \A a, b \in table : SamePort(a, b) => a = b

\* Rows may always be deleted.
LEMMA DeletedUnique ==
  ASSUME NEW table, NEW rest \in SUBSET table, Unique(table)
  PROVE  Unique(rest)
BY DEF Unique

\* insertAllocations adds the rows of one owner only if the unique index
\* has no objection to any of them.
LEMMA SavedUnique ==
  ASSUME NEW kept, NEW new, Unique(kept), ~Conflicts(kept, new)
  PROVE  Unique(kept \cup new)
<1> SUFFICES ASSUME NEW a \in kept \cup new, NEW b \in kept \cup new, SamePort(a, b)
             PROVE  a = b
  BY DEF Unique
<1>1. SamePort(b, a)
  BY DEF SamePort
<1>2. CASE a \in new
  BY <1>1, <1>2 DEF Conflicts
<1>3. CASE b \in new
  BY <1>3 DEF Conflicts
<1>4. CASE a \in kept /\ b \in kept
  BY <1>4 DEF Unique
<1> QED
  BY <1>2, <1>3, <1>4

LEMMA NotOwnedByIsSubset ==
  ASSUME NEW owners
  PROVE  NotOwnedBy(owners) \in SUBSET allocations
BY DEF NotOwnedBy

\* No step of any handler gives a port away twice.
LEMMA UniqueStep == Unique(allocations) /\ [Next]_vars => Unique(allocations')
<1> SUFFICES ASSUME Unique(allocations), [Next]_vars
             PROVE  Unique(allocations')
  OBVIOUS
<1>1. ASSUME NEW h \in Handler, PrepareTunnel(h)
      PROVE  Unique(allocations')
  <2>1. CASE allocations' = allocations
    BY <2>1
  <2>2. CASE SaveTunnel(h)
    <3> DEFINE kept == NotOwnedBy(StageOwners(job[h].id, tunnels[job[h].id]))
               new == StageAllocations(job[h].id, job[h].row)
    <3>1. Unique(kept)
      BY NotOwnedByIsSubset, DeletedUnique
    <3>2. \/ ~Conflicts(kept, new) /\ allocations' = kept \cup new
          \/ allocations' = allocations
      BY <2>2 DEF SaveTunnel, tables
    <3> HIDE DEF kept, new
    <3> QED
      BY <2>1, <3>1, <3>2, SavedUnique
  <2> QED
    BY <1>1, <2>1, <2>2
    DEF PrepareTunnel, BeginTunnel, ListNodes, ListTunnelPorts, tables
<1>2. ASSUME NEW h \in Handler, PrepareForward(h)
      PROVE  Unique(allocations')
  <2>1. CASE allocations' = allocations
    BY <2>1
  <2>2. CASE SaveForward(h)
    <3> DEFINE kept == NotOwnedBy({ForwardOwner(job[h].id)})
               new == ForwardAllocations(job[h].id, job[h].row, job[h].candidates)
    <3>1. Unique(kept)
      BY NotOwnedByIsSubset, DeletedUnique
    <3>2. \/ ~Conflicts(kept, new) /\ allocations' = kept \cup new
          \/ allocations' = allocations
      BY <2>2 DEF SaveForward, tables
    <3> HIDE DEF kept, new
    <3> QED
      BY <2>1, <3>1, <3>2, SavedUnique
  <2> QED
    BY <1>2, <2>1, <2>2
    DEF PrepareForward, BeginForward, GetTunnel, GetNodes, ListForwardPorts, tables
<1>3. ASSUME NEW t \in Tunnel, NEW force \in BOOLEAN, DeleteTunnel(t, force)
      PROVE  Unique(allocations')
  <2>1. PICK owners : allocations' = NotOwnedBy(owners)
    BY <1>3 DEF DeleteTunnel
  <2> QED
    BY <2>1, NotOwnedByIsSubset, DeletedUnique
<1>4. ASSUME NEW f \in Forward, DeleteForward(f)
      PROVE  Unique(allocations')
  <2>1. allocations' = NotOwnedBy({ForwardOwner(f)})
    BY <1>4 DEF DeleteForward
  <2> QED
    BY <2>1, NotOwnedByIsSubset, DeletedUnique
<1>5. ASSUME UNCHANGED allocations
      PROVE  Unique(allocations')
  BY <1>5
<1>6. ASSUME NEW t \in Tunnel, NEW s \in Switch, SetTunnelEnabled(t, s)
      PROVE  UNCHANGED allocations
  BY <1>6 DEF SetTunnelEnabled
<1>7. ASSUME NEW f \in Forward, NEW s \in Switch, SetForwardEnabled(f, s)
      PROVE  UNCHANGED allocations
  BY <1>7 DEF SetForwardEnabled
<1>8. ASSUME NEW n \in Node, RevokeNode(n)
      PROVE  UNCHANGED allocations
  BY <1>8 DEF RevokeNode
<1>9. UNCHANGED vars => UNCHANGED allocations
  BY DEF vars
<1> QED
  BY <1>1, <1>2, <1>3, <1>4, <1>5, <1>6, <1>7, <1>8, <1>9 DEF Next

\* Whatever prepareTunnel and prepareForward read before their transactions,
\* port_allocations never gives a port of a node and protocol to two owners.
THEOREM PortsHaveOneOwner == Spec => []AllocationsUnique
<1>1. Init => AllocationsUnique
  BY DEF Init, AllocationsUnique
<1>2. AllocationsUnique /\ [Next]_vars => AllocationsUnique'
  BY UniqueStep DEF Unique, AllocationsUnique
<1> QED
  BY <1>1, <1>2, PTL DEF Spec

-----------------------------------------------------------------------------
(* Types *)

\* A set of numbers that is not empty has a first one.
LEMMA MinIsMember ==
  ASSUME NEW S \in SUBSET Nat, S # {}
  PROVE  Min(S) \in S /\ \A x \in S : Min(S) <= x
<1> DEFINE Below == {ss \in Nat \X Nat : ss[1] < ss[2]}
<1>1. IsWellFoundedOn(Below, Nat)
  BY NatLessThanWellFounded DEF OpToRel
<1> HIDE DEF Below
<1>2. PICK x \in S : \A y \in S : ~(<<y, x>> \in Below)
  BY <1>1, WFMin
<1>3. ASSUME NEW y \in S
      PROVE  x =< y
  <2>1. ~(y < x)
    BY <1>2 DEF Below
  <2> QED
    BY <2>1
<1> QED
  BY <1>3 DEF Min

LEMMA PortsOfNode ==
  ASSUME NEW n \in Node
  PROVE  PortRange[n] \in SUBSET Port /\ PortRange[n] \in SUBSET Nat
BY PortRangeAssumption DEF Port, Range

LEMMA CandidateType ==
  ASSUME NEW c \in Candidates
  PROVE  /\ DOMAIN c \in SUBSET Node
         /\ c \in [DOMAIN c -> SUBSET Protocol]
BY DEF Candidates

\* Whatever prepareTunnel finds for a stage node is a port of that node.
LEMMA StagePortType ==
  ASSUME NEW req, NEW existing, NEW i, NEW n \in Node
  PROVE  StagePort(req, existing, i, n) \in SUBSET Port
<1> DEFINE free == PortRange[n] \ Used(StageOwners(req.id, existing), n, "tcp")
<1>1. free # {} => Min(free) \in PortRange[n]
  BY PortsOfNode, MinIsMember
<1> QED
  BY <1>1, PortsOfNode DEF StagePort
\* What a handler holds at each point of its way.
LEMMA JobAt ==
  ASSUME TypeOK, NEW h \in Handler
  PROVE  /\ job[h].pc \in {"listNodes", "listTunnelPorts"} =>
              job[h] \in [pc : {"listNodes", "listTunnelPorts"}, req : TunnelRequest,
                          existing : TunnelRow \cup {Absent}]
         /\ job[h].pc = "saveTunnel" => job[h] \in [pc : {"saveTunnel"}, id : Tunnel, row : TunnelRow]
         /\ job[h].pc = "getTunnel" => job[h] \in [pc : {"getTunnel"}, req : FilledRequest]
         /\ job[h].pc \in {"getNodes", "listForwardPorts"} =>
              job[h] \in [pc : {"getNodes", "listForwardPorts"}, req : FilledRequest,
                          candidates : Candidates]
         /\ job[h].pc = "saveForward" =>
              job[h] \in [pc : {"saveForward"}, id : Forward, candidates : Candidates,
                          row : ForwardRow]
<1>1. job[h] \in Job
  BY DEF TypeOK
<1> QED
  BY <1>1 DEF Job, Idle

\* A step of one handler that leaves the tables alone.
LEMMA JobStep ==
  ASSUME TypeOK, NEW h \in Handler, NEW j \in Job, job' = [job EXCEPT ![h] = j], UNCHANGED tables,
         moved' \subseteq moved
  PROVE  TypeOK'
BY DEF TypeOK, tables, IsAllocation

LEMMA IdleIsJob == Idle \in Job
BY DEF Job

LEMMA BeginTunnelType ==
  ASSUME TypeOK, NEW h \in Handler, NEW req \in TunnelRequest, BeginTunnel(h, req)
  PROVE  TypeOK'
<1> DEFINE j == [pc |-> "listNodes", req |-> req, existing |-> tunnels[req.id]]
<1>1. tunnels[req.id] \in TunnelRow \cup {Absent}
  BY TunnelRequestAssumption DEF TypeOK
<1>2. j \in Job
  BY <1>1 DEF Job
<1> QED
  BY <1>2, JobStep DEF BeginTunnel

LEMMA ListNodesType ==
  ASSUME TypeOK, NEW h \in Handler, ListNodes(h)
  PROVE  TypeOK'
<1>1. job[h] \in [pc : {"listNodes", "listTunnelPorts"}, req : TunnelRequest,
                  existing : TunnelRow \cup {Absent}]
  BY JobAt DEF ListNodes
<1>2. [job[h] EXCEPT !.pc = "listTunnelPorts"] \in Job
  BY <1>1 DEF Job
<1>3. \/ job' = [job EXCEPT ![h] = [job[h] EXCEPT !.pc = "listTunnelPorts"]]
      \/ job' = [job EXCEPT ![h] = Idle]
  BY DEF ListNodes, Done
<1> QED
  BY <1>2, <1>3, IdleIsJob, JobStep DEF ListNodes

LEMMA ListTunnelPortsType ==
  ASSUME TypeOK, NEW h \in Handler, ListTunnelPorts(h)
  PROVE  TypeOK'
<1> DEFINE req == job[h].req
           existing == job[h].existing
           enabled == Chosen(req.enabled, IF existing = Absent THEN "on" ELSE existing.enabled)
           stages == [i \in DOMAIN req.stages |-> [n \in DOMAIN req.stages[i] |->
                        CHOOSE p \in StagePort(req, existing, i, n) : TRUE]]
           row == [entry |-> req.entry, stages |-> stages, carries |-> req.stages,
                   enabled |-> enabled]
<1>1. req \in TunnelRequest /\ existing \in TunnelRow \cup {Absent}
  BY JobAt DEF ListTunnelPorts
<1>2. /\ req.id \in Tunnel
      /\ req.entry \in Candidates /\ req.stages \in Seq(Candidates)
      /\ req.enabled \in Switch \cup {Absent}
  BY <1>1, TunnelRequestAssumption
<1>3. CASE job' = [job EXCEPT ![h] = Idle]
  BY <1>3, IdleIsJob, JobStep DEF ListTunnelPorts
<1>4. CASE /\ \A i \in DOMAIN req.stages : \A n \in DOMAIN req.stages[i] :
                StagePort(req, existing, i, n) # {}
           /\ job' = [job EXCEPT ![h] = [pc |-> "saveTunnel", id |-> req.id, row |-> row]]
  <2>1. enabled \in Switch
    BY <1>1, <1>2 DEF Chosen, TunnelRow, Switch
  <2>2. ASSUME NEW i \in DOMAIN req.stages
        PROVE  stages[i] \in Stage
    <3>1. req.stages[i] \in Candidates
      BY <1>2
    <3>2. \A n \in DOMAIN req.stages[i] : (CHOOSE p \in StagePort(req, existing, i, n) : TRUE) \in Port
      BY <1>4, <3>1, CandidateType, StagePortType
    <3> QED
      BY <3>1, <3>2, CandidateType DEF Stage
  <2>3. stages \in Seq(Stage)
    <3>1. DOMAIN req.stages = 1 .. Len(req.stages) /\ Len(req.stages) \in Nat
      BY <1>2
    <3>2. stages \in [1 .. Len(req.stages) -> Stage]
      BY <2>2, <3>1
    <3> QED
      BY <3>1, <3>2
  <2>4. row \in TunnelRow
    BY <1>2, <2>1, <2>3 DEF TunnelRow
  <2>5. [pc |-> "saveTunnel", id |-> req.id, row |-> row] \in Job
    BY <1>2, <2>4 DEF Job
  <2> QED
    BY <1>4, <2>5, JobStep DEF ListTunnelPorts
<1> QED
  BY <1>3, <1>4 DEF ListTunnelPorts, Done
LEMMA StageType ==
  ASSUME NEW s \in Stage
  PROVE  DOMAIN s \in SUBSET Node /\ s \in [DOMAIN s -> Port]
BY DEF Stage

\* The allocations of a tunnel are well typed and belong to it.
LEMMA StageAllocationsType ==
  ASSUME NEW t, NEW row \in TunnelRow, NEW a \in StageAllocations(t, row)
  PROVE  IsAllocation(a) /\ a.owner \in StageOwners(t, row)
<1>1. row # Absent
  BY AbsentAssumption
<1>2. PICK i \in DOMAIN row.stages : \E n \in DOMAIN row.stages[i] :
        a = [node |-> n, owner |-> StageOwner(t, i, n), protocol |-> "tcp", port |-> row.stages[i][n]]
  BY DEF StageAllocations
<1> PICK n \in DOMAIN row.stages[i] :
        a = [node |-> n, owner |-> StageOwner(t, i, n), protocol |-> "tcp", port |-> row.stages[i][n]]
  BY <1>2
<1>3. row.stages[i] \in Stage
  BY DEF TunnelRow
<1>4. n \in Node /\ row.stages[i][n] \in Port
  BY <1>2, <1>3, StageType
<1> QED
  BY <1>1, <1>2, <1>4 DEF IsAllocation, Protocol, StageOwners

\* The allocations of a forward are well typed and belong to it.
LEMMA ForwardAllocationsType ==
  ASSUME NEW f, NEW row \in ForwardRow, NEW candidates \in Candidates,
         NEW a \in ForwardAllocations(f, row, candidates)
  PROVE  IsAllocation(a) /\ a.owner = ForwardOwner(f) /\ a.port = row.listen
<1>1. PICK n \in DOMAIN candidates : \E p \in candidates[n] :
        a = [node |-> n, owner |-> ForwardOwner(f), protocol |-> p, port |-> row.listen]
  BY DEF ForwardAllocations
<1> PICK p \in candidates[n] :
        a = [node |-> n, owner |-> ForwardOwner(f), protocol |-> p, port |-> row.listen]
  BY <1>1
<1>2. n \in Node /\ p \in Protocol
  BY CandidateType
<1>3. row.listen \in Port
  BY DEF ForwardRow
<1> QED
  BY <1>1, <1>2, <1>3 DEF IsAllocation

LEMMA RevisionType ==
  ASSUME TypeOK, BumpRevision
  PROVE  revision' \in 0 .. MaxRev
BY MaxRevAssumption DEF TypeOK, BumpRevision

LEMMA SaveTunnelType ==
  ASSUME TypeOK, NEW h \in Handler, SaveTunnel(h)
  PROVE  TypeOK'
<1> DEFINE t == job[h].id
           row == job[h].row
           new == StageAllocations(t, row)
<1>1. t \in Tunnel /\ row \in TunnelRow
  BY JobAt DEF SaveTunnel
<1>2. CASE UNCHANGED <<tables, moved>>
  BY <1>2, IdleIsJob, JobStep DEF SaveTunnel, Done
<1>3. CASE /\ allocations' = NotOwnedBy(StageOwners(t, tunnels[t])) \cup new
           /\ tunnels' = [tunnels EXCEPT ![t] = row]
           /\ BumpRevision
           /\ moved' \in {moved, moved \cup ForwardsOf(t) \cup ReadersOf(t)}
           /\ UNCHANGED <<forwards, revoked>>
  <2>1. \A a \in allocations' : IsAllocation(a)
    BY <1>1, <1>3, StageAllocationsType DEF NotOwnedBy, TypeOK
  <2>2. tunnels' \in [Tunnel -> TunnelRow \cup {Absent}]
    BY <1>1, <1>3 DEF TypeOK
  <2>3. job' \in [Handler -> Job]
    BY IdleIsJob DEF SaveTunnel, Done, TypeOK
  <2>4. moved' \in SUBSET (Forward \cup Handler)
    BY <1>3 DEF ForwardsOf, ReadersOf, TypeOK
  <2> QED
    BY <1>3, <2>1, <2>2, <2>3, <2>4, RevisionType DEF TypeOK, IsAllocation
<1> QED
  BY <1>2, <1>3 DEF SaveTunnel

LEMMA BeginForwardType ==
  ASSUME TypeOK, NEW h \in Handler, NEW req \in ForwardRequest, BeginForward(h, req)
  PROVE  TypeOK'
<1> DEFINE existing == forwards[req.id]
           row == IF existing = Absent
                  THEN [req EXCEPT !.enabled = Chosen(@, "on")]
                  ELSE [req EXCEPT !.tunnel = Chosen(@, existing.tunnel),
                                   !.protocols = Chosen(@, existing.protocols),
                                   !.listen = Chosen(@, existing.listen),
                                   !.enabled = Chosen(@, existing.enabled)]
<1>1. req \in [id : Forward, tunnel : Tunnel \cup {Absent},
               protocols : (SUBSET Protocol) \cup {Absent},
               listen : Nat \cup {Absent}, enabled : Switch \cup {Absent}]
  BY ForwardRequestAssumption
<1>2. existing \in ForwardRow \cup {Absent}
  BY <1>1 DEF TypeOK
<1>3. row.tunnel # Absent /\ row.protocols # Absent
  BY DEF BeginForward
<1>4. Port \subseteq Nat
  BY PortRangeAssumption DEF Port, Range
<1>5. row \in FilledRequest
  <2>1. CASE existing = Absent
    BY <1>1, <1>3, <2>1 DEF FilledRequest, Chosen, Switch
  <2>2. CASE existing \in ForwardRow /\ existing # Absent
    BY <1>1, <1>3, <1>4, <2>2 DEF FilledRequest, Chosen, ForwardRow
  <2> QED
    BY <1>2, <2>1, <2>2
<1>6. [pc |-> "getTunnel", req |-> row] \in Job
  BY <1>5 DEF Job
<1> QED
  BY <1>6, JobStep DEF BeginForward

LEMMA EntryCandidatesType ==
  ASSUME NEW row \in TunnelRow, NEW protocols \in SUBSET Protocol
  PROVE  EntryCandidates(row, protocols) \in Candidates
<1>1. row.entry \in Candidates
  BY DEF TunnelRow
<1>2. DOMAIN row.entry \in SUBSET Node
  BY <1>1, CandidateType
<1> DEFINE D == {m \in DOMAIN row.entry : row.entry[m] \cap protocols # {}}
<1>3. D \in SUBSET Node
  BY <1>2
<1>4. EntryCandidates(row, protocols) \in [D -> SUBSET Protocol]
  BY DEF EntryCandidates
<1> QED
  BY <1>3, <1>4 DEF Candidates

LEMMA GetTunnelType ==
  ASSUME TypeOK, NEW h \in Handler, GetTunnel(h)
  PROVE  TypeOK'
<1> DEFINE row == tunnels[job[h].req.tunnel]
           candidates == EntryCandidates(row, job[h].req.protocols)
<1>1. job[h].req \in FilledRequest
  BY JobAt DEF GetTunnel
<1>2. job[h].req.tunnel \in Tunnel /\ job[h].req.protocols \in SUBSET Protocol
  BY <1>1 DEF FilledRequest
<1>3. row # Absent => row \in TunnelRow
  BY <1>2 DEF TypeOK
<1>4. row # Absent => [pc |-> "getNodes", req |-> job[h].req, candidates |-> candidates] \in Job
  BY <1>1, <1>2, <1>3, EntryCandidatesType DEF Job
<1>5. \/ /\ row # Absent
         /\ job' = [job EXCEPT ![h] = [pc |-> "getNodes", req |-> job[h].req,
                                       candidates |-> candidates]]
      \/ job' = [job EXCEPT ![h] = Idle]
  BY DEF GetTunnel, Done
<1>6. UNCHANGED tables /\ moved' \subseteq moved
  BY DEF GetTunnel
<1> HIDE DEF candidates
<1> QED
  BY <1>4, <1>5, <1>6, IdleIsJob, JobStep

LEMMA GetNodesType ==
  ASSUME TypeOK, NEW h \in Handler, GetNodes(h)
  PROVE  TypeOK'
<1>1. job[h] \in [pc : {"getNodes", "listForwardPorts"}, req : FilledRequest,
                  candidates : Candidates]
  BY JobAt DEF GetNodes
<1>2. [job[h] EXCEPT !.pc = "listForwardPorts"] \in Job
  BY <1>1 DEF Job
<1>3. \/ job' = [job EXCEPT ![h] = [job[h] EXCEPT !.pc = "listForwardPorts"]]
      \/ job' = [job EXCEPT ![h] = Idle]
  BY DEF GetNodes, Done
<1> QED
  BY <1>2, <1>3, IdleIsJob, JobStep DEF GetNodes

LEMMA ListForwardPortsType ==
  ASSUME TypeOK, NEW h \in Handler, ListForwardPorts(h)
  PROVE  TypeOK'
<1> DEFINE req == job[h].req
           candidates == job[h].candidates
           available == AvailablePorts(req.id, candidates)
           wanted == IF req.listen = Absent THEN available ELSE {req.listen} \cap available
           row == [tunnel |-> req.tunnel, protocols |-> req.protocols, listen |-> Min(wanted),
                   enabled |-> req.enabled]
           j == [pc |-> "saveForward", id |-> req.id, candidates |-> candidates, row |-> row]
<1>1. req \in FilledRequest /\ candidates \in Candidates
  BY JobAt DEF ListForwardPorts
<1>2. wanted \in SUBSET Port /\ wanted \in SUBSET Nat
  BY PortRangeAssumption DEF AvailablePorts, Port, Range
<1>3. wanted # {} => Min(wanted) \in Port
  BY <1>2, MinIsMember
<1>4. wanted # {} => j \in Job
  BY <1>1, <1>3 DEF Job, ForwardRow, FilledRequest
<1>5. \/ wanted # {} /\ job' = [job EXCEPT ![h] = j]
      \/ job' = [job EXCEPT ![h] = Idle]
  BY DEF ListForwardPorts, Done
<1>6. UNCHANGED tables /\ moved' \subseteq moved
  BY DEF ListForwardPorts
<1> HIDE DEF wanted, j
<1> QED
  BY <1>4, <1>5, <1>6, IdleIsJob, JobStep

LEMMA SaveForwardType ==
  ASSUME TypeOK, NEW h \in Handler, SaveForward(h)
  PROVE  TypeOK'
<1> DEFINE f == job[h].id
           row == job[h].row
           new == ForwardAllocations(f, row, job[h].candidates)
<1>1. f \in Forward /\ row \in ForwardRow /\ job[h].candidates \in Candidates
  BY JobAt DEF SaveForward
<1>2. CASE UNCHANGED <<tables, moved>>
  BY <1>2, IdleIsJob, JobStep DEF SaveForward, Done
<1>3. CASE /\ allocations' = NotOwnedBy({ForwardOwner(f)}) \cup new
           /\ forwards' = [forwards EXCEPT ![f] = row]
           /\ BumpRevision
           /\ moved' \in {moved \cup {f}, moved \ {f}}
           /\ UNCHANGED <<tunnels, revoked>>
  <2>1. \A a \in allocations' : IsAllocation(a)
    BY <1>1, <1>3, ForwardAllocationsType DEF NotOwnedBy, TypeOK
  <2>2. forwards' \in [Forward -> ForwardRow \cup {Absent}]
    BY <1>1, <1>3 DEF TypeOK
  <2>3. job' \in [Handler -> Job]
    BY IdleIsJob DEF SaveForward, Done, TypeOK
  <2>4. moved' \in SUBSET (Forward \cup Handler)
    BY <1>1, <1>3 DEF TypeOK
  <2> QED
    BY <1>3, <2>1, <2>2, <2>3, <2>4, RevisionType DEF TypeOK, IsAllocation
<1> QED
  BY <1>2, <1>3 DEF SaveForward
\* The transactions that are not prepared by reads.
LEMMA OtherTransactionsType ==
  ASSUME TypeOK,
         \/ \E t \in Tunnel : \/ \E force \in BOOLEAN : DeleteTunnel(t, force)
                              \/ \E s \in Switch : SetTunnelEnabled(t, s)
         \/ \E f \in Forward : DeleteForward(f) \/ \E s \in Switch : SetForwardEnabled(f, s)
         \/ \E n \in Node : RevokeNode(n)
  PROVE  TypeOK'
<1>1. ASSUME NEW t \in Tunnel, NEW force \in BOOLEAN, DeleteTunnel(t, force)
      PROVE  TypeOK'
  <2>1. tunnels' \in [Tunnel -> TunnelRow \cup {Absent}]
    BY <1>1 DEF TypeOK, DeleteTunnel
  <2>2. forwards' \in [Forward -> ForwardRow \cup {Absent}]
    BY <1>1 DEF TypeOK, DeleteTunnel
  <2> QED
    BY <1>1, <2>1, <2>2, RevisionType DEF TypeOK, DeleteTunnel, NotOwnedBy, IsAllocation
<1>2. ASSUME NEW t \in Tunnel, NEW s \in Switch, SetTunnelEnabled(t, s)
      PROVE  TypeOK'
  <2>1. tunnels[t] \in TunnelRow
    BY <1>2 DEF TypeOK, SetTunnelEnabled
  <2>2. [tunnels[t] EXCEPT !.enabled = s] \in TunnelRow
    BY <2>1 DEF TunnelRow
  <2>3. tunnels' \in [Tunnel -> TunnelRow \cup {Absent}]
    BY <1>2, <2>2 DEF TypeOK, SetTunnelEnabled
  <2> QED
    BY <1>2, <2>3, RevisionType DEF TypeOK, SetTunnelEnabled, IsAllocation
<1>3. ASSUME NEW f \in Forward, DeleteForward(f)
      PROVE  TypeOK'
  BY <1>3, RevisionType DEF TypeOK, DeleteForward, NotOwnedBy, IsAllocation
<1>4. ASSUME NEW f \in Forward, NEW s \in Switch, SetForwardEnabled(f, s)
      PROVE  TypeOK'
  <2>1. forwards[f] \in ForwardRow
    BY <1>4 DEF TypeOK, SetForwardEnabled
  <2>2. [forwards[f] EXCEPT !.enabled = s] \in ForwardRow
    BY <2>1 DEF ForwardRow
  <2>3. forwards' \in [Forward -> ForwardRow \cup {Absent}]
    BY <1>4, <2>2 DEF TypeOK, SetForwardEnabled
  <2> QED
    BY <1>4, <2>3, RevisionType DEF TypeOK, SetForwardEnabled, IsAllocation
<1>5. ASSUME NEW n \in Node, RevokeNode(n)
      PROVE  TypeOK'
  BY <1>5, RevisionType DEF TypeOK, RevokeNode, IsAllocation
<1> QED
  BY <1>1, <1>2, <1>3, <1>4, <1>5

LEMMA TypeStep == TypeOK /\ [Next]_vars => TypeOK'
<1> SUFFICES ASSUME TypeOK, [Next]_vars
             PROVE  TypeOK'
  OBVIOUS
<1>1. ASSUME NEW h \in Handler, PrepareTunnel(h)
      PROVE  TypeOK'
  BY <1>1, BeginTunnelType, ListNodesType, ListTunnelPortsType, SaveTunnelType DEF PrepareTunnel
<1>2. ASSUME NEW h \in Handler, PrepareForward(h)
      PROVE  TypeOK'
  BY <1>2, BeginForwardType, GetTunnelType, GetNodesType, ListForwardPortsType, SaveForwardType
  DEF PrepareForward
<1>3. CASE UNCHANGED vars
  BY <1>3 DEF vars, TypeOK, IsAllocation
<1> QED
  BY <1>1, <1>2, <1>3, OtherTransactionsType DEF Next

-----------------------------------------------------------------------------
(* The tables agree *)

\* The candidates with which a forward is saved carry its protocols and
\* nothing else.  They were computed from the tunnel's row as it was then.
Covers(candidates, protocols) ==
  /\ \A n \in DOMAIN candidates : candidates[n] \subseteq protocols
  /\ \A p \in protocols : \E n \in DOMAIN candidates : p \in candidates[n]

JobsCover ==
  \A h \in Handler :
    /\ job[h].pc \in {"getNodes", "listForwardPorts"} =>
         Covers(job[h].candidates, job[h].req.protocols)
    /\ job[h].pc = "saveForward" => Covers(job[h].candidates, job[h].row.protocols)

\* What AllocationsAgree says of every row, wherever its forward listens.
RowsAgree == AllocationsOwned /\ RowsAllocated

\* RowsAgree holds because the candidates a forward's allocations are
\* computed from were checked when they were read.
AgreeInv == TypeOK /\ JobsCover /\ RowsAgree

\* validateTunnelEffectiveCandidates is what makes forwardEntryCandidates
\* cover every protocol of the forward.
LEMMA EffectiveCovers ==
  ASSUME NEW row, NEW protocols, Effective(row, protocols)
  PROVE  Covers(EntryCandidates(row, protocols), protocols)
<1> DEFINE D == {m \in DOMAIN row.entry : row.entry[m] \cap protocols # {}}
           c == EntryCandidates(row, protocols)
<1>1. DOMAIN c = D /\ \A n \in D : c[n] = row.entry[n] \cap protocols
  BY DEF EntryCandidates
<1>2. ASSUME NEW p \in protocols
      PROVE  \E n \in D : p \in row.entry[n] \cap protocols
  BY DEF Effective, Supports
<1> QED
  BY <1>1, <1>2 DEF Covers

LEMMA CoverStep ==
  ASSUME TypeOK, JobsCover, [Next]_vars
  PROVE  JobsCover'
<1>1. ASSUME NEW h \in Handler, NEW j, job' = [job EXCEPT ![h] = j],
             /\ j.pc \in {"getNodes", "listForwardPorts"} => Covers(j.candidates, j.req.protocols)
             /\ j.pc = "saveForward" => Covers(j.candidates, j.row.protocols)
      PROVE  JobsCover'
  BY <1>1 DEF JobsCover, TypeOK
<1>2. ASSUME NEW h \in Handler, Done(h)
      PROVE  JobsCover'
  BY <1>1, <1>2 DEF Done, Idle
<1>3. ASSUME UNCHANGED job
      PROVE  JobsCover'
  BY <1>3 DEF JobsCover
<1>4. ASSUME NEW h \in Handler, PrepareTunnel(h)
      PROVE  JobsCover'
  <2>1. ASSUME NEW req \in TunnelRequest, BeginTunnel(h, req)
        PROVE  JobsCover'
    BY <1>1, <2>1 DEF BeginTunnel
  <2>2. CASE ListNodes(h)
    <3>1. job[h] \in [pc : {"listNodes", "listTunnelPorts"}, req : TunnelRequest,
                      existing : TunnelRow \cup {Absent}]
      BY <2>2, JobAt DEF ListNodes
    <3>2. [job[h] EXCEPT !.pc = "listTunnelPorts"].pc = "listTunnelPorts"
      BY <3>1
    <3> QED
      BY <1>1, <1>2, <2>2, <3>2 DEF ListNodes
  <2>3. CASE ListTunnelPorts(h)
    BY <1>1, <1>2, <2>3 DEF ListTunnelPorts
  <2>4. CASE SaveTunnel(h)
    BY <1>2, <2>4 DEF SaveTunnel
  <2> QED
    BY <1>4, <2>1, <2>2, <2>3, <2>4 DEF PrepareTunnel
<1>5. ASSUME NEW h \in Handler, PrepareForward(h)
      PROVE  JobsCover'
  <2>1. ASSUME NEW req \in ForwardRequest, BeginForward(h, req)
        PROVE  JobsCover'
    BY <1>1, <2>1 DEF BeginForward
  <2>2. CASE GetTunnel(h)
    BY <1>1, <1>2, <2>2, EffectiveCovers DEF GetTunnel
  <2>3. CASE GetNodes(h)
    <3>1. job[h] \in [pc : {"getNodes", "listForwardPorts"}, req : FilledRequest,
                      candidates : Candidates]
      BY <2>3, JobAt DEF GetNodes
    <3> DEFINE j == [job[h] EXCEPT !.pc = "listForwardPorts"]
    <3>2. /\ j.pc = "listForwardPorts"
          /\ j.candidates = job[h].candidates /\ j.req = job[h].req
      BY <3>1
    <3>3. Covers(job[h].candidates, job[h].req.protocols)
      BY <2>3 DEF GetNodes, JobsCover
    <3>4. job' = [job EXCEPT ![h] = j] \/ Done(h)
      BY <2>3 DEF GetNodes
    <3> HIDE DEF j
    <3> QED
      BY <1>1, <1>2, <3>2, <3>3, <3>4
  <2>4. CASE ListForwardPorts(h)
    <3>1. Covers(job[h].candidates, job[h].req.protocols)
      BY <2>4 DEF ListForwardPorts, JobsCover
    <3> QED
      BY <1>1, <1>2, <2>4, <3>1 DEF ListForwardPorts
  <2>5. CASE SaveForward(h)
    BY <1>2, <2>5 DEF SaveForward
  <2> QED
    BY <1>5, <2>1, <2>2, <2>3, <2>4, <2>5 DEF PrepareForward
<1>6. \/ \E h \in Handler : PrepareTunnel(h) \/ PrepareForward(h)
      \/ UNCHANGED job
  BY DEF Next, DeleteTunnel, SetTunnelEnabled, DeleteForward, SetForwardEnabled, RevokeNode, vars
<1> QED
  BY <1>3, <1>4, <1>5, <1>6
LEMMA StageOwnersOf ==
  ASSUME NEW t, NEW row, NEW o \in StageOwners(t, row)
  PROVE  Len(o) = 4 /\ o[1] = "tunnel_stage_node" /\ o[2] = t
BY DEF StageOwners, StageOwner

\* Tunnels and forwards do not own each other's ports.
LEMMA OwnersApart ==
  /\ \A f, g : ForwardOwner(f) = ForwardOwner(g) => f = g
  /\ \A f, t, row : ForwardOwner(f) \notin StageOwners(t, row)
  /\ \A t, u, row, other : t # u => StageOwners(t, row) \cap StageOwners(u, other) = {}
<1>1. \A f, g : ForwardOwner(f) = ForwardOwner(g) => f = g
  BY DEF ForwardOwner
<1>2. \A f : ForwardOwner(f)[1] = "forward"
  BY DEF ForwardOwner
<1> QED
  BY <1>1, <1>2, StageOwnersOf

\* A row of the table that belongs to a forward, or to a tunnel.
OfForward(a, f) ==
  /\ a.owner = ForwardOwner(f) /\ forwards[f] # Absent
  /\ a.port = forwards[f].listen /\ a.protocol \in forwards[f].protocols
OfTunnel(a, t) == tunnels[t] # Absent /\ a \in StageAllocations(t, tunnels[t])

LEMMA OwnedMeans ==
  AllocationsOwned <=> \A a \in allocations : \/ \E f \in Forward : OfForward(a, f)
                                              \/ \E t \in Tunnel : OfTunnel(a, t)
BY DEF AllocationsOwned, OfForward, OfTunnel

LEMMA OfTunnelOwner ==
  ASSUME TypeOK, NEW t \in Tunnel, NEW a, OfTunnel(a, t)
  PROVE  a.owner \in StageOwners(t, tunnels[t])
BY StageAllocationsType DEF OfTunnel, TypeOK

LEMMA SaveTunnelAgrees ==
  ASSUME AgreeInv, TypeOK', NEW h \in Handler, SaveTunnel(h)
  PROVE  RowsAgree'
<1> DEFINE t == job[h].id
           row == job[h].row
           kept == NotOwnedBy(StageOwners(t, tunnels[t]))
           new == StageAllocations(t, row)
<1>0. TypeOK /\ AllocationsOwned /\ RowsAllocated
  BY DEF AgreeInv, RowsAgree
<1>1. t \in Tunnel /\ row \in TunnelRow /\ row # Absent
  BY <1>0, JobAt, AbsentAssumption DEF SaveTunnel
<1>2. CASE UNCHANGED tables
  BY <1>0, <1>2 DEF tables, RowsAgree, AllocationsOwned, RowsAllocated, StageAllocations
<1>3. CASE /\ allocations' = kept \cup new
           /\ tunnels' = [tunnels EXCEPT ![t] = row]
           /\ UNCHANGED forwards
  <2>1. tunnels'[t] = row /\ \A u \in Tunnel \ {t} : tunnels'[u] = tunnels[u]
    BY <1>0, <1>1, <1>3 DEF TypeOK
  <2>2. ASSUME NEW a \in allocations'
        PROVE  (\E f \in Forward : OfForward(a, f)') \/ (\E u \in Tunnel : OfTunnel(a, u)')
    <3>1. CASE a \in new
      BY <1>1, <2>1, <3>1 DEF OfTunnel
    <3>2. ASSUME a \in kept, NEW f \in Forward, OfForward(a, f)
          PROVE  OfForward(a, f)'
      BY <1>3, <3>2 DEF OfForward
    <3>3. ASSUME a \in kept, NEW u \in Tunnel, OfTunnel(a, u)
          PROVE  OfTunnel(a, u)'
      <4>1. u # t
        BY <1>0, <3>3, OfTunnelOwner DEF NotOwnedBy
      <4> QED
        BY <2>1, <3>3, <4>1 DEF OfTunnel
    <3> QED
      BY <1>0, <1>3, <3>1, <3>2, <3>3, OwnedMeans DEF NotOwnedBy
  <2>3. AllocationsOwned'
    BY <2>2 DEF AllocationsOwned, OfForward, OfTunnel
  <2>4. ASSUME NEW u \in Tunnel, tunnels'[u] # Absent
        PROVE  StageAllocations(u, tunnels'[u]) \subseteq allocations'
    <3>1. CASE u = t
      BY <1>3, <2>1, <3>1
    <3>2. CASE u # t
      <4>1. tunnels[u] \in TunnelRow /\ tunnels'[u] = tunnels[u]
        BY <1>0, <2>1, <2>4, <3>2 DEF TypeOK
      <4>2. ASSUME NEW a \in StageAllocations(u, tunnels[u])
            PROVE  a \in kept
        <5>1. a \in allocations
          BY <1>0, <2>4, <4>1 DEF RowsAllocated
        <5>2. a.owner \notin StageOwners(t, tunnels[t])
          BY <3>2, <4>1, StageAllocationsType, OwnersApart
        <5> QED
          BY <5>1, <5>2 DEF NotOwnedBy
      <4> QED
        BY <1>3, <4>1, <4>2
    <3> QED
      BY <3>1, <3>2
  <2>5. ASSUME NEW f \in Forward, forwards'[f] # Absent, NEW p \in forwards'[f].protocols
        PROVE  \E a \in allocations' :
                 a.owner = ForwardOwner(f) /\ a.protocol = p /\ a.port = forwards'[f].listen
    <3>1. PICK a \in allocations :
                 a.owner = ForwardOwner(f) /\ a.protocol = p /\ a.port = forwards[f].listen
      BY <1>0, <1>3, <2>5 DEF RowsAllocated
    <3>2. a \in kept
      BY <3>1, OwnersApart DEF NotOwnedBy
    <3> QED
      BY <1>3, <3>1, <3>2
  <2> QED
    BY <2>3, <2>4, <2>5 DEF RowsAgree, RowsAllocated, StageAllocations
<1> QED
  BY <1>2, <1>3 DEF SaveTunnel
LEMMA SaveForwardAgrees ==
  ASSUME AgreeInv, NEW h \in Handler, SaveForward(h)
  PROVE  RowsAgree'
<1> DEFINE f == job[h].id
           row == job[h].row
           candidates == job[h].candidates
           kept == NotOwnedBy({ForwardOwner(f)})
           new == ForwardAllocations(f, row, candidates)
<1>0. TypeOK /\ JobsCover /\ AllocationsOwned /\ RowsAllocated
  BY DEF AgreeInv, RowsAgree
<1>1. f \in Forward /\ row \in ForwardRow /\ row # Absent /\ candidates \in Candidates
  BY <1>0, JobAt, AbsentAssumption DEF SaveForward
<1>2. Covers(candidates, row.protocols)
  BY <1>0 DEF JobsCover, SaveForward
<1>3. CASE UNCHANGED tables
  BY <1>0, <1>3 DEF tables, RowsAgree, AllocationsOwned, RowsAllocated, StageAllocations
<1>4. CASE /\ allocations' = kept \cup new
           /\ forwards' = [forwards EXCEPT ![f] = row]
           /\ UNCHANGED tunnels
  <2>1. forwards'[f] = row /\ \A g \in Forward \ {f} : forwards'[g] = forwards[g]
    BY <1>0, <1>1, <1>4 DEF TypeOK
  <2>2. ASSUME NEW a \in allocations'
        PROVE  (\E g \in Forward : OfForward(a, g)') \/ (\E u \in Tunnel : OfTunnel(a, u)')
    <3>1. CASE a \in new
      <4>1. a.protocol \in row.protocols
        BY <1>2, <3>1 DEF ForwardAllocations, Covers
      <4>2. /\ a.owner = ForwardOwner(f) /\ forwards'[f] # Absent
            /\ a.port = forwards'[f].listen /\ a.protocol \in forwards'[f].protocols
        BY SMTT(60), <1>1, <2>1, <3>1, <4>1, ForwardAllocationsType
      <4> QED
        BY <1>1, <4>2 DEF OfForward
    <3>2. ASSUME a \in kept, NEW g \in Forward, OfForward(a, g)
          PROVE  OfForward(a, g)'
      <4>1. g # f
        BY <3>2 DEF NotOwnedBy, OfForward
      <4> QED
        BY <2>1, <3>2, <4>1 DEF OfForward
    <3>3. ASSUME a \in kept, NEW u \in Tunnel, OfTunnel(a, u)
          PROVE  OfTunnel(a, u)'
      BY <1>4, <3>3 DEF OfTunnel
    <3> QED
      BY <1>0, <1>4, <3>1, <3>2, <3>3, OwnedMeans DEF NotOwnedBy
  <2>3. AllocationsOwned'
    BY <2>2 DEF AllocationsOwned, OfForward, OfTunnel
  <2>4. ASSUME NEW u \in Tunnel, tunnels'[u] # Absent
        PROVE  StageAllocations(u, tunnels'[u]) \subseteq allocations'
    <3>1. tunnels'[u] = tunnels[u] /\ tunnels[u] \in TunnelRow
      BY <1>0, <1>4, <2>4 DEF TypeOK
    <3>2. ASSUME NEW a \in StageAllocations(u, tunnels[u])
          PROVE  a \in kept
      <4>1. a \in allocations
        BY <1>0, <2>4, <3>1 DEF RowsAllocated
      <4>2. a.owner # ForwardOwner(f)
        BY <3>1, StageAllocationsType, OwnersApart
      <4> QED
        BY <4>1, <4>2 DEF NotOwnedBy
    <3> QED
      BY <1>4, <3>1, <3>2
  <2>5. ASSUME NEW g \in Forward, forwards'[g] # Absent, NEW p \in forwards'[g].protocols
        PROVE  \E a \in allocations' :
                 a.owner = ForwardOwner(g) /\ a.protocol = p /\ a.port = forwards'[g].listen
    <3>1. CASE g = f
      <4>1. PICK n \in DOMAIN candidates : p \in candidates[n]
        BY <1>2, <2>1, <2>5, <3>1 DEF Covers
      <4> DEFINE a == [node |-> n, owner |-> ForwardOwner(f), protocol |-> p,
                       port |-> row.listen]
      <4>2. a \in new
        BY <4>1 DEF ForwardAllocations
      <4> QED
        BY <1>4, <2>1, <3>1, <4>2
    <3>2. CASE g # f
      <4>1. PICK a \in allocations :
                 a.owner = ForwardOwner(g) /\ a.protocol = p /\ a.port = forwards[g].listen
        BY <1>0, <2>1, <2>5, <3>2 DEF RowsAllocated
      <4>2. a \in kept
        BY <3>2, <4>1, OwnersApart DEF NotOwnedBy
      <4> QED
        BY <1>4, <2>1, <3>2, <4>1, <4>2
    <3> QED
      BY <3>1, <3>2
  <2> QED
    BY <2>3, <2>4, <2>5 DEF RowsAgree, RowsAllocated, StageAllocations
<1> QED
  BY <1>3, <1>4 DEF SaveForward

\* DeleteTunnel takes its own allocations and those of the forwards it
\* deletes, and nobody else's.
LEMMA DeleteTunnelAgrees ==
  ASSUME AgreeInv, NEW t \in Tunnel, NEW force \in BOOLEAN, DeleteTunnel(t, force)
  PROVE  RowsAgree'
<1> DEFINE owners == StageOwners(t, tunnels[t]) \cup {ForwardOwner(f) : f \in ForwardsOf(t)}
<1>0. TypeOK /\ AllocationsOwned /\ RowsAllocated
  BY DEF AgreeInv, RowsAgree
<1>1. /\ tunnels'[t] = Absent /\ \A u \in Tunnel \ {t} : tunnels'[u] = tunnels[u]
      /\ \A f \in ForwardsOf(t) : forwards'[f] = Absent
      /\ \A f \in Forward \ ForwardsOf(t) : forwards'[f] = forwards[f]
  BY <1>0 DEF DeleteTunnel, TypeOK, ForwardsOf
<1>2. allocations' = {a \in allocations : a.owner \notin owners}
  BY DEF DeleteTunnel, NotOwnedBy
<1>3. ASSUME NEW a \in allocations'
      PROVE  (\E f \in Forward : OfForward(a, f)') \/ (\E u \in Tunnel : OfTunnel(a, u)')
  <2>1. ASSUME NEW f \in Forward, OfForward(a, f)
        PROVE  OfForward(a, f)'
    <3>1. f \notin ForwardsOf(t)
      BY <1>2, <2>1 DEF OfForward
    <3> QED
      BY <1>1, <2>1, <3>1 DEF OfForward
  <2>2. ASSUME NEW u \in Tunnel, OfTunnel(a, u)
        PROVE  OfTunnel(a, u)'
    <3>1. u # t
      BY <1>0, <1>2, <2>2, OfTunnelOwner
    <3> QED
      BY <1>1, <2>2, <3>1 DEF OfTunnel
  <2> QED
    BY <1>0, <1>2, <2>1, <2>2, OwnedMeans
<1>4. AllocationsOwned'
  BY <1>3 DEF AllocationsOwned, OfForward, OfTunnel
<1>5. ASSUME NEW u \in Tunnel, tunnels'[u] # Absent
      PROVE  StageAllocations(u, tunnels'[u]) \subseteq allocations'
  <2>1. u # t /\ tunnels'[u] = tunnels[u] /\ tunnels[u] \in TunnelRow
    BY <1>0, <1>1, <1>5 DEF TypeOK
  <2>2. ASSUME NEW a \in StageAllocations(u, tunnels[u])
        PROVE  a \in allocations'
    <3>1. a \in allocations
      BY <1>0, <1>5, <2>1 DEF RowsAllocated
    <3>2. a.owner \in StageOwners(u, tunnels[u])
      BY <2>1, StageAllocationsType
    <3>3. a.owner \notin owners
      BY <2>1, <3>2, OwnersApart
    <3> QED
      BY <1>2, <3>1, <3>3
  <2> QED
    BY <2>1, <2>2
<1>6. ASSUME NEW f \in Forward, forwards'[f] # Absent, NEW p \in forwards'[f].protocols
      PROVE  \E a \in allocations' :
               a.owner = ForwardOwner(f) /\ a.protocol = p /\ a.port = forwards'[f].listen
  <2>1. f \notin ForwardsOf(t) /\ forwards'[f] = forwards[f]
    BY <1>1, <1>6
  <2>2. PICK a \in allocations :
               a.owner = ForwardOwner(f) /\ a.protocol = p /\ a.port = forwards[f].listen
    BY <1>0, <1>6, <2>1 DEF RowsAllocated
  <2>3. a.owner \notin owners
    BY <2>1, <2>2, OwnersApart
  <2> QED
    BY <1>2, <2>1, <2>2, <2>3
<1> QED
  BY <1>4, <1>5, <1>6 DEF RowsAgree, RowsAllocated, StageAllocations

LEMMA DeleteForwardAgrees ==
  ASSUME AgreeInv, NEW f \in Forward, DeleteForward(f)
  PROVE  RowsAgree'
<1>0. TypeOK /\ AllocationsOwned /\ RowsAllocated
  BY DEF AgreeInv, RowsAgree
<1>1. /\ forwards'[f] = Absent /\ \A g \in Forward \ {f} : forwards'[g] = forwards[g]
      /\ tunnels' = tunnels
      /\ allocations' = {a \in allocations : a.owner # ForwardOwner(f)}
  BY <1>0 DEF DeleteForward, TypeOK, NotOwnedBy
<1>2. ASSUME NEW a \in allocations'
      PROVE  (\E g \in Forward : OfForward(a, g)') \/ (\E u \in Tunnel : OfTunnel(a, u)')
  <2>1. ASSUME NEW g \in Forward, OfForward(a, g)
        PROVE  OfForward(a, g)'
    BY <1>1, <2>1 DEF OfForward
  <2>2. ASSUME NEW u \in Tunnel, OfTunnel(a, u)
        PROVE  OfTunnel(a, u)'
    BY <1>1, <2>2 DEF OfTunnel
  <2> QED
    BY <1>0, <1>1, <2>1, <2>2, OwnedMeans
<1>3. AllocationsOwned'
  BY <1>2 DEF AllocationsOwned, OfForward, OfTunnel
<1>4. ASSUME NEW u \in Tunnel, tunnels'[u] # Absent, NEW a \in StageAllocations(u, tunnels'[u])
      PROVE  a \in allocations'
  <2>1. tunnels[u] \in TunnelRow /\ a \in allocations
    BY <1>0, <1>1, <1>4 DEF TypeOK, RowsAllocated
  <2>2. a.owner # ForwardOwner(f)
    BY <1>1, <1>4, <2>1, StageAllocationsType, OwnersApart
  <2> QED
    BY <1>1, <2>1, <2>2
<1>5. ASSUME NEW g \in Forward, forwards'[g] # Absent, NEW p \in forwards'[g].protocols
      PROVE  \E a \in allocations' :
               a.owner = ForwardOwner(g) /\ a.protocol = p /\ a.port = forwards'[g].listen
  <2>1. g # f /\ forwards'[g] = forwards[g]
    BY <1>1, <1>5
  <2>2. PICK a \in allocations :
               a.owner = ForwardOwner(g) /\ a.protocol = p /\ a.port = forwards[g].listen
    BY <1>0, <1>5, <2>1 DEF RowsAllocated
  <2> QED
    BY <1>1, <2>1, <2>2, OwnersApart
<1> QED
  BY <1>3, <1>4, <1>5 DEF RowsAgree, RowsAllocated, StageAllocations

\* The stages and ports of every tunnel, and the port, protocols and presence
\* of every forward.
SameRows ==
  /\ \A t \in Tunnel : tunnels'[t] # Absent <=> tunnels[t] # Absent
  /\ \A t \in Tunnel : tunnels[t] # Absent => tunnels'[t].stages = tunnels[t].stages
  /\ \A f \in Forward : forwards'[f] # Absent <=> forwards[f] # Absent
  /\ \A f \in Forward : forwards[f] # Absent =>
       forwards'[f].listen = forwards[f].listen /\ forwards'[f].protocols = forwards[f].protocols

LEMMA SameRowsAgree ==
  ASSUME RowsAgree, SameRows, UNCHANGED allocations
  PROVE  RowsAgree'
<1>1. \A t \in Tunnel : tunnels[t] # Absent =>
        StageAllocations(t, tunnels'[t]) = StageAllocations(t, tunnels[t])
  BY DEF SameRows, StageAllocations
<1>2. \A t \in Tunnel : tunnels[t] # Absent =>
        StageAllocations(t, tunnels[t])' = StageAllocations(t, tunnels[t])
  BY <1>1 DEF StageAllocations
<1>3. AllocationsOwned'
  BY <1>2 DEF RowsAgree, AllocationsOwned, SameRows
<1>4. RowsAllocated'
  BY <1>2 DEF RowsAgree, RowsAllocated, SameRows
<1> QED
  BY <1>3, <1>4 DEF RowsAgree

LEMMA SetTunnelEnabledSame ==
  ASSUME TypeOK, NEW t \in Tunnel, NEW s \in Switch, SetTunnelEnabled(t, s)
  PROVE  SameRows
<1>1. tunnels[t] \in TunnelRow
  BY DEF TypeOK, SetTunnelEnabled
<1> DEFINE row == [tunnels[t] EXCEPT !.enabled = s]
<1>2. row \in TunnelRow /\ row.stages = tunnels[t].stages
  BY <1>1 DEF TunnelRow
<1>3. row # Absent
  BY <1>2, AbsentAssumption
<1>4. tunnels'[t] = row /\ \A u \in Tunnel \ {t} : tunnels'[u] = tunnels[u]
  BY DEF TypeOK, SetTunnelEnabled
<1> HIDE DEF row
<1> QED
  BY <1>2, <1>3, <1>4 DEF SameRows, SetTunnelEnabled

LEMMA SetForwardEnabledSame ==
  ASSUME TypeOK, NEW f \in Forward, NEW s \in Switch, SetForwardEnabled(f, s)
  PROVE  SameRows
<1>1. forwards[f] \in ForwardRow
  BY DEF TypeOK, SetForwardEnabled
<1> DEFINE row == [forwards[f] EXCEPT !.enabled = s]
<1>2. row \in ForwardRow /\ row.listen = forwards[f].listen
      /\ row.protocols = forwards[f].protocols
  BY <1>1 DEF ForwardRow
<1>3. row # Absent
  BY <1>2, AbsentAssumption
<1>4. forwards'[f] = row /\ \A g \in Forward \ {f} : forwards'[g] = forwards[g]
  BY DEF TypeOK, SetForwardEnabled
<1> HIDE DEF row
<1> QED
  BY <1>2, <1>3, <1>4 DEF SameRows, SetForwardEnabled

LEMMA AgreeStep == AgreeInv /\ [Next]_vars => AgreeInv'
<1> SUFFICES ASSUME AgreeInv, [Next]_vars
             PROVE  RowsAgree'
  BY TypeStep, CoverStep DEF AgreeInv
<1>0. TypeOK /\ RowsAgree
  BY DEF AgreeInv
<1>1. ASSUME UNCHANGED <<tunnels, forwards, allocations>>
      PROVE  RowsAgree'
  BY <1>0, <1>1, SameRowsAgree DEF SameRows
<1>2. ASSUME NEW h \in Handler, PrepareTunnel(h)
      PROVE  RowsAgree'
  BY <1>1, <1>2, TypeStep, SaveTunnelAgrees
  DEF PrepareTunnel, BeginTunnel, ListNodes, ListTunnelPorts, tables, AgreeInv
<1>3. ASSUME NEW h \in Handler, PrepareForward(h)
      PROVE  RowsAgree'
  BY <1>1, <1>3, SaveForwardAgrees
  DEF PrepareForward, BeginForward, GetTunnel, GetNodes, ListForwardPorts, tables
<1>4. ASSUME NEW t \in Tunnel, NEW s \in Switch, SetTunnelEnabled(t, s)
      PROVE  RowsAgree'
  BY <1>0, <1>4, SetTunnelEnabledSame, SameRowsAgree DEF SetTunnelEnabled
<1>5. ASSUME NEW f \in Forward, NEW s \in Switch, SetForwardEnabled(f, s)
      PROVE  RowsAgree'
  BY <1>0, <1>5, SetForwardEnabledSame, SameRowsAgree DEF SetForwardEnabled
<1>6. ASSUME NEW n \in Node, RevokeNode(n)
      PROVE  RowsAgree'
  BY <1>1, <1>6 DEF RevokeNode
<1>7. CASE UNCHANGED vars
  BY <1>1, <1>7 DEF vars
<1> QED
  BY <1>2, <1>3, <1>4, <1>5, <1>6, <1>7, DeleteTunnelAgrees, DeleteForwardAgrees DEF Next

LEMMA AgreeInitially == Init => AgreeInv
<1> SUFFICES ASSUME Init
             PROVE  AgreeInv
  OBVIOUS
<1>1. TypeOK
  BY IdleIsJob, MaxRevAssumption DEF Init, TypeOK
<1>2. JobsCover
  BY DEF Init, JobsCover, Idle
<1> QED
  BY <1>1, <1>2 DEF Init, AgreeInv, RowsAgree, AllocationsOwned, RowsAllocated

-----------------------------------------------------------------------------
(* Forwards hold their ports on the entry nodes *)

\* The forward's allocations are those its row and its tunnel's entry ask for.
OnEntry(f) ==
  LET row == forwards[f]
      tunnel == tunnels[row.tunnel]
  IN  tunnel # Absent =>
        {a \in allocations : a.owner = ForwardOwner(f)}
          = ForwardAllocations(f, row, EntryCandidates(tunnel, row.protocols))

\* The candidates a job carries are those of the tunnel's entry now.
Current(t, protocols, candidates) ==
  tunnels[t] # Absent => candidates = EntryCandidates(tunnels[t], protocols)

ReadsCurrent(j) ==
  /\ j.pc \in {"getNodes", "listForwardPorts"} =>
       Current(j.req.tunnel, j.req.protocols, j.candidates)
  /\ j.pc = "saveForward" => Current(j.row.tunnel, j.row.protocols, j.candidates)

\* A save that relies on the present entry leaves a forward that does.
EntryInv ==
  /\ \A f \in Forward \ moved : forwards[f] # Absent => OnEntry(f)
  /\ \A h \in Handler \ moved : ReadsCurrent(job[h])

\* The entry of a tunnel that exists is what it was.
SameEntry(t) ==
  tunnels'[t] # Absent => tunnels[t] # Absent /\ tunnels'[t].entry = tunnels[t].entry

LEMMA SameCandidates ==
  ASSUME NEW row, NEW other, NEW protocols, row.entry = other.entry
  PROVE  EntryCandidates(row, protocols) = EntryCandidates(other, protocols)
BY DEF EntryCandidates

LEMMA OnEntryStays ==
  ASSUME NEW f \in Forward, OnEntry(f),
         forwards'[f].tunnel = forwards[f].tunnel, forwards'[f].listen = forwards[f].listen,
         forwards'[f].protocols = forwards[f].protocols,
         SameEntry(forwards[f].tunnel),
         {a \in allocations' : a.owner = ForwardOwner(f)}
           = {a \in allocations : a.owner = ForwardOwner(f)}
  PROVE  OnEntry(f)'
<1> DEFINE t == forwards[f].tunnel
           protocols == forwards[f].protocols
           candidates == EntryCandidates(tunnels'[t], protocols)
<1>1. OnEntry(f)' <=>
        (tunnels'[t] # Absent =>
           {a \in allocations' : a.owner = ForwardOwner(f)}
             = ForwardAllocations(f, forwards'[f], candidates))
  BY DEF OnEntry, ForwardAllocations, EntryCandidates, ForwardOwner
<1>2. ASSUME tunnels'[t] # Absent
      PROVE  tunnels[t] # Absent /\ candidates = EntryCandidates(tunnels[t], protocols)
  BY <1>2, SameCandidates DEF SameEntry
<1>3. \A c : ForwardAllocations(f, forwards'[f], c) = ForwardAllocations(f, forwards[f], c)
  BY DEF ForwardAllocations
<1> QED
  BY <1>1, <1>2, <1>3 DEF OnEntry

LEMMA ReadsStay ==
  ASSUME NEW h \in Handler, ReadsCurrent(job[h]), job'[h] = job[h],
         \A t : h \in ReadersOf(t) => SameEntry(t)
  PROVE  ReadsCurrent(job[h])'
<1>1. ASSUME job[h].pc \in {"getNodes", "listForwardPorts"}
      PROVE  Current(job[h].req.tunnel, job[h].req.protocols, job[h].candidates)'
  BY <1>1, SameCandidates DEF ReadsCurrent, Current, ReadersOf, SameEntry
<1>2. ASSUME job[h].pc = "saveForward"
      PROVE  Current(job[h].row.tunnel, job[h].row.protocols, job[h].candidates)'
  BY <1>2, SameCandidates DEF ReadsCurrent, Current, ReadersOf, SameEntry
<1> QED
  BY <1>1, <1>2 DEF ReadsCurrent

\* A step of one handler that reads.
LEMMA ReadStep ==
  ASSUME TypeOK, EntryInv, NEW h \in Handler, NEW j, job' = [job EXCEPT ![h] = j],
         UNCHANGED tables, moved' \in {moved, moved \ {h}}, h \notin moved' => ReadsCurrent(j)
  PROVE  EntryInv'
<1>1. ASSUME NEW f \in Forward \ moved', forwards'[f] # Absent
      PROVE  OnEntry(f)'
  <2>1. f \notin moved /\ OnEntry(f)
    BY <1>1, HistoryAssumption DEF EntryInv, tables
  <2> QED
    BY <2>1, OnEntryStays DEF tables, SameEntry
<1>2. ASSUME NEW g \in Handler \ moved'
      PROVE  ReadsCurrent(job[g])'
  <2>1. ReadsCurrent(job'[g])
    BY <1>2 DEF EntryInv, TypeOK
  <2>2. tunnels' = tunnels
    BY DEF tables
  <2>3. \A t, protocols :
          EntryCandidates(tunnels'[t], protocols) = EntryCandidates(tunnels[t], protocols)
    BY <2>2
  <2> QED
    BY <2>1, <2>2, <2>3 DEF ReadsCurrent, Current
<1> QED
  BY <1>1, <1>2 DEF EntryInv

LEMMA PrepareTunnelEntry ==
  ASSUME TypeOK, EntryInv, NEW h \in Handler,
         \/ \E req \in TunnelRequest : BeginTunnel(h, req)
         \/ ListNodes(h) \/ ListTunnelPorts(h)
  PROVE  EntryInv'
<1>1. ASSUME Done(h), UNCHANGED <<tables, moved>>
      PROVE  EntryInv'
  BY <1>1, ReadStep DEF Done, Idle, ReadsCurrent
<1>2. ASSUME NEW req \in TunnelRequest, BeginTunnel(h, req)
      PROVE  EntryInv'
  BY <1>2, ReadStep DEF BeginTunnel, ReadsCurrent
<1>3. CASE ListNodes(h)
  <2>1. job[h] \in [pc : {"listNodes", "listTunnelPorts"}, req : TunnelRequest,
                    existing : TunnelRow \cup {Absent}]
    BY <1>3, JobAt DEF ListNodes
  <2>2. [job[h] EXCEPT !.pc = "listTunnelPorts"].pc = "listTunnelPorts"
    BY <2>1
  <2> QED
    BY <1>1, <1>3, <2>2, ReadStep DEF ListNodes, ReadsCurrent
<1>4. CASE ListTunnelPorts(h)
  BY <1>1, <1>4, ReadStep DEF ListTunnelPorts, ReadsCurrent
<1> QED
  BY <1>2, <1>3, <1>4

LEMMA PrepareForwardEntry ==
  ASSUME TypeOK, EntryInv, NEW h \in Handler,
         \/ \E req \in ForwardRequest : BeginForward(h, req)
         \/ GetTunnel(h) \/ GetNodes(h) \/ ListForwardPorts(h)
  PROVE  EntryInv'
<1>1. ASSUME Done(h), UNCHANGED <<tables, moved>>
      PROVE  EntryInv'
  BY <1>1, ReadStep DEF Done, Idle, ReadsCurrent
<1>2. ASSUME NEW req \in ForwardRequest, BeginForward(h, req)
      PROVE  EntryInv'
  BY <1>2, ReadStep DEF BeginForward, ReadsCurrent
<1>3. CASE GetTunnel(h)
  <2> DEFINE j == [pc |-> "getNodes", req |-> job[h].req,
                   candidates |-> EntryCandidates(tunnels[job[h].req.tunnel], job[h].req.protocols)]
  <2>1. ReadsCurrent(j)
    BY DEF ReadsCurrent, Current
  <2>2. \/ Done(h) /\ UNCHANGED moved
        \/ job' = [job EXCEPT ![h] = j] /\ moved' = moved \ {h}
    BY <1>3 DEF GetTunnel
  <2>3. UNCHANGED tables
    BY <1>3 DEF GetTunnel
  <2> HIDE DEF j
  <2> QED
    BY <1>1, <2>1, <2>2, <2>3, ReadStep
<1>4. CASE GetNodes(h)
  <2>1. job[h] \in [pc : {"getNodes", "listForwardPorts"}, req : FilledRequest,
                    candidates : Candidates]
    BY <1>4, JobAt DEF GetNodes
  <2> DEFINE j == [job[h] EXCEPT !.pc = "listForwardPorts"]
  <2>2. /\ j.pc = "listForwardPorts"
        /\ j.candidates = job[h].candidates /\ j.req = job[h].req
    BY <2>1
  <2>3. h \notin moved => Current(job[h].req.tunnel, job[h].req.protocols, job[h].candidates)
    BY <1>4 DEF GetNodes, EntryInv, ReadsCurrent
  <2>4. (job' = [job EXCEPT ![h] = j] \/ Done(h)) /\ UNCHANGED <<tables, moved>>
    BY <1>4 DEF GetNodes
  <2> HIDE DEF j
  <2> QED
    BY <1>1, <2>2, <2>3, <2>4, ReadStep DEF ReadsCurrent
<1>5. CASE ListForwardPorts(h)
  <2>1. h \notin moved => Current(job[h].req.tunnel, job[h].req.protocols, job[h].candidates)
    BY <1>5 DEF ListForwardPorts, EntryInv, ReadsCurrent
  <2> DEFINE wanted == LET available == AvailablePorts(job[h].req.id, job[h].candidates)
                       IN  IF job[h].req.listen = Absent THEN available
                           ELSE {job[h].req.listen} \cap available
             row == [tunnel |-> job[h].req.tunnel, protocols |-> job[h].req.protocols,
                     listen |-> Min(wanted), enabled |-> job[h].req.enabled]
             j == [pc |-> "saveForward", id |-> job[h].req.id,
                   candidates |-> job[h].candidates, row |-> row]
  <2>2. h \notin moved => ReadsCurrent(j)
    BY <2>1 DEF ReadsCurrent
  <2>3. (job' = [job EXCEPT ![h] = j] \/ Done(h)) /\ UNCHANGED <<tables, moved>>
    BY <1>5 DEF ListForwardPorts
  <2> HIDE DEF j
  <2> QED
    BY <1>1, <2>2, <2>3, ReadStep
<1> QED
  BY <1>2, <1>3, <1>4, <1>5

\* SaveTunnel leaves the allocations of forwards alone, and marks those that
\* are not where the entry is any more.
LEMMA SaveTunnelEntry ==
  ASSUME TypeOK, EntryInv, NEW h \in Handler, SaveTunnel(h)
  PROVE  EntryInv'
<1> DEFINE t == job[h].id
           row == job[h].row
           kept == NotOwnedBy(StageOwners(t, tunnels[t]))
           new == StageAllocations(t, row)
<1>1. t \in Tunnel /\ row \in TunnelRow
  BY JobAt DEF SaveTunnel
<1>2. CASE UNCHANGED <<tables, moved>>
  BY <1>2, ReadStep DEF SaveTunnel, Done, Idle, ReadsCurrent
<1>3. CASE /\ allocations' = kept \cup new
           /\ tunnels' = [tunnels EXCEPT ![t] = row]
           /\ moved' = IF tunnels[t] # Absent /\ tunnels[t].entry = row.entry THEN moved
                       ELSE moved \cup ForwardsOf(t) \cup ReadersOf(t)
           /\ UNCHANGED forwards
  <2>1. /\ \A u : u # t => SameEntry(u)
        /\ tunnels[t] # Absent /\ tunnels[t].entry = row.entry => SameEntry(t)
    <3>1. tunnels'[t] = row
      BY <1>1, <1>3 DEF TypeOK
    <3>2. \A u : u # t => tunnels'[u] = tunnels[u]
      BY <1>3 DEF TypeOK
    <3> QED
      BY <3>1, <3>2 DEF SameEntry
  <2>2. ASSUME NEW f \in Forward
        PROVE  {a \in allocations' : a.owner = ForwardOwner(f)}
                 = {a \in allocations : a.owner = ForwardOwner(f)}
    <3>1. \A a \in new : a.owner # ForwardOwner(f)
      BY <1>1, StageAllocationsType, OwnersApart
    <3>2. \A a : a.owner = ForwardOwner(f) => (a \in kept <=> a \in allocations)
      BY OwnersApart DEF NotOwnedBy
    <3> HIDE DEF kept, new
    <3> QED
      BY <1>3, <3>1, <3>2
  <2>3. ASSUME NEW f \in Forward \ moved', forwards'[f] # Absent
        PROVE  OnEntry(f)'
    <3>1. OnEntry(f) /\ SameEntry(forwards[f].tunnel)
      BY <1>3, <2>1, <2>3 DEF EntryInv, ForwardsOf
    <3> QED
      BY <1>3, <2>2, <3>1, OnEntryStays
  <2>4. ASSUME NEW g \in Handler \ moved'
        PROVE  ReadsCurrent(job[g])'
    <3>1. CASE g = h
      <4>1. job'[g] = Idle
        BY <3>1 DEF SaveTunnel, Done, TypeOK
      <4> QED
        BY <4>1 DEF ReadsCurrent, Idle
    <3>2. CASE g # h
      <4>1. job'[g] = job[g]
        BY <3>2 DEF SaveTunnel, Done, TypeOK
      <4>2. ReadsCurrent(job[g]) /\ \A u : g \in ReadersOf(u) => SameEntry(u)
        BY <1>3, <2>1, <2>4 DEF EntryInv
      <4> QED
        BY <4>1, <4>2, ReadsStay
    <3> QED
      BY <3>1, <3>2
  <2> QED
    BY <2>3, <2>4 DEF EntryInv
<1> QED
  BY <1>2, <1>3 DEF SaveTunnel

\* SaveForward gives the forward the allocations of the candidates it was
\* prepared with, and passes on whether they are current.
LEMMA SaveForwardEntry ==
  ASSUME TypeOK, EntryInv, NEW h \in Handler, SaveForward(h)
  PROVE  EntryInv'
<1> DEFINE f == job[h].id
           row == job[h].row
           candidates == job[h].candidates
           kept == NotOwnedBy({ForwardOwner(f)})
           new == ForwardAllocations(f, row, candidates)
<1>1. f \in Forward /\ row \in ForwardRow /\ candidates \in Candidates
  BY JobAt DEF SaveForward
<1>2. CASE UNCHANGED <<tables, moved>>
  BY <1>2, ReadStep DEF SaveForward, Done, Idle, ReadsCurrent
<1>3. CASE /\ allocations' = kept \cup new
           /\ forwards' = [forwards EXCEPT ![f] = row]
           /\ moved' = IF h \in moved THEN moved \cup {f} ELSE moved \ {f}
           /\ UNCHANGED tunnels
  <2>1. forwards'[f] = row /\ \A g \in Forward \ {f} : forwards'[g] = forwards[g]
    BY <1>1, <1>3 DEF TypeOK
  <2>2. \A a \in new : a.owner = ForwardOwner(f)
    BY <1>1, ForwardAllocationsType
  <2>3. \A a : a \in kept <=> a \in allocations /\ a.owner # ForwardOwner(f)
    BY DEF NotOwnedBy
  <2>4. ASSUME NEW g \in Forward \ moved', forwards'[g] # Absent
        PROVE  OnEntry(g)'
    <3>1. CASE g = f
      <4>1. h \notin moved
        BY <1>3, <2>4, <3>1
      <4>2. Current(row.tunnel, row.protocols, candidates)
        BY <4>1 DEF EntryInv, ReadsCurrent, SaveForward
      <4>3. {a \in allocations' : a.owner = ForwardOwner(f)} = new
        <5> HIDE DEF kept, new
        <5> QED
          BY <1>3, <2>2, <2>3
      <4>4. OnEntry(g)' <=>
              (tunnels'[forwards'[g].tunnel] # Absent =>
                 {a \in allocations' : a.owner = ForwardOwner(g)}
                   = ForwardAllocations(g, forwards'[g],
                       EntryCandidates(tunnels'[forwards'[g].tunnel], forwards'[g].protocols)))
        BY DEF OnEntry, ForwardAllocations, EntryCandidates, ForwardOwner
      <4>5. forwards'[g] = row /\ tunnels' = tunnels
        BY <1>3, <2>1, <3>1
      <4>6. tunnels[row.tunnel] # Absent =>
              candidates = EntryCandidates(tunnels[row.tunnel], row.protocols)
        BY <4>2 DEF Current
      <4> HIDE DEF row, candidates
      <4> QED
        BY <3>1, <4>3, <4>4, <4>5, <4>6
    <3>2. CASE g # f
      <4>1. forwards'[g] = forwards[g] /\ OnEntry(g)
        BY <1>3, <2>1, <2>4, <3>2 DEF EntryInv
      <4>2. {a \in allocations' : a.owner = ForwardOwner(g)}
              = {a \in allocations : a.owner = ForwardOwner(g)}
        <5>1. ForwardOwner(g) # ForwardOwner(f)
          BY <3>2, OwnersApart
        <5> HIDE DEF kept, new
        <5> QED
          BY <1>3, <2>2, <2>3, <5>1
      <4> QED
        BY <1>3, <4>1, <4>2, OnEntryStays DEF SameEntry
    <3> QED
      BY <3>1, <3>2
  <2>5. ASSUME NEW g \in Handler \ moved'
        PROVE  ReadsCurrent(job[g])'
    <3>1. CASE g = h
      <4>1. job'[g] = Idle
        BY <3>1 DEF SaveForward, Done, TypeOK
      <4> QED
        BY <4>1 DEF ReadsCurrent, Idle
    <3>2. CASE g # h
      <4>1. job'[g] = job[g]
        BY <3>2 DEF SaveForward, Done, TypeOK
      <4>2. ReadsCurrent(job[g])
        BY <1>1, <1>3, <2>5, HistoryAssumption DEF EntryInv
      <4> QED
        BY <1>3, <4>1, <4>2, ReadsStay DEF SameEntry
    <3> QED
      BY <3>1, <3>2
  <2> QED
    BY <2>4, <2>5 DEF EntryInv
<1> QED
  BY <1>2, <1>3 DEF SaveForward

\* Whose reads a transaction outdates: handlers of that tunnel.
LEMMA ReadersKnow ==
  ASSUME TypeOK, NEW h \in Handler, NEW t, h \in ReadersOf(t)
  PROVE  t \in Tunnel
BY JobAt DEF ReadersOf, FilledRequest, ForwardRow

\* The transactions that delete or switch rows move no entry.
LEMMA OtherEntry ==
  ASSUME TypeOK, EntryInv, UNCHANGED <<job, moved>>,
         \A t \in Tunnel : SameEntry(t),
         \A f \in Forward : forwards'[f] # Absent =>
           /\ forwards[f] # Absent
           /\ forwards'[f].tunnel = forwards[f].tunnel
           /\ forwards'[f].listen = forwards[f].listen
           /\ forwards'[f].protocols = forwards[f].protocols
           /\ {a \in allocations' : a.owner = ForwardOwner(f)}
                = {a \in allocations : a.owner = ForwardOwner(f)}
  PROVE  EntryInv'
<1>1. ASSUME NEW f \in Forward \ moved', forwards'[f] # Absent
      PROVE  OnEntry(f)'
  <2>1. forwards[f] # Absent /\ OnEntry(f)
    BY <1>1 DEF EntryInv
  <2>2. forwards[f].tunnel \in Tunnel
    BY <2>1 DEF TypeOK, ForwardRow
  <2> QED
    BY <1>1, <2>1, <2>2, OnEntryStays
<1>2. ASSUME NEW h \in Handler \ moved'
      PROVE  ReadsCurrent(job[h])'
  <2>1. h \in Handler /\ job'[h] = job[h] /\ ReadsCurrent(job[h])
    BY <1>2 DEF EntryInv
  <2>2. \A t : h \in ReadersOf(t) => SameEntry(t)
    BY <2>1, ReadersKnow
  <2> QED
    BY <2>1, <2>2, ReadsStay
<1> QED
  BY <1>1, <1>2 DEF EntryInv

LEMMA OtherTransactionsEntry ==
  ASSUME TypeOK, EntryInv,
         \/ \E t \in Tunnel : \/ \E force \in BOOLEAN : DeleteTunnel(t, force)
                              \/ \E s \in Switch : SetTunnelEnabled(t, s)
         \/ \E f \in Forward : DeleteForward(f) \/ \E s \in Switch : SetForwardEnabled(f, s)
         \/ \E n \in Node : RevokeNode(n)
  PROVE  EntryInv'
<1>1. ASSUME NEW t \in Tunnel, NEW force \in BOOLEAN, DeleteTunnel(t, force)
      PROVE  EntryInv'
  <2>1. \A u \in Tunnel : SameEntry(u)
    BY <1>1 DEF DeleteTunnel, SameEntry, TypeOK
  <2>2. ASSUME NEW f \in Forward, forwards'[f] # Absent
        PROVE  /\ forwards'[f] = forwards[f]
               /\ {a \in allocations' : a.owner = ForwardOwner(f)}
                    = {a \in allocations : a.owner = ForwardOwner(f)}
    <3>1. f \notin ForwardsOf(t) /\ forwards'[f] = forwards[f]
      BY <1>1, <2>2 DEF DeleteTunnel, TypeOK
    <3>2. ForwardOwner(f) \notin StageOwners(t, tunnels[t]) \cup {ForwardOwner(g) : g \in ForwardsOf(t)}
      BY <3>1, OwnersApart
    <3> QED
      BY <1>1, <3>1, <3>2 DEF DeleteTunnel, NotOwnedBy
  <2> QED
    BY <1>1, <2>1, <2>2, OtherEntry DEF DeleteTunnel
<1>2. ASSUME NEW t \in Tunnel, NEW s \in Switch, SetTunnelEnabled(t, s)
      PROVE  EntryInv'
  <2>1. tunnels[t] \in TunnelRow
    BY <1>2 DEF TypeOK, SetTunnelEnabled
  <2>2. [tunnels[t] EXCEPT !.enabled = s].entry = tunnels[t].entry
    BY <2>1 DEF TunnelRow
  <2>3. \A u \in Tunnel : SameEntry(u)
    BY <1>2, <2>2 DEF SetTunnelEnabled, SameEntry, TypeOK
  <2> QED
    BY <1>2, <2>3, OtherEntry DEF SetTunnelEnabled
<1>3. ASSUME NEW f \in Forward, DeleteForward(f)
      PROVE  EntryInv'
  <2>1. ASSUME NEW g \in Forward, forwards'[g] # Absent
        PROVE  /\ forwards'[g] = forwards[g]
               /\ {a \in allocations' : a.owner = ForwardOwner(g)}
                    = {a \in allocations : a.owner = ForwardOwner(g)}
    <3>1. g # f /\ forwards'[g] = forwards[g]
      BY <1>3, <2>1 DEF DeleteForward, TypeOK
    <3>2. ForwardOwner(g) # ForwardOwner(f)
      BY <3>1, OwnersApart
    <3> QED
      BY <1>3, <3>1, <3>2 DEF DeleteForward, NotOwnedBy
  <2> QED
    BY <1>3, <2>1, OtherEntry DEF DeleteForward, SameEntry
<1>4. ASSUME NEW f \in Forward, NEW s \in Switch, SetForwardEnabled(f, s)
      PROVE  EntryInv'
  <2>1. forwards[f] \in ForwardRow
    BY <1>4 DEF TypeOK, SetForwardEnabled
  <2>2. LET row == [forwards[f] EXCEPT !.enabled = s]
        IN  /\ row.tunnel = forwards[f].tunnel /\ row.listen = forwards[f].listen
            /\ row.protocols = forwards[f].protocols
    BY <2>1 DEF ForwardRow
  <2>3. \A g \in Forward : forwards'[g] # Absent =>
          /\ forwards[g] # Absent /\ forwards'[g].tunnel = forwards[g].tunnel
          /\ forwards'[g].listen = forwards[g].listen
          /\ forwards'[g].protocols = forwards[g].protocols
    BY <1>4, <2>2 DEF SetForwardEnabled, TypeOK
  <2> QED
    BY <1>4, <2>3, OtherEntry DEF SetForwardEnabled, SameEntry
<1>5. ASSUME NEW n \in Node, RevokeNode(n)
      PROVE  EntryInv'
  BY <1>5, OtherEntry DEF RevokeNode, SameEntry
<1> QED
  BY <1>1, <1>2, <1>3, <1>4, <1>5

LEMMA EntryStep == TypeOK /\ EntryInv /\ [Next]_vars => EntryInv'
<1> SUFFICES ASSUME TypeOK, EntryInv, [Next]_vars
             PROVE  EntryInv'
  OBVIOUS
<1>1. CASE UNCHANGED vars
  BY <1>1, OtherEntry DEF vars, SameEntry
<1> QED
  BY <1>1, PrepareTunnelEntry, PrepareForwardEntry, SaveTunnelEntry, SaveForwardEntry,
     OtherTransactionsEntry
  DEF Next, PrepareTunnel, PrepareForward

\* After every transaction, whatever requests overtake each other, no port is
\* leaked by an edit or a deletion and none that a row has is missing; and a
\* forward holds its port on exactly the entry nodes its tunnel has, unless
\* SaveTunnel has moved the entry since prepareForward read it.
THEOREM TablesAgree == Spec => [](TypeOK /\ AllocationsAgree)
<1>1. AgreeInv /\ EntryInv => TypeOK /\ AllocationsAgree
  BY DEF AgreeInv, EntryInv, AllocationsAgree, RowsAgree, EntriesAllocated, OnEntry
<1>2. Init => EntryInv
  BY DEF Init, EntryInv, ReadsCurrent, Idle
<1>3. AgreeInv /\ EntryInv /\ [Next]_vars => AgreeInv' /\ EntryInv'
  BY AgreeStep, EntryStep DEF AgreeInv
<1> QED
  BY <1>1, <1>2, <1>3, AgreeInitially, PTL DEF Spec

-----------------------------------------------------------------------------
(* The tables implement the ledger *)

KeyOf(a) == <<a.node, a.protocol, a.port>>
LedgerKey == Node \X Protocol \X Port
LedgerOwner == {<<"tunnel_stage_node", t>> : t \in Tunnel} \cup {<<"forward", f>> : f \in Forward}

\* Since a port has one owner, the choice in Holder is none.
HolderMeans ==
  /\ \A a \in allocations : IsAllocation(a) =>
       KeyOf(a) \in LedgerKey /\ Holder[KeyOf(a)] = Principal(a.owner)
  /\ \A k \in LedgerKey : (\A a \in allocations : KeyOf(a) # k) => Holder[k] = Absent

LEMMA HolderIs == AllocationsUnique => HolderMeans
<1> SUFFICES ASSUME AllocationsUnique
             PROVE  HolderMeans
  OBVIOUS
<1>2. ASSUME NEW a \in allocations, IsAllocation(a)
      PROVE  KeyOf(a) \in LedgerKey /\ Holder[KeyOf(a)] = Principal(a.owner)
  <2> DEFINE held == {b \in allocations : <<b.node, b.protocol, b.port>> = KeyOf(a)}
  <2>1. KeyOf(a) \in LedgerKey
    BY <1>2 DEF KeyOf, LedgerKey, IsAllocation
  <2>2. a \in held
    BY DEF KeyOf
  <2>3. \A b \in held : b = a
    BY DEF KeyOf, AllocationsUnique, SamePort
  <2>4. (CHOOSE b \in held : TRUE) = a
    BY <2>2, <2>3
  <2>5. Holder[KeyOf(a)] = IF held = {} THEN Absent ELSE Principal((CHOOSE b \in held : TRUE).owner)
    BY <2>1 DEF Holder, LedgerKey
  <2> HIDE DEF held
  <2> QED
    BY <2>1, <2>2, <2>4, <2>5
<1>3. ASSUME NEW k \in LedgerKey, \A a \in allocations : KeyOf(a) # k
      PROVE  Holder[k] = Absent
  BY <1>3 DEF Holder, LedgerKey, KeyOf
<1> QED
  BY <1>2, <1>3 DEF HolderMeans

\* Every allocation is some tunnel's or forward's.
LEMMA PrincipalType ==
  ASSUME TypeOK, AllocationsOwned, NEW a \in allocations
  PROVE  Principal(a.owner) \in LedgerOwner
<1>1. ASSUME NEW f \in Forward, OfForward(a, f)
      PROVE  Principal(a.owner) \in LedgerOwner
  BY <1>1 DEF OfForward, Principal, ForwardOwner, LedgerOwner
<1>2. ASSUME NEW t \in Tunnel, OfTunnel(a, t)
      PROVE  Principal(a.owner) \in LedgerOwner
  BY <1>2, OfTunnelOwner, StageOwnersOf DEF Principal, LedgerOwner
<1> QED
  BY <1>1, <1>2, OwnedMeans

HolderTyped == Holder \in [LedgerKey -> LedgerOwner \cup {Absent}]

LEMMA HolderType == TypeOK /\ AllocationsOwned /\ AllocationsUnique => HolderTyped
<1> SUFFICES ASSUME TypeOK, AllocationsOwned, AllocationsUnique
             PROVE  HolderTyped
  OBVIOUS
<1>1. ASSUME NEW k \in LedgerKey
      PROVE  Holder[k] \in LedgerOwner \cup {Absent}
  <2>1. CASE \E a \in allocations : KeyOf(a) = k
    BY <2>1, HolderIs, PrincipalType DEF TypeOK, HolderMeans
  <2>2. CASE \A a \in allocations : KeyOf(a) # k
    BY <2>2, HolderIs DEF HolderMeans
  <2> QED
    BY <2>1, <2>2
<1>2. Holder = [k \in LedgerKey |-> Holder[k]]
  BY DEF Holder, LedgerKey
<1> QED
  BY <1>1, <1>2 DEF HolderTyped

\* What the ledger sees of the tables.
LedgerInv == AgreeInv /\ AllocationsUnique

LEMMA LedgerInvMeans == LedgerInv => TypeOK /\ HolderTyped /\ HolderMeans
BY HolderIs, HolderType DEF LedgerInv, AgreeInv, RowsAgree

\* A transaction that replaces the allocations of one principal is an exchange
\* of the ledger.
LEMMA ExchangeStep ==
  ASSUME LedgerInv, LedgerInv', NEW o \in LedgerOwner, NEW kept \in SUBSET allocations, NEW new,
         allocations' = kept \cup new,
         \A a \in allocations \ kept : Principal(a.owner) = o,
         \A a \in new : Principal(a.owner) = o
  PROVE  Ledger!Next
<1>0. TypeOK /\ HolderTyped /\ HolderMeans /\ AllocationsUnique
  BY LedgerInvMeans DEF LedgerInv
<1>1. TypeOK' /\ HolderTyped' /\ HolderMeans'
  BY LedgerInvMeans, PTL
<1>2. ASSUME NEW k \in LedgerKey, Holder'[k] # Holder[k]
      PROVE  \/ Holder[k] = Absent /\ Holder'[k] = o
             \/ Holder[k] = o /\ Holder'[k] = Absent
  <2>1. ASSUME NEW b \in allocations', KeyOf(b) = k
        PROVE  Holder'[k] = Principal(b.owner)
    BY <1>1, <2>1 DEF HolderMeans, TypeOK, KeyOf, IsAllocation
  <2>2. CASE \E a \in allocations : KeyOf(a) = k
    <3>1. PICK a \in allocations : KeyOf(a) = k
      BY <2>2
    <3>2. Holder[k] = Principal(a.owner)
      BY <1>0, <3>1 DEF HolderMeans, TypeOK
    <3>3. a \notin kept
      BY <1>2, <2>1, <3>1, <3>2
    <3>4. \A b \in kept : KeyOf(b) # k
      BY <1>0, <3>1, <3>3 DEF AllocationsUnique, SamePort, KeyOf
    <3>5. CASE \E b \in new : KeyOf(b) = k
      BY <1>2, <2>1, <3>2, <3>3, <3>5
    <3>6. CASE \A b \in new : KeyOf(b) # k
      BY <1>1, <3>2, <3>3, <3>4, <3>6 DEF HolderMeans, KeyOf
    <3> QED
      BY <3>5, <3>6
  <2>3. CASE \A a \in allocations : KeyOf(a) # k
    <3>1. Holder[k] = Absent
      BY <1>0, <2>3 DEF HolderMeans
    <3>2. CASE \E b \in new : KeyOf(b) = k
      BY <2>1, <3>1, <3>2
    <3>3. CASE \A b \in new : KeyOf(b) # k
      BY <1>1, <1>2, <2>3, <3>1, <3>3 DEF HolderMeans, KeyOf
    <3> QED
      BY <3>2, <3>3
  <2> QED
    BY <2>2, <2>3
<1> QED
  BY <1>1, <1>2 DEF Ledger!Next, Ledger!Exchange, LedgerKey, LedgerOwner, HolderTyped

\* A transaction that only deletes allocations is a release of the ledger.
LEMMA ReleaseStep ==
  ASSUME LedgerInv, LedgerInv', allocations' \in SUBSET allocations
  PROVE  Ledger!Next
<1>0. TypeOK /\ HolderTyped /\ HolderMeans
  BY LedgerInvMeans
<1>1. TypeOK' /\ HolderTyped' /\ HolderMeans'
  BY LedgerInvMeans, PTL
<1>2. ASSUME NEW k \in LedgerKey, Holder'[k] # Holder[k]
      PROVE  Holder'[k] = Absent
  <2>1. ASSUME NEW b \in allocations', KeyOf(b) = k
        PROVE  FALSE
    <3>1. Holder'[k] = Principal(b.owner)
      BY <1>1, <2>1 DEF HolderMeans, TypeOK, KeyOf, IsAllocation
    <3>2. Holder[k] = Principal(b.owner)
      BY <1>0, <2>1 DEF HolderMeans, TypeOK
    <3> QED
      BY <1>2, <3>1, <3>2
  <2> QED
    BY <1>1, <2>1 DEF HolderMeans, KeyOf
<1> QED
  BY <1>1, <1>2 DEF Ledger!Next, Ledger!Release, LedgerKey, LedgerOwner, HolderTyped

LEMMA LedgerStep == LedgerInv /\ LedgerInv' /\ [Next]_vars => [Ledger!Next]_Holder
<1> SUFFICES ASSUME LedgerInv, LedgerInv', [Next]_vars
             PROVE  Ledger!Next \/ UNCHANGED Holder
  OBVIOUS
<1>0. TypeOK
  BY LedgerInvMeans
<1>1. ASSUME UNCHANGED allocations
      PROVE  UNCHANGED Holder
  BY <1>1 DEF Holder
<1>2. ASSUME NEW h \in Handler, SaveTunnel(h), ~UNCHANGED allocations
      PROVE  Ledger!Next
  <2> DEFINE t == job[h].id
             row == job[h].row
             kept == NotOwnedBy(StageOwners(t, tunnels[t]))
             new == StageAllocations(t, row)
             o == <<"tunnel_stage_node", t>>
  <2>1. t \in Tunnel /\ row \in TunnelRow
    BY <1>0, <1>2, JobAt DEF SaveTunnel
  <2>2. o \in LedgerOwner
    BY <2>1 DEF LedgerOwner
  <2>3. allocations' = kept \cup new /\ kept \in SUBSET allocations
    BY <1>2 DEF SaveTunnel, NotOwnedBy, tables
  <2>4. \A a \in allocations \ kept : Principal(a.owner) = o
    BY StageOwnersOf DEF NotOwnedBy, Principal
  <2>5. ASSUME NEW a \in new
        PROVE  Principal(a.owner) = o
    <3>1. a.owner \in StageOwners(t, row)
      BY <2>1, StageAllocationsType
    <3> QED
      BY <3>1, StageOwnersOf DEF Principal
  <2> HIDE DEF o, kept, new
  <2> QED
    BY <2>2, <2>3, <2>4, <2>5, ExchangeStep
<1>3. ASSUME NEW h \in Handler, SaveForward(h), ~UNCHANGED allocations
      PROVE  Ledger!Next
  <2> DEFINE f == job[h].id
             row == job[h].row
             kept == NotOwnedBy({ForwardOwner(f)})
             new == ForwardAllocations(f, row, job[h].candidates)
             o == <<"forward", f>>
  <2>1. f \in Forward /\ row \in ForwardRow /\ job[h].candidates \in Candidates
    BY <1>0, <1>3, JobAt DEF SaveForward
  <2>2. o \in LedgerOwner
    BY <2>1 DEF LedgerOwner
  <2>3. allocations' = kept \cup new /\ kept \in SUBSET allocations
    BY <1>3 DEF SaveForward, NotOwnedBy, tables
  <2>4. \A a \in allocations \ kept : Principal(a.owner) = o
    BY DEF NotOwnedBy, Principal, ForwardOwner
  <2>5. ASSUME NEW a \in new
        PROVE  Principal(a.owner) = o
    <3>1. a.owner = ForwardOwner(f)
      BY <2>1, ForwardAllocationsType
    <3> QED
      BY <3>1 DEF Principal, ForwardOwner
  <2> HIDE DEF o, kept, new
  <2> QED
    BY <2>2, <2>3, <2>4, <2>5, ExchangeStep
<1>4. ASSUME NEW t \in Tunnel, NEW force \in BOOLEAN, DeleteTunnel(t, force)
      PROVE  Ledger!Next
  BY <1>4, ReleaseStep DEF DeleteTunnel, NotOwnedBy
<1>5. ASSUME NEW f \in Forward, DeleteForward(f)
      PROVE  Ledger!Next
  BY <1>5, ReleaseStep DEF DeleteForward, NotOwnedBy
<1>6. ASSUME NEW h \in Handler, PrepareTunnel(h)
      PROVE  Ledger!Next \/ UNCHANGED allocations
  BY <1>2, <1>6 DEF PrepareTunnel, BeginTunnel, ListNodes, ListTunnelPorts, tables
<1>7. ASSUME NEW h \in Handler, PrepareForward(h)
      PROVE  Ledger!Next \/ UNCHANGED allocations
  BY <1>3, <1>7 DEF PrepareForward, BeginForward, GetTunnel, GetNodes, ListForwardPorts, tables
<1>8. ASSUME NEW t \in Tunnel, NEW s \in Switch, SetTunnelEnabled(t, s)
      PROVE  UNCHANGED allocations
  BY <1>8 DEF SetTunnelEnabled
<1>9. ASSUME NEW f \in Forward, NEW s \in Switch, SetForwardEnabled(f, s)
      PROVE  UNCHANGED allocations
  BY <1>9 DEF SetForwardEnabled
<1>10. ASSUME NEW n \in Node, RevokeNode(n)
       PROVE  UNCHANGED allocations
  BY <1>10 DEF RevokeNode
<1>11. UNCHANGED vars => UNCHANGED allocations
  BY DEF vars
<1> QED
  BY <1>1, <1>4, <1>5, <1>6, <1>7, <1>8, <1>9, <1>10, <1>11 DEF Next

\* The transactions implement the ledger of PortLedger: a port goes from one
\* tunnel or forward to another only by way of being free, and no request
\* moves the ports of a third party.
THEOREM TablesImplementLedger == Spec => LedgerSpec
<1>1. Init => LedgerInv /\ Ledger!Init
  BY AgreeInitially DEF Init, LedgerInv, AllocationsUnique, Ledger!Init, Holder
<1>2. LedgerInv /\ [Next]_vars => LedgerInv'
  BY AgreeStep, UniqueStep DEF LedgerInv, Unique, AllocationsUnique
<1> QED
  BY <1>1, <1>2, LedgerStep, PTL DEF Spec, LedgerSpec, Ledger!Spec
-----------------------------------------------------------------------------
(* What the nodes are told *)

\* The stages of a row, one more than it has carriers.
LEMMA StagesAre ==
  ASSUME NEW row \in TunnelRow
  PROVE  /\ Stages(row) \in Seq(Candidates) /\ Len(row.carries) \in Nat
         /\ DOMAIN Stages(row) = 1 .. (Len(row.carries) + 1)
<1>1. row.entry \in Candidates /\ row.carries \in Seq(Candidates)
  BY DEF TunnelRow
<1> QED
  BY <1>1 DEF Stages

\* filterActiveTunnelNodes keeps every stage, or none.
LEMMA ActiveStagesAre ==
  ASSUME NEW row \in TunnelRow, NEW n, StagesOf(n, ActiveStages(row)) # {}
  PROVE  /\ ActiveStages(row) \in Seq(Candidates)
         /\ Len(row.carries) \in Nat /\ Len(ActiveStages(row)) = Len(row.carries) + 1
         /\ DOMAIN ActiveStages(row) = 1 .. (Len(row.carries) + 1)
         /\ DOMAIN ActiveStages(row) = DOMAIN Stages(row)
         /\ \A i \in DOMAIN ActiveStages(row) :
              DOMAIN ActiveStages(row)[i] = DOMAIN Stages(row)[i] \ revoked
<1> DEFINE k == Len(row.carries) + 1
           active == [i \in DOMAIN Stages(row) |->
                        Restrict(Stages(row)[i], DOMAIN Stages(row)[i] \ revoked)]
<1>1. /\ Stages(row) \in Seq(Candidates) /\ Len(row.carries) \in Nat
      /\ DOMAIN Stages(row) = 1 .. k
  BY StagesAre
<1>2. ActiveStages(row) = active
  <2>1. CASE \E i \in DOMAIN active : DOMAIN active[i] = {}
    <3>1. ActiveStages(row) = <<>>
      BY <2>1 DEF ActiveStages
    <3>2. StagesOf(n, <<>>) = {}
      BY DEF StagesOf
    <3> QED
      BY <3>1, <3>2
  <2>2. CASE ~\E i \in DOMAIN active : DOMAIN active[i] = {}
    BY <2>2 DEF ActiveStages
  <2> QED
    BY <2>1, <2>2
<1>3. \A i \in 1 .. k : active[i] = Restrict(Stages(row)[i], DOMAIN Stages(row)[i] \ revoked)
  BY <1>1
<1>4. \A i \in 1 .. k : /\ active[i] \in Candidates
                        /\ DOMAIN active[i] = DOMAIN Stages(row)[i] \ revoked
  <2> SUFFICES ASSUME NEW i \in 1 .. k
               PROVE  /\ active[i] \in Candidates
                      /\ DOMAIN active[i] = DOMAIN Stages(row)[i] \ revoked
    OBVIOUS
  <2> DEFINE c == Stages(row)[i]
             S == DOMAIN c \ revoked
  <2>1. c \in Candidates
    BY <1>1
  <2>2. DOMAIN c \in SUBSET Node /\ c \in [DOMAIN c -> SUBSET Protocol]
    BY <2>1, CandidateType
  <2>3. active[i] = [x \in S |-> c[x]]
    BY <1>3 DEF Restrict
  <2> HIDE DEF c
  <2>4. [x \in S |-> c[x]] \in [S -> SUBSET Protocol] /\ S \in SUBSET Node
    BY <2>2
  <2>5. [x \in S |-> c[x]] \in Candidates
    BY <2>4 DEF Candidates
  <2> QED
    BY <2>3, <2>5 DEF c
<1>5. active \in [1 .. k -> Candidates]
  BY <1>1, <1>4
<1> HIDE DEF active
<1>6. active \in Seq(Candidates) /\ Len(active) = k /\ DOMAIN active = 1 .. k
  <2>1. k \in Nat
    BY <1>1
  <2> HIDE DEF k
  <2> QED
    BY <1>5, <2>1
<1> QED
  BY <1>1, <1>2, <1>4, <1>6

\* scopeConfigForNodeWithActiveNodes, the tunnels.
LEMMA ScopedTunnelsAre ==
  ASSUME NEW n
  PROVE  /\ DOMAIN ScopeConfig(n).tunnels = ScopedTunnels(n)
         /\ \A t \in ScopedTunnels(n) :
              /\ ScopeConfig(n).tunnels[t].stages = ActiveStages(tunnels[t])
              /\ \A i \in DOMAIN ActiveStages(tunnels[t]) :
                   \A m \in DOMAIN ActiveStages(tunnels[t])[i] :
                     ScopeConfig(n).tunnels[t].settings[i][m]
                       = ScopedSettings(n, t, ActiveStages(tunnels[t]), i, m)
BY DEF ScopeConfig

\* Its forwards.
LEMMA ScopedForwardsAre ==
  ASSUME NEW n
  PROVE  /\ \A f : f \in DOMAIN ScopeConfig(n).forwards <=>
              /\ f \in Forward /\ forwards[f] # Absent
              /\ forwards[f].tunnel \in ScopedTunnels(n)
              /\ ScopedForward(n, f, ActiveStages(tunnels[forwards[f].tunnel])).protocols # {}
         /\ \A f \in DOMAIN ScopeConfig(n).forwards :
              ScopeConfig(n).forwards[f]
                = ScopedForward(n, f, ActiveStages(tunnels[forwards[f].tunnel]))
BY DEF ScopeConfig

\* A tunnel a node is told of, and the stages it is told.
LEMMA ScopedTunnelIs ==
  ASSUME TypeOK, NEW n, NEW t \in ScopedTunnels(n)
  PROVE  /\ t \in Tunnel /\ tunnels[t] \in TunnelRow
         /\ StagesOf(n, ActiveStages(tunnels[t])) # {} /\ n \notin revoked
<1>1. /\ t \in Tunnel /\ tunnels[t] # Absent /\ StagesOf(n, ActiveStages(tunnels[t])) # {}
  BY DEF ScopedTunnels
<1>2. tunnels[t] \in TunnelRow
  BY <1>1 DEF TypeOK
<1>3. \A i \in DOMAIN ActiveStages(tunnels[t]) :
         DOMAIN ActiveStages(tunnels[t])[i] = DOMAIN Stages(tunnels[t])[i] \ revoked
  BY <1>1, <1>2, ActiveStagesAre
<1> QED
  BY <1>1, <1>2, <1>3 DEF StagesOf

\* The keys in the settings of a candidate.
LEMMA KeysInSettings ==
  ASSUME NEW n, NEW t, NEW stages, NEW i, NEW m
  PROVE  /\ "server_key" \in ScopedSettings(n, t, stages, i, m) => m = n
         /\ "client_key" \in ScopedSettings(n, t, stages, i, m) => i > 1 /\ n \in DOMAIN stages[i - 1]
         /\ ScopedSettings(n, t, stages, i, m) # {} =>
              m = n \/ (i > 1 /\ n \in DOMAIN stages[i - 1])
<1>1. "server_key" \notin DialerSettings(t)
  BY DEF DialerSettings
<1>2. "client_key" \notin ListenerSettings(t)
  BY DEF ListenerSettings
<1> QED
  BY <1>1, <1>2 DEF ScopedSettings

\* Of a tunnel's keys a node is sent those of its own listener and the client
\* keys of the candidates it dials, and a revoked node none, in every
\* configuration scopeConfigForNodeWithActiveNodes can make of the tables.
THEOREM KeysStayPut == Spec => []KeysStay
<1>1. ASSUME TypeOK PROVE KeysStay
  <2> SUFFICES ASSUME NEW n \in Node
               PROVE  /\ n \in revoked => /\ DOMAIN ScopeConfig(n).tunnels = {}
                                          /\ DOMAIN ScopeConfig(n).forwards = {}
                      /\ \A t \in DOMAIN ScopeConfig(n).tunnels :
                           \A i \in DOMAIN ScopeConfig(n).tunnels[t].stages :
                             \A m \in DOMAIN ScopeConfig(n).tunnels[t].stages[i] :
                               LET stages == ScopeConfig(n).tunnels[t].stages
                                   x == ScopeConfig(n).tunnels[t].settings[i][m]
                               IN  /\ "server_key" \in x => m = n
                                   /\ "client_key" \in x => i - 1 \in StagesOf(n, stages)
                                   /\ x # {} => m = n \/ i - 1 \in StagesOf(n, stages)
    BY DEF KeysStay
  <2>1. n \in revoked => ScopedTunnels(n) = {}
    BY <1>1, ScopedTunnelIs
  <2>2. n \in revoked => DOMAIN ScopeConfig(n).tunnels = {} /\ DOMAIN ScopeConfig(n).forwards = {}
    BY <2>1, ScopedTunnelsAre, ScopedForwardsAre
  <2>3. ASSUME NEW t \in ScopedTunnels(n), NEW i \in DOMAIN ActiveStages(tunnels[t]),
               NEW m \in DOMAIN ActiveStages(tunnels[t])[i]
        PROVE  LET stages == ActiveStages(tunnels[t])
                   x == ScopedSettings(n, t, stages, i, m)
               IN  /\ "server_key" \in x => m = n
                   /\ "client_key" \in x => i - 1 \in StagesOf(n, stages)
                   /\ x # {} => m = n \/ i - 1 \in StagesOf(n, stages)
    <3> DEFINE stages == ActiveStages(tunnels[t])
    <3>1. DOMAIN stages = 1 .. (Len(tunnels[t].carries) + 1) /\ Len(tunnels[t].carries) \in Nat
      BY <1>1, ScopedTunnelIs, ActiveStagesAre
    <3>2. i > 1 => i - 1 \in DOMAIN stages
      BY <3>1
    <3>3. i > 1 /\ n \in DOMAIN stages[i - 1] => i - 1 \in StagesOf(n, stages)
      BY <3>2 DEF StagesOf
    <3> HIDE DEF stages
    <3> QED
      BY <3>3, KeysInSettings DEF stages
  <2>4. ASSUME NEW t \in DOMAIN ScopeConfig(n).tunnels,
               NEW i \in DOMAIN ScopeConfig(n).tunnels[t].stages,
               NEW m \in DOMAIN ScopeConfig(n).tunnels[t].stages[i]
        PROVE  LET stages == ScopeConfig(n).tunnels[t].stages
                   x == ScopeConfig(n).tunnels[t].settings[i][m]
               IN  /\ "server_key" \in x => m = n
                   /\ "client_key" \in x => i - 1 \in StagesOf(n, stages)
                   /\ x # {} => m = n \/ i - 1 \in StagesOf(n, stages)
    <3>1. t \in ScopedTunnels(n) /\ ScopeConfig(n).tunnels[t].stages = ActiveStages(tunnels[t])
      BY ScopedTunnelsAre
    <3>2. i \in DOMAIN ActiveStages(tunnels[t]) /\ m \in DOMAIN ActiveStages(tunnels[t])[i]
      BY <3>1
    <3>3. ScopeConfig(n).tunnels[t].settings[i][m]
            = ScopedSettings(n, t, ActiveStages(tunnels[t]), i, m)
      BY <3>1, <3>2, ScopedTunnelsAre
    <3> QED
      BY <2>3, <3>1, <3>2, <3>3
  <2> QED
    BY <2>2, <2>4
<1> QED
  BY <1>1, TablesAgree, PTL

\* In the tables and in what is about to be saved, no node is in two stages.
ApartInv ==
  /\ \A t \in Tunnel : tunnels[t] # Absent => Apart(Stages(tunnels[t]))
  /\ \A h \in Handler : job[h].pc = "saveTunnel" => Apart(Stages(job[h].row))

\* A handler's step that saves nothing and has no row to save afterwards.
LEMMA ApartJob ==
  ASSUME TypeOK, ApartInv, NEW h \in Handler, UNCHANGED tunnels, NEW j,
         job' = [job EXCEPT ![h] = j], j.pc = "saveTunnel" => Apart(Stages(j.row))
  PROVE  ApartInv'
<1>1. \A g \in Handler : job'[g] = IF g = h THEN j ELSE job[g]
  BY DEF TypeOK
<1>2. ASSUME NEW g \in Handler, job'[g].pc = "saveTunnel"
      PROVE  Apart(Stages(job'[g].row))
  BY <1>1, <1>2 DEF ApartInv
<1> QED
  BY <1>2 DEF ApartInv, Apart, Stages

LEMMA ApartPrepareTunnel ==
  ASSUME TypeOK, ApartInv, NEW h \in Handler, PrepareTunnel(h)
  PROVE  ApartInv'
<1>1. Idle.pc = "idle"
  BY DEF Idle
<1>2. ASSUME NEW req \in TunnelRequest, BeginTunnel(h, req)
      PROVE  ApartInv'
  <2> DEFINE j == [pc |-> "listNodes", req |-> req, existing |-> tunnels[req.id]]
  <2>1. j.pc = "listNodes" /\ job' = [job EXCEPT ![h] = j] /\ UNCHANGED tunnels
    BY <1>2 DEF BeginTunnel, tables
  <2> HIDE DEF j
  <2> QED
    BY <2>1, ApartJob
<1>3. CASE ListNodes(h)
  <2> DEFINE j == [job[h] EXCEPT !.pc = "listTunnelPorts"]
  <2>1. job[h] \in [pc : {"listNodes", "listTunnelPorts"}, req : TunnelRequest,
                    existing : TunnelRow \cup {Absent}]
    BY <1>3, JobAt DEF ListNodes
  <2>2. j.pc = "listTunnelPorts"
    BY <2>1
  <2>3. /\ UNCHANGED tunnels
        /\ job' = [job EXCEPT ![h] = j] \/ job' = [job EXCEPT ![h] = Idle]
    BY <1>3 DEF ListNodes, Done, tables
  <2> HIDE DEF j
  <2> QED
    BY <1>1, <2>2, <2>3, ApartJob
<1>4. CASE ListTunnelPorts(h)
  <2> DEFINE req == job[h].req
             existing == job[h].existing
             stages == [i \in DOMAIN req.stages |-> [n \in DOMAIN req.stages[i] |->
                          CHOOSE p \in StagePort(req, existing, i, n) : TRUE]]
             enabled == Chosen(req.enabled, IF existing = Absent THEN "on" ELSE existing.enabled)
             row == [entry |-> req.entry, stages |-> stages, carries |-> req.stages,
                     enabled |-> enabled]
             j == [pc |-> "saveTunnel", id |-> req.id, row |-> row]
  <2>1. req \in TunnelRequest
    BY <1>4, JobAt DEF ListTunnelPorts
  <2>2. /\ UNCHANGED tunnels
        /\ job' = [job EXCEPT ![h] = j] \/ job' = [job EXCEPT ![h] = Idle]
    BY <1>4 DEF ListTunnelPorts, Done, tables
  <2> HIDE DEF stages, enabled
  <2>3. j.row = row /\ row.entry = req.entry /\ row.carries = req.stages
    OBVIOUS
  <2>4. Apart(Stages(j.row))
    BY <2>1, <2>3, OneStageAssumption DEF Stages
  <2> HIDE DEF j
  <2> QED
    BY <1>1, <2>2, <2>4, ApartJob
<1>5. CASE SaveTunnel(h)
  <2> DEFINE t == job[h].id
             row == job[h].row
  <2>1. t \in Tunnel /\ Apart(Stages(row))
    BY <1>5, JobAt DEF SaveTunnel, ApartInv
  <2>2. /\ job' = [job EXCEPT ![h] = Idle]
        /\ tunnels' = tunnels \/ tunnels' = [tunnels EXCEPT ![t] = row]
    BY <1>5 DEF SaveTunnel, Done, tables
  <2> HIDE DEF t, row
  <2>3. \A u \in Tunnel : tunnels'[u] = tunnels[u] \/ tunnels'[u] = row
    BY <2>2 DEF TypeOK
  <2>4. \A u \in Tunnel : tunnels'[u] # Absent => Apart(Stages(tunnels'[u]))
    BY <2>1, <2>3 DEF ApartInv
  <2>5. \A g \in Handler : job'[g] = IF g = h THEN Idle ELSE job[g]
    BY <2>2 DEF TypeOK
  <2>6. \A g \in Handler : job'[g].pc = "saveTunnel" => Apart(Stages(job'[g].row))
    BY <1>1, <2>5 DEF ApartInv
  <2> QED
    BY <2>4, <2>6 DEF ApartInv, Apart, Stages
<1> QED
  BY <1>2, <1>3, <1>4, <1>5 DEF PrepareTunnel

LEMMA ApartPrepareForward ==
  ASSUME TypeOK, ApartInv, NEW h \in Handler, PrepareForward(h)
  PROVE  ApartInv'
<1>1. Idle.pc = "idle"
  BY DEF Idle
<1>2. UNCHANGED tunnels
  BY DEF PrepareForward, BeginForward, GetTunnel, GetNodes, ListForwardPorts, SaveForward, tables
<1>3. \E j : job' = [job EXCEPT ![h] = j] /\ j.pc # "saveTunnel"
  <2>1. ASSUME NEW req \in ForwardRequest, BeginForward(h, req)
        PROVE  \E j : job' = [job EXCEPT ![h] = j] /\ j.pc # "saveTunnel"
    <3>1. PICK row : job' = [job EXCEPT ![h] = [pc |-> "getTunnel", req |-> row]]
      BY <2>1 DEF BeginForward
    <3>2. [pc |-> "getTunnel", req |-> row].pc = "getTunnel"
      OBVIOUS
    <3> QED
      BY <3>1, <3>2
  <2>2. CASE job' = [job EXCEPT ![h] = Idle]
    BY <1>1, <2>2
  <2>3. CASE GetTunnel(h) /\ job' # [job EXCEPT ![h] = Idle]
    <3>1. PICK c : job' = [job EXCEPT ![h] = [pc |-> "getNodes", req |-> job[h].req, candidates |-> c]]
      BY <2>3 DEF GetTunnel, Done
    <3>2. [pc |-> "getNodes", req |-> job[h].req, candidates |-> c].pc = "getNodes"
      OBVIOUS
    <3> QED
      BY <3>1, <3>2
  <2>4. CASE GetNodes(h) /\ job' # [job EXCEPT ![h] = Idle]
    <3>1. job[h] \in [pc : {"getNodes", "listForwardPorts"}, req : FilledRequest,
                      candidates : Candidates]
      BY <2>4, JobAt DEF GetNodes
    <3>2. /\ job' = [job EXCEPT ![h] = [job[h] EXCEPT !.pc = "listForwardPorts"]]
          /\ [job[h] EXCEPT !.pc = "listForwardPorts"].pc = "listForwardPorts"
      BY <2>4, <3>1 DEF GetNodes, Done
    <3> QED
      BY <3>2
  <2>5. CASE ListForwardPorts(h) /\ job' # [job EXCEPT ![h] = Idle]
    <3>1. PICK c, r, id :
            job' = [job EXCEPT ![h] = [pc |-> "saveForward", id |-> id, candidates |-> c, row |-> r]]
      BY <2>5 DEF ListForwardPorts, Done
    <3>2. [pc |-> "saveForward", id |-> id, candidates |-> c, row |-> r].pc = "saveForward"
      OBVIOUS
    <3> QED
      BY <3>1, <3>2
  <2> QED
    BY <2>1, <2>2, <2>3, <2>4, <2>5 DEF PrepareForward, SaveForward, Done
<1> QED
  BY <1>2, <1>3, ApartJob

LEMMA ApartStep == TypeOK /\ ApartInv /\ [Next]_vars => ApartInv'
<1> SUFFICES ASSUME TypeOK, ApartInv, [Next]_vars
             PROVE  ApartInv'
  OBVIOUS
<1>1. CASE UNCHANGED <<tunnels, job>>
  BY <1>1 DEF ApartInv, Apart, Stages
<1>2. ASSUME NEW t \in Tunnel, UNCHANGED job, tunnels[t] # Absent,
             \/ tunnels' = [tunnels EXCEPT ![t] = Absent]
             \/ \E s \in Switch : tunnels' = [tunnels EXCEPT ![t].enabled = s]
      PROVE  ApartInv'
  <2>1. tunnels[t] \in TunnelRow
    BY <1>2 DEF TypeOK
  <2>2. \A u \in Tunnel : tunnels'[u] # Absent =>
          /\ tunnels[u] # Absent
          /\ tunnels'[u].entry = tunnels[u].entry /\ tunnels'[u].carries = tunnels[u].carries
    BY <1>2, <2>1 DEF TypeOK, TunnelRow
  <2>3. \A u \in Tunnel : tunnels'[u] # Absent => Apart(Stages(tunnels'[u]))
    BY <2>2 DEF ApartInv, Stages
  <2> QED
    BY <1>2, <2>3 DEF ApartInv, Apart, Stages
<1>3. ASSUME NEW t \in Tunnel, NEW force \in BOOLEAN, DeleteTunnel(t, force)
      PROVE  ApartInv'
  BY <1>2, <1>3 DEF DeleteTunnel
<1>4. ASSUME NEW t \in Tunnel, NEW s \in Switch, SetTunnelEnabled(t, s)
      PROVE  ApartInv'
  BY <1>2, <1>4 DEF SetTunnelEnabled
<1>5. CASE UNCHANGED vars
  BY <1>1, <1>5 DEF vars
<1>6. ASSUME NEW f \in Forward, DeleteForward(f) \/ \E s \in Switch : SetForwardEnabled(f, s)
      PROVE  ApartInv'
  BY <1>1, <1>6 DEF DeleteForward, SetForwardEnabled
<1>7. ASSUME NEW n \in Node, RevokeNode(n)
      PROVE  ApartInv'
  BY <1>1, <1>7 DEF RevokeNode
<1> QED
  BY <1>3, <1>4, <1>5, <1>6, <1>7, ApartPrepareTunnel, ApartPrepareForward DEF Next

\* No node is ever in two stages of a tunnel.
THEOREM StagesStayApart == Spec => []ApartInv
<1>1. Init => ApartInv
  BY DEF Init, ApartInv, Idle
<1> QED
  BY <1>1, ApartStep, TablesAgree, PTL DEF Spec

\* The stages the nodes are told of: a node is in one of them, and whoever is in
\* one is told of the tunnel.
LEMMA OneStageEach ==
  ASSUME TypeOK, ApartInv, NEW n, NEW t \in ScopedTunnels(n), NEW m,
         NEW i \in StagesOf(m, ActiveStages(tunnels[t]))
  PROVE  /\ StagesOf(m, ActiveStages(tunnels[t])) = {i}
         /\ t \in ScopedTunnels(m)
<1> DEFINE S == ActiveStages(tunnels[t])
<1>1. /\ DOMAIN S = DOMAIN Stages(tunnels[t])
      /\ \A j \in DOMAIN S : DOMAIN S[j] = DOMAIN Stages(tunnels[t])[j] \ revoked
  BY ScopedTunnelIs, ActiveStagesAre
<1>2. Apart(Stages(tunnels[t]))
  BY DEF ScopedTunnels, ApartInv
<1>3. \A j, l \in DOMAIN S : j # l => DOMAIN S[j] \cap DOMAIN S[l] = {}
  BY <1>1, <1>2 DEF Apart
<1>4. t \in ScopedTunnels(m)
  BY DEF ScopedTunnels
<1> HIDE DEF S
<1>5. StagesOf(m, S) = {i}
  BY <1>3 DEF StagesOf, S
<1> QED
  BY <1>4, <1>5 DEF S

\* scopeForwardRuntime of a node that is in one stage.
LEMMA ForwardOfStage ==
  ASSUME NEW m, NEW f, NEW stages, NEW i, StagesOf(m, stages) = {i}
  PROVE  \A p : p \in ScopedForward(m, f, stages).protocols <=>
                p \in forwards[f].protocols /\ p \in stages[i][m]
<1>1. (CHOOSE j \in StagesOf(m, stages) : TRUE) = i
  OBVIOUS
<1> QED
  BY <1>1 DEF ScopedForward

\* The targets go to the exit, and to the entry of a tunnel without one.
LEMMA TargetsOfLastStage ==
  ASSUME NEW m, NEW f, NEW stages, NEW i, StagesOf(m, stages) = {i}, i = Len(stages),
         i = 1 => tunnels[forwards[f].tunnel].carries = <<>>
  PROVE  ScopedForward(m, f, stages).targets
<1>1. CASE i = 1
  BY <1>1 DEF ScopedForward, Role
<1>2. CASE i # 1
  BY <1>2 DEF ScopedForward, Role
<1> QED
  BY <1>1, <1>2

\* The dialer of a candidate and the candidate are both sent its secret.
LEMMA SecretOfBoth ==
  ASSUME NEW t, NEW stages, NEW i \in Nat \ {0}, NEW n \in DOMAIN stages[i], NEW m
  PROVE  /\ "secret" \in ScopedSettings(n, t, stages, i + 1, m)
         /\ "secret" \in ScopedSettings(m, t, stages, i + 1, m)
<1>1. i + 1 # 1 /\ i + 1 > 1 /\ (i + 1) - 1 = i
  OBVIOUS
<1>2. /\ "secret" \in StoredSettings(t, i + 1)
      /\ "secret" \in ListenerSettings(t) /\ "secret" \in DialerSettings(t)
  BY <1>1 DEF StoredSettings, ListenerSettings, DialerSettings
<1> QED
  BY <1>1, <1>2 DEF ScopedSettings

\* The configurations scopeConfigForNodeWithActiveNodes makes for different
\* nodes always fit: whoever serves a forward with a protocol has its targets or
\* is accepted by every candidate it may dial, whatever was edited, disabled,
\* deleted or revoked before.
THEOREM RoutesAlwaysMeet == Spec => []RoutesMeet
<1>1. ASSUME TypeOK, ApartInv PROVE RoutesMeet
  <2> SUFFICES ASSUME NEW n \in Node \ revoked, NEW f \in DOMAIN ScopeConfig(n).forwards,
                      Enabled(ScopeConfig(n), f),
                      NEW i \in StagesOf(n, ScopeConfig(n).tunnels[forwards[f].tunnel].stages),
                      NEW p \in ScopeConfig(n).forwards[f].protocols
               PROVE  LET t == forwards[f].tunnel
                          stages == ScopeConfig(n).tunnels[t].stages
                      IN  IF i = Len(stages) THEN ScopeConfig(n).forwards[f].targets
                          ELSE \A m \in NextHops(ScopeConfig(n), t, i, p) :
                                 HelloAccepted(n, m, t, i, f, p)
    BY DEF RoutesMeet
  <2> DEFINE t == forwards[f].tunnel
             S == ActiveStages(tunnels[t])
             k == Len(tunnels[t].carries) + 1
  <2>1. /\ f \in Forward /\ forwards[f] # Absent /\ t \in ScopedTunnels(n)
        /\ ScopeConfig(n).forwards[f] = ScopedForward(n, f, S)
    BY ScopedForwardsAre
  <2>2. ScopeConfig(n).tunnels[t].stages = S
    BY <2>1, ScopedTunnelsAre
  <2>3. t \in Tunnel /\ tunnels[t] \in TunnelRow
    BY <1>1, <2>1, ScopedTunnelIs
  <2>4. S \in Seq(Candidates) /\ Len(S) = k /\ DOMAIN S = 1 .. k /\ k \in Nat
    BY <1>1, <2>1, ScopedTunnelIs, ActiveStagesAre
  <2>5. i \in StagesOf(n, S) /\ i \in 1 .. k /\ n \in DOMAIN S[i]
    BY <2>2, <2>4 DEF StagesOf
  <2>6. StagesOf(n, S) = {i}
    BY <1>1, <2>1, <2>5, OneStageEach
  <2>7. p \in forwards[f].protocols /\ forwards[f].enabled = "on"
    <3>1. p \in ScopedForward(n, f, S).protocols /\ ScopedForward(n, f, S).enabled = "on"
      BY <2>1 DEF Enabled
    <3> HIDE DEF S
    <3>2. ScopedForward(n, f, S).enabled = forwards[f].enabled
      BY DEF ScopedForward
    <3>3. p \in forwards[f].protocols
      BY <2>6, <3>1, ForwardOfStage
    <3> QED
      BY <3>1, <3>2, <3>3
  <2>8. ASSUME i = k PROVE ScopeConfig(n).forwards[f].targets
    <3>1. tunnels[t].carries \in Seq(Candidates)
      BY <2>3 DEF TunnelRow
    <3>2. i = 1 => tunnels[t].carries = <<>>
      BY <2>8, <3>1
    <3> HIDE DEF S
    <3>3. ScopedForward(n, f, S).targets
      BY <2>4, <2>6, <2>8, <3>2, TargetsOfLastStage
    <3> QED
      BY <2>1, <3>3
  <2>9. ASSUME i # k, NEW m \in NextHops(ScopeConfig(n), t, i, p)
        PROVE  HelloAccepted(n, m, t, i, f, p)
    <3>1. i + 1 \in 1 .. k /\ i \in Nat \ {0}
      BY <2>4, <2>5, <2>9
    <3>2. m \in DOMAIN S[i + 1] /\ p \in S[i + 1][m]
      BY <2>2, <2>9 DEF NextHops
    <3>3. i + 1 \in StagesOf(m, S)
      BY <2>4, <3>1, <3>2 DEF StagesOf
    <3>4. StagesOf(m, S) = {i + 1} /\ t \in ScopedTunnels(m)
      BY <1>1, <2>1, <3>3, OneStageEach
    <3>5. /\ p \in ScopedForward(m, f, S).protocols
          /\ ScopedForward(m, f, S).enabled = "on"
      <4> HIDE DEF S
      <4>1. ScopedForward(m, f, S).enabled = forwards[f].enabled
        BY DEF ScopedForward
      <4>2. p \in ScopedForward(m, f, S).protocols
        BY <2>7, <3>2, <3>4, ForwardOfStage
      <4> QED
        BY <2>7, <4>1, <4>2
    <3>6. f \in DOMAIN ScopeConfig(m).forwards
      BY <2>1, <3>4, <3>5, ScopedForwardsAre
    <3>7. ScopeConfig(m).forwards[f] = ScopedForward(m, f, S)
      BY <3>6, ScopedForwardsAre
    <3>8. Enabled(ScopeConfig(m), f) /\ p \in ScopeConfig(m).forwards[f].protocols
      BY <3>5, <3>6, <3>7 DEF Enabled
    <3>9. t \in DOMAIN ScopeConfig(m).tunnels /\ ScopeConfig(m).tunnels[t].stages = S
      BY <3>4, ScopedTunnelsAre
    <3>10. /\ ScopeConfig(n).tunnels[t].settings[i + 1][m] = ScopedSettings(n, t, S, i + 1, m)
           /\ ScopeConfig(m).tunnels[t].settings[i + 1][m] = ScopedSettings(m, t, S, i + 1, m)
      BY <2>1, <2>4, <3>1, <3>2, <3>4, ScopedTunnelsAre
    <3>11. "secret" \in ScopeConfig(n).tunnels[t].settings[i + 1][m]
                          \cap ScopeConfig(m).tunnels[t].settings[i + 1][m]
      BY <2>5, <3>1, <3>10, SecretOfBoth
    <3>12. i + 1 \in DOMAIN S
      BY <2>4, <3>1
    <3> HIDE DEF S, k
    <3> QED
      BY <3>2, <3>8, <3>9, <3>11, <3>12 DEF HelloAccepted
  <2> QED
    BY <2>2, <2>4, <2>8, <2>9
<1> QED
  BY <1>1, TablesAgree, StagesStayApart, PTL

-----------------------------------------------------------------------------
(* History: the settings and the loop                                      *)

PatchState == [pc : {"idle", "store", "memory", "wake"},
               req : Request \cup {<<>>}, next : Config]
LoopState == [pc : {"run", "read", "prune", "schedule", "select"},
              before : Int, timer : Values \cup {0}]

SettingsTyped ==
  /\ stored \in Config /\ memory \in Config /\ wake \in BOOLEAN
  /\ loop \in LoopState
  /\ patches \in [Patch -> PatchState]

MetricsTyped ==
  /\ now \in 0 .. MaxNow
  /\ traffic \in 0 .. MaxTraffic
  /\ counter \subseteq 1 .. traffic
  /\ report \in [pc : {"none", "sent"}, units : SUBSET (1 .. traffic), at : 0 .. now]
  /\ \A r \in rows : r.units \subseteq 1 .. traffic /\ r.at \in 0 .. now

\* What the loop is about to delete was too old for some retention when it
\* read the settings, whatever they have become.
BeforeIsOld ==
  loop.before = Never \/ \E v \in Values \ {0} : loop.before <= now - 2 * v

\* The inductive invariant of the settings and the loop.
LoopInv == SettingsTyped /\ now \in 0 .. MaxNow /\ BeforeIsOld /\ TimerFollowsSettings

LEMMA ValuesAreNat ==
  Values \subseteq Nat /\ Config \subseteq [Setting -> Nat]
         /\ Default \in Config
<1>1. \A s \in Setting : Default[s] \in Nat /\ Default[s] \in Values
  BY SettingsAssumption DEF Values
<1>2. Values \subseteq Nat
  BY <1>1, SettingsAssumption DEF Values
<1>3. Default \in [Setting -> Values]
  BY <1>1, SettingsAssumption
<1> QED
  BY <1>2, <1>3 DEF Config

\* What a request asks for is one of the values.
LEMMA RequestedIs ==
  ASSUME NEW req \in Request \cup {<<>>}, NEW s \in DOMAIN req
  PROVE  s \in Setting /\ req[s] \in Values
<1>1. req \in Request
  <2>1. DOMAIN <<>> = {}
    OBVIOUS
  <2> QED
    BY <2>1
<1>2. req[s] \in Range(req)
  BY DEF Range
<1> QED
  BY <1>1, <1>2, SettingsAssumption DEF Values

LEMMA ConfigIs ==
  ASSUME NEW c \in Config
  PROVE  c.retention \in Values /\ c.interval \in Values
BY DEF Config, Setting

LEMMA NoPatchIs ==
  NoPatch \in PatchState
BY ValuesAreNat DEF NoPatch, PatchState

LEMMA LoopStartIs ==
  LoopStart \in LoopState
BY BoundsAssumption DEF LoopStart, Never, LoopState

LEMMA LoopIs ==
  ASSUME loop \in LoopState
  PROVE  /\ loop.before \in Int /\ loop.timer \in Values \cup {0}
         /\ loop.pc \in {"run", "read", "prune", "schedule", "select"}
BY DEF LoopState

LEMMA PatchIs ==
  ASSUME patches \in [Patch -> PatchState], NEW h \in Patch
  PROVE  /\ patches[h] \in PatchState
         /\ patches[h].next \in Config /\ patches[h].req \in Request \cup {<<>>}
<1>1. patches[h] \in PatchState
  OBVIOUS
<1> QED
  BY <1>1 DEF PatchState

\* The clock only moves on, and with it the age of what is deleted.
LEMMA AgeStays ==
  ASSUME loop \in LoopState, now \in Nat, now' \in Nat, now <= now', BeforeIsOld,
         loop'.before = loop.before \/ loop'.before = Never
  PROVE  BeforeIsOld'
<1>1. CASE loop'.before = Never
  BY <1>1 DEF BeforeIsOld
<1>2. CASE loop'.before = loop.before /\ loop'.before # Never
  <2>1. PICK v \in Values \ {0} : loop.before <= now - 2 * v
    BY <1>2 DEF BeforeIsOld
  <2>2. v \in Nat /\ loop.before \in Int
    BY ValuesAreNat, LoopIs
  <2>3. loop'.before <= now' - 2 * v
    BY <1>2, <2>1, <2>2
  <2> QED
    BY <2>3 DEF BeforeIsOld
<1> QED
  BY <1>1, <1>2

LEMMA HandlerKeepsTypes ==
  ASSUME SettingsTyped, NEW h \in Patch, Update(h)
  PROVE  SettingsTyped'
<1>1. patches[h].next \in Config /\ patches[h].req \in Request \cup {<<>>}
      /\ patches[h] \in PatchState
  BY PatchIs DEF SettingsTyped
<1>2. CASE SetSettings(h)
  <2>1. stored' \in Config
    <3>1. CASE stored' = stored
      BY <3>1 DEF SettingsTyped
    <3>2. CASE stored' = [s \in Setting |-> IF s \in DOMAIN patches[h].req
                                          THEN patches[h].req[s] ELSE stored[s]]
      <4>1. ASSUME NEW s \in Setting
            PROVE  (IF s \in DOMAIN patches[h].req
                    THEN patches[h].req[s] ELSE stored[s]) \in Values
        <5>1. s \in DOMAIN patches[h].req => patches[h].req[s] \in Values
          BY <1>1, RequestedIs
        <5>2. stored[s] \in Values
          BY DEF SettingsTyped, Config
        <5> QED
          BY <5>1, <5>2
      <4> QED
        BY <3>2, <4>1 DEF Config
    <3> QED
      BY <1>2, <3>1, <3>2 DEF SetSettings
  <2>2. patches' \in [Patch -> PatchState]
    <3>1. CASE patches' = [patches EXCEPT ![h] = NoPatch]
      BY <3>1, NoPatchIs DEF SettingsTyped
    <3>2. CASE patches' = [patches EXCEPT ![h].pc = "memory", ![h].req = <<>>]
      <4> DEFINE q == [patches[h] EXCEPT !.pc = "memory", !.req = <<>>]
      <4>1. q \in PatchState
        BY <1>1 DEF PatchState
      <4>2. patches' = [patches EXCEPT ![h] = q]
        BY <3>2 DEF SettingsTyped
      <4> HIDE DEF q
      <4> QED
        BY <4>1, <4>2 DEF SettingsTyped
    <3> QED
      BY <1>2, <3>1, <3>2 DEF SetSettings
  <2>3. UNCHANGED <<memory, wake, loop>>
    BY <1>2 DEF SetSettings
  <2> QED
    BY <2>1, <2>2, <2>3 DEF SettingsTyped
<1>3. CASE SetConfig(h)
  <2> DEFINE q == [NoPatch EXCEPT !.pc = "wake"]
  <2>1. q \in PatchState
    BY NoPatchIs DEF PatchState
  <2>2. patches' = [patches EXCEPT ![h] = q] /\ memory' = patches[h].next
        /\ UNCHANGED <<stored, wake, loop>>
    BY <1>3 DEF SetConfig
  <2> HIDE DEF q
  <2>3. patches' \in [Patch -> PatchState]
    BY <2>1, <2>2 DEF SettingsTyped
  <2> QED
    BY <1>1, <2>2, <2>3 DEF SettingsTyped
<1>4. CASE Wake(h)
  <2>1. patches' = [patches EXCEPT ![h] = NoPatch] /\ wake' = TRUE
        /\ UNCHANGED <<stored, memory, loop>>
    BY <1>4 DEF Wake
  <2>2. patches' \in [Patch -> PatchState]
    BY <2>1, NoPatchIs DEF SettingsTyped
  <2> QED
    BY <2>1, <2>2 DEF SettingsTyped
<1> QED
  BY <1>2, <1>3, <1>4 DEF Update

LEMMA ReadConfigKeepsTypes ==
  ASSUME SettingsTyped, NEW h \in Patch, NEW req \in Request, ReadConfig(h, req)
  PROVE  SettingsTyped'
<1> DEFINE next == [s \in Setting |-> IF s \in DOMAIN req THEN req[s] ELSE memory[s]]
           q == [pc |-> "store", req |-> req, next |-> next]
<1>1. ASSUME NEW s \in Setting
      PROVE  (IF s \in DOMAIN req THEN req[s] ELSE memory[s]) \in Values
  <2>1. s \in DOMAIN req => req[s] \in Values
    BY RequestedIs
  <2>2. memory[s] \in Values
    BY DEF SettingsTyped, Config
  <2> QED
    BY <2>1, <2>2
<1>2. next \in Config
  BY <1>1 DEF Config
<1>3. patches' = [patches EXCEPT ![h] = q] /\ UNCHANGED <<stored, memory, wake, loop>>
  BY DEF ReadConfig
<1> HIDE DEF next
<1>4. q \in PatchState
  BY <1>2 DEF PatchState
<1> HIDE DEF q
<1>5. patches' \in [Patch -> PatchState]
  BY <1>3, <1>4 DEF SettingsTyped
<1> QED
  BY <1>3, <1>5 DEF SettingsTyped

\* The loop's steps: what they make of its state, and that it keeps its type.
LEMMA LoopKeepsTypes ==
  ASSUME SettingsTyped, now \in 0 .. MaxNow, LoopStep
  PROVE  /\ loop' \in LoopState /\ UNCHANGED <<stored, memory, patches>> /\ wake' \in BOOLEAN
         /\ loop'.pc = "select" => LoopAt("schedule") /\ Schedule
         /\ loop'.before = loop.before \/ loop'.before = Never
            \/ \E v \in Values \ {0} : loop'.before = now - 2 * v
<1>1. /\ loop \in LoopState /\ loop.before \in Int
      /\ memory.retention \in Values /\ memory.interval \in Values
      /\ memory.retention \in Nat /\ memory.interval \in Nat
      /\ MaxNow \in Nat /\ now \in Nat /\ wake \in BOOLEAN
  <2>1. MaxNow \in Nat /\ now \in Nat
    BY BoundsAssumption
  <2>2. memory \in Config /\ loop \in LoopState /\ wake \in BOOLEAN
    BY DEF SettingsTyped
  <2>3. memory.retention \in Values /\ memory.interval \in Values
    BY <2>2, ConfigIs
  <2> QED
    BY <2>1, <2>2, <2>3, LoopIs, ValuesAreNat
<1>2. CASE RunCleanup
  BY <1>1, <1>2 DEF RunCleanup, LoopState
<1>3. CASE CleanupReads
  <2> DEFINE b == IF memory.retention > 0 THEN now - 2 * memory.retention ELSE Never
  <2>1. b \in Int
    BY <1>1 DEF Never
  <2>2. b = Never \/ \E v \in Values \ {0} : b = now - 2 * v
    BY <1>1
  <2>3. loop' = [loop EXCEPT !.pc = "prune", !.before = b]
        /\ UNCHANGED <<stored, memory, wake, patches>>
    BY <1>3 DEF CleanupReads
  <2> HIDE DEF b
  <2>4. loop' \in LoopState /\ loop'.before = b /\ loop'.pc = "prune"
    BY <1>1, <2>1, <2>3 DEF LoopState
  <2> QED
    BY <1>1, <2>2, <2>3, <2>4
<1>4. CASE PruneHistory
  <2>1. Never \in Int
    BY <1>1 DEF Never
  <2>2. loop' = [loop EXCEPT !.pc = "schedule", !.before = Never]
        /\ UNCHANGED <<stored, memory, wake, patches>>
    BY <1>4 DEF PruneHistory
  <2>3. loop' \in LoopState /\ loop'.before = Never /\ loop'.pc = "schedule"
    BY <1>1, <2>1, <2>2 DEF LoopState
  <2> QED
    BY <1>1, <2>2, <2>3
<1>5. CASE Schedule
  <2> DEFINE t == IF CleanupEnabled(memory) THEN memory.interval ELSE 0
  <2>1. t \in Values \cup {0}
    BY <1>1
  <2>2. loop' = [loop EXCEPT !.pc = "select", !.timer = t]
        /\ UNCHANGED <<stored, memory, wake, patches>> /\ LoopAt("schedule")
    BY <1>5 DEF Schedule
  <2> HIDE DEF t
  <2>3. loop' \in LoopState /\ loop'.before = loop.before
    BY <1>1, <2>1, <2>2 DEF LoopState
  <2> QED
    BY <1>1, <1>5, <2>2, <2>3
<1>6. CASE Awake
  <2>1. loop' = [loop EXCEPT !.pc = "run"] /\ UNCHANGED <<stored, memory, patches>>
        /\ wake' \in BOOLEAN
    BY <1>1, <1>6 DEF Awake
  <2>2. loop' \in LoopState /\ loop'.before = loop.before /\ loop'.pc = "run"
    BY <1>1, <2>1 DEF LoopState
  <2> QED
    BY <2>1, <2>2
<1> QED
  BY <1>2, <1>3, <1>4, <1>5, <1>6 DEF LoopStep

LEMMA LoopKeepsInv ==
  ASSUME LoopInv, LoopStep
  PROVE  LoopInv'
<1>1. SettingsTyped /\ now \in 0 .. MaxNow /\ now' = now /\ MaxNow \in Nat /\ loop \in LoopState
  BY BoundsAssumption
     DEF LoopInv, SettingsTyped, LoopStep, RunCleanup, CleanupReads, PruneHistory, Schedule, Awake
<1>2. /\ loop' \in LoopState /\ UNCHANGED <<stored, memory, patches>> /\ wake' \in BOOLEAN
      /\ loop'.pc = "select" => LoopAt("schedule") /\ Schedule
      /\ loop'.before = loop.before \/ loop'.before = Never
            \/ \E v \in Values \ {0} : loop'.before = now - 2 * v
  BY <1>1, LoopKeepsTypes
<1>3. SettingsTyped'
  BY <1>1, <1>2 DEF SettingsTyped
<1>4. BeforeIsOld'
  <2>1. CASE loop'.before = loop.before \/ loop'.before = Never
    BY <1>1, <2>1, AgeStays DEF LoopInv
  <2>2. ASSUME NEW v \in Values \ {0}, loop'.before = now - 2 * v
        PROVE  BeforeIsOld'
    <3>1. v \in Nat
      BY ValuesAreNat
    <3>2. loop'.before <= now' - 2 * v
      BY <1>1, <2>2, <3>1
    <3> QED
      BY <3>2 DEF BeforeIsOld
  <2> QED
    BY <1>2, <2>1, <2>2
<1>5. TimerFollowsSettings'
  <2>1. CASE loop'.pc = "select"
    <3>1. loop' = [loop EXCEPT !.pc = "select",
                     !.timer = IF CleanupEnabled(memory) THEN memory.interval ELSE 0]
      BY <1>2, <2>1 DEF Schedule
    <3>2. loop'.timer = IF CleanupEnabled(memory) THEN memory.interval ELSE 0
      BY <1>1, <3>1 DEF LoopState
    <3> QED
      BY <1>2, <3>2 DEF TimerFollowsSettings, CleanupEnabled
  <2>2. CASE loop'.pc # "select"
    BY <2>2 DEF TimerFollowsSettings, LoopAt
  <2> QED
    BY <2>1, <2>2
<1> QED
  BY <1>1, <1>3, <1>4, <1>5 DEF LoopInv

LEMMA HandlerKeepsInv ==
  ASSUME LoopInv, NEW h \in Patch, Update(h)
  PROVE  LoopInv'
<1>1. SettingsTyped /\ SettingsTyped' /\ now \in 0 .. MaxNow /\ now \in Nat /\ loop \in LoopState
  BY HandlerKeepsTypes, BoundsAssumption DEF LoopInv, SettingsTyped
<1>2. loop' = loop /\ now' = now
  BY DEF Update, SetSettings, SetConfig, Wake
<1>3. BeforeIsOld'
  BY <1>2 DEF LoopInv, BeforeIsOld
<1>4. patches \in [Patch -> PatchState] /\ patches[h] \in PatchState /\ NoPatch.pc = "idle"
  BY <1>1, PatchIs DEF SettingsTyped, NoPatch
<1>5. TimerFollowsSettings'
  <2>1. CASE SetSettings(h)
    <3>1. UNCHANGED <<memory, wake, loop>> /\ patches[h].pc # "wake"
      BY <2>1 DEF SetSettings, PatchAt
    <3>2. ASSUME NEW g \in Patch, patches[g].pc = "wake"
          PROVE  patches'[g].pc = "wake"
      BY <1>4, <2>1, <3>1, <3>2 DEF SetSettings
    <3> QED
      BY <3>1, <3>2 DEF LoopInv, TimerFollowsSettings, PatchAt, LoopAt, CleanupEnabled
  <2>2. CASE SetConfig(h)
    <3>1. patches'[h] = [NoPatch EXCEPT !.pc = "wake"]
      BY <1>4, <2>2 DEF SetConfig
    <3>2. patches'[h].pc = "wake"
      BY <3>1 DEF NoPatch
    <3> QED
      BY <3>2 DEF TimerFollowsSettings, PatchAt
  <2>3. CASE Wake(h)
    BY <2>3 DEF Wake, TimerFollowsSettings
  <2> QED
    BY <2>1, <2>2, <2>3 DEF Update
<1> QED
  BY <1>1, <1>2, <1>3, <1>5 DEF LoopInv

LEMMA ReadConfigKeepsInv ==
  ASSUME LoopInv, NEW h \in Patch, NEW req \in Request, ReadConfig(h, req)
  PROVE  LoopInv'
<1>1. SettingsTyped /\ SettingsTyped'
  BY ReadConfigKeepsTypes DEF LoopInv
<1>2. UNCHANGED <<memory, wake, loop, now>> /\ patches[h].pc = "idle"
  BY DEF ReadConfig, PatchAt
<1>3. ASSUME NEW g \in Patch, patches[g].pc = "wake"
      PROVE  patches'[g].pc = "wake"
  BY <1>1, <1>2, <1>3 DEF ReadConfig, SettingsTyped
<1>4. BeforeIsOld' /\ TimerFollowsSettings'
  BY <1>2, <1>3
     DEF LoopInv, BeforeIsOld, TimerFollowsSettings, PatchAt, LoopAt, CleanupEnabled
<1> QED
  BY <1>1, <1>2, <1>4 DEF LoopInv

LEMMA RestartKeepsInv ==
  ASSUME LoopInv, Restart
  PROVE  LoopInv'
<1>1. /\ memory' = stored /\ stored' = stored /\ wake' = FALSE /\ now' = now
      /\ loop' = LoopStart /\ patches' = [h \in Patch |-> NoPatch]
  BY DEF Restart
<1>2. SettingsTyped'
  BY <1>1, LoopStartIs, NoPatchIs DEF LoopInv, SettingsTyped
<1>3. BeforeIsOld' /\ TimerFollowsSettings'
  BY <1>1 DEF LoopStart, BeforeIsOld, TimerFollowsSettings, LoopAt
<1> QED
  BY <1>1, <1>2, <1>3 DEF LoopInv

LEMMA SettingsStay ==
  ASSUME LoopInv, UNCHANGED settings, now' \in 0 .. MaxNow, now <= now'
  PROVE  LoopInv'
<1>1. UNCHANGED <<stored, memory, wake, loop, patches>>
  BY DEF settings
<1>2. now \in Nat /\ now' \in Nat /\ loop \in LoopState
  BY BoundsAssumption DEF LoopInv, SettingsTyped
<1>3. BeforeIsOld'
  BY <1>1, <1>2, AgeStays DEF LoopInv
<1> QED
  BY <1>1, <1>3
     DEF LoopInv, SettingsTyped, TimerFollowsSettings, LoopAt, PatchAt, CleanupEnabled

LEMMA LoopInvStep ==
  ASSUME LoopInv, [HistoryNext]_historyVars
  PROVE  LoopInv'
<1>1. now \in 0 .. MaxNow /\ MaxNow \in Nat
  BY BoundsAssumption DEF LoopInv
<1>2. ASSUME NEW h \in Patch, Update(h) \/ \E req \in Request : ReadConfig(h, req)
      PROVE  LoopInv'
  BY <1>2, HandlerKeepsInv, ReadConfigKeepsInv
<1>3. CASE Restart
  BY <1>3, RestartKeepsInv
<1>4. CASE LoopStep
  BY <1>4, LoopKeepsInv
<1>5. CASE Count \/ Report \/ InsertMetrics \/ LoseReport \/ NodeStops
  <2>1. UNCHANGED settings /\ now' = now
    BY <1>5 DEF Count, Report, InsertMetrics, LoseReport, NodeStops
  <2> QED
    BY <1>1, <2>1, SettingsStay
<1>6. CASE Tick
  <2>1. UNCHANGED settings /\ now' = now + 1 /\ now < MaxNow
    BY <1>6 DEF Tick
  <2> QED
    BY <1>1, <2>1, SettingsStay
<1>7. CASE UNCHANGED historyVars
  <2>1. UNCHANGED settings /\ now' = now
    BY <1>7 DEF historyVars
  <2> QED
    BY <1>1, <2>1, SettingsStay
<1> QED
  BY <1>2, <1>3, <1>4, <1>5, <1>6, <1>7 DEF HistoryNext

LEMMA LoopInvInit ==
  ASSUME HistoryInit
  PROVE  LoopInv
<1>1. SettingsTyped
  BY ValuesAreNat, LoopStartIs, NoPatchIs DEF HistoryInit, SettingsTyped
<1>2. now \in 0 .. MaxNow
  BY BoundsAssumption DEF HistoryInit
<1>3. BeforeIsOld /\ TimerFollowsSettings
  BY DEF HistoryInit, LoopStart, BeforeIsOld, TimerFollowsSettings, LoopAt
<1> QED
  BY <1>1, <1>2, <1>3 DEF LoopInv

\* No wake-up of historyCleanupLoop is lost: whatever requests change the
\* settings, and whenever, the loop never waits with a timer of earlier ones.
THEOREM TimersFollow ==
  HistorySpec => []TimerFollowsSettings
<1>1. HistoryInit => LoopInv
  BY LoopInvInit
<1>2. LoopInv /\ [HistoryNext]_historyVars => LoopInv'
  BY LoopInvStep
<1>3. LoopInv => TimerFollowsSettings
  BY DEF LoopInv
<1> QED
  BY <1>1, <1>2, <1>3, PTL DEF HistorySpec

-----------------------------------------------------------------------------
(* History: what is pruned *)

LEMMA MetricsStep ==
  ASSUME MetricsTyped, [HistoryNext]_historyVars
  PROVE  MetricsTyped'
<1>1. /\ MaxNow \in Nat /\ MaxTraffic \in Nat /\ now \in Nat /\ traffic \in Nat
      /\ now <= MaxNow /\ traffic <= MaxTraffic
  BY BoundsAssumption DEF MetricsTyped
<1>2. /\ report.units \subseteq 1 .. traffic /\ report.at \in 0 .. now
      /\ report \in [pc : {"none", "sent"}, units : SUBSET (1 .. traffic), at : 0 .. now]
  BY DEF MetricsTyped
<1>3. NoReport \in [pc : {"none", "sent"}, units : SUBSET (1 .. traffic), at : 0 .. now]
  BY <1>1 DEF NoReport
<1>4. CASE Count
  <2>1. /\ traffic' = traffic + 1 /\ traffic < MaxTraffic /\ now' = now /\ rows' = rows
        /\ counter' = counter \cup {traffic + 1} /\ report' = report
    BY <1>4 DEF Count
  <2>2. 1 .. traffic \subseteq 1 .. traffic'
    BY <1>1, <2>1
  <2>3. report' \in [pc : {"none", "sent"}, units : SUBSET (1 .. traffic'), at : 0 .. now']
    BY <1>2, <2>1, <2>2
  <2>4. traffic' \in 0 .. MaxTraffic /\ traffic + 1 \in 1 .. traffic'
    BY <1>1, <2>1
  <2> QED
    BY <2>1, <2>2, <2>3, <2>4 DEF MetricsTyped
<1>5. CASE Report
  <2>1. /\ report' = [pc |-> "sent", units |-> counter, at |-> now] /\ counter' = {}
        /\ now' = now /\ rows' = rows /\ traffic' = traffic
    BY <1>5 DEF Report
  <2>2. report' \in [pc : {"none", "sent"}, units : SUBSET (1 .. traffic), at : 0 .. now]
    BY <1>1, <2>1 DEF MetricsTyped
  <2> QED
    BY <2>1, <2>2 DEF MetricsTyped
<1>6. CASE InsertMetrics
  <2> DEFINE new == [id |-> NextId, units |-> report.units, at |-> report.at]
  <2>1. /\ rows' = rows \cup {new} /\ report' = NoReport
        /\ now' = now /\ traffic' = traffic /\ counter' = counter
    BY <1>6 DEF InsertMetrics
  <2>2. new.units \subseteq 1 .. traffic /\ new.at \in 0 .. now
    BY <1>2
  <2> HIDE DEF new
  <2> QED
    BY <1>3, <2>1, <2>2 DEF MetricsTyped
<1>7. CASE Tick
  <2>1. now' = now + 1 /\ now < MaxNow /\ UNCHANGED <<rows, report, counter, traffic>>
    BY <1>7 DEF Tick, metrics
  <2>2. 0 .. now \subseteq 0 .. now' /\ now' \in 0 .. MaxNow
    BY <1>1, <2>1
  <2>3. report' \in [pc : {"none", "sent"}, units : SUBSET (1 .. traffic'), at : 0 .. now']
    BY <1>2, <2>1, <2>2
  <2> QED
    BY <2>1, <2>2, <2>3 DEF MetricsTyped
<1>8. ASSUME rows' \subseteq rows, now' = now, traffic' = traffic,
             report' = report \/ report' = NoReport, counter' \subseteq counter
      PROVE  MetricsTyped'
  BY <1>2, <1>3, <1>8 DEF MetricsTyped
<1>9. CASE PruneHistory
  BY <1>8, <1>9 DEF PruneHistory, metrics
<1>10. CASE Restart \/ LoseReport \/ NodeStops \/ UNCHANGED historyVars
  BY <1>8, <1>10 DEF Restart, LoseReport, NodeStops, historyVars, metrics
<1>11. CASE RunCleanup \/ CleanupReads \/ Schedule \/ Awake
  BY <1>8, <1>11 DEF RunCleanup, CleanupReads, Schedule, Awake, metrics
<1>12. ASSUME NEW h \in Patch, Update(h) \/ \E req \in Request : ReadConfig(h, req)
       PROVE  MetricsTyped'
  BY <1>8, <1>12 DEF Update, SetSettings, SetConfig, Wake, ReadConfig, metrics
<1> QED
  BY <1>4, <1>5, <1>6, <1>7, <1>9, <1>10, <1>11, <1>12 DEF HistoryNext, LoopStep

LEMMA MetricsInit ==
  ASSUME HistoryInit
  PROVE  MetricsTyped
BY BoundsAssumption DEF HistoryInit, NoReport, MetricsTyped

\* A row that goes is older than the shortest retention, to the second.
OnlyExpiredGo ==
  \A r \in rows \ rows' :
    r.at \div 2 <= (now - 2 * Min(Values \ {0})) \div 2

\* Texts are ordered as the times they show, to the second.
LEMMA TextOrder ==
  ASSUME NEW a \in Int, NEW b \in Int, TextBefore(a, b)
  PROVE  a \div 2 <= b \div 2
BY DEF TextBefore

LEMMA HalvesGrow ==
  ASSUME NEW a \in Int, NEW b \in Int, a <= b
  PROVE  a \div 2 <= b \div 2
OBVIOUS

LEMMA NothingBeforeNever ==
  ASSUME NEW a \in 0 .. MaxNow
  PROVE  ~TextBefore(a, Never)
<1>1. MaxNow \in Nat /\ a \in Nat /\ a \div 2 >= 0
  BY BoundsAssumption
<1>2. CASE MaxNow = 0
  BY <1>1, <1>2 DEF TextBefore, Never
<1>3. CASE MaxNow > 0
  <2>1. (-MaxNow) \div 2 < 0
    BY <1>1, <1>3
  <2> QED
    BY <1>1, <2>1 DEF TextBefore, Never
<1> QED
  BY <1>1, <1>2, <1>3

LEMMA PruneKeeps ==
  ASSUME LoopInv, MetricsTyped, [HistoryNext]_historyVars
  PROVE  OnlyExpiredGo
<1>1. CASE rows \subseteq rows'
  BY <1>1 DEF OnlyExpiredGo
<1>2. ASSUME PruneHistory, NEW r \in rows \ rows'
      PROVE  r.at \div 2 <= (now - 2 * Min(Values \ {0})) \div 2
  <2>1. TextBefore(r.at, loop.before)
    BY <1>2 DEF PruneHistory
  <2>2. /\ MaxNow \in Nat /\ now \in 0 .. MaxNow /\ now \in Nat /\ r.at \in 0 .. now
        /\ loop.before \in Int
    BY LoopIs, BoundsAssumption DEF MetricsTyped, LoopInv, SettingsTyped
  <2>3. r.at \in Nat /\ r.at \in 0 .. MaxNow
    BY <2>2
  <2>4. loop.before # Never
    BY <2>1, <2>3, NothingBeforeNever
  <2>5. PICK v \in Values \ {0} : loop.before <= now - 2 * v
    BY <2>4 DEF LoopInv, BeforeIsOld
  <2> DEFINE shortest == Min(Values \ {0})
  <2>6. shortest \in Nat /\ v \in Nat /\ shortest <= v
    BY <2>5, ValuesAreNat, MinIsMember
  <2> HIDE DEF shortest
  <2>7. loop.before <= now - 2 * shortest /\ now - 2 * shortest \in Int
    BY <2>2, <2>5, <2>6
  <2>8. r.at \div 2 <= loop.before \div 2
    BY <2>1, <2>2, <2>3, TextOrder
  <2>9. loop.before \div 2 <= (now - 2 * shortest) \div 2
    BY <2>2, <2>7, HalvesGrow
  <2>10. \A k, m, n \in Int : k <= m /\ m <= n => k <= n
    OBVIOUS
  <2>11. r.at \div 2 <= (now - 2 * shortest) \div 2
    BY <2>2, <2>3, <2>7, <2>8, <2>9, <2>10
  <2> QED
    BY <2>11 DEF shortest
<1>3. CASE PruneHistory
  BY <1>2, <1>3 DEF OnlyExpiredGo
<1> QED
  BY <1>1, <1>3
     DEF HistoryNext, historyVars, metrics, LoopStep, Update, SetSettings, SetConfig, Wake,
         ReadConfig, Restart, RunCleanup, CleanupReads, Schedule, Awake, Count,
         Report, InsertMetrics, LoseReport, NodeStops, Tick

\* historyCleanupLoop deletes only rows that were older, to the second, than
\* the shortest retention ever asked for, however the settings change between
\* its reads of them.
THEOREM OnlyOldRowsGo ==
  HistorySpec => KeptForRetention
<1>1. HistoryInit => LoopInv /\ MetricsTyped
  BY LoopInvInit, MetricsInit
<1>2. LoopInv /\ MetricsTyped /\ [HistoryNext]_historyVars => LoopInv' /\ MetricsTyped'
  BY LoopInvStep, MetricsStep
<1>3. LoopInv /\ MetricsTyped /\ [HistoryNext]_historyVars => [OnlyExpiredGo]_historyVars
  BY PruneKeeps
<1>4. HistorySpec => [][OnlyExpiredGo]_historyVars
  BY <1>1, <1>2, <1>3, PTL DEF HistorySpec
<1> QED
  BY <1>4 DEF KeptForRetention, OnlyExpiredGo

-----------------------------------------------------------------------------
(* History: what is counted *)

\* The units of a new row come from the report alone.
LEMMA CountedStep ==
  ASSUME MetricsTyped, CountedOnce, [HistoryNext]_historyVars
  PROVE  CountedOnce'
<1>1. /\ \A r \in rows : r.units \cap report.units = {} /\ r.units \cap counter = {}
      /\ \A r, q \in rows : r # q => r.units \cap q.units = {}
      /\ report.units \cap counter = {} /\ NoReport.units = {}
  BY DEF CountedOnce, NoReport
<1>2. CASE Count
  <2>1. /\ counter' = counter \cup {traffic + 1} /\ rows' = rows /\ report' = report
    BY <1>2 DEF Count
  <2>2. traffic + 1 \notin report.units /\ \A r \in rows : traffic + 1 \notin r.units
    <3>1. traffic \in Nat
      BY BoundsAssumption DEF MetricsTyped
    <3>2. traffic + 1 \notin 1 .. traffic
      BY <3>1
    <3>3. report.units \subseteq 1 .. traffic /\ \A r \in rows : r.units \subseteq 1 .. traffic
      BY DEF MetricsTyped
    <3> QED
      BY <3>2, <3>3
  <2> QED
    BY <1>1, <2>1, <2>2 DEF CountedOnce
<1>3. CASE Report
  <2>1. /\ report'.units = counter /\ counter' = {} /\ rows' = rows
    BY <1>3 DEF Report
  <2> QED
    BY <1>1, <2>1 DEF CountedOnce
<1>4. CASE InsertMetrics
  <2> DEFINE new == [id |-> NextId, units |-> report.units, at |-> report.at]
  <2>1. /\ rows' = rows \cup {new} /\ report' = NoReport /\ counter' = counter
    BY <1>4 DEF InsertMetrics
  <2>2. new.units = report.units
    OBVIOUS
  <2> HIDE DEF new
  <2>3. \A r \in rows' : r.units \cap counter' = {}
    BY <1>1, <2>1, <2>2
  <2>4. \A r, q \in rows' : r # q => r.units \cap q.units = {}
    BY <1>1, <2>1, <2>2
  <2> QED
    BY <1>1, <2>1, <2>3, <2>4 DEF CountedOnce
<1>5. ASSUME rows' \subseteq rows, report' = report \/ report' = NoReport,
             counter' \subseteq counter
      PROVE  CountedOnce'
  <2>1. report'.units \subseteq report.units
    BY <1>1, <1>5
  <2> QED
    BY <1>1, <1>5, <2>1 DEF CountedOnce
<1>6. CASE PruneHistory
  BY <1>5, <1>6 DEF PruneHistory, metrics
<1>7. CASE Restart \/ LoseReport \/ NodeStops \/ Tick \/ UNCHANGED historyVars
  BY <1>5, <1>7 DEF Restart, LoseReport, NodeStops, Tick, historyVars, metrics
<1>8. CASE RunCleanup \/ CleanupReads \/ Schedule \/ Awake
  BY <1>5, <1>8 DEF RunCleanup, CleanupReads, Schedule, Awake, metrics
<1>9. ASSUME NEW h \in Patch, Update(h) \/ \E req \in Request : ReadConfig(h, req)
      PROVE  CountedOnce'
  BY <1>5, <1>9 DEF Update, SetSettings, SetConfig, Wake, ReadConfig, metrics
<1> QED
  BY <1>2, <1>3, <1>4, <1>6, <1>7, <1>8, <1>9 DEF HistoryNext, LoopStep

\* Every unit of traffic is in one place only: the node's counters, the report
\* under way or one row of the table, whatever is lost, restarted or pruned.
THEOREM NothingCountedTwice ==
  HistorySpec => []CountedOnce
<1>1. HistoryInit => MetricsTyped /\ CountedOnce
  BY MetricsInit DEF HistoryInit, NoReport, CountedOnce
<1>2. MetricsTyped /\ CountedOnce /\ [HistoryNext]_historyVars => MetricsTyped' /\ CountedOnce'
  BY MetricsStep, CountedStep
<1> QED
  BY <1>1, <1>2, PTL DEF HistorySpec
=============================================================================
