----------------------------- MODULE RouteScope -----------------------------
(***************************************************************************)
(* What each node is told of the tunnels and forwards, and what the nodes  *)
(* make of it together: scopeConfigForNodeWithActiveNodes over the tables  *)
(* of PortAllocation, and the node's side of a route, which listeners it   *)
(* opens, which candidates it dials and which hellos it accepts.           *)
(*                                                                         *)
(* A candidate's settings are the names of the ones it has.                *)
(***************************************************************************)
EXTENDS PortAllocation

CONSTANT Transport  \* the transport of each tunnel

ASSUME TransportAssumption == Transport \in [Tunnel -> {"direct", "tls", "mtls", "ws_tls"}]

\* No node is in two stages.
Apart(stages) ==
  \A i, j \in DOMAIN stages : i # j => DOMAIN stages[i] \cap DOMAIN stages[j] = {}

\* validate.Tunnel: "node appears more than once in tunnel".
ASSUME OneStageAssumption == \A req \in TunnelRequest : Apart(<<req.entry>> \o req.stages)

-----------------------------------------------------------------------------
(* The controller's side *)

\* The stages of a tunnel and what their candidates support; the first is the
\* entry, the last of several the exit.
Stages(row) == <<row.entry>> \o row.carries

\* Mutant: a stage whose nodes are all revoked is left out.
StagesLeft(row) ==
  LET active(stage) == Restrict(stage, DOMAIN stage \ revoked)
      left == {i \in DOMAIN Stages(row) : DOMAIN active(Stages(row)[i]) # {}}
      rank(k) == CHOOSE i \in left : Cardinality({j \in left : j <= i}) = k
  IN  [k \in 1 .. Cardinality(left) |-> active(Stages(row)[rank(k)])]

\* filterActiveTunnelNodes: without the revoked nodes, and no stage at all when
\* one of them would be empty.
ActiveStages(row) ==
  LET active == [i \in DOMAIN Stages(row) |->
                   Restrict(Stages(row)[i], DOMAIN Stages(row)[i] \ revoked)]
  IN  IF \E i \in DOMAIN active : DOMAIN active[i] = {} THEN <<>> ELSE active

\* The stage a node is in; it is in one at most.
StagesOf(n, stages) == {i \in DOMAIN stages : n \in DOMAIN stages[i]}

\* nodeTunnelRole
Role(n, stages) ==
  IF 1 \in StagesOf(n, stages) THEN "entry"
  ELSE IF Len(stages) \in StagesOf(n, stages) THEN "exit" ELSE "middle"

Secured(t) == Transport[t] # "direct"

\* prepareTunnel and ensureTunnelCertificates: an entry has no settings.
StoredSettings(t, i) ==
  IF i = 1 THEN {}
  ELSE {"secret", "server_name"}
         \cup IF Secured(t) THEN {"ca_cert", "server_cert", "server_key", "client_cert", "client_key"}
              ELSE {}

ListenerSettings(t) ==
  {"secret"} \cup (IF Secured(t) THEN {"server_cert", "server_key"} ELSE {})
             \cup (IF Transport[t] = "mtls" THEN {"ca_cert"} ELSE {})

\* Mutant: the dialer is given the listener's certificate with its key.
DialerSettingsAll(t) ==
  {"secret", "server_name"}
    \cup (IF Secured(t) THEN {"ca_cert", "server_cert", "server_key"} ELSE {})

DialerSettings(t) ==
  {"secret", "server_name"} \cup (IF Secured(t) THEN {"ca_cert"} ELSE {})
    \cup (IF Transport[t] = "mtls" THEN {"client_cert", "client_key"} ELSE {})

\* scopeTunnelRuntime: the settings of candidate m of stage i as n gets them.
ScopedSettings(n, t, stages, i, m) ==
  StoredSettings(t, i) \cap
    IF m = n THEN ListenerSettings(t)
    ELSE IF i > 1 /\ n \in DOMAIN stages[i - 1] THEN DialerSettings(t)
    ELSE {}

\* The tunnels a node takes part in.
ScopedTunnels(n) ==
  {t \in Tunnel : /\ tunnels[t] # Absent /\ tunnels[t].enabled = "on"
                  /\ StagesOf(n, ActiveStages(tunnels[t])) # {}}

\* scopeForwardRuntime: what n does for a forward, which of its fields it gets.
ScopedForward(n, f, stages) ==
  LET row == forwards[f]
      role == Role(n, stages)
      direct == tunnels[row.tunnel].carries = <<>>
      mine == CHOOSE i \in StagesOf(n, stages) : TRUE
  IN  [protocols |-> row.protocols \cap stages[mine][n],
       enabled |-> row.enabled,
       listen |-> IF role = "entry" THEN row.listen ELSE Absent,
       targets |-> role = "exit" \/ (role = "entry" /\ direct)]

\* scopeConfigForNodeWithActiveNodes
ScopeConfig(n) ==
  LET stages == [t \in ScopedTunnels(n) |-> ActiveStages(tunnels[t])]
      scoped(f) == ScopedForward(n, f, stages[forwards[f].tunnel])
      served == {f \in Forward : /\ forwards[f] # Absent
                                 /\ forwards[f].tunnel \in DOMAIN stages
                                 /\ scoped(f).protocols # {}}
  IN  [tunnels |-> [t \in DOMAIN stages |->
                      [stages |-> stages[t],
                       settings |-> [i \in DOMAIN stages[t] |->
                          [m \in DOMAIN stages[t][i] |-> ScopedSettings(n, t, stages[t], i, m)]]]],
       forwards |-> [f \in served |-> scoped(f)]]

-----------------------------------------------------------------------------
(* The node's side *)

\* startConfigLocked and handleStageConn serve a forward that is enabled.
Enabled(cfg, f) == f \in DOMAIN cfg.forwards /\ cfg.forwards[f].enabled = "on"

\* dialForwardNext and candidateSelector.order: the candidates of the stage
\* after stage i that support the protocol.
NextHops(cfg, t, i, p) ==
  LET next == cfg.tunnels[t].stages[i + 1]
  IN  {m \in DOMAIN next : p \in next[m]}

\* handleStageConn and validateHello at m for what n sends from its stage i.
HelloAccepted(n, m, t, i, f, p) ==
  LET from == ScopeConfig(n).tunnels[t]
      cfg == ScopeConfig(m)
  IN  /\ t \in DOMAIN cfg.tunnels
      /\ i + 1 \in DOMAIN cfg.tunnels[t].stages
      /\ m \in DOMAIN cfg.tunnels[t].stages[i + 1]
      /\ "secret" \in from.settings[i + 1][m] \cap cfg.tunnels[t].settings[i + 1][m]
      /\ Enabled(cfg, f) /\ forwards[f].tunnel = t
      /\ p \in cfg.forwards[f].protocols
      /\ p \in cfg.tunnels[t].stages[i + 1][m]

-----------------------------------------------------------------------------
(* Properties *)

\* The configurations of different nodes fit: a node that serves a forward with
\* a protocol either holds its targets or is accepted, with that forward and
\* protocol, by every candidate it may dial, whatever is edited, disabled,
\* deleted or revoked before.
RoutesMeet ==
  \A n \in Node \ revoked :
    LET cfg == ScopeConfig(n)
    IN  \A f \in DOMAIN cfg.forwards : Enabled(cfg, f) =>
          LET t == forwards[f].tunnel
              stages == cfg.tunnels[t].stages
          IN  \A i \in StagesOf(n, stages) : \A p \in cfg.forwards[f].protocols :
                IF i = Len(stages) THEN cfg.forwards[f].targets
                ELSE \A m \in NextHops(cfg, t, i, p) : HelloAccepted(n, m, t, i, f, p)

\* Of a tunnel's keys a node gets those of its own listener and the client keys
\* of the candidates it dials; a revoked node gets nothing at all.
KeysStay ==
  \A n \in Node :
    LET cfg == ScopeConfig(n)
    IN  /\ n \in revoked => DOMAIN cfg.tunnels = {} /\ DOMAIN cfg.forwards = {}
        /\ \A t \in DOMAIN cfg.tunnels :
             LET stages == cfg.tunnels[t].stages
                 settings == cfg.tunnels[t].settings
             IN  \A i \in DOMAIN stages : \A m \in DOMAIN stages[i] :
                   /\ "server_key" \in settings[i][m] => m = n
                   /\ "client_key" \in settings[i][m] => i - 1 \in StagesOf(n, stages)
                   /\ settings[i][m] # {} => m = n \/ i - 1 \in StagesOf(n, stages)
=============================================================================
