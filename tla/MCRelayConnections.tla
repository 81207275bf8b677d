------------------------- MODULE MCRelayConnections -------------------------
(* Instances of RelayConnections for TLC: the node is the entry of t0, a     *)
(* transit stage of t1 and the exit of t2; a forward of t0 disappears, and   *)
(* another one moves between t1 and t2, which also costs it a protocol.      *)
EXTENDS RelayConnections, TLC

CONSTANTS c1, c2, f0, f1, t0, t1, t2

MCStage ==
  (t0 :> [role |-> "entry", networks |-> Network])
    @@ (t1 :> [role |-> "transit", networks |-> Network])
    @@ (t2 :> [role |-> "exit", networks |-> Network])

On(t, networks) == [tunnel |-> t, networks |-> networks]

MCConfigs ==
  {(f0 :> On(t0, {"tcp"})) @@ (f1 :> On(t2, Network)),
   (f0 :> Absent) @@ (f1 :> On(t1, {"udp"}))}

=============================================================================
