-------------------------- MODULE MCPortAllocation --------------------------
(* Three nodes with two ports each, two tunnels, two forwards and two       *)
(* concurrent handlers.  The requests create direct and chain tunnels, move *)
(* an entry, narrow what an exit carries, ask for ports or leave them to    *)
(* the controller.                                                          *)
EXTENDS RouteScope, TLC

CONSTANTS n1, n2, n3, t1, t2, f1, f2

MCNode == {n1, n2, n3}
MCTunnel == {t1, t2}
MCForward == {f1, f2}
MCPortRange == (n1 :> 1 .. 2) @@ (n2 :> 1 .. 2) @@ (n3 :> 1 .. 2)
MCTransport == (t1 :> "mtls") @@ (t2 :> "direct")

Both == {"tcp", "udp"}
NoListen == [n \in {} |-> 1]

Direct(t, n) == [id |-> t, entry |-> (n :> Both), stages |-> <<>>, listen |-> NoListen,
                 enabled |-> Absent]
Chain(t, n, stages, listen) == [id |-> t, entry |-> (n :> Both), stages |-> stages,
                                listen |-> listen, enabled |-> Absent]

Wide(t) == [id |-> t, entry |-> (n1 :> {"tcp"}) @@ (n2 :> Both), stages |-> <<>>,
            listen |-> NoListen, enabled |-> "on"]

\* A chain of three stages whose exit has two candidates of different protocols,
\* a chain that asks for a port the first may have, and a tunnel with two entry
\* nodes.
MCChainRequest == {Chain(t1, n1, << n2 :> Both, n3 :> {"tcp"} >>, NoListen),
                   Chain(t2, n1, << (n2 :> {"tcp"}) @@ (n3 :> Both) >>, n2 :> 1),
                   Direct(t1, n2), Wide(t2)}

NewForward(f, t, protocols, listen) ==
  [id |-> f, tunnel |-> t, protocols |-> protocols, listen |-> listen, enabled |-> Absent]

MCForwardRequest == {NewForward(f1, t1, {"tcp"}, Absent), NewForward(f2, t2, Both, Absent),
                     NewForward(f1, Absent, Absent, 2)}

HandlerSymmetry == Permutations(Handler)
=============================================================================
