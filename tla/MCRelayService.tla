--------------------------- MODULE MCRelayService ---------------------------
(* Two addresses, three revisions: 0 (the empty start), 1, which comes     *)
(* with either of two contents, and 2, which needs both addresses.         *)
EXTENDS RelayService, TLC

CONSTANTS a1, a2

MCAddr == {a1, a2}
MCRevision == {0, 1, 2}
MCContent == (0 :> {{}}) @@ (1 :> {{a1}, {a2}}) @@ (2 :> {{a1, a2}})
=============================================================================
