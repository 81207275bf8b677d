------------------------------ MODULE MCHistory ------------------------------
(* Instances of History for TLC. *)
EXTENDS History, TLC

MCDefault == ("retention" :> 0) @@ ("interval" :> 1)

\* Switch the cleanup on, switch it off.
MCRequest == {"retention" :> 1, "retention" :> 0}
=============================================================================
