------------------------------ MODULE MCNodeHub ------------------------------
(* Instances of NodeHub for TLC. *)
EXTENDS NodeHub
=============================================================================
