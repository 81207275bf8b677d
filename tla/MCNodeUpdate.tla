---- MODULE MCNodeUpdate ----
(* Instances of NodeUpdate for TLC. *)
EXTENDS NodeUpdate
====
