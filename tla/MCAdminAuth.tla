----------------------------- MODULE MCAdminAuth -----------------------------
(* Instances of AdminAuth for TLC. *)
EXTENDS AdminAuth, TLC

\* Requests are interchangeable, and so are the names they give.
Symmetric == Permutations(Request) \cup Permutations(User)
=============================================================================
