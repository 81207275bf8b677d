----------------------------- MODULE PortLedger -----------------------------
(***************************************************************************)
(* What the port allocations promise, without tunnels, forwards, requests  *)
(* or tables: every port of a node and protocol is free or held by one     *)
(* owner; an owner may exchange the ports it holds for free ones, or ports *)
(* are given back.                                                         *)
(***************************************************************************)
CONSTANTS Key, Owner, Nobody

VARIABLE holder  \* who holds each port

Init == holder = [k \in Key |-> Nobody]

\* What one owner takes was free, what is given back was its own.
Exchange(o) ==
  /\ holder' \in [Key -> Owner \cup {Nobody}]
  /\ \A k \in Key : holder'[k] # holder[k] =>
       \/ holder[k] = Nobody /\ holder'[k] = o
       \/ holder[k] = o /\ holder'[k] = Nobody

\* The ports of any number of owners are given back.
Release ==
  /\ holder' \in [Key -> Owner \cup {Nobody}]
  /\ \A k \in Key : holder'[k] # holder[k] => holder'[k] = Nobody

Next == Release \/ \E o \in Owner : Exchange(o)

Spec == Init /\ [][Next]_holder
=============================================================================
