---- MODULE MCCandidateSelector ----
(* Instances of CandidateSelector for TLC. *)
EXTENDS CandidateSelector

CONSTANTS n1, n2

Config(strategy, nodes, cooldown) ==
    [stage |-> [strategy |-> strategy, nodes |-> nodes], cooldown |-> cooldown]
Offer(n, w, udp) == [node |-> n, weight |-> w, udp |-> udp]

\* Two candidates of weight 2 and 1 in turn; the second alone, whose index
\* is another one then; both shuffled; the first for TCP only, before the
\* other one or alone.  A cooldown of two ticks may be followed by one of one.
MCConfigurations ==
    {Config("round_robin", <<Offer(n1, 2, TRUE), Offer(n2, 0, TRUE)>>, 2),
     Config("single", <<Offer(n2, 1, TRUE)>>, 1),
     Config("random", <<Offer(n1, 200, TRUE), Offer(n2, 1, TRUE)>>, 1),
     Config("failover", <<Offer(n1, 1, FALSE), Offer(n2, 1, TRUE)>>, 1)}

Symmetric == Permutations(Dials) \cup Permutations(Keys)
====
