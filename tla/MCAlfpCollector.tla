-------------------------- MODULE MCAlfpCollector --------------------------
(* Small instances of AlfpCollector for TLC. *)
EXTENDS AlfpCollector, TLC

\* Voters that do not collect are interchangeable.
Symmetry == Permutations(Honest \ Collector)

\* Bound: no round before a validator has left the leader, as no one would
\* answer, and no restart once there is an ALFP: its collector does nothing
\* more for the leader.
RoundsThatMatter ==
    /\ (\E c \in Collector : asked[c] # None) => \E v \in Honest : sealing[v]
    /\ \A c \in Collector : local[c] # None => pod[c]
=============================================================================
