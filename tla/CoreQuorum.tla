----------------------------- MODULE CoreQuorum -----------------------------
(***************************************************************************)
(* The quorum of an epoch of the core network, and what its aggregated     *)
(* proofs need: signatures of a majority.                                  *)
(***************************************************************************)
EXTENDS Integers, FiniteSets

CONSTANTS
    Honest,      \* validators of the quorum that run this code
    Faulty       \* validators of the quorum whose signatures are arbitrary

ASSUME QuorumAssumption ==
    /\ IsFiniteSet(Honest)
    /\ IsFiniteSet(Faulty)
    /\ Honest \cap Faulty = {}
    /\ 3 * Cardinality(Faulty) < Cardinality(Honest \cup Faulty)

Quorum == Honest \cup Faulty

\* Mutation: the "+ 1" of the majority is forgotten.
TwoThirdsOfQuorum == (2 * Cardinality(Quorum)) \div 3

\* Two thirds of the quorum rounded down, plus one, and never more than all.
GetQuorumMajority ==
    LET n == Cardinality(Quorum)
        m == (2 * n) \div 3 + 1
    IN  IF m > n THEN n ELSE m

\* An aggregated proof can be made once the honest validators of S have signed.
IsMajority(S) == Cardinality(S \cup Faulty) >= GetQuorumMajority
=============================================================================
