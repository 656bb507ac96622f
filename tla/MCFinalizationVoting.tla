----------------------- MODULE MCFinalizationVoting -----------------------
(* Small instances of FinalizationVoting for TLC. *)
EXTENDS FinalizationVoting, TLC

\* Validators that run the code, and hashes, are interchangeable.
Symmetry == Permutations(Honest) \cup Permutations(Hash)

\* Bound: one call of GetFinalizationProof at a time in the whole quorum.  Calls
\* on two validators touch their own databases only and meet in the set of
\* signatures, so interleaving their inner steps reaches no new outcome; the
\* other threads still interleave with every step of a call.
OneCallAtATime == Cardinality(inflight) <= 1

\* Bound: what is sealed is the leader before the last one, so that the last
\* leader stays out of the way, and all the seals signed are for one block.
\* No step reads the set of seals, so seals for several blocks only add up;
\* the hash of a seal before the first block is not compared with anything.
\* A validator is past the leader by one of the two rotations, not by both, and
\* no AFP is proposed that the bound on the index keeps from existing.
OneSealOfSupersededLeader ==
    /\ \A r \in inflight : r.block.leader # LastLeader
    /\ \A s \in lfps : s.leader # LastLeader
    /\ \A s, t \in lfps : s.index = t.index /\ s.hash = t.hash
    /\ \A s \in lfps : s.index = -1 => s.hash = ZeroHash
    /\ \A v \in Honest : currentLeader[v] = LastLeader => ~epochFinish[v]
    /\ \A r \in inflight : r.afp.prev = ZeroHash
=============================================================================
