------------------------ MODULE AlfpCollector_proofs ------------------------
(***************************************************************************)
(* The safety of LeaderVotes and of AlfpCollector, for every quorum with   *)
(* less than a third of faulty validators and every number of blocks.      *)
(***************************************************************************)
EXTENDS AlfpCollector, CoreQuorum_proofs

\* A record has come as far as the blocks voted for, and has an AFP itself.
StatsFollowVotes ==
    \A v \in Honest : /\ \A i \in voted[v] : stat[v] >= i - 1
                      /\ stat[v] = -1 \/ AfpExists(stat[v])

\* Whoever seals has left the leader, with no higher record.
SealsAreFrozen ==
    \A s \in lfps : sealing[s.voter] /\ stat[s.voter] <= s.index

VotesInv == VotesTypeOK /\ StatsFollowVotes /\ SealsAreFrozen
-----------------------------------------------------------------------------
(* LeaderVotes *)

\* Votes and seals are never withdrawn, so neither are the aggregated proofs.
LEMMA ProofsPersist ==
    ASSUME VotesTypeOK, VotesTypeOK',
           \A v \in Honest : voted[v] \subseteq voted'[v],
           lfps \subseteq lfps'
    PROVE  /\ \A i \in LastIndex : AfpExists(i) => AfpExists(i)'
           /\ \A i \in LastIndex : AlfpExists(i) => AlfpExists(i)'
<1>1. ASSUME NEW i \in LastIndex, AfpExists(i) PROVE AfpExists(i)'
  <2> DEFINE S == {v \in Honest : i \in voted[v]}
             T == {v \in Honest : i \in voted'[v]}
  <2>1. IsMajority(T)
    BY <1>1, MajorityGrows, S \subseteq T DEF AfpExists
  <2> QED
    BY <2>1 DEF AfpExists, IsMajority, GetQuorumMajority, Quorum
<1>2. ASSUME NEW i \in LastIndex, AlfpExists(i) PROVE AlfpExists(i)'
  <2> DEFINE S == {v \in Honest : [voter |-> v, index |-> i] \in lfps}
             T == {v \in Honest : [voter |-> v, index |-> i] \in lfps'}
  <2>1. IsMajority(T)
    BY <1>2, MajorityGrows, S \subseteq T DEF AlfpExists
  <2> QED
    BY <1>1, <1>2, <2>1 DEF AlfpExists, IsMajority, GetQuorumMajority, Quorum
<1> QED
  BY <1>1, <1>2

\* Indexes and records are integers.
LEMMA StatType ==
    ASSUME VotesTypeOK, NEW v \in Honest
    PROVE  stat[v] \in LastIndex /\ stat[v] \in Int /\ stat[v] >= -1
BY MaxIndexAssumption DEF VotesTypeOK, LastIndex, Index

\* At the start there are no votes and no seals.
LEMMA VotesInvInit == VotesInit => VotesInv
<1> SUFFICES ASSUME VotesInit PROVE VotesInv
  OBVIOUS
<1>1. VotesTypeOK
  BY DEF VotesInit, VotesTypeOK, LastIndex
<1> QED
  BY <1>1 DEF VotesInit, VotesInv, StatsFollowVotes, SealsAreFrozen

\* A record only moves up, and only before the validator has sealed.
LEMMA MoveStatStep ==
    ASSUME VotesInv, NEW v \in Honest, NEW i \in Index, MoveStat(v, i)
    PROVE  VotesInv'
<1> USE DEF VotesInv
<1>1. /\ stat' = [stat EXCEPT ![v] = StatFor(v, i)] /\ ~sealing[v]
      /\ stat[v] <= i /\ UNCHANGED <<voted, sealing, lfps>>
  BY DEF MoveStat
<1>2. i \in Int /\ i >= 0 /\ i - 1 \in LastIndex
  BY MaxIndexAssumption DEF Index, LastIndex
<1>3. /\ StatFor(v, i) \in LastIndex /\ StatFor(v, i) \in Int
      /\ stat[v] <= StatFor(v, i)
  BY <1>1, <1>2, StatType DEF StatFor, LastIndex
<1>4. VotesTypeOK'
  BY <1>1, <1>3 DEF VotesTypeOK
<1>5. ASSUME NEW u \in Honest, u # v PROVE stat'[u] = stat[u]
  BY <1>1, <1>5 DEF VotesTypeOK
<1>6. stat'[v] = StatFor(v, i)
  BY <1>1 DEF VotesTypeOK
<1>7. StatFor(v, i) = -1 \/ AfpExists(StatFor(v, i))
  <2>1. CASE stat[v] = i
    BY <2>1, <1>2 DEF StatFor, StatsFollowVotes
  <2>2. CASE stat[v] # i
    BY <2>2, <1>2 DEF StatFor, MoveStat, PreviousIsFinal
  <2> QED
    BY <2>1, <2>2
<1>8. \A j \in LastIndex : AfpExists(j) => AfpExists(j)'
  BY <1>1, <1>4, ProofsPersist
<1>9. StatsFollowVotes'
  <2> SUFFICES ASSUME NEW u \in Honest
               PROVE  /\ \A j \in voted[u] : stat'[u] >= j - 1
                      /\ stat'[u] = -1 \/ AfpExists(stat[u])'
    BY <1>1 DEF StatsFollowVotes
  <2>1. \A j \in voted[u] : j \in Int /\ stat[u] >= j - 1
    BY MaxIndexAssumption DEF StatsFollowVotes, VotesTypeOK, Index
  <2>2. stat[u] \in Int /\ stat'[u] \in Int /\ stat[u] <= stat'[u]
    BY <1>3, <1>5, <1>6, StatType
  <2>3. stat'[u] \in LastIndex /\ (stat'[u] = -1 \/ AfpExists(stat'[u]))
    BY <1>3, <1>5, <1>6, <1>7, StatType DEF StatsFollowVotes
  <2>4. AfpExists(stat[u])' <=> IsMajority({w \in Honest : stat'[u] \in voted[w]})
    BY <1>1 DEF AfpExists, IsMajority, GetQuorumMajority, Quorum
  <2> QED
    BY <2>1, <2>2, <2>3, <2>4 DEF AfpExists
<1>10. SealsAreFrozen'
  BY <1>1, <1>5 DEF SealsAreFrozen, VotesTypeOK
<1> QED
  BY <1>4, <1>9, <1>10

\* A vote is for the block after the record, or for that of the record.
LEMMA SignVoteStep ==
    ASSUME VotesInv, NEW v \in Honest, NEW i \in Index, SignVote(v, i)
    PROVE  VotesInv'
<1> USE DEF VotesInv
<1>1. /\ voted' = [voted EXCEPT ![v] = @ \cup {i}] /\ stat[v] = StatFor(v, i)
      /\ UNCHANGED <<stat, sealing, lfps>>
  BY DEF SignVote
<1>2. VotesTypeOK'
  BY <1>1 DEF VotesTypeOK
<1>3. \A u \in Honest : voted'[u] = IF u = v THEN voted[u] \cup {i} ELSE voted[u]
  BY <1>1 DEF VotesTypeOK
<1>4. stat[v] >= i - 1
  BY <1>1, MaxIndexAssumption DEF StatFor, Index
<1>5. \A j \in LastIndex : AfpExists(j) => AfpExists(j)'
  BY <1>1, <1>2, <1>3, ProofsPersist
<1>6. StatsFollowVotes'
  BY <1>1, <1>3, <1>4, <1>5, StatType DEF StatsFollowVotes
<1>7. SealsAreFrozen'
  BY <1>1 DEF SealsAreFrozen
<1> QED
  BY <1>2, <1>6, <1>7

\* A seal is signed by a validator that has left the leader, at or above its
\* record.
LEMMA SignLfpStep ==
    ASSUME VotesInv, NEW v \in Honest, NEW i \in LastIndex, SignLfp(v, i)
    PROVE  VotesInv'
<1> USE DEF VotesInv
<1>1. /\ lfps' = lfps \cup {[voter |-> v, index |-> i]}
      /\ sealing[v] /\ stat[v] <= i /\ UNCHANGED <<stat, voted, sealing>>
  BY DEF SignLfp, MaySeal
<1>2. VotesTypeOK'
  BY <1>1 DEF VotesTypeOK
<1>3. \A j \in LastIndex : AfpExists(j) => AfpExists(j)'
  BY <1>1, <1>2, ProofsPersist
<1>4. StatsFollowVotes'
  BY <1>1, <1>3, StatType DEF StatsFollowVotes
<1>5. SealsAreFrozen'
  BY <1>1 DEF SealsAreFrozen
<1> QED
  BY <1>2, <1>4, <1>5

\* Every step of LeaderVotes keeps the invariant.
LEMMA VotesInvNext == VotesInv /\ [VotesNext]_votes => VotesInv'
<1> SUFFICES ASSUME VotesInv, [VotesNext]_votes PROVE VotesInv'
  OBVIOUS
<1>1. ASSUME NEW v \in Honest, LeaveLeader(v) PROVE VotesInv'
  <2>1. /\ UNCHANGED <<stat, voted, lfps>>
        /\ sealing' = [sealing EXCEPT ![v] = TRUE]
    BY <1>1 DEF LeaveLeader
  <2>2. VotesTypeOK'
    BY <2>1 DEF VotesInv, VotesTypeOK
  <2>3. \A j \in LastIndex : AfpExists(j) => AfpExists(j)'
    BY <2>1, <2>2, ProofsPersist DEF VotesInv
  <2>4. StatsFollowVotes'
    BY <2>1, <2>3, StatType DEF VotesInv, StatsFollowVotes
  <2>5. SealsAreFrozen'
    BY <2>1 DEF VotesInv, SealsAreFrozen, VotesTypeOK
  <2> QED
    BY <2>2, <2>4, <2>5 DEF VotesInv
<1>2. CASE UNCHANGED votes
  BY <1>2 DEF votes, VotesInv, VotesTypeOK, StatsFollowVotes, SealsAreFrozen,
              AfpExists, IsMajority, GetQuorumMajority, Quorum
<1> QED
  BY <1>1, <1>2, MoveStatStep, SignVoteStep, SignLfpStep DEF VotesNext

\* The voters of the higher seal's AFP and the signers of the lower seal have
\* an honest validator in common, whose record is frozen between the two.
LEMMA CloseSeals == VotesInv => SealsAreClose
<1> SUFFICES ASSUME VotesInv, NEW i \in LastIndex, NEW j \in LastIndex,
                    AlfpExists(i), AlfpExists(j)
             PROVE  i <= j + 1
  BY DEF SealsAreClose
<1>1. i \in Int /\ j \in Int /\ j >= -1
  BY MaxIndexAssumption DEF LastIndex, Index
<1>2. CASE i = -1
  BY <1>1, <1>2
<1>3. CASE i # -1
  <2> DEFINE S == {v \in Honest : i \in voted[v]}
             T == {v \in Honest : [voter |-> v, index |-> j] \in lfps}
  <2>1. IsMajority(S) /\ IsMajority(T)
    BY <1>3 DEF AlfpExists, AfpExists
  <2>2. PICK v \in Honest : i \in voted[v] /\ [voter |-> v, index |-> j] \in lfps
    BY <2>1, MajoritiesIntersect
  <2>3. stat[v] >= i - 1 /\ stat[v] <= j
    BY <2>2 DEF VotesInv, StatsFollowVotes, SealsAreFrozen
  <2>4. stat[v] \in Int
    BY StatType DEF VotesInv
  <2> QED
    BY <1>1, <2>3, <2>4
<1> QED
  BY <1>2, <1>3

\* No two seals that can be collected for a leader other than the last are
\* more than one block apart.
THEOREM CloseSealsOfVotes == VotesSpec => []SealsAreClose
  BY VotesInvInit, VotesInvNext, CloseSeals, PTL DEF VotesSpec
-----------------------------------------------------------------------------
(* AlfpCollector *)

Signed(v, i) == [voter |-> v, index |-> i] \in lfps

\* What is known of one answer of the round: whoever it comes from, an UPGRADE
\* is to a block with an AFP and a signature is for the proposal.
AnswerIsSound(c, a) ==
    /\ a.up => a.index = -1 \/ AfpExists(a.index)
    /\ ~a.up => a.index = asked[c] /\ (a.voter \in Honest => Signed(a.voter, a.index))

\* The strengthening of LocalAlfpIsValid: what the cache and the round of a
\* collector hold is signed, for the one proposal that the round is about.
Sound(c) ==
    /\ skip[c] \in Index => AfpExists(skip[c])
    /\ asked[c] # None => asked[c] = skip[c]
    /\ \A v \in proofs[c] \cap Honest : Signed(v, skip[c])
    /\ \A a \in answers[c] : AnswerIsSound(c, a)
    /\ local[c] # None => AlfpExists(local[c])

CollectorInv == TypeOK /\ VotesInv /\ \A c \in Collector : Sound(c)

\* No block has the index of None.
LEMMA NoneIsNoIndex == None \notin LastIndex
BY MaxIndexAssumption DEF None, LastIndex, Index

\* Every step is a step of LeaderVotes or leaves the votes alone.
LEMMA StepsAreVotes ==
    ASSUME TypeOK, [Next]_vars
    PROVE  [VotesNext]_votes
<1>1. CASE VoteOrLeave
  BY <1>1 DEF VoteOrLeave, VotesNext
<1>2. ASSUME NEW c \in Collector, NEW r \in requests[c], AnswerOk(c, r)
      PROVE  VotesNext
  <2>1. r.skip \in LastIndex
    BY <1>2 DEF TypeOK, Request
  <2> QED
    BY <1>2, <2>1 DEF AnswerOk, VotesNext
<1>3. ASSUME NEW c \in Collector, NEW r \in requests[c],
             AnswerUpgrade(c, r) \/ AnswerFaulty(c, r) \/ LoseRequest(c, r)
      PROVE  UNCHANGED votes
  BY <1>3 DEF AnswerUpgrade, AnswerFaulty, LoseRequest
<1>4. ASSUME NEW c \in Collector,
             \/ StartRound(c) \/ FinishRound(c) \/ TimeOut(c)
             \/ StoreAlfpFromPoD(c) \/ Confirm(c) \/ Restart(c)
             \/ \E v \in Quorum : Send(c, v)
      PROVE  UNCHANGED votes
  BY <1>4 DEF StartRound, FinishRound, TimeOut, StoreAlfpFromPoD, Confirm,
              Restart, Send
<1> QED
  BY <1>1, <1>2, <1>3, <1>4 DEF Next, CollectorStep, Receive, vars

\* Signatures and aggregated proofs outlive every step.
LEMMA SignaturesPersist ==
    ASSUME VotesInv, [VotesNext]_votes
    PROVE  /\ VotesInv'
           /\ lfps \subseteq lfps'
           /\ \A i \in LastIndex : AfpExists(i) => AfpExists(i)'
           /\ \A i \in LastIndex : AlfpExists(i) => AlfpExists(i)'
<1>1. VotesInv'
  BY VotesInvNext
<1>2. lfps \subseteq lfps'
  BY DEF VotesNext, MoveStat, SignVote, LeaveLeader, SignLfp, votes
<1>3. ASSUME NEW v \in Honest PROVE voted[v] \subseteq voted'[v]
  BY <1>3 DEF VotesNext, MoveStat, SignVote, LeaveLeader, SignLfp, votes,
              VotesInv, VotesTypeOK
<1> QED
  BY <1>1, <1>2, <1>3, ProofsPersist DEF VotesInv

\* A collector that a step does not touch stays sound.
LEMMA OthersStaySound ==
    ASSUME TypeOK, VotesInv, [VotesNext]_votes, NEW c \in Collector, Sound(c),
           skip'[c] = skip[c], asked'[c] = asked[c], proofs'[c] = proofs[c],
           answers'[c] = answers[c], local'[c] = local[c]
    PROVE  Sound(c)'
<1>1. /\ lfps \subseteq lfps'
      /\ \A i \in LastIndex : AfpExists(i) => AfpExists(i)'
      /\ \A i \in LastIndex : AlfpExists(i) => AlfpExists(i)'
  BY SignaturesPersist
<1>2. ASSUME NEW a \in answers[c] PROVE AnswerIsSound(c, a)'
  <2>1. a.index \in LastIndex /\ AnswerIsSound(c, a)
    BY DEF TypeOK, Reply, Sound
  <2> QED
    BY <1>1, <2>1 DEF AnswerIsSound, Signed
<1>3. /\ skip[c] \in Index => AfpExists(skip[c])'
      /\ local[c] # None => AlfpExists(local[c])'
  BY <1>1 DEF Sound, TypeOK, LastIndex
<1> QED
  BY <1>1, <1>2, <1>3 DEF Sound, Signed, AfpExists, AlfpExists

\* The round keeps the answer or drops it.
LEMMA KeepAdds ==
    ASSUME TypeOK, NEW c \in Collector, NEW a \in Reply, Keep(c, a)
    PROVE  /\ answers' \in [Collector -> SUBSET Reply]
           /\ answers'[c] \subseteq answers[c] \cup {a}
           /\ \A d \in Collector \ {c} : answers'[d] = answers[d]
BY DEF TypeOK, Keep

\* What is stored, kept or proposed has the form that is claimed for it.
LEMMA TypeStep ==
    ASSUME TypeOK, VotesInv, [Next]_vars
    PROVE  TypeOK'
<1> USE CollectorAssumption
<1>1. VotesTypeOK'
  BY StepsAreVotes, SignaturesPersist DEF VotesInv
<1> USE <1>1 DEF TypeOK
<1>2. CASE VoteOrLeave
  BY <1>2 DEF VoteOrLeave, collection
<1>3. ASSUME NEW c \in Collector, StartRound(c) PROVE TypeOK'
  <2>1. stat[c] \in LastIndex
    BY StatType
  <2> QED
    BY <1>3, <2>1 DEF StartRound
<1>4. ASSUME NEW c \in Collector, NEW v \in Quorum, Send(c, v) PROVE TypeOK'
  <2>1. [voter |-> v, skip |-> asked[c]] \in Request
    BY <1>4 DEF Send, Request
  <2> QED
    BY <1>4, <2>1 DEF Send
<1>5. ASSUME NEW c \in Collector, NEW r \in requests[c], AnswerOk(c, r)
      PROVE  TypeOK'
  <2>1. [voter |-> r.voter, up |-> FALSE, index |-> r.skip] \in Reply
    BY <1>5 DEF Request, Reply
  <2>2. answers' \in [Collector -> SUBSET Reply]
    BY <1>5, <2>1, KeepAdds DEF AnswerOk
  <2> QED
    BY <1>5, <2>2 DEF AnswerOk, Done
<1>6. ASSUME NEW c \in Collector, NEW r \in requests[c], AnswerUpgrade(c, r)
      PROVE  TypeOK'
  <2>1. [voter |-> r.voter, up |-> TRUE, index |-> stat[r.voter]] \in Reply
    BY <1>6, StatType DEF AnswerUpgrade, Request, Reply
  <2>2. answers' \in [Collector -> SUBSET Reply]
    BY <1>6, <2>1, KeepAdds DEF AnswerUpgrade
  <2> QED
    BY <1>6, <2>2 DEF AnswerUpgrade, Done
<1>7. ASSUME NEW c \in Collector, NEW r \in requests[c], AnswerFaulty(c, r)
      PROVE  TypeOK'
  <2>1. answers' \in [Collector -> SUBSET Reply]
    <3>1. r.voter \in Quorum /\ asked[c] \in LastIndex
      BY <1>7 DEF AnswerFaulty, Request
    <3>2. CASE Keep(c, [voter |-> r.voter, up |-> FALSE, index |-> asked[c]])
      BY <3>1, <3>2, KeepAdds DEF Reply
    <3>3. ASSUME NEW i \in LastIndex,
                 Keep(c, [voter |-> r.voter, up |-> TRUE, index |-> i])
          PROVE  answers' \in [Collector -> SUBSET Reply]
      BY <3>1, <3>3, KeepAdds DEF Reply
    <3> QED
      BY <1>7, <3>2, <3>3 DEF AnswerFaulty
  <2> QED
    BY <1>7, <2>1 DEF AnswerFaulty, Done
<1>8. ASSUME NEW c \in Collector, NEW r \in requests[c], LoseRequest(c, r)
      PROVE  TypeOK'
  BY <1>8 DEF LoseRequest, Fail, Done
<1>9. ASSUME NEW c \in Collector, FinishRound(c) PROVE TypeOK'
  BY <1>9 DEF FinishRound
<1>10. ASSUME NEW c \in Collector, TimeOut(c) PROVE TypeOK'
  BY <1>10 DEF TimeOut, Fail
<1>11. ASSUME NEW c \in Collector, StoreAlfpFromPoD(c) PROVE TypeOK'
  BY <1>11 DEF StoreAlfpFromPoD
<1>12. ASSUME NEW c \in Collector, Confirm(c) PROVE TypeOK'
  BY <1>12 DEF Confirm
<1>13. ASSUME NEW c \in Collector, Restart(c) PROVE TypeOK'
  BY <1>13 DEF Restart, Fail
<1>14. CASE UNCHANGED vars
  BY <1>14 DEF vars, collection
<1> QED
  BY <1>2, <1>3, <1>4, <1>5, <1>6, <1>7, <1>8, <1>9, <1>10, <1>11, <1>12, <1>13,
     <1>14 DEF Next, CollectorStep, Receive

\* A kept answer that is sound leaves the collector sound.
LEMMA KeepIsSound ==
    ASSUME TypeOK, VotesInv, [VotesNext]_votes,
           NEW c \in Collector, NEW a \in Reply, Sound(c), Keep(c, a),
           AnswerIsSound(c, a)', UNCHANGED <<skip, asked, proofs, local>>
    PROVE  Sound(c)'
<1>1. answers'[c] \subseteq answers[c] \cup {a}
  BY KeepAdds
<1>2. /\ lfps \subseteq lfps'
      /\ \A i \in LastIndex : AfpExists(i) => AfpExists(i)'
      /\ \A i \in LastIndex : AlfpExists(i) => AlfpExists(i)'
  BY SignaturesPersist
<1>3. ASSUME NEW b \in answers[c] PROVE AnswerIsSound(c, b)'
  <2>1. b.index \in LastIndex /\ AnswerIsSound(c, b)
    BY DEF TypeOK, Reply, Sound
  <2> QED
    BY <1>2, <2>1 DEF AnswerIsSound, Signed
<1>4. /\ skip[c] \in Index => AfpExists(skip[c])'
      /\ local[c] # None => AlfpExists(local[c])'
  BY <1>2 DEF Sound, TypeOK, LastIndex
<1>5. \A b \in answers'[c] : AnswerIsSound(c, b)'
  BY <1>1, <1>3
<1> QED
  BY <1>2, <1>4, <1>5 DEF Sound, Signed, AfpExists, AlfpExists

\* The proofs after a round are signatures of the proposal after the round.
LEMMA ProcessedProofsAreSigned ==
    ASSUME TypeOK, VotesInv, NEW c \in Collector, Sound(c), asked[c] # None,
           NEW proposal \in LastIndex, NEW collected \in SUBSET Quorum,
           ProcessAnswers(c, proposal, collected)
    PROVE  /\ \A v \in collected \cap Honest : Signed(v, proposal)
           /\ proposal = -1 \/ AfpExists(proposal)
<1>1. \A v \in Signatures(c) \cap Honest : Signed(v, asked[c])
  BY DEF Signatures, Upgrades, Sound, AnswerIsSound
<1>2. CASE proposal = skip[c] /\ collected = proofs[c] \cup Signatures(c)
  BY <1>1, <1>2 DEF Sound, LastIndex
<1>3. ASSUME NEW u \in Upgrades(c), NEW S \in SUBSET Signatures(c),
             proposal = u.index, collected = ResetProofs(c, u.index, S)
      PROVE  /\ \A v \in collected \cap Honest : Signed(v, proposal)
             /\ proposal = -1 \/ AfpExists(proposal)
  <2>1. proposal = -1 \/ AfpExists(proposal)
    BY <1>3 DEF Upgrades, Sound, AnswerIsSound
  <2>2. CASE proposal = asked[c]
    BY <1>1, <1>3, <2>1, <2>2 DEF ResetProofs
  <2>3. CASE proposal # asked[c]
    BY <1>3, <2>1, <2>3 DEF ResetProofs
  <2> QED
    BY <2>2, <2>3
<1> QED
  BY <1>2, <1>3 DEF ProcessAnswers

\* Enough proofs make an ALFP: those of faulty voters may exist anyway.
LEMMA EnoughProofsSeal ==
    ASSUME NEW i \in LastIndex, i = -1 \/ AfpExists(i),
           NEW S \in SUBSET Quorum, EnoughFor(S),
           \A v \in S \cap Honest : Signed(v, i)
    PROVE  AlfpExists(i)
<1> DEFINE T == {v \in Honest : [voter |-> v, index |-> i] \in lfps}
<1>1. IsFiniteSet(Quorum) /\ T \cup Faulty \subseteq Quorum
  BY QuorumAssumption, FS_Union DEF Quorum
<1>2. S \subseteq T \cup Faulty
  BY DEF Signed, Quorum
<1>3. IsFiniteSet(T \cup Faulty) /\ IsFiniteSet(S)
  BY <1>1, FS_Subset
<1>4. /\ Cardinality(S) \in Nat /\ Cardinality(T \cup Faulty) \in Nat
      /\ Cardinality(S) <= Cardinality(T \cup Faulty)
  BY <1>2, <1>3, FS_Subset, FS_CardinalityType
<1>5. GetQuorumMajority \in Int /\ Cardinality(S) >= GetQuorumMajority
  <2>1. Cardinality(Quorum) \in Nat
    BY <1>1, FS_CardinalityType
  <2> QED
    BY <2>1 DEF EnoughFor, GetQuorumMajority
<1>6. IsMajority(T)
  <2>1. Cardinality(T \cup Faulty) >= GetQuorumMajority
    <3> HIDE DEF T
    <3> QED
      BY <1>4, <1>5
  <2> QED
    BY <2>1 DEF IsMajority
<1> QED
  BY <1>6 DEF AlfpExists

\* Every step leaves every collector sound.
LEMMA SoundStep ==
    ASSUME CollectorInv, [Next]_vars, NEW d \in Collector
    PROVE  Sound(d)'
<1> USE DEF CollectorInv
<1>1. [VotesNext]_votes /\ TypeOK'
  BY StepsAreVotes, TypeStep
<1>2. /\ VotesInv'
      /\ lfps \subseteq lfps'
      /\ \A i \in LastIndex : AfpExists(i) => AfpExists(i)'
      /\ \A i \in LastIndex : AlfpExists(i) => AlfpExists(i)'
  BY <1>1, SignaturesPersist
<1>3. ASSUME /\ skip'[d] = skip[d]
             /\ asked'[d] = asked[d]
             /\ proofs'[d] = proofs[d]
             /\ answers'[d] = answers[d]
             /\ local'[d] = local[d]
      PROVE  Sound(d)'
  BY <1>1, <1>3, OthersStaySound
<1>4. ASSUME NEW i \in LastIndex, i # -1 => AfpExists(i)
      PROVE  i \in Index => AfpExists(i)'
  BY <1>2, <1>4, MaxIndexAssumption DEF LastIndex, Index
<1>5. \A i : i = local[d] /\ i # None => AlfpExists(i)'
  BY <1>2 DEF Sound, TypeOK
<1>6. CASE VoteOrLeave \/ UNCHANGED vars
  BY <1>3, <1>6 DEF VoteOrLeave, vars, collection
<1>7. ASSUME NEW c \in Collector, NEW v \in Quorum, Send(c, v) PROVE Sound(d)'
  BY <1>3, <1>7 DEF Send
<1>8. ASSUME NEW c \in Collector, NEW r \in requests[c], LoseRequest(c, r)
      PROVE  Sound(d)'
  BY <1>3, <1>8 DEF LoseRequest
<1>9. ASSUME NEW c \in Collector, Confirm(c) PROVE Sound(d)'
  BY <1>3, <1>9 DEF Confirm
<1>10. ASSUME NEW c \in Collector, StartRound(c) PROVE Sound(d)'
  <2>1. CASE d # c
    BY <1>3, <1>10, <2>1 DEF StartRound, TypeOK
  <2>2. CASE d = c
    <3>1. PICK i \in LastIndex :
             /\ i = IF skip[d] = None THEN stat[d] ELSE skip[d]
             /\ skip'[d] = i /\ asked'[d] = i /\ answers'[d] = {}
      BY <1>10, <2>2, StatType, CollectorAssumption
         DEF StartRound, TypeOK, VotesInv
    <3>2. proofs'[d] = proofs[d] /\ local'[d] = local[d]
      BY <1>10 DEF StartRound
    <3>3. i \in Index => AfpExists(i)'
      <4>1. CASE skip[d] = None
        BY <1>4, <3>1, <4>1, CollectorAssumption DEF VotesInv, StatsFollowVotes
      <4>2. CASE skip[d] # None
        BY <1>2, <3>1, <4>2 DEF Sound
      <4> QED
        BY <4>1, <4>2
    <3>4. \A v \in proofs[d] \cap Honest : Signed(v, i)'
      <4>1. CASE skip[d] = None
        BY <4>1, NoneIsNoIndex DEF Sound, Signed, VotesInv, VotesTypeOK
      <4>2. CASE skip[d] # None
        BY <1>2, <3>1, <4>2 DEF Sound, Signed
      <4> QED
        BY <4>1, <4>2
    <3> QED
      BY <1>5, <3>1, <3>2, <3>3, <3>4
         DEF Sound, Signed, AfpExists, AlfpExists
  <2> QED
    BY <2>1, <2>2
<1>11. ASSUME NEW c \in Collector, NEW r \in requests[c], AnswerOk(c, r)
       PROVE  Sound(d)'
  <2> DEFINE a == [voter |-> r.voter, up |-> FALSE, index |-> r.skip]
  <2>1. CASE r.skip # asked[c]
    BY <1>3, <1>11, <2>1 DEF AnswerOk
  <2>2. CASE r.skip = asked[c]
    <3>1. a \in Reply /\ Keep(c, a)
      BY <1>11, <2>2 DEF AnswerOk, TypeOK, Request, Reply
    <3>2. AnswerIsSound(c, a)'
      BY <1>11, <2>2 DEF AnswerOk, SignLfp, AnswerIsSound, Signed
    <3>3. CASE d # c
      BY <1>3, <1>11, <3>1, <3>3, KeepAdds DEF AnswerOk
    <3>4. CASE d = c
      BY <1>1, <1>11, <3>1, <3>2, <3>4, KeepIsSound DEF AnswerOk
    <3> QED
      BY <3>3, <3>4
  <2> QED
    BY <2>1, <2>2
<1>12. ASSUME NEW c \in Collector, NEW r \in requests[c], AnswerUpgrade(c, r)
       PROVE  Sound(d)'
  <2>1. PICK i \in LastIndex : i = stat[r.voter] /\ (i = -1 \/ AfpExists(i))
    BY <1>12, StatType DEF AnswerUpgrade, VotesInv, StatsFollowVotes
  <2> DEFINE a == [voter |-> r.voter, up |-> TRUE, index |-> i]
  <2>2. a \in Reply /\ Keep(c, a)
    BY <1>12, <2>1 DEF AnswerUpgrade, TypeOK, Request, Reply
  <2>3. i = -1 \/ AfpExists(i)'
    BY <1>2, <2>1
  <2>4. AnswerIsSound(c, a)'
    BY <2>3 DEF AnswerIsSound
  <2>5. CASE d # c
    BY <1>3, <1>12, <2>2, <2>5, KeepAdds DEF AnswerUpgrade
  <2>6. CASE d = c
    BY <1>1, <1>12, <2>2, <2>4, <2>6, KeepIsSound DEF AnswerUpgrade
  <2> QED
    BY <2>5, <2>6
<1>13. ASSUME NEW c \in Collector, NEW r \in requests[c], AnswerFaulty(c, r)
       PROVE  Sound(d)'
  <2>1. PICK a \in Reply : Keep(c, a) /\ AnswerIsSound(c, a)'
    <3>1. r.voter \in Quorum /\ r.voter \notin Honest /\ asked[c] \in LastIndex
      BY <1>13, QuorumAssumption DEF AnswerFaulty, TypeOK, Request
    <3>2. ASSUME NEW i \in LastIndex, i = asked[c],
                 Keep(c, [voter |-> r.voter, up |-> FALSE, index |-> i])
          PROVE  \E a \in Reply : Keep(c, a) /\ AnswerIsSound(c, a)'
      <4> DEFINE a == [voter |-> r.voter, up |-> FALSE, index |-> i]
      <4>1. a \in Reply
        BY <3>1 DEF Reply
      <4>2. AnswerIsSound(c, a)'
        BY <1>13, <3>1, <3>2 DEF AnswerFaulty, AnswerIsSound
      <4> QED
        BY <3>2, <4>1, <4>2
    <3>3. ASSUME NEW i \in LastIndex, i = -1 \/ AfpExists(i),
                 Keep(c, [voter |-> r.voter, up |-> TRUE, index |-> i])
          PROVE  \E a \in Reply : Keep(c, a) /\ AnswerIsSound(c, a)'
      <4> DEFINE a == [voter |-> r.voter, up |-> TRUE, index |-> i]
      <4>1. a \in Reply
        BY <3>1 DEF Reply
      <4>2. i = -1 \/ AfpExists(i)'
        BY <1>2, <3>3
      <4>3. AnswerIsSound(c, a)'
        BY <4>2 DEF AnswerIsSound
      <4> QED
        BY <3>3, <4>1, <4>3
    <3> QED
      BY <1>13, <3>1, <3>2, <3>3 DEF AnswerFaulty
  <2>2. CASE d # c
    BY <1>3, <1>13, <2>1, <2>2, KeepAdds DEF AnswerFaulty
  <2>3. CASE d = c
    BY <1>1, <1>13, <2>1, <2>3, KeepIsSound DEF AnswerFaulty
  <2> QED
    BY <2>2, <2>3
<1>14. ASSUME NEW c \in Collector, FinishRound(c) PROVE Sound(d)'
  <2>1. CASE d # c
    BY <1>3, <1>14, <2>1 DEF FinishRound, TypeOK
  <2>2. CASE d = c
    <3>1. PICK proposal \in LastIndex, collected \in SUBSET Quorum :
             /\ ProcessAnswers(d, proposal, collected)
             /\ skip'[d] = proposal
             /\ proofs'[d] = collected
             /\ local'[d] = IF EnoughFor(collected) THEN proposal ELSE local[d]
      BY <1>14, <2>2 DEF FinishRound, TypeOK
    <3>2. asked[d] # None /\ asked'[d] = None /\ answers'[d] = {}
      BY <1>14, <2>2 DEF FinishRound, TypeOK
    <3>3. /\ \A v \in collected \cap Honest : Signed(v, proposal)
          /\ proposal = -1 \/ AfpExists(proposal)
      BY <3>1, <3>2, ProcessedProofsAreSigned
    <3>4. proposal \in Index => AfpExists(proposal)'
      BY <1>4, <3>3
    <3>5. \A v \in collected \cap Honest : Signed(v, proposal)'
      BY <1>2, <3>3 DEF Signed
    <3>6. EnoughFor(collected) => AlfpExists(proposal)'
      BY <1>2, <3>3, EnoughProofsSeal
    <3> QED
      BY <1>5, <3>1, <3>2, <3>4, <3>5, <3>6
         DEF Sound, Signed, AfpExists, AlfpExists
  <2> QED
    BY <2>1, <2>2
<1>15. ASSUME NEW c \in Collector, TimeOut(c) PROVE Sound(d)'
  <2>1. CASE d # c
    BY <1>3, <1>15, <2>1 DEF TimeOut, TypeOK
  <2>2. CASE d = c
    BY <1>15, <2>2 DEF TimeOut, TypeOK, Sound, votes, Signed, AfpExists, AlfpExists
  <2> QED
    BY <2>1, <2>2
<1>16. ASSUME NEW c \in Collector, StoreAlfpFromPoD(c) PROVE Sound(d)'
  <2>1. CASE d # c
    BY <1>3, <1>16, <2>1 DEF StoreAlfpFromPoD, TypeOK
  <2>2. CASE d = c
    <3>1. PICK i \in LastIndex : AlfpExists(i) /\ local'[d] = i
      BY <1>16, <2>2 DEF StoreAlfpFromPoD, TypeOK
    <3>2. UNCHANGED <<votes, skip, proofs, asked, answers>>
      BY <1>16 DEF StoreAlfpFromPoD
    <3>3. \A j : AfpExists(j)' = AfpExists(j) /\ AlfpExists(j)' = AlfpExists(j)
      BY <3>2 DEF votes, AfpExists, AlfpExists
    <3>4. \A v, j : Signed(v, j)' = Signed(v, j)
      BY <3>2 DEF votes, Signed
    <3>5. \A a \in answers[d] : AnswerIsSound(d, a)' = AnswerIsSound(d, a)
      BY <3>2, <3>3, <3>4 DEF AnswerIsSound
    <3> QED
      BY <3>1, <3>2, <3>3, <3>4, <3>5 DEF Sound
  <2> QED
    BY <2>1, <2>2
<1>17. ASSUME NEW c \in Collector, Restart(c) PROVE Sound(d)'
  <2>1. CASE d # c
    BY <1>3, <1>17, <2>1 DEF Restart, TypeOK
  <2>2. CASE d = c
    <3>1. /\ skip'[d] = None /\ proofs'[d] = {} /\ asked'[d] = None
          /\ answers'[d] = {} /\ local'[d] = local[d]
      BY <1>17, <2>2 DEF Restart, TypeOK
    <3> QED
      BY <1>5, <3>1, NoneIsNoIndex DEF Sound, LastIndex, AlfpExists
  <2> QED
    BY <2>1, <2>2
<1> QED
  BY <1>6, <1>7, <1>8, <1>9, <1>10, <1>11, <1>12, <1>13, <1>14, <1>15, <1>16,
     <1>17 DEF Next, CollectorStep, Receive

\* The collectors start with nothing.
LEMMA CollectorInvInit == Init => CollectorInv
<1> SUFFICES ASSUME Init PROVE CollectorInv
  OBVIOUS
<1>1. VotesInv
  BY VotesInvInit DEF Init
<1>2. TypeOK
  BY <1>1, CollectorAssumption DEF Init, TypeOK, VotesInv
<1>3. ASSUME NEW c \in Collector PROVE Sound(c)
  BY NoneIsNoIndex DEF Init, Sound, LastIndex
<1> QED
  BY <1>1, <1>2, <1>3 DEF CollectorInv

\* Every step of the collectors keeps the invariant.
LEMMA CollectorInvNext == CollectorInv /\ [Next]_vars => CollectorInv'
<1> SUFFICES ASSUME CollectorInv, [Next]_vars PROVE CollectorInv'
  OBVIOUS
<1>1. TypeOK' /\ VotesInv'
  BY TypeStep, StepsAreVotes, SignaturesPersist DEF CollectorInv
<1> QED
  BY <1>1, SoundStep DEF CollectorInv

\* The state of votes, rounds and caches has the form that is claimed for it.
THEOREM TypeCorrect == Spec => []TypeOK
<1>1. CollectorInv => TypeOK
  BY DEF CollectorInv
<1> QED
  BY <1>1, CollectorInvInit, CollectorInvNext, PTL DEF Spec

\* Every ALFP that a collector stores verifies, over any number of rounds,
\* restarts and UPGRADEs, wherever the faulty voters answer what.
THEOREM StoredAlfpsAreValid == Spec => []LocalAlfpIsValid
<1>1. CollectorInv => LocalAlfpIsValid
  BY DEF CollectorInv, Sound, LocalAlfpIsValid
<1> QED
  BY <1>1, CollectorInvInit, CollectorInvNext, PTL DEF Spec

\* The ALFPs that different collectors store for a leader are at most one
\* block apart.
THEOREM SealsOfCollectorsAreClose == Spec => []SealsAreClose
<1>1. CollectorInv => SealsAreClose
  BY CloseSeals DEF CollectorInv
<1> QED
  BY <1>1, CollectorInvInit, CollectorInvNext, PTL DEF Spec
=============================================================================
