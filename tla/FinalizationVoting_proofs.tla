---------------------- MODULE FinalizationVoting_proofs ----------------------
(***************************************************************************)
(* The properties of FinalizationVoting, for every quorum with less than a *)
(* third of faulty validators, every number of leaders and of blocks, and  *)
(* those of LeaderPipeline, the leader that runs with such a quorum.       *)
(***************************************************************************)
EXTENDS LeaderPipeline, CoreQuorum_proofs

(* The inductive invariant *)

\* BLOCK_CREATOR_REQUEST_MUTEX: a validator runs one call at a time.
Mutex == \A r, q \in inflight : r.voter = q.voter => r = q

\* The locks a running call holds, what it has checked and what it has written.
Calls ==
    \A r \in inflight :
        /\ ~rotated[r.voter]
        /\ currentLeader[r.voter] = r.block.leader
        /\ r.block \in finalizationVote[r.voter]
        /\ r.phase # "voted" => PreviousAfpIsOk(r.block, r.afp)
        /\ r.phase # "statStored" => ItsSameChainSegment(r.voter, r.block)
        /\ r.phase = "statStored" =>
              votingStat[r.voter][r.block.leader].index >= r.block.index - 1

\* A validator votes for one block per leader and index.
OneVote ==
    \A v \in Honest : \A b, c \in finalizationVote[v] : SameId(b, c) => b = c

\* What stands behind a signature: the vote, the AFP of the previous block and
\* a VotingStat that has come as far as the previous block.
Signed ==
    \A s \in fps :
        /\ s.vote.block \in finalizationVote[s.voter]
        /\ votingStat[s.voter][s.vote.block.leader].index
              >= s.vote.block.index - 1
        /\ \E afp \in PrevAfp : /\ s.vote = SignedVote(s.vote.block, afp)
                                /\ PreviousAfpIsOk(s.vote.block, afp)

\* A sealed leader that is not the last one is locked on the validator.
Sealed ==
    \A s \in lfps : s.leader # LastLeader =>
        /\ rotated[s.voter] \/ currentLeader[s.voter] > s.leader
        /\ votingStat[s.voter][s.leader].index <= s.index

IndInv == TypeOK /\ Mutex /\ Calls /\ OneVote /\ Signed /\ Sealed
-----------------------------------------------------------------------------
(* Quorums *)

\* Signatures are never withdrawn, so neither are aggregated proofs.
LEMMA AfpPersists ==
    ASSUME fps \subseteq fps', NEW x, VerifyAggregatedFinalizationProof(x)
    PROVE  VerifyAggregatedFinalizationProof(x)'
<1>1. FpSigners(x) \subseteq FpSigners(x)' /\ FpSigners(x)' \subseteq Honest
  BY DEF FpSigners
<1>2. IsMajority(FpSigners(x)')
  BY <1>1, MajorityGrows DEF VerifyAggregatedFinalizationProof
<1> QED
  BY <1>2 DEF VerifyAggregatedFinalizationProof, IsMajority, GetQuorumMajority,
              Quorum

\* An AFP that GetFinalizationProof accepted for the previous block stays
\* valid.
LEMMA PreviousAfpPersists ==
    ASSUME fps \subseteq fps', NEW b, NEW afp, PreviousAfpIsOk(b, afp)
    PROVE  PreviousAfpIsOk(b, afp)'
BY AfpPersists DEF PreviousAfpIsOk, PreviousVote
-----------------------------------------------------------------------------
(* Type correctness *)

\* The fields of a block.
LEMMA BlockType ==
    ASSUME NEW b \in Block
    PROVE  /\ b.leader \in Leader /\ b.hash \in Hash
           /\ b.index \in Index /\ b.index \in Nat
           /\ b.index # 0 => b.index - 1 \in Index
<1>1. b.leader \in Leader /\ b.hash \in Hash /\ b.index \in Index
  BY DEF Block
<1> QED
  BY <1>1, BoundsAssumption DEF Index

\* A block is its id and its hash.
LEMMA BlockEquality ==
    ASSUME NEW b \in Block, NEW c \in Block, SameId(b, c), b.hash = c.hash
    PROVE  b = c
BY DEF Block, SameId

\* The fields of a VotingStat.
LEMMA VotingStatType ==
    ASSUME TypeOK, NEW v \in Honest, NEW l \in Leader
    PROVE  /\ votingStat[v][l] \in VotingStat
           /\ votingStat[v][l].index \in Int
<1>1. votingStat[v][l] \in VotingStat
  BY DEF TypeOK
<1> QED
  BY <1>1 DEF VotingStat, Index

\* The fields of a running call of GetFinalizationProof.
LEMMA RequestType ==
    ASSUME NEW r \in Request
    PROVE  /\ r.voter \in Honest /\ r.block \in Block /\ r.phase \in Phase
           /\ r.afp \in PrevAfp
           /\ r.afp.hash \in PrevHash /\ r.afp.prev \in PrevHash
BY DEF Request, PrevAfp

\* Every step keeps the types; the calls are needed because the index before
\* a block is only an index when the block is not the first.
LEMMA TypeOKInductive == TypeOK /\ Calls /\ [Next]_vars => TypeOK'
<1> SUFFICES ASSUME TypeOK, Calls, [Next]_vars PROVE TypeOK'
  OBVIOUS
<1> USE DEF TypeOK, Request, Phase
<1>0. \A r \in inflight : r \in Request
  OBVIOUS
<1>1. ASSUME NEW v \in Honest, NEW b \in Block, NEW afp \in ProposedAfp(b),
             RecordVote(v, b, afp)
      PROVE  TypeOK'
  <2>1. afp \in PrevAfp
    BY DEF ProposedAfp, PrevAfp, PrevHash
  <2> QED
    BY <1>1, <2>1 DEF RecordVote
<1>2. ASSUME NEW r \in inflight, RejectPreviousAfp(r) PROVE TypeOK'
  BY <1>2 DEF RejectPreviousAfp
<1>3. ASSUME NEW r \in inflight, StoreBlock(r) PROVE TypeOK'
  BY <1>3 DEF StoreBlock, Advance, AtPhase
<1>4. ASSUME NEW r \in inflight, StorePreviousAfp(r) PROVE TypeOK'
  <2>1. CASE r.block.index = 0
    BY <1>4, <2>1 DEF StorePreviousAfp, Advance, AtPhase
  <2>2. CASE r.block.index # 0
    <3> DEFINE x == PreviousVote(r.block, r.afp)
    <3>1. r.afp.hash \in Hash
      BY <1>4, <2>2 DEF StorePreviousAfp, Calls, PreviousAfpIsOk
    <3>2. x \in Vote
      BY <1>0, <2>2, <3>1, RequestType, BlockType DEF PreviousVote, Vote, Block
    <3>3. storedAfps' \in [Honest -> SUBSET Vote]
      BY <1>4, <2>2, <3>2 DEF StorePreviousAfp
    <3> QED
      BY <1>4, <3>3 DEF StorePreviousAfp, Advance, AtPhase
  <2> QED
    BY <2>1, <2>2
<1>5. ASSUME NEW r \in inflight, StoreVotingStat(r) PROVE TypeOK'
  <2>0. /\ r.voter \in Honest /\ r.block.leader \in Leader
        /\ r.afp.hash \in PrevHash /\ r.block.index \in Nat
        /\ r.block.index # 0 => r.block.index - 1 \in Index
    BY <1>0, RequestType, BlockType
  <2>1. votingStat[r.voter][r.block.leader] \in VotingStat
    BY <2>0
  <2>2. FutureVotingData(votingStat[r.voter][r.block.leader], r.block, r.afp)
           \in VotingStat
    BY <2>0, <2>1 DEF FutureVotingData, VotingStat,
                      NewLeaderVotingStatTemplate, PrevHash
  <2>3. votingStat' \in [Honest -> [Leader -> VotingStat]]
    BY <2>0, <1>5, <2>2 DEF StoreVotingStat
  <2> QED
    BY <1>5, <2>3 DEF StoreVotingStat, Advance, AtPhase
<1>6. ASSUME NEW r \in inflight, SignFinalizationProof(r) PROVE TypeOK'
  <2>1. SignedVote(r.block, r.afp) \in Vote
    BY DEF SignedVote, Vote, PrevAfp, PrevHash
  <2> QED
    BY <1>6, <2>1 DEF SignFinalizationProof
<1>7. ASSUME NEW v \in Honest, NEW l \in Leader, NEW i \in Index \cup {-1},
             NEW h \in PrevHash, SignLeaderFinalizationProof(v, l, i, h)
      PROVE  TypeOK'
  BY <1>7 DEF SignLeaderFinalizationProof
<1>8. ASSUME NEW v \in Honest, Crash(v) PROVE TypeOK'
  BY <1>8 DEF Crash
<1>9. ASSUME NEW v \in Honest, RotateLeader(v) PROVE TypeOK'
  BY <1>9, BoundsAssumption DEF RotateLeader, Leader
<1>10. ASSUME NEW v \in Honest, RaiseEpochFinish(v) PROVE TypeOK'
  BY <1>10 DEF RaiseEpochFinish
<1>11. ASSUME NEW v \in Honest, RotateEpoch(v) PROVE TypeOK'
  BY <1>11 DEF RotateEpoch
<1>12. CASE UNCHANGED vars
  BY <1>12 DEF vars
<1> QED
  BY <1>1, <1>2, <1>3, <1>4, <1>5, <1>6, <1>7, <1>8, <1>9, <1>10, <1>11, <1>12
     DEF Next, FinalizationProofStep
-----------------------------------------------------------------------------
(* The invariant is inductive *)

\* A call is not disturbed by what happens elsewhere: nothing of what it relies
\* on changes while its locks are held.
LEMMA CallUndisturbed ==
    ASSUME NEW r,
           fps \subseteq fps',
           rotated'[r.voter] = rotated[r.voter],
           currentLeader'[r.voter] = currentLeader[r.voter],
           finalizationVote[r.voter] \subseteq finalizationVote'[r.voter],
           votingStat'[r.voter] = votingStat[r.voter],
           r \in inflight, Calls
    PROVE  /\ ~rotated'[r.voter]
           /\ currentLeader'[r.voter] = r.block.leader
           /\ r.block \in finalizationVote'[r.voter]
           /\ r.phase # "voted" => PreviousAfpIsOk(r.block, r.afp)'
           /\ r.phase # "statStored" => ItsSameChainSegment(r.voter, r.block)'
           /\ r.phase = "statStored" =>
                 votingStat'[r.voter][r.block.leader].index
                    >= r.block.index - 1
<1>1. r.phase # "voted" => PreviousAfpIsOk(r.block, r.afp)'
  BY PreviousAfpPersists DEF Calls
<1> QED
  BY <1>1 DEF Calls, ItsSameChainSegment

\* Signatures stay justified as votes are kept and VotingStat only grows.
LEMMA SignedPersists ==
    ASSUME TypeOK, Signed, TypeOK', fps' = fps,
           \A v \in Honest : finalizationVote[v] \subseteq finalizationVote'[v],
           \A v \in Honest, l \in Leader :
               votingStat'[v][l].index >= votingStat[v][l].index
    PROVE  Signed'
<1> SUFFICES ASSUME NEW s \in fps
             PROVE  /\ s.vote.block \in finalizationVote'[s.voter]
                    /\ votingStat'[s.voter][s.vote.block.leader].index
                          >= s.vote.block.index - 1
                    /\ \E afp \in PrevAfp :
                          /\ s.vote = SignedVote(s.vote.block, afp)
                          /\ PreviousAfpIsOk(s.vote.block, afp)'
  BY DEF Signed
<1>1. s.voter \in Honest /\ s.vote.block \in Block
  BY DEF TypeOK, Vote
<1>2. s.vote.block.leader \in Leader /\ s.vote.block.index \in Nat
  BY <1>1, BlockType
<1>3. /\ votingStat[s.voter][s.vote.block.leader] \in VotingStat
      /\ votingStat'[s.voter][s.vote.block.leader] \in VotingStat
  BY <1>1, <1>2 DEF TypeOK
<1>4. /\ votingStat[s.voter][s.vote.block.leader].index \in Int
      /\ votingStat'[s.voter][s.vote.block.leader].index \in Int
  BY <1>3 DEF VotingStat, Index
<1>5. votingStat'[s.voter][s.vote.block.leader].index
         >= s.vote.block.index - 1
  BY <1>1, <1>2, <1>4 DEF Signed
<1>6. PICK afp \in PrevAfp : /\ s.vote = SignedVote(s.vote.block, afp)
                             /\ PreviousAfpIsOk(s.vote.block, afp)
  BY DEF Signed
<1>7. PreviousAfpIsOk(s.vote.block, afp)'
  BY <1>6, PreviousAfpPersists
<1> QED
  BY <1>1, <1>5, <1>6, <1>7 DEF Signed

\* A locked leader stays locked.
LEMMA SealedPersists ==
    ASSUME TypeOK, Sealed, TypeOK', lfps' = lfps, votingStat' = votingStat,
           \A v \in Honest : /\ rotated[v] => rotated'[v]
                             /\ currentLeader'[v] >= currentLeader[v]
    PROVE  Sealed'
<1> SUFFICES ASSUME NEW s \in lfps, s.leader # LastLeader
             PROVE  rotated'[s.voter] \/ currentLeader'[s.voter] > s.leader
  BY DEF Sealed
<1>1. /\ s.voter \in Honest /\ s.leader \in Int
      /\ currentLeader[s.voter] \in Int /\ currentLeader'[s.voter] \in Int
  BY BoundsAssumption DEF TypeOK, Leader
<1>2. rotated[s.voter] \/ currentLeader[s.voter] > s.leader
  BY DEF Sealed
<1> QED
  BY <1>1, <1>2

\* RecordVote: the vote is the only one for its block id, and the call starts
\* with what it has checked.
LEMMA RecordVoteStep ==
    ASSUME IndInv, TypeOK', NEW v \in Honest, NEW b \in Block,
           NEW afp \in ProposedAfp(b), RecordVote(v, b, afp)
    PROVE  IndInv'
<1> DEFINE q == [voter |-> v, block |-> b, afp |-> afp, phase |-> "voted"]
<1> USE DEF IndInv
<1>1. inflight' = inflight \cup {q} /\ Handling(v) = {}
  BY DEF RecordVote
<1>2. Mutex'
  BY <1>1 DEF Mutex, Handling
<1>3. Calls'
  <2>1. ASSUME NEW r \in inflight
        PROVE  finalizationVote[r.voter] \subseteq finalizationVote'[r.voter]
    BY DEF RecordVote, TypeOK, Request
  <2>2. UNCHANGED <<fps, rotated, currentLeader, votingStat>>
    BY DEF RecordVote
  <2>3. /\ ~rotated'[v] /\ currentLeader'[v] = b.leader
        /\ b \in finalizationVote'[v] /\ ItsSameChainSegment(v, b)'
    BY DEF RecordVote, TypeOK, ItsSameChainSegment
  <2>4. ASSUME NEW r \in inflight'
        PROVE  Calls!(r)'
    <3>1. CASE r = q
      BY <3>1, <2>3
    <3>2. CASE r \in inflight
      BY <3>2, <2>1, <2>2, CallUndisturbed
    <3> QED
      BY <1>1, <3>1, <3>2
  <2> QED
    BY <2>4 DEF Calls
<1>4. OneVote'
  <2> SUFFICES ASSUME NEW w \in Honest, NEW c \in finalizationVote'[w],
                      NEW d \in finalizationVote'[w], SameId(c, d)
               PROVE  c = d
    BY DEF OneVote
  <2>1. c \in Block /\ d \in Block
    BY DEF TypeOK
  <2>2. CASE w # v
    BY <2>2 DEF RecordVote, OneVote, TypeOK
  <2>3. CASE w = v
    <3>1. finalizationVote'[v] = finalizationVote[v] \cup {b}
      BY DEF RecordVote, TypeOK
    <3>2. \A e \in finalizationVote[v] : SameId(b, e) => e.hash = b.hash
      BY DEF RecordVote, NoConflictingVote
    <3> QED
      BY <2>1, <2>3, <3>1, <3>2, BlockEquality DEF OneVote, SameId
  <2> QED
    BY <2>2, <2>3
<1>5. Signed'
  <2>1. \A w \in Honest : finalizationVote[w] \subseteq finalizationVote'[w]
    BY DEF RecordVote, TypeOK
  <2>2. \A w \in Honest, l \in Leader :
           votingStat'[w][l].index >= votingStat[w][l].index
    BY VotingStatType DEF RecordVote
  <2> QED
    BY <2>1, <2>2, SignedPersists DEF RecordVote
<1>6. Sealed'
  BY SealedPersists DEF RecordVote, TypeOK, Leader
<1> QED
  BY <1>2, <1>3, <1>4, <1>5, <1>6

\* Steps that end calls and change nothing else.
LEMMA EndCallsStep ==
    ASSUME IndInv, TypeOK', inflight' \subseteq inflight,
           UNCHANGED <<currentLeader, epochFinish, rotated, votingStat,
                       finalizationVote, fps, lfps>>
    PROVE  IndInv'
<1> USE DEF IndInv
<1>1. Mutex'
  BY DEF Mutex
<1>2. Calls'
  <2>1. ASSUME NEW r \in inflight' PROVE Calls!(r)'
    BY CallUndisturbed
  <2> QED
    BY <2>1 DEF Calls
<1>3. OneVote'
  BY DEF OneVote
<1>4. Signed'
  BY SignedPersists, VotingStatType
<1>5. Sealed'
  BY DEF Sealed
<1> QED
  BY <1>1, <1>2, <1>3, <1>4, <1>5

\* The steps that write the block and the AFP only move the call forward.
LEMMA StoreStep ==
    ASSUME IndInv, TypeOK', NEW r \in inflight, NEW p \in Phase,
           Advance(r, p), p # "statStored", r.phase # "statStored",
           PreviousAfpIsOk(r.block, r.afp),
           UNCHANGED <<currentLeader, epochFinish, rotated, votingStat,
                       finalizationVote, fps, lfps>>
    PROVE  IndInv'
<1> DEFINE q == AtPhase(r, p)
<1> USE DEF IndInv
<1>1. /\ inflight' = (inflight \ {r}) \cup {q}
      /\ q.voter = r.voter /\ q.block = r.block /\ q.afp = r.afp
      /\ q.phase = p
  BY DEF Advance, AtPhase
<1> HIDE DEF q
<1>2. Mutex'
  BY <1>1 DEF Mutex
<1>3. Calls'
  <2>1. PreviousAfpIsOk(r.block, r.afp)'
    BY PreviousAfpPersists
  <2>2. ItsSameChainSegment(r.voter, r.block)'
    BY DEF Calls, ItsSameChainSegment
  <2>3. ASSUME NEW t \in inflight' PROVE Calls!(t)'
    <3>1. CASE t = q
      BY <3>1, <1>1, <2>1, <2>2 DEF Calls
    <3>2. CASE t \in inflight
      BY <3>2, CallUndisturbed
    <3> QED
      BY <1>1, <3>1, <3>2
  <2> QED
    BY <2>3 DEF Calls
<1>4. OneVote'
  BY DEF OneVote
<1>5. Signed'
  BY SignedPersists, VotingStatType
<1>6. Sealed'
  BY DEF Sealed
<1> QED
  BY <1>2, <1>3, <1>4, <1>5, <1>6

\* StoreVotingStat: the record only moves forward, by the AFP the call has
\* verified, and only for a leader that is still open on this validator.
LEMMA StoreVotingStatStep ==
    ASSUME IndInv, TypeOK', NEW r \in inflight, StoreVotingStat(r)
    PROVE  IndInv'
<1> DEFINE q == AtPhase(r, "statStored")
           v == r.voter
           l == r.block.leader
           new == FutureVotingData(votingStat[v][l], r.block, r.afp)
<1> USE DEF IndInv
<1>1. /\ inflight' = (inflight \ {r}) \cup {q}
      /\ q.voter = r.voter /\ q.block = r.block /\ q.afp = r.afp
      /\ q.phase = "statStored"
  BY DEF StoreVotingStat, Advance, AtPhase
<1>2. /\ v \in Honest /\ l \in Leader
      /\ r.block \in Block /\ r.block.index \in Nat
  BY RequestType, BlockType DEF TypeOK
<1>3. /\ votingStat[v][l].index \in Int
      /\ votingStat[v][l].index <= r.block.index
  <2>1. votingStat[v][l].index \in Int
    BY <1>2, VotingStatType
  <2>2. ItsSameChainSegment(v, r.block)
    BY DEF StoreVotingStat, Calls
  <2> QED
    BY <2>1, <2>2, <1>2 DEF ItsSameChainSegment
<1>4. /\ new.index \in Int
      /\ new.index >= votingStat[v][l].index
      /\ new.index >= r.block.index - 1
  <2>1. /\ votingStat[v][l] \in VotingStat
        /\ votingStat[v][l].index >= -1
    BY <1>2, VotingStatType, BoundsAssumption DEF VotingStat, Index
  <2>2. CASE votingStat[v][l].index = r.block.index
    BY <2>2, <1>2, <1>3 DEF FutureVotingData
  <2>3. CASE votingStat[v][l].index # r.block.index /\ r.block.index = 0
    BY <2>1, <2>3, <1>3 DEF FutureVotingData, NewLeaderVotingStatTemplate
  <2>4. CASE votingStat[v][l].index # r.block.index /\ r.block.index # 0
    BY <2>4, <1>2, <1>3 DEF FutureVotingData
  <2> QED
    BY <2>2, <2>3, <2>4
<1>5. /\ votingStat'[v][l] = new
      /\ \A w \in Honest, k \in Leader :
            w # v \/ k # l => votingStat'[w][k] = votingStat[w][k]
  BY <1>2 DEF StoreVotingStat, TypeOK
<1>6. \A w \in Honest : w # v => votingStat'[w] = votingStat[w]
  BY <1>2 DEF StoreVotingStat, TypeOK
<1>7. UNCHANGED <<currentLeader, epochFinish, rotated, finalizationVote, fps,
                  lfps>>
  BY DEF StoreVotingStat
<1> HIDE DEF q, new
<1>8. Mutex'
  BY <1>1 DEF Mutex
<1>9. Calls'
  <2>1. PreviousAfpIsOk(r.block, r.afp)'
    BY <1>7, PreviousAfpPersists DEF StoreVotingStat, Calls
  <2>2. ASSUME NEW t \in inflight' PROVE Calls!(t)'
    <3>1. CASE t = q
      BY <3>1, <1>1, <1>4, <1>5, <1>7, <2>1 DEF Calls
    <3>2. CASE t \in inflight /\ t # r
      <4>1. t.voter \in Honest /\ t.voter # v
        BY <3>2 DEF Mutex, TypeOK, Request
      <4> QED
        BY <3>2, <4>1, <1>6, <1>7, CallUndisturbed
    <3> QED
      BY <1>1, <3>1, <3>2
  <2> QED
    BY <2>2 DEF Calls
<1>10. OneVote'
  BY <1>7 DEF OneVote
<1>11. Signed'
  <2>1. ASSUME NEW w \in Honest, NEW k \in Leader
        PROVE  votingStat'[w][k].index >= votingStat[w][k].index
    <3>1. CASE w = v /\ k = l
      BY <3>1, <1>4, <1>5
    <3>2. CASE w # v \/ k # l
      BY <3>2, <1>5, VotingStatType
    <3> QED
      BY <3>1, <3>2
  <2> QED
    BY <2>1, <1>7, SignedPersists
<1>12. Sealed'
  <2> SUFFICES ASSUME NEW s \in lfps, s.leader # LastLeader
               PROVE  votingStat'[s.voter][s.leader] =
                         votingStat[s.voter][s.leader]
    BY <1>7 DEF Sealed
  <2>1. s.voter \in Honest /\ s.leader \in Leader
    BY DEF TypeOK
  <2>2. ~rotated[v] /\ currentLeader[v] = l /\ l \in Int
    BY <1>2, BoundsAssumption DEF Calls, Leader
  <2>3. s.voter # v \/ s.leader # l
    BY <2>2 DEF Sealed
  <2> QED
    BY <2>1, <2>3, <1>5
<1> QED
  BY <1>8, <1>9, <1>10, <1>11, <1>12

\* SignFinalizationProof: what the call has checked and written is what the
\* signature promises.
LEMMA SignFinalizationProofStep ==
    ASSUME IndInv, TypeOK', NEW r \in inflight, SignFinalizationProof(r)
    PROVE  IndInv'
<1> DEFINE n == [voter |-> r.voter, vote |-> SignedVote(r.block, r.afp)]
<1> USE DEF IndInv
<1>1. /\ fps' = fps \cup {n} /\ fps \subseteq fps'
      /\ inflight' \subseteq inflight
      /\ UNCHANGED <<currentLeader, epochFinish, rotated, votingStat,
                     finalizationVote, blocks, storedAfps, lfps>>
  BY DEF SignFinalizationProof
<1>2. Mutex'
  BY <1>1 DEF Mutex
<1>3. Calls'
  <2>1. ASSUME NEW t \in inflight' PROVE Calls!(t)'
    BY <1>1, CallUndisturbed
  <2> QED
    BY <2>1 DEF Calls
<1>4. OneVote' /\ Sealed'
  BY <1>1 DEF OneVote, Sealed
<1>5. Signed'
  <2>1. ASSUME NEW s \in fps PROVE Signed!(s)'
    <3>1. PICK afp \in PrevAfp : /\ s.vote = SignedVote(s.vote.block, afp)
                                 /\ PreviousAfpIsOk(s.vote.block, afp)
      BY DEF Signed
    <3>2. PreviousAfpIsOk(s.vote.block, afp)'
      BY <1>1, <3>1, PreviousAfpPersists
    <3> QED
      BY <1>1, <3>1, <3>2 DEF Signed
  <2>2. Signed!(n)'
    <3>1. /\ r.afp \in PrevAfp /\ n.voter = r.voter
          /\ n.vote = SignedVote(r.block, r.afp) /\ n.vote.block = r.block
      BY RequestType DEF TypeOK, SignedVote
    <3>2. /\ r.block \in finalizationVote[r.voter]
          /\ votingStat[r.voter][r.block.leader].index >= r.block.index - 1
          /\ PreviousAfpIsOk(r.block, r.afp)
      BY DEF SignFinalizationProof, Calls
    <3>3. PreviousAfpIsOk(r.block, r.afp)'
      BY <1>1, <3>2, PreviousAfpPersists
    <3> HIDE DEF n
    <3> QED
      BY <1>1, <3>1, <3>2, <3>3
  <2> HIDE DEF n
  <2> QED
    BY <1>1, <2>1, <2>2 DEF Signed
<1> QED
  BY <1>2, <1>3, <1>4, <1>5

\* SignLeaderFinalizationProof: the leader is closed on this validator, at or
\* below the index it seals.
LEMMA SignLeaderFinalizationProofStep ==
    ASSUME IndInv, TypeOK', NEW v \in Honest, NEW l \in Leader,
           NEW i \in Index \cup {-1}, NEW h \in PrevHash,
           SignLeaderFinalizationProof(v, l, i, h)
    PROVE  IndInv'
<1> DEFINE n == [voter |-> v, leader |-> l, index |-> i, hash |-> h]
<1> USE DEF IndInv
<1>1. /\ lfps' = lfps \cup {n}
      /\ UNCHANGED <<currentLeader, epochFinish, rotated, votingStat,
                     finalizationVote, blocks, storedAfps, inflight, fps>>
  BY DEF SignLeaderFinalizationProof
<1>2. Mutex' /\ OneVote'
  BY <1>1 DEF Mutex, OneVote
<1>3. Calls'
  <2>1. ASSUME NEW t \in inflight' PROVE Calls!(t)'
    BY <1>1, CallUndisturbed
  <2> QED
    BY <2>1 DEF Calls
<1>4. Signed'
  BY <1>1, SignedPersists, VotingStatType
<1>5. Sealed'
  <2>1. l # LastLeader => rotated[v] \/ currentLeader[v] > l
    BY DEF SignLeaderFinalizationProof, LeaderFinalizationAllowed
  <2>2. votingStat[v][l].index <= i
    BY DEF SignLeaderFinalizationProof
  <2> QED
    BY <1>1, <2>1, <2>2 DEF Sealed
<1> QED
  BY <1>2, <1>3, <1>4, <1>5

\* The rotation threads move a validator forward while it runs no call, or do
\* not touch what a call depends on.
LEMMA RotationStep ==
    ASSUME IndInv, TypeOK', NEW v \in Honest,
           RotateLeader(v) \/ RaiseEpochFinish(v) \/ RotateEpoch(v)
    PROVE  IndInv'
<1> USE DEF IndInv
<1>1. UNCHANGED <<votingStat, finalizationVote, blocks, storedAfps, inflight,
                  fps, lfps>>
  BY DEF RotateLeader, RaiseEpochFinish, RotateEpoch
<1>2. Mutex' /\ OneVote'
  BY <1>1 DEF Mutex, OneVote
<1>3. Calls'
  <2>1. ASSUME NEW r \in inflight
        PROVE  /\ rotated'[r.voter] = rotated[r.voter]
               /\ currentLeader'[r.voter] = currentLeader[r.voter]
    <3>1. CASE r.voter = v
      <4>1. RaiseEpochFinish(v)
        BY <3>1 DEF RotateLeader, RotateEpoch, Handling
      <4> QED
        BY <4>1 DEF RaiseEpochFinish
    <3>2. CASE r.voter # v
      BY <3>2 DEF RotateLeader, RaiseEpochFinish, RotateEpoch, TypeOK, Request
    <3> QED
      BY <3>1, <3>2
  <2>2. ASSUME NEW r \in inflight' PROVE Calls!(r)'
    BY <1>1, <2>1, CallUndisturbed
  <2> QED
    BY <2>2 DEF Calls
<1>4. Signed'
  BY <1>1, SignedPersists, VotingStatType
<1>5. Sealed'
  <2>1. \A w \in Honest : currentLeader[w] \in Int
    BY BoundsAssumption DEF TypeOK, Leader
  <2>2. \A w \in Honest : /\ rotated[w] => rotated'[w]
                          /\ currentLeader'[w] >= currentLeader[w]
    BY <2>1 DEF RotateLeader, RaiseEpochFinish, RotateEpoch, TypeOK
  <2> QED
    BY <1>1, <2>2, SealedPersists
<1> QED
  BY <1>2, <1>3, <1>4, <1>5

\* The inductive invariant holds when the epoch starts.
LEMMA IndInvInit == Init => IndInv
<1> SUFFICES ASSUME Init PROVE IndInv
  OBVIOUS
<1>1. TypeOK
  BY BoundsAssumption DEF Init, TypeOK, Leader, VotingStat, PrevHash,
                          NewLeaderVotingStatTemplate
<1> QED
  BY <1>1 DEF Init, IndInv, Mutex, Calls, OneVote, Signed, Sealed

\* The inductive invariant is kept by every handler and thread.
LEMMA IndInvNext == IndInv /\ [Next]_vars => IndInv'
<1> SUFFICES ASSUME IndInv, [Next]_vars PROVE IndInv'
  OBVIOUS
<1>1. TypeOK'
  BY TypeOKInductive DEF IndInv
<1>2. ASSUME NEW v \in Honest, NEW b \in Block, NEW afp \in ProposedAfp(b),
             RecordVote(v, b, afp)
      PROVE  IndInv'
  BY <1>1, <1>2, RecordVoteStep
<1>3. ASSUME NEW r \in inflight, RejectPreviousAfp(r) PROVE IndInv'
  BY <1>1, <1>3, EndCallsStep DEF RejectPreviousAfp
<1>4. ASSUME NEW r \in inflight, StoreBlock(r) PROVE IndInv'
  BY <1>1, <1>4, StoreStep DEF StoreBlock, Phase
<1>5. ASSUME NEW r \in inflight, StorePreviousAfp(r) PROVE IndInv'
  <2>1. PreviousAfpIsOk(r.block, r.afp)
    BY <1>5 DEF StorePreviousAfp, IndInv, Calls
  <2> QED
    BY <1>1, <1>5, <2>1, StoreStep DEF StorePreviousAfp, Phase
<1>6. ASSUME NEW r \in inflight, StoreVotingStat(r) PROVE IndInv'
  BY <1>1, <1>6, StoreVotingStatStep
<1>7. ASSUME NEW r \in inflight, SignFinalizationProof(r) PROVE IndInv'
  BY <1>1, <1>7, SignFinalizationProofStep
<1>8. ASSUME NEW v \in Honest, NEW l \in Leader, NEW i \in Index \cup {-1},
             NEW h \in PrevHash, SignLeaderFinalizationProof(v, l, i, h)
      PROVE  IndInv'
  BY <1>1, <1>8, SignLeaderFinalizationProofStep
<1>9. ASSUME NEW v \in Honest, Crash(v) PROVE IndInv'
  BY <1>1, <1>9, EndCallsStep DEF Crash
<1>10. ASSUME NEW v \in Honest,
              RotateLeader(v) \/ RaiseEpochFinish(v) \/ RotateEpoch(v)
       PROVE  IndInv'
  BY <1>1, <1>10, RotationStep
<1>11. CASE UNCHANGED vars
  BY <1>1, <1>11, EndCallsStep DEF vars
<1> QED
  BY <1>2, <1>3, <1>4, <1>5, <1>6, <1>7, <1>8, <1>9, <1>10, <1>11
     DEF Next, FinalizationProofStep

\* The inductive invariant holds throughout the epoch.
LEMMA Invariance == Spec => []IndInv
  BY IndInvInit, IndInvNext, PTL DEF Spec
-----------------------------------------------------------------------------
(* The theorems *)

\* Every variable keeps its type, in every behaviour of the quorum.
THEOREM TypeCorrect == Spec => []TypeOK
<1>1. IndInv => TypeOK
  BY DEF IndInv
<1> QED
  BY <1>1, Invariance, PTL

\* Two finalized blocks with the same id have an honest signer in common, who
\* has only voted for one block with that id.
LEMMA SameIdSameHash ==
    ASSUME IndInv, NEW x \in Afps, NEW y \in Afps, SameId(x.block, y.block)
    PROVE  x.block = y.block
<1>1. PICK v \in Honest : v \in FpSigners(x) /\ v \in FpSigners(y)
  <2>1. FpSigners(x) \in SUBSET Honest /\ FpSigners(y) \in SUBSET Honest
    BY DEF FpSigners
  <2>2. IsMajority(FpSigners(x)) /\ IsMajority(FpSigners(y))
    BY DEF Afps, VerifyAggregatedFinalizationProof
  <2> QED
    BY <2>1, <2>2, MajoritiesIntersect
<1>2. x.block \in finalizationVote[v] /\ y.block \in finalizationVote[v]
  BY <1>1 DEF FpSigners, IndInv, Signed
<1> QED
  BY <1>2 DEF IndInv, OneVote

\* An honest signer of a finalized block has checked the AFP of the block
\* before it.
LEMMA PreviousIsFinal ==
    ASSUME IndInv, NEW x \in Afps
    PROVE  /\ x.block \in Block
           /\ x.block.index = 0 => x.prev = ZeroHash
           /\ x.block.index # 0 =>
                 \E y \in Afps : /\ y.block.leader = x.block.leader
                                /\ y.block.index = x.block.index - 1
                                /\ y.block.hash = x.prev
<1>1. PICK v \in Honest : v \in FpSigners(x)
  <2>1. FpSigners(x) \in SUBSET Honest /\ IsMajority(FpSigners(x))
    BY DEF FpSigners, Afps, VerifyAggregatedFinalizationProof
  <2> QED
    BY <2>1, MajorityHasHonest
<1>2. x.block \in Block
  BY DEF Afps, Vote
<1>3. PICK afp \in PrevAfp : /\ x = SignedVote(x.block, afp)
                             /\ PreviousAfpIsOk(x.block, afp)
  BY <1>1 DEF FpSigners, IndInv, Signed
<1>4. CASE x.block.index = 0
  BY <1>2, <1>3, <1>4 DEF SignedVote
<1>5. CASE x.block.index # 0
  <2> DEFINE y == PreviousVote(x.block, afp)
  <2>1. /\ afp.hash \in Hash /\ VerifyAggregatedFinalizationProof(y)
        /\ x.prev = afp.hash
    BY <1>3, <1>5 DEF SignedVote, PreviousAfpIsOk
  <2>2. afp.prev \in PrevHash
    BY DEF PrevAfp
  <2>3. y \in Vote
    BY <1>2, <1>5, <2>1, <2>2, BlockType DEF PreviousVote, Vote, Block
  <2>4. y \in Afps
    BY <2>1, <2>3 DEF Afps
  <2>5. /\ y.block.leader = x.block.leader
        /\ y.block.index = x.block.index - 1
        /\ y.block.hash = x.prev
    BY <2>1 DEF PreviousVote
  <2> QED
    BY <1>2, <1>5, <2>4, <2>5
<1> QED
  BY <1>4, <1>5

\* Blocks are unique per id, and so are their predecessors, which are final
\* blocks with the same id.
LEMMA UniqueAfp == IndInv => AfpIsUnique
<1> SUFFICES ASSUME IndInv, NEW x \in Afps, NEW y \in Afps,
                    SameId(x.block, y.block)
             PROVE  x = y
  BY DEF AfpIsUnique
<1>1. x.block = y.block
  BY SameIdSameHash
<1>2. x.prev = y.prev
  <2>1. CASE x.block.index = 0
    BY <1>1, <2>1, PreviousIsFinal
  <2>2. CASE x.block.index # 0
    <3>1. PICK p \in Afps : /\ p.block.leader = x.block.leader
                            /\ p.block.index = x.block.index - 1
                            /\ p.block.hash = x.prev
      BY <2>2, PreviousIsFinal
    <3>2. PICK q \in Afps : /\ q.block.leader = y.block.leader
                            /\ q.block.index = y.block.index - 1
                            /\ q.block.hash = y.prev
      BY <1>1, <2>2, PreviousIsFinal
    <3>3. p.block = q.block
      BY <1>1, <3>1, <3>2, SameIdSameHash DEF SameId
    <3> QED
      BY <3>1, <3>2, <3>3
  <2> QED
    BY <2>1, <2>2
<1> QED
  BY <1>1, <1>2 DEF Afps, Vote

\* At most one block per leader and index is finalized, with one predecessor,
\* whatever is proposed and wherever the validators crash.
THEOREM AfpUniqueness == Spec => []AfpIsUnique
  BY UniqueAfp, Invariance, PTL

\* An honest signer has verified the AFP of the block before.
LEMMA ChainedAfp == IndInv => AfpExtendsAfp
  BY PreviousIsFinal DEF AfpExtendsAfp

\* The finalized blocks of a leader are a chain without gaps.
THEOREM AfpChain == Spec => []AfpExtendsAfp
  BY ChainedAfp, Invariance, PTL

\* A validator that seals a superseded leader has stopped voting for it.
THEOREM LfpFreeze == Spec => []LfpFreezesVotingStat
<1>1. IndInv => LfpFreezesVotingStat
  BY DEF IndInv, Sealed, LfpFreezesVotingStat
<1> QED
  BY <1>1, Invariance, PTL

\* The two majorities share an honest validator, whose VotingStat is at least
\* the confirmed block and at most the sealed one.
LEMMA KeepsConfirmed == IndInv => AlfpKeepsConfirmedBlocks
<1>1. ASSUME IndInv, NEW x \in Afps, x.block.leader # LastLeader,
             NEW i \in Index \cup {-1}, NEW h \in PrevHash,
             VerifyAggregatedLeaderFinalizationProof(x.block.leader, i, h)
      PROVE  x.block.index - 1 <= i
  <2> DEFINE l == x.block.leader
  <2>1. x.block \in Block /\ l \in Leader /\ x.block.index \in Nat /\ i \in Int
    BY BlockType DEF Afps, Vote, Index
  <2>2. PICK v \in Honest : v \in FpSigners(x) /\ v \in LfpSigners(l, i, h)
    <3>1. FpSigners(x) \in SUBSET Honest /\ LfpSigners(l, i, h) \in SUBSET Honest
      BY DEF FpSigners, LfpSigners
    <3>2. IsMajority(FpSigners(x)) /\ IsMajority(LfpSigners(l, i, h))
      BY <1>1 DEF Afps, VerifyAggregatedFinalizationProof,
                  VerifyAggregatedLeaderFinalizationProof
    <3> QED
      BY <3>1, <3>2, MajoritiesIntersect
  <2>3. votingStat[v][l].index >= x.block.index - 1
    BY <1>1, <2>2 DEF FpSigners, IndInv, Signed
  <2>4. votingStat[v][l].index <= i
    BY <1>1, <2>2 DEF LfpSigners, IndInv, Sealed
  <2>5. votingStat[v][l].index \in Int
    BY <1>1, <2>1, VotingStatType DEF IndInv
  <2> QED
    BY <2>1, <2>3, <2>4, <2>5
<1> QED
  BY <1>1 DEF AlfpKeepsConfirmedBlocks

\* No ALFP of a superseded leader cuts off a block whose successor has an AFP,
\* whichever validators signed the one and the other, and in which order.
THEOREM AlfpKeepsConfirmed == Spec => []AlfpKeepsConfirmedBlocks
  BY KeepsConfirmed, Invariance, PTL
-----------------------------------------------------------------------------
(* What a signature promises is in the databases of the signer *)

\* Where the stores of a validator stand with respect to its running call, its
\* votes and the AFPs that exist.
Stores ==
    /\ \A r \in inflight :
          /\ r.phase # "voted" => r.block \in blocks[r.voter]
          /\ r.phase \in {"afpStored", "statStored"} /\ r.block.index # 0 =>
                PreviousVote(r.block, r.afp) \in storedAfps[r.voter]
    /\ \A v \in Honest : /\ blocks[v] \subseteq finalizationVote[v]
                         /\ storedAfps[v] \subseteq Afps

StoredInv == Stores /\ SignedBlocksAreStored

\* Neither store loses a record: a write under an existing key has the value
\* that is there already.
LEMMA StoresGrow ==
    ASSUME IndInv, Stores, [Next]_vars
    PROVE  /\ \A v \in Honest : /\ blocks[v] \subseteq blocks'[v]
                                /\ storedAfps[v] \subseteq storedAfps'[v]
                                /\ finalizationVote[v] \subseteq
                                      finalizationVote'[v]
           /\ fps \subseteq fps'
<1> USE DEF IndInv
<1>0. \A r \in inflight : r \in Request
  BY DEF TypeOK
<1>1. ASSUME NEW r \in inflight, StoreBlock(r)
      PROVE  \A v \in Honest : blocks[v] \subseteq blocks'[v]
  <2>1. r.voter \in Honest /\ r.block \in finalizationVote[r.voter]
    BY <1>0, RequestType DEF Calls
  <2>2. \A b \in blocks[r.voter] : SameId(b, r.block) => b = r.block
    BY <2>1 DEF Stores, OneVote
  <2>3. blocks'[r.voter] = {b \in blocks[r.voter] : ~SameId(b, r.block)}
                              \cup {r.block}
    BY <1>1, <2>1 DEF StoreBlock, TypeOK
  <2>4. \A v \in Honest : v # r.voter => blocks'[v] = blocks[v]
    BY <1>1, <2>1 DEF StoreBlock, TypeOK
  <2> QED
    BY <2>2, <2>3, <2>4
<1>2. ASSUME NEW r \in inflight, StorePreviousAfp(r)
      PROVE  \A v \in Honest : storedAfps[v] \subseteq storedAfps'[v]
  <2>1. CASE r.block.index = 0
    BY <1>2, <2>1 DEF StorePreviousAfp
  <2>2. CASE r.block.index # 0
    <3> DEFINE x == PreviousVote(r.block, r.afp)
    <3>1. r.voter \in Honest /\ r.block \in Block /\ r.afp.prev \in PrevHash
      BY <1>0, RequestType
    <3>2. r.afp.hash \in Hash /\ VerifyAggregatedFinalizationProof(x)
      BY <1>2, <2>2 DEF StorePreviousAfp, Calls, PreviousAfpIsOk
    <3>3. x \in Afps
      BY <2>2, <3>1, <3>2, BlockType DEF PreviousVote, Vote, Block, Afps
    <3>4. storedAfps'[r.voter] =
             {y \in storedAfps[r.voter] : ~SameId(y.block, x.block)} \cup {x}
      BY <1>2, <2>2, <3>1 DEF StorePreviousAfp, TypeOK
    <3>5. \A v \in Honest : v # r.voter => storedAfps'[v] = storedAfps[v]
      BY <1>2, <2>2, <3>1 DEF StorePreviousAfp, TypeOK
    <3>6. \A y \in storedAfps[r.voter] : SameId(y.block, x.block) => y = x
      BY <3>1, <3>3, UniqueAfp DEF Stores, AfpIsUnique
    <3> HIDE DEF x
    <3> QED
      BY <3>4, <3>5, <3>6
  <2> QED
    BY <2>1, <2>2
<1>3. ASSUME NEW v \in Honest, NEW b \in Block, NEW afp \in ProposedAfp(b),
             RecordVote(v, b, afp)
      PROVE  \A w \in Honest : finalizationVote[w] \subseteq finalizationVote'[w]
  BY <1>3 DEF RecordVote, TypeOK
<1> QED
  BY <1>1, <1>2, <1>3
     DEF Next, FinalizationProofStep, vars, RecordVote, RejectPreviousAfp,
         StoreBlock, StorePreviousAfp, StoreVotingStat, SignFinalizationProof,
         SignLeaderFinalizationProof, Crash, RotateLeader, RaiseEpochFinish,
         RotateEpoch

\* How the running calls, the stores and the signatures change together.
LEMMA StoreSteps ==
    ASSUME [Next]_vars
    PROVE  /\ \A r \in inflight' :
                 \/ r \in inflight
                 \/ r.phase = "voted"
                 \/ \E q \in inflight :
                       /\ r.voter = q.voter /\ r.block = q.block /\ r.afp = q.afp
                       /\ \/ StoreBlock(q) /\ r.phase = "blockStored"
                          \/ StorePreviousAfp(q)
                          \/ q.phase = "afpStored"
           /\ \A s \in fps' :
                 \/ s \in fps
                 \/ \E q \in inflight :
                       /\ q.phase = "statStored"
                       /\ s = [voter |-> q.voter,
                               vote |-> SignedVote(q.block, q.afp)]
           /\ blocks' = blocks \/ \E q \in inflight : StoreBlock(q)
           /\ storedAfps' = storedAfps \/ \E q \in inflight : StorePreviousAfp(q)
<1>1. CASE \E v \in Honest, b \in Block : \E afp \in ProposedAfp(b) :
              RecordVote(v, b, afp)
  BY <1>1 DEF RecordVote
<1>2. CASE \E q \in inflight : RejectPreviousAfp(q) \/ StoreBlock(q)
  BY <1>2 DEF RejectPreviousAfp, StoreBlock, Advance, AtPhase
<1>3. CASE \E q \in inflight : StorePreviousAfp(q) \/ StoreVotingStat(q)
  BY <1>3 DEF StorePreviousAfp, StoreVotingStat, Advance, AtPhase
<1>4. CASE \E q \in inflight : SignFinalizationProof(q)
  BY <1>4 DEF SignFinalizationProof
<1>5. CASE \/ \E v \in Honest, l \in Leader, i \in Index \cup {-1},
                h \in PrevHash : SignLeaderFinalizationProof(v, l, i, h)
           \/ UNCHANGED vars
  BY <1>5 DEF SignLeaderFinalizationProof, vars
<1>6. CASE \E v \in Honest : \/ Crash(v) \/ RotateLeader(v)
                             \/ RaiseEpochFinish(v) \/ RotateEpoch(v)
  BY <1>6 DEF Crash, RotateLeader, RaiseEpochFinish, RotateEpoch
<1> QED
  BY <1>1, <1>2, <1>3, <1>4, <1>5, <1>6 DEF Next, FinalizationProofStep

\* What a signature promises to be stored is stored before it is given, and
\* not overwritten by another block with the same id.
LEMMA StoredInvNext == IndInv /\ IndInv' /\ StoredInv /\ [Next]_vars => StoredInv'
<1> SUFFICES ASSUME IndInv, IndInv', Stores, SignedBlocksAreStored, [Next]_vars
             PROVE  StoredInv'
  BY DEF StoredInv
<1> USE DEF IndInv
<1>0. /\ \A r \in inflight : r.voter \in Honest /\ r.block \in Block
                             /\ r.afp \in PrevAfp /\ r.afp.prev \in PrevHash
      /\ \A s \in fps : s.voter \in Honest
  BY RequestType DEF TypeOK
<1>1. \A x \in Afps : x \in Afps'
  BY StoresGrow, AfpPersists DEF Afps
<1>2. ASSUME NEW r \in inflight'
      PROVE  /\ r.phase # "voted" => r.block \in blocks'[r.voter]
             /\ r.phase \in {"afpStored", "statStored"} /\ r.block.index # 0 =>
                   PreviousVote(r.block, r.afp) \in storedAfps'[r.voter]
  <2>1. CASE r \in inflight
    BY <1>0, <2>1, StoresGrow DEF Stores
  <2>2. CASE r.phase = "voted"
    BY <2>2
  <2>3. ASSUME NEW q \in inflight,
               r.voter = q.voter /\ r.block = q.block /\ r.afp = q.afp,
               StoreBlock(q), r.phase = "blockStored"
        PROVE  r.block \in blocks'[r.voter]
    BY <1>0, <2>3 DEF StoreBlock, TypeOK
  <2>4. ASSUME NEW q \in inflight,
               r.voter = q.voter /\ r.block = q.block /\ r.afp = q.afp,
               StorePreviousAfp(q)
        PROVE  /\ r.block \in blocks'[r.voter]
               /\ r.block.index # 0 =>
                     PreviousVote(r.block, r.afp) \in storedAfps'[r.voter]
    <3>1. r.block \in blocks'[r.voter]
      BY <1>0, <2>4, StoresGrow DEF Stores, StorePreviousAfp
    <3>2. r.block.index # 0 =>
             PreviousVote(r.block, r.afp) \in storedAfps'[r.voter]
      BY <1>0, <2>4 DEF StorePreviousAfp, TypeOK
    <3> QED
      BY <3>1, <3>2
  <2>5. ASSUME NEW q \in inflight,
               r.voter = q.voter /\ r.block = q.block /\ r.afp = q.afp,
               q.phase = "afpStored"
        PROVE  /\ r.block \in blocks'[r.voter]
               /\ r.block.index # 0 =>
                     PreviousVote(r.block, r.afp) \in storedAfps'[r.voter]
    BY <1>0, <2>5, StoresGrow DEF Stores
  <2> QED
    BY <2>1, <2>2, <2>3, <2>4, <2>5, StoreSteps
<1>3. ASSUME NEW v \in Honest PROVE blocks'[v] \subseteq finalizationVote'[v]
  <2>1. CASE blocks' = blocks
    BY <2>1, StoresGrow DEF Stores
  <2>2. ASSUME NEW q \in inflight, StoreBlock(q)
        PROVE  blocks'[v] \subseteq finalizationVote'[v]
    <3>1. blocks'[v] \subseteq blocks[v] \cup {b \in {q.block} : v = q.voter}
      BY <1>0, <2>2 DEF StoreBlock, TypeOK
    <3> QED
      BY <2>2, <3>1, StoresGrow DEF Stores, Calls
  <2> QED
    BY <2>1, <2>2, StoreSteps
<1>4. ASSUME NEW v \in Honest PROVE storedAfps'[v] \subseteq Afps'
  <2>1. CASE storedAfps' = storedAfps
    BY <1>1, <2>1 DEF Stores
  <2>2. ASSUME NEW q \in inflight, StorePreviousAfp(q), q.block.index # 0
        PROVE  storedAfps'[v] \subseteq Afps'
    <3> DEFINE x == PreviousVote(q.block, q.afp)
    <3>1. q.afp.hash \in Hash /\ VerifyAggregatedFinalizationProof(x)
      BY <2>2 DEF StorePreviousAfp, Calls, PreviousAfpIsOk
    <3>2. x \in Afps
      BY <1>0, <2>2, <3>1, BlockType DEF PreviousVote, Vote, Block, Afps
    <3>3. storedAfps'[v] \subseteq storedAfps[v] \cup {x}
      BY <1>0, <2>2 DEF StorePreviousAfp, TypeOK
    <3> HIDE DEF x
    <3> QED
      BY <1>1, <3>2, <3>3 DEF Stores
  <2> QED
    BY <2>1, <2>2, StoreSteps DEF StorePreviousAfp
<1>5. SignedBlocksAreStored'
  <2>1. ASSUME NEW s \in fps PROVE SignedBlocksAreStored!(s)'
    BY <1>0, StoresGrow DEF SignedBlocksAreStored
  <2>2. ASSUME NEW q \in inflight, q.phase = "statStored", NEW s,
               s = [voter |-> q.voter, vote |-> SignedVote(q.block, q.afp)]
        PROVE  SignedBlocksAreStored!(s)'
    <3>1. /\ s.voter = q.voter /\ s.vote.block = q.block
          /\ q.block.index # 0 => s.vote.prev = q.afp.hash
      BY <2>2 DEF SignedVote
    <3>2. q.block \in blocks'[q.voter]
      BY <1>0, <2>2, StoresGrow DEF Stores
    <3>3. q.block.index # 0 =>
             PreviousVote(q.block, q.afp) \in storedAfps'[q.voter]
      BY <1>0, <2>2, StoresGrow DEF Stores
    <3>4. q.block.index \in Nat
      BY <1>0, BlockType
    <3> QED
      BY <3>1, <3>2, <3>3, <3>4 DEF PreviousVote
  <2> QED
    BY <2>1, <2>2, StoreSteps DEF SignedBlocksAreStored
<1> QED
  BY <1>2, <1>3, <1>4, <1>5 DEF StoredInv, Stores

\* Whoever signs a block holds it, and the AFP of its predecessor, for good: an
\* aggregated proof is never ahead of what its signers can serve.
THEOREM SignedIsStored == Spec => []SignedBlocksAreStored
<1>1. Init => StoredInv
  BY DEF Init, StoredInv, Stores, SignedBlocksAreStored
<1>2. StoredInv => SignedBlocksAreStored
  BY DEF StoredInv
<1> QED
  BY <1>1, <1>2, StoredInvNext, Invariance, PTL DEF Spec
-----------------------------------------------------------------------------
(* The quorum implements the chain of finalized blocks *)

\* No proof exists before the first signature.
LEMMA NoSignaturesNoProofs ==
    /\ fps = {} => Afps = {}
    /\ lfps = {} => Alfps = {}
<1>1. ASSUME fps = {}, NEW x \in Afps PROVE FALSE
  <2>1. FpSigners(x) = {}
    BY <1>1 DEF FpSigners
  <2> QED
    BY <1>1, <2>1, MajorityHasHonest DEF Afps, VerifyAggregatedFinalizationProof
<1>2. ASSUME lfps = {}, NEW s \in Alfps PROVE FALSE
  <2>1. LfpSigners(s.leader, s.index, s.hash) = {}
    BY <1>2 DEF LfpSigners
  <2> QED
    BY <1>2, <2>1, MajorityHasHonest
       DEF Alfps, VerifyAggregatedLeaderFinalizationProof
<1> QED
  BY <1>1, <1>2

\* One signature completes at most one AFP.
LEMMA OneMoreAfp ==
    ASSUME NEW n, NEW v, fps' = fps \cup {[voter |-> v, vote |-> n]}
    PROVE  Afps' = Afps \/ (n \in Vote /\ Afps' = Afps \cup {n})
<1>1. ASSUME NEW x \in Vote, x # n
      PROVE  x \in Afps <=> x \in Afps'
  <2>1. FpSigners(x)' = FpSigners(x)
    BY <1>1 DEF FpSigners
  <2> QED
    BY <2>1 DEF Afps, VerifyAggregatedFinalizationProof, IsMajority,
                GetQuorumMajority, Quorum
<1>2. n \in Afps => n \in Afps'
  BY AfpPersists DEF Afps
<1> QED
  BY <1>1, <1>2 DEF Afps

\* One signature completes at most one ALFP.
LEMMA OneMoreAlfp ==
    ASSUME NEW v, NEW l \in Leader, NEW i \in Index \cup {-1}, NEW h \in PrevHash,
           lfps' = lfps \cup {[voter |-> v, leader |-> l, index |-> i, hash |-> h]}
    PROVE  LET s == [leader |-> l, index |-> i, hash |-> h]
           IN  Alfps' \subseteq Alfps \cup {s} /\ Alfps \subseteq Alfps' \cup {s}
<1> DEFINE S == [leader : Leader, index : Index \cup {-1}, hash : PrevHash]
<1>1. ASSUME NEW t \in S, t # [leader |-> l, index |-> i, hash |-> h]
      PROVE  t \in Alfps <=> t \in Alfps'
  <2>1. t.leader # l \/ t.index # i \/ t.hash # h
    BY <1>1
  <2>2. LfpSigners(t.leader, t.index, t.hash)' =
           LfpSigners(t.leader, t.index, t.hash)
    BY <2>1 DEF LfpSigners
  <2> QED
    BY <2>2 DEF Alfps, VerifyAggregatedLeaderFinalizationProof, IsMajority,
                GetQuorumMajority, Quorum
<1> QED
  BY <1>1 DEF Alfps

\* A seal that can be collected can be collected ever after.
LEMMA AlfpPersists ==
    ASSUME lfps \subseteq lfps', NEW s \in Alfps
    PROVE  s \in Alfps'
<1> DEFINE S == LfpSigners(s.leader, s.index, s.hash)
<1>1. S \subseteq S' /\ S' \subseteq Honest
  BY DEF LfpSigners
<1>2. IsMajority(S')
  BY <1>1, MajorityGrows DEF Alfps, VerifyAggregatedLeaderFinalizationProof
<1> QED
  BY <1>2 DEF Alfps, VerifyAggregatedLeaderFinalizationProof, IsMajority,
              GetQuorumMajority, Quorum

\* What a step does to the signatures.
LEMMA SignatureSteps ==
    ASSUME [Next]_vars
    PROVE  \/ UNCHANGED <<fps, lfps>>
           \/ /\ UNCHANGED lfps
              /\ \E v, n : fps' = fps \cup {[voter |-> v, vote |-> n]}
           \/ /\ UNCHANGED fps
              /\ \E v \in Honest, l \in Leader, i \in Index \cup {-1},
                    h \in PrevHash :
                    lfps' = lfps \cup {[voter |-> v, leader |-> l,
                                       index |-> i, hash |-> h]}
<1>1. CASE \E v \in Honest, b \in Block : \E afp \in ProposedAfp(b) :
              RecordVote(v, b, afp)
  BY <1>1 DEF RecordVote
<1>2. CASE \E q \in inflight : \/ RejectPreviousAfp(q) \/ StoreBlock(q)
                               \/ StorePreviousAfp(q) \/ StoreVotingStat(q)
  BY <1>2 DEF RejectPreviousAfp, StoreBlock, StorePreviousAfp, StoreVotingStat
<1>3. CASE \E q \in inflight : SignFinalizationProof(q)
  BY <1>3 DEF SignFinalizationProof
<1>4. CASE \E v \in Honest, l \in Leader, i \in Index \cup {-1},
                h \in PrevHash : SignLeaderFinalizationProof(v, l, i, h)
  BY <1>4 DEF SignLeaderFinalizationProof
<1>5. CASE \/ UNCHANGED vars
           \/ \E v \in Honest : \/ Crash(v) \/ RotateLeader(v)
                                \/ RaiseEpochFinish(v) \/ RotateEpoch(v)
  BY <1>5 DEF Crash, RotateLeader, RaiseEpochFinish, RotateEpoch, vars
<1> QED
  BY <1>1, <1>2, <1>3, <1>4, <1>5 DEF Next, FinalizationProofStep

\* The chain of finalized blocks, for every quorum: what readers of the proofs
\* see is a chain per leader that grows at its end and that no binding seal
\* cuts below a confirmed block.
THEOREM Implementation == Spec => ImplementsFinalizedChain
<1>1. Init => Chain!Init
  BY NoSignaturesNoProofs DEF Init, Chain!Init
<1>2. ASSUME IndInv, IndInv', [Next]_vars
      PROVE  [Chain!Next]_<<Afps, Alfps>>
  <2>1. /\ UNCHANGED lfps => UNCHANGED Alfps
        /\ UNCHANGED fps => UNCHANGED Afps
    BY DEF Afps, Alfps, VerifyAggregatedFinalizationProof, IsMajority,
           FpSigners, GetQuorumMajority, Quorum, LfpSigners,
           VerifyAggregatedLeaderFinalizationProof
  <2>2. \A x \in Afps', s \in Alfps' : Chain!Keeps(s, x)
    <3>1. AlfpKeepsConfirmedBlocks'
      <4>1. IndInv' => AlfpKeepsConfirmedBlocks'
        BY KeepsConfirmed, PTL
      <4> QED
        BY <1>2, <4>1
    <3> QED
      BY <3>1 DEF AlfpKeepsConfirmedBlocks, Alfps, Chain!Keeps
  <2>3. ASSUME UNCHANGED lfps, NEW v, NEW n,
               fps' = fps \cup {[voter |-> v, vote |-> n]}, Afps' # Afps
        PROVE  Chain!Next
    <3>1. UNCHANGED Alfps
      BY <2>1, <2>3
    <3>2. n \in Vote /\ Afps' = Afps \cup {n} /\ n \notin Afps
      BY <2>3, OneMoreAfp
    <3>3. AfpIsUnique' /\ AfpExtendsAfp'
      <4>1. IndInv' => AfpIsUnique' /\ AfpExtendsAfp'
        BY UniqueAfp, ChainedAfp, PTL
      <4> QED
        BY <1>2, <4>1
    <3>4. \A y \in Afps : y.block.leader = n.block.leader
                             => y.block.index # n.block.index
      BY <3>2, <3>3 DEF AfpIsUnique, SameId
    <3>5. Chain!ExtendsChain(n)
      <4>1. CASE n.block.index = 0
        BY <3>2, <3>3, <4>1 DEF AfpExtendsAfp, Chain!ExtendsChain
      <4>2. CASE n.block.index # 0
        <5>1. PICK y \in Afps' : /\ y.block.leader = n.block.leader
                                 /\ y.block.index = n.block.index - 1
                                 /\ y.block.hash = n.prev
          BY <3>2, <3>3, <4>2 DEF AfpExtendsAfp
        <5>2. n.block.index \in Nat
          BY <3>2, BlockType DEF Vote
        <5>3. y # n
          BY <5>1, <5>2
        <5> QED
          BY <3>2, <4>2, <5>1, <5>3 DEF Chain!ExtendsChain
      <4> QED
        BY <4>1, <4>2
    <3>6. \A s \in Alfps : Chain!Keeps(s, n)
      BY <2>2, <3>1, <3>2
    <3>7. n \in Chain!Vote
      BY <3>2 DEF Vote, Block, PrevHash, Chain!Vote, Chain!Block
    <3>8. Chain!Finalize(n)
      BY <3>1, <3>2, <3>4, <3>5, <3>6 DEF Chain!Finalize
    <3> QED
      BY <3>2, <3>7, <3>8 DEF Chain!Next
  <2>4. ASSUME UNCHANGED fps, NEW v \in Honest, NEW l \in Leader,
               NEW i \in Index \cup {-1}, NEW h \in PrevHash,
               lfps' = lfps \cup {[voter |-> v, leader |-> l, index |-> i,
                                  hash |-> h]},
               Alfps' # Alfps
        PROVE  Chain!Next
    <3> DEFINE s == [leader |-> l, index |-> i, hash |-> h]
    <3>1. UNCHANGED Afps
      BY <2>1, <2>4
    <3>2. Alfps' = Alfps \cup {s}
      BY <2>4, OneMoreAlfp, AlfpPersists
    <3>3. \A x \in Afps : Chain!Keeps(s, x)
      BY <2>2, <3>1, <3>2
    <3>4. s \in Chain!Seal
      BY DEF Chain!Seal, PrevHash
    <3>5. s \in Alfps' \ Alfps
      BY <2>4, <3>2
    <3> HIDE DEF s
    <3>6. Chain!SealLeader(s)
      BY <3>1, <3>2, <3>3 DEF Chain!SealLeader
    <3> QED
      BY <3>4, <3>5, <3>6 DEF Chain!Next
  <2> QED
    BY <1>2, <2>1, <2>3, <2>4, SignatureSteps
<1> QED
  BY <1>1, <1>2, Invariance, PTL DEF Spec, Chain!Spec, ImplementsFinalizedChain
-----------------------------------------------------------------------------
(* The quorum implements the votes of a leader *)

\* What LeaderVotes sees of a leader.
StatOf(l)    == [v \in Honest |-> votingStat[v][l].index]
VotedOf(l)   == [v \in Honest |-> {i \in Index :
                    \E s \in fps : /\ s.voter = v
                                   /\ s.vote.block.leader = l
                                   /\ s.vote.block.index = i}]
SealingOf(l) == [v \in Honest |-> rotated[v] \/ currentLeader[v] > l]
LfpsOf(l)    == {[voter |-> s.voter, index |-> s.index] :
                    s \in {t \in lfps : t.leader = l}}

\* Between VotingStat and the signature nothing moves VotingStat.
Standing ==
    \A r \in inflight : r.phase = "statStored" =>
        votingStat[r.voter][r.block.leader].index <= r.block.index

\* Every step keeps that.
LEMMA StandingNext ==
    ASSUME IndInv, IndInv', Standing, [Next]_vars
    PROVE  Standing'
<1> SUFFICES ASSUME NEW r \in inflight', r.phase = "statStored"
             PROVE  votingStat'[r.voter][r.block.leader].index <= r.block.index
  BY DEF Standing
<1>1. CASE UNCHANGED <<inflight, votingStat>>
  BY <1>1 DEF Standing
<1>2. CASE inflight' \subseteq inflight /\ UNCHANGED votingStat
  BY <1>2 DEF Standing
<1>3. ASSUME NEW q \in inflight, NEW p \in Phase \ {"statStored"},
             Advance(q, p), UNCHANGED votingStat
      PROVE  votingStat'[r.voter][r.block.leader].index <= r.block.index
  <2>1. AtPhase(q, p).phase = p
    BY DEF AtPhase
  <2>2. r \in inflight
    BY <1>3, <2>1 DEF Advance
  <2> QED
    BY <1>3, <2>2 DEF Standing
<1>4. ASSUME NEW v, NEW b, NEW afp, RecordVote(v, b, afp)
      PROVE  votingStat'[r.voter][r.block.leader].index <= r.block.index
  <2>1. r \in inflight
    BY <1>4 DEF RecordVote
  <2> QED
    BY <1>4, <2>1 DEF Standing, RecordVote
<1>5. ASSUME NEW q \in inflight, StoreVotingStat(q)
      PROVE  votingStat'[r.voter][r.block.leader].index <= r.block.index
  <2> DEFINE l == q.block.leader
             stat == votingStat[q.voter][l]
             new == FutureVotingData(stat, q.block, q.afp)
  <2>1. q.voter \in Honest /\ q.block \in Block /\ q.afp \in PrevAfp
    BY RequestType DEF IndInv, TypeOK
  <2>2. l \in Leader /\ q.block.index \in Index
    BY <2>1, BlockType
  <2>3. /\ votingStat \in [Honest -> [Leader -> VotingStat]]
        /\ votingStat' = [votingStat EXCEPT ![q.voter][l] = new]
    BY <1>5 DEF IndInv, TypeOK, StoreVotingStat
  <2>4. new.index <= q.block.index
    <3>1. q.block.index \in Nat
      BY <2>2, BoundsAssumption DEF Index
    <3> QED
      BY <3>1 DEF FutureVotingData, NewLeaderVotingStatTemplate
  <2> HIDE DEF new, stat, l
  <2>5. r = AtPhase(q, "statStored") \/ (r \in inflight /\ r # q)
    BY <1>5 DEF StoreVotingStat, Advance
  <2>6. CASE r = AtPhase(q, "statStored")
    <3>1. r.voter = q.voter /\ r.block = q.block
      BY <2>6 DEF AtPhase
    <3>2. votingStat'[q.voter][l] = new
      BY <2>1, <2>2, <2>3
    <3> QED
      BY <2>4, <3>1, <3>2 DEF l
  <2>7. CASE r \in inflight /\ r # q
    <3>1. r.voter # q.voter
      BY <1>5, <2>7 DEF IndInv, Mutex
    <3>2. r.voter \in Honest /\ r.block.leader \in Leader
      BY <2>7, RequestType, BlockType DEF IndInv, TypeOK
    <3>3. votingStat'[r.voter] = votingStat[r.voter]
      BY <2>3, <3>1, <3>2
    <3> QED
      BY <2>7, <3>3 DEF Standing
  <2> QED
    BY <2>5, <2>6, <2>7
<1> QED
  <2>1. CASE \E v \in Honest, b \in Block : \E afp \in ProposedAfp(b) :
                RecordVote(v, b, afp)
    BY <1>4, <2>1
  <2>2. CASE \E q \in inflight : FinalizationProofStep(q)
    <3>1. PICK q \in inflight : FinalizationProofStep(q)
      BY <2>2
    <3>2. CASE RejectPreviousAfp(q)
      BY <1>2, <3>2 DEF RejectPreviousAfp
    <3>3. CASE StoreBlock(q)
      BY <1>3, <3>3 DEF StoreBlock, Phase
    <3>4. CASE StorePreviousAfp(q)
      BY <1>3, <3>4 DEF StorePreviousAfp, Phase
    <3>5. CASE StoreVotingStat(q)
      BY <1>5, <3>5
    <3>6. CASE SignFinalizationProof(q)
      BY <1>2, <3>6 DEF SignFinalizationProof
    <3> QED
      BY <3>1, <3>2, <3>3, <3>4, <3>5, <3>6 DEF FinalizationProofStep
  <2>3. CASE \E v \in Honest, l \in Leader, i \in Index \cup {-1},
                h \in PrevHash : SignLeaderFinalizationProof(v, l, i, h)
    BY <1>1, <2>3 DEF SignLeaderFinalizationProof
  <2>4. CASE \E v \in Honest : \/ Crash(v) \/ RotateLeader(v)
                               \/ RaiseEpochFinish(v) \/ RotateEpoch(v)
    BY <1>1, <1>2, <2>4 DEF Crash, RotateLeader, RaiseEpochFinish, RotateEpoch
  <2>5. CASE UNCHANGED vars
    BY <1>1, <2>5 DEF vars
  <2> QED
    BY <2>1, <2>2, <2>3, <2>4, <2>5 DEF Next

\* The AFP that a call has accepted is one of the leader's.
LEMMA PreviousIsVoted ==
    ASSUME NEW l \in Leader, NEW b \in Block, b.leader = l, NEW afp \in PrevAfp,
           PreviousAfpIsOk(b, afp)
    PROVE  Votes(l)!PreviousIsFinal(b.index)
<1>1. CASE b.index = 0
  BY <1>1 DEF Votes!PreviousIsFinal
<1>2. CASE b.index # 0
  <2> DEFINE i == b.index - 1
             x == PreviousVote(b, afp)
             S == FpSigners(x)
             T == {v \in Honest : i \in VotedOf(l)[v]}
  <2>1. i \in Index
    BY <1>2, BlockType
  <2>2. x.block.leader = l /\ x.block.index = i
    BY DEF PreviousVote
  <2>3. IsMajority(S)
    BY <1>2 DEF PreviousAfpIsOk, VerifyAggregatedFinalizationProof
  <2> HIDE DEF i, x
  <2>4. S \subseteq T /\ T \subseteq Honest
    BY <2>1, <2>2 DEF FpSigners, VotedOf
  <2> HIDE DEF S, T
  <2>5. IsMajority(T)
    BY <2>3, <2>4, MajorityGrows
  <2>6. Votes(l)!IsMajority(T)
    BY <2>5 DEF IsMajority, GetQuorumMajority, Quorum, Votes!IsMajority,
                Votes!GetQuorumMajority, Votes!Quorum, Cardinality,
                Votes!Cardinality
  <2> QED
    BY <2>6 DEF Votes!PreviousIsFinal, Votes!AfpExists, T, VotedOf, i
<1> QED
  BY <1>1, <1>2

\* A step of the quorum is one of a leader's votes, or changes nothing of them.
LEMMA VotesStep ==
    ASSUME NEW l \in Leader, l # LastLeader, IndInv, Standing, [Next]_vars
    PROVE  \/ Votes(l)!VotesNext
           \/ UNCHANGED <<StatOf(l), VotedOf(l), SealingOf(l), LfpsOf(l)>>
<1> DEFINE Still == UNCHANGED <<StatOf(l), VotedOf(l), SealingOf(l), LfpsOf(l)>>
<1>1. /\ UNCHANGED votingStat => UNCHANGED StatOf(l)
      /\ UNCHANGED fps => UNCHANGED VotedOf(l)
      /\ UNCHANGED <<rotated, currentLeader>> => UNCHANGED SealingOf(l)
      /\ UNCHANGED lfps => UNCHANGED LfpsOf(l)
  BY DEF StatOf, VotedOf, SealingOf, LfpsOf
<1>2. l \in Int /\ LastLeader \in Int
  BY BoundsAssumption DEF Leader, LastLeader
<1>3. ASSUME UNCHANGED <<votingStat, fps, rotated, currentLeader, lfps>>
      PROVE  Still
  BY <1>1, <1>3
<1>4. ASSUME NEW q \in inflight, StoreVotingStat(q)
      PROVE  Votes(l)!VotesNext \/ Still
  <2> DEFINE v == q.voter
             b == q.block
             m == b.leader
             i == b.index
             stat == votingStat[v][m]
             new == FutureVotingData(stat, b, q.afp)
  <2>1. v \in Honest /\ b \in Block /\ q.afp \in PrevAfp
    BY RequestType DEF IndInv, TypeOK
  <2>2. m \in Leader /\ i \in Index /\ i \in Nat
    BY <2>1, BlockType
  <2>3. /\ votingStat \in [Honest -> [Leader -> VotingStat]]
        /\ votingStat' = [votingStat EXCEPT ![v][m] = new]
        /\ UNCHANGED <<fps, rotated, currentLeader, lfps>>
    BY <1>4 DEF IndInv, TypeOK, StoreVotingStat
  <2>4. /\ ~rotated[v] /\ currentLeader[v] = m /\ PreviousAfpIsOk(b, q.afp)
        /\ ItsSameChainSegment(v, b)
    BY <1>4 DEF IndInv, Calls, StoreVotingStat
  <2>5. /\ stat.index <= i /\ stat.index \in Int
        /\ new.index = IF stat.index = i THEN i ELSE i - 1
    <3>1. stat.index \in Int
      BY <2>1, <2>2, VotingStatType DEF IndInv
    <3> QED
      BY <2>2, <2>4, <3>1
         DEF ItsSameChainSegment, FutureVotingData, NewLeaderVotingStatTemplate
  <2> HIDE DEF new, stat
  <2>6. CASE m # l
    <3>1. \A w \in Honest : votingStat'[w][l] = votingStat[w][l]
      BY <2>1, <2>2, <2>3, <2>6
    <3>2. UNCHANGED StatOf(l)
      BY <3>1 DEF StatOf
    <3> QED
      BY <1>1, <2>3, <3>2
  <2>7. CASE m = l
    <3> DEFINE S == StatOf(l)
    <3>1. /\ S = [w \in Honest |-> votingStat[w][l].index] /\ S[v] = stat.index
          /\ S' = [w \in Honest |-> votingStat'[w][l].index]
      BY <2>1, <2>7 DEF StatOf, stat
    <3>2. /\ votingStat'[v][l] = new
          /\ \A w \in Honest : w # v => votingStat'[w][l] = votingStat[w][l]
      BY <2>1, <2>2, <2>3, <2>7
    <3>3. S' = [S EXCEPT ![v] = new.index]
      <4>1. \A w \in Honest :
               votingStat'[w][l].index = [S EXCEPT ![v] = new.index][w]
        BY <2>1, <3>1, <3>2
      <4> QED
        BY <3>1, <4>1
    <3>4. ~SealingOf(l)[v]
      <4>1. currentLeader[v] = l /\ ~rotated[v] /\ v \in Honest
        BY <2>1, <2>4, <2>7
      <4>2. ~(l > l)
        BY <1>2
      <4> HIDE DEF v
      <4> QED
        BY <4>1, <4>2, Zenon DEF SealingOf
    <3>5. Votes(l)!PreviousIsFinal(i)
      BY <2>1, <2>4, <2>7, PreviousIsVoted
    <3>6. UNCHANGED <<VotedOf(l), SealingOf(l), LfpsOf(l)>>
      BY <1>1, <2>3
    <3>7. S[v] <= i /\ S' = [S EXCEPT ![v] = IF S[v] = i THEN i ELSE i - 1]
      BY <2>5, <3>1, <3>3
    <3> HIDE DEF v, i, m, b
    <3>8. Votes(l)!MoveStat(v, i)
      BY <3>4, <3>5, <3>6, <3>7
         DEF Votes!MoveStat, Votes!StatFor, StatOf, VotedOf, SealingOf, LfpsOf
    <3> QED
      BY <2>1, <2>2, <3>8 DEF Votes!VotesNext, Votes!Index, Index
  <2> QED
    BY <2>6, <2>7
<1>5. ASSUME NEW q \in inflight, SignFinalizationProof(q)
      PROVE  Votes(l)!VotesNext \/ Still
  <2> DEFINE v == q.voter
             b == q.block
             m == b.leader
             i == b.index
             n == [voter |-> v, vote |-> SignedVote(b, q.afp)]
  <2>1. v \in Honest /\ b \in Block /\ q.afp \in PrevAfp
    BY RequestType DEF IndInv, TypeOK
  <2>2. m \in Leader /\ i \in Index /\ i \in Nat
    BY <2>1, BlockType
  <2>3. /\ fps' = fps \cup {n} /\ q.phase = "statStored"
        /\ UNCHANGED <<votingStat, rotated, currentLeader, lfps>>
    BY <1>5 DEF SignFinalizationProof
  <2>4. n.voter = v /\ n.vote.block = b
    BY DEF SignedVote
  <2>5. /\ ~rotated[v] /\ currentLeader[v] = m /\ PreviousAfpIsOk(b, q.afp)
        /\ votingStat[v][m].index >= i - 1
    BY <2>3 DEF IndInv, Calls
  <2>6. votingStat[v][m].index <= i
    BY <2>3 DEF Standing
  <2> HIDE DEF n
  <2>7. CASE m # l
    <3>1. UNCHANGED VotedOf(l)
      BY <2>3, <2>4, <2>7 DEF VotedOf
    <3> QED
      BY <1>1, <2>3, <3>1
  <2>8. CASE m = l
    <3>1. /\ StatOf(l)[v] = votingStat[v][l].index
          /\ votingStat[v][l].index \in Int
      BY <2>1, <2>2, <2>8, VotingStatType DEF StatOf, IndInv
    <3>2. StatOf(l)[v] = IF StatOf(l)[v] = i THEN i ELSE i - 1
      BY <2>2, <2>5, <2>6, <2>8, <3>1
    <3>3. ~SealingOf(l)[v]
      <4>1. currentLeader[v] = l /\ ~rotated[v] /\ v \in Honest
        BY <2>1, <2>5, <2>8
      <4>2. ~(l > l)
        BY <1>2
      <4> HIDE DEF v
      <4> QED
        BY <4>1, <4>2, Zenon DEF SealingOf
    <3>4. Votes(l)!PreviousIsFinal(i)
      BY <2>1, <2>5, <2>8, PreviousIsVoted
    <3>5. VotedOf(l)' = [VotedOf(l) EXCEPT ![v] = @ \cup {i}]
      <4> DEFINE Of(w)  == {j \in Index : \E s \in fps : /\ s.voter = w
                               /\ s.vote.block.leader = l
                               /\ s.vote.block.index = j}
                 New(w) == {j \in Index : \E s \in fps' : /\ s.voter = w
                               /\ s.vote.block.leader = l
                               /\ s.vote.block.index = j}
      <4>1. New(v) = Of(v) \cup {i}
        BY <2>2, <2>3, <2>4, <2>8
      <4>2. \A w \in Honest : w # v => New(w) = Of(w)
        BY <2>3, <2>4
      <4>3. VotedOf(l) = [w \in Honest |-> Of(w)]
        BY DEF VotedOf
      <4>4. VotedOf(l)' = [w \in Honest |-> New(w)]
        BY DEF VotedOf
      <4> HIDE DEF Of, New, v, i
      <4> QED
        BY <2>1, <4>1, <4>2, <4>3, <4>4
    <3>6. UNCHANGED <<StatOf(l), SealingOf(l), LfpsOf(l)>>
      BY <1>1, <2>3
    <3> HIDE DEF v, i, m, b
    <3>7. Votes(l)!SignVote(v, i)
      BY <3>2, <3>3, <3>4, <3>5, <3>6
         DEF Votes!SignVote, Votes!StatFor, StatOf, VotedOf, SealingOf, LfpsOf
    <3> QED
      BY <2>1, <2>2, <3>7 DEF Votes!VotesNext, Votes!Index, Index
  <2> QED
    BY <2>7, <2>8
<1>6. ASSUME NEW v \in Honest, NEW m \in Leader, NEW i \in Index \cup {-1},
             NEW h \in PrevHash, SignLeaderFinalizationProof(v, m, i, h)
      PROVE  Votes(l)!VotesNext \/ Still
  <2> DEFINE n == [voter |-> v, leader |-> m, index |-> i, hash |-> h]
  <2>1. /\ lfps' = lfps \cup {n} /\ votingStat[v][m].index <= i
        /\ LeaderFinalizationAllowed(v, m)
        /\ UNCHANGED <<votingStat, fps, rotated, currentLeader>>
    BY <1>6 DEF SignLeaderFinalizationProof
  <2>2. n.voter = v /\ n.leader = m /\ n.index = i
    OBVIOUS
  <2> HIDE DEF n
  <2>3. CASE m # l
    <3>1. UNCHANGED LfpsOf(l)
      BY <2>1, <2>2, <2>3 DEF LfpsOf
    <3> QED
      BY <1>1, <2>1, <3>1
  <2>4. CASE m = l
    <3>1. SealingOf(l)[v]
      BY <2>1, <2>4 DEF SealingOf, LeaderFinalizationAllowed
    <3>2. StatOf(l)[v] <= i
      BY <2>1, <2>4 DEF StatOf
    <3>3. LfpsOf(l)' = LfpsOf(l) \cup {[voter |-> v, index |-> i]}
      BY <2>1, <2>2, <2>4 DEF LfpsOf
    <3>4. UNCHANGED <<StatOf(l), VotedOf(l), SealingOf(l)>>
      BY <1>1, <2>1
    <3>5. Votes(l)!SignLfp(v, i)
      BY <3>1, <3>2, <3>3, <3>4
         DEF Votes!SignLfp, Votes!MaySeal, StatOf, VotedOf, SealingOf, LfpsOf
    <3> QED
      BY <3>5 DEF Votes!VotesNext, Votes!LastIndex, Votes!Index, Index
  <2> QED
    BY <2>3, <2>4
<1>7. ASSUME NEW v \in Honest, RotateLeader(v) \/ RotateEpoch(v)
      PROVE  Votes(l)!VotesNext \/ Still
  <2> DEFINE G == SealingOf(l)
  <2>1. /\ UNCHANGED <<votingStat, fps, lfps>>
        /\ currentLeader \in [Honest -> Leader]
        /\ rotated \in [Honest -> BOOLEAN]
    BY <1>7 DEF RotateLeader, RotateEpoch, IndInv, TypeOK
  <2>2. UNCHANGED <<StatOf(l), VotedOf(l), LfpsOf(l)>>
    BY <1>1, <2>1
  <2>3. /\ \A w \in Honest : w # v => /\ rotated'[w] = rotated[w]
                                      /\ currentLeader'[w] = currentLeader[w]
        /\ \/ rotated'[v] = TRUE
           \/ /\ rotated'[v] = rotated[v]
              /\ currentLeader'[v] = currentLeader[v] + 1
    BY <1>7, <2>1 DEF RotateLeader, RotateEpoch
  <2>4. /\ G = [w \in Honest |-> rotated[w] \/ currentLeader[w] > l]
        /\ G' = [w \in Honest |-> rotated'[w] \/ currentLeader'[w] > l]
    BY DEF SealingOf
  <2>5. G'[v] = G[v] \/ (~G[v] /\ G'[v] = TRUE)
    <3>1. currentLeader'[v] = currentLeader[v] + 1 =>
             (currentLeader[v] > l => currentLeader'[v] > l)
      BY <1>2, <2>1, BoundsAssumption DEF Leader
    <3>2. G[v] = (rotated[v] \/ currentLeader[v] > l)
      BY <2>4, Zenon
    <3>3. G'[v] = (rotated'[v] \/ currentLeader'[v] > l)
      BY <2>4, Zenon
    <3>4. CASE rotated'[v] = TRUE
      BY <3>2, <3>3, <3>4, Zenon
    <3>5. CASE /\ rotated'[v] = rotated[v]
               /\ currentLeader'[v] = currentLeader[v] + 1
      BY <3>1, <3>2, <3>3, <3>5, Zenon
    <3> QED
      BY <2>3, <3>4, <3>5
  <2>6. \A w \in Honest : w # v => G'[w] = G[w]
    BY <2>3, <2>4
  <2>7. CASE G'[v] = G[v]
    <3>1. \A w \in Honest : G'[w] = G[w]
      BY <2>6, <2>7
    <3>2. UNCHANGED G
      BY <2>4, <3>1
    <3> QED
      BY <2>2, <3>2
  <2>8. CASE ~G[v] /\ G'[v] = TRUE
    <3>1. \A w \in Honest : G'[w] = [G EXCEPT ![v] = TRUE][w]
      BY <2>4, <2>6, <2>8
    <3>2. G' = [G EXCEPT ![v] = TRUE]
      BY <2>4, <3>1
    <3>3. Votes(l)!LeaveLeader(v)
      BY <2>2, <2>8, <3>2
         DEF Votes!LeaveLeader, StatOf, VotedOf, SealingOf, LfpsOf
    <3> QED
      BY <3>3 DEF Votes!VotesNext
  <2> QED
    BY <2>5, <2>7, <2>8
<1> QED
  <2>1. CASE \E v \in Honest, b \in Block : \E afp \in ProposedAfp(b) :
                RecordVote(v, b, afp)
    BY <1>3, <2>1 DEF RecordVote
  <2>2. CASE \E q \in inflight : \/ RejectPreviousAfp(q) \/ StoreBlock(q)
                                 \/ StorePreviousAfp(q)
    BY <1>3, <2>2 DEF RejectPreviousAfp, StoreBlock, StorePreviousAfp
  <2>3. CASE \E q \in inflight : \/ StoreVotingStat(q)
                                 \/ SignFinalizationProof(q)
    BY <1>4, <1>5, <2>3
  <2>4. CASE \E v \in Honest, m \in Leader, i \in Index \cup {-1},
                h \in PrevHash : SignLeaderFinalizationProof(v, m, i, h)
    BY <1>6, <2>4
  <2>5. CASE \E v \in Honest : RotateLeader(v) \/ RotateEpoch(v)
    BY <1>7, <2>5
  <2>6. CASE \/ UNCHANGED vars
             \/ \E v \in Honest : Crash(v) \/ RaiseEpochFinish(v)
    BY <1>3, <2>6 DEF Crash, RaiseEpochFinish, vars
  <2> HIDE DEF Still
  <2> QED
    BY <2>1, <2>2, <2>3, <2>4, <2>5, <2>6 DEF Next, FinalizationProofStep

\* The quorum implements LeaderVotes for every leader that is not the last one:
\* what the handlers and the rotation threads do to the signatures for its
\* blocks, to the seals of it and to its VotingStat.
THEOREM VotesImplemented == Spec => ImplementsLeaderVotes
<1> DEFINE Superseded == Leader \ {LastLeader}
<1>1. ASSUME Init, NEW l \in Superseded PROVE Votes(l)!VotesInit
  <2>1. StatOf(l) = [v \in Honest |-> -1]
    BY <1>1 DEF StatOf, Init, NewLeaderVotingStatTemplate
  <2>2. VotedOf(l) = [v \in Honest |-> {}]
    BY <1>1 DEF VotedOf, Init
  <2>3. SealingOf(l) = [v \in Honest |-> FALSE]
    <3>1. \A v \in Honest : (rotated[v] \/ currentLeader[v] > l) = FALSE
      BY <1>1, BoundsAssumption DEF Init, Leader
    <3> QED
      BY <3>1 DEF SealingOf
  <2>4. LfpsOf(l) = {}
    BY <1>1 DEF LfpsOf, Init
  <2> QED
    BY <2>1, <2>2, <2>3, <2>4
       DEF Votes!VotesInit, StatOf, VotedOf, SealingOf, LfpsOf
<1>2. Init => \A l \in Superseded : Votes(l)!VotesInit
  BY <1>1
<1>3. Init => Standing
  BY DEF Init, Standing
<1>4. Standing /\ IndInv /\ IndInv' /\ [Next]_vars => Standing'
  BY StandingNext
<1>5. ASSUME IndInv, Standing, [Next]_vars, NEW l \in Superseded
      PROVE  [Votes(l)!VotesNext]_(Votes(l)!votes)
  BY <1>5, VotesStep DEF Votes!votes, StatOf, VotedOf, SealingOf, LfpsOf
<1>6. IndInv /\ Standing /\ [Next]_vars
         => [\A l \in Superseded : [Votes(l)!VotesNext]_(Votes(l)!votes)]_vars
  BY <1>5
<1> QED
  BY <1>2, <1>3, <1>4, <1>6, Invariance, PTL DEF Spec, ImplementsLeaderVotes
-----------------------------------------------------------------------------
(* LeaderPipeline: the inductive invariant *)

\* The leader's blocks are one chain: one block at an index, each with the hash
\* of the one before it.
OwnChain ==
    /\ \A x \in ownBlocks : x.block.leader = Me
    /\ \A x, y \in ownBlocks : x.block.index = y.block.index => x = y
    /\ \A x \in ownBlocks :
          IF x.block.index = 0 THEN x.prev = ZeroHash
          ELSE \E y \in ownBlocks : /\ y.block.index = x.block.index - 1
                                    /\ y.block.hash = x.prev

\* The generation thread of this epoch, and its record, stand at the end of
\* that chain; before the first block the record is still of an earlier epoch.
Generations ==
    IF generationDb.epoch = "current"
    THEN /\ generation = generationDb
         /\ \A x \in ownBlocks : x.block.index < generation.next
         /\ IF generation.next = 0 THEN generation.prev = ZeroHash
            ELSE \E y \in ownBlocks : /\ y.block.index = generation.next - 1
                                      /\ y.block.hash = generation.prev
    ELSE /\ ownBlocks = {}
         /\ generation.epoch = "current" =>
               generation.next = 0 /\ generation.prev = ZeroHash

\* The AFP records are aggregated proofs, of the leader's own blocks.
OwnRecords == ownAfps \subseteq Afps /\ ownAfps \subseteq ownBlocks

\* A grabber of this epoch stands before the first block or on a block with an
\* AFP record.
GrabberOk(g) ==
    \/ g.accepted = -1 /\ g.hash = ZeroHash /\ g.afp = NoAfp
    \/ \E x \in ownAfps : /\ x.block.index = g.accepted
                          /\ x.block.hash = g.hash
                          /\ g.afp = [hash |-> x.block.hash, prev |-> x.prev]

\* The grabber in the database is at most one block behind the one in memory.
Grabbers ==
    /\ \A g \in grabberDb : g.epoch = "current" /\ GrabberOk(g)
    /\ grabber.epoch = "current" =>
          /\ GrabberOk(grabber)
          /\ grabberDb # {}
          /\ \A g \in grabberDb : grabber.accepted \in {g.accepted, g.accepted + 1}

\* A proposal is a block of the leader with the AFP record of the one before,
\* and at most two after the block on which the stored grabber stands.
ProposalOk(p) ==
    /\ [block |-> p.block, prev |-> p.prev] \in ownBlocks
    /\ IF p.block.index = 0 THEN p.afp = NoAfp
       ELSE p.afp.hash = p.prev /\ PreviousVote(p.block, p.afp) \in ownAfps

SentProposals ==
    \A p \in sent :
        /\ ProposalOk(p)
        /\ grabberDb # {}
        /\ \A g \in grabberDb : p.block.index <= g.accepted + 2

\* There is one round, it asks for the block after the accepted one, and has
\* counted signatures of what it asks for.
Hunting ==
    \A h \in hunt :
        /\ \A k \in hunt : k = h
        /\ grabber.epoch = "current"
        /\ h.proposal \in sent
        /\ h.proposal.block.index = grabber.accepted + 1
        /\ h.proposal.prev = grabber.hash
        /\ h.proposal.afp = grabber.afp
        /\ h.answers \subseteq FpSigners(HuntedVote(h))

\* What the validators have seen, voted for and signed was sent by the leader,
\* and a VotingStat is of the block before a proposal.
SeenByQuorum ==
    /\ \A r \in inflight : \E p \in sent : p.block = r.block /\ p.afp = r.afp
    /\ \A v \in Honest : \A b \in finalizationVote[v] : \E p \in sent : p.block = b
    /\ \A s \in fps : s.vote \in ownBlocks
    /\ \A v \in Honest :
          \/ votingStat[v][Me] = NewLeaderVotingStatTemplate
          \/ \E p \in sent : /\ p.block.index # 0
                             /\ votingStat[v][Me].index = p.block.index - 1
                             /\ votingStat[v][Me].hash = p.prev

LeaderInv ==
    /\ IndInv /\ LeaderTypeOK
    /\ OwnChain /\ Generations /\ OwnRecords /\ Grabbers
    /\ SentProposals /\ Hunting /\ SeenByQuorum
-----------------------------------------------------------------------------
(* It implies the properties *)

\* The fields of a proposal and of the grabbers.
LEMMA LeaderTypes ==
    ASSUME LeaderTypeOK
    PROVE  /\ Me \in Leader
           /\ \A x \in ownBlocks : /\ x \in Vote /\ x.block \in Block /\ x.prev \in PrevHash
                                   /\ x.block.index \in Nat /\ x.block.hash \in Hash
           /\ \A x \in ownAfps : /\ x \in Vote /\ x.block \in Block /\ x.prev \in PrevHash
                                 /\ x.block.index \in Nat /\ x.block.hash \in Hash
           /\ \A p \in sent : /\ p.block \in Block /\ p.prev \in PrevHash
                              /\ p.afp \in PrevAfp /\ p.block.index \in Nat
                              /\ p.block.hash \in Hash
           /\ \A g \in grabberDb : g \in Grabber /\ g.accepted \in Int /\ g.accepted >= -1
           /\ grabber \in Grabber /\ grabber.accepted \in Int /\ grabber.accepted >= -1
           /\ generation \in GenState /\ generation.next \in Nat
           /\ generation.prev \in PrevHash
           /\ \A h \in hunt : h.answers \subseteq Honest
<1>1. Me \in Leader
  BY LeaderAssumption
<1>2. \A x \in Vote : x.block \in Block /\ x.prev \in PrevHash
  BY DEF Vote
<1>3. \A b \in Block : b.index \in Nat /\ b.hash \in Hash
  BY BlockType
<1>4. \A p \in sent : p.block \in Block /\ p.prev \in PrevHash /\ p.afp \in PrevAfp
  BY DEF LeaderTypeOK, Proposal
<1>5. \A g \in Grabber : g.accepted \in Int /\ g.accepted >= -1
  BY BoundsAssumption DEF Grabber, Index
<1>6. \A g \in GenState : g.next \in Nat /\ g.prev \in PrevHash
  BY BoundsAssumption DEF GenState
<1>7. \A h \in hunt : h.answers \subseteq Honest
  BY DEF LeaderTypeOK, Hunt
<1> QED
  BY <1>1, <1>2, <1>3, <1>4, <1>5, <1>6, <1>7 DEF LeaderTypeOK

\* The AFP that a proposal carries is accepted, and what is signed of it is the
\* leader's block.
LEMMA ProposalsAreProved ==
    ASSUME LeaderTypeOK, OwnChain, OwnRecords, NEW p \in sent, ProposalOk(p)
    PROVE  /\ PreviousAfpIsOk(p.block, p.afp)
           /\ p.afp \in ProposedAfp(p.block)
           /\ SignedVote(p.block, p.afp) = [block |-> p.block, prev |-> p.prev]
           /\ p.block.leader = Me
<1>1. /\ p.block \in Block /\ p.afp \in PrevAfp
      /\ [block |-> p.block, prev |-> p.prev] \in ownBlocks
  BY LeaderTypes DEF ProposalOk
<1>2. CASE p.block.index = 0
  <2>1. p.prev = ZeroHash
    BY <1>1, <1>2 DEF OwnChain
  <2> QED
    BY <1>1, <1>2, <2>1 DEF ProposalOk, PreviousAfpIsOk, ProposedAfp, SignedVote,
                            NoAfp, OwnChain
<1>3. CASE p.block.index # 0
  <2> DEFINE x == PreviousVote(p.block, p.afp)
  <2>1. x \in ownAfps /\ p.afp.hash = p.prev
    BY <1>3 DEF ProposalOk
  <2>2. x \in Vote /\ VerifyAggregatedFinalizationProof(x)
    BY <2>1 DEF OwnRecords, Afps
  <2>3. x.block \in Block /\ x.block.hash = p.afp.hash
    BY <2>2 DEF Vote, PreviousVote
  <2>4. p.afp.hash \in Hash
    BY <2>3, BlockType
  <2> QED
    BY <1>1, <1>3, <2>1, <2>2, <2>4
       DEF PreviousAfpIsOk, ProposedAfp, SignedVote, PrevAfp, OwnChain
<1> QED
  BY <1>2, <1>3

\* What a validator has voted for, and the VotingStat it has, are of blocks of
\* the leader's one chain: none of them stands against the hunted block.
LEMMA HuntedIsAcceptable == LeaderInv => HuntedBlockIsAcceptable
<1> SUFFICES ASSUME LeaderInv, NEW h \in hunt, NEW v \in Honest
             PROVE  /\ ItsSameChainSegment(v, h.proposal.block)
                    /\ NoConflictingVote(v, h.proposal.block)
                    /\ PreviousAfpIsOk(h.proposal.block, h.proposal.afp)
  BY DEF HuntedBlockIsAcceptable
<1> DEFINE p == h.proposal
<1>1. /\ LeaderTypeOK /\ OwnChain /\ OwnRecords /\ Grabbers /\ SentProposals
      /\ Hunting /\ SeenByQuorum /\ TypeOK
  BY DEF LeaderInv, IndInv
<1>2. /\ p \in sent /\ grabber.epoch = "current"
      /\ p.block.index = grabber.accepted + 1
  BY <1>1 DEF Hunting
<1>3. /\ ProposalOk(p) /\ p.block \in Block /\ p.block.index \in Nat
      /\ [block |-> p.block, prev |-> p.prev] \in ownBlocks
  BY <1>1, <1>2, LeaderTypes DEF SentProposals, ProposalOk
<1>4. PreviousAfpIsOk(p.block, p.afp) /\ p.block.leader = Me
  BY <1>1, <1>2, <1>3, ProposalsAreProved
<1>5. NoConflictingVote(v, p.block)
  <2> SUFFICES ASSUME NEW c \in finalizationVote[v], SameId(p.block, c)
               PROVE  c.hash = p.block.hash
    BY DEF NoConflictingVote
  <2>1. PICK q \in sent : q.block = c
    BY <1>1 DEF SeenByQuorum
  <2>2. [block |-> q.block, prev |-> q.prev] \in ownBlocks
    BY <1>1, <2>1 DEF SentProposals, ProposalOk
  <2> QED
    BY <1>1, <1>3, <2>1, <2>2 DEF OwnChain, SameId
<1>6. ItsSameChainSegment(v, p.block)
  <2>1. CASE votingStat[v][Me] = NewLeaderVotingStatTemplate
    BY <1>3, <1>4, <2>1 DEF NewLeaderVotingStatTemplate, ItsSameChainSegment
  <2>2. CASE \E q \in sent : /\ q.block.index # 0
                             /\ votingStat[v][Me].index = q.block.index - 1
                             /\ votingStat[v][Me].hash = q.prev
    <3>1. PICK q \in sent : /\ q.block.index # 0
                            /\ votingStat[v][Me].index = q.block.index - 1
                            /\ votingStat[v][Me].hash = q.prev
      BY <2>2
    <3>2. PICK g \in grabberDb : TRUE
      BY <1>1, <1>2 DEF SentProposals
    <3>3. /\ q.block.index <= g.accepted + 2 /\ q.block.index \in Nat
          /\ grabber.accepted \in {g.accepted, g.accepted + 1}
          /\ g.accepted \in Int
      BY <1>1, <1>2, <3>2, LeaderTypes DEF SentProposals, Grabbers
    <3>4. q.block.index - 1 <= p.block.index
      BY <1>2, <3>3
    <3>5. CASE q.block.index - 1 = p.block.index
      <4>1. [block |-> q.block, prev |-> q.prev] \in ownBlocks
        BY <1>1 DEF SentProposals, ProposalOk
      <4>2. PICK y \in ownBlocks : /\ y.block.index = q.block.index - 1
                                   /\ y.block.hash = q.prev
        BY <1>1, <3>1, <4>1 DEF OwnChain
      <4>3. y = [block |-> p.block, prev |-> p.prev]
        BY <1>1, <1>3, <3>5, <4>2 DEF OwnChain
      <4> QED
        BY <1>4, <3>1, <3>5, <4>2, <4>3 DEF ItsSameChainSegment
    <3>6. CASE q.block.index - 1 # p.block.index
      BY <1>3, <1>4, <3>1, <3>3, <3>4, <3>6 DEF ItsSameChainSegment
    <3> QED
      BY <3>5, <3>6
  <2> QED
    BY <1>1, <2>1, <2>2 DEF SeenByQuorum
<1> QED
  BY <1>4, <1>5, <1>6

\* An AFP has an honest signer, and honest validators only sign what the leader
\* has sent with the AFP it has for the block before.
LEMMA AfpsAreOwn == LeaderInv => AfpLinksLikeTheBlock
<1> SUFFICES ASSUME LeaderInv, NEW x \in Afps PROVE x \in ownBlocks
  BY DEF AfpLinksLikeTheBlock
<1>1. IsMajority(FpSigners(x)) /\ FpSigners(x) \subseteq Honest
  BY DEF Afps, VerifyAggregatedFinalizationProof, FpSigners
<1>2. PICK v \in Honest : [voter |-> v, vote |-> x] \in fps
  BY <1>1, MajorityHasHonest DEF FpSigners
<1> QED
  BY <1>2 DEF LeaderInv, SeenByQuorum

LEMMA AcceptedHaveAfps == LeaderInv => AcceptedBlocksHaveAfps
<1> SUFFICES ASSUME LeaderInv PROVE AcceptedBlocksHaveAfps
  OBVIOUS
<1>1. ownAfps \subseteq Afps
  BY DEF LeaderInv, OwnRecords
<1>2. ASSUME grabber.epoch = "current", grabber.accepted >= 0
      PROVE  \E x \in ownAfps : /\ x.block.index = grabber.accepted
                                /\ x.block.hash = grabber.hash
                                /\ x.prev = grabber.afp.prev
  <2>1. GrabberOk(grabber)
    BY <1>2 DEF LeaderInv, Grabbers
  <2>0. grabber.accepted # -1
    BY <1>2
  <2>2. PICK x \in ownAfps :
            /\ x.block.index = grabber.accepted
            /\ x.block.hash = grabber.hash
            /\ grabber.afp = [hash |-> x.block.hash, prev |-> x.prev]
    BY <2>0, <2>1, Zenon DEF GrabberOk
  <2>3. x.prev = grabber.afp.prev
    <3> DEFINE y == [hash |-> x.block.hash, prev |-> x.prev]
    <3>1. y.prev = x.prev
      OBVIOUS
    <3>2. grabber.afp = y
      BY <2>2
    <3> HIDE DEF y
    <3> QED
      BY <3>1, <3>2
  <2> QED
    BY <2>2, <2>3
<1> QED
  BY <1>1, <1>2 DEF AcceptedBlocksHaveAfps
-----------------------------------------------------------------------------
(* It is inductive *)

\* Whatever happens, the AFPs there are remain, and the leader's records and
\* proposals with them.
LEMMA AfpsRemain == ASSUME fps \subseteq fps' PROVE Afps \subseteq Afps'
BY AfpPersists DEF Afps

LEMMA LeaderUndisturbed ==
    ASSUME OwnChain, Generations, OwnRecords, Grabbers, SentProposals,
           fps \subseteq fps',
           UNCHANGED <<grabber, grabberDb, generation, generationDb, ownBlocks,
                       ownAfps, sent>>
    PROVE  OwnChain' /\ Generations' /\ OwnRecords' /\ Grabbers' /\ SentProposals'
<1>1. OwnChain' /\ Generations'
  BY DEF OwnChain, Generations
<1>2. OwnRecords'
  BY AfpsRemain DEF OwnRecords
<1>3. Grabbers' /\ SentProposals'
  BY DEF Grabbers, GrabberOk, SentProposals, ProposalOk
<1> QED
  BY <1>1, <1>2, <1>3

\* The signatures that a round has counted remain.
LEMMA SignersRemain ==
    ASSUME fps \subseteq fps', NEW x PROVE FpSigners(x) \subseteq FpSigners(x)'
BY DEF FpSigners

LEMMA AtMostOne ==
    ASSUME NEW S, \A x, y \in S : x = y PROVE Cardinality(S) <= 1
<1>1. CASE S = {}
  BY <1>1, FS_EmptySet
<1>2. CASE S # {}
  <2>1. PICK x \in S : TRUE
    BY <1>2
  <2>2. S = {x}
    BY <2>1
  <2>3. Cardinality({x}) = 1
    BY FS_Singleton, Zenon
  <2> QED
    BY <2>2, <2>3
<1> QED
  BY <1>1, <1>2

\* A first proposal to a validator that has none running.
LEMMA ReceiveStep ==
    ASSUME LeaderInv, NEW q \in sent, NEW v \in Honest,
           RecordVote(v, q.block, q.afp),
           hunt' = hunt \/ \E h \in hunt : hunt' = {[h EXCEPT !.asked = @ \cup {v}]},
           failures' \in 0 .. MaxFailures,
           UNCHANGED <<leading, grabber, grabberDb, generation, generationDb,
                       ownBlocks, ownAfps, sent>>
    PROVE  LeaderInv'
<1>1. /\ LeaderTypeOK /\ OwnChain /\ Generations /\ OwnRecords /\ Grabbers
      /\ SentProposals /\ Hunting /\ SeenByQuorum /\ IndInv /\ TypeOK
  BY DEF LeaderInv, IndInv
<1>2. q.block \in Block /\ q.afp \in ProposedAfp(q.block)
  BY <1>1, LeaderTypes, ProposalsAreProved DEF SentProposals
<1>3. IndInv' /\ TypeOK'
  <2>1. Next
    BY <1>2 DEF Next
  <2> QED
    BY <1>1, <2>1, IndInvNext DEF IndInv
<1>4. UNCHANGED fps
  BY DEF RecordVote
<1>5. OwnChain' /\ Generations' /\ OwnRecords' /\ Grabbers' /\ SentProposals'
  BY <1>1, <1>4, LeaderUndisturbed
<1>6. hunt' \subseteq Hunt /\ Cardinality(hunt') <= 1
  <2>1. hunt \subseteq Hunt /\ \A h, k \in hunt : h = k
    BY <1>1 DEF LeaderTypeOK, Hunting
  <2>2. ASSUME NEW h \in Hunt PROVE [h EXCEPT !.asked = @ \cup {v}] \in Hunt
    BY DEF Hunt
  <2>3. \A h, k \in hunt' : h = k
    BY <2>1
  <2> QED
    BY <2>1, <2>2, <2>3, AtMostOne
<1>7. LeaderTypeOK'
  BY <1>1, <1>3, <1>6 DEF LeaderTypeOK
<1>8. Hunting'
  <2>1. \A h \in hunt' : \E k \in hunt : h.proposal = k.proposal /\ h.answers = k.answers
    <3>1. \A h \in hunt : /\ [h EXCEPT !.asked = @ \cup {v}].proposal = h.proposal
                          /\ [h EXCEPT !.asked = @ \cup {v}].answers = h.answers
      BY <1>1 DEF LeaderTypeOK, Hunt
    <3> QED
      BY <3>1
  <2>2. \A h, k \in hunt' : h = k
    BY <1>1 DEF Hunting
  <2>3. ASSUME NEW h \in hunt'
        PROVE  /\ grabber.epoch = "current"
               /\ h.proposal \in sent
               /\ h.proposal.block.index = grabber.accepted + 1
               /\ h.proposal.prev = grabber.hash
               /\ h.proposal.afp = grabber.afp
               /\ h.answers \subseteq FpSigners(HuntedVote(h))'
    BY <1>1, <1>4, <2>1 DEF Hunting, HuntedVote, FpSigners
  <2> QED
    BY <2>2, <2>3 DEF Hunting, HuntedVote
<1>9. SeenByQuorum'
  <2>1. \A r \in inflight' : \E p \in sent : p.block = r.block /\ p.afp = r.afp
    BY <1>1 DEF SeenByQuorum, RecordVote
  <2>2. \A w \in Honest : \A b \in finalizationVote'[w] : \E p \in sent : p.block = b
    BY <1>1 DEF SeenByQuorum, RecordVote, TypeOK
  <2>3. UNCHANGED votingStat
    BY DEF RecordVote
  <2> QED
    BY <1>1, <1>4, <2>1, <2>2, <2>3 DEF SeenByQuorum
<1> QED
  BY <1>3, <1>5, <1>7, <1>8, <1>9 DEF LeaderInv

\* Steps of the quorum that neither start a call nor change a vote: what the
\* validators have seen stays what the leader has sent.
LEMMA QuorumStep ==
    ASSUME LeaderInv, Next, finalizationVote' = finalizationVote,
           fps \subseteq fps',
           \A r \in inflight' : \E q \in inflight : q.block = r.block /\ q.afp = r.afp,
           \A s \in fps' : s.vote \in ownBlocks,
           \A v \in Honest : \/ votingStat'[v][Me] = votingStat[v][Me]
                             \/ votingStat'[v][Me] = NewLeaderVotingStatTemplate
                             \/ \E p \in sent :
                                   /\ p.block.index # 0
                                   /\ votingStat'[v][Me].index = p.block.index - 1
                                   /\ votingStat'[v][Me].hash = p.prev,
           hunt' \subseteq Hunt, \A h, k \in hunt' : h = k,
           \A h \in hunt' : \E k \in hunt :
               /\ h.proposal = k.proposal
               /\ h.answers \subseteq k.answers \cup FpSigners(HuntedVote(h))',
           failures' \in 0 .. MaxFailures,
           UNCHANGED <<leading, grabber, grabberDb, generation, generationDb,
                       ownBlocks, ownAfps, sent>>
    PROVE  LeaderInv'
<1>1. /\ LeaderTypeOK /\ OwnChain /\ Generations /\ OwnRecords /\ Grabbers
      /\ SentProposals /\ Hunting /\ SeenByQuorum /\ IndInv
  BY DEF LeaderInv
<1>2. IndInv' /\ TypeOK'
  BY <1>1, IndInvNext DEF IndInv
<1>3. OwnChain' /\ Generations' /\ OwnRecords' /\ Grabbers' /\ SentProposals'
  BY <1>1, LeaderUndisturbed
<1>4. LeaderTypeOK'
  BY <1>1, <1>2, AtMostOne DEF LeaderTypeOK
<1>5. Hunting'
  <2> SUFFICES ASSUME NEW h \in hunt'
               PROVE  /\ grabber.epoch = "current"
                      /\ h.proposal \in sent
                      /\ h.proposal.block.index = grabber.accepted + 1
                      /\ h.proposal.prev = grabber.hash
                      /\ h.proposal.afp = grabber.afp
                      /\ h.answers \subseteq FpSigners(HuntedVote(h))'
    BY DEF Hunting, HuntedVote
  <2>1. PICK k \in hunt :
            /\ h.proposal = k.proposal
            /\ h.answers \subseteq k.answers \cup FpSigners(HuntedVote(h))'
    OBVIOUS
  <2>2. HuntedVote(h) = HuntedVote(k)
    BY <2>1 DEF HuntedVote
  <2>3. k.answers \subseteq FpSigners(HuntedVote(h))'
    BY <1>1, <2>2, SignersRemain DEF Hunting
  <2> QED
    BY <1>1, <2>1, <2>3 DEF Hunting
<1>6. SeenByQuorum'
  <2>1. \A r \in inflight' : \E p \in sent : p.block = r.block /\ p.afp = r.afp
    BY <1>1 DEF SeenByQuorum
  <2>2. \A w \in Honest : \A b \in finalizationVote'[w] : \E p \in sent : p.block = b
    BY <1>1 DEF SeenByQuorum
  <2>3. \A v \in Honest :
            \/ votingStat'[v][Me] = NewLeaderVotingStatTemplate
            \/ \E p \in sent : /\ p.block.index # 0
                               /\ votingStat'[v][Me].index = p.block.index - 1
                               /\ votingStat'[v][Me].hash = p.prev
    BY <1>1 DEF SeenByQuorum
  <2> QED
    BY <2>1, <2>2, <2>3 DEF SeenByQuorum
<1> QED
  BY <1>2, <1>3, <1>4, <1>5, <1>6 DEF LeaderInv

\* The fields of a call after its next write.
LEMMA CallMovesOn ==
    ASSUME NEW r \in inflight, NEW p, Advance(r, p)
    PROVE  \A c \in inflight' : \E q \in inflight : q.block = c.block /\ q.afp = c.afp
BY DEF Advance, AtPhase

\* A call goes on, or ends without a signature.
LEMMA WorkOnCallStep ==
    ASSUME LeaderInv, NEW r \in inflight, WorkOnCall(r) PROVE LeaderInv'
<1>1. /\ LeaderTypeOK /\ Hunting /\ SeenByQuorum /\ SentProposals /\ OwnChain
      /\ OwnRecords /\ TypeOK
  BY DEF LeaderInv, IndInv
<1>2. /\ UNCHANGED <<leading, grabber, grabberDb, generation, generationDb,
                     ownBlocks, ownAfps, hunt, sent, failures>>
      /\ Next
  BY DEF WorkOnCall, leaderVars, Next, FinalizationProofStep
<1>3. /\ hunt' \subseteq Hunt /\ \A h, k \in hunt' : h = k
      /\ failures' \in 0 .. MaxFailures
      /\ \A s \in fps : s.vote \in ownBlocks
      /\ \A h \in hunt' : \E k \in hunt :
            /\ h.proposal = k.proposal
            /\ h.answers \subseteq k.answers \cup FpSigners(HuntedVote(h))'
  BY <1>1, <1>2 DEF LeaderTypeOK, SeenByQuorum, Hunting
<1>4. fps' = fps /\ finalizationVote' = finalizationVote
  BY DEF WorkOnCall, RejectPreviousAfp, StoreBlock, StorePreviousAfp,
         StoreVotingStat
<1>5. \A c \in inflight' : \E q \in inflight : q.block = c.block /\ q.afp = c.afp
  BY CallMovesOn DEF WorkOnCall, RejectPreviousAfp, StoreBlock, StorePreviousAfp,
                     StoreVotingStat
<1>6. CASE votingStat' = votingStat
  BY <1>2, <1>3, <1>4, <1>5, <1>6, QuorumStep
<1>7. CASE StoreVotingStat(r)
  <2>1. PICK p \in sent : p.block = r.block /\ p.afp = r.afp
    BY <1>1 DEF SeenByQuorum
  <2>2. ProposalOk(p) /\ p.block.leader = Me
    BY <1>1, ProposalsAreProved DEF SentProposals
  <2>3. r.voter \in Honest /\ Me \in Leader
    BY <1>1, LeaderTypes, RequestType DEF TypeOK
  <2> DEFINE old == votingStat[r.voter][Me]
             new == FutureVotingData(old, r.block, r.afp)
  <2>4. votingStat' = [votingStat EXCEPT ![r.voter][Me] = new]
    BY <1>7, <2>1, <2>2 DEF StoreVotingStat
  <2>5. /\ votingStat'[r.voter][Me] = new
        /\ \A v \in Honest : v # r.voter => votingStat'[v][Me] = votingStat[v][Me]
    BY <1>1, <2>3, <2>4 DEF TypeOK
  <2>6. \/ new = old
        \/ new = NewLeaderVotingStatTemplate
        \/ /\ p.block.index # 0
           /\ new.index = p.block.index - 1
           /\ new.hash = p.prev
    BY <2>1, <2>2 DEF FutureVotingData, ProposalOk
  <2> HIDE DEF old, new
  <2>7. \A v \in Honest : \/ votingStat'[v][Me] = votingStat[v][Me]
                          \/ votingStat'[v][Me] = NewLeaderVotingStatTemplate
                          \/ \E q \in sent :
                                /\ q.block.index # 0
                                /\ votingStat'[v][Me].index = q.block.index - 1
                                /\ votingStat'[v][Me].hash = q.prev
    BY <2>5, <2>6 DEF old
  <2> QED
    BY <1>2, <1>3, <1>4, <1>5, <2>7, QuorumStep
<1> QED
  BY <1>6, <1>7 DEF WorkOnCall, RejectPreviousAfp, StoreBlock, StorePreviousAfp

\* A signature is of the leader's own block, and is counted by the round that
\* asks for it.
LEMMA AnswerStep ==
    ASSUME LeaderInv, NEW r \in inflight, Answer(r) PROVE LeaderInv'
<1>1. /\ LeaderTypeOK /\ Hunting /\ SeenByQuorum /\ SentProposals /\ OwnChain
      /\ OwnRecords /\ TypeOK
  BY DEF LeaderInv, IndInv
<1>2. /\ UNCHANGED <<leading, grabber, grabberDb, generation, generationDb,
                     ownBlocks, ownAfps, sent, failures>>
      /\ Next
      /\ fps \subseteq fps'
      /\ finalizationVote' = finalizationVote
      /\ votingStat' = votingStat
      /\ inflight' \subseteq inflight
      /\ failures' \in 0 .. MaxFailures
  BY <1>1 DEF Answer, SignFinalizationProof, Next, FinalizationProofStep, LeaderTypeOK
<1>3. r.voter \in Honest
  BY <1>1, RequestType DEF TypeOK
<1>4. \A s \in fps' : s.vote \in ownBlocks
  <2>1. PICK p \in sent : p.block = r.block /\ p.afp = r.afp
    BY <1>1 DEF SeenByQuorum
  <2>2. SignedVote(r.block, r.afp) \in ownBlocks
    BY <1>1, <2>1, ProposalsAreProved DEF SentProposals, ProposalOk
  <2> QED
    BY <1>1, <2>2 DEF Answer, SignFinalizationProof, SeenByQuorum
<1> DEFINE new(h) == IF SignedVote(r.block, r.afp) = HuntedVote(h)
                     THEN [h EXCEPT !.answers = @ \cup {r.voter}] ELSE h
<1>5. hunt' = {new(h) : h \in hunt}
  BY DEF Answer
<1>6. ASSUME NEW h \in hunt
      PROVE  /\ new(h) \in Hunt
             /\ new(h).proposal = h.proposal
             /\ new(h).answers \subseteq h.answers \cup FpSigners(HuntedVote(new(h)))'
  <2>1. h \in Hunt
    BY <1>1 DEF LeaderTypeOK
  <2>2. CASE SignedVote(r.block, r.afp) = HuntedVote(h)
    <3>1. new(h) = [h EXCEPT !.answers = @ \cup {r.voter}]
      BY <2>2
    <3>2. /\ new(h) \in Hunt
          /\ new(h).proposal = h.proposal
          /\ new(h).answers = h.answers \cup {r.voter}
      BY <1>3, <2>1, <3>1 DEF Hunt
    <3>3. HuntedVote(new(h)) = SignedVote(r.block, r.afp)
      BY <2>2, <3>2 DEF HuntedVote
    <3>4. r.voter \in FpSigners(HuntedVote(new(h)))'
      BY <1>3, <3>3 DEF FpSigners, Answer, SignFinalizationProof
    <3> QED
      BY <3>2, <3>4
  <2>3. CASE SignedVote(r.block, r.afp) # HuntedVote(h)
    BY <2>1, <2>3
  <2> QED
    BY <2>2, <2>3
<1> HIDE DEF new
<1>7. /\ hunt' \subseteq Hunt
      /\ \A h, k \in hunt' : h = k
      /\ \A h \in hunt' : \E k \in hunt :
            /\ h.proposal = k.proposal
            /\ h.answers \subseteq k.answers \cup FpSigners(HuntedVote(h))'
  BY <1>1, <1>5, <1>6 DEF Hunting
<1> QED
  BY <1>2, <1>4, <1>7, QuorumStep

\* A validator crashes, or rotates.
LEMMA ValidatorStep ==
    ASSUME LeaderInv, NEW v \in Honest, ValidatorCrash(v) \/ ValidatorMovesOn(v)
    PROVE  LeaderInv'
<1>1. LeaderTypeOK /\ Hunting /\ SeenByQuorum
  BY DEF LeaderInv
<1>2. /\ UNCHANGED <<leading, grabber, grabberDb, generation, generationDb,
                     ownBlocks, ownAfps, hunt, sent>>
      /\ Next
      /\ fps' = fps
      /\ finalizationVote' = finalizationVote
      /\ votingStat' = votingStat
      /\ inflight' \subseteq inflight
  BY DEF ValidatorCrash, ValidatorMovesOn, leaderVars, Crash, RotateLeader,
         RaiseEpochFinish, Next
<1>3. failures' \in 0 .. MaxFailures
  BY <1>1, LeaderAssumption
     DEF ValidatorCrash, ValidatorMovesOn, leaderVars, LeaderTypeOK
<1>4. /\ hunt' \subseteq Hunt /\ \A h, k \in hunt' : h = k
      /\ \A s \in fps' : s.vote \in ownBlocks
      /\ \A h \in hunt' : \E k \in hunt :
            /\ h.proposal = k.proposal
            /\ h.answers \subseteq k.answers \cup FpSigners(HuntedVote(h))'
  BY <1>1, <1>2 DEF LeaderTypeOK, SeenByQuorum, Hunting
<1> QED
  BY <1>2, <1>3, <1>4, QuorumStep

\* The threads of the leader change nothing at the validators, who go on having
\* seen only what was sent.
LEMMA LeaderSide ==
    ASSUME LeaderInv, UNCHANGED vars, sent \subseteq sent',
           ownBlocks \subseteq ownBlocks'
    PROVE  /\ IndInv' /\ TypeOK' /\ SeenByQuorum'
           /\ Afps' = Afps
           /\ \A x : FpSigners(x)' = FpSigners(x)
<1>1. IndInv /\ SeenByQuorum
  BY DEF LeaderInv
<1>2. IndInv' /\ TypeOK'
  BY <1>1, IndInvNext DEF IndInv
<1>3. SeenByQuorum'
  BY <1>1 DEF SeenByQuorum, vars
<1>4. fps' = fps
  BY DEF vars
<1>5. \A x : FpSigners(x)' = FpSigners(x)
  BY <1>4 DEF FpSigners
<1>6. Afps' = Afps
  BY <1>5 DEF Afps, VerifyAggregatedFinalizationProof, IsMajority,
              GetQuorumMajority, Quorum
<1> QED
  BY <1>2, <1>3, <1>5, <1>6

\* A block is made at the end of the chain, and written with the thread.
LEMMA GenerateBlockStep ==
    ASSUME LeaderInv, NEW c \in Hash, GenerateBlock(c) PROVE LeaderInv'
<1>1. /\ LeaderTypeOK /\ OwnChain /\ Generations /\ OwnRecords /\ Grabbers
      /\ SentProposals /\ Hunting
  BY DEF LeaderInv
<1> DEFINE g == RotatedGeneration
           x == [block |-> [leader |-> Me, index |-> g.next, hash |-> c],
                 prev  |-> g.prev]
<1>2. /\ UNCHANGED <<vars, leading, grabber, grabberDb, ownAfps, hunt, sent,
                     failures>>
      /\ g.next <= MaxIndex
      /\ ownBlocks' = {y \in ownBlocks : ~SameId(y.block, x.block)} \cup {x}
      /\ generation' = [epoch |-> "current", next |-> g.next + 1, prev |-> c]
      /\ generationDb' = generation'
  BY DEF GenerateBlock
<1>3. /\ g \in GenState /\ g.epoch = "current"
      /\ \A y \in ownBlocks : y.block.index < g.next
      /\ IF g.next = 0 THEN g.prev = ZeroHash
         ELSE \E y \in ownBlocks : /\ y.block.index = g.next - 1
                                   /\ y.block.hash = g.prev
  <2>1. CASE generation.epoch = "current"
    BY <1>1, <2>1 DEF RotatedGeneration, Generations, LeaderTypeOK
  <2>2. CASE generation.epoch # "current"
    <3>1. g = [epoch |-> "current", next |-> 0, prev |-> ZeroHash]
      BY <2>2 DEF RotatedGeneration
    <3>2. g \in GenState
      BY <3>1, BoundsAssumption DEF GenState, Epoch, PrevHash
    <3>3. ownBlocks = {}
      BY <1>1, <2>2 DEF Generations
    <3> QED
      BY <3>1, <3>2, <3>3
  <2> QED
    BY <2>1, <2>2
<1> HIDE DEF g
<1>4. g.next \in Index /\ g.prev \in PrevHash /\ g.next \in Nat
  BY <1>2, <1>3, BoundsAssumption DEF GenState, Index
<1>5. x \in Vote /\ x.block.leader = Me /\ x.block.index = g.next
      /\ x.block.hash = c /\ x.prev = g.prev
  BY <1>4, LeaderAssumption DEF Vote, Block
<1> HIDE DEF x
<1>6. ownBlocks' = ownBlocks \cup {x}
  <2>1. \A y \in ownBlocks : ~SameId(y.block, x.block)
    BY <1>1, <1>3, <1>4, <1>5, LeaderTypes DEF SameId
  <2> QED
    BY <1>2, <2>1
<1>7. /\ generation' \in GenState /\ generation'.epoch = "current"
      /\ generation'.next = g.next + 1 /\ generation'.prev = c
  <2>1. g.next + 1 \in 0 .. MaxIndex + 1 /\ c \in PrevHash
    BY <1>4, BoundsAssumption DEF Index, PrevHash
  <2> QED
    BY <1>2, <2>1 DEF GenState, Epoch
<1>8. /\ IndInv' /\ TypeOK' /\ SeenByQuorum' /\ Afps' = Afps
      /\ \A y : FpSigners(y)' = FpSigners(y)
  BY <1>2, <1>6, LeaderSide
<1>9. LeaderTypeOK'
  <2>1. ownBlocks' \subseteq Vote
    BY <1>1, <1>5, <1>6 DEF LeaderTypeOK
  <2>2. generationDb' \in GenState
    BY <1>2, <1>7
  <2> QED
    BY <1>1, <1>2, <1>7, <1>8, <2>1, <2>2 DEF LeaderTypeOK
<1>10. OwnChain'
  <2>1. \A y \in ownBlocks' : y.block.leader = Me
    BY <1>1, <1>5, <1>6 DEF OwnChain
  <2>2. \A y, z \in ownBlocks' : y.block.index = z.block.index => y = z
    BY <1>1, <1>3, <1>4, <1>5, <1>6, LeaderTypes DEF OwnChain
  <2>3. ASSUME NEW y \in ownBlocks'
        PROVE  IF y.block.index = 0 THEN y.prev = ZeroHash
               ELSE \E z \in ownBlocks' : /\ z.block.index = y.block.index - 1
                                          /\ z.block.hash = y.prev
    <3>1. CASE y \in ownBlocks
      BY <1>1, <1>6, <3>1 DEF OwnChain
    <3>2. CASE y = x
      BY <1>3, <1>5, <1>6, <3>2
    <3> QED
      BY <1>6, <3>1, <3>2
  <2> QED
    BY <2>1, <2>2, <2>3 DEF OwnChain
<1>11. Generations'
  <2>1. \A y \in ownBlocks' : y.block.index < generation'.next
    BY <1>1, <1>3, <1>4, <1>5, <1>6, <1>7, LeaderTypes
  <2>2. /\ x \in ownBlocks' /\ x.block.index = generation'.next - 1
        /\ x.block.hash = generation'.prev /\ generation'.next # 0
    BY <1>4, <1>5, <1>6, <1>7
  <2> QED
    BY <1>2, <1>7, <2>1, <2>2 DEF Generations
<1>12. OwnRecords' /\ Grabbers' /\ SentProposals'
  BY <1>1, <1>2, <1>6, <1>8
     DEF OwnRecords, Grabbers, GrabberOk, SentProposals, ProposalOk
<1>13. Hunting'
  BY <1>1, <1>2, <1>8 DEF Hunting, HuntedVote
<1> QED
  BY <1>8, <1>9, <1>10, <1>11, <1>12, <1>13 DEF LeaderInv

\* The new epoch is noted, or forgotten again with the rest of the memory.
LEMMA MemoryStep ==
    ASSUME LeaderInv, RotateGeneration \/ LeaderRestart \/ StopLeading
    PROVE  LeaderInv'
<1>1. /\ LeaderTypeOK /\ OwnChain /\ Generations /\ OwnRecords /\ Grabbers
      /\ SentProposals /\ Hunting
  BY DEF LeaderInv
<1>2. UNCHANGED <<vars, grabberDb, generationDb, ownBlocks, ownAfps, sent>>
  BY DEF RotateGeneration, LeaderRestart, StopLeading
<1>3. /\ IndInv' /\ TypeOK' /\ SeenByQuorum' /\ Afps' = Afps
      /\ \A y : FpSigners(y)' = FpSigners(y)
  BY <1>2, LeaderSide
<1>4. OwnChain' /\ OwnRecords' /\ SentProposals'
  BY <1>1, <1>2, <1>3 DEF OwnChain, OwnRecords, SentProposals, ProposalOk
<1>5. CASE RotateGeneration \/ StopLeading
  <2> grabber' = grabber /\ hunt' = hunt
    BY <1>5 DEF RotateGeneration, StopLeading
  <2>1. Grabbers' /\ Hunting'
    BY <1>1, <1>2, <1>3, <1>5 DEF Grabbers, GrabberOk, Hunting, HuntedVote
  <2>2. /\ generation' \in GenState /\ Generations'
        /\ leading' \in BOOLEAN /\ failures' = failures
    <3>1. CASE RotateGeneration
      <4>1. generation' = [epoch |-> "current", next |-> 0, prev |-> ZeroHash]
        BY <3>1 DEF RotateGeneration, RotatedGeneration
      <4>2. generation' \in GenState
        BY <4>1, BoundsAssumption DEF GenState, Epoch, PrevHash
      <4>3. Generations'
        BY <1>1, <1>2, <3>1, <4>1 DEF Generations, RotateGeneration
      <4> QED
        BY <1>1, <3>1, <4>2, <4>3 DEF RotateGeneration, LeaderTypeOK
    <3>2. CASE StopLeading
      BY <1>1, <3>2 DEF StopLeading, Generations, LeaderTypeOK
    <3> QED
      BY <1>5, <3>1, <3>2
  <2>3. LeaderTypeOK'
    BY <1>1, <1>2, <1>3, <1>5, <2>2 DEF LeaderTypeOK
  <2> QED
    BY <1>3, <1>4, <2>1, <2>2, <2>3 DEF LeaderInv
<1>6. CASE LeaderRestart
  <2>1. /\ grabber' = FreshGrabber /\ generation' = generationDb /\ hunt' = {}
        /\ leading' = leading /\ failures' \in 0 .. MaxFailures
    BY <1>1, <1>6, LeaderAssumption DEF LeaderRestart, LeaderTypeOK
  <2>2. FreshGrabber \in Grabber /\ FreshGrabber.epoch = "earlier"
    BY BoundsAssumption DEF FreshGrabber, Grabber, Epoch, Index, PrevHash, PrevAfp, NoAfp
  <2>3. Grabbers' /\ Hunting'
    BY <1>1, <1>2, <2>1, <2>2 DEF Grabbers, GrabberOk, Hunting
  <2>4. Generations'
    BY <1>1, <1>2, <2>1 DEF Generations
  <2>5. LeaderTypeOK'
    <3>1. hunt' \subseteq Hunt /\ Cardinality(hunt') <= 1
      BY <2>1, AtMostOne
    <3> QED
      BY <1>1, <1>2, <1>3, <2>1, <2>2, <3>1 DEF LeaderTypeOK
  <2> QED
    BY <1>3, <1>4, <2>3, <2>4, <2>5 DEF LeaderInv
<1> QED
  BY <1>5, <1>6

\* The grabber starts from the database; before it has, there is no proposal.
LEMMA InitGrabberStep == ASSUME LeaderInv, InitGrabber PROVE LeaderInv'
<1>1. /\ LeaderTypeOK /\ OwnChain /\ Generations /\ OwnRecords /\ Grabbers
      /\ SentProposals /\ Hunting
  BY DEF LeaderInv
<1>2. /\ UNCHANGED <<vars, leading, generation, generationDb, ownBlocks, ownAfps,
                     hunt, sent, failures>>
      /\ grabber.epoch # "current"
      /\ grabberDb' = {grabber'}
  BY DEF InitGrabber
<1>3. hunt = {}
  BY <1>1, <1>2 DEF Hunting
<1>4. /\ IndInv' /\ TypeOK' /\ SeenByQuorum' /\ Afps' = Afps
  BY <1>2, LeaderSide
<1>5. /\ grabber' \in Grabber /\ grabber'.epoch = "current" /\ GrabberOk(grabber')
      /\ grabberDb # {} => grabber' \in grabberDb
  <2>1. CASE grabberDb = {}
    <3> DEFINE g == [epoch |-> "current", accepted |-> -1,
                     hash |-> ZeroHash, afp |-> NoAfp]
    <3>1. grabber' = g
      BY <2>1 DEF InitGrabber
    <3>2. g \in Grabber
      BY DEF Grabber, Epoch, PrevHash, PrevAfp, NoAfp
    <3>3. GrabberOk(g)
      BY DEF GrabberOk
    <3> QED
      BY <2>1, <3>1, <3>2, <3>3
  <2>2. CASE grabberDb # {}
    <3>1. grabber' \in grabberDb
      BY <2>2 DEF InitGrabber
    <3> QED
      BY <1>1, <3>1 DEF Grabbers, LeaderTypeOK
  <2> QED
    BY <2>1, <2>2
<1>6. Grabbers'
  <2>1. GrabberOk(grabber)'
    BY <1>2, <1>5 DEF GrabberOk
  <2>2. grabber'.accepted \in {grabber'.accepted, grabber'.accepted + 1}
    OBVIOUS
  <2> QED
    BY <1>2, <1>5, <2>1, <2>2 DEF Grabbers, GrabberOk
<1>7. SentProposals'
  <2>1. \A p \in sent : grabber' \in grabberDb
    BY <1>1, <1>5 DEF SentProposals
  <2> QED
    BY <1>1, <1>2, <2>1 DEF SentProposals, ProposalOk
<1>8. OwnChain' /\ Generations' /\ OwnRecords' /\ Hunting'
  BY <1>1, <1>2, <1>3, <1>4 DEF OwnChain, Generations, OwnRecords, Hunting
<1>9. LeaderTypeOK'
  <2>1. grabberDb' \subseteq Grabber /\ Cardinality(grabberDb') <= 1
    BY <1>2, <1>5, AtMostOne
  <2> QED
    BY <1>1, <1>2, <1>4, <1>5, <2>1 DEF LeaderTypeOK
<1> QED
  BY <1>4, <1>6, <1>7, <1>8, <1>9 DEF LeaderInv

\* The block on which the grabber stands is the one the next block links to.
LEMMA NextProposalOk ==
    ASSUME LeaderTypeOK, OwnChain, OwnRecords, GrabberOk(grabber),
           NEW x \in ownBlocks, x.block.index = grabber.accepted + 1
    PROVE  /\ x.prev = grabber.hash
           /\ ProposalOk([block |-> x.block, prev |-> grabber.hash,
                          afp |-> grabber.afp])
<1> DEFINE p == [block |-> x.block, prev |-> grabber.hash, afp |-> grabber.afp]
<1>1. /\ x \in Vote /\ x.block \in Block /\ x.block.index \in Nat
      /\ x.block.leader = Me /\ grabber.accepted \in Int
      /\ x = [block |-> x.block, prev |-> x.prev]
  BY LeaderTypes DEF OwnChain, Vote
<1>2. CASE grabber.accepted = -1 /\ grabber.hash = ZeroHash /\ grabber.afp = NoAfp
  <2>1. x.block.index = 0 /\ x.prev = ZeroHash
    BY <1>1, <1>2 DEF OwnChain
  <2> QED
    BY <1>1, <1>2, <2>1 DEF ProposalOk
<1>3. ASSUME NEW y \in ownAfps, y.block.index = grabber.accepted,
             y.block.hash = grabber.hash,
             grabber.afp = [hash |-> y.block.hash, prev |-> y.prev]
      PROVE  x.prev = grabber.hash /\ ProposalOk(p)
  <2>1. /\ y \in ownBlocks /\ y \in Vote /\ y.block \in Block
        /\ y.block.index \in Nat /\ y.block.leader = Me
    BY <1>3, LeaderTypes DEF OwnRecords, OwnChain
  <2>2. x.block.index # 0
    BY <1>1, <1>3, <2>1
  <2>3. PICK z \in ownBlocks : /\ z.block.index = x.block.index - 1
                               /\ z.block.hash = x.prev
    BY <2>2 DEF OwnChain
  <2>4. z.block.index = y.block.index
    BY <1>1, <1>3, <2>3
  <2>5. z = y
    BY <2>1, <2>3, <2>4 DEF OwnChain
  <2>6. x.prev = grabber.hash
    BY <1>3, <2>3, <2>5
  <2>7. y.block = [leader |-> x.block.leader, index |-> x.block.index - 1,
                   hash |-> grabber.afp.hash]
    BY <1>1, <1>3, <2>1 DEF Block
  <2>8. y = PreviousVote(x.block, grabber.afp)
    BY <1>3, <2>1, <2>7 DEF PreviousVote, Vote
  <2>9. p.block = x.block /\ p.prev = grabber.hash /\ p.afp = grabber.afp
    OBVIOUS
  <2>10. p.afp.hash = p.prev
    BY <1>3, <2>9
  <2> HIDE DEF p
  <2> QED
    BY <1>1, <2>2, <2>6, <2>8, <2>9, <2>10 DEF ProposalOk
<1> QED
  BY <1>2, <1>3 DEF GrabberOk

\* The block after the accepted one is proposed with the accepted block's AFP.
LEMMA StartHuntStep == ASSUME LeaderInv, StartHunt PROVE LeaderInv'
<1>1. /\ LeaderTypeOK /\ OwnChain /\ Generations /\ OwnRecords /\ Grabbers
      /\ SentProposals
  BY DEF LeaderInv
<1>2. /\ UNCHANGED <<vars, leading, grabber, grabberDb, generation, generationDb,
                     ownBlocks, ownAfps, failures>>
      /\ grabber.epoch = "current"
  BY DEF StartHunt
<1>3. PICK x \in ownBlocks :
          LET p == [block |-> x.block, prev |-> grabber.hash, afp |-> grabber.afp]
          IN  /\ x.block.index = grabber.accepted + 1
              /\ hunt' = {[proposal |-> p, asked |-> {}, answers |-> {}]}
              /\ sent' = sent \cup {p}
  BY DEF StartHunt
<1> DEFINE p == [block |-> x.block, prev |-> grabber.hash, afp |-> grabber.afp]
           k == [proposal |-> p, asked |-> {}, answers |-> {}]
<1>4. /\ p \in Proposal /\ k \in Hunt
      /\ p.block = x.block /\ p.prev = grabber.hash /\ p.afp = grabber.afp
      /\ k.proposal = p /\ k.answers = {}
  <2>1. x.block \in Block /\ grabber.hash \in PrevHash /\ grabber.afp \in PrevAfp
    BY <1>1, LeaderTypes DEF Grabber
  <2> QED
    BY <2>1 DEF Proposal, Hunt
<1>5. ProposalOk(p)
  BY <1>1, <1>2, <1>3, NextProposalOk DEF Grabbers
<1>6. x.block.index = grabber.accepted + 1 /\ hunt' = {k} /\ sent' = sent \cup {p}
  BY <1>3
<1> HIDE DEF p, k
<1>7. /\ IndInv' /\ TypeOK' /\ SeenByQuorum' /\ Afps' = Afps
      /\ \A y : FpSigners(y)' = FpSigners(y)
  BY <1>2, <1>6, LeaderSide
<1>8. OwnChain' /\ Generations' /\ OwnRecords' /\ Grabbers'
  BY <1>1, <1>2, <1>7 DEF OwnChain, Generations, OwnRecords, Grabbers, GrabberOk
<1>9. SentProposals'
  <2>1. grabberDb # {} /\ \A g \in grabberDb : p.block.index <= g.accepted + 2
    BY <1>1, <1>2, <1>4, <1>6, LeaderTypes DEF Grabbers
  <2>2. \A q \in sent' : ProposalOk(q) /\ \A g \in grabberDb : q.block.index <= g.accepted + 2
    BY <1>1, <1>5, <1>6, <2>1 DEF SentProposals
  <2> QED
    BY <1>2, <2>1, <2>2 DEF SentProposals, ProposalOk
<1>10. Hunting'
  BY <1>2, <1>4, <1>6 DEF Hunting
<1>11. LeaderTypeOK'
  <2>1. hunt' \subseteq Hunt /\ Cardinality(hunt') <= 1
    BY <1>4, <1>6, AtMostOne
  <2>2. sent' \subseteq Proposal
    BY <1>1, <1>4, <1>6 DEF LeaderTypeOK
  <2> QED
    BY <1>1, <1>2, <1>7, <2>1, <2>2 DEF LeaderTypeOK
<1> QED
  BY <1>7, <1>8, <1>9, <1>10, <1>11 DEF LeaderInv

\* What a majority has signed is the block the round asks for.
LEMMA StoreAfpStep ==
    ASSUME LeaderInv, NEW h \in hunt, StoreAfp(h) PROVE LeaderInv'
<1>1. /\ LeaderTypeOK /\ OwnChain /\ Generations /\ OwnRecords /\ Grabbers
      /\ SentProposals /\ Hunting
  BY DEF LeaderInv
<1>2. /\ UNCHANGED <<vars, leading, grabber, grabberDb, generation, generationDb,
                     ownBlocks, hunt, sent, failures>>
      /\ ownAfps' = ownAfps \cup {HuntedVote(h)}
      /\ IsMajority(h.answers)
  BY DEF StoreAfp, HaveMajority
<1>3. HuntedVote(h) \in ownBlocks
  BY <1>1 DEF Hunting, SentProposals, ProposalOk, HuntedVote
<1>4. HuntedVote(h) \in Afps
  <2>1. h.answers \subseteq FpSigners(HuntedVote(h)) /\ FpSigners(HuntedVote(h)) \subseteq Honest
    BY <1>1 DEF Hunting, FpSigners
  <2>2. IsMajority(FpSigners(HuntedVote(h)))
    BY <1>2, <2>1, MajorityGrows
  <2> QED
    BY <1>1, <1>3, <2>2, LeaderTypes DEF Afps, VerifyAggregatedFinalizationProof
<1>5. /\ IndInv' /\ TypeOK' /\ SeenByQuorum' /\ Afps' = Afps
      /\ \A y : FpSigners(y)' = FpSigners(y)
  BY <1>2, LeaderSide
<1>6. OwnChain' /\ Generations' /\ Hunting'
  BY <1>1, <1>2, <1>5 DEF OwnChain, Generations, Hunting, HuntedVote
<1>7. OwnRecords'
  BY <1>1, <1>2, <1>3, <1>4, <1>5 DEF OwnRecords
<1>8. Grabbers' /\ SentProposals'
  BY <1>1, <1>2 DEF Grabbers, GrabberOk, SentProposals, ProposalOk
<1>9. LeaderTypeOK'
  <2>1. ownAfps' \subseteq Vote
    BY <1>2, <1>3, <1>1 DEF LeaderTypeOK
  <2> QED
    BY <1>1, <1>2, <1>5, <2>1 DEF LeaderTypeOK
<1> QED
  BY <1>5, <1>6, <1>7, <1>8, <1>9 DEF LeaderInv

\* The grabber is written on the block it stands on, and moves to the next one,
\* whose AFP record is there.
LEMMA StoreProgressStep ==
    ASSUME LeaderInv, NEW h \in hunt, StoreProgress(h) PROVE LeaderInv'
<1>1. /\ LeaderTypeOK /\ OwnChain /\ Generations /\ OwnRecords /\ Grabbers
      /\ SentProposals /\ Hunting
  BY DEF LeaderInv
<1>2. /\ UNCHANGED <<vars, leading, generation, generationDb, ownBlocks, ownAfps,
                     sent, failures>>
      /\ HuntedVote(h) \in ownAfps
      /\ grabberDb' = {grabber} /\ grabber' = NextGrabber(h) /\ hunt' = {}
  BY DEF StoreProgress
<1>3. /\ IndInv' /\ TypeOK' /\ SeenByQuorum' /\ Afps' = Afps
  BY <1>2, LeaderSide
<1>4. /\ grabber.epoch = "current"
      /\ h.proposal.block.index = grabber.accepted + 1
      /\ GrabberOk(grabber)
      /\ \A g \in grabberDb : grabber.accepted \in {g.accepted, g.accepted + 1}
  BY <1>1 DEF Hunting, Grabbers
<1>5. /\ grabber'.epoch = "current"
      /\ grabber'.accepted = grabber.accepted + 1
      /\ grabber'.hash = h.proposal.block.hash
      /\ grabber'.afp = [hash |-> h.proposal.block.hash, prev |-> h.proposal.prev]
  BY <1>2 DEF NextGrabber
<1>6. HuntedVote(h).block = h.proposal.block /\ HuntedVote(h).prev = h.proposal.prev
  BY DEF HuntedVote
<1>7. grabber' \in Grabber
  <2>1. /\ h.proposal.block \in Block /\ h.proposal.prev \in PrevHash
    BY <1>1, LeaderTypes DEF Hunting
  <2>2. h.proposal.block.index \in Index /\ h.proposal.block.hash \in PrevHash
    BY <2>1, BlockType DEF PrevHash
  <2> QED
    BY <1>2, <1>4, <2>1, <2>2 DEF NextGrabber, Grabber, Epoch, PrevAfp
<1>8. Grabbers'
  <2>1. GrabberOk(grabber)'
    BY <1>2, <1>4, <1>5, <1>6 DEF GrabberOk
  <2>2. GrabberOk(grabber) /\ ownAfps' = ownAfps
    BY <1>2, <1>4
  <2> QED
    BY <1>2, <1>4, <1>5, <2>1, <2>2 DEF Grabbers, GrabberOk
<1>9. SentProposals'
  <2>1. ASSUME NEW p \in sent
        PROVE  ProposalOk(p) /\ p.block.index <= grabber.accepted + 2
    <3>1. PICK g \in grabberDb : p.block.index <= g.accepted + 2
      BY <1>1 DEF SentProposals
    <3> QED
      BY <1>1, <1>4, <3>1, LeaderTypes DEF SentProposals
  <2> QED
    BY <1>2, <2>1 DEF SentProposals, ProposalOk
<1>10. OwnChain' /\ Generations' /\ OwnRecords' /\ Hunting'
  BY <1>1, <1>2, <1>3 DEF OwnChain, Generations, OwnRecords, Hunting
<1>11. LeaderTypeOK'
  <2>1. grabberDb' \subseteq Grabber /\ Cardinality(grabberDb') <= 1
    BY <1>1, <1>2, AtMostOne DEF LeaderTypeOK
  <2>2. hunt' \subseteq Hunt /\ Cardinality(hunt') <= 1
    BY <1>2, AtMostOne
  <2> QED
    BY <1>1, <1>2, <1>3, <1>7, <2>1, <2>2 DEF LeaderTypeOK
<1> QED
  BY <1>3, <1>8, <1>9, <1>10, <1>11 DEF LeaderInv

LEMMA HuntTimeoutStep ==
    ASSUME LeaderInv, NEW h \in hunt, HuntTimeout(h) PROVE LeaderInv'
<1>1. /\ LeaderTypeOK /\ OwnChain /\ Generations /\ OwnRecords /\ Grabbers
      /\ SentProposals
  BY DEF LeaderInv
<1>2. /\ UNCHANGED <<vars, leading, grabber, grabberDb, generation, generationDb,
                     ownBlocks, ownAfps, sent>>
      /\ hunt' = {}
  BY DEF HuntTimeout
<1>3. failures' \in 0 .. MaxFailures
  BY <1>1, LeaderAssumption DEF HuntTimeout, LeaderTypeOK
<1>4. /\ IndInv' /\ TypeOK' /\ SeenByQuorum' /\ Afps' = Afps
  BY <1>2, LeaderSide
<1>5. OwnChain' /\ Generations' /\ OwnRecords' /\ Grabbers' /\ SentProposals'
  BY <1>1, <1>2, <1>4
     DEF OwnChain, Generations, OwnRecords, Grabbers, GrabberOk, SentProposals,
         ProposalOk
<1>6. hunt' \subseteq Hunt /\ Cardinality(hunt') <= 1 /\ Hunting'
  BY <1>2, AtMostOne DEF Hunting
<1>7. LeaderTypeOK'
  BY <1>1, <1>2, <1>3, <1>4, <1>6 DEF LeaderTypeOK
<1> QED
  BY <1>4, <1>5, <1>6, <1>7 DEF LeaderInv

\* A refused request only leaves its trace in the round.
LEMMA RefusedStep ==
    ASSUME LeaderInv, NEW h \in hunt, NEW v \in Honest,
           UNCHANGED <<vars, leading, grabber, grabberDb, generation,
                       generationDb, ownBlocks, ownAfps, sent, failures>>,
           hunt' = {[h EXCEPT !.asked = @ \cup {v}]}
    PROVE  LeaderInv'
<1>1. /\ LeaderTypeOK /\ OwnChain /\ Generations /\ OwnRecords /\ Grabbers
      /\ SentProposals /\ Hunting
  BY DEF LeaderInv
<1>2. /\ IndInv' /\ TypeOK' /\ SeenByQuorum' /\ Afps' = Afps
      /\ \A y : FpSigners(y)' = FpSigners(y)
  BY LeaderSide
<1>3. OwnChain' /\ Generations' /\ OwnRecords' /\ Grabbers' /\ SentProposals'
  BY <1>1, <1>2
     DEF OwnChain, Generations, OwnRecords, Grabbers, GrabberOk, SentProposals,
         ProposalOk
<1> DEFINE k == [h EXCEPT !.asked = @ \cup {v}]
<1>4. k \in Hunt /\ k.proposal = h.proposal /\ k.answers = h.answers
  <2>1. h \in Hunt
    BY <1>1 DEF LeaderTypeOK
  <2> QED
    BY <2>1 DEF Hunt
<1>5. hunt' = {k}
  OBVIOUS
<1> HIDE DEF k
<1>6. Hunting'
  BY <1>1, <1>2, <1>4, <1>5 DEF Hunting, HuntedVote
<1>7. LeaderTypeOK'
  <2>1. hunt' \subseteq Hunt /\ Cardinality(hunt') <= 1
    BY <1>4, <1>5, AtMostOne
  <2> QED
    BY <1>1, <1>2, <2>1 DEF LeaderTypeOK
<1> QED
  BY <1>2, <1>3, <1>6, <1>7 DEF LeaderInv

LEMMA LeaderInvInit == LeaderInit => LeaderInv
<1> SUFFICES ASSUME LeaderInit PROVE LeaderInv
  OBVIOUS
<1>1. /\ IndInv /\ TypeOK /\ fps = {} /\ inflight = {}
      /\ \A v \in Honest : finalizationVote[v] = {}
      /\ \A v \in Honest : votingStat[v][Me] = NewLeaderVotingStatTemplate
  BY IndInvInit, LeaderAssumption DEF LeaderInit, Init, IndInv
<1>2. /\ leading = TRUE /\ grabberDb = {} /\ generationDb = generation
      /\ ownBlocks = {} /\ ownAfps = {} /\ hunt = {} /\ sent = {} /\ failures = 0
  BY DEF LeaderInit
<1>3. grabber \in Grabber /\ grabber.epoch = "earlier"
  <2>1. PICK i \in LeftoverIndex : grabber = [FreshGrabber EXCEPT !.accepted = i]
    BY DEF LeaderInit, LeftoverGrabber
  <2>2. grabber = [epoch |-> "earlier", accepted |-> i, hash |-> ZeroHash, afp |-> NoAfp]
    BY <2>1 DEF FreshGrabber
  <2> QED
    BY <2>2, BoundsAssumption
       DEF LeftoverIndex, Grabber, Epoch, Index, PrevHash, PrevAfp, NoAfp
<1>4. generation \in GenState /\ generation.epoch = "earlier"
  <2>1. \/ generation = [epoch |-> "earlier", next |-> 0, prev |-> ZeroHash]
        \/ generation \in [epoch : {"earlier"}, next : {1, MaxIndex + 1}, prev : Hash]
    BY DEF LeaderInit, LeftoverGeneration
  <2> QED
    BY <2>1, BoundsAssumption DEF GenState, Epoch, PrevHash
<1>5. LeaderTypeOK
  <2>1. Cardinality(grabberDb) <= 1 /\ Cardinality(hunt) <= 1
    BY <1>2, AtMostOne
  <2> QED
    BY <1>1, <1>2, <1>3, <1>4, <2>1, LeaderAssumption DEF LeaderTypeOK
<1>6. OwnChain /\ Generations /\ OwnRecords /\ Grabbers /\ SentProposals /\ Hunting
  BY <1>2, <1>3, <1>4 DEF OwnChain, Generations, OwnRecords, Grabbers, SentProposals, Hunting
<1>7. SeenByQuorum
  BY <1>1 DEF SeenByQuorum
<1> QED
  BY <1>1, <1>5, <1>6, <1>7 DEF LeaderInv

LEMMA LeaderInvNext == LeaderInv /\ [LeaderNext]_allVars => LeaderInv'
<1> SUFFICES ASSUME LeaderInv, [LeaderNext]_allVars PROVE LeaderInv'
  OBVIOUS
<1>1. LeaderTypeOK /\ SentProposals /\ Hunting
  BY DEF LeaderInv
<1>2. ASSUME NEW c \in Hash, GenerateBlock(c) PROVE LeaderInv'
  BY <1>2, GenerateBlockStep
<1>3. CASE RotateGeneration \/ LeaderRestart \/ StopLeading
  BY <1>3, MemoryStep
<1>4. CASE InitGrabber
  BY <1>4, InitGrabberStep
<1>5. CASE StartHunt
  BY <1>5, StartHuntStep
<1>6. ASSUME NEW h \in hunt, StoreAfp(h) \/ StoreProgress(h) \/ HuntTimeout(h)
      PROVE  LeaderInv'
  BY <1>6, StoreAfpStep, StoreProgressStep, HuntTimeoutStep
<1>7. ASSUME NEW h \in hunt, NEW v \in Honest, Receive(h, v) PROVE LeaderInv'
  <2>1. /\ hunt' = {[h EXCEPT !.asked = @ \cup {v}]}
        /\ UNCHANGED <<leading, grabber, grabberDb, generation, generationDb,
                       ownBlocks, ownAfps, sent, failures>>
    BY <1>7 DEF Receive
  <2>2. CASE UNCHANGED vars
    BY <2>1, <2>2, RefusedStep
  <2>3. CASE RecordVote(v, h.proposal.block, h.proposal.afp)
    <3>1. h.proposal \in sent /\ failures' \in 0 .. MaxFailures
      BY <1>1, <2>1 DEF Hunting, LeaderTypeOK
    <3> QED
      BY <2>1, <2>3, <3>1, ReceiveStep
  <2> QED
    BY <1>7, <2>2, <2>3 DEF Receive
<1>8. ASSUME NEW p \in sent, NEW v \in Honest, ReceiveLate(v, p) PROVE LeaderInv'
  <2>1. failures' \in 0 .. MaxFailures
    BY <1>1, <1>8, LeaderAssumption DEF ReceiveLate, LeaderTypeOK
  <2> QED
    BY <1>8, <2>1, ReceiveStep DEF ReceiveLate
<1>9. ASSUME NEW r \in inflight, Answer(r) \/ WorkOnCall(r) PROVE LeaderInv'
  BY <1>9, AnswerStep, WorkOnCallStep
<1>10. ASSUME NEW v \in Honest, ValidatorCrash(v) \/ ValidatorMovesOn(v)
       PROVE  LeaderInv'
  BY <1>10, ValidatorStep
<1>11. CASE UNCHANGED allVars
  <2>1. /\ UNCHANGED <<vars, leading, grabber, grabberDb, generation, generationDb,
                       ownBlocks, ownAfps, hunt, sent, failures>>
    BY <1>11 DEF allVars, leaderVars
  <2>2. /\ IndInv' /\ TypeOK' /\ SeenByQuorum' /\ Afps' = Afps
        /\ \A y : FpSigners(y)' = FpSigners(y)
    BY <2>1, LeaderSide
  <2>3. /\ OwnChain' /\ Generations' /\ OwnRecords' /\ Grabbers' /\ SentProposals'
        /\ Hunting'
    BY <2>1, <2>2
       DEF LeaderInv, OwnChain, Generations, OwnRecords, Grabbers, GrabberOk,
           SentProposals, ProposalOk, Hunting, HuntedVote
  <2>4. LeaderTypeOK'
    BY <1>1, <2>1, <2>2 DEF LeaderTypeOK
  <2> QED
    BY <2>2, <2>3, <2>4 DEF LeaderInv
<1> QED
  BY <1>2, <1>3, <1>4, <1>5, <1>6, <1>7, <1>8, <1>9, <1>10, <1>11 DEF LeaderNext

LEMMA LeaderInvariance == LeaderSpec => []LeaderInv
  BY LeaderInvInit, LeaderInvNext, PTL DEF LeaderSpec

\* Every variable of the leader and of its quorum keeps its type.
THEOREM LeaderTypeCorrect == LeaderSpec => []LeaderTypeOK
<1>1. LeaderInv => LeaderTypeOK
  BY DEF LeaderInv
<1> QED
  BY <1>1, LeaderInvariance, PTL

\* The leader never locks itself out: restarts, rounds given up and requests
\* that arrive late leave every honest validator ready to vote for the block it
\* hunts for, and the AFP it sends along is accepted.
THEOREM NeverLockedOut == LeaderSpec => []HuntedBlockIsAcceptable
  BY HuntedIsAcceptable, LeaderInvariance, PTL

\* The hash of the previous block that the quorum signs is the one in the block
\* the leader has in its database.
THEOREM SignedLinks == LeaderSpec => []AfpLinksLikeTheBlock
  BY AfpsAreOwn, LeaderInvariance, PTL

\* The AFP records of the leader are what the quorum signed, and the grabber
\* stands on a block with one, restarts included.
THEOREM GrabberHasAfps == LeaderSpec => []AcceptedBlocksHaveAfps
  BY AcceptedHaveAfps, LeaderInvariance, PTL

\* The composition adds nothing to the quorum: the leader's threads, its
\* restarts and the requests that arrive late only ever make the validators do
\* what FinalizationVoting describes, so what is proved of it holds here too.
THEOREM LeaderUsesQuorum == LeaderSpec => Spec
<1>1. LeaderInit => Init
  BY DEF LeaderInit
<1>2. ASSUME LeaderInv, [LeaderNext]_allVars PROVE [Next]_vars
  <2>1. LeaderTypeOK /\ OwnChain /\ OwnRecords /\ SentProposals /\ Hunting
    BY <1>2 DEF LeaderInv
  <2>2. ASSUME NEW p \in sent, NEW v \in Honest, RecordVote(v, p.block, p.afp)
        PROVE  Next
    <3>1. p.block \in Block /\ p.afp \in ProposedAfp(p.block)
      BY <2>1, LeaderTypes, ProposalsAreProved DEF SentProposals
    <3> QED
      BY <2>2, <3>1 DEF Next
  <2>3. ASSUME NEW h \in hunt, NEW v \in Honest, Receive(h, v) PROVE [Next]_vars
    BY <2>1, <2>2, <2>3 DEF Receive, Hunting
  <2>4. ASSUME NEW p \in sent, NEW v \in Honest, ReceiveLate(v, p) PROVE Next
    BY <2>2, <2>4 DEF ReceiveLate
  <2>5. ASSUME NEW r \in inflight, Answer(r) \/ WorkOnCall(r) PROVE Next
    BY <2>5 DEF Answer, WorkOnCall, Next, FinalizationProofStep
  <2>6. ASSUME NEW v \in Honest, ValidatorCrash(v) \/ ValidatorMovesOn(v)
        PROVE  Next
    BY <2>6 DEF ValidatorCrash, ValidatorMovesOn, Next
  <2>7. ASSUME \/ \E c \in Hash : GenerateBlock(c)
               \/ RotateGeneration \/ InitGrabber \/ StartHunt
               \/ \E h \in hunt : StoreAfp(h) \/ StoreProgress(h) \/ HuntTimeout(h)
               \/ LeaderRestart \/ StopLeading
        PROVE  UNCHANGED vars
    BY <2>7 DEF GenerateBlock, RotateGeneration, InitGrabber, StartHunt, StoreAfp,
                StoreProgress, HuntTimeout, LeaderRestart, StopLeading
  <2>8. CASE UNCHANGED allVars
    BY <2>8 DEF allVars
  <2> QED
    BY <1>2, <2>3, <2>4, <2>5, <2>6, <2>7, <2>8 DEF LeaderNext
<1> QED
  BY <1>1, <1>2, LeaderInvariance, PTL DEF LeaderSpec, Spec
=============================================================================
