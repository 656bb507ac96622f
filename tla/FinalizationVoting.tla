------------------------- MODULE FinalizationVoting -------------------------
(***************************************************************************)
(* How the quorum of one epoch finalizes blocks and seals leaders.         *)
(*                                                                         *)
(* A block of a leader is finalized by an aggregated finalization proof    *)
(* (AFP): signatures of a majority of the quorum, collected from the       *)
(* websocket handler GetFinalizationProof.  A leader is sealed by an       *)
(* aggregated leader finalization proof (ALFP): signatures of a majority   *)
(* that the leader's last block has a given index, collected from the      *)
(* handler GetLeaderFinalizationProof.  Both handlers run concurrently on  *)
(* a validator, with the leader rotation and the epoch rotation threads.   *)
(*                                                                         *)
(* Signatures are kept in sets that only grow: whoever collects them may   *)
(* see any subset in any order, any number of times, or never, which       *)
(* covers loss, duplication and reordering.  An aggregated proof exists    *)
(* as soon as enough signatures do.                                        *)
(***************************************************************************)
EXTENDS CoreQuorum

CONSTANTS
    NumLeaders,  \* length of LeadersSequence
    MaxIndex,    \* bound: blocks of a leader have the indexes 0 .. MaxIndex
    Hash,        \* hashes of blocks
    ZeroHash     \* constants.ZeroHash: the hash before the first block

ASSUME BoundsAssumption ==
    /\ NumLeaders \in Nat \ {0}
    /\ MaxIndex \in Nat
    /\ ZeroHash \notin Hash

Leader     == 0 .. NumLeaders - 1   \* positions in LeadersSequence
LastLeader == NumLeaders - 1
Index      == 0 .. MaxIndex
PrevHash   == Hash \cup {ZeroHash}

\* A block is told apart by its id (leader and index) and its hash.
Block == [leader : Leader, index : Index, hash : Hash]

\* What a finalization proof signs besides the epoch: the block, and the hash
\* of the block before it.
Vote == [block : Block, prev : PrevHash]

\* The aggregated finalization proof a proposal carries for the block before
\* it: the hash it finalizes and the previous hash it was signed with.
PrevAfp == [hash : PrevHash, prev : PrevHash]

\* VotingStat: the highest block the validator holds an AFP of, per leader.
VotingStat == [index : Index \cup {-1}, hash : PrevHash]
NewLeaderVotingStatTemplate == [index |-> -1, hash |-> ZeroHash]

\* Where GetFinalizationProof is, once it has recorded its vote: the steps are
\* separate writes to the databases, and the last one is the signature.
Phase == {"voted", "blockStored", "afpStored", "statStored"}

VARIABLES
    currentLeader,     \* AT: CurrentLeaderIndex of each honest validator
    epochFinish,       \* EPOCH_FINISH:N is in the validator's database
    rotated,           \* AT of the validator is at the next epoch
    votingStat,        \* VotingStat of every leader, in the database
    finalizationVote,  \* FINALIZATION_VOTE records: the blocks voted for
    blocks,            \* BLOCKS of the validator
    storedAfps,        \* AFP records of the validator's EPOCH_DATA
    inflight,          \* running calls of GetFinalizationProof
    fps,               \* finalization proofs signed by honest validators
    lfps               \* leader finalization proofs signed by them

\* Everything a validator and the network keep.
vars == <<currentLeader, epochFinish, rotated, votingStat, finalizationVote,
          blocks, storedAfps, inflight, fps, lfps>>

Request == [voter : Honest, block : Block, afp : PrevAfp, phase : Phase]

TypeOK ==
    /\ currentLeader \in [Honest -> Leader]
    /\ epochFinish \in [Honest -> BOOLEAN]
    /\ rotated \in [Honest -> BOOLEAN]
    /\ votingStat \in [Honest -> [Leader -> VotingStat]]
    /\ finalizationVote \in [Honest -> SUBSET Block]
    /\ blocks \in [Honest -> SUBSET Block]
    /\ storedAfps \in [Honest -> SUBSET Vote]
    /\ inflight \subseteq Request
    /\ fps \subseteq [voter : Honest, vote : Vote]
    /\ lfps \subseteq [voter : Honest, leader : Leader,
                       index : Index \cup {-1}, hash : PrevHash]

Init ==
    /\ currentLeader = [v \in Honest |-> 0]
    /\ epochFinish = [v \in Honest |-> FALSE]
    /\ rotated = [v \in Honest |-> FALSE]
    /\ votingStat = [v \in Honest |->
                        [l \in Leader |-> NewLeaderVotingStatTemplate]]
    /\ finalizationVote = [v \in Honest |-> {}]
    /\ blocks = [v \in Honest |-> {}]
    /\ storedAfps = [v \in Honest |-> {}]
    /\ inflight = {}
    /\ fps = {}
    /\ lfps = {}

-----------------------------------------------------------------------------
(* Certificates *)

\* Who can be found among the signers of an AFP of vote x, or of an ALFP of
\* leader l at index i and hash h.
FpSigners(x)        == {v \in Honest : [voter |-> v, vote |-> x] \in fps}
LfpSigners(l, i, h) == {v \in Honest :
    [voter |-> v, leader |-> l, index |-> i, hash |-> h] \in lfps}

VerifyAggregatedFinalizationProof(x) == IsMajority(FpSigners(x))

\* The AFP of the last block that an ALFP carries is left out: it only adds a
\* condition, so what holds of every majority holds of every valid ALFP.
VerifyAggregatedLeaderFinalizationProof(l, i, h) ==
    IsMajority(LfpSigners(l, i, h))

-----------------------------------------------------------------------------
(* GetFinalizationProof.  The whole call holds the read lock of AT and, from *)
(* the second EPOCH_FINISH check on, BLOCK_CREATOR_REQUEST_MUTEX.            *)

Handling(v) == {r \in inflight : r.voter = v}

SameId(b, c) == b.leader = c.leader /\ b.index = c.index

\* Mutation: a block at the recorded index is always refused.
StrictlyHigher(v, b) == votingStat[v][b.leader].index < b.index

\* The proposed block extends the chain segment the validator voted for.
ItsSameChainSegment(v, b) ==
    LET stat == votingStat[v][b.leader]
    IN  \/ stat.index < b.index
        \/ stat.index = b.index /\ stat.hash = b.hash

\* Mutation: the FINALIZATION_VOTE record is written and never compared.
AnyVote(v, b) == TRUE

\* The FINALIZATION_VOTE record of the block id, if there is one, is for this
\* hash.
NoConflictingVote(v, b) ==
    \A c \in finalizationVote[v] : SameId(b, c) => c.hash = b.hash

\* The call up to the FINALIZATION_VOTE record, which is written before the
\* AFP of the previous block is looked at.
RecordVote(v, b, afp) ==
    /\ ~rotated[v]
    /\ currentLeader[v] = b.leader
    /\ ~epochFinish[v]
    /\ Handling(v) = {}
    /\ ItsSameChainSegment(v, b)
    /\ NoConflictingVote(v, b)
    /\ finalizationVote' = [finalizationVote EXCEPT ![v] = @ \cup {b}]
    /\ inflight' = inflight \cup
          {[voter |-> v, block |-> b, afp |-> afp, phase |-> "voted"]}
    /\ UNCHANGED <<currentLeader, epochFinish, rotated, votingStat, blocks,
                   storedAfps, fps, lfps>>

\* The vote the previous block's AFP is for.
PreviousVote(b, afp) ==
    [block |-> [leader |-> b.leader, index |-> b.index - 1, hash |-> afp.hash],
     prev  |-> afp.prev]

PreviousAfpIsOk(b, afp) ==
    \/ b.index = 0
    \/ /\ afp.hash \in Hash
       /\ VerifyAggregatedFinalizationProof(PreviousVote(b, afp))

AtPhase(r, p) ==
    [voter |-> r.voter, block |-> r.block, afp |-> r.afp, phase |-> p]

Advance(r, p) == inflight' = (inflight \ {r}) \cup {AtPhase(r, p)}

\* No signature when the previous block is not proved final; the vote stays.
RejectPreviousAfp(r) ==
    /\ r.phase = "voted"
    /\ ~PreviousAfpIsOk(r.block, r.afp)
    /\ inflight' = inflight \ {r}
    /\ UNCHANGED <<currentLeader, epochFinish, rotated, votingStat,
                   finalizationVote, blocks, storedAfps, fps, lfps>>

\* Mutation: the result of writing the block is ignored, and the write failed.
SkipStoreBlock(r) ==
    /\ r.phase = "voted"
    /\ PreviousAfpIsOk(r.block, r.afp)
    /\ Advance(r, "blockStored")
    /\ UNCHANGED <<currentLeader, epochFinish, rotated, votingStat,
                   finalizationVote, blocks, storedAfps, fps, lfps>>

StoreBlock(r) ==
    /\ r.phase = "voted"
    /\ PreviousAfpIsOk(r.block, r.afp)
    /\ blocks' = [blocks EXCEPT ![r.voter] =
                     {b \in @ : ~SameId(b, r.block)} \cup {r.block}]
    /\ Advance(r, "blockStored")
    /\ UNCHANGED <<currentLeader, epochFinish, rotated, votingStat,
                   finalizationVote, storedAfps, fps, lfps>>

StorePreviousAfp(r) ==
    /\ r.phase = "blockStored"
    /\ storedAfps' =
          IF r.block.index = 0 THEN storedAfps
          ELSE LET x == PreviousVote(r.block, r.afp)
               IN  [storedAfps EXCEPT ![r.voter] =
                       {y \in @ : ~SameId(y.block, x.block)} \cup {x}]
    /\ Advance(r, "afpStored")
    /\ UNCHANGED <<currentLeader, epochFinish, rotated, votingStat,
                   finalizationVote, blocks, fps, lfps>>

\* Mutation: the second block is treated like the first.
LateVotingData(stat, b, afp) ==
    IF stat.index = b.index THEN stat
    ELSE IF b.index <= 1 THEN NewLeaderVotingStatTemplate
    ELSE [index |-> b.index - 1, hash |-> afp.hash]

\* futureVotingDataToStore: a repeated vote keeps the record, the first block
\* has the template, any other moves it to the previous block.
FutureVotingData(stat, b, afp) ==
    IF stat.index = b.index THEN stat
    ELSE IF b.index = 0 THEN NewLeaderVotingStatTemplate
    ELSE [index |-> b.index - 1, hash |-> afp.hash]

StoreVotingStat(r) ==
    /\ r.phase = "afpStored"
    /\ votingStat' = [votingStat EXCEPT ![r.voter][r.block.leader] =
                         FutureVotingData(@, r.block, r.afp)]
    /\ Advance(r, "statStored")
    /\ UNCHANGED <<currentLeader, epochFinish, rotated, finalizationVote,
                   blocks, storedAfps, fps, lfps>>

SignedVote(b, afp) ==
    [block |-> b, prev |-> IF b.index = 0 THEN ZeroHash ELSE afp.hash]

SignFinalizationProof(r) ==
    /\ r.phase = "statStored"
    /\ fps' = fps \cup
          {[voter |-> r.voter, vote |-> SignedVote(r.block, r.afp)]}
    /\ inflight' = inflight \ {r}
    /\ UNCHANGED <<currentLeader, epochFinish, rotated, votingStat,
                   finalizationVote, blocks, storedAfps, lfps>>

\* A crash, or a failed write: the call ends with what it wrote so far.
Crash(v) ==
    /\ Handling(v) # {}
    /\ inflight' = inflight \ Handling(v)
    /\ UNCHANGED <<currentLeader, epochFinish, rotated, votingStat,
                   finalizationVote, blocks, storedAfps, fps, lfps>>

-----------------------------------------------------------------------------
(* GetLeaderFinalizationProof: takes no mutex, and the read lock of AT only  *)
(* while it copies the epoch handler.                                        *)

\* Mutation: the current leader may be sealed as well.
CurrentLeaderAllowed(v, l) == rotated[v] \/ currentLeader[v] >= l

LeaderFinalizationAllowed(v, l) ==
    \/ rotated[v]
    \/ currentLeader[v] > l
    \/ l = LastLeader /\ currentLeader[v] = LastLeader /\ epochFinish[v]

\* The proposed last block is proved final.  The leader the AFP is about is
\* not compared with l, and a proposal of no block may carry any hash.
ProposedSkipDataIsOk(i, h) ==
    \/ i = -1
    \/ \E b \in Block, p \in PrevHash :
          /\ b.index = i /\ b.hash = h
          /\ VerifyAggregatedFinalizationProof([block |-> b, prev |-> p])

\* The OK answer; a validator that knows a higher block answers UPGRADE.
SignLeaderFinalizationProof(v, l, i, h) ==
    /\ LeaderFinalizationAllowed(v, l)
    /\ votingStat[v][l].index <= i
    /\ ProposedSkipDataIsOk(i, h)
    /\ lfps' = lfps \cup
          {[voter |-> v, leader |-> l, index |-> i, hash |-> h]}
    /\ UNCHANGED <<currentLeader, epochFinish, rotated, votingStat,
                   finalizationVote, blocks, storedAfps, inflight, fps>>

-----------------------------------------------------------------------------
(* The rotation threads.  What depends on the clock may happen at any time.  *)

\* LeaderRotationThread: under the write lock of AT.
RotateLeader(v) ==
    /\ ~rotated[v]
    /\ currentLeader[v] + 1 < NumLeaders
    /\ Handling(v) = {}
    /\ currentLeader' = [currentLeader EXCEPT ![v] = @ + 1]
    /\ UNCHANGED <<epochFinish, rotated, votingStat, finalizationVote, blocks,
                   storedAfps, inflight, fps, lfps>>

\* EpochRotationThread raises EPOCH_FINISH under the read lock of AT.
RaiseEpochFinish(v) ==
    /\ ~rotated[v]
    /\ ~epochFinish[v]
    /\ epochFinish' = [epochFinish EXCEPT ![v] = TRUE]
    /\ UNCHANGED <<currentLeader, rotated, votingStat, finalizationVote,
                   blocks, storedAfps, inflight, fps, lfps>>

\* EpochRotationThread replaces the epoch under the write lock of AT.
RotateEpoch(v) ==
    /\ ~rotated[v]
    /\ epochFinish[v]
    /\ Handling(v) = {}
    /\ rotated' = [rotated EXCEPT ![v] = TRUE]
    /\ UNCHANGED <<currentLeader, epochFinish, votingStat, finalizationVote,
                   blocks, storedAfps, inflight, fps, lfps>>

-----------------------------------------------------------------------------

\* A proposal carries an AFP unless the block is the leader's first.
ProposedAfp(b) == IF b.index = 0 THEN [hash : {ZeroHash}, prev : {ZeroHash}]
                                 ELSE [hash : Hash, prev : PrevHash]

FinalizationProofStep(r) ==
    \/ RejectPreviousAfp(r)
    \/ StoreBlock(r)
    \/ StorePreviousAfp(r)
    \/ StoreVotingStat(r)
    \/ SignFinalizationProof(r)

Next ==
    \/ \E v \in Honest, b \in Block : \E afp \in ProposedAfp(b) :
          RecordVote(v, b, afp)
    \/ \E r \in inflight : FinalizationProofStep(r)
    \/ \E v \in Honest, l \in Leader, i \in Index \cup {-1}, h \in PrevHash :
          SignLeaderFinalizationProof(v, l, i, h)
    \/ \E v \in Honest : \/ Crash(v)
                         \/ RotateLeader(v)
                         \/ RaiseEpochFinish(v)
                         \/ RotateEpoch(v)

Spec == Init /\ [][Next]_vars

-----------------------------------------------------------------------------
(* Properties *)

\* The finalized blocks: everything an AFP can exist for.
Afps == {x \in Vote : VerifyAggregatedFinalizationProof(x)}

\* At most one block per leader and index is ever finalized, and with one
\* predecessor: two proposals for the same place, validators that crash
\* between recording a vote and signing it, and repeated requests never get
\* two different AFPs out of the quorum (FINALIZATION_VOTE records,
\* GetFinalizationProof).
AfpIsUnique == \A x, y \in Afps : SameId(x.block, y.block) => x = y

\* The finalized blocks of a leader form a chain without gaps: the block
\* before a finalized block is finalized, with the hash that was signed as
\* the previous hash.
AfpExtendsAfp ==
    \A x \in Afps :
        IF x.block.index = 0 THEN x.prev = ZeroHash
        ELSE \E y \in Afps : /\ y.block.leader = x.block.leader
                             /\ y.block.index = x.block.index - 1
                             /\ y.block.hash = x.prev

\* A signature is only given for what the validator can serve afterwards: the
\* block and the AFP of its predecessor are in its databases, so that an AFP
\* means that the block can be fetched from the signers, crashes included.
SignedBlocksAreStored ==
    \A s \in fps :
        /\ s.vote.block \in blocks[s.voter]
        /\ s.vote.block.index > 0 =>
              \E y \in storedAfps[s.voter] :
                  /\ y.block.leader = s.vote.block.leader
                  /\ y.block.index = s.vote.block.index - 1
                  /\ y.block.hash = s.vote.prev

\* A leader other than the last is only sealed by a validator that has stopped
\* voting for it: the VotingStat of the leader never passes the sealed index
\* afterwards.
LfpFreezesVotingStat ==
    \A s \in lfps :
        s.leader # LastLeader => votingStat[s.voter][s.leader].index <= s.index

\* No seal cuts off a confirmed block.  A block is confirmed, and may be
\* executed, once its successor has an AFP; whatever ALFP is collected for a
\* leader that is not the last one, before or after, from whichever
\* validators, keeps every confirmed block of the leader.
AlfpKeepsConfirmedBlocks ==
    \A x \in Afps : x.block.leader # LastLeader =>
        \A i \in Index \cup {-1}, h \in PrevHash :
            VerifyAggregatedLeaderFinalizationProof(x.block.leader, i, h)
                => x.block.index - 1 <= i

\* The seals an ALFP can exist for.
Alfps == {s \in [leader : Leader, index : Index \cup {-1}, hash : PrevHash] :
            VerifyAggregatedLeaderFinalizationProof(s.leader, s.index, s.hash)}

\* The quorum implements the chain of finalized blocks of module
\* FinalizedChain: every step of every thread on every validator finalizes at
\* most one block, at the end of its leader's chain and within the seals, or
\* seals a leader at or above its confirmed blocks, or shows nothing outside.
Chain == INSTANCE FinalizedChain
            WITH Sealable <- Leader \ {LastLeader},
                 finalized <- Afps, sealed <- Alfps

ImplementsFinalizedChain == Chain!Spec

\* What module LeaderVotes promises, of leader l, to those who collect seals.
Votes(l) == INSTANCE LeaderVotes
    WITH stat    <- [v \in Honest |-> votingStat[v][l].index],
         voted   <- [v \in Honest |-> {i \in Index :
                        \E s \in fps : /\ s.voter = v
                                       /\ s.vote.block.leader = l
                                       /\ s.vote.block.index = i}],
         sealing <- [v \in Honest |-> rotated[v] \/ currentLeader[v] > l],
         lfps    <- {[voter |-> s.voter, index |-> s.index] :
                        s \in {t \in lfps : t.leader = l}}

\* The quorum implements LeaderVotes for every leader that is not the last one
\* (Votes(l)!VotesSpec): every step of the handlers and the rotation threads is
\* a step of it, or changes nothing of it.  The locks and the order of the
\* writes are all it takes.
ImplementsLeaderVotes ==
    /\ \A l \in Leader \ {LastLeader} : Votes(l)!VotesInit
    /\ [][\A l \in Leader \ {LastLeader} :
              [Votes(l)!VotesNext]_(Votes(l)!votes)]_vars
=============================================================================
