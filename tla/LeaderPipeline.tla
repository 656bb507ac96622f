--------------------------- MODULE LeaderPipeline ---------------------------
(***************************************************************************)
(* A leader that runs this code, composed with the quorum of               *)
(* FinalizationVoting: the generation thread makes blocks, the proofs      *)
(* grabber asks the quorum for one AFP after the other, and the leader and *)
(* the validators crash and restart.                                       *)
(*                                                                         *)
(* The grabber is written to the database before it moves to the next      *)
(* block, so after a restart the leader hunts for a block that already has *)
(* an AFP, and validators that have seen later proposals must still        *)
(* answer.  When the epoch starts the two threads hold what the previous   *)
(* epoch left in them.                                                     *)
(***************************************************************************)
EXTENDS FinalizationVoting

CONSTANTS
    Me,           \* position of the leader in LeadersSequence
    MaxFailures   \* bound on crashes, early timeouts and late requests

ASSUME LeaderAssumption == Me \in Leader /\ MaxFailures \in Nat

VARIABLES
    leading,       \* the leader's AT: it is its turn and the epoch is fresh
    grabber,       \* PROOFS_GRABBER
    grabberDb,     \* N:PROOFS_GRABBER in the database, at most one
    generation,    \* GENERATION_THREAD_METADATA
    generationDb,  \* its record in BLOCKS
    ownBlocks,     \* the leader's blocks of this epoch in BLOCKS
    ownAfps,       \* the AFPs the leader has stored
    hunt,          \* the running round of runFinalizationProofsGrabbing
    sent,          \* proposals sent in this epoch
    failures       \* how many failures there were

leaderVars == <<leading, grabber, grabberDb, generation, generationDb,
                ownBlocks, ownAfps, hunt, sent, failures>>
allVars    == <<vars, leaderVars>>

NoAfp    == [hash |-> ZeroHash, prev |-> ZeroHash]
Epoch    == {"earlier", "current"}   \* EpochId and EpochFullId
Grabber  == [epoch : Epoch, accepted : Index \cup {-1}, hash : PrevHash,
             afp : PrevAfp]
GenState == [epoch : Epoch, next : 0 .. MaxIndex + 1, prev : PrevHash]
Proposal == [block : Block, prev : PrevHash, afp : PrevAfp]
Hunt     == [proposal : Proposal, asked : SUBSET Honest,
             answers : SUBSET Honest]

LeaderTypeOK ==
    /\ TypeOK
    /\ leading \in BOOLEAN
    /\ grabber \in Grabber
    /\ grabberDb \subseteq Grabber /\ Cardinality(grabberDb) <= 1
    /\ generation \in GenState
    /\ generationDb \in GenState
    /\ ownBlocks \subseteq Vote
    /\ ownAfps \subseteq Vote
    /\ hunt \subseteq Hunt /\ Cardinality(hunt) <= 1
    /\ sent \subseteq Proposal
    /\ failures \in 0 .. MaxFailures

\* What a process starts with, and what it still holds of an earlier epoch.
FreshGrabber  == [epoch |-> "earlier", accepted |-> 0, hash |-> ZeroHash,
                  afp |-> NoAfp]
LeftoverIndex == {-1, 0, MaxIndex}
LeftoverGrabber == {[FreshGrabber EXCEPT !.accepted = i] : i \in LeftoverIndex}
LeftoverGeneration ==
    {[epoch |-> "earlier", next |-> 0, prev |-> ZeroHash]} \cup
    [epoch : {"earlier"}, next : {1, MaxIndex + 1}, prev : Hash]

LeaderInit ==
    /\ Init
    /\ leading = TRUE
    /\ grabber \in LeftoverGrabber
    /\ grabberDb = {}
    /\ generation \in LeftoverGeneration
    /\ generationDb = generation
    /\ ownBlocks = {}
    /\ ownAfps = {}
    /\ hunt = {}
    /\ sent = {}
    /\ failures = 0

-----------------------------------------------------------------------------
(* The generation thread *)

\* The grabber may still be the one of the earlier epoch, and so may NextIndex.
ShouldGenerateBlocks == generation.next <= grabber.accepted + 1

\* Mutation: the hash is not reset with the index.
RotatedIndexOnly ==
    IF generation.epoch = "current" THEN generation
    ELSE [epoch |-> "current", next |-> 0, prev |-> generation.prev]

\* The generation thread at the start of the epoch it works for.
RotatedGeneration ==
    IF generation.epoch = "current" THEN generation
    ELSE [epoch |-> "current", next |-> 0, prev |-> ZeroHash]

\* Mutation: only the block is written with the batch, not the thread.
GenerateWithoutGt(h) ==
    LET g == RotatedGeneration
        x == [block |-> [leader |-> Me, index |-> g.next, hash |-> h],
              prev  |-> g.prev]
    IN  /\ leading /\ ShouldGenerateBlocks /\ g.next <= MaxIndex
        /\ ownBlocks' = {y \in ownBlocks : ~SameId(y.block, x.block)} \cup {x}
        /\ generation' = [epoch |-> "current", next |-> g.next + 1, prev |-> h]
        /\ UNCHANGED <<vars, leading, grabber, grabberDb, generationDb, ownAfps,
                       hunt, sent, failures>>

\* The block and the thread are written in one batch.
GenerateBlock(h) ==
    LET g == RotatedGeneration
        x == [block |-> [leader |-> Me, index |-> g.next, hash |-> h],
              prev  |-> g.prev]
    IN  /\ leading /\ ShouldGenerateBlocks /\ g.next <= MaxIndex
        /\ ownBlocks' = {y \in ownBlocks : ~SameId(y.block, x.block)} \cup {x}
        /\ generation' = [epoch |-> "current", next |-> g.next + 1, prev |-> h]
        /\ generationDb' = generation'
        /\ UNCHANGED <<vars, leading, grabber, grabberDb, ownAfps, hunt, sent,
                       failures>>

\* Without a block to generate the new epoch is only noted in memory.
RotateGeneration ==
    /\ leading /\ ~ShouldGenerateBlocks
    /\ generation.epoch # "current"
    /\ generation' = RotatedGeneration
    /\ UNCHANGED <<vars, leading, grabber, grabberDb, generationDb, ownBlocks,
                   ownAfps, hunt, sent, failures>>

-----------------------------------------------------------------------------
(* The proofs grabber *)

\* A new epoch, or a restart in this one: the stored grabber or an empty one.
InitGrabber ==
    /\ leading
    /\ grabber.epoch # "current"
    /\ grabber' \in IF grabberDb # {} THEN grabberDb
                    ELSE {[epoch |-> "current", accepted |-> -1,
                           hash |-> ZeroHash, afp |-> NoAfp]}
    /\ grabberDb' = {grabber'}
    /\ UNCHANGED <<vars, leading, generation, generationDb, ownBlocks, ownAfps,
                   hunt, sent, failures>>

\* The block after the accepted one is sent to the quorum with the AFP before.
StartHunt ==
    /\ leading
    /\ grabber.epoch = "current"
    /\ hunt = {}
    /\ \E x \in ownBlocks :
          LET p == [block |-> x.block, prev |-> grabber.hash,
                    afp |-> grabber.afp]
          IN  /\ x.block.index = grabber.accepted + 1
              /\ hunt' = {[proposal |-> p, asked |-> {}, answers |-> {}]}
              /\ sent' = sent \cup {p}
    /\ UNCHANGED <<vars, leading, grabber, grabberDb, generation, generationDb,
                   ownBlocks, ownAfps, failures>>

HaveMajority(h) == IsMajority(h.answers)

HuntedVote(h) == [block |-> h.proposal.block, prev |-> h.proposal.prev]

\* The AFP is stored first.
StoreAfp(h) ==
    /\ HaveMajority(h)
    /\ HuntedVote(h) \notin ownAfps
    /\ ownAfps' = ownAfps \cup {HuntedVote(h)}
    /\ UNCHANGED <<vars, leading, grabber, grabberDb, generation, generationDb,
                   ownBlocks, hunt, sent, failures>>

NextGrabber(h) ==
    [epoch |-> "current", accepted |-> grabber.accepted + 1,
     hash |-> h.proposal.block.hash,
     afp |-> [hash |-> h.proposal.block.hash, prev |-> h.proposal.prev]]

\* Mutation: the index moves on before the grabber is written, the rest after.
StoreProgressAhead(h) ==
    /\ HaveMajority(h)
    /\ HuntedVote(h) \in ownAfps
    /\ grabberDb' = {[grabber EXCEPT !.accepted = @ + 1]}
    /\ grabber' = NextGrabber(h)
    /\ hunt' = {}
    /\ UNCHANGED <<vars, leading, generation, generationDb, ownBlocks, ownAfps,
                   sent, failures>>

\* Then the grabber is written as it is, and only then moves on in memory.
StoreProgress(h) ==
    /\ HaveMajority(h)
    /\ HuntedVote(h) \in ownAfps
    /\ grabberDb' = {grabber}
    /\ grabber' = NextGrabber(h)
    /\ hunt' = {}
    /\ UNCHANGED <<vars, leading, generation, generationDb, ownBlocks, ownAfps,
                   sent, failures>>

\* Nobody is left who could still answer this round.
RoundIsOver(h) == h.asked = Honest /\ inflight = {}

\* SendAndWaitValidated gives up; early when answers are still to come.
HuntTimeout(h) ==
    /\ ~HaveMajority(h)
    /\ IF RoundIsOver(h) THEN UNCHANGED failures
       ELSE failures < MaxFailures /\ failures' = failures + 1
    /\ hunt' = {}
    /\ UNCHANGED <<vars, leading, grabber, grabberDb, generation, generationDb,
                   ownBlocks, ownAfps, sent>>

-----------------------------------------------------------------------------
(* The quorum's side *)

CanVote(v, p) ==
    /\ ~rotated[v] /\ currentLeader[v] = Me /\ ~epochFinish[v]
    /\ ItsSameChainSegment(v, p.block)
    /\ NoConflictingVote(v, p.block)

\* A validator starts on the request, or refuses it.
Receive(h, v) ==
    /\ v \notin h.asked
    /\ Handling(v) = {}
    /\ \/ RecordVote(v, h.proposal.block, h.proposal.afp)
       \/ ~CanVote(v, h.proposal) /\ UNCHANGED vars
    /\ hunt' = {[h EXCEPT !.asked = @ \cup {v}]}
    /\ UNCHANGED <<leading, grabber, grabberDb, generation, generationDb,
                   ownBlocks, ownAfps, sent, failures>>

\* A request of an earlier round is delayed or repeated.
ReceiveLate(v, p) ==
    /\ failures < MaxFailures
    /\ failures' = failures + 1
    /\ RecordVote(v, p.block, p.afp)
    /\ UNCHANGED <<leading, grabber, grabberDb, generation, generationDb,
                   ownBlocks, ownAfps, hunt, sent>>

\* The answer counts if the round asks for what was signed.
Answer(r) ==
    /\ SignFinalizationProof(r)
    /\ hunt' = {IF SignedVote(r.block, r.afp) = HuntedVote(h)
                THEN [h EXCEPT !.answers = @ \cup {r.voter}] ELSE h : h \in hunt}
    /\ UNCHANGED <<leading, grabber, grabberDb, generation, generationDb,
                   ownBlocks, ownAfps, sent, failures>>

WorkOnCall(r) ==
    /\ \/ RejectPreviousAfp(r)
       \/ StoreBlock(r)
       \/ StorePreviousAfp(r)
       \/ StoreVotingStat(r)
    /\ UNCHANGED leaderVars

ValidatorCrash(v) ==
    /\ failures < MaxFailures
    /\ failures' = failures + 1
    /\ Crash(v)
    /\ UNCHANGED <<leading, grabber, grabberDb, generation, generationDb,
                   ownBlocks, ownAfps, hunt, sent>>

-----------------------------------------------------------------------------
(* Failures of the leader, and the end of its turn *)

LeaderRestart ==
    /\ failures < MaxFailures
    /\ failures' = failures + 1
    /\ grabber' = FreshGrabber
    /\ generation' = generationDb
    /\ hunt' = {}
    /\ UNCHANGED <<vars, leading, grabberDb, generationDb, ownBlocks, ownAfps,
                   sent>>

StopLeading ==
    /\ leading
    /\ leading' = FALSE
    /\ UNCHANGED <<vars, grabber, grabberDb, generation, generationDb,
                   ownBlocks, ownAfps, hunt, sent, failures>>

ValidatorMovesOn(v) ==
    /\ RotateLeader(v) \/ RaiseEpochFinish(v)
    /\ UNCHANGED leaderVars

LeaderNext ==
    \/ \E h \in Hash : GenerateBlock(h)
    \/ RotateGeneration
    \/ InitGrabber
    \/ StartHunt
    \/ \E h \in hunt : StoreAfp(h) \/ StoreProgress(h) \/ HuntTimeout(h)
    \/ \E h \in hunt, v \in Honest : Receive(h, v)
    \/ \E p \in sent, v \in Honest : ReceiveLate(v, p)
    \/ \E r \in inflight : Answer(r) \/ WorkOnCall(r)
    \/ \E v \in Honest : ValidatorCrash(v) \/ ValidatorMovesOn(v)
    \/ LeaderRestart
    \/ StopLeading

\* The threads of the leader loop for ever, the handlers of the validators run
\* to their end, and requests arrive; failures are not required to happen.
Fairness ==
    /\ WF_allVars(InitGrabber)
    /\ WF_allVars(StartHunt)
    /\ WF_allVars(\E h \in hunt : StoreAfp(h))
    /\ WF_allVars(\E h \in hunt : StoreProgress(h))
    /\ WF_allVars(\E h \in hunt : RoundIsOver(h) /\ HuntTimeout(h))
    /\ \A v \in Honest :
          /\ WF_allVars(\E h \in hunt : Receive(h, v))
          /\ WF_allVars(\E r \in Handling(v) : Answer(r) \/ WorkOnCall(r))

LeaderSpec     == LeaderInit /\ [][LeaderNext]_allVars
FairLeaderSpec == LeaderSpec /\ Fairness

-----------------------------------------------------------------------------
(* Properties *)

\* The leader never locks itself out.  Whatever block it hunts for, after any
\* restart and with validators that have seen proposals of any earlier round,
\* every validator's VotingStat and FINALIZATION_VOTE records allow the vote
\* and the AFP in the proposal is accepted.
HuntedBlockIsAcceptable ==
    \A h \in hunt, v \in Honest :
        LET p == h.proposal
        IN  /\ ItsSameChainSegment(v, p.block)
            /\ NoConflictingVote(v, p.block)
            /\ PreviousAfpIsOk(p.block, p.afp)

\* The hash of the previous block that the quorum signs, which is taken from
\* the AFP and never compared with the block, is the one inside the block.
AfpLinksLikeTheBlock == \A x \in Afps : x.block.leader = Me => x \in ownBlocks

\* The leader's AFP records are what the quorum signed, and the grabber never
\* stands on a block without one, restarts included.
AcceptedBlocksHaveAfps ==
    /\ ownAfps \subseteq Afps
    /\ grabber.epoch = "current" /\ grabber.accepted >= 0 =>
          \E x \in ownAfps : /\ x.block.index = grabber.accepted
                             /\ x.block.hash = grabber.hash
                             /\ x.prev = grabber.afp.prev

\* Every block the leader generates is finalized, however the two threads and
\* the failures interleave, unless its turn ends first.
TurnIsOver ==
    \/ ~leading
    \/ \E v \in Honest : currentLeader[v] # Me \/ epochFinish[v]

GeneratedBlocksAreFinalized ==
    \A i \in Index :
        (\E x \in ownBlocks : x.block.index = i)
            ~> (TurnIsOver \/ \E x \in ownAfps : x.block.index = i)
=============================================================================
