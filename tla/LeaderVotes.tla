---------------------------- MODULE LeaderVotes ----------------------------
(***************************************************************************)
(* What the quorum promises about one leader that is not the last of its   *)
(* epoch, without blocks, locks and databases: validators vote for the     *)
(* leader's blocks in any order that builds on finalized ones, leave the   *)
(* leader one by one, and then sign what they take its last block to be.   *)
(* FinalizationVoting implements this module; AlfpCollector builds on it.  *)
(*                                                                         *)
(* Blocks are told apart by their index: FinalizationVoting has no two     *)
(* finalized blocks of one leader and index.  A seal of no block, index -1,*)
(* may carry any hash, which is not told apart either.                     *)
(***************************************************************************)
EXTENDS CoreQuorum

CONSTANT MaxIndex     \* bound: blocks have the indexes 0 .. MaxIndex

ASSUME MaxIndexAssumption == MaxIndex \in Nat

Index     == 0 .. MaxIndex
LastIndex == Index \cup {-1}

VARIABLES
    stat,      \* VotingStat of the leader: the index
    voted,     \* the indexes the validator has signed finalization proofs for
    sealing,   \* the validator has left the leader behind
    lfps       \* leader finalization proofs: a voter and an index

votes == <<stat, voted, sealing, lfps>>

VotesTypeOK ==
    /\ stat \in [Honest -> LastIndex]
    /\ voted \in [Honest -> SUBSET Index]
    /\ sealing \in [Honest -> BOOLEAN]
    /\ lfps \subseteq [voter : Honest, index : LastIndex]

VotesInit ==
    /\ stat = [v \in Honest |-> -1]
    /\ voted = [v \in Honest |-> {}]
    /\ sealing = [v \in Honest |-> FALSE]
    /\ lfps = {}

\* An AFP of a block with this index may exist.
AfpExists(i) == IsMajority({v \in Honest : i \in voted[v]})

\* An ALFP that seals this index may exist.
AlfpExists(i) ==
    /\ i = -1 \/ AfpExists(i)
    /\ IsMajority({v \in Honest : [voter |-> v, index |-> i] \in lfps})

PreviousIsFinal(i) == i = 0 \/ AfpExists(i - 1)

\* A repeated vote leaves the record, any other moves it to the block before.
StatFor(v, i) == IF stat[v] = i THEN i ELSE i - 1

\* The record is written before the vote is signed; the call may end between.
MoveStat(v, i) ==
    /\ ~sealing[v]
    /\ stat[v] <= i
    /\ PreviousIsFinal(i)
    /\ stat' = [stat EXCEPT ![v] = StatFor(v, i)]
    /\ UNCHANGED <<voted, sealing, lfps>>

SignVote(v, i) ==
    /\ ~sealing[v]
    /\ PreviousIsFinal(i)
    /\ stat[v] = StatFor(v, i)
    /\ voted' = [voted EXCEPT ![v] = @ \cup {i}]
    /\ UNCHANGED <<stat, sealing, lfps>>

LeaveLeader(v) ==
    /\ ~sealing[v]
    /\ sealing' = [sealing EXCEPT ![v] = TRUE]
    /\ UNCHANGED <<stat, voted, lfps>>

\* Mutation: the validator does not look whether it has left the leader.
MaySealAny(v) == TRUE

MaySeal(v) == sealing[v]

SignLfp(v, i) ==
    /\ MaySeal(v)
    /\ stat[v] <= i
    /\ lfps' = lfps \cup {[voter |-> v, index |-> i]}
    /\ UNCHANGED <<stat, voted, sealing>>

VotesNext ==
    \E v \in Honest :
        \/ \E i \in Index : MoveStat(v, i) \/ SignVote(v, i)
        \/ LeaveLeader(v)
        \/ \E i \in LastIndex : SignLfp(v, i)

VotesSpec == VotesInit /\ [][VotesNext]_votes

-----------------------------------------------------------------------------
(* Properties *)

\* No two seals of a leader are more than one block apart, whoever collects
\* them, whenever and from whichever validators: all but the last block of
\* the higher one are confirmed, and no seal cuts off a confirmed block.
SealsAreClose ==
    \A i, j \in LastIndex : AlfpExists(i) /\ AlfpExists(j) => i <= j + 1
=============================================================================
