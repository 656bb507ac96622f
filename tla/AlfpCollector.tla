--------------------------- MODULE AlfpCollector ---------------------------
(***************************************************************************)
(* LeaderFinalizationThread: how validators collect the ALFP of a leader   *)
(* that LeaderVotes lets exist.                                            *)
(*                                                                         *)
(* A collector proposes what it believes the leader's last block to be     *)
(* (SkipData) to the whole quorum, in rounds.  A validator that has left   *)
(* the leader signs the proposal, or answers with a higher block of its    *)
(* own (UPGRADE).  A round ends when a majority has answered; only then    *)
(* are the answers looked at, in no particular order.  A voter's           *)
(* connection carries one request at a time, and a request of a round that *)
(* has timed out may be answered in the next one.                          *)
(***************************************************************************)
EXTENDS LeaderVotes

CONSTANTS
    Collector,     \* the validators that collect here
    MaxFailures    \* bound: rounds that time out, requests lost, restarts

ASSUME CollectorAssumption == Collector \subseteq Honest /\ MaxFailures \in Nat

\* Nothing: no proposal in the cache, no round, no ALFP in the database.
None == -2

VARIABLES
    skip,        \* SkipData.Index in the cache, None before it is loaded
    proofs,      \* Proofs in the cache: the voters
    asked,       \* the proposal of the running round, None between rounds
    requests,    \* requests under way, at most one per voter
    answers,     \* the validated answers of the round
    pod,         \* a request to the point of distribution is under way
    local,       \* the ALFP in the database, None if there is none
    confirmed,   \* an anchor block with an ALFP of the leader has been seen
    failures

collection == <<skip, proofs, asked, requests, answers, pod, local, confirmed,
                failures>>
vars == <<votes, collection>>

Request == [voter : Quorum, skip : LastIndex]

\* The kind of an answer is told by "up": an UPGRADE to the index, or a
\* signature of it.
Reply == [voter : Quorum, up : BOOLEAN, index : LastIndex]

TypeOK ==
    /\ VotesTypeOK
    /\ skip \in [Collector -> LastIndex \cup {None}]
    /\ proofs \in [Collector -> SUBSET Quorum]
    /\ asked \in [Collector -> LastIndex \cup {None}]
    /\ requests \in [Collector -> SUBSET Request]
    /\ answers \in [Collector -> SUBSET Reply]
    /\ pod \in [Collector -> BOOLEAN]
    /\ local \in [Collector -> LastIndex \cup {None}]
    /\ confirmed \in [Collector -> BOOLEAN]
    /\ failures \in 0 .. MaxFailures

Init ==
    /\ VotesInit
    /\ skip = [c \in Collector |-> None]
    /\ proofs = [c \in Collector |-> {}]
    /\ asked = [c \in Collector |-> None]
    /\ requests = [c \in Collector |-> {}]
    /\ answers = [c \in Collector |-> {}]
    /\ pod = [c \in Collector |-> FALSE]
    /\ local = [c \in Collector |-> None]
    /\ confirmed = [c \in Collector |-> FALSE]
    /\ failures = 0

Fail == failures < MaxFailures /\ failures' = failures + 1

-----------------------------------------------------------------------------
(* A round of SendAndWaitValidated *)

\* The proposal starts from the collector's own VotingStat.
StartRound(c) ==
    /\ ~confirmed[c]
    /\ local[c] = None
    /\ asked[c] = None
    /\ LET proposal == IF skip[c] = None THEN stat[c] ELSE skip[c]
       IN  /\ skip' = [skip EXCEPT ![c] = proposal]
           /\ asked' = [asked EXCEPT ![c] = proposal]
    /\ answers' = [answers EXCEPT ![c] = {}]
    /\ pod' = [pod EXCEPT ![c] = TRUE]
    /\ UNCHANGED <<votes, proofs, requests, local, confirmed, failures>>

Busy(c, v) == \E r \in requests[c] \cup answers[c] : r.voter = v

\* The first send, or a repeated one to a voter without a valid answer.
Send(c, v) ==
    /\ asked[c] # None
    /\ ~Busy(c, v)
    /\ requests' = [requests EXCEPT ![c] =
                       @ \cup {[voter |-> v, skip |-> asked[c]]}]
    /\ UNCHANGED <<votes, skip, proofs, asked, answers, pod, local, confirmed,
                   failures>>

Done(c, r) == requests' = [requests EXCEPT ![c] = @ \ {r}]

\* The first valid answer of a voter in the round is kept.
Keep(c, a) ==
    answers' = [answers EXCEPT ![c] =
        IF \E b \in @ : b.voter = a.voter THEN @ ELSE @ \cup {a}]

\* GetLeaderFinalizationProof signs; the signature is checked against the
\* proposal of this round.
AnswerOk(c, r) ==
    /\ r.voter \in Honest
    /\ asked[c] # None
    /\ SignLfp(r.voter, r.skip)
    /\ IF r.skip = asked[c]
       THEN Keep(c, [voter |-> r.voter, up |-> FALSE, index |-> r.skip])
       ELSE UNCHANGED answers
    /\ Done(c, r)
    /\ UNCHANGED <<skip, proofs, asked, pod, local, confirmed, failures>>

\* GetLeaderFinalizationProof knows a higher block.
AnswerUpgrade(c, r) ==
    /\ r.voter \in Honest
    /\ asked[c] # None
    /\ MaySeal(r.voter)
    /\ stat[r.voter] > r.skip
    /\ Keep(c, [voter |-> r.voter, up |-> TRUE, index |-> stat[r.voter]])
    /\ Done(c, r)
    /\ UNCHANGED <<votes, skip, proofs, asked, pod, local, confirmed, failures>>

\* A faulty voter signs, or claims any block that it has an AFP of, or none.
AnswerFaulty(c, r) ==
    /\ r.voter \in Faulty
    /\ asked[c] # None
    /\ \/ Keep(c, [voter |-> r.voter, up |-> FALSE, index |-> asked[c]])
       \/ \E i \in LastIndex :
             /\ i = -1 \/ AfpExists(i)
             /\ Keep(c, [voter |-> r.voter, up |-> TRUE, index |-> i])
    /\ Done(c, r)
    /\ UNCHANGED <<votes, skip, proofs, asked, pod, local, confirmed, failures>>

\* No answer, or one that is not ready.
LoseRequest(c, r) ==
    /\ Fail
    /\ Done(c, r)
    /\ UNCHANGED <<votes, skip, proofs, asked, answers, pod, local, confirmed>>

Upgrades(c)   == {a \in answers[c] : a.up}
Signatures(c) == {a.voter : a \in answers[c] \ Upgrades(c)}

\* Mutation: the proofs for the earlier proposal are kept.
KeepProofs(c, i, S) == proofs[c] \cup S

\* An UPGRADE starts the proofs anew.  The signatures handled after it only
\* count if it proposes what they sign.
ResetProofs(c, i, S) == IF i = asked[c] THEN S ELSE {}

\* Mutation: UPGRADEs count for the majority and are then ignored.
IgnoreUpgrades(c, proposal, collected) ==
    proposal = skip[c] /\ collected = proofs[c] \cup Signatures(c)

\* The answers are handled in the order of a Go map: whichever UPGRADE comes
\* last counts, even one that is lower than the others.
ProcessAnswers(c, proposal, collected) ==
    \/ /\ Upgrades(c) = {}
       /\ proposal = skip[c]
       /\ collected = proofs[c] \cup Signatures(c)
    \/ \E u \in Upgrades(c) : \E S \in SUBSET Signatures(c) :
          /\ proposal = u.index
          /\ collected = ResetProofs(c, u.index, S)

EnoughFor(S) == Cardinality(S) >= GetQuorumMajority

FinishRound(c) ==
    /\ asked[c] # None
    /\ EnoughFor({a.voter : a \in answers[c]})
    /\ \E proposal \in LastIndex, collected \in SUBSET Quorum :
          /\ ProcessAnswers(c, proposal, collected)
          /\ skip' = [skip EXCEPT ![c] = proposal]
          /\ proofs' = [proofs EXCEPT ![c] = collected]
          /\ local' = [local EXCEPT ![c] =
                          IF EnoughFor(collected) THEN proposal ELSE @]
    /\ asked' = [asked EXCEPT ![c] = None]
    /\ answers' = [answers EXCEPT ![c] = {}]
    /\ UNCHANGED <<votes, requests, pod, confirmed, failures>>

\* The deadline passes without a majority: nothing is handled.
TimeOut(c) ==
    /\ asked[c] # None
    /\ ~EnoughFor({a.voter : a \in answers[c]})
    /\ Fail
    /\ asked' = [asked EXCEPT ![c] = None]
    /\ answers' = [answers EXCEPT ![c] = {}]
    /\ UNCHANGED <<votes, skip, proofs, requests, pod, local, confirmed>>

-----------------------------------------------------------------------------

\* The answer of the point of distribution is verified and stored whenever it
\* comes, even over an ALFP that was collected meanwhile.  No answer, and one
\* that does not verify, change nothing.
StoreAlfpFromPoD(c) ==
    /\ pod[c]
    /\ pod' = [pod EXCEPT ![c] = FALSE]
    /\ \E i \in LastIndex : /\ AlfpExists(i)
                            /\ local' = [local EXCEPT ![c] = i]
    /\ UNCHANGED <<votes, skip, proofs, asked, requests, answers, confirmed,
                   failures>>

\* The watcher or the alignment thread has found an ALFP in an anchor block:
\* the collector leaves the leader after the running round.
Confirm(c) ==
    /\ ~confirmed[c]
    /\ \E d \in Collector : local[d] # None
    /\ confirmed' = [confirmed EXCEPT ![c] = TRUE]
    /\ UNCHANGED <<votes, skip, proofs, asked, requests, answers, pod, local,
                   failures>>

\* The caches are in memory, the ALFP and the VotingStat are not.
Restart(c) ==
    /\ Fail
    /\ skip' = [skip EXCEPT ![c] = None]
    /\ proofs' = [proofs EXCEPT ![c] = {}]
    /\ asked' = [asked EXCEPT ![c] = None]
    /\ requests' = [requests EXCEPT ![c] = {}]
    /\ answers' = [answers EXCEPT ![c] = {}]
    /\ pod' = [pod EXCEPT ![c] = FALSE]
    /\ UNCHANGED <<votes, local, confirmed>>

\* Validators vote and leave the leader; what they seal they are asked for.
VoteOrLeave ==
    /\ \E v \in Honest : \/ \E i \in Index : MoveStat(v, i) \/ SignVote(v, i)
                         \/ LeaveLeader(v)
    /\ UNCHANGED collection

Receive(c, r) == AnswerOk(c, r) \/ AnswerUpgrade(c, r) \/ AnswerFaulty(c, r)

CollectorStep(c) ==
    \/ StartRound(c)
    \/ \E v \in Quorum : Send(c, v)
    \/ \E r \in requests[c] : Receive(c, r)
    \/ FinishRound(c)

Next ==
    \/ VoteOrLeave
    \/ \E c \in Collector :
          \/ CollectorStep(c)
          \/ \E r \in requests[c] : LoseRequest(c, r)
          \/ TimeOut(c)
          \/ StoreAlfpFromPoD(c)
          \/ Confirm(c)
          \/ Restart(c)

Spec == Init /\ [][Next]_vars

\* Rounds go on until there is an ALFP, and every request under way is answered
\* in the end, once its voter has left the leader.
Fairness ==
    \A c \in Collector :
        /\ WF_vars(StartRound(c))
        /\ WF_vars(FinishRound(c))
        /\ \A v \in Quorum :
              /\ WF_vars(Send(c, v))
              /\ WF_vars(\E r \in requests[c] : r.voter = v /\ Receive(c, r))

FairSpec == Spec /\ Fairness

-----------------------------------------------------------------------------
(* Properties *)

\* Every ALFP a collector stores verifies: the signatures were collected over
\* several rounds, while UPGRADEs changed the proposal, and they are all for
\* the one that is stored.
LocalAlfpIsValid == \A c \in Collector : local[c] # None => AlfpExists(local[c])

\* Once every validator has left the leader, the collectors get its ALFP,
\* wherever their proposals start, if no voter is faulty.  UPGRADEs to
\* different blocks, answers to earlier rounds and lost requests do not keep
\* them going round for ever.
LeaderGetsSealed ==
    (\A v \in Honest : sealing[v])
        ~> \A c \in Collector : local[c] # None \/ confirmed[c]
=============================================================================
