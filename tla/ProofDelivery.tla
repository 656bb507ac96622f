--------------------------- MODULE ProofDelivery ---------------------------
(***************************************************************************)
(* What a node does with a QuorumWaiter: it makes aggregated proofs,       *)
(* stores them, and hands them over to the outbox for the PoD.             *)
(*                                                                         *)
(* The caller is a worker of LastMileAHPCollectorThread, which asks for the*)
(* proofs of a window of heights, one after the other with one waiter, and *)
(* commits those at its beginning; or AnnounceEpochAfterRotation, which    *)
(* has a single round; or LastMileFinalizerThread with the proof of an     *)
(* epoch's rotation, which it makes over connections of its own for every  *)
(* attempt, and sends before it stores it.  After a crash in between the   *)
(* finalizer makes and sends the proof again, while the flusher may have   *)
(* the first one on its way.  No other node has the proofs.                *)
(***************************************************************************)
EXTENDS QuorumWaiter

CONSTANTS
    Self,          \* the node, for the outbox
    LastHeight     \* the heights that the sequencer has mapped: 1 .. LastHeight

ASSUME DeliveryAssumption == LastHeight \in Nat /\ Topic = 1 .. LastHeight

Height == Topic

VARIABLES
    caller,      \* "collector", "announcer" or "finalizer"
    step,        \* of the caller
    next,        \* the job whose round is next, or under way
    results,     \* proofs of this window
    stored,      \* proofs in the database
    committed,   \* DBKeyLastMileAHPCollectorTracker, the last height before it
    pod, outbox, sends, flushing

callerVars == <<caller, step, next, results, stored, committed>>
podVars == <<pod, outbox, sends, flushing>>
proofsVars == <<waiterVars, callerVars, podVars>>

\* The collector only queues.
SendingThread == {"announcer", "finalizer"}

Out == INSTANCE PodOutbox
           WITH Sender <- {Self}, Thread <- SendingThread, Message <- Topic

Proof == [topic : Topic, signers : SUBSET Quorum]

ProofsTypeOK ==
    /\ WaiterTypeOK
    /\ caller \in {"collector"} \cup SendingThread
    /\ step \in {"collect", "store", "send", "advance", "over"}
    /\ next \in 1 .. LastHeight + 1
    /\ results \subseteq Proof
    /\ stored \subseteq Proof
    /\ committed \in 0 .. LastHeight
    /\ Out!OutboxTypeOK

ProofsInit ==
    /\ WaiterInit
    /\ caller \in {"collector"} \cup SendingThread
    /\ step = "collect"
    /\ next = 1
    /\ results = {}
    /\ stored = {}
    /\ committed = 0
    /\ Out!OutboxInit

-----------------------------------------------------------------------------
(* The rounds *)

MayAsk == phase = "idle" /\ step = "collect" /\ next <= LastHeight

HasProof(S, h) == \E x \in S : x.topic = h

\* The collector has no job for a height whose proof it finds in the database.
Ask ==
    /\ MayAsk
    /\ ~HasProof(stored, next)
    /\ StartRound(next)
    /\ UNCHANGED <<callerVars, podVars>>

UseStoredProof ==
    /\ MayAsk
    /\ caller = "collector"
    /\ \E x \in stored : x.topic = next /\ results' = results \cup {x}
    /\ next' = next + 1
    /\ UNCHANGED <<waiterVars, caller, step, stored, committed, podVars>>

\* Several peers may have sent the signature of the same voter.
EnoughVoters(S) == Cardinality(S) >= GetQuorumMajority

\* tryCollectAggregatedHeightProofWithConns, tryCollectEpochAnnouncementProof,
\* tryCollectAggregatedEpochRotationProofWithConns: after the round.
Collected(t) ==
    LET voters == {r.signer : r \in valid}
    IN  IF success /\ EnoughVoters(voters)
        THEN {[topic |-> t, signers |-> voters]} ELSE {}

EndJob ==
    /\ caller # "finalizer"
    /\ RoundReturns
    /\ phase' = "idle"
    /\ results' = results \cup Collected(topic)
    /\ IF caller = "collector"
       THEN next' = next + 1 /\ UNCHANGED step
       ELSE /\ step' = IF Collected(topic) = {} THEN "over" ELSE "store"
            /\ UNCHANGED next
    /\ UNCHANGED <<reachable, topic, success, answered, valid, failed, redial,
                   connVars, calls, inbox, checks, signed, trouble,
                   caller, stored, committed, podVars>>

\* The finalizer closes the attempt's connections, and has others for the next.
EndAttempt ==
    /\ caller = "finalizer"
    /\ RoundReturns
    /\ NewWaiter
    /\ results' = results \cup Collected(topic)
    /\ step' = IF Collected(topic) = {} THEN "collect" ELSE "send"
    /\ UNCHANGED <<trouble, caller, next, stored, committed, podVars>>

-----------------------------------------------------------------------------
(* What follows *)

WindowIsDone == phase = "idle" /\ step = "collect" /\ next = LastHeight + 1

\* The height the collector commits next; the announcement, or the rotation, is
\* the first topic.
Current == committed + 1

\* The commit loop of collectAHPWindow goes on ...
Commit ==
    /\ caller = "collector"
    /\ WindowIsDone
    /\ HasProof(results, Current)
    /\ step' = "store"
    /\ UNCHANGED <<waiterVars, caller, next, results, stored, committed, podVars>>

\* ... up to the first height without a proof, where the next window begins.
\* The proofs of later heights are made again.
NextWindow ==
    /\ caller = "collector"
    /\ WindowIsDone
    /\ Current \in Height
    /\ ~HasProof(results, Current)
    /\ next' = Current
    /\ results' = {}
    /\ UNCHANGED <<waiterVars, caller, step, stored, committed, podVars>>

\* storeAggregatedHeightProof, StoreEpochAnnouncementProof, and, when the answer
\* of the PoD has been dealt with, storeAggregatedEpochRotationProof
StoreProof ==
    /\ step = "store"
    /\ caller = "finalizer" => ~Out!IsSending(Self, caller)
    /\ stored' = {x \in stored : x.topic # Current} \cup
                 {x \in results : x.topic = Current}
    /\ step' = IF caller = "finalizer" THEN "over" ELSE "send"
    /\ UNCHANGED <<waiterVars, caller, next, results, committed, podVars>>

\* SendAggregatedHeightProofToPoD only queues the proof.
QueueProof ==
    /\ step = "send" /\ caller = "collector"
    /\ Out!QueuePoDOutbox(Self, Current)
    /\ step' = "advance"
    /\ UNCHANGED <<waiterVars, caller, next, results, stored, committed>>

\* Mutation: the tracker goes to the end of the window.
AdvanceToWindowEnd ==
    /\ step = "advance"
    /\ committed' = next - 1
    /\ step' = "collect"
    /\ UNCHANGED <<waiterVars, caller, next, results, stored, podVars>>

AdvanceTracker ==
    /\ step = "advance"
    /\ committed' = Current
    /\ step' = "collect"
    /\ UNCHANGED <<waiterVars, caller, next, results, stored, podVars>>

\* sendEpochAnnouncementProofToPoD, SendAggregatedEpochRotationProofToPoD, both
\* halves with FinishSend.  The posts to the anchors, after the one and before
\* the other, are tried once, and what becomes of them is not modelled.
SendProof ==
    /\ step = "send" /\ caller \in SendingThread
    /\ Out!SendToPoD(Self, caller, Current)
    /\ step' = IF caller = "finalizer" THEN "store" ELSE "over"
    /\ UNCHANGED <<waiterVars, caller, next, results, stored, committed, flushing>>

FinishSend(thread) ==
    /\ Out!FinishSend(Self, thread)
    /\ UNCHANGED <<waiterVars, callerVars>>

\* PoDOutboxThread
Flush ==
    /\ Out!FlushPoDOutbox(Self)
    /\ UNCHANGED <<waiterVars, callerVars>>

BeginFlush ==
    /\ Out!BeginFlush(Self)
    /\ UNCHANGED <<waiterVars, callerVars>>

\* The finalizer looks for the proof of the rotation in the database.
CollectsAgain ==
    \/ caller = "collector"
    \/ caller = "finalizer" /\ ~HasProof(stored, Current)

\* The collector begins at its tracker again, the announcement is not made up
\* for: it follows the rotation, which is done.
RestartCaller ==
    /\ Trouble
    /\ NewWaiter
    /\ step' = IF CollectsAgain THEN "collect" ELSE "over"
    /\ next' = IF CollectsAgain THEN Current ELSE next
    /\ results' = {}
    /\ Out!LoseSends(Self)
    /\ UNCHANGED <<caller, stored, committed>>

\* What goes on by itself; flushes are apart because they may fail for ever.
Progress ==
    \/ WaiterStep /\ UNCHANGED <<callerVars, podVars>>
    \/ Ask \/ UseStoredProof \/ EndJob \/ EndAttempt
    \/ Commit \/ NextWindow \/ StoreProof \/ QueueProof \/ AdvanceTracker
    \/ SendProof \/ BeginFlush
    \/ \E thread \in SendingThread \cup {Out!Flusher} : FinishSend(thread)

ProofsNext == Progress \/ Flush \/ RestartCaller

ProofsSpec == ProofsInit /\ [][ProofsNext]_proofsVars

-----------------------------------------------------------------------------
(* Liveness *)

\* The PoD answers a flush that is tried again and again.
Fairness ==
    /\ WF_proofsVars(Progress)
    /\ \A t \in Topic :
          SF_proofsVars(Flush /\ [thread |-> Out!Flusher, message |-> t,
                                  acked |-> TRUE] \in sends'[Self])

FairProofsSpec == ProofsSpec /\ Fairness

-----------------------------------------------------------------------------
(* Properties *)

\* Every proof that a round has made, and that is stored, verifies: a majority
\* has signed its topic, although answers of other rounds, repeated answers and
\* answers with the signatures of others have come in meanwhile.
ProofsAreSigned ==
    \A x \in results \cup stored :
        /\ Cardinality(x.signers) >= GetQuorumMajority
        /\ \A v \in x.signers \cap Honest : <<v, x.topic>> \in signed

\* A proof that is not made again gets to the PoD: the PoD has it, or the outbox
\* keeps it, over crashes.  That is the proof of a height the collector has left
\* behind, or of a rotation that the finalizer finds in the database.
FinishedProofsAreSent ==
    /\ \A h \in Height : h <= committed =>
          HasProof(stored, h) /\ (h \in pod \/ h \in outbox[Self])
    /\ caller = "finalizer" /\ HasProof(stored, Current) =>
          Current \in pod \/ Current \in outbox[Self]

\* The outbox does what PodDelivery says: in whatever order the finalizer, after
\* a crash, and the flusher learn what became of the same message, it leaves the
\* node's charge only when the PoD has it, or in a crash.
Pod == INSTANCE PodDelivery
           WITH Sender <- {Self}, Message <- Topic,
                charge <- [n \in {Self} |->
                              outbox[n] \cup {s.message : s \in sends[n]}]

OutboxDelivers ==
    Pod!DeliveryInit /\ [][Pod!DeliveryNext(RestartCaller)]_(Pod!deliveryVars)

\* Without faulty peers that answer, the collector gets all of its heights to
\* the PoD after the troubles have ended: no peer stays without a connection,
\* no answer is waited for in vain.  The finalizer gets its proof there, and an
\* announcement that meets with no trouble gets there, too.
ProofsGetDelivered ==
    reachable \subseteq Honest =>
        <>(/\ caller = "collector" => Height \subseteq pod
           /\ caller = "finalizer" => Current \in pod
           /\ caller = "announcer" => trouble > 0 \/ Current \in pod)
=============================================================================
