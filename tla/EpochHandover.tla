--------------------------- MODULE EpochHandover ---------------------------
(***************************************************************************)
(* How the quorum of one epoch hands over to the next.                     *)
(*                                                                         *)
(* When the members have placed the last block of epoch e, a finalizer of  *)
(* epoch e + 1 collects the aggregated epoch rotation proof (AERP) of e,   *)
(* gives it to the anchors, and makes their signatures an acknowledgement  *)
(* (ack) of e + 1, which goes to the PoD and to the members.  No member    *)
(* signs a height of e + 1 before it has the ack.  Executors enter e + 1   *)
(* with the AERP and the first proven heights (AHP).                      *)
(*                                                                         *)
(* The quorum is the same in all epochs, and an epoch stands for its data  *)
(* and its last block: EpochRotation and LastMile have that honest members *)
(* agree on them.                                                          *)
(***************************************************************************)
EXTENDS CoreQuorum

CONSTANTS
    MaxEpoch,      \* bound: the last epoch
    FirstEpoch,    \* the epochs up to here have been handed over already
    Finalizers,    \* selectLastMileFinalizersForEpoch, for every epoch
    HonestAnchor,  \* anchors that store what they acknowledge
    FaultyAnchor   \* anchors whose signatures are arbitrary

Epoch == 0 .. MaxEpoch

ASSUME HandoverAssumption ==
    /\ MaxEpoch \in Nat
    /\ FirstEpoch \in Epoch
    /\ Finalizers \in [Epoch -> SUBSET Honest]
    /\ IsFiniteSet(HonestAnchor)
    /\ IsFiniteSet(FaultyAnchor)

\* The keys under which proofs are stored and sent: an AERP has the epoch that
\* ends, the others the epoch that begins.
Proof == [kind : {"aerp", "ack", "ahp"}, epoch : Epoch]

Aerp(e)         == [kind |-> "aerp", epoch |-> e]
Ack(e)          == [kind |-> "ack", epoch |-> e]
Ahp(e)          == [kind |-> "ahp", epoch |-> e]

VARIABLES
    rotated,     \* epoch of the approvement thread
    sequenced,   \* epochs whose last block the node has placed
    executed,    \* epoch of the execution thread
    stored,      \* proofs in the node's database
    cursor,      \* lastRotationEpoch + 1
    handover,    \* the rotation proof the finalizer thread works on
    anchored,    \* epochs whose AERP the honest anchors have (external)
    pushed,      \* epochs whose ack has been sent to the members
    mishap,      \* something has failed that the code does not try again
    pod, charge

nodeVars == <<rotated, sequenced, executed, stored, cursor, handover>>
vars == <<nodeVars, anchored, pushed, mishap, pod, charge>>

Pod == INSTANCE PodDelivery WITH Sender <- Honest, Message <- Proof

Steps == {"delivered", "published", "stored", "acked", "sent"}

TypeOK ==
    /\ rotated \in [Honest -> Epoch]
    /\ sequenced \in [Honest -> Epoch]
    /\ executed \in [Honest -> Epoch]
    /\ stored \in [Honest -> SUBSET Proof]
    /\ cursor \in [Honest -> Epoch]
    /\ handover \in [Honest -> SUBSET
          [epoch : Epoch, step : Steps, acked : BOOLEAN]]
    /\ anchored \in [HonestAnchor -> SUBSET Epoch]
    /\ pushed \subseteq Epoch
    /\ mishap \in BOOLEAN
    /\ Pod!DeliveryTypeOK

\* What every node has of the epochs up to FirstEpoch.
FirstProofs ==
    {Aerp(e) : e \in 0 .. FirstEpoch - 1} \cup
    UNION {{Ack(e), Ahp(e)} : e \in 1 .. FirstEpoch}

\* The nodes have all been started in FirstEpoch.
Init ==
    /\ rotated = [n \in Honest |-> FirstEpoch]
    /\ sequenced = rotated
    /\ executed = rotated
    /\ stored = [n \in Honest |-> FirstProofs]
    /\ cursor = [n \in Honest |-> 0]
    /\ handover = [n \in Honest |-> {}]
    /\ anchored = [a \in HonestAnchor |-> 0 .. FirstEpoch - 1]
    /\ pushed = {}
    /\ mishap = FALSE
    /\ Pod!DeliveryInit

-----------------------------------------------------------------------------
(* Certificates *)

\* GetEpochRotationProof: who signs the rotation from epoch e.
RotationSigners(e) == {v \in Honest : sequenced[v] > e /\ rotated[v] > e}

\* Mutation: heights are signed without an ack.
AckIsNotNeeded(v, e) == TRUE

\* isAnchorEpochAckAvailable
HasAck(v, e) == e > 0 => Ack(e) \in stored[v]

\* GetHeightProof: who signs heights of epoch e.
HeightSigners(e) == {v \in Honest : HasAck(v, e) /\ sequenced[v] >= e}

AnchorsMajority ==
    LET n == Cardinality(HonestAnchor \cup FaultyAnchor)
        m == (2 * n) \div 3 + 1
    IN  IF m > n THEN n ELSE m

\* VerifyAggregatedAnchorEpochAckProof, when the anchors of S have answered.
IsAnchorsMajority(S) == Cardinality(S \cup FaultyAnchor) >= AnchorsMajority

\* A proof that can be had from the PoD or over HTTP from another node.
IsAvailable(x) == x \in pod \/ \E m \in Honest : x \in stored[m]

Store(n, S) == stored' = [stored EXCEPT ![n] = @ \cup S]

-----------------------------------------------------------------------------
(* The threads that the handover follows *)

\* The rotation of the approvement thread; AnnounceEpochAfterRotation is started.
RotateEpoch(n) ==
    /\ rotated[n] < MaxEpoch
    /\ rotated' = [rotated EXCEPT ![n] = @ + 1]
    /\ UNCHANGED <<sequenced, executed, stored, cursor, handover, anchored,
                   pushed, mishap, pod, charge>>

\* The sequencer places the last block of an epoch, or its tracker is taken over
\* the end of the epoch by an AERP that has been fetched.
CompleteEpoch(n) ==
    /\ sequenced[n] < MaxEpoch
    /\ sequenced' = [sequenced EXCEPT ![n] = @ + 1]
    /\ UNCHANGED <<rotated, executed, stored, cursor, handover, anchored,
                   pushed, mishap, pod, charge>>

\* fetchVerifiedAggregatedEpochRotationProof: the executor looks for the next
\* height at the quorum of the next epoch, or the sequencer is to be taken to
\* the current epoch.
FetchRotationProof(n) ==
    \E e \in {executed[n], sequenced[n]} :
        /\ e < MaxEpoch
        /\ e = executed[n] \/ e < rotated[n]
        /\ IsAvailable(Aerp(e))
        /\ Store(n, {Aerp(e)})
        /\ UNCHANGED <<rotated, sequenced, executed, cursor, handover,
                       anchored, pushed, mishap, pod, charge>>

\* The next two heights are proven, and they are of a later epoch: the next one,
\* unless it has no blocks.
EnterEpoch(n) ==
    LET e == executed[n]
    IN  /\ IsAvailable(Aerp(e))
        /\ \E later \in e + 1 .. MaxEpoch :
              /\ IsAvailable(Ahp(later))
              /\ Store(n, {Aerp(e), Ahp(later)})
        /\ executed' = [executed EXCEPT ![n] = e + 1]
        /\ UNCHANGED <<rotated, sequenced, cursor, handover, anchored, pushed,
                       mishap, pod, charge>>

-----------------------------------------------------------------------------
(* The finalizer's part of LastMileFinalizerThread *)

\* Mutation: the cursor follows the epochs the node has placed ...
CursorFollowsSequencer(n) == sequenced[n] > cursor[n]

\* ... or only the rotation proofs the node has made itself.
CursorFollowsOwnProofs(n) == FALSE

\* lastRotationEpoch goes over the AERPs the node has, whoever made them.
CursorMayAdvance(n) == Aerp(cursor[n]) \in stored[n]

AdvanceCursor(n) ==
    /\ handover[n] = {}
    /\ cursor[n] < MaxEpoch
    /\ CursorMayAdvance(n)
    /\ cursor' = [cursor EXCEPT ![n] = @ + 1]
    /\ UNCHANGED <<rotated, sequenced, executed, stored, handover, anchored,
                   pushed, mishap, pod, charge>>

SetHandover(n, e, step, acked) ==
    handover' = [handover EXCEPT ![n] =
                    {[epoch |-> e, step |-> step, acked |-> acked]}]

\* deliverAggregatedEpochRotationProofToAnchors: some anchors store the proof,
\* and the answers of some of these arrive.  This is not tried again.
DeliverToAnchors(n, e) ==
    \E have \in SUBSET HonestAnchor : \E answered \in SUBSET have :
        /\ anchored' = [a \in HonestAnchor |->
                           IF a \in have THEN anchored[a] \cup {e}
                                         ELSE anchored[a]]
        /\ SetHandover(n, e, "delivered", IsAnchorsMajority(answered))
        /\ mishap' = (mishap \/ ~IsAnchorsMajority(answered))

\* tryCollectAggregatedEpochRotationProofWithConns gets its majority, and the
\* proof goes to the anchors.
CollectRotationProof(n) ==
    LET e == cursor[n]
    IN  /\ handover[n] = {}
        /\ rotated[n] > e
        /\ sequenced[n] > e
        /\ Aerp(e) \notin stored[n]
        /\ n \in Finalizers[e + 1]
        /\ IsMajority(RotationSigners(e))
        /\ DeliverToAnchors(n, e)
        /\ UNCHANGED <<rotated, sequenced, executed, stored, cursor, pushed,
                       pod, charge>>

PublishRotationProof(n) ==
    \E h \in handover[n] :
        /\ h.step = "delivered"
        /\ Pod!Take(n, Aerp(h.epoch))
        /\ SetHandover(n, h.epoch, "published", h.acked)
        /\ UNCHANGED <<rotated, sequenced, executed, stored, cursor,
                       anchored, pushed, mishap>>

StoreRotationProof(n) ==
    \E h \in handover[n] :
        /\ h.step = "published"
        /\ Store(n, {Aerp(h.epoch)})
        /\ SetHandover(n, h.epoch, "stored", h.acked)
        /\ UNCHANGED <<rotated, sequenced, executed, cursor, anchored, pushed,
                       mishap, pod, charge>>

\* Mutation: the ack is stored without its signatures' being counted.
StoreAnyAck(n) ==
    \E h \in handover[n] :
        /\ h.step = "stored"
        /\ Store(n, {Ack(h.epoch + 1)})
        /\ SetHandover(n, h.epoch, "acked", h.acked)
        /\ UNCHANGED <<rotated, sequenced, executed, cursor, anchored, pushed,
                       mishap, pod, charge>>

StoreAck(n) ==
    \E h \in handover[n] :
        /\ h.step = "stored" /\ h.acked
        /\ Store(n, {Ack(h.epoch + 1)})
        /\ SetHandover(n, h.epoch, "acked", h.acked)
        /\ UNCHANGED <<rotated, sequenced, executed, cursor, anchored, pushed,
                       mishap, pod, charge>>

PublishAck(n) ==
    \E h \in handover[n] :
        /\ h.step = "acked"
        /\ Pod!Take(n, Ack(h.epoch + 1))
        /\ SetHandover(n, h.epoch, "sent", h.acked)
        /\ UNCHANGED <<rotated, sequenced, executed, stored, cursor,
                       anchored, pushed, mishap>>

\* The members are sent the ack, each from a goroutine of its own, and the
\* cursor goes on, with an ack or without.
EndHandover(n) ==
    \E h \in handover[n] :
        /\ \/ h.step = "sent" /\ pushed' = pushed \cup {h.epoch + 1}
           \/ h.step = "stored" /\ ~h.acked /\ UNCHANGED pushed
        /\ handover' = [handover EXCEPT ![n] = {}]
        /\ cursor' = [cursor EXCEPT ![n] = h.epoch + 1]
        /\ UNCHANGED <<rotated, sequenced, executed, stored, anchored, mishap,
                       pod, charge>>

-----------------------------------------------------------------------------
(* What the members do with the ack, and what it lets them do *)

\* AcceptAggregatedAnchorEpochAckProof: a pushed ack arrives, if it does.
AcceptAck(n, e) ==
    /\ e \in pushed
    /\ Store(n, {Ack(e)})
    /\ UNCHANGED <<rotated, sequenced, executed, cursor, handover, anchored,
                   pushed, mishap, pod, charge>>

\* A member that is asked for a height of epoch e and has no ack.  The map of
\* fetches in flight and the throttle only delay the next try.
MissesAck(n, e) ==
    /\ ~HasAck(n, e)
    /\ \E m \in Finalizers[e] : sequenced[m] >= e

\* tryPullAnchorEpochAck, from the PoD ...
PullAckFromPoD(n, e) ==
    /\ MissesAck(n, e)
    /\ Ack(e) \in pod
    /\ Store(n, {Ack(e)})
    /\ UNCHANGED <<rotated, sequenced, executed, cursor, handover, anchored,
                   pushed, mishap, pod, charge>>

\* ... and over HTTP: the first member that answers has to have it, because an
\* error is an answer too.
PullAckFromMember(n, e) ==
    /\ MissesAck(n, e)
    /\ \E m \in Honest : Ack(e) \in stored[m]
    /\ Store(n, {Ack(e)})
    /\ UNCHANGED <<rotated, sequenced, executed, cursor, handover, anchored,
                   pushed, mishap, pod, charge>>

\* The height proofs of an epoch are collected by its finalizers, or taken over
\* from others, stored, and queued for the PoD.
CommitHeightProofs(n, e) ==
    /\ e > 0
    /\ sequenced[n] >= e
    /\ Ahp(e) \notin stored[n]
    /\ \/ n \in Finalizers[e] /\ IsMajority(HeightSigners(e))
       \/ IsAvailable(Ahp(e))
    /\ Store(n, {Ahp(e)})
    /\ Pod!Take(n, Ahp(e))
    /\ UNCHANGED <<rotated, sequenced, executed, cursor, handover, anchored,
                   pushed, mishap>>

-----------------------------------------------------------------------------

\* PoDOutboxThread brings a message to the PoD.
DeliverToPoD(n) ==
    /\ \E x \in charge[n] :
          /\ pod' = pod \cup {x}
          /\ charge' = [charge EXCEPT ![n] = @ \ {x}]
    /\ UNCHANGED <<nodeVars, anchored, pushed, mishap>>

\* What is in memory is lost: the cursor starts over, and neither the rest of a
\* handover nor an announcement is taken up again.
Restart(n) ==
    /\ cursor' = [cursor EXCEPT ![n] = 0]
    /\ handover' = [handover EXCEPT ![n] = {}]
    /\ Pod!Forget(n)
    /\ mishap' = TRUE
    /\ UNCHANGED <<rotated, sequenced, executed, stored, anchored, pushed>>

FinalizerStep(n) ==
    \/ AdvanceCursor(n) \/ CollectRotationProof(n)
    \/ PublishRotationProof(n) \/ StoreRotationProof(n)
    \/ StoreAck(n) \/ PublishAck(n) \/ EndHandover(n)

MemberStep(n) ==
    \E e \in Epoch : \/ AcceptAck(n, e) \/ PullAckFromPoD(n, e)
                     \/ PullAckFromMember(n, e) \/ CommitHeightProofs(n, e)

NodeStep(n) ==
    \/ RotateEpoch(n) \/ CompleteEpoch(n)
    \/ FetchRotationProof(n) \/ EnterEpoch(n)
    \/ FinalizerStep(n) \/ MemberStep(n)
    \/ DeliverToPoD(n)
    \/ Restart(n)

Next == \E n \in Honest : NodeStep(n)

Spec == Init /\ [][Next]_vars

-----------------------------------------------------------------------------
(* Liveness *)

\* Threads that run go on, the outbox reaches the PoD in the end, and so does a
\* request for an ack.  Nothing is assumed of pushed acks, of other members, or
\* of the rotation proofs that others have made (FetchRotationProof).
Fairness ==
    \A n \in Honest :
        /\ WF_vars(RotateEpoch(n))
        /\ WF_vars(CompleteEpoch(n))
        /\ WF_vars(EnterEpoch(n))
        /\ WF_vars(FinalizerStep(n))
        /\ WF_vars(DeliverToPoD(n))
        /\ \A e \in Epoch : /\ WF_vars(PullAckFromPoD(n, e))
                             /\ WF_vars(CommitHeightProofs(n, e))

FairSpec == Spec /\ Fairness

-----------------------------------------------------------------------------
(* Properties *)

HaveAcked(e) ==
    IsAnchorsMajority({a \in HonestAnchor : e \in anchored[a]})

\* An executor leaves an epoch only when a majority of the members has placed
\* all of its blocks, and a majority of the anchors knows of the end of this
\* epoch, or of a later one if the next had no blocks.
ExecutionFollowsHandover ==
    \A n \in Honest : \A e \in Epoch : e < executed[n] =>
        /\ IsMajority(RotationSigners(e))
        /\ \E later \in Epoch : later >= e /\ HaveAcked(later)

\* Whoever has a proven height of an epoch, most of the members have the ack
\* of this epoch: the proof was not put together before.
HeightsFollowAcks ==
    \A e \in Epoch : e > 0 /\ IsAvailable(Ahp(e)) =>
        IsMajority({v \in Honest : Ack(e) \in stored[v]})

\* lastRotationEpoch passes over no epoch whose rotation proof is not in the
\* node's own database, from which others ask for it.
CursorPassesNothing ==
    \A n \in Honest : \A e \in Epoch : e < cursor[n] => Aerp(e) \in stored[n]

\* The epochs are handed over, whichever nodes are the finalizers of an epoch
\* and whoever has made the proofs before: no thread waits for a proof that
\* nobody is going to make.  It takes a delivery in which too few anchors answer,
\* or a restart, to stop this.
EveryEpochIsEntered ==
    <>(mishap \/ \A n \in Honest : executed[n] = MaxEpoch)
=============================================================================
