-------------------------- MODULE AnchorAlignment --------------------------
(***************************************************************************)
(* How a node reads the seals (ALFPs) of the leaders off the chains of the *)
(* anchors.                                                                *)
(*                                                                         *)
(* Three threads share SequenceAlignmentData: SequenceAlignmentThread      *)
(* walks over the blocks of the anchors (module AnchorChains),             *)
(* AnchorRotationMonitorThread learns the boundaries of the anchors that   *)
(* rotate away, and the finalizer thread starts the next epoch.  Each of   *)
(* the first two copies what it needs, works on the network without the    *)
(* lock, and applies the result under it.                                  *)
(***************************************************************************)
EXTENDS AnchorChains

VARIABLES
    epoch,        \* FINALIZER_THREAD_METADATA: EpochDataHandler.Id
    assumption,   \* CurrentAnchorAssumption
    observed,     \* CurrentAnchorBlockIndexObserved
    lastByAnchors,\* LastBlocksByAnchors: the anchors whose boundary is known
    lastByLeaders,\* LastBlocksByLeaders, as a set of leaders with their stat
    aligner,      \* what SequenceAlignmentThread has copied, at most one
    monitor       \* what AnchorRotationMonitorThread has copied

data    == <<epoch, assumption, observed, lastByAnchors, lastByLeaders>>
vars    == <<network, data, aligner, monitor>>

Recorded == [epoch : Epoch, leader : Leader, stat : Stat]

\* The epoch of a record is not stored: it is the epoch of the block it was
\* read from.
TypeOK ==
    /\ ChainsTypeOK
    /\ epoch \in Epoch
    /\ assumption \in Anchor
    /\ observed \in Index \cup {-1}
    /\ lastByAnchors \subseteq Anchor
    /\ lastByLeaders \subseteq Recorded
    /\ aligner \subseteq [epoch : Epoch, anchor : Anchor,
                          observed : Index \cup {-1}, flip : BOOLEAN]
    /\ monitor \subseteq [epoch : Epoch, anchor : Anchor]

Init ==
    /\ ChainsInit
    /\ epoch = 0
    /\ assumption = 0
    /\ observed = -1
    /\ lastByAnchors = {}
    /\ lastByLeaders = {}
    /\ aligner = {}
    /\ monitor = {}

-----------------------------------------------------------------------------
(* SequenceAlignmentThread *)

BoundaryKnown == assumption \in lastByAnchors

\* The copy, and the decision to flip to the next anchor or to fetch a block.
AlignerCopies ==
    /\ aligner = {}
    /\ aligner' =
          {[epoch |-> epoch, anchor |-> assumption, observed |-> observed,
            flip |-> BoundaryKnown /\ boundary[<<epoch, assumption>>] <= observed]}
    /\ UNCHANGED <<network, data, monitor>>

\* Under the lock the anchor is left if nothing has changed since the copy.
Flip(s) ==
    /\ s.flip
    /\ aligner' = {}
    /\ IF epoch = s.epoch /\ assumption = s.anchor /\ observed = s.observed
       THEN assumption' = assumption + 1 /\ observed' = -1
       ELSE UNCHANGED <<assumption, observed>>
    /\ UNCHANGED <<network, epoch, lastByAnchors, lastByLeaders, monitor>>

\* The block fetched is the boundary the monitor has moved the pointer to.
MatchesBoundary(i) ==
    /\ BoundaryKnown
    /\ boundary[<<epoch, assumption>>] = observed
    /\ boundary[<<epoch, assumption>>] = i

RecordsOf(found) ==
    {[epoch |-> x.at.epoch, leader |-> x.leader, stat |-> x.stat] : x \in found}

\* Mutation: a later ALFP of a leader replaces the earlier one.
WithLastAlfps(records, found) ==
    {r \in records : \A x \in found : r.leader # x.leader} \cup RecordsOf(found)

\* Only the first ALFP of a leader counts.
WithFirstAlfps(records, found) ==
    records \cup RecordsOf({x \in found : \A r \in records : r.leader # x.leader})

\* When a block has several valid ALFPs of one leader, one of them counts: the
\* last in the block, whose order is left open here.
OnePerLeader(S) ==
    {T \in SUBSET S :
        /\ \A x \in S : \E y \in T : y.leader = x.leader
        /\ \A x, y \in T : x.leader = y.leader => x = y}

\* The pointer only moves on if it still is what was copied.
Advance(s) == IF observed = s.observed THEN observed + 1 ELSE observed

SamePlace(s) == epoch = s.epoch /\ assumption = s.anchor

\* The fetched block is accepted, with the ALFPs in it.
AcceptBlock(s) ==
    LET i == s.observed + 1
    IN  /\ ~s.flip
        /\ Exists(s.epoch, s.anchor, i)
        /\ SamePlace(s)
        /\ MatchesBoundary(i) \/ FinalizedByNextAfp(s.epoch, s.anchor, i)
        /\ \E found \in OnePerLeader(AlfpsIn(s.epoch, s.anchor, i)) :
              lastByLeaders' = WithFirstAlfps(lastByLeaders, found)
        /\ observed' = Advance(s)
        /\ aligner' = {}
        /\ UNCHANGED <<network, epoch, assumption, lastByAnchors, monitor>>

\* The block cannot be fetched, is not final, or no longer of interest.
DropBlock(s) ==
    /\ ~s.flip
    /\ aligner' = {}
    /\ UNCHANGED <<network, data, monitor>>

-----------------------------------------------------------------------------
(* AnchorRotationMonitorThread *)

MonitorCopies ==
    /\ monitor = {}
    /\ monitor' = {[epoch |-> epoch, anchor |-> assumption]}
    /\ UNCHANGED <<network, data, aligner>>

\* Mutation: the boundary is recorded and the pointer left where it is.
KeepObserved(b) == observed

\* The pointer is moved up to the boundary.
JumpToBoundary(b) == IF observed < b THEN b ELSE observed

\* The response leads to the AARP of the anchor, and thus to its boundary.
LearnBoundary(s) ==
    /\ ProofCanBeFound(s.epoch, s.anchor)
    /\ monitor' = {}
    /\ IF epoch = s.epoch /\ assumption = s.anchor /\ ~BoundaryKnown
       THEN /\ lastByAnchors' = lastByAnchors \cup {s.anchor}
            /\ observed' = JumpToBoundary(boundary[<<s.epoch, s.anchor>>])
       ELSE UNCHANGED <<lastByAnchors, observed>>
    /\ UNCHANGED <<network, epoch, assumption, lastByLeaders, aligner>>

\* No response, or one that proves nothing.
MonitorFails(s) ==
    /\ monitor' = {}
    /\ UNCHANGED <<network, data, aligner>>

-----------------------------------------------------------------------------

\* rotateFinalizerEpochIfNeeded.  The sequencer does this once it has placed
\* every leader of the epoch, or when it is carried forward by an AERP, which
\* may be at any time.
RotateFinalizerEpoch ==
    /\ epoch < MaxEpoch
    /\ epoch' = epoch + 1
    /\ assumption' = 0
    /\ observed' = -1
    /\ lastByAnchors' = {}
    /\ lastByLeaders' = {}
    /\ UNCHANGED <<network, aligner, monitor>>

\* A restart: what the threads have copied is gone, what they have applied was
\* written under the lock.
Restart ==
    /\ aligner # {} \/ monitor # {}
    /\ aligner' = {}
    /\ monitor' = {}
    /\ UNCHANGED <<network, data>>

AlignerApplies == \E s \in aligner : Flip(s) \/ AcceptBlock(s) \/ DropBlock(s)
MonitorApplies == \E s \in monitor : LearnBoundary(s) \/ MonitorFails(s)

Next ==
    \/ AlignerCopies
    \/ AlignerApplies
    \/ MonitorCopies
    \/ MonitorApplies
    \/ RotateFinalizerEpoch
    \/ Restart

Spec == Init /\ [][Next]_vars

\* The threads loop for ever, and a block or a boundary that is there is
\* obtained in the end: fetches may fail again and again, but not always, nor
\* does the node always restart between a thread's copy and its use.
Fairness ==
    /\ WF_vars(AlignerCopies)
    /\ WF_vars(AlignerApplies)
    /\ WF_vars(MonitorCopies)
    /\ WF_vars(MonitorApplies)
    /\ SF_vars(\E s \in aligner : Flip(s))
    /\ SF_vars(\E s \in aligner : AcceptBlock(s))
    /\ SF_vars(\E s \in monitor : LearnBoundary(s))

FairSpec == Spec /\ Fairness

-----------------------------------------------------------------------------
(* Properties *)

\* The comment in SequenceAlignmentThread: "the observed pointer must never get
\* ahead of the AARP-certified boundary".  The walk over the blocks and the
\* monitor's jump, which overlap at will, never add up to more, whether the
\* boundary is known yet or not.
ObservedWithinBoundary ==
    RotatesAway(epoch, assumption) => observed <= boundary[<<epoch, assumption>>]

\* Every record was read from a final block of the current epoch, of the
\* current anchor up to the pointer or of an earlier anchor: nothing fetched
\* for an earlier epoch is applied after the switch, and nothing from a block
\* behind a boundary.
RecordsAreFinal ==
    \A r \in lastByLeaders :
        /\ r.epoch = epoch
        /\ \E x \in inclusions :
              /\ x.leader = r.leader /\ x.stat = r.stat
              /\ x.at.epoch = epoch
              /\ \/ x.at.anchor < assumption
                 \/ x.at.anchor = assumption /\ x.at.index <= observed
              /\ IF RotatesAway(epoch, x.at.anchor)
                 THEN x.at.index <= boundary[<<epoch, x.at.anchor>>]
                 ELSE x.at.index < MaxIndex

\* A record is made once: two anchors that include different ALFPs of one
\* leader do not change what the sequencer may already have used.
RecordsAreStable ==
    [][epoch' = epoch => lastByLeaders \subseteq lastByLeaders' /\
          \A r, q \in lastByLeaders' : r.leader = q.leader => r = q]_vars

\* The walk gets to the end of the chains: in the last epoch, every anchor that
\* rotates away is left, and every block of the one that does not is read
\* if it has a successor.  An anchor is left if the next one has a block.
ReachesTheEnd ==
    (epoch = MaxEpoch /\ \A a \in 0 .. active[epoch] - 1 : ProofCanBeFound(epoch, a))
        ~> assumption = active[epoch] /\ observed = MaxIndex - 1
=============================================================================
