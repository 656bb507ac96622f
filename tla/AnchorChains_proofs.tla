------------------------ MODULE AnchorChains_proofs -------------------------
(***************************************************************************)
(* The safety of the two readers of the anchors' chains, AnchorAlignment   *)
(* and AlfpWatcher, for every number of anchors, blocks, epochs and        *)
(* leaders, and every placement of the ALFPs.                              *)
(***************************************************************************)
EXTENDS AnchorAlignment, AlfpWatcher, FiniteSetTheorems, TLAPS

-----------------------------------------------------------------------------
(* AnchorAlignment *)

\* A boundary is only known of an anchor that rotates away.
BoundariesAreReal == \A a \in lastByAnchors : RotatesAway(epoch, a)

\* What SequenceAlignmentThread has copied is never ahead of the shared data,
\* and it only decides to leave an anchor that rotates away.
CopyIsBehind ==
    \A s \in aligner :
        /\ s.flip => RotatesAway(s.epoch, s.anchor)
        /\ s.epoch <= epoch
        /\ s.epoch = epoch /\ s.anchor = assumption => s.observed <= observed

IndInv == /\ TypeOK /\ BoundariesAreReal /\ CopyIsBehind
          /\ ObservedWithinBoundary /\ RecordsAreFinal

\* The chains of the anchors do not change.
USE DEF network, ChainsTypeOK, RotatesAway
-----------------------------------------------------------------------------

\* Places and pointers are integers, and so are the limits they are compared
\* with.
LEMMA Numbers ==
    ASSUME TypeOK
    PROVE  /\ MaxIndex \in Int
           /\ epoch \in Int /\ assumption \in Int /\ observed \in Int
           /\ observed >= -1
           /\ \A e \in Epoch : active[e] \in Anchor /\ active[e] \in Int
           /\ \A e \in Epoch, a \in Anchor : /\ boundary[<<e, a>>] \in Int
                                             /\ boundary[<<e, a>>] >= -1
           /\ \A s \in aligner : /\ s.epoch \in Epoch /\ s.anchor \in Anchor
                                 /\ s.observed \in Int /\ s.observed >= -1
                                 /\ s.epoch \in Int /\ s.anchor \in Int
<1>1. NumAnchors \in Int /\ MaxIndex \in Int /\ MaxEpoch \in Int
  BY AnchorsAssumption
<1>2. \A e \in Epoch, a \in Anchor : boundary[<<e, a>>] \in Index \cup {-1}
  BY DEF TypeOK
<1>2a. \A e \in Epoch : active[e] \in Anchor
  BY DEF TypeOK
<1>3. /\ epoch \in Epoch /\ assumption \in Anchor
      /\ observed \in Index \cup {-1}
  BY DEF TypeOK
<1>4. \A s \in aligner : /\ s.epoch \in Epoch /\ s.anchor \in Anchor
                         /\ s.observed \in Index \cup {-1}
  BY DEF TypeOK
<1> QED
  BY <1>1, <1>2, <1>2a, <1>3, <1>4 DEF Index, Epoch, Anchor

\* A record that was final stays so when the walk only gets further within the
\* epoch.
LEMMA RecordsStayFinal ==
    ASSUME TypeOK, RecordsAreFinal, UNCHANGED <<network, epoch>>,
           lastByLeaders' \subseteq lastByLeaders,
           \/ assumption' = assumption /\ observed' \in Int /\ observed <= observed'
           \/ assumption' = assumption + 1
    PROVE  RecordsAreFinal'
<1> SUFFICES ASSUME NEW r \in lastByLeaders
             PROVE  /\ r.epoch = epoch'
                    /\ \E x \in inclusions :
                          /\ x.leader = r.leader /\ x.stat = r.stat
                          /\ x.at.epoch = epoch'
                          /\ \/ x.at.anchor < assumption'
                             \/ x.at.anchor = assumption' /\ x.at.index <= observed'
                          /\ IF x.at.anchor < active'[epoch']
                             THEN x.at.index <= boundary'[<<epoch', x.at.anchor>>]
                             ELSE x.at.index < MaxIndex
  BY DEF RecordsAreFinal
<1>1. PICK x \in inclusions :
          /\ x.leader = r.leader /\ x.stat = r.stat
          /\ x.at.epoch = epoch
          /\ \/ x.at.anchor < assumption
             \/ x.at.anchor = assumption /\ x.at.index <= observed
          /\ IF RotatesAway(epoch, x.at.anchor)
             THEN x.at.index <= boundary[<<epoch, x.at.anchor>>]
             ELSE x.at.index < MaxIndex
  BY DEF RecordsAreFinal
<1>2. x.at.anchor \in Int /\ x.at.index \in Int
  BY AnchorsAssumption DEF TypeOK, Inclusion, Place, Anchor, Index
<1>3. \/ x.at.anchor < assumption'
      \/ x.at.anchor = assumption' /\ x.at.index <= observed'
  BY <1>1, <1>2, Numbers
<1> QED
  BY <1>1, <1>3 DEF RecordsAreFinal

\* At the start nothing has been read.
LEMMA IndInvInit == Init => IndInv
<1> SUFFICES ASSUME Init PROVE IndInv
  OBVIOUS
<1>1. 0 \in Epoch /\ 0 \in Anchor
  BY AnchorsAssumption DEF Epoch, Anchor
<1>2. ChainsTypeOK
  BY DEF Init, ChainsInit, ChainsTypeOK
<1>3. TypeOK
  BY <1>1, <1>2 DEF Init, TypeOK
<1>4. boundary[<<0, 0>>] >= -1
  BY <1>1, <1>3, Numbers
<1>5. ObservedWithinBoundary
  BY <1>4 DEF Init, ObservedWithinBoundary
<1> QED
  BY <1>3, <1>5 DEF Init, IndInv, CopyIsBehind, BoundariesAreReal, RecordsAreFinal

\* Flip: the anchor left is not the last one, and the walk starts before the
\* first block of the next.
LEMMA FlipStep == ASSUME IndInv, NEW s \in aligner, Flip(s) PROVE IndInv'
<1> USE DEF IndInv, BoundariesAreReal
<1>1. CASE epoch = s.epoch /\ assumption = s.anchor /\ observed = s.observed
  <2>1. assumption' = assumption + 1 /\ observed' = -1
    BY <1>1 DEF Flip
  <2>2. assumption' \in Anchor
    BY <1>1, <2>1, Numbers, AnchorsAssumption
       DEF Flip, CopyIsBehind, Anchor
  <2>3. TypeOK'
    BY <2>1, <2>2 DEF Flip, TypeOK, network
  <2>4. ObservedWithinBoundary'
    BY <2>1, <2>2, Numbers DEF Flip, ObservedWithinBoundary, TypeOK
  <2>5. RecordsAreFinal'
    BY <2>1, RecordsStayFinal DEF Flip
  <2> QED
    BY <2>3, <2>4, <2>5 DEF Flip, CopyIsBehind
<1>2. CASE ~(epoch = s.epoch /\ assumption = s.anchor /\ observed = s.observed)
  <2>1. UNCHANGED <<network, data, monitor>> /\ aligner' = {}
    BY <1>2 DEF Flip, data
  <2>2. TypeOK'
    BY <2>1 DEF TypeOK, data
  <2>3. ObservedWithinBoundary' /\ RecordsAreFinal'
    BY <2>1 DEF ObservedWithinBoundary, RecordsAreFinal, data
  <2> QED
    BY <2>1, <2>2, <2>3 DEF CopyIsBehind, data
<1> QED
  BY <1>1, <1>2

\* AcceptBlock: the pointer stays on blocks that exist, and what is recorded
\* was read from the block it now covers.
LEMMA AcceptBlockStep ==
    ASSUME IndInv, NEW s \in aligner, AcceptBlock(s) PROVE IndInv'
<1> USE DEF IndInv, BoundariesAreReal
<1> DEFINE i == s.observed + 1
<1>1. /\ epoch = s.epoch /\ assumption = s.anchor /\ Exists(epoch, assumption, i)
      /\ MatchesBoundary(i) \/ FinalizedByNextAfp(epoch, assumption, i)
      /\ aligner' = {} /\ UNCHANGED <<network, epoch, assumption, lastByAnchors,
                                      monitor>>
  BY DEF AcceptBlock, SamePlace
<1>2. i \in Index /\ i \in Int
  BY <1>1, AnchorsAssumption DEF Exists, Index
<1>3. /\ observed' \in Index \cup {-1} /\ observed' \in Int
      /\ observed <= observed' /\ i <= observed'
      /\ observed' = observed \/ observed' = i
  BY <1>1, <1>2, Numbers DEF AcceptBlock, Advance, CopyIsBehind, TypeOK
<1>4. ObservedWithinBoundary'
  BY <1>1, <1>3, Numbers DEF Exists, ObservedWithinBoundary, network
<1>5. PICK found \in OnePerLeader(AlfpsIn(epoch, assumption, i)) :
          lastByLeaders' = WithFirstAlfps(lastByLeaders, found)
  BY <1>1 DEF AcceptBlock
<1>6. \A x \in found : /\ x \in inclusions
                       /\ x.at.epoch = epoch /\ x.at.anchor = assumption
                       /\ x.at.index = i
  BY <1>5 DEF OnePerLeader, AlfpsIn
<1>7. lastByLeaders' \subseteq Recorded
  BY <1>5, <1>6 DEF WithFirstAlfps, RecordsOf, Recorded, TypeOK, Inclusion
<1>8. TypeOK'
  BY <1>1, <1>3, <1>7 DEF TypeOK
<1>9. IF RotatesAway(epoch, assumption) THEN i <= boundary[<<epoch, assumption>>]
      ELSE i < MaxIndex
  <2>1. CASE ~RotatesAway(epoch, assumption)
    BY <1>1, <2>1 DEF MatchesBoundary, BoundaryKnown, BoundariesAreReal,
                      FinalizedByNextAfp
  <2>2. CASE RotatesAway(epoch, assumption)
    BY <1>1, <2>2 DEF Exists
  <2> QED
    BY <2>1, <2>2
<1>10. RecordsAreFinal'
  <2> SUFFICES ASSUME NEW r \in lastByLeaders'
               PROVE  /\ r.epoch = epoch
                      /\ \E x \in inclusions :
                            /\ x.leader = r.leader /\ x.stat = r.stat
                            /\ x.at.epoch = epoch
                            /\ \/ x.at.anchor < assumption
                               \/ x.at.anchor = assumption
                                     /\ x.at.index <= observed'
                            /\ IF RotatesAway(epoch, x.at.anchor)
                               THEN x.at.index <= boundary[<<epoch, x.at.anchor>>]
                               ELSE x.at.index < MaxIndex
    BY <1>1 DEF RecordsAreFinal
  <2>1. CASE r \in lastByLeaders
    <3>1. PICK x \in inclusions :
              /\ x.leader = r.leader /\ x.stat = r.stat
              /\ x.at.epoch = epoch
              /\ \/ x.at.anchor < assumption
                 \/ x.at.anchor = assumption /\ x.at.index <= observed
              /\ IF RotatesAway(epoch, x.at.anchor)
                 THEN x.at.index <= boundary[<<epoch, x.at.anchor>>]
                 ELSE x.at.index < MaxIndex
      BY <2>1 DEF RecordsAreFinal
    <3>2. x.at.index \in Int
      BY AnchorsAssumption DEF TypeOK, Inclusion, Place, Index
    <3>3. observed \in Int
      BY Numbers
    <3>4. x.at.index <= observed => x.at.index <= observed'
      BY <1>3, <3>2, <3>3
    <3> QED
      BY <2>1, <3>1, <3>4 DEF RecordsAreFinal
  <2>2. CASE r \notin lastByLeaders
    <3>1. PICK x \in found : r = [epoch |-> x.at.epoch, leader |-> x.leader,
                                  stat |-> x.stat]
      BY <1>5, <2>2 DEF WithFirstAlfps, RecordsOf
    <3> QED
      BY <1>3, <1>6, <1>9, <3>1
  <2> QED
    BY <2>1, <2>2
<1> QED
  BY <1>1, <1>4, <1>8, <1>10 DEF CopyIsBehind

\* LearnBoundary: the pointer moves up to the boundary and no further.
LEMMA LearnBoundaryStep ==
    ASSUME IndInv, NEW s \in monitor, LearnBoundary(s) PROVE IndInv'
<1> USE DEF IndInv, BoundariesAreReal
<1>1. CASE epoch = s.epoch /\ assumption = s.anchor /\ ~BoundaryKnown
  <2> DEFINE b == boundary[<<epoch, assumption>>]
  <2>1. /\ lastByAnchors' = lastByAnchors \cup {assumption}
        /\ observed' = IF observed < b THEN b ELSE observed
        /\ RotatesAway(epoch, assumption) /\ monitor' = {}
        /\ UNCHANGED <<network, epoch, assumption, lastByLeaders, aligner>>
    BY <1>1 DEF LearnBoundary, ProofCanBeFound, JumpToBoundary
  <2>2. b \in Index \cup {-1} /\ b \in Int /\ epoch \in Epoch
          /\ assumption \in Anchor
    BY Numbers DEF TypeOK
  <2>3. /\ observed' \in Index \cup {-1} /\ observed' \in Int
        /\ observed <= observed' /\ b <= observed'
        /\ observed' = observed \/ observed' = b
    BY <2>1, <2>2, Numbers DEF TypeOK
  <2>4. BoundariesAreReal'
    BY <2>1 DEF BoundariesAreReal
  <2>5. TypeOK'
    BY <2>1, <2>2, <2>3 DEF TypeOK
  <2>6. ObservedWithinBoundary'
    BY <2>1, <2>2, <2>3 DEF ObservedWithinBoundary
  <2>7. RecordsAreFinal'
    BY <2>1, <2>3, RecordsStayFinal
  <2>8. CopyIsBehind'
    BY <2>1, <2>3, Numbers DEF CopyIsBehind
  <2> QED
    BY <2>4, <2>5, <2>6, <2>7, <2>8
<1>2. CASE ~(epoch = s.epoch /\ assumption = s.anchor /\ ~BoundaryKnown)
  <2>1. UNCHANGED <<network, data, aligner>> /\ monitor' = {}
    BY <1>2 DEF LearnBoundary, data
  <2> QED
    BY <2>1 DEF TypeOK, CopyIsBehind, ObservedWithinBoundary, RecordsAreFinal,
                data
<1> QED
  BY <1>1, <1>2

\* The next epoch starts from nothing, and whatever was copied is of an earlier
\* one.
LEMMA RotateFinalizerEpochStep ==
    ASSUME IndInv, RotateFinalizerEpoch PROVE IndInv'
<1> USE DEF IndInv, BoundariesAreReal
<1>1. /\ epoch' = epoch + 1 /\ assumption' = 0 /\ observed' = -1
      /\ lastByAnchors' = {} /\ lastByLeaders' = {}
      /\ UNCHANGED <<network, aligner, monitor>>
  BY DEF RotateFinalizerEpoch
<1>2. epoch' \in Epoch /\ 0 \in Anchor
  BY <1>1, AnchorsAssumption DEF RotateFinalizerEpoch, TypeOK, Epoch, Anchor
<1>3. TypeOK'
  BY <1>1, <1>2 DEF TypeOK
<1>4. ObservedWithinBoundary'
  BY <1>1, <1>2, Numbers DEF ObservedWithinBoundary
<1>5. CopyIsBehind'
  BY <1>1, Numbers DEF CopyIsBehind
<1> QED
  BY <1>1, <1>3, <1>4, <1>5 DEF RecordsAreFinal

\* Steps that only touch what the threads have copied.
LEMMA ThreadStep ==
    ASSUME IndInv, UNCHANGED <<network, data>>,
           \/ AlignerCopies \/ MonitorCopies
           \/ aligner' = {} /\ monitor' \subseteq monitor
           \/ aligner' = aligner /\ monitor' \subseteq monitor
    PROVE  IndInv'
<1> USE DEF IndInv, BoundariesAreReal, data
<1>1. ObservedWithinBoundary' /\ RecordsAreFinal'
  BY DEF ObservedWithinBoundary, RecordsAreFinal
<1>2. /\ epoch \in Epoch /\ assumption \in Anchor
      /\ observed \in Index \cup {-1}
      /\ aligner \subseteq [epoch : Epoch, anchor : Anchor,
                            observed : Index \cup {-1}, flip : BOOLEAN]
      /\ monitor \subseteq [epoch : Epoch, anchor : Anchor]
  BY DEF TypeOK
<1>3. CASE AlignerCopies
  <2>1. PICK f \in BOOLEAN :
           /\ aligner' = {[epoch |-> epoch, anchor |-> assumption,
                           observed |-> observed, flip |-> f]}
           /\ f => BoundaryKnown
    BY <1>3 DEF AlignerCopies
  <2>2. BoundaryKnown => RotatesAway(epoch, assumption)
    BY DEF BoundaryKnown, BoundariesAreReal
  <2>3. CopyIsBehind'
    BY <2>1, <2>2, Numbers DEF CopyIsBehind
  <2>4. TypeOK'
    BY <1>2, <1>3, <2>1 DEF AlignerCopies, TypeOK
  <2> QED
    BY <1>1, <2>3, <2>4
<1>4. CASE ~AlignerCopies
  <2>1. aligner' \subseteq aligner
    BY <1>4 DEF MonitorCopies
  <2>2. monitor' \subseteq [epoch : Epoch, anchor : Anchor]
    BY <1>2, <1>4 DEF MonitorCopies
  <2>3. TypeOK'
    BY <1>2, <2>1, <2>2 DEF TypeOK
  <2>4. CopyIsBehind'
    BY <2>1 DEF CopyIsBehind
  <2> QED
    BY <1>1, <2>3, <2>4
<1> QED
  BY <1>3, <1>4

\* Every step of every thread keeps the inductive invariant.
LEMMA IndInvNext == IndInv /\ [Next]_vars => IndInv'
<1> SUFFICES ASSUME IndInv, [Next]_vars PROVE IndInv'
  OBVIOUS
<1>1. CASE AlignerCopies
  BY <1>1, ThreadStep DEF AlignerCopies
<1>2. ASSUME NEW s \in aligner, Flip(s) PROVE IndInv'
  BY <1>2, FlipStep
<1>3. ASSUME NEW s \in aligner, AcceptBlock(s) PROVE IndInv'
  BY <1>3, AcceptBlockStep
<1>4. ASSUME NEW s \in aligner, DropBlock(s) PROVE IndInv'
  BY <1>4, ThreadStep DEF DropBlock
<1>5. CASE MonitorCopies
  BY <1>5, ThreadStep DEF MonitorCopies
<1>6. ASSUME NEW s \in monitor, LearnBoundary(s) PROVE IndInv'
  BY <1>6, LearnBoundaryStep
<1>7. ASSUME NEW s \in monitor, MonitorFails(s) PROVE IndInv'
  BY <1>7, ThreadStep DEF MonitorFails
<1>8. CASE RotateFinalizerEpoch
  BY <1>8, RotateFinalizerEpochStep
<1>9. CASE Restart
  BY <1>9, ThreadStep DEF Restart
<1>10. CASE UNCHANGED vars
  BY <1>10, ThreadStep DEF vars
<1> QED
  BY <1>1, <1>2, <1>3, <1>4, <1>5, <1>6, <1>7, <1>8, <1>9, <1>10
     DEF Next, AlignerApplies, MonitorApplies

\* The inductive invariant holds in every behaviour.
LEMMA Invariance == Spec => []IndInv
  BY IndInvInit, IndInvNext, PTL DEF Spec

-----------------------------------------------------------------------------

\* Every variable keeps its type: in particular the walk never leaves the last
\* anchor.
THEOREM TypeCorrect == Spec => []TypeOK
  BY Invariance, PTL DEF IndInv

\* The observed pointer never gets ahead of the boundary, whatever the two
\* threads and the epoch switch do between a copy and its use.
THEOREM WithinBoundary == Spec => []ObservedWithinBoundary
  BY Invariance, PTL DEF IndInv

\* Every recorded seal was read from a final block of the current epoch that
\* the walk has passed.
THEOREM FinalRecords == Spec => []RecordsAreFinal
  BY Invariance, PTL DEF IndInv

-----------------------------------------------------------------------------

\* A leader has one record.
OneRecord == \A r, q \in lastByLeaders : r.leader = q.leader => r = q

\* What a step of the specification does to the records while the epoch lasts.
RecordsOnlyGrow == epoch' = epoch => lastByLeaders \subseteq lastByLeaders' /\ OneRecord'

\* The only step that adds records adds none for a leader that has one, and
\* one for each other leader it finds.
LEMMA AcceptBlockRecords ==
    ASSUME OneRecord, NEW s \in aligner, AcceptBlock(s)
    PROVE  lastByLeaders \subseteq lastByLeaders' /\ OneRecord'
<1>1. PICK found \in OnePerLeader(AlfpsIn(s.epoch, s.anchor, s.observed + 1)) :
          lastByLeaders' = WithFirstAlfps(lastByLeaders, found)
  BY DEF AcceptBlock
<1>2. \A x, y \in found : x.leader = y.leader => x = y
  BY <1>1 DEF OnePerLeader
<1> DEFINE new == {x \in found : \A r \in lastByLeaders : r.leader # x.leader}
<1>3. lastByLeaders' = lastByLeaders \cup RecordsOf(new)
  BY <1>1 DEF WithFirstAlfps
<1>4. \A r \in RecordsOf(new) : \E x \in new :
          r = [epoch |-> x.at.epoch, leader |-> x.leader, stat |-> x.stat]
  BY DEF RecordsOf
<1>5. ASSUME NEW r \in lastByLeaders', NEW q \in lastByLeaders',
             r.leader = q.leader
      PROVE  r = q
  <2>1. CASE r \in lastByLeaders /\ q \in lastByLeaders
    BY <1>5, <2>1 DEF OneRecord
  <2>2. CASE r \in RecordsOf(new) /\ q \in RecordsOf(new)
    BY <1>2, <1>4, <1>5, <2>2
  <2>3. CASE r \in lastByLeaders /\ q \in RecordsOf(new)
    BY <1>4, <1>5, <2>3
  <2>4. CASE r \in RecordsOf(new) /\ q \in lastByLeaders
    BY <1>4, <1>5, <2>4
  <2> QED
    BY <1>3, <2>1, <2>2, <2>3, <2>4
<1> QED
  BY <1>3, <1>5 DEF OneRecord

\* No step changes a record of the epoch.
LEMMA RecordsStep ==
    TypeOK /\ OneRecord /\ [Next]_vars => RecordsOnlyGrow /\ OneRecord'
<1> SUFFICES ASSUME TypeOK, OneRecord, [Next]_vars
             PROVE  RecordsOnlyGrow /\ OneRecord'
  OBVIOUS
<1>1. ASSUME NEW s \in aligner, AcceptBlock(s) PROVE RecordsOnlyGrow /\ OneRecord'
  BY <1>1, AcceptBlockRecords DEF RecordsOnlyGrow
<1>2. CASE RotateFinalizerEpoch
  <2>1. epoch' # epoch /\ lastByLeaders' = {}
    BY <1>2, Numbers DEF RotateFinalizerEpoch
  <2> QED
    BY <2>1 DEF RecordsOnlyGrow, OneRecord
<1>3. CASE UNCHANGED lastByLeaders
  BY <1>3 DEF RecordsOnlyGrow, OneRecord
<1>4. \/ UNCHANGED lastByLeaders
      \/ RotateFinalizerEpoch
      \/ \E s \in aligner : AcceptBlock(s)
  BY DEF Next, AlignerCopies, AlignerApplies, Flip, DropBlock, MonitorCopies,
         MonitorApplies, LearnBoundary, MonitorFails, Restart, vars, data
<1> QED
  BY <1>1, <1>2, <1>3, <1>4

\* A record, once made, is neither changed nor replaced while the epoch lasts:
\* whichever of several ALFPs of a leader comes first on the walk is the one
\* the sequencer uses.
THEOREM StableRecords == Spec => RecordsAreStable
<1>1. Init => OneRecord
  BY DEF Init, OneRecord
<1>2. RecordsOnlyGrow /\ OneRecord' =>
         (epoch' = epoch => /\ lastByLeaders \subseteq lastByLeaders'
                            /\ \A r, q \in lastByLeaders' : r.leader = q.leader => r = q)
  BY DEF RecordsOnlyGrow, OneRecord
<1> QED
  BY <1>1, <1>2, RecordsStep, TypeCorrect, PTL DEF Spec, RecordsAreStable

-----------------------------------------------------------------------------
(* AlfpWatcher *)

\* An anchor that is never replaced has no boundary and no block after one.
OnlyReplacedHaveBoundaries ==
    \A e \in Epoch, a \in Anchor :
        ~RotatesAway(e, a) => boundary[<<e, a>>] = -1 /\ <<e, a>> \notin tail

\* Targets are only learnt for anchors that rotate away.
TargetsOk(e, at) == \A a \in at.targets : RotatesAway(e, a)

\* The thread's place is the one in the database, and it only looks at a block
\* of an anchor whose last block it can tell.
PlaceIsSaved ==
    /\ \A e \in Epoch : TargetsOk(e, saved[e])
    /\ \A w \in watcher : /\ w.at = saved[w.epoch]
                          /\ w.phase # "idle" => HasTarget(w)

PlaceOf(w) == [epoch |-> w.epoch, anchor |-> w.at.anchor, index |-> w.at.cursor]

\* The markers are left while the block at the place is final.
AcceptedIsFinal ==
    \A w \in watcher : w.phase = "accepted" => IsFinal(PlaceOf(w))

WatcherInv == /\ WatcherTypeOK /\ OnlyReplacedHaveBoundaries /\ PlaceIsSaved
              /\ AcceptedIsFinal /\ MarkersAreReal /\ NothingPassedOver

\* Places and boundaries are integers.
LEMMA WatcherNumbers ==
    ASSUME WatcherTypeOK
    PROVE  /\ NumAnchors \in Nat \ {0} /\ MaxIndex \in Nat /\ MaxEpoch \in Nat
           /\ \A e \in Epoch : active[e] \in Int /\ active[e] <= NumAnchors - 1
           /\ \A e \in Epoch, a \in Anchor :
                 boundary[<<e, a>>] \in Int /\ boundary[<<e, a>>] <= MaxIndex
           /\ \A x \in inclusions :
                 /\ x.at.epoch \in Epoch /\ x.at.anchor \in Anchor
                 /\ x.at.index \in Index
           /\ \A e \in Epoch : saved[e] \in WatcherState
           /\ \A w \in watcher : /\ w.epoch \in Epoch /\ w.at \in WatcherState
                                 /\ w.phase \in {"idle", "fetching", "accepted"}
<1>1. NumAnchors \in Nat \ {0} /\ MaxIndex \in Nat /\ MaxEpoch \in Nat
  BY AnchorsAssumption
<1>2. \A e \in Epoch : active[e] \in Int /\ active[e] <= NumAnchors - 1
  BY <1>1 DEF WatcherTypeOK, Anchor
<1>3. \A e \in Epoch, a \in Anchor :
          boundary[<<e, a>>] \in Int /\ boundary[<<e, a>>] <= MaxIndex
  <2> SUFFICES ASSUME NEW e \in Epoch, NEW a \in Anchor
               PROVE  boundary[<<e, a>>] \in Int /\ boundary[<<e, a>>] <= MaxIndex
    OBVIOUS
  <2>1. boundary[<<e, a>>] \in Index \cup {-1}
    BY DEF WatcherTypeOK
  <2>2. \A i \in Index \cup {-1} : i \in Int /\ i <= MaxIndex
    BY <1>1 DEF Index
  <2> QED
    BY <2>1, <2>2
<1>4. \A x \in inclusions : /\ x.at.epoch \in Epoch /\ x.at.anchor \in Anchor
                            /\ x.at.index \in Index
  BY DEF WatcherTypeOK, Inclusion, Place
<1> QED
  BY <1>1, <1>2, <1>3, <1>4 DEF WatcherTypeOK

\* The thread has never more than one place.
LEMMA OneWatcher ==
    ASSUME NEW w PROVE Cardinality({w}) <= 1 /\ Cardinality({}) <= 1
BY FS_Singleton, FS_EmptySet

\* At first the thread has no place and the database has none after the start.
LEMMA WatcherInvInit == WatcherInit => WatcherInv
<1> SUFFICES ASSUME WatcherInit PROVE WatcherInv
  OBVIOUS
<1>1. 0 \in Epoch /\ 0 \in Anchor /\ 0 \in Index
  BY AnchorsAssumption DEF Epoch, Anchor, Index
<1>2. NewAlfpWatcherState \in WatcherState
  BY <1>1 DEF NewAlfpWatcherState, WatcherState
<1>3. ChainsTypeOK /\ OnlyReplacedHaveBoundaries
  BY DEF WatcherInit, ChainsInit, OnlyReplacedHaveBoundaries
<1>4. WatcherTypeOK
  BY <1>1, <1>2, <1>3, FS_EmptySet DEF WatcherInit, WatcherTypeOK
<1>5. PlaceIsSaved /\ AcceptedIsFinal
  BY DEF WatcherInit, PlaceIsSaved, TargetsOk, NewAlfpWatcherState, AcceptedIsFinal
<1>6. MarkersAreReal
  BY DEF WatcherInit, MarkersAreReal
<1>7. NothingPassedOver
  <2> SUFFICES ASSUME NEW x \in inclusions PROVE ~Before(x.at, saved[x.at.epoch])
    BY DEF NothingPassedOver
  <2>1. /\ saved[x.at.epoch].anchor = 0 /\ saved[x.at.epoch].cursor = 0
        /\ x.at.anchor \in Anchor /\ x.at.index \in Index
    BY <1>4, WatcherNumbers DEF WatcherInit, NewAlfpWatcherState
  <2> QED
    BY <2>1, AnchorsAssumption DEF Before, Anchor, Index
<1> QED
  BY <1>3, <1>4, <1>5, <1>6, <1>7 DEF WatcherInv

\* Steps that leave the markers and the database alone keep the invariant when
\* they keep what it says of the thread.
LEMMA ThreadOnly ==
    ASSUME WatcherInv, UNCHANGED <<network, included, saved>>,
           progress' \in Epoch,
           \/ watcher' = {}
           \/ \E w \in [epoch : Epoch, at : WatcherState,
                       phase : {"idle", "fetching", "accepted"}] :
                 /\ watcher' = {w}
                 /\ w.at = saved[w.epoch]
                 /\ w.phase # "idle" => HasTarget(w)
                 /\ w.phase = "accepted" => IsFinal(PlaceOf(w))
    PROVE  WatcherInv'
<1> USE DEF WatcherInv
<1>1. WatcherTypeOK'
  BY OneWatcher DEF WatcherTypeOK
<1>2. OnlyReplacedHaveBoundaries' /\ MarkersAreReal' /\ NothingPassedOver'
  BY DEF OnlyReplacedHaveBoundaries, MarkersAreReal, NothingPassedOver, IsFinal,
         Before
<1>3. PlaceIsSaved'
  BY DEF PlaceIsSaved, TargetsOk, HasTarget
<1>4. AcceptedIsFinal'
  BY DEF AcceptedIsFinal, IsFinal, PlaceOf
<1> QED
  BY <1>1, <1>2, <1>3, <1>4

\* A place of the right type keeps the types wherever it is kept.
LEMMA KeepPlaceType ==
    ASSUME WatcherTypeOK, NEW w, w.epoch \in Epoch, NEW at \in WatcherState,
           KeepPlace(w, at), UNCHANGED <<network, progress, included>>
    PROVE  /\ WatcherTypeOK'
           /\ \A e \in Epoch : saved'[e] = IF e = w.epoch THEN at ELSE saved[e]
<1>1. saved \in [Epoch -> WatcherState] /\ saved' = [saved EXCEPT ![w.epoch] = at]
  BY DEF WatcherTypeOK, KeepPlace
<1>2. saved' \in [Epoch -> WatcherState]
  BY <1>1
<1>3. [epoch |-> w.epoch, at |-> at, phase |-> "idle"]
          \in [epoch : Epoch, at : WatcherState,
               phase : {"idle", "fetching", "accepted"}]
  OBVIOUS
<1>4. /\ watcher' \subseteq [epoch : Epoch, at : WatcherState,
                             phase : {"idle", "fetching", "accepted"}]
      /\ Cardinality(watcher') <= 1
  BY <1>3, OneWatcher DEF KeepPlace
<1> QED
  BY <1>1, <1>2, <1>4 DEF WatcherTypeOK

\* The thread turns to an epoch, looks at a block and gives up on it.
LEMMA LookingSteps ==
    ASSUME WatcherInv, LoadState \/ Fetches \/ Accepts \/ GivesUp
    PROVE  WatcherInv'
<1> DEFINE Watchers == [epoch : Epoch, at : WatcherState,
                        phase : {"idle", "fetching", "accepted"}]
<1>1. /\ WatcherTypeOK /\ OnlyReplacedHaveBoundaries /\ PlaceIsSaved
      /\ progress \in Epoch /\ watcher \subseteq Watchers
  BY DEF WatcherInv, WatcherTypeOK
<1>2. ASSUME LoadState PROVE WatcherInv'
  <2> DEFINE w == [epoch |-> progress, at |-> saved[progress], phase |-> "idle"]
  <2>1. w \in Watchers /\ watcher' = {w}
    BY <1>1, <1>2, WatcherNumbers DEF LoadState
  <2> QED
    BY <1>2, <2>1, <1>1, ThreadOnly DEF LoadState
<1>3. ASSUME NEW w \in watcher, Fetch(w) PROVE WatcherInv'
  <2> DEFINE v == [w EXCEPT !.phase = "fetching"]
  <2>1. v \in Watchers /\ watcher' = {v} /\ v.at = w.at /\ v.epoch = w.epoch
        /\ v.phase = "fetching"
    BY <1>1, <1>3 DEF Fetch, Go
  <2>2. v.at = saved[v.epoch] /\ HasTarget(v)
    BY <1>1, <1>3, <2>1 DEF Fetch, HasTarget, PlaceIsSaved
  <2> HIDE DEF v
  <2> QED
    BY <1>1, <1>3, <2>1, <2>2, ThreadOnly DEF Fetch
<1>4. ASSUME NEW w \in watcher, GiveUp(w) PROVE WatcherInv'
  <2> DEFINE v == [w EXCEPT !.phase = "idle"]
  <2>1. v \in Watchers /\ watcher' = {v} /\ v.at = w.at /\ v.epoch = w.epoch
        /\ v.phase = "idle"
    BY <1>1, <1>4 DEF GiveUp, Go
  <2>2. v.at = saved[v.epoch]
    BY <1>1, <1>4, <2>1 DEF PlaceIsSaved
  <2> HIDE DEF v
  <2> QED
    BY <1>1, <1>4, <2>1, <2>2, ThreadOnly DEF GiveUp
<1>5. ASSUME NEW w \in watcher, Accept(w) PROVE WatcherInv'
  <2> DEFINE v == [w EXCEPT !.phase = "accepted"]
  <2>1. v \in Watchers /\ watcher' = {v} /\ v.at = w.at /\ v.epoch = w.epoch
        /\ v.phase = "accepted"
    BY <1>1, <1>5 DEF Accept, Go
  <2>2. v.at = saved[v.epoch] /\ HasTarget(v)
    BY <1>1, <1>5, <2>1 DEF Accept, HasTarget, PlaceIsSaved
  <2>3. IsFinal(PlaceOf(w))
    <3>1. /\ w.epoch \in Epoch /\ w.at.anchor \in Anchor
          /\ w.at.cursor \in Index /\ w.at.cursor # -1
          /\ w.at.anchor \in Int /\ w.at.cursor \in Int
      BY <1>1, WatcherNumbers DEF WatcherState, Anchor, Index
    <3>2. CASE IsTarget(w)
      <4>1. RotatesAway(w.epoch, w.at.anchor)
        BY <1>1, <3>1, <3>2 DEF IsTarget, OnlyReplacedHaveBoundaries
      <4> QED
        BY <1>1, <3>1, <3>2, <4>1, WatcherNumbers DEF IsTarget, IsFinal, PlaceOf
    <3>3. CASE FinalizedByNextAfp(w.epoch, w.at.anchor, w.at.cursor)
      BY <1>1, <3>1, <3>3, WatcherNumbers
         DEF FinalizedByNextAfp, Exists, IsFinal, PlaceOf
    <3> QED
      BY <1>5, <3>2, <3>3 DEF Accept
  <2>4. IsFinal(PlaceOf(v))
    BY <2>1, <2>3 DEF PlaceOf
  <2> HIDE DEF v
  <2> QED
    BY <1>1, <1>5, <2>1, <2>2, <2>4, ThreadOnly DEF Accept
<1> QED
  BY <1>2, <1>3, <1>4, <1>5 DEF Fetches, Accepts, GivesUp

\* A boundary that is learnt is added to the place, in memory and in the
\* database, which stays where it is.
LEMMA LearnTargetStep ==
    ASSUME WatcherInv, NEW w \in watcher, LearnTarget(w) PROVE WatcherInv'
<1> DEFINE at == [w.at EXCEPT !.targets = @ \cup {w.at.anchor}]
           v == [epoch |-> w.epoch, at |-> at, phase |-> "idle"]
<1>1. /\ WatcherTypeOK /\ OnlyReplacedHaveBoundaries /\ PlaceIsSaved
      /\ MarkersAreReal /\ NothingPassedOver
  BY DEF WatcherInv
<1>2. w.epoch \in Epoch /\ w.at \in WatcherState /\ w.at = saved[w.epoch]
  BY <1>1, WatcherNumbers DEF PlaceIsSaved
<1>3. /\ UNCHANGED <<network, progress, included>>
      /\ saved' = [saved EXCEPT ![w.epoch] = at] /\ watcher' = {v}
      /\ RotatesAway(w.epoch, w.at.anchor)
  BY DEF LearnTarget, KeepPlace, ProofCanBeFound
<1>4. /\ at \in WatcherState
      /\ at.anchor = w.at.anchor /\ at.cursor = w.at.cursor
      /\ at.targets = w.at.targets \cup {w.at.anchor}
  BY <1>2 DEF WatcherState
<1> HIDE DEF at
<1>5. WatcherTypeOK'
  BY <1>1, <1>2, <1>3, <1>4, KeepPlaceType DEF LearnTarget, at
<1>6. OnlyReplacedHaveBoundaries' /\ MarkersAreReal'
  BY <1>1, <1>3 DEF OnlyReplacedHaveBoundaries, MarkersAreReal, IsFinal
<1>7. saved \in [Epoch -> WatcherState]
  BY <1>1 DEF WatcherTypeOK
<1>8. PlaceIsSaved'
  <2>1. TargetsOk(w.epoch, at)
    BY <1>1, <1>2, <1>3, <1>4 DEF PlaceIsSaved, TargetsOk
  <2>2. \A e \in Epoch : saved'[e] = IF e = w.epoch THEN at ELSE saved[e]
    BY <1>3, <1>7
  <2>3. \A e \in Epoch : TargetsOk(e, saved'[e])
    BY <1>1, <2>1, <2>2 DEF PlaceIsSaved
  <2> QED
    BY <1>2, <1>3, <2>2, <2>3 DEF PlaceIsSaved, TargetsOk
<1>9. AcceptedIsFinal'
  BY <1>3 DEF AcceptedIsFinal
<1>10. NothingPassedOver'
  <2>1. \A e \in Epoch : /\ saved'[e].anchor = saved[e].anchor
                         /\ saved'[e].cursor = saved[e].cursor
    BY <1>2, <1>3, <1>4, <1>7
  <2>2. \A x \in inclusions : x.at.epoch \in Epoch
    BY <1>1, WatcherNumbers
  <2> QED
    BY <1>1, <1>3, <2>1, <2>2 DEF NothingPassedOver, IsFinal, Before
<1> QED
  BY <1>5, <1>6, <1>8, <1>9, <1>10 DEF WatcherInv

\* A marker is for an ALFP in the block that has been accepted.
LEMMA MarkStep ==
    ASSUME WatcherInv, NEW w \in watcher, Mark(w) PROVE WatcherInv'
<1>1. /\ WatcherTypeOK /\ OnlyReplacedHaveBoundaries /\ PlaceIsSaved
      /\ AcceptedIsFinal /\ MarkersAreReal /\ NothingPassedOver
  BY DEF WatcherInv
<1>2. PICK x \in Unmarked(w) : included' = included \cup {<<w.epoch, x.leader>>}
  BY DEF Mark
<1>3. UNCHANGED <<network, progress, saved, watcher>> /\ w.phase = "accepted"
  BY DEF Mark
<1>4. x \in inclusions /\ x.at = PlaceOf(w) /\ x.at.epoch = w.epoch
  BY <1>2 DEF Unmarked, AlfpsIn, PlaceOf
<1>5. IsFinal(x.at)
  BY <1>1, <1>3, <1>4 DEF AcceptedIsFinal
<1>6. MarkersAreReal'
  <2>1. \A m \in included' : \E y \in inclusions :
            y.at.epoch = m[1] /\ y.leader = m[2] /\ IsFinal(y.at)
    BY <1>1, <1>2, <1>4, <1>5 DEF MarkersAreReal
  <2> QED
    BY <1>3, <2>1 DEF MarkersAreReal, IsFinal
<1>7. WatcherTypeOK'
  <2>1. w.epoch \in Epoch /\ x.leader \in Leader
    BY <1>1, <1>4, WatcherNumbers DEF WatcherTypeOK, Inclusion
  <2> QED
    BY <1>1, <1>2, <1>3, <2>1 DEF WatcherTypeOK
<1>8. OnlyReplacedHaveBoundaries' /\ AcceptedIsFinal'
  BY <1>1, <1>3 DEF OnlyReplacedHaveBoundaries, AcceptedIsFinal, IsFinal, PlaceOf
<1>9. PlaceIsSaved'
  BY <1>1, <1>3 DEF PlaceIsSaved, TargetsOk, HasTarget
<1>10. NothingPassedOver'
  BY <1>1, <1>2, <1>3 DEF NothingPassedOver, IsFinal, Before
<1> QED
  BY <1>6, <1>7, <1>8, <1>9, <1>10 DEF WatcherInv

\* The place moves on when every ALFP of its block has a marker, and passes
\* over no final block: what is left behind on an anchor that rotates away is
\* behind its boundary.
LEMMA AdvancePlaceStep ==
    ASSUME WatcherInv, NEW w \in watcher, AdvancePlace(w) PROVE WatcherInv'
<1> DEFINE at == NextPlace(w)
           e == w.epoch
           b == boundary[<<w.epoch, w.at.anchor>>]
<1>1. /\ WatcherTypeOK /\ OnlyReplacedHaveBoundaries /\ PlaceIsSaved
      /\ AcceptedIsFinal /\ MarkersAreReal /\ NothingPassedOver
  BY DEF WatcherInv
<1>2. /\ e \in Epoch /\ w.at \in WatcherState /\ w.at = saved[e]
      /\ w.at.anchor \in Anchor /\ w.at.cursor \in Index
  BY <1>1, WatcherNumbers DEF PlaceIsSaved, WatcherState
<1>3. /\ UNCHANGED <<network, progress, included>> /\ Unmarked(w) = {}
      /\ saved' = [saved EXCEPT ![e] = at]
      /\ watcher' = {[epoch |-> e, at |-> at, phase |-> "idle"]}
      /\ w.phase = "accepted"
  BY DEF AdvancePlace, KeepPlace
<1>4. IsFinal(PlaceOf(w)) /\ HasTarget(w)
  BY <1>1, <1>3 DEF AcceptedIsFinal, PlaceIsSaved
<1>5. w.at.anchor # RegistryLast => RotatesAway(e, w.at.anchor)
  BY <1>1, <1>2, <1>4 DEF HasTarget, PlaceIsSaved, TargetsOk
<1>6. /\ w.at.anchor \in Int /\ w.at.cursor \in Int /\ b \in Int
      /\ active[e] \in Int /\ active[e] <= RegistryLast
      /\ NumAnchors \in Int /\ MaxIndex \in Int /\ b <= MaxIndex
  BY <1>1, <1>2, WatcherNumbers DEF Anchor, Index, RegistryLast
<1>7. /\ at.targets = w.at.targets
      /\ \/ /\ w.at.anchor = RegistryLast \/ w.at.cursor < b
            /\ at.anchor = w.at.anchor /\ at.cursor = w.at.cursor + 1
         \/ /\ w.at.anchor # RegistryLast /\ w.at.cursor >= b
            /\ at.anchor = w.at.anchor + 1 /\ at.cursor = 0
  BY <1>2, <1>6 DEF NextPlace, WatcherState
<1>8. at \in WatcherState
  <2>1. /\ IF RotatesAway(e, w.at.anchor) THEN w.at.cursor <= b
           ELSE w.at.cursor < MaxIndex
    BY <1>4 DEF IsFinal, PlaceOf
  <2>2. w.at.anchor = RegistryLast => ~RotatesAway(e, w.at.anchor)
    BY <1>6
  <2>3. at.anchor \in Anchor /\ at.cursor \in Index
    BY <1>2, <1>6, <1>7, <2>1, <2>2 DEF Anchor, Index, RegistryLast
  <2>4. at = [anchor |-> at.anchor, cursor |-> at.cursor, targets |-> w.at.targets]
    BY <1>2 DEF NextPlace, WatcherState
  <2> HIDE DEF at
  <2> QED
    BY <1>2, <2>3, <2>4 DEF WatcherState
<1> HIDE DEF at
<1>9. WatcherTypeOK'
  BY <1>1, <1>2, <1>3, <1>8, KeepPlaceType DEF AdvancePlace, at
<1>10. OnlyReplacedHaveBoundaries' /\ MarkersAreReal'
  BY <1>1, <1>3 DEF OnlyReplacedHaveBoundaries, MarkersAreReal, IsFinal
<1>10a. AcceptedIsFinal'
  BY <1>3 DEF AcceptedIsFinal
<1>11. \A f \in Epoch : saved'[f] = IF f = e THEN at ELSE saved[f]
  BY <1>1, <1>2, <1>3 DEF WatcherTypeOK
<1>12. PlaceIsSaved'
  <2>1. TargetsOk(e, at)
    BY <1>1, <1>2, <1>7 DEF PlaceIsSaved, TargetsOk
  <2>2. \A f \in Epoch : TargetsOk(f, saved'[f])
    BY <1>1, <1>11, <2>1 DEF PlaceIsSaved
  <2> QED
    BY <1>2, <1>3, <1>11, <2>2 DEF PlaceIsSaved, TargetsOk
<1>13. NothingPassedOver'
  <2> SUFFICES ASSUME NEW x \in inclusions, IsFinal(x.at),
                      Before(x.at, saved'[x.at.epoch])
               PROVE  <<x.at.epoch, x.leader>> \in included
    BY <1>3 DEF NothingPassedOver, IsFinal
  <2>1. /\ x.at.epoch \in Epoch /\ x.at.anchor \in Anchor /\ x.at.index \in Index
        /\ x.at.anchor \in Int /\ x.at.index \in Int
    BY <1>1, WatcherNumbers DEF Anchor, Index
  <2>2. CASE Before(x.at, saved[x.at.epoch])
    BY <1>1, <2>2 DEF NothingPassedOver
  <2>3. CASE ~Before(x.at, saved[x.at.epoch])
    <3>1. x.at.epoch = e
      BY <1>11, <2>1, <2>3
    <3>2. Before(x.at, at) /\ ~Before(x.at, w.at)
      BY <1>2, <1>11, <2>1, <2>3, <3>1
    <3>3. x.at.anchor = w.at.anchor /\ x.at.index >= w.at.cursor
      <4>1. /\ ~(x.at.anchor < w.at.anchor)
            /\ x.at.anchor = w.at.anchor => ~(x.at.index < w.at.cursor)
        BY <3>2 DEF Before
      <4>2. x.at.index >= 0
        BY <1>6, <2>1 DEF Index
      <4>3. x.at.anchor <= w.at.anchor
        BY <1>6, <1>7, <2>1, <3>2, <4>2 DEF Before
      <4> QED
        BY <1>6, <2>1, <4>1, <4>3
    <3>4. x.at.index = w.at.cursor
      <4>1. CASE w.at.anchor = RegistryLast \/ w.at.cursor < b
        BY <1>6, <1>7, <2>1, <3>2, <3>3, <4>1 DEF Before
      <4>2. CASE w.at.anchor # RegistryLast /\ w.at.cursor >= b
        <5>1. x.at.index <= b
          BY <1>5, <3>1, <3>3, <4>2 DEF IsFinal
        <5> QED
          BY <1>6, <2>1, <3>3, <4>2, <5>1
      <4> QED
        BY <4>1, <4>2, <1>6
    <3>5. x.at = PlaceOf(w)
      <4>1. x.at \in Place
        BY <1>1 DEF WatcherTypeOK, Inclusion
      <4> QED
        BY <3>1, <3>3, <3>4, <4>1 DEF PlaceOf, Place
    <3>6. x \in AlfpsIn(e, w.at.anchor, w.at.cursor)
      BY <3>5 DEF AlfpsIn, PlaceOf
    <3> QED
      BY <1>3, <3>1, <3>6 DEF Unmarked
  <2> QED
    BY <2>2, <2>3
<1> QED
  BY <1>9, <1>10, <1>10a, <1>12, <1>13 DEF WatcherInv

LEMMA WatcherInvNext == WatcherInv /\ [WatcherNext]_allWatcherVars => WatcherInv'
<1> SUFFICES ASSUME WatcherInv, [WatcherNext]_allWatcherVars PROVE WatcherInv'
  OBVIOUS
<1>1. /\ WatcherTypeOK /\ OnlyReplacedHaveBoundaries /\ PlaceIsSaved
      /\ AcceptedIsFinal /\ MarkersAreReal /\ NothingPassedOver
  BY DEF WatcherInv
<1>2. CASE LearnsTarget
  BY <1>2, LearnTargetStep DEF LearnsTarget
<1>3. CASE Marks
  BY <1>3, MarkStep DEF Marks
<1>4. CASE Advances
  BY <1>4, AdvancePlaceStep DEF Advances
<1>5. CASE RestartWatcher
  BY <1>1, <1>5, ThreadOnly DEF RestartWatcher, WatcherTypeOK
<1>6. ASSUME UNCHANGED <<network, included, saved, watcher>>, progress' \in Epoch
      PROVE  WatcherInv'
  <2>1. WatcherTypeOK'
    BY <1>1, <1>6 DEF WatcherTypeOK
  <2>2. OnlyReplacedHaveBoundaries' /\ MarkersAreReal' /\ AcceptedIsFinal'
    BY <1>1, <1>6 DEF OnlyReplacedHaveBoundaries, MarkersAreReal, IsFinal,
                      AcceptedIsFinal, PlaceOf
  <2>3. PlaceIsSaved'
    BY <1>1, <1>6 DEF PlaceIsSaved, TargetsOk, HasTarget
  <2>4. NothingPassedOver'
    BY <1>1, <1>6 DEF NothingPassedOver, IsFinal, Before
  <2> QED
    BY <2>1, <2>2, <2>3, <2>4 DEF WatcherInv
<1>7. CASE MoveProgress
  BY <1>6, <1>7 DEF MoveProgress
<1>8. CASE UNCHANGED allWatcherVars
  BY <1>1, <1>6, <1>8 DEF allWatcherVars, watcherVars, WatcherTypeOK
<1> QED
  BY <1>2, <1>3, <1>4, <1>5, <1>7, <1>8, LookingSteps DEF WatcherNext

LEMMA WatcherInvariance == WatcherSpec => []WatcherInv
  BY WatcherInvInit, WatcherInvNext, PTL DEF WatcherSpec

\* The watcher's place, markers and thread keep their types: in particular the
\* walk never leaves the last anchor of the registry or the blocks there are.
THEOREM WatcherTypeCorrect == WatcherSpec => []WatcherTypeOK
  BY WatcherInvariance, PTL DEF WatcherInv

\* A marker ALFP_INCLUDED is only left for an ALFP in a final block of its
\* epoch, whenever ALFP_PROGRESS moves and the node restarts.
THEOREM RealMarkers == WatcherSpec => []MarkersAreReal
  BY WatcherInvariance, PTL DEF WatcherInv

\* The place that a restart takes up never gets ahead of the markers.
THEOREM PlaceBehindMarkers == WatcherSpec => []NothingPassedOver
  BY WatcherInvariance, PTL DEF WatcherInv
=============================================================================
