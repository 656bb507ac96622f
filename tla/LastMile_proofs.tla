-------------------------- MODULE LastMile_proofs --------------------------
(***************************************************************************)
(* Proofs about the height proofs: how they are come by (LastMile) and how *)
(* they are made and sent (ProofDelivery).                                 *)
(*                                                                         *)
(* Of LastMile: types, and that without restarts every height and boundary *)
(* is the right one, for every quorum, any number of followers and every   *)
(* finalized chain.  The argument goes around once: the sequencer's        *)
(* tracker in memory is always aligned with the chain, so what it writes   *)
(* is canonical; honest voters sign what is in their maps; an AHP or AERP  *)
(* has an honest signer; so what a collector or a fast-forward writes is   *)
(* canonical as well, and a fast-forward leaves the tracker aligned.  The  *)
(* tracker in the database is in no invariant: only a restart reads it.    *)
(*                                                                         *)
(* Of ProofDelivery: what the rounds make and the caller stores is signed, *)
(* what the collector leaves behind is sent, and the outbox implements     *)
(* PodDelivery.                                                            *)
(***************************************************************************)
EXTENDS LastMile, ProofDelivery, CoreQuorum_proofs

USE LastMileAssumption

\* The position and the heights of a sequencer's tracker fit together.
Aligned(t) ==
    IF t.leader < NumLeaders
    THEN /\ t.index <= network.last[LeaderTurn(t)] + 1
         /\ t.height = network.start[LeaderTurn(t)] + t.index
         /\ t.hie = t.height - network.start[<<t.epoch, 0>>]
    ELSE t.height = network.end[t.epoch]

IsRealBoundary(b) == b.height = network.end[b.epoch] - 1

\* What holds of a node as long as neither it nor a voter is restarted.
NodeInv(n) ==
    /\ Aligned(seq[n])
    /\ col[n].height <= network.end[col[n].epoch]
    /\ \A x \in heightMap[n] : IsCanonical(x)
    /\ \A b \in boundaries[n] : IsRealBoundary(b)
    /\ \A c \in copied[n] : \A x \in c.jobs :
          /\ IsCanonical(x)
          /\ c.step = "written" => x.height = col[n].height

SignedInv ==
    (\A v \in Honest : ~restarted[v]) =>
        /\ \A r \in hps : IsCanonical(r.entry)
        /\ \A r \in erps : IsRealBoundary(r.boundary)

IndInv ==
    /\ TypeOK
    /\ \A n \in Node : Undisturbed(n) => NodeInv(n)
    /\ SignedInv

-----------------------------------------------------------------------------
(* Types *)

\* The finalized chain is one of those considered.
LEMMA NetworkFacts == TypeOK => NetworkOk(network)
BY DEF TypeOK

\* An AERP has been signed by an honest voter.
LEMMA ProvedBoundaryIsSigned ==
    ASSUME NEW b, VerifyAggregatedEpochRotationProof(b)
    PROVE  \E r \in erps : r.boundary = b
<1> DEFINE S == {v \in Honest : [voter |-> v, boundary |-> b] \in erps}
<1>1. IsMajority(S)
  BY DEF VerifyAggregatedEpochRotationProof
<1>2. S # {}
  <2> HIDE DEF S
  <2>1. S \in SUBSET Honest
    BY DEF S
  <2> QED
    BY <1>1, <2>1, MajorityHasHonest
<1> QED
  BY <1>2

\* What a tracker is made of.
LEMMA TrackerType ==
    ASSUME NEW e \in Epoch, NEW l \in 0 .. NumLeaders,
           NEW i \in 0 .. MaxIndex + 1, NEW h \in Nat, NEW k \in Nat
    PROVE  Tracker(e, l, i, h, k) \in LastMileSequenceState
BY DEF Tracker, LastMileSequenceState

\* The collector's way of advancing a tracker gives a tracker.
LEMMA AdvanceType ==
    ASSUME TypeOK, NEW n \in Node, NEW t \in LastMileSequenceState,
           NEW p \in Place
    PROVE  AdvanceAHPCollectorTracker(n, t, p) \in LastMileSequenceState
<1>1. ASSUME IsMapped(n, t.height + 1)
      PROVE  AdvanceAHPCollectorTracker(n, t, p) \in LastMileSequenceState
  <2> DEFINE x == CHOOSE y \in heightMap[n] : y.height = t.height + 1
  <2>1. x \in heightMap[n]
    BY <1>1 DEF IsMapped
  <2>2. x \in Entry
    BY <2>1 DEF TypeOK
  <2> HIDE DEF x
  <2>3. /\ x.place \in Place /\ x.height \in Nat /\ x.hie \in Nat
        /\ x.place.epoch \in Epoch /\ x.place.leader \in 0 .. NumLeaders
        /\ x.place.index \in 0 .. MaxIndex + 1
    BY <2>2 DEF Entry, Place, Leader
  <2> QED
    BY <1>1, <2>3, TrackerType DEF AdvanceAHPCollectorTracker, x
<1>2. ASSUME ~IsMapped(n, t.height + 1)
      PROVE  AdvanceAHPCollectorTracker(n, t, p) \in LastMileSequenceState
  <2>1. /\ p.epoch \in Epoch /\ p.leader \in 0 .. NumLeaders
        /\ p.index + 1 \in 0 .. MaxIndex + 1
        /\ t.height + 1 \in Nat /\ t.hie + 1 \in Nat
    BY DEF Place, Leader, LastMileSequenceState
  <2> QED
    BY <1>2, <2>1, TrackerType DEF AdvanceAHPCollectorTracker
<1> QED
  BY <1>1, <1>2

\* The facts about numbers that types need.
LEMMA Numbers ==
    /\ NumLeaders \in Nat /\ NumLeaders > 0
    /\ MaxIndex \in Nat /\ MaxEpoch \in Nat
    /\ \A e, l : <<e, l>> \in Turn <=> e \in Epoch /\ l \in Leader
    /\ \A l \in 0 .. NumLeaders : l < NumLeaders => l \in Leader
    /\ \A n \in Honest : n \in Node
BY DEF Turn, Leader, Node

\* The tracker, and the turn it is in.
LEMMA TrackerFacts ==
    ASSUME TypeOK, NEW n \in Node
    PROVE  /\ seq[n] \in LastMileSequenceState
           /\ seq[n].epoch \in Epoch /\ seq[n].leader \in 0 .. NumLeaders
           /\ seq[n].index \in 0 .. MaxIndex + 1
           /\ seq[n].height \in Nat /\ seq[n].hie \in Nat
           /\ seq[n].leader < NumLeaders =>
                 /\ seq[n].leader \in Leader
                 /\ LeaderTurn(seq[n]) \in Turn
                 /\ network.last[LeaderTurn(seq[n])] \in -1 .. MaxIndex
                 /\ network.top[LeaderTurn(seq[n])] \in -1 .. MaxIndex
                 /\ network.start[LeaderTurn(seq[n])] \in Nat
<1>1. /\ seq[n] \in LastMileSequenceState
      /\ seq[n].epoch \in Epoch /\ seq[n].leader \in 0 .. NumLeaders
      /\ seq[n].index \in 0 .. MaxIndex + 1
      /\ seq[n].height \in Nat /\ seq[n].hie \in Nat
  BY DEF TypeOK, LastMileSequenceState
<1>2. ASSUME seq[n].leader < NumLeaders
      PROVE  LeaderTurn(seq[n]) \in Turn /\ seq[n].leader \in Leader
  BY <1>1, <1>2, Numbers DEF LeaderTurn
<1>3. ASSUME seq[n].leader < NumLeaders
      PROVE  /\ network.last[LeaderTurn(seq[n])] \in -1 .. MaxIndex
             /\ network.top[LeaderTurn(seq[n])] \in -1 .. MaxIndex
             /\ network.start[LeaderTurn(seq[n])] \in Nat
  BY <1>2, <1>3, NetworkFacts DEF NetworkOk
<1> QED
  BY <1>1, <1>2, <1>3

\* The sequencer's steps keep the types.
LEMMA SkipLeaderType ==
    ASSUME TypeOK, NEW n \in Node, SkipLeader(n) PROVE TypeOK'
<1>1. NextLeader(seq[n]) \in LastMileSequenceState
  BY TrackerFacts, Numbers DEF SkipLeader, NextLeader, Tracker,
     LastMileSequenceState
<1> QED
  BY <1>1 DEF SkipLeader, SetTracker, TypeOK

LEMMA PlaceBlockType ==
    ASSUME TypeOK, NEW n \in Node, NEW isLastBlock \in BOOLEAN,
           PlaceBlock(n, isLastBlock)
    PROVE  TypeOK'
<1> DEFINE t == seq[n]
           x == [height |-> t.height, place |-> PlaceOf(t), hie |-> t.hie]
           u == IF isLastBlock THEN NextLeader(t) ELSE NextIndex(t)
           w == NextHeight(u)
           b == [epoch |-> t.epoch, height |-> t.height]
<1>1. /\ t.leader < NumLeaders
      /\ t.index \in 0 .. MaxIndex
  BY TrackerFacts, Numbers DEF PlaceBlock
<1>2. x \in Entry
  BY <1>1, TrackerFacts DEF Entry, Place, PlaceOf
<1>3. u \in LastMileSequenceState
  BY <1>1, TrackerFacts, Numbers
     DEF NextLeader, NextIndex, Tracker, LastMileSequenceState
<1>4. w \in LastMileSequenceState
  <2> HIDE DEF u
  <2> QED
    BY <1>3 DEF NextHeight, Tracker, LastMileSequenceState
<1>5. b \in Boundary
  BY TrackerFacts DEF Boundary
<1>6. /\ seq' = [seq EXCEPT ![n] = w]
      /\ seqDb' = [seqDb EXCEPT ![n] = w]
      /\ heightMap' = [heightMap EXCEPT ![n] = WithEntry(@, x)]
      /\ \/ boundaries' = boundaries
         \/ boundaries' = [boundaries EXCEPT ![n] = WithBoundary(@, b)]
      /\ UNCHANGED <<network, col, colDb, copied, hps, erps, restarted>>
  BY DEF PlaceBlock, SetTracker
<1> HIDE DEF t, x, u, w, b
<1>7. WithEntry(heightMap[n], x) \in SUBSET Entry
  BY <1>2 DEF TypeOK, WithEntry
<1>8. WithBoundary(boundaries[n], b) \in SUBSET Boundary
  BY <1>5 DEF TypeOK, WithBoundary
<1> QED
  BY <1>4, <1>6, <1>7, <1>8 DEF TypeOK

LEMMA CompleteEpochType ==
    ASSUME TypeOK, NEW n \in Node, CompleteEpoch(n) PROVE TypeOK'
<1>1. CompletedEpochBoundary(seq[n]) \in Boundary
  BY TrackerFacts DEF CompletedEpochBoundary, Boundary
<1>2. WithBoundary(boundaries[n], CompletedEpochBoundary(seq[n]))
         \in SUBSET Boundary
  BY <1>1 DEF TypeOK, WithBoundary
<1>3. ASSUME seq[n].epoch < MaxEpoch
      PROVE  AdvanceToNextEpoch(seq[n]) \in LastMileSequenceState
  BY <1>3, TrackerFacts, Numbers
     DEF AdvanceToNextEpoch, Tracker, LastMileSequenceState, Epoch
<1>4. \E t \in LastMileSequenceState : SetTracker(n, t)
  BY <1>3, TrackerFacts DEF CompleteEpoch
<1> QED
  BY <1>2, <1>4 DEF CompleteEpoch, SetTracker, TypeOK

LEMMA EpochStartType ==
    ASSUME NEW e \in Epoch, NEW b \in Nat \cup {-1}
    PROVE  EpochStart(e, b) \in LastMileSequenceState
BY Numbers DEF EpochStart, Tracker, LastMileSequenceState

\* The boundaries that a fast-forward follows are signed.
LEMMA FastForwardFacts ==
    ASSUME TypeOK, NEW n \in Node, FastForward(n)
    PROVE  \E last \in Epoch :
           \E end \in [seq[n].epoch .. last -> Nat \cup {-1}] :
           \E isCurrent \in BOOLEAN :
              /\ seq[n].epoch <= last /\ last + 1 \in Epoch
              /\ FastForwardAlong(n, last, end, isCurrent)
              /\ \A e \in seq[n].epoch .. last :
                    \E r \in erps : r.boundary = [epoch |-> e, height |-> end[e]]
<1> DEFINE H == {r.boundary.height : r \in erps}
<1>1. H \subseteq Nat \cup {-1}
  BY DEF TypeOK, Boundary
<1>2. PICK last \in seq[n].epoch .. MaxEpoch - 1 :
         \E end \in [seq[n].epoch .. last -> H] :
         \E isCurrent \in BOOLEAN : FastForwardAlong(n, last, end, isCurrent)
  BY DEF FastForward
<1> HIDE DEF H
<1>3. PICK end \in [seq[n].epoch .. last -> H] :
         \E isCurrent \in BOOLEAN : FastForwardAlong(n, last, end, isCurrent)
  BY <1>2
<1>4. PICK isCurrent \in BOOLEAN : FastForwardAlong(n, last, end, isCurrent)
  BY <1>3
<1>5. /\ last \in Epoch /\ seq[n].epoch <= last /\ last + 1 \in Epoch
  BY TrackerFacts, Numbers DEF Epoch
<1>6. end \in [seq[n].epoch .. last -> Nat \cup {-1}]
  BY <1>1
<1>7. \A e \in seq[n].epoch .. last :
         \E r \in erps : r.boundary = [epoch |-> e, height |-> end[e]]
  <2>1. \A e \in seq[n].epoch .. last :
           VerifyAggregatedEpochRotationProof([epoch |-> e, height |-> end[e]])
    BY <1>4 DEF FastForwardAlong
  <2> QED
    BY <2>1, ProvedBoundaryIsSigned
<1> QED
  BY <1>4, <1>5, <1>6, <1>7

LEMMA FastForwardType ==
    ASSUME TypeOK, NEW n \in Node, FastForward(n) PROVE TypeOK'
<1>1. PICK last \in Epoch :
         \E end \in [seq[n].epoch .. last -> Nat \cup {-1}] :
         \E isCurrent \in BOOLEAN :
            /\ seq[n].epoch <= last /\ last + 1 \in Epoch
            /\ FastForwardAlong(n, last, end, isCurrent)
  BY FastForwardFacts
<1>2. PICK end \in [seq[n].epoch .. last -> Nat \cup {-1}] :
         \E isCurrent \in BOOLEAN :
            /\ seq[n].epoch <= last /\ last + 1 \in Epoch
            /\ FastForwardAlong(n, last, end, isCurrent)
  BY <1>1
<1>3. PICK isCurrent \in BOOLEAN :
            /\ seq[n].epoch <= last /\ last + 1 \in Epoch
            /\ FastForwardAlong(n, last, end, isCurrent)
  BY <1>2
<1>4. /\ last \in seq[n].epoch .. last
      /\ seq[n].epoch .. last \subseteq Epoch
  BY <1>3, TrackerFacts, Numbers DEF Epoch
<1>5. EpochStart(last + 1, end[last]) \in LastMileSequenceState
  BY <1>3, <1>4, EpochStartType
<1>6. {[epoch |-> e, height |-> end[e]] : e \in seq[n].epoch .. last}
         \subseteq Boundary
  BY <1>4 DEF Boundary
<1> QED
  BY <1>3, <1>5, <1>6 DEF TypeOK, FastForwardAlong

\* The collector's steps keep the types.
LEMMA CopySequencerType ==
    ASSUME TypeOK, NEW n \in Node, CopySequencer(n) PROVE TypeOK'
<1> DEFINE J == {x \in heightMap[n] : /\ col[n].height <= x.height
                                      /\ x.height < seqDb[n].height}
           c == [tracker |-> seqDb[n], jobs |-> J, step |-> "copied"]
<1>1. J \in SUBSET Entry /\ seqDb[n] \in LastMileSequenceState
  BY DEF TypeOK
<1>2. copied' = [copied EXCEPT ![n] = {c}]
  BY DEF CopySequencer
<1> HIDE DEF J
<1>3. c \in Copy
  BY <1>1 DEF Copy
<1> HIDE DEF c
<1> QED
  BY <1>2, <1>3 DEF CopySequencer, TypeOK

LEMMA CommitHeightType ==
    ASSUME TypeOK, NEW n \in Node, CommitHeight(n) PROVE TypeOK'
<1>1. PICK c \in copied[n] : \E x \in c.jobs :
         /\ SetCollector(n, AdvanceAHPCollectorTracker(n, col[n], x.place))
         /\ copied' = [copied EXCEPT ![n] = {[c EXCEPT !.step = "committed"]}]
         /\ UNCHANGED <<network, seq, seqDb, heightMap, boundaries, hps, erps,
                        restarted>>
  BY DEF CommitHeight
<1>2. PICK x \in c.jobs :
         /\ SetCollector(n, AdvanceAHPCollectorTracker(n, col[n], x.place))
         /\ copied' = [copied EXCEPT ![n] = {[c EXCEPT !.step = "committed"]}]
         /\ UNCHANGED <<network, seq, seqDb, heightMap, boundaries, hps, erps,
                        restarted>>
  BY <1>1
<1>3. c \in Copy
  BY DEF TypeOK
<1>4. [c EXCEPT !.step = "committed"] \in Copy
  BY <1>3 DEF Copy
<1>5. x.place \in Place
  BY <1>3 DEF Copy, Entry
<1>6. AdvanceAHPCollectorTracker(n, col[n], x.place) \in LastMileSequenceState
  BY <1>5, AdvanceType DEF TypeOK
<1> QED
  BY <1>2, <1>4, <1>6 DEF SetCollector, TypeOK

LEMMA SyncToBoundaryType ==
    ASSUME TypeOK, NEW n \in Node, SyncToBoundary(n) PROVE TypeOK'
<1>1. PICK c \in copied[n], b \in boundaries[n] :
         /\ SetCollector(n, EpochStart(c.tracker.epoch, b.height))
         /\ copied' = [copied EXCEPT ![n] = {}]
         /\ UNCHANGED <<network, seq, seqDb, heightMap, boundaries, hps, erps,
                        restarted>>
  BY DEF SyncToBoundary
<1>2. c \in Copy /\ b \in Boundary
  BY DEF TypeOK
<1>3. EpochStart(c.tracker.epoch, b.height) \in LastMileSequenceState
  BY <1>2, EpochStartType DEF Copy, Boundary, LastMileSequenceState
<1> QED
  BY <1>1, <1>3 DEF SetCollector, TypeOK

\* A height with a proof is an entry, and so is what is left with it.
LEMMA ProvedEntry ==
    ASSUME TypeOK, NEW r \in hps, NEW n \in Node
    PROVE  r.entry \in Entry /\ WithEntry(heightMap[n], r.entry) \in SUBSET Entry
<1>1. r.entry \in Entry
  BY DEF TypeOK
<1> QED
  BY <1>1 DEF TypeOK, WithEntry

LEMMA CatchUpSequencerType ==
    ASSUME TypeOK, NEW n \in Node, CatchUpSequencer(n) PROVE TypeOK'
<1>1. PICK c \in copied[n], r \in hps :
         /\ seqDb' = [seqDb EXCEPT ![n] =
               AdvanceAHPCollectorTracker(n, c.tracker, r.entry.place)]
         /\ heightMap' = [heightMap EXCEPT ![n] = WithEntry(@, r.entry)]
         /\ copied' = [copied EXCEPT ![n] =
               {[c EXCEPT !.jobs = {r.entry}, !.step = "written"]}]
         /\ UNCHANGED <<network, seq, col, colDb, boundaries, hps, erps,
                        restarted>>
  BY DEF CatchUpSequencer
<1>2. c \in Copy /\ r.entry \in Entry
  BY ProvedEntry DEF TypeOK
<1>3. [c EXCEPT !.jobs = {r.entry}, !.step = "written"] \in Copy
  <2>1. [c EXCEPT !.jobs = {r.entry}] \in Copy
    BY <1>2 DEF Copy
  <2> QED
    BY <2>1 DEF Copy
<1>4. AdvanceAHPCollectorTracker(n, c.tracker, r.entry.place)
         \in LastMileSequenceState
  BY <1>2, AdvanceType DEF Copy, Entry
<1>5. WithEntry(heightMap[n], r.entry) \in SUBSET Entry
  BY ProvedEntry
<1> QED
  BY <1>1, <1>3, <1>4, <1>5 DEF TypeOK

LEMMA CatchUpCollectorType ==
    ASSUME TypeOK, NEW n \in Node, CatchUpCollector(n) PROVE TypeOK'
<1>1. PICK c \in copied[n] : \E x \in c.jobs :
         /\ SetCollector(n, AdvanceAHPCollectorTracker(n, col[n], x.place))
         /\ heightMap' = [heightMap EXCEPT ![n] = WithEntry(@, x)]
         /\ copied' = [copied EXCEPT ![n] = {}]
         /\ UNCHANGED <<network, seq, seqDb, boundaries, hps, erps, restarted>>
  BY DEF CatchUpCollector
<1>2. PICK x \in c.jobs :
         /\ SetCollector(n, AdvanceAHPCollectorTracker(n, col[n], x.place))
         /\ heightMap' = [heightMap EXCEPT ![n] = WithEntry(@, x)]
         /\ copied' = [copied EXCEPT ![n] = {}]
         /\ UNCHANGED <<network, seq, seqDb, boundaries, hps, erps, restarted>>
  BY <1>1
<1>3. x \in Entry
  BY DEF TypeOK, Copy
<1>4. AdvanceAHPCollectorTracker(n, col[n], x.place) \in LastMileSequenceState
  BY <1>3, AdvanceType DEF TypeOK, Entry
<1>5. WithEntry(heightMap[n], x) \in SUBSET Entry
  BY <1>3 DEF TypeOK, WithEntry
<1> QED
  BY <1>2, <1>4, <1>5 DEF SetCollector, TypeOK

LEMMA TypeStep == TypeOK /\ [Next]_vars => TypeOK'
<1> SUFFICES ASSUME TypeOK, [Next]_vars PROVE TypeOK'
  OBVIOUS
<1>1. CASE UNCHANGED vars
  BY <1>1 DEF vars, TypeOK
<1>2. ASSUME NEW n \in Node, NodeStep(n) PROVE TypeOK'
  <2>1. CASE EndRound(n)
    BY <2>1 DEF EndRound, TypeOK
  <2>2. CASE Restart(n)
    BY <2>2 DEF Restart, TypeOK
  <2> QED
    BY <1>2, <2>1, <2>2, SkipLeaderType, PlaceBlockType, CompleteEpochType,
       FastForwardType, CopySequencerType, CommitHeightType,
       SyncToBoundaryType, CatchUpSequencerType, CatchUpCollectorType
       DEF NodeStep
<1>3. ASSUME NEW v \in Honest, GetHeightProof(v) PROVE TypeOK'
  <2>1. PICK x \in heightMap[v] : hps' = hps \cup {[voter |-> v, entry |-> x]}
    BY <1>3 DEF GetHeightProof
  <2>2. x \in Entry
    BY <2>1, Numbers DEF TypeOK
  <2> QED
    BY <1>3, <2>1, <2>2 DEF GetHeightProof, TypeOK
<1>4. ASSUME NEW v \in Honest, GetEpochRotationProof(v) PROVE TypeOK'
  <2>1. PICK b \in boundaries[v] :
           erps' = erps \cup {[voter |-> v, boundary |-> b]}
    BY <1>4 DEF GetEpochRotationProof
  <2>2. b \in Boundary
    BY <2>1, Numbers DEF TypeOK
  <2> QED
    BY <1>4, <2>1, <2>2 DEF GetEpochRotationProof, TypeOK
<1> QED
  BY <1>1, <1>2, <1>3, <1>4 DEF Next

\* The first states have their types.
LEMMA TypeInit == Init => TypeOK
<1> SUFFICES ASSUME Init PROVE TypeOK
  OBVIOUS
<1>1. FirstState \in LastMileSequenceState
  BY Numbers DEF FirstState, Tracker, LastMileSequenceState, Epoch
<1> QED
  BY <1>1 DEF Init, TypeOK

-----------------------------------------------------------------------------
(* The invariant *)

\* What a node whose variables do not change keeps.
LEMMA OtherNodeInv ==
    ASSUME NEW m, NodeInv(m), network' = network, seq'[m] = seq[m],
           col'[m] = col[m], heightMap'[m] = heightMap[m],
           boundaries'[m] = boundaries[m], copied'[m] = copied[m]
    PROVE  NodeInv(m)'
BY DEF NodeInv, Aligned, IsCanonical, IsRealBoundary, LeaderTurn

\* How the leaders and epochs follow each other.
LEMMA ChainFacts ==
    ASSUME TypeOK
    PROVE  /\ \A t \in Turn : /\ network.last[t] \in -1 .. MaxIndex
                              /\ network.top[t] <= network.last[t] + 1
                              /\ network.start[t] \in Nat
           /\ \A e \in Epoch : network.end[e] \in Nat
           /\ \A e \in Epoch, l \in Leader :
                 /\ l + 1 \in Leader => network.start[<<e, l + 1>>] =
                       network.start[<<e, l>>] + network.last[<<e, l>>] + 1
                 /\ l + 1 \notin Leader => network.end[e] =
                       network.start[<<e, l>>] + network.last[<<e, l>>] + 1
                 /\ network.start[<<e, l>>] + network.last[<<e, l>>] + 1
                       <= network.end[e]
           /\ network.start[<<0, 0>>] = 0
           /\ \A e \in Epoch : e + 1 \in Epoch =>
                 network.start[<<e + 1, 0>>] = network.end[e]
           /\ \A d, e \in Epoch : d <= e => network.end[d] <= network.end[e]
<1>1. NetworkOk(network)
  BY NetworkFacts
<1> QED
  BY <1>1 DEF NetworkOk

\* The epoch ends where its last leader has ended.
LEMMA LastTurn ==
    ASSUME TypeOK, NEW e \in Epoch, NEW l \in Leader, l + 1 \notin Leader
    PROVE  network.end[e] =
              network.start[<<e, l>>] + network.last[<<e, l>>] + 1
BY ChainFacts

\* The next leader starts where a leader has ended.
LEMMA NextLeaderAligned ==
    ASSUME TypeOK, NEW t \in LastMileSequenceState, t.leader < NumLeaders,
           t.height = network.start[LeaderTurn(t)] + network.last[LeaderTurn(t)] + 1,
           t.hie = t.height - network.start[<<t.epoch, 0>>]
    PROVE  Aligned(NextLeader(t))
<1>1. /\ t.epoch \in Epoch /\ t.leader \in Leader
      /\ t.height \in Nat
      /\ LeaderTurn(t) = <<t.epoch, t.leader>>
  BY Numbers DEF LastMileSequenceState, LeaderTurn
<1>2. CASE t.leader + 1 < NumLeaders
  <2>1. t.leader + 1 \in Leader
    BY <1>1, <1>2, Numbers DEF Leader
  <2>2. <<t.epoch, t.leader + 1>> \in Turn
    BY <1>1, <2>1, Numbers
  <2>3. network.start[<<t.epoch, t.leader + 1>>] = t.height
    BY <1>1, <2>1, ChainFacts
  <2>4. /\ network.last[<<t.epoch, t.leader + 1>>] >= -1
        /\ network.last[<<t.epoch, t.leader + 1>>] \in Int
    BY <2>2, ChainFacts, Numbers
  <2> QED
    BY <1>1, <1>2, <2>3, <2>4 DEF Aligned, NextLeader, Tracker, LeaderTurn
<1>3. CASE ~(t.leader + 1 < NumLeaders)
  <2>1. t.leader + 1 \notin Leader
    BY <1>1, <1>3, Numbers DEF Leader
  <2>2. network.end[t.epoch] = network.start[<<t.epoch, t.leader>>] +
                               network.last[<<t.epoch, t.leader>>] + 1
    BY <1>1, <2>1, LastTurn
  <2> QED
    BY <1>1, <1>3, <2>2 DEF Aligned, NextLeader, Tracker
<1> QED
  BY <1>2, <1>3

\* Where an epoch starts, after the boundary of the one before.
LEMMA EpochStartAligned ==
    ASSUME TypeOK, NEW e \in Epoch, e + 1 \in Epoch
    PROVE  Aligned(EpochStart(e + 1, network.end[e] - 1))
<1>1. /\ network.end[e] \in Nat
      /\ network.start[<<e + 1, 0>>] = network.end[e]
  BY ChainFacts
<1>2. 0 < NumLeaders /\ 0 \in Leader
  BY Numbers DEF Leader
<1>3. <<e + 1, 0>> \in Turn
  BY <1>2, Numbers
<1>4. network.last[<<e + 1, 0>>] \in Int /\ network.last[<<e + 1, 0>>] >= -1
  BY <1>3, ChainFacts, Numbers
<1> QED
  BY <1>1, <1>2, <1>4 DEF Aligned, EpochStart, Tracker, LeaderTurn

\* Skipping a leader: the tracker is right after its last block.
LEMMA SkipLeaderInv ==
    ASSUME TypeOK, NEW n \in Node, NodeInv(n), SkipLeader(n)
    PROVE  NodeInv(n)'
<1> DEFINE t == seq[n]
<1>1. /\ t \in LastMileSequenceState /\ t.leader < NumLeaders
      /\ t.index \in Nat /\ t.height \in Nat
      /\ network.last[LeaderTurn(t)] \in Int
      /\ network.start[LeaderTurn(t)] \in Nat
      /\ t.index > network.last[LeaderTurn(t)]
  BY TrackerFacts, Numbers DEF SkipLeader
<1>2. /\ t.index <= network.last[LeaderTurn(t)] + 1
      /\ t.height = network.start[LeaderTurn(t)] + t.index
      /\ t.hie = t.height - network.start[<<t.epoch, 0>>]
  BY <1>1 DEF NodeInv, Aligned
<1>3. Aligned(NextLeader(t))
  BY <1>1, <1>2, NextLeaderAligned
<1>4. seq'[n] = NextLeader(t)
  BY DEF SkipLeader, SetTracker, TypeOK
<1> HIDE DEF t
<1>5. Aligned(seq[n])'
  BY <1>3, <1>4 DEF Aligned, LeaderTurn, SkipLeader
<1> QED
  BY <1>5 DEF NodeInv, SkipLeader, IsCanonical, IsRealBoundary, LeaderTurn

\* Placing a block: the entry is canonical, the tracker is right after it, and
\* if the epoch is over its height is the last.
LEMMA PlaceBlockInv ==
    ASSUME TypeOK, NEW n \in Node, NodeInv(n), NEW isLastBlock \in BOOLEAN,
           PlaceBlock(n, isLastBlock)
    PROVE  NodeInv(n)'
<1> DEFINE t == seq[n]
           turn == LeaderTurn(t)
           x == [height |-> t.height, place |-> PlaceOf(t), hie |-> t.hie]
           u == IF isLastBlock THEN NextLeader(t) ELSE NextIndex(t)
           b == [epoch |-> t.epoch, height |-> t.height]
<1>1. /\ t \in LastMileSequenceState /\ t.leader < NumLeaders
      /\ t.epoch \in Epoch /\ t.leader \in Leader
      /\ t.index \in Nat /\ t.height \in Nat /\ t.hie \in Nat
      /\ turn = <<t.epoch, t.leader>> /\ turn \in Turn
      /\ network.last[turn] \in Int /\ network.top[turn] \in Int
      /\ network.start[turn] \in Nat
      /\ t.index = network.last[turn] \/ t.index < network.top[turn]
      /\ isLastBlock => t.index = network.last[turn]
  BY TrackerFacts, Numbers DEF PlaceBlock, LeaderTurn
<1>2. /\ t.height = network.start[turn] + t.index
      /\ t.hie = t.height - network.start[<<t.epoch, 0>>]
  BY <1>1 DEF NodeInv, Aligned
<1>3. network.top[turn] <= network.last[turn] + 1
  BY <1>1, ChainFacts
<1>4. t.index <= network.last[turn]
  BY <1>1, <1>3
<1>5. /\ seq' = [seq EXCEPT ![n] = NextHeight(u)]
      /\ heightMap' = [heightMap EXCEPT ![n] = WithEntry(@, x)]
      /\ boundaries' = IF u.leader < NumLeaders THEN boundaries
                       ELSE [boundaries EXCEPT ![n] = WithBoundary(@, b)]
      /\ UNCHANGED <<network, col, copied>>
  BY DEF PlaceBlock, SetTracker
<1>6. IsCanonical(x)
  BY <1>1, <1>2, <1>4 DEF IsCanonical, PlaceOf, LeaderTurn
<1>7. network.start[<<t.epoch, 0>>] \in Nat
  <2>1. <<t.epoch, 0>> \in Turn
    BY <1>1, Numbers DEF Leader
  <2> QED
    BY <2>1, ChainFacts
<1>8. Aligned(NextHeight(u)) /\ (u.leader >= NumLeaders => IsRealBoundary(b))
  <2>1. CASE isLastBlock
    <3> DEFINE s == NextHeight(t)
    <3>1. /\ s.epoch = t.epoch /\ s.leader = t.leader /\ s.index = t.index
          /\ s.height = t.height + 1 /\ s.hie = t.hie + 1
          /\ s = Tracker(t.epoch, t.leader, t.index, t.height + 1, t.hie + 1)
      BY DEF NextHeight, Tracker
    <3>2. s \in LastMileSequenceState
      BY <1>1, <3>1, TrackerFacts, TrackerType
    <3>3. NextHeight(u) = NextLeader(s)
      BY <2>1 DEF NextHeight, NextLeader, Tracker
    <3> HIDE DEF s
    <3>4. LeaderTurn(s) = turn
      BY <1>1, <3>1 DEF LeaderTurn
    <3>5. Aligned(NextLeader(s))
      <4>1. /\ s.height = network.start[turn] + network.last[turn] + 1
            /\ s.hie = s.height - network.start[<<s.epoch, 0>>]
        <5>1. t.height = network.start[turn] + network.last[turn]
          BY <1>1, <1>2, <2>1
        <5>2. s.epoch = t.epoch /\ s.height = t.height + 1 /\ s.hie = t.hie + 1
          BY <3>1
        <5> HIDE DEF s, t, turn, u, x, b
        <5> QED
          BY <1>1, <1>2, <1>7, <5>1, <5>2
      <4>2. s.leader < NumLeaders
        BY <1>1, <3>1
      <4> QED
        BY <3>2, <3>4, <4>1, <4>2, NextLeaderAligned
    <3>6. ASSUME u.leader >= NumLeaders PROVE IsRealBoundary(b)
      <4>1. t.leader + 1 \notin Leader
        BY <2>1, <3>6, <1>1, Numbers DEF Leader, NextLeader, Tracker
      <4>2. network.end[t.epoch] = network.start[<<t.epoch, t.leader>>] +
                                   network.last[<<t.epoch, t.leader>>] + 1
        BY <1>1, <4>1, LastTurn
      <4> QED
        BY <1>1, <1>2, <2>1, <4>2 DEF IsRealBoundary
    <3> QED
      BY <3>3, <3>5, <3>6
  <2>2. CASE ~isLastBlock
    <3>1. NextHeight(u) = Tracker(t.epoch, t.leader, t.index + 1,
                                  t.height + 1, t.hie + 1)
      BY <2>2 DEF NextHeight, NextIndex, Tracker
    <3>2. u.leader = t.leader
      BY <2>2 DEF NextIndex, Tracker
    <3>3. Aligned(Tracker(t.epoch, t.leader, t.index + 1, t.height + 1,
                          t.hie + 1))
      BY <1>1, <1>2, <1>4, <1>7 DEF Aligned, Tracker, LeaderTurn
    <3>4. ~(u.leader >= NumLeaders)
      BY <1>1, <3>2, Numbers DEF Leader
    <3> QED
      BY <3>1, <3>3, <3>4
  <2> QED
    BY <2>1, <2>2
<1> HIDE DEF t, turn, x, u, b
<1>9. /\ seq'[n] = NextHeight(u)
      /\ heightMap'[n] = WithEntry(heightMap[n], x)
      /\ boundaries'[n] = boundaries[n] \/
            (u.leader >= NumLeaders /\ boundaries'[n] = WithBoundary(boundaries[n], b))
  <2>1. u.leader \in Int
    BY <1>1, TrackerFacts DEF t, u, NextLeader, NextIndex, Tracker
  <2> QED
    BY <1>5, <2>1, Numbers DEF TypeOK
<1>10. Aligned(seq[n])'
  BY <1>5, <1>8, <1>9 DEF Aligned, LeaderTurn
<1>11. \A y \in heightMap'[n] : IsCanonical(y)
  BY <1>6, <1>9 DEF NodeInv, WithEntry
<1>12. \A c \in boundaries'[n] : IsRealBoundary(c)
  BY <1>8, <1>9 DEF NodeInv, WithBoundary
<1> QED
  BY <1>5, <1>10, <1>11, <1>12
     DEF NodeInv, IsCanonical, IsRealBoundary, LeaderTurn

\* Completing an epoch.
LEMMA CompleteEpochInv ==
    ASSUME TypeOK, NEW n \in Node, NodeInv(n), CompleteEpoch(n)
    PROVE  NodeInv(n)'
<1> DEFINE t == seq[n]
           b == CompletedEpochBoundary(t)
<1>1. /\ t \in LastMileSequenceState /\ t.leader = NumLeaders
      /\ t.epoch \in Epoch /\ t.height \in Nat
  BY TrackerFacts DEF CompleteEpoch
<1>2. t.height = network.end[t.epoch]
  BY <1>1, Numbers DEF NodeInv, Aligned
<1>3. IsRealBoundary(b)
  BY <1>2 DEF IsRealBoundary, CompletedEpochBoundary
<1>4. /\ boundaries'[n] = WithBoundary(boundaries[n], b)
      /\ \/ seq'[n] = t
         \/ t.epoch < MaxEpoch /\ seq'[n] = AdvanceToNextEpoch(t)
      /\ UNCHANGED <<network, col, copied, heightMap>>
  BY DEF CompleteEpoch, SetTracker, TypeOK
<1>5. ASSUME t.epoch < MaxEpoch PROVE Aligned(AdvanceToNextEpoch(t))
  <2>1. t.epoch + 1 \in Epoch
    BY <1>1, <1>5, Numbers DEF Epoch
  <2>2. AdvanceToNextEpoch(t) = EpochStart(t.epoch + 1, network.end[t.epoch] - 1)
    BY <1>1, <1>2 DEF AdvanceToNextEpoch, EpochStart, Tracker
  <2> QED
    BY <1>1, <2>1, <2>2, EpochStartAligned
<1>6. Aligned(seq'[n])
  BY <1>4, <1>5 DEF NodeInv
<1> HIDE DEF t, b
<1>7. Aligned(seq[n])'
  BY <1>4, <1>6 DEF Aligned, LeaderTurn
<1>8. \A c \in boundaries'[n] : IsRealBoundary(c)
  BY <1>3, <1>4 DEF NodeInv, WithBoundary
<1> QED
  BY <1>4, <1>7, <1>8 DEF NodeInv, IsCanonical, IsRealBoundary, LeaderTurn

\* A fast-forward follows real boundaries to the start of an epoch that is not
\* before the tracker.
LEMMA FastForwardInv ==
    ASSUME TypeOK, NEW n \in Node, NodeInv(n), FastForward(n),
           \A r \in erps : IsRealBoundary(r.boundary)
    PROVE  NodeInv(n)' /\ seq[n].height <= seq'[n].height
<1>1. PICK last \in Epoch :
         \E end \in [seq[n].epoch .. last -> Nat \cup {-1}] :
         \E isCurrent \in BOOLEAN :
            /\ seq[n].epoch <= last /\ last + 1 \in Epoch
            /\ FastForwardAlong(n, last, end, isCurrent)
            /\ \A e \in seq[n].epoch .. last :
                  \E r \in erps : r.boundary = [epoch |-> e, height |-> end[e]]
  BY FastForwardFacts
<1>2. PICK end \in [seq[n].epoch .. last -> Nat \cup {-1}] :
         \E isCurrent \in BOOLEAN :
            /\ seq[n].epoch <= last /\ last + 1 \in Epoch
            /\ FastForwardAlong(n, last, end, isCurrent)
            /\ \A e \in seq[n].epoch .. last :
                  \E r \in erps : r.boundary = [epoch |-> e, height |-> end[e]]
  BY <1>1
<1>3. PICK isCurrent \in BOOLEAN :
            /\ seq[n].epoch <= last /\ last + 1 \in Epoch
            /\ FastForwardAlong(n, last, end, isCurrent)
            /\ \A e \in seq[n].epoch .. last :
                  \E r \in erps : r.boundary = [epoch |-> e, height |-> end[e]]
  BY <1>2
<1>4. /\ seq[n].epoch \in Epoch /\ seq[n].height \in Nat
      /\ last \in seq[n].epoch .. last
      /\ seq[n].epoch \in seq[n].epoch .. last
  BY <1>3, TrackerFacts, Numbers DEF Epoch
<1>5. \A e \in seq[n].epoch .. last : end[e] = network.end[e] - 1
  <2>1. \A e \in seq[n].epoch .. last :
           IsRealBoundary([epoch |-> e, height |-> end[e]])
    BY <1>3
  <2> QED
    BY <2>1 DEF IsRealBoundary
<1>6. /\ end[last] = network.end[last] - 1
      /\ end[seq[n].epoch] = network.end[seq[n].epoch] - 1
      /\ network.end[last] \in Nat /\ network.end[seq[n].epoch] \in Nat
      /\ network.end[seq[n].epoch] <= network.end[last]
  BY <1>3, <1>4, <1>5, ChainFacts
<1>7. Aligned(EpochStart(last + 1, end[last]))
  BY <1>3, <1>6, EpochStartAligned
<1>8. /\ end[seq[n].epoch] + 1 >= seq[n].height
      /\ seq'[n] = seq[n] \/ seq'[n] = EpochStart(last + 1, end[last])
      /\ boundaries'[n] = {b \in boundaries[n] : b.epoch \notin seq[n].epoch .. last}
            \cup {[epoch |-> e, height |-> end[e]] : e \in seq[n].epoch .. last}
      /\ UNCHANGED <<network, col, copied, heightMap>>
  <2>1. /\ seq \in [Node -> LastMileSequenceState]
        /\ boundaries \in [Node -> SUBSET Boundary]
    BY DEF TypeOK
  <2>2. /\ end[seq[n].epoch] + 1 >= seq[n].height
        /\ seq' = IF isCurrent
                  THEN [seq EXCEPT ![n] = EpochStart(last + 1, end[last])]
                  ELSE seq
        /\ boundaries' = [boundaries EXCEPT ![n] =
               {b \in @ : b.epoch \notin seq[n].epoch .. last} \cup
               {[epoch |-> e, height |-> end[e]] : e \in seq[n].epoch .. last}]
        /\ UNCHANGED <<network, col, copied, heightMap>>
    BY <1>3 DEF FastForwardAlong
  <2> QED
    BY <2>1, <2>2
<1>9. Aligned(seq[n])'
  <2>1. Aligned(seq'[n])
    BY <1>7, <1>8 DEF NodeInv
  <2> QED
    BY <1>8, <2>1 DEF Aligned, LeaderTurn
<1>10. \A b \in boundaries'[n] : IsRealBoundary(b)
  BY <1>5, <1>8 DEF NodeInv, IsRealBoundary
<1>11. seq[n].height <= seq'[n].height
  <2>1. EpochStart(last + 1, end[last]).height = network.end[last]
    BY <1>6 DEF EpochStart, Tracker
  <2>2. seq[n].height <= network.end[last]
    <3> DEFINE h == seq[n].height
               first == network.end[seq[n].epoch]
               final == network.end[last]
    <3>1. first - 1 + 1 >= h
      BY <1>6, <1>8
    <3>2. h \in Nat /\ first \in Nat /\ final \in Nat /\ first <= final
      BY <1>4, <1>6
    <3> HIDE DEF h, first, final
    <3>3. h <= final
      BY <3>1, <3>2
    <3> QED
      BY <3>3 DEF h, final
  <2>3. seq'[n] = seq[n] \/ seq'[n] = EpochStart(last + 1, end[last])
    BY <1>8
  <2> QED
    BY <1>4, <2>1, <2>2, <2>3
<1> QED
  BY <1>8, <1>9, <1>10, <1>11
     DEF NodeInv, IsCanonical, IsRealBoundary, LeaderTurn

\* A canonical height is within its epoch.
LEMMA CanonicalWithinEpoch ==
    ASSUME TypeOK, NEW x \in Entry, IsCanonical(x)
    PROVE  /\ x.height \in Nat /\ x.place.epoch \in Epoch
           /\ network.end[x.place.epoch] \in Nat
           /\ x.height + 1 <= network.end[x.place.epoch]
<1> DEFINE e == x.place.epoch
           l == x.place.leader
<1>1. /\ e \in Epoch /\ l \in Leader /\ x.place.index \in Nat /\ x.height \in Nat
      /\ LeaderTurn(x.place) = <<e, l>> /\ <<e, l>> \in Turn
  BY Numbers DEF Entry, Place, LeaderTurn
<1>2. /\ x.place.index <= network.last[<<e, l>>]
      /\ x.height = network.start[<<e, l>>] + x.place.index
  BY <1>1 DEF IsCanonical
<1> HIDE DEF e, l
<1>3. network.last[<<e, l>>] \in Int /\ network.start[<<e, l>>] \in Nat
  BY <1>1, ChainFacts, Numbers
<1>4. /\ network.end[e] \in Nat
      /\ network.start[<<e, l>>] + network.last[<<e, l>>] + 1 <= network.end[e]
  BY <1>1, ChainFacts
<1> QED
  BY <1>1, <1>2, <1>3, <1>4 DEF e

\* The collector moves one height up, and stays within the epoch it moves to.
LEMMA CollectorAdvance ==
    ASSUME TypeOK, NEW n \in Node, NodeInv(n), NEW x \in Entry, IsCanonical(x),
           x.height = col[n].height,
           NEW t, t = AdvanceAHPCollectorTracker(n, col[n], x.place)
    PROVE  /\ col[n].height <= t.height
           /\ t.height <= network.end[t.epoch]
<1>1. CASE IsMapped(n, col[n].height + 1)
  <2> DEFINE y == CHOOSE z \in heightMap[n] : z.height = col[n].height + 1
  <2>1. y \in heightMap[n] /\ y.height = col[n].height + 1
    BY <1>1 DEF IsMapped
  <2>2. y \in Entry /\ IsCanonical(y)
    BY <2>1 DEF TypeOK, NodeInv
  <2>3. t = Tracker(y.place.epoch, y.place.leader, y.place.index, y.height,
                    y.hie)
    BY <1>1 DEF AdvanceAHPCollectorTracker
  <2> HIDE DEF y
  <2> QED
    BY <2>1, <2>2, <2>3, CanonicalWithinEpoch DEF Tracker, Entry
<1>2. CASE ~IsMapped(n, col[n].height + 1)
  <2>1. t.height = col[n].height + 1 /\ t.epoch = x.place.epoch
    BY <1>2 DEF AdvanceAHPCollectorTracker, Tracker
  <2> QED
    BY <2>1, CanonicalWithinEpoch
<1> QED
  BY <1>1, <1>2

\* The collector's copies hold canonical entries; what it commits takes it up.
LEMMA CopySequencerInv ==
    ASSUME TypeOK, NEW n \in Node, NodeInv(n), CopySequencer(n)
    PROVE  NodeInv(n)'
<1> DEFINE J == {x \in heightMap[n] : /\ col[n].height <= x.height
                                      /\ x.height < seqDb[n].height}
           c == [tracker |-> seqDb[n], jobs |-> J, step |-> "copied"]
<1>1. /\ copied'[n] = {c}
      /\ UNCHANGED <<network, seq, col, heightMap, boundaries>>
  BY DEF CopySequencer, TypeOK
<1>2. c.jobs \subseteq heightMap[n] /\ c.step # "written"
  OBVIOUS
<1> HIDE DEF c
<1> QED
  BY <1>1, <1>2 DEF NodeInv, Aligned, IsCanonical, IsRealBoundary, LeaderTurn

LEMMA CommitHeightInv ==
    ASSUME TypeOK, NEW n \in Node, NodeInv(n), CommitHeight(n)
    PROVE  NodeInv(n)' /\ col[n].height <= col'[n].height
<1>1. PICK c \in copied[n] : \E x \in c.jobs :
         /\ c.step \in {"copied", "committed"}
         /\ x.height = col[n].height
         /\ SetCollector(n, AdvanceAHPCollectorTracker(n, col[n], x.place))
         /\ copied' = [copied EXCEPT ![n] = {[c EXCEPT !.step = "committed"]}]
         /\ UNCHANGED <<network, seq, seqDb, heightMap, boundaries, hps, erps,
                        restarted>>
  BY DEF CommitHeight
<1>2. PICK x \in c.jobs :
         /\ c.step \in {"copied", "committed"}
         /\ x.height = col[n].height
         /\ SetCollector(n, AdvanceAHPCollectorTracker(n, col[n], x.place))
         /\ copied' = [copied EXCEPT ![n] = {[c EXCEPT !.step = "committed"]}]
         /\ UNCHANGED <<network, seq, seqDb, heightMap, boundaries, hps, erps,
                        restarted>>
  BY <1>1
<1>3. c \in Copy /\ x \in Entry /\ IsCanonical(x)
  BY DEF TypeOK, Copy, NodeInv
<1> DEFINE t == AdvanceAHPCollectorTracker(n, col[n], x.place)
           d == [c EXCEPT !.step = "committed"]
<1>4. col'[n] = t /\ copied'[n] = {d}
  BY <1>2 DEF SetCollector, TypeOK
<1>5. col[n].height <= t.height /\ t.height <= network.end[t.epoch]
  BY <1>2, <1>3, CollectorAdvance
<1>6. d.jobs = c.jobs /\ d.step = "committed"
  BY <1>3 DEF Copy
<1> HIDE DEF t, d
<1>7. \A e \in copied'[n] : \A y \in e.jobs : IsCanonical(y)
  BY <1>4, <1>6 DEF NodeInv
<1> QED
  BY <1>2, <1>4, <1>5, <1>6, <1>7
     DEF NodeInv, Aligned, IsCanonical, IsRealBoundary, LeaderTurn

LEMMA SyncToBoundaryInv ==
    ASSUME TypeOK, NEW n \in Node, NodeInv(n), SyncToBoundary(n)
    PROVE  NodeInv(n)' /\ col[n].height <= col'[n].height
<1>1. PICK c \in copied[n], b \in boundaries[n] :
         /\ IsEpochsBehind(col[n], c.tracker)
         /\ b.epoch = c.tracker.epoch - 1
         /\ SetCollector(n, EpochStart(c.tracker.epoch, b.height))
         /\ copied' = [copied EXCEPT ![n] = {}]
         /\ UNCHANGED <<network, seq, seqDb, heightMap, boundaries, hps, erps,
                        restarted>>
  BY DEF SyncToBoundary
<1>2. /\ b.epoch \in Epoch /\ c.tracker.epoch \in Epoch
      /\ col[n].epoch \in Epoch /\ col[n].height \in Nat
      /\ b.height = network.end[b.epoch] - 1
      /\ col[n].height <= network.end[col[n].epoch]
  BY DEF TypeOK, Boundary, Copy, LastMileSequenceState, NodeInv, IsRealBoundary
<1>3. col[n].epoch <= b.epoch /\ b.epoch <= c.tracker.epoch
  BY <1>1, <1>2, Numbers DEF IsEpochsBehind, Epoch
<1>4. /\ network.end[col[n].epoch] \in Nat /\ network.end[b.epoch] \in Nat
      /\ network.end[c.tracker.epoch] \in Nat
      /\ network.end[col[n].epoch] <= network.end[b.epoch]
      /\ network.end[b.epoch] <= network.end[c.tracker.epoch]
  BY <1>2, <1>3, ChainFacts
<1>5. /\ col'[n] = EpochStart(c.tracker.epoch, b.height)
      /\ copied'[n] = {}
  BY <1>1 DEF SetCollector, TypeOK
<1>6. /\ col'[n].height = network.end[b.epoch]
      /\ col'[n].epoch = c.tracker.epoch
  BY <1>2, <1>4, <1>5 DEF EpochStart, Tracker
<1>7. /\ col[n].height <= col'[n].height
      /\ col'[n].height <= network.end[col'[n].epoch]
  BY <1>2, <1>4, <1>6
<1> QED
  BY <1>1, <1>5, <1>7
     DEF NodeInv, Aligned, IsCanonical, IsRealBoundary, LeaderTurn

LEMMA CatchUpSequencerInv ==
    ASSUME TypeOK, NEW n \in Node, NodeInv(n), CatchUpSequencer(n),
           \A r \in hps : IsCanonical(r.entry)
    PROVE  NodeInv(n)'
<1>1. PICK c \in copied[n], r \in hps :
         /\ r.entry.height = col[n].height
         /\ heightMap' = [heightMap EXCEPT ![n] = WithEntry(@, r.entry)]
         /\ copied' = [copied EXCEPT ![n] =
               {[c EXCEPT !.jobs = {r.entry}, !.step = "written"]}]
         /\ UNCHANGED <<network, seq, col, colDb, boundaries, hps, erps,
                        restarted>>
  BY DEF CatchUpSequencer
<1> DEFINE x == r.entry
           d == [[c EXCEPT !.jobs = {r.entry}] EXCEPT !.step = "written"]
<1>2. /\ heightMap'[n] = WithEntry(heightMap[n], x)
      /\ copied'[n] = {d}
  BY <1>1 DEF TypeOK
<1>3. d.jobs = {x}
  <2>1. c \in Copy /\ x \in Entry
    BY ProvedEntry DEF TypeOK
  <2>2. [c EXCEPT !.jobs = {x}] \in Copy
    BY <2>1 DEF Copy
  <2>3. [c EXCEPT !.jobs = {x}].jobs = {x}
    BY <2>1 DEF Copy
  <2> QED
    BY <2>2, <2>3 DEF Copy
<1>4. IsCanonical(x) /\ x.height = col[n].height
  BY <1>1
<1> HIDE DEF x, d
<1>5. \A y \in heightMap'[n] : IsCanonical(y)
  BY <1>2, <1>4 DEF NodeInv, WithEntry
<1>6. \A e \in copied'[n] : \A y \in e.jobs :
         IsCanonical(y) /\ y.height = col[n].height
  BY <1>2, <1>3, <1>4
<1> QED
  BY <1>1, <1>5, <1>6
     DEF NodeInv, Aligned, IsCanonical, IsRealBoundary, LeaderTurn

LEMMA CatchUpCollectorInv ==
    ASSUME TypeOK, NEW n \in Node, NodeInv(n), CatchUpCollector(n)
    PROVE  NodeInv(n)' /\ col[n].height <= col'[n].height
<1>1. PICK c \in copied[n] : \E x \in c.jobs :
         /\ c.step = "written"
         /\ SetCollector(n, AdvanceAHPCollectorTracker(n, col[n], x.place))
         /\ heightMap' = [heightMap EXCEPT ![n] = WithEntry(@, x)]
         /\ copied' = [copied EXCEPT ![n] = {}]
         /\ UNCHANGED <<network, seq, seqDb, boundaries, hps, erps, restarted>>
  BY DEF CatchUpCollector
<1>2. PICK x \in c.jobs :
         /\ c.step = "written"
         /\ SetCollector(n, AdvanceAHPCollectorTracker(n, col[n], x.place))
         /\ heightMap' = [heightMap EXCEPT ![n] = WithEntry(@, x)]
         /\ copied' = [copied EXCEPT ![n] = {}]
         /\ UNCHANGED <<network, seq, seqDb, boundaries, hps, erps, restarted>>
  BY <1>1
<1>3. x \in Entry /\ IsCanonical(x) /\ x.height = col[n].height
  BY <1>2 DEF TypeOK, Copy, NodeInv
<1> DEFINE t == AdvanceAHPCollectorTracker(n, col[n], x.place)
<1>4. /\ col'[n] = t /\ copied'[n] = {}
      /\ heightMap'[n] = WithEntry(heightMap[n], x)
  BY <1>2 DEF SetCollector, TypeOK
<1>5. col[n].height <= t.height /\ t.height <= network.end[t.epoch]
  BY <1>3, CollectorAdvance
<1> HIDE DEF t
<1>6. \A y \in heightMap'[n] : IsCanonical(y)
  BY <1>3, <1>4 DEF NodeInv, WithEntry
<1> QED
  BY <1>2, <1>4, <1>5, <1>6
     DEF NodeInv, Aligned, IsCanonical, IsRealBoundary, LeaderTurn

\* What the steps of a node do to its own part, and to its heights.
LEMMA OwnStep ==
    ASSUME IndInv, NEW n \in Node, Undisturbed(n), NodeStep(n), ~Restart(n)
    PROVE  /\ NodeInv(n)'
           /\ seq[n].height <= seq'[n].height
           /\ col[n].height <= col'[n].height
<1>1. TypeOK /\ NodeInv(n)
  BY DEF IndInv
<1>2. /\ \A r \in hps : IsCanonical(r.entry)
      /\ \A r \in erps : IsRealBoundary(r.boundary)
  BY DEF IndInv, SignedInv, Undisturbed
<1>3. /\ seq[n] \in LastMileSequenceState
      /\ seq[n].height \in Nat /\ col[n].height \in Nat
  BY <1>1, TrackerFacts DEF TypeOK, LastMileSequenceState
<1>4. CASE SkipLeader(n)
  <2>1. col' = col /\ seq'[n] = NextLeader(seq[n])
    BY <1>1, <1>4 DEF SkipLeader, SetTracker, TypeOK
  <2> QED
    BY <1>1, <1>3, <1>4, <2>1, SkipLeaderInv DEF NextLeader, Tracker
<1>5. ASSUME NEW isLastBlock \in BOOLEAN, PlaceBlock(n, isLastBlock)
      PROVE  /\ NodeInv(n)'
             /\ seq[n].height <= seq'[n].height
             /\ col[n].height <= col'[n].height
  <2>1. /\ col' = col
        /\ \/ seq'[n] = NextHeight(NextLeader(seq[n]))
           \/ seq'[n] = NextHeight(NextIndex(seq[n]))
    BY <1>1, <1>5 DEF PlaceBlock, SetTracker, TypeOK
  <2>2. seq'[n].height = seq[n].height + 1
    BY <2>1 DEF NextHeight, NextLeader, NextIndex, Tracker
  <2> QED
    BY <1>1, <1>3, <1>5, <2>1, <2>2, PlaceBlockInv
<1>6. CASE CompleteEpoch(n)
  <2>1. /\ col' = col
        /\ seq'[n] = seq[n] \/ seq'[n] = AdvanceToNextEpoch(seq[n])
    BY <1>1, <1>6 DEF CompleteEpoch, SetTracker, TypeOK
  <2> QED
    BY <1>1, <1>3, <1>6, <2>1, CompleteEpochInv DEF AdvanceToNextEpoch, Tracker
<1>7. CASE FastForward(n)
  <2>1. col' = col
    BY <1>7 DEF FastForward, FastForwardAlong
  <2> QED
    BY <1>1, <1>2, <1>3, <1>7, <2>1, FastForwardInv
<1>8. CASE CopySequencer(n)
  BY <1>1, <1>3, <1>8, CopySequencerInv DEF CopySequencer
<1>9. CASE CommitHeight(n)
  <2>1. seq' = seq
    BY <1>9 DEF CommitHeight
  <2> QED
    BY <1>1, <1>3, <1>9, <2>1, CommitHeightInv
<1>10. CASE SyncToBoundary(n)
  <2>1. seq' = seq
    BY <1>10 DEF SyncToBoundary
  <2> QED
    BY <1>1, <1>3, <1>10, <2>1, SyncToBoundaryInv
<1>11. CASE CatchUpSequencer(n)
  <2>1. seq' = seq /\ col' = col
    BY <1>11 DEF CatchUpSequencer
  <2> QED
    BY <1>1, <1>2, <1>3, <1>11, <2>1, CatchUpSequencerInv
<1>12. CASE CatchUpCollector(n)
  <2>1. seq' = seq
    BY <1>12 DEF CatchUpCollector
  <2> QED
    BY <1>1, <1>3, <1>12, <2>1, CatchUpCollectorInv
<1>13. CASE EndRound(n)
  <2>1. /\ copied'[n] = {}
        /\ UNCHANGED <<network, seq, col, heightMap, boundaries>>
    BY <1>1, <1>13 DEF EndRound, TypeOK
  <2> QED
    BY <1>1, <1>3, <2>1
       DEF NodeInv, Aligned, IsCanonical, IsRealBoundary, LeaderTurn
<1> QED
  BY <1>4, <1>5, <1>6, <1>7, <1>8, <1>9, <1>10, <1>11, <1>12, <1>13
     DEF NodeStep

\* What a step of one node leaves alone.
LEMMA OthersUntouched ==
    ASSUME TypeOK, NEW n \in Node, NodeStep(n), NEW m \in Node, m # n
    PROVE  /\ seq'[m] = seq[m] /\ col'[m] = col[m]
           /\ heightMap'[m] = heightMap[m] /\ boundaries'[m] = boundaries[m]
           /\ copied'[m] = copied[m] /\ restarted'[m] = restarted[m]
           /\ UNCHANGED <<network, hps, erps>>
<1>1. CASE SkipLeader(n)
  BY <1>1 DEF SkipLeader, SetTracker, TypeOK
<1>2. ASSUME NEW isLastBlock \in BOOLEAN, PlaceBlock(n, isLastBlock)
      PROVE  /\ seq'[m] = seq[m] /\ col'[m] = col[m]
             /\ heightMap'[m] = heightMap[m] /\ boundaries'[m] = boundaries[m]
             /\ copied'[m] = copied[m] /\ restarted'[m] = restarted[m]
             /\ UNCHANGED <<network, hps, erps>>
  BY <1>2 DEF PlaceBlock, SetTracker, TypeOK
<1>3. CASE CompleteEpoch(n)
  BY <1>3 DEF CompleteEpoch, SetTracker, TypeOK
<1>4. CASE FastForward(n)
  BY <1>4 DEF FastForward, FastForwardAlong, TypeOK
<1>5. CASE CopySequencer(n)
  BY <1>5 DEF CopySequencer, TypeOK
<1>6. CASE CommitHeight(n)
  <2>1. /\ \E S : copied' = [copied EXCEPT ![n] = S]
        /\ \E t : col' = [col EXCEPT ![n] = t]
        /\ UNCHANGED <<network, seq, heightMap, boundaries, hps, erps, restarted>>
    BY <1>6 DEF CommitHeight, SetCollector
  <2> QED
    BY <2>1 DEF TypeOK
<1>7. CASE SyncToBoundary(n)
  <2>1. /\ \E S : copied' = [copied EXCEPT ![n] = S]
        /\ \E t : col' = [col EXCEPT ![n] = t]
        /\ UNCHANGED <<network, seq, heightMap, boundaries, hps, erps, restarted>>
    BY <1>7 DEF SyncToBoundary, SetCollector
  <2> QED
    BY <2>1 DEF TypeOK
<1>8. CASE CatchUpSequencer(n)
  <2>1. /\ \E S : copied' = [copied EXCEPT ![n] = S]
        /\ \E S : heightMap' = [heightMap EXCEPT ![n] = S]
        /\ UNCHANGED <<network, seq, col, boundaries, hps, erps, restarted>>
    BY <1>8 DEF CatchUpSequencer
  <2> QED
    BY <2>1 DEF TypeOK
<1>9. CASE CatchUpCollector(n)
  <2>1. /\ \E S : copied' = [copied EXCEPT ![n] = S]
        /\ \E t : col' = [col EXCEPT ![n] = t]
        /\ \E S : heightMap' = [heightMap EXCEPT ![n] = S]
        /\ UNCHANGED <<network, seq, boundaries, hps, erps, restarted>>
    BY <1>9 DEF CatchUpCollector, SetCollector
  <2> QED
    BY <2>1 DEF TypeOK
<1>10. CASE EndRound(n)
  BY <1>10 DEF EndRound, TypeOK
<1>11. CASE Restart(n)
  BY <1>11 DEF Restart, TypeOK
<1> QED
  BY <1>1, <1>2, <1>3, <1>4, <1>5, <1>6, <1>7, <1>8, <1>9, <1>10, <1>11
     DEF NodeStep

\* Only a restart disturbs, and what is disturbed stays so.
LEMMA StaysDisturbed ==
    ASSUME TypeOK, [Next]_vars
    PROVE  /\ \A m \in Node : restarted[m] => restarted'[m]
           /\ \A n \in Node : Restart(n) => restarted'[n]
<1>1. ASSUME NEW n \in Node, NodeStep(n)
      PROVE  /\ \A m \in Node : restarted[m] => restarted'[m]
  <2>1. Restart(n) \/ restarted'[n] = restarted[n]
    BY <1>1 DEF NodeStep, SkipLeader, PlaceBlock, CompleteEpoch, FastForward,
       FastForwardAlong, CopySequencer, CommitHeight, SyncToBoundary,
       CatchUpSequencer, CatchUpCollector, EndRound
  <2>2. Restart(n) => restarted'[n]
    BY DEF Restart, TypeOK
  <2> QED
    BY <1>1, <2>1, <2>2, OthersUntouched
<1>2. ASSUME NEW v \in Honest, GetHeightProof(v) \/ GetEpochRotationProof(v)
      PROVE  restarted' = restarted
  BY <1>2 DEF GetHeightProof, GetEpochRotationProof
<1>3. \A n \in Node : Restart(n) => restarted'[n]
  BY DEF Restart, TypeOK
<1> QED
  BY <1>1, <1>2, <1>3 DEF Next, vars

\* The steps of the nodes keep the invariant.
LEMMA NodeStepInv ==
    ASSUME IndInv, NEW n \in Node, NodeStep(n), [Next]_vars PROVE IndInv'
<1>1. TypeOK'
  BY TypeStep DEF IndInv
<1>2. ASSUME NEW m \in Node, Undisturbed(m)' PROVE NodeInv(m)'
  <2>1. Undisturbed(m)
    BY <1>2, StaysDisturbed, Numbers DEF Undisturbed, IndInv
  <2>2. NodeInv(m)
    BY <2>1 DEF IndInv
  <2>3. CASE m = n
    <3>1. ~Restart(n)
      BY <1>2, <2>3, StaysDisturbed DEF Undisturbed, IndInv
    <3> QED
      BY <2>1, <2>3, <3>1, OwnStep
  <2>4. CASE m # n
    BY <2>2, <2>4, OthersUntouched, OtherNodeInv DEF IndInv
  <2> QED
    BY <2>3, <2>4
<1>3. SignedInv'
  <2>1. UNCHANGED <<network, hps, erps>>
    BY DEF NodeStep, SkipLeader, PlaceBlock, CompleteEpoch, FastForward,
       FastForwardAlong, CopySequencer, CommitHeight, SyncToBoundary,
       CatchUpSequencer, CatchUpCollector, EndRound, Restart
  <2>2. (\A v \in Honest : ~restarted'[v]) => \A v \in Honest : ~restarted[v]
    BY StaysDisturbed, Numbers DEF IndInv
  <2> QED
    BY <2>1, <2>2
       DEF IndInv, SignedInv, IsCanonical, IsRealBoundary, LeaderTurn
<1> QED
  BY <1>1, <1>2, <1>3 DEF IndInv

\* So do the signatures, which say what is in the voter's maps.
LEMMA VoterStepInv ==
    ASSUME IndInv, NEW v \in Honest,
           GetHeightProof(v) \/ GetEpochRotationProof(v), [Next]_vars
    PROVE  IndInv'
<1>1. TypeOK'
  BY TypeStep DEF IndInv
<1>2. UNCHANGED <<network, seq, seqDb, col, colDb, copied, heightMap,
                  boundaries, restarted>>
  BY DEF GetHeightProof, GetEpochRotationProof
<1>3. \A n \in Node : Undisturbed(n)' => NodeInv(n)'
  BY <1>2, OtherNodeInv DEF IndInv, Undisturbed
<1>4. ASSUME \A w \in Honest : ~restarted[w]
      PROVE  /\ \A r \in hps' : IsCanonical(r.entry)
             /\ \A r \in erps' : IsRealBoundary(r.boundary)
  <2>1. /\ \A r \in hps : IsCanonical(r.entry)
        /\ \A r \in erps : IsRealBoundary(r.boundary)
    BY <1>4 DEF IndInv, SignedInv
  <2>2. NodeInv(v)
    BY <1>4, Numbers DEF IndInv, Undisturbed
  <2>3. /\ \A r \in hps' : r \in hps \/ r.entry \in heightMap[v]
        /\ \A r \in erps' : r \in erps \/ r.boundary \in boundaries[v]
    BY DEF GetHeightProof, GetEpochRotationProof
  <2> QED
    BY <2>1, <2>2, <2>3 DEF NodeInv
<1>5. SignedInv'
  BY <1>2, <1>4 DEF SignedInv, IsCanonical, IsRealBoundary, LeaderTurn
<1> QED
  BY <1>1, <1>3, <1>5 DEF IndInv

LEMMA IndInvInit == Init => IndInv
<1> SUFFICES ASSUME Init PROVE IndInv
  OBVIOUS
<1>1. TypeOK
  BY TypeInit
<1>2. Aligned(FirstState) /\ FirstState.height <= network.end[FirstState.epoch]
  <2>1. /\ 0 \in Epoch /\ 0 \in Leader /\ 0 < NumLeaders
        /\ <<0, 0>> \in Turn
    BY Numbers DEF Epoch, Leader
  <2>2. /\ network.start[<<0, 0>>] = 0
        /\ network.last[<<0, 0>>] \in Int /\ network.last[<<0, 0>>] >= -1
        /\ network.end[0] \in Nat
    BY <1>1, <2>1, ChainFacts, Numbers
  <2> QED
    BY <2>1, <2>2 DEF Aligned, FirstState, Tracker, LeaderTurn
<1>3. \A n \in Node : NodeInv(n)
  BY <1>2 DEF Init, NodeInv
<1> QED
  BY <1>1, <1>3 DEF IndInv, SignedInv, Init

LEMMA IndInvNext == IndInv /\ [Next]_vars => IndInv'
<1> SUFFICES ASSUME IndInv, [Next]_vars PROVE IndInv'
  OBVIOUS
<1>1. CASE UNCHANGED vars
  <2>1. TypeOK'
    BY TypeStep DEF IndInv
  <2>2. \A n \in Node : Undisturbed(n)' => NodeInv(n)'
    BY <1>1, OtherNodeInv DEF IndInv, Undisturbed, vars
  <2>3. SignedInv'
    BY <1>1 DEF IndInv, SignedInv, IsCanonical, IsRealBoundary, LeaderTurn, vars
  <2> QED
    BY <2>1, <2>2, <2>3 DEF IndInv
<1> QED
  BY <1>1, NodeStepInv, VoterStepInv DEF Next

LEMMA Invariance == Spec => []IndInv
BY IndInvInit, IndInvNext, PTL DEF Spec

-----------------------------------------------------------------------------
(* Theorems *)

\* Trackers, maps and signatures keep their types, restarts included.
THEOREM TypeCorrect == Spec => []TypeOK
BY TypeInit, TypeStep, PTL DEF Spec

\* Whichever of the two threads writes a height, and whatever it knows it from,
\* it is the height of the block in leader order (LastMileFinalizerThread,
\* catchUpLastMileWithinEpoch), as long as no restart reads a tracker back.
THEOREM HeightsInLeaderOrder == Spec => []HeightMapInLeaderOrder
<1>1. IndInv => HeightMapInLeaderOrder
  BY DEF IndInv, NodeInv, HeightMapInLeaderOrder
<1> QED
  BY <1>1, Invariance, PTL

\* Every boundary, sequenced or taken from an AERP, is the last height of its
\* epoch.
THEOREM RealBoundaries == Spec => []BoundariesAreReal
<1>1. IndInv => BoundariesAreReal
  BY DEF IndInv, NodeInv, BoundariesAreReal, IsRealBoundary
<1> QED
  BY <1>1, Invariance, PTL

\* Neither thread goes back to an earlier height.
THEOREM MonotoneHeights == Spec => HeightsNeverMoveBack
<1> DEFINE Grow(n) == /\ seq[n].height <= seq'[n].height
                      /\ col[n].height <= col'[n].height
<1>1. ASSUME IndInv, [Next]_vars, NEW n \in Node, Undisturbed(n)'
      PROVE  Grow(n)
  <2>1. Undisturbed(n)
    BY <1>1, StaysDisturbed, Numbers DEF Undisturbed, IndInv
  <2>2. seq[n].height \in Nat /\ col[n].height \in Nat
    BY <1>1 DEF IndInv, TypeOK, LastMileSequenceState
  <2>3. ASSUME NEW m \in Node, NodeStep(m) PROVE Grow(n)
    <3>1. CASE m = n
      <4>1. ~Restart(n)
        BY <1>1, StaysDisturbed DEF Undisturbed, IndInv
      <4> QED
        BY <1>1, <2>1, <2>3, <3>1, <4>1, OwnStep
    <3>2. CASE m # n
      BY <1>1, <2>2, <2>3, <3>2, OthersUntouched DEF IndInv
    <3> QED
      BY <3>1, <3>2
  <2>4. CASE \E v \in Honest : GetHeightProof(v) \/ GetEpochRotationProof(v)
    BY <2>2, <2>4 DEF GetHeightProof, GetEpochRotationProof
  <2>5. CASE UNCHANGED vars
    BY <2>2, <2>5 DEF vars
  <2> QED
    BY <1>1, <2>3, <2>4, <2>5 DEF Next
<1>2. IndInv /\ [Next]_vars =>
         [\A n \in Node : Undisturbed(n)' =>
              /\ seq[n].height <= seq'[n].height
              /\ col[n].height <= col'[n].height]_vars
  BY <1>1
<1> QED
  BY <1>2, Invariance, PTL DEF Spec, HeightsNeverMoveBack

HIDE LastMileAssumption

-----------------------------------------------------------------------------
(* ProofDelivery *)

\* The signature in an answer exists.
Sound(r) ==
    r.signer \in Honest /\ r.topic # NoTopic => <<r.signer, r.topic>> \in signed

\* Answers may come from earlier rounds, those that count are of this one.
RepliesAreSound ==
    /\ \A r \in inbox : Sound(r)
    /\ \A c \in checks :
          /\ Sound(c.reply)
          /\ IsValid(c.reply, c.topic) => phase = "waiting" /\ c.topic = topic
    /\ \A r \in valid : Sound(r) /\ r.topic = topic

\* What the point of distribution or the outbox has, and what the finalizer has
\* sent, too.
IsSent(x) == x \in pod \/ x \in outbox[Self]

IsOnItsWay(x) ==
    \/ IsSent(x)
    \/ \E s \in sends[Self] : s.thread = "finalizer" /\ s.message = x

\* Where the caller is, and what it has in its hands there.
StepsFollow ==
    /\ phase # "idle" => topic \in Topic /\ topic = next
    /\ caller # "collector" => committed = 0 /\ step # "advance"
    /\ step \in {"store", "send", "advance"} => Current \in Topic
    /\ caller = "collector" =>
          /\ step = "store" => HasProof(results, Current)
          /\ step \in {"send", "advance"} => HasProof(stored, Current)
          /\ step = "advance" => IsSent(Current)
    /\ caller = "finalizer" /\ step = "store" => IsOnItsWay(Current)

AcksAreTrue == \A s \in sends[Self] : s.acked => s.message \in pod

\* The inductive invariant.
DeliveryInv ==
    /\ ProofsTypeOK
    /\ RepliesAreSound
    /\ ProofsAreSigned
    /\ StepsFollow
    /\ AcksAreTrue
    /\ FinishedProofsAreSent

USE WaiterAssumption, DeliveryAssumption

-----------------------------------------------------------------------------
(* Types of the waiter *)

\* The reset of the waiter's counter of troubles stays within its bound.
LEMMA TroubleType ==
    ASSUME WaiterTypeOK, Trouble
    PROVE  trouble' \in 0 .. MaxTrouble
BY DEF WaiterTypeOK, Trouble

\* The first connections have the number 1.
LEMMA FirstConnsType == FirstConns(reachable) \in [Quorum -> ConnNr]
BY DEF FirstConns, ConnNr

LEMMA WaiterTypeInit == WaiterInit => WaiterTypeOK
<1> SUFFICES ASSUME WaiterInit PROVE WaiterTypeOK
  OBVIOUS
<1>1. conns \in [Quorum -> ConnNr] /\ dialed \in [Quorum -> ConnNr]
  BY FirstConnsType DEF WaiterInit
<1>2. reachable \subseteq Quorum /\ trouble \in 0 .. MaxTrouble
  BY DEF WaiterInit
<1> QED
  BY <1>1, <1>2 DEF WaiterInit, WaiterTypeOK

\* Requests go to members, over the connections they have.
LEMMA NewCallsType ==
    ASSUME WaiterTypeOK, NEW targets \in SUBSET Quorum, NEW t \in Topic
    PROVE  NewCalls(targets, t) \subseteq Call
<1>1. ASSUME NEW p \in targets
      PROVE  [peer |-> p, conn |-> conns[p], topic |-> t, failing |-> FALSE]
                 \in Call
  <2>1. p \in Quorum /\ conns[p] \in ConnNr
    BY DEF WaiterTypeOK
  <2> QED
    BY <2>1 DEF Call
<1> QED
  BY <1>1 DEF NewCalls

\* Starting a round and asking again keep the types.
LEMMA RoundType ==
    ASSUME WaiterTypeOK, NEW t \in Topic, StartRound(t)
    PROVE  WaiterTypeOK'
<1>1. NewCalls(Quorum, t) \subseteq Call
  BY NewCallsType
<1>2. calls' \subseteq Call /\ failed' \subseteq Quorum
  BY <1>1 DEF StartRound, WaiterTypeOK, WithoutConn
<1> QED
  BY <1>2 DEF StartRound, WaiterTypeOK, connVars

LEMMA ResendType ==
    ASSUME WaiterTypeOK, phase # "idle" => topic \in Topic, Resend
    PROVE  WaiterTypeOK'
<1>1. topic \in Topic
  BY DEF Resend
<1>2. NewCalls(Quorum \ answered, topic) \subseteq Call
  BY <1>1, NewCallsType
<1>3. calls' \subseteq Call /\ failed' \subseteq Quorum
  BY <1>2 DEF Resend, WaiterTypeOK, WithoutConn
<1> QED
  BY <1>3 DEF Resend, WaiterTypeOK, connVars

\* An answer that is taken and one that is checked.
LEMMA ReceiveType ==
    ASSUME WaiterTypeOK, phase # "idle" => topic \in Topic,
           NEW r \in inbox, Receive(r)
    PROVE  WaiterTypeOK'
<1>1. topic \in Topic /\ r \in Reply
  BY DEF Receive, WaiterTypeOK
<1>2. [reply |-> r, topic |-> topic] \in Check /\ r.peer \in Quorum
  BY <1>1 DEF Check, Reply
<1> QED
  BY <1>2 DEF Receive, WaiterTypeOK, connVars

LEMMA FinishCheckType ==
    ASSUME WaiterTypeOK, NEW c \in checks, FinishCheck(c)
    PROVE  WaiterTypeOK'
<1>1. c.reply \in Reply
  BY DEF WaiterTypeOK, Check
<1>2. valid' \subseteq Reply /\ answered' \subseteq Quorum /\ checks' \subseteq Check
  BY <1>1 DEF FinishCheck, WaiterTypeOK
<1> QED
  BY <1>2 DEF FinishCheck, WaiterTypeOK, connVars

\* The end of a round.
LEMMA EndRoundType ==
    ASSUME WaiterTypeOK, NEW ok \in BOOLEAN, CloseRound(ok),
           Trouble \/ UNCHANGED trouble
    PROVE  WaiterTypeOK'
<1>1. trouble' \in 0 .. MaxTrouble
  BY TroubleType DEF WaiterTypeOK
<1>2. checks' \subseteq Check
  BY DEF CloseRound, WaiterTypeOK
<1> QED
  BY <1>1, <1>2 DEF CloseRound, WaiterTypeOK, connVars

LEMMA ReconnectType ==
    ASSUME WaiterTypeOK, NEW p \in redial, Reconnect(p) \/ SkipReconnect(p)
    PROVE  WaiterTypeOK'
<1>1. CASE Reconnect(p)
  <2>1. dialed[p] + 1 \in ConnNr /\ p \in Quorum
    BY <1>1 DEF Reconnect, WaiterTypeOK, ConnNr
  <2>2. conns' \in [Quorum -> ConnNr] /\ dialed' \in [Quorum -> ConnNr]
    BY <1>1, <2>1 DEF Reconnect, WaiterTypeOK
  <2>3. closed' \subseteq Quorum \X ConnNr
    BY <1>1, <2>1 DEF Reconnect, WaiterTypeOK
  <2> QED
    BY <1>1, <2>2, <2>3 DEF Reconnect, WaiterTypeOK
<1>2. CASE SkipReconnect(p)
  <2>1. trouble' \in 0 .. MaxTrouble
    BY <1>2, TroubleType DEF SkipReconnect, WaiterTypeOK
  <2> QED
    BY <1>2, <2>1 DEF SkipReconnect, WaiterTypeOK, connVars
<1> QED
  BY <1>1, <1>2

\* What the goroutines of the requests do.
LEMMA AnswerType ==
    ASSUME WaiterTypeOK, NEW c \in calls, Answer(c)
    PROVE  WaiterTypeOK' /\ signed \subseteq signed'
<1>1. c.peer \in Quorum /\ c.topic \in Topic
  BY DEF WaiterTypeOK, Call
<1>2. ASSUME NEW r \in Reply, Deliver(r)
      PROVE  inbox' \subseteq Reply
  BY <1>2 DEF Deliver, WaiterTypeOK
<1>3. /\ inbox' \subseteq Reply /\ signed' \subseteq Honest \X Topic
      /\ signed \subseteq signed' /\ trouble' \in 0 .. MaxTrouble
  <2>1. CASE Sign(c)
    <3>1. [peer |-> c.peer, signer |-> c.peer, topic |-> c.topic] \in Reply
      BY <1>1 DEF Reply
    <3> QED
      BY <1>1, <1>2, <2>1, <3>1 DEF Sign, WaiterTypeOK
  <2>2. CASE Refuse(c)
    <3>1. [peer |-> c.peer, signer |-> c.peer, topic |-> NoTopic] \in Reply
      BY <1>1 DEF Reply
    <3> QED
      BY <1>2, <2>2, <3>1, TroubleType DEF Refuse, WaiterTypeOK
  <2>3. CASE SignAnyhow(c)
    <3>1. PICK s \in Quorum :
              Deliver([peer |-> c.peer, signer |-> s, topic |-> c.topic])
      BY <2>3 DEF SignAnyhow
    <3>2. [peer |-> c.peer, signer |-> s, topic |-> c.topic] \in Reply
      BY <1>1 DEF Reply
    <3> QED
      BY <1>2, <2>3, <3>1, <3>2 DEF SignAnyhow, WaiterTypeOK
  <2> QED
    BY <2>1, <2>2, <2>3 DEF Answer
<1> QED
  BY <1>3 DEF Answer, WaiterTypeOK, roundVars, connVars

LEMMA BreakType ==
    ASSUME WaiterTypeOK, NEW c \in calls, Break(c) \/ DropConnection(c)
    PROVE  WaiterTypeOK'
<1>1. c \in Call /\ c.peer \in Quorum /\ c.conn \in ConnNr
  BY DEF WaiterTypeOK, Call
<1>2. CASE Break(c)
  <2>1. [c EXCEPT !.failing = TRUE] \in Call
    BY <1>1 DEF Call
  <2>2. trouble' \in 0 .. MaxTrouble
    BY <1>2, TroubleType DEF Break, WaiterTypeOK
  <2> QED
    BY <1>1, <1>2, <2>1, <2>2 DEF Break, WaiterTypeOK, connVars
<1>3. CASE DropConnection(c)
  <2>1. conns' \in [Quorum -> ConnNr] /\ closed' \subseteq Quorum \X ConnNr
    BY <1>1, <1>3 DEF DropConnection, WaiterTypeOK, ConnNr
  <2> QED
    BY <1>3, <2>1 DEF DropConnection, WaiterTypeOK, roundVars
<1> QED
  BY <1>2, <1>3

\* A process that starts again, and one that tries again with connections of
\* its own, has a waiter like the first one.
LEMMA NewWaiterType ==
    ASSUME WaiterTypeOK, NewWaiter, trouble' \in 0 .. MaxTrouble
    PROVE  WaiterTypeOK'
<1>1. conns' \in [Quorum -> ConnNr] /\ dialed' \in [Quorum -> ConnNr]
  BY FirstConnsType DEF NewWaiter
<1> QED
  BY <1>1 DEF NewWaiter, WaiterTypeOK

LEMMA WaiterStepType ==
    ASSUME WaiterTypeOK, phase # "idle" => topic \in Topic, WaiterStep
    PROVE  WaiterTypeOK'
<1>1. CASE Resend
  BY <1>1, ResendType
<1>2. CASE \E r \in inbox : Receive(r)
  BY <1>2, ReceiveType
<1>3. CASE \E c \in checks : FinishCheck(c)
  BY <1>3, FinishCheckType
<1>4. CASE CompleteRound
  BY <1>4, EndRoundType DEF CompleteRound
<1>5. CASE FailRound
  BY <1>5, EndRoundType DEF FailRound
<1>6. CASE \E p \in redial : Reconnect(p) \/ SkipReconnect(p)
  BY <1>6, ReconnectType
<1>7. CASE \E c \in calls : Answer(c)
  BY <1>7, AnswerType
<1>8. CASE \E c \in calls : Break(c) \/ DropConnection(c)
  BY <1>8, BreakType
<1> QED
  BY <1>1, <1>2, <1>3, <1>4, <1>5, <1>6, <1>7, <1>8 DEF WaiterStep

-----------------------------------------------------------------------------
(* Signatures *)

\* Soundness is kept while signatures are only added.
LEMMA SoundGrows ==
    ASSUME NEW r, Sound(r), signed \subseteq signed'
    PROVE  Sound(r)'
BY DEF Sound

\* What an answer says is true: an honest member signs what it sends, a faulty
\* one relays what others have signed.
LEMMA AnswerIsSound ==
    ASSUME WaiterTypeOK, RepliesAreSound, NEW c \in calls, Answer(c)
    PROVE  RepliesAreSound'
<1>1. signed \subseteq signed'
  BY AnswerType
<1>2. ASSUME NEW r, Sound(r)', Deliver(r)
      PROVE  \A x \in inbox' : Sound(x)'
  BY <1>1, <1>2, SoundGrows DEF Deliver, RepliesAreSound
<1>3. \A x \in inbox' : Sound(x)'
  <2>1. CASE Sign(c)
    <3>1. Sound([peer |-> c.peer, signer |-> c.peer, topic |-> c.topic])'
      BY <2>1 DEF Sign, Sound
    <3> QED
      BY <1>2, <2>1, <3>1 DEF Sign
  <2>2. CASE Refuse(c)
    <3>1. Sound([peer |-> c.peer, signer |-> c.peer, topic |-> NoTopic])'
      BY DEF Sound
    <3> QED
      BY <1>2, <2>2, <3>1 DEF Refuse
  <2>3. CASE SignAnyhow(c)
    <3>1. PICK s \in Quorum :
              /\ s \in Faulty \/ <<s, c.topic>> \in signed
              /\ Deliver([peer |-> c.peer, signer |-> s, topic |-> c.topic])
      BY <2>3 DEF SignAnyhow
    <3>2. Sound([peer |-> c.peer, signer |-> s, topic |-> c.topic])'
      BY <1>1, <3>1, QuorumAssumption DEF Sound
    <3> QED
      BY <1>2, <3>1, <3>2
  <2> QED
    BY <2>1, <2>2, <2>3 DEF Answer
<1> QED
  BY <1>1, <1>3, SoundGrows DEF Answer, RepliesAreSound, roundVars

\* The other steps of the waiter only take answers, check them, and drop those
\* that would come too late.
LEMMA WaiterStepIsSound ==
    ASSUME WaiterTypeOK, RepliesAreSound, WaiterStep
    PROVE  RepliesAreSound' /\ signed \subseteq signed'
<1>1. CASE Resend
  BY <1>1 DEF Resend, RepliesAreSound, Sound
<1>2. ASSUME NEW r \in inbox, Receive(r)
      PROVE  RepliesAreSound' /\ signed \subseteq signed'
  BY <1>2 DEF Receive, RepliesAreSound, Sound
<1>3. ASSUME NEW c \in checks, FinishCheck(c)
      PROVE  RepliesAreSound' /\ signed \subseteq signed'
  <2>1. IsValid(c.reply, c.topic) => c.reply.topic = topic
    BY DEF RepliesAreSound, IsValid
  <2>2. \A r \in valid' : Sound(r) /\ r.topic = topic
    BY <1>3, <2>1 DEF FinishCheck, RepliesAreSound
  <2> QED
    BY <1>3, <2>2 DEF FinishCheck, RepliesAreSound, Sound
<1>4. ASSUME NEW ok \in BOOLEAN, CloseRound(ok)
      PROVE  RepliesAreSound' /\ signed \subseteq signed'
  BY <1>4 DEF CloseRound, RepliesAreSound, Sound
<1>5. CASE CompleteRound \/ FailRound
  BY <1>4, <1>5 DEF CompleteRound, FailRound
<1>6. CASE \E p \in redial : Reconnect(p) \/ SkipReconnect(p)
  BY <1>6 DEF Reconnect, SkipReconnect, RepliesAreSound, Sound
<1>7. CASE \E c \in calls : Answer(c)
  BY <1>7, AnswerIsSound, AnswerType
<1>8. CASE \E c \in calls : Break(c) \/ DropConnection(c)
  BY <1>8 DEF Break, DropConnection, RepliesAreSound, Sound, roundVars
<1> QED
  BY <1>1, <1>2, <1>3, <1>5, <1>6, <1>7, <1>8 DEF WaiterStep

\* A new round does not see what was counted before.
LEMMA RoundIsSound ==
    ASSUME RepliesAreSound, NEW t \in Topic, StartRound(t)
    PROVE  RepliesAreSound'
BY DEF StartRound, RepliesAreSound, Sound

\* The proofs keep their signatures.
LEMMA ProofsStaySigned ==
    ASSUME ProofsAreSigned, signed \subseteq signed',
           UNCHANGED <<results, stored>>
    PROVE  ProofsAreSigned'
BY DEF ProofsAreSigned

\* What a round has collected is a proof of its topic.
LEMMA CollectedIsSigned ==
    ASSUME WaiterTypeOK, RepliesAreSound, topic \in Topic, NEW x \in Collected(topic)
    PROVE  /\ x \in Proof /\ x.topic = topic
           /\ Cardinality(x.signers) >= GetQuorumMajority
           /\ \A v \in x.signers \cap Honest : <<v, x.topic>> \in signed
<1> DEFINE voters == {r.signer : r \in valid}
<1>1. x = [topic |-> topic, signers |-> voters] /\ EnoughVoters(voters)
  BY DEF Collected
<1>2. voters \subseteq Quorum
  BY DEF WaiterTypeOK, Reply
<1>3. topic # NoTopic
  BY DEF NoTopic
<1>4. \A v \in voters \cap Honest : <<v, topic>> \in signed
  BY <1>3 DEF RepliesAreSound, Sound
<1> QED
  BY <1>1, <1>2, <1>4 DEF Proof, EnoughVoters

-----------------------------------------------------------------------------
(* The outbox *)

\* What the steps of the outbox leave as it should be.
OutboxInv == Out!OutboxTypeOK /\ AcksAreTrue

\* What is on its way stays there, or gets to the outbox or the PoD.
NothingIsLost ==
    \A x : (IsSent(x) => IsSent(x)') /\ (IsOnItsWay(x) => IsOnItsWay(x)')

LEMMA SendToPoDInv ==
    ASSUME OutboxInv, NEW x \in Topic,
           NEW thread \in SendingThread \cup {Out!Flusher},
           Out!SendToPoD(Self, thread, x), flushing' \in [{Self} -> SUBSET Topic]
    PROVE  /\ OutboxInv' /\ NothingIsLost
           /\ thread = "finalizer" => IsOnItsWay(x)'
<1>1. PICK accepted \in BOOLEAN, acked \in BOOLEAN :
          /\ acked => accepted
          /\ pod' = IF accepted THEN pod \cup {x} ELSE pod
          /\ sends' = [sends EXCEPT ![Self] = @ \cup
                {[thread |-> thread, message |-> x, acked |-> acked]}]
  BY DEF Out!SendToPoD
<1> DEFINE new == [thread |-> thread, message |-> x, acked |-> acked]
<1>2. new \in Out!Send
  BY DEF Out!Send
<1>3. pod' \subseteq Topic /\ pod \subseteq pod' /\ outbox' = outbox
  BY <1>1 DEF OutboxInv, Out!OutboxTypeOK, Out!SendToPoD
<1>4. sends'[Self] = sends[Self] \cup {new}
  BY <1>1 DEF OutboxInv, Out!OutboxTypeOK
<1>5. sends' \in [{Self} -> SUBSET Out!Send]
  BY <1>1, <1>2 DEF OutboxInv, Out!OutboxTypeOK
<1>6. AcksAreTrue'
  BY <1>1, <1>3, <1>4 DEF OutboxInv, AcksAreTrue
<1>7. NothingIsLost
  BY <1>3, <1>4 DEF NothingIsLost, IsOnItsWay, IsSent
<1>8. thread = "finalizer" => IsOnItsWay(x)'
  <2>1. new \in sends'[Self] /\ new.thread = thread /\ new.message = x
    BY <1>4
  <2> QED
    BY <2>1 DEF IsOnItsWay
<1> QED
  BY <1>3, <1>5, <1>6, <1>7, <1>8 DEF OutboxInv, Out!OutboxTypeOK

LEMMA FinishSendInv ==
    ASSUME OutboxInv, NEW thread, Out!FinishSend(Self, thread)
    PROVE  OutboxInv' /\ NothingIsLost
<1>1. PICK s \in sends[Self] :
          /\ outbox' = [outbox EXCEPT ![Self] = Out!OutboxAfterSend(@, s)]
          /\ sends' = [sends EXCEPT ![Self] = @ \ {s}]
          /\ UNCHANGED <<pod, flushing>>
  BY DEF Out!FinishSend
<1>2. s \in Out!Send /\ s.message \in Topic /\ (s.acked => s.message \in pod)
  BY DEF OutboxInv, Out!OutboxTypeOK, Out!Send, AcksAreTrue
<1>3. outbox'[Self] = Out!OutboxAfterSend(outbox[Self], s)
  BY <1>1 DEF OutboxInv, Out!OutboxTypeOK
<1>4. /\ outbox'[Self] \subseteq Topic
      /\ \A y \in outbox[Self] : y \in pod \/ y \in outbox'[Self]
  BY <1>2, <1>3 DEF OutboxInv, Out!OutboxTypeOK, Out!OutboxAfterSend
<1>5. outbox' \in [{Self} -> SUBSET Topic]
  BY <1>1, <1>3, <1>4 DEF OutboxInv, Out!OutboxTypeOK
<1>6. sends' \in [{Self} -> SUBSET Out!Send] /\ sends'[Self] = sends[Self] \ {s}
  BY <1>1 DEF OutboxInv, Out!OutboxTypeOK
<1>7. IsSent(s.message)' /\ \A y : IsSent(y) => IsSent(y)'
  BY <1>1, <1>2, <1>3, <1>4 DEF IsSent, Out!OutboxAfterSend
<1>8. NothingIsLost
  BY <1>6, <1>7 DEF NothingIsLost, IsOnItsWay
<1> QED
  BY <1>1, <1>5, <1>6, <1>8 DEF OutboxInv, Out!OutboxTypeOK, AcksAreTrue

LEMMA QueueInv ==
    ASSUME OutboxInv, NEW x \in Topic, Out!QueuePoDOutbox(Self, x)
    PROVE  OutboxInv' /\ IsSent(x)' /\ NothingIsLost
<1>1. outbox'[Self] = outbox[Self] \cup {x}
  BY DEF Out!QueuePoDOutbox, OutboxInv, Out!OutboxTypeOK
<1>2. outbox' \in [{Self} -> SUBSET Topic]
  BY DEF Out!QueuePoDOutbox, OutboxInv, Out!OutboxTypeOK
<1> QED
  BY <1>1, <1>2
     DEF Out!QueuePoDOutbox, OutboxInv, Out!OutboxTypeOK, AcksAreTrue, NothingIsLost,
         IsOnItsWay, IsSent

\* The flusher's look at the entries.
LEMMA BeginFlushInv ==
    ASSUME OutboxInv, Out!BeginFlush(Self)
    PROVE  OutboxInv' /\ NothingIsLost
<1>1. flushing' \in [{Self} -> SUBSET Topic]
  BY DEF Out!BeginFlush, OutboxInv, Out!OutboxTypeOK
<1> QED
  BY <1>1 DEF Out!BeginFlush, OutboxInv, Out!OutboxTypeOK, AcksAreTrue, NothingIsLost,
              IsOnItsWay, IsSent

LEMMA LoseSendsInv ==
    ASSUME OutboxInv, Out!LoseSends(Self)
    PROVE  OutboxInv' /\ \A y : IsSent(y) => IsSent(y)'
<1>1. /\ sends' \in [{Self} -> SUBSET Out!Send] /\ sends'[Self] = {}
      /\ flushing' \in [{Self} -> SUBSET Topic]
  BY DEF Out!LoseSends, OutboxInv, Out!OutboxTypeOK
<1> QED
  BY <1>1 DEF Out!LoseSends, OutboxInv, Out!OutboxTypeOK, AcksAreTrue, IsSent

-----------------------------------------------------------------------------
(* The invariant *)

LEMMA InvInit == ProofsInit => DeliveryInv
<1> SUFFICES ASSUME ProofsInit PROVE DeliveryInv
  OBVIOUS
<1>1. WaiterTypeOK
  BY WaiterTypeInit DEF ProofsInit
<1>2. Out!OutboxTypeOK /\ AcksAreTrue
  BY DEF ProofsInit, Out!OutboxInit, Out!OutboxTypeOK, AcksAreTrue
<1>3. RepliesAreSound /\ ProofsAreSigned
  BY DEF ProofsInit, WaiterInit, RepliesAreSound, ProofsAreSigned
<1>4. FinishedProofsAreSent
  BY DEF ProofsInit, FinishedProofsAreSent, HasProof, Height
<1>5. StepsFollow
  BY DEF ProofsInit, WaiterInit, StepsFollow
<1> QED
  BY <1>1, <1>2, <1>3, <1>4, <1>5 DEF DeliveryInv, ProofsTypeOK, ProofsInit

\* Steps of the waiter between the beginning and the end of a round.
LEMMA WaiterStepInv ==
    ASSUME DeliveryInv, WaiterStep, UNCHANGED <<callerVars, podVars>>
    PROVE  DeliveryInv'
<1>1. WaiterTypeOK'
  BY WaiterStepType DEF DeliveryInv, ProofsTypeOK, StepsFollow
<1>2. RepliesAreSound' /\ ProofsAreSigned'
  BY WaiterStepIsSound, ProofsStaySigned DEF DeliveryInv, ProofsTypeOK, callerVars
<1>3. topic' = topic /\ (phase' # "idle" => phase # "idle")
  BY DEF WaiterStep, Resend, Receive, FinishCheck, CompleteRound, FailRound,
         CloseRound, Reconnect, SkipReconnect, Answer, Break, DropConnection,
         roundVars
<1>4. StepsFollow'
  BY <1>3 DEF DeliveryInv, StepsFollow, IsOnItsWay, IsSent, Current, HasProof,
              callerVars, podVars
<1> QED
  BY <1>1, <1>2, <1>4
     DEF DeliveryInv, ProofsTypeOK, AcksAreTrue, FinishedProofsAreSent, Current,
         HasProof, Out!OutboxTypeOK, callerVars, podVars

LEMMA AskInv ==
    ASSUME DeliveryInv, Ask
    PROVE  DeliveryInv'
<1>1. next \in Topic
  BY DEF Ask, MayAsk, DeliveryInv, ProofsTypeOK
<1>2. WaiterTypeOK' /\ RepliesAreSound'
  BY <1>1, RoundType, RoundIsSound DEF Ask, DeliveryInv, ProofsTypeOK
<1>3. ProofsAreSigned'
  BY ProofsStaySigned DEF Ask, StartRound, DeliveryInv, callerVars
<1>4. StepsFollow'
  BY <1>1 DEF Ask, StartRound, DeliveryInv, StepsFollow, IsOnItsWay, IsSent, Current,
              HasProof, callerVars, podVars
<1> QED
  BY <1>2, <1>3, <1>4
     DEF Ask, DeliveryInv, ProofsTypeOK, AcksAreTrue, FinishedProofsAreSent, Current,
         HasProof, Out!OutboxTypeOK, callerVars, podVars

LEMMA EndJobInv ==
    ASSUME DeliveryInv, EndJob
    PROVE  DeliveryInv'
<1>1. topic \in Topic
  BY DEF EndJob, RoundReturns, DeliveryInv, StepsFollow
<1>2. WaiterTypeOK'
  BY DEF EndJob, DeliveryInv, ProofsTypeOK, WaiterTypeOK, connVars
<1>3. RepliesAreSound'
  BY DEF EndJob, RoundReturns, DeliveryInv, RepliesAreSound, Sound
<1>4. results' \subseteq Proof /\ ProofsAreSigned'
  BY <1>1, CollectedIsSigned DEF EndJob, DeliveryInv, ProofsTypeOK, ProofsAreSigned
<1>5. /\ next' \in 1 .. LastHeight + 1
      /\ step' \in {"collect", "store", "send", "advance", "over"}
  <2>1. next \in Topic
    BY <1>1 DEF EndJob, RoundReturns, DeliveryInv, StepsFollow
  <2> QED
    BY <2>1 DEF EndJob, DeliveryInv, ProofsTypeOK
<1>6. StepsFollow'
  BY <1>1 DEF EndJob, SendingThread, DeliveryInv, ProofsTypeOK, StepsFollow, IsSent,
              Current, HasProof, podVars
<1> QED
  BY <1>2, <1>3, <1>4, <1>5, <1>6
     DEF EndJob, DeliveryInv, ProofsTypeOK, AcksAreTrue, FinishedProofsAreSent,
         Current, HasProof, Out!OutboxTypeOK, podVars

LEMMA EndAttemptInv ==
    ASSUME DeliveryInv, EndAttempt
    PROVE  DeliveryInv'
<1>1. topic \in Topic
  BY DEF EndAttempt, RoundReturns, DeliveryInv, StepsFollow
<1>2. WaiterTypeOK'
  <2>1. trouble' \in 0 .. MaxTrouble
    BY DEF EndAttempt, DeliveryInv, ProofsTypeOK, WaiterTypeOK
  <2> QED
    BY <2>1, NewWaiterType DEF EndAttempt, DeliveryInv, ProofsTypeOK
<1>3. RepliesAreSound'
  BY DEF EndAttempt, NewWaiter, RepliesAreSound
<1>4. results' \subseteq Proof /\ ProofsAreSigned'
  BY <1>1, CollectedIsSigned
     DEF EndAttempt, NewWaiter, DeliveryInv, ProofsTypeOK, ProofsAreSigned
<1>5. step' \in {"collect", "store", "send", "advance", "over"}
  BY DEF EndAttempt
<1>6. StepsFollow'
  <2>1. committed = 0 /\ 1 \in Topic
    BY <1>1 DEF EndAttempt, DeliveryInv, StepsFollow
  <2> QED
    BY <2>1 DEF EndAttempt, NewWaiter, StepsFollow, Current
<1> QED
  BY <1>2, <1>3, <1>4, <1>5, <1>6
     DEF EndAttempt, DeliveryInv, ProofsTypeOK, AcksAreTrue, FinishedProofsAreSent,
         Current, HasProof, Out!OutboxTypeOK, podVars

\* Steps of the caller that store nothing and send nothing.
LEMMA QuietStepInv ==
    ASSUME DeliveryInv,
           UNCHANGED <<waiterVars, caller, stored, committed, podVars>>,
           results' \subseteq results \cup stored,
           ProofsTypeOK', StepsFollow'
    PROVE  DeliveryInv'
<1>1. RepliesAreSound'
  BY DEF DeliveryInv, RepliesAreSound, Sound, waiterVars, roundVars
<1>2. ProofsAreSigned'
  BY DEF DeliveryInv, ProofsAreSigned, waiterVars
<1> QED
  BY <1>1, <1>2
     DEF DeliveryInv, AcksAreTrue, FinishedProofsAreSent, Current, HasProof, podVars

\* The types of everything but the caller's place.
LEMMA SameTypes ==
    ASSUME ProofsTypeOK, UNCHANGED <<waiterVars, caller, podVars>>,
           step' \in {"collect", "store", "send", "advance", "over"},
           next' \in 1 .. LastHeight + 1, results' \subseteq Proof,
           stored' \subseteq Proof, committed' \in 0 .. LastHeight
    PROVE  ProofsTypeOK'
BY DEF ProofsTypeOK, WaiterTypeOK, Out!OutboxTypeOK, waiterVars, roundVars, connVars,
       podVars

LEMMA UseStoredProofInv ==
    ASSUME DeliveryInv, UseStoredProof
    PROVE  DeliveryInv'
<1>1. results' \subseteq results \cup stored
  BY DEF UseStoredProof
<1>2. next' \in 1 .. LastHeight + 1
  BY DEF UseStoredProof, MayAsk, DeliveryInv, ProofsTypeOK
<1>3. ProofsTypeOK'
  BY <1>1, <1>2, SameTypes DEF UseStoredProof, DeliveryInv, ProofsTypeOK
<1>4. StepsFollow'
  BY DEF UseStoredProof, MayAsk, DeliveryInv, StepsFollow, Current, waiterVars,
         roundVars
<1> QED
  BY <1>1, <1>3, <1>4, QuietStepInv DEF UseStoredProof

LEMMA CommitInv ==
    ASSUME DeliveryInv, Commit
    PROVE  DeliveryInv'
<1>1. Current \in Topic
  BY DEF Commit, HasProof, DeliveryInv, ProofsTypeOK, Proof
<1>2. ProofsTypeOK'
  BY SameTypes DEF Commit, DeliveryInv, ProofsTypeOK
<1>3. StepsFollow'
  BY <1>1 DEF Commit, WindowIsDone, DeliveryInv, StepsFollow, Current, HasProof,
              waiterVars, roundVars
<1> QED
  BY <1>2, <1>3, QuietStepInv DEF Commit

LEMMA NextWindowInv ==
    ASSUME DeliveryInv, NextWindow
    PROVE  DeliveryInv'
<1>1. Current \in 1 .. LastHeight + 1
  BY DEF Current, DeliveryInv, ProofsTypeOK
<1>2. ProofsTypeOK'
  BY <1>1, SameTypes DEF NextWindow, DeliveryInv, ProofsTypeOK
<1>3. StepsFollow'
  BY DEF NextWindow, WindowIsDone, DeliveryInv, StepsFollow, Current, waiterVars,
         roundVars
<1> QED
  BY <1>2, <1>3, QuietStepInv DEF NextWindow

LEMMA StoreProofInv ==
    ASSUME DeliveryInv, StoreProof
    PROVE  DeliveryInv'
<1>1. stored' \subseteq results \cup stored /\ results' = results
  BY DEF StoreProof
<1>2. ProofsTypeOK'
  BY <1>1, SameTypes DEF StoreProof, DeliveryInv, ProofsTypeOK
<1>3. ProofsAreSigned'
  BY <1>1 DEF StoreProof, DeliveryInv, ProofsAreSigned, waiterVars
<1>4. \A h : (h # Current /\ HasProof(stored, h)) => HasProof(stored', h)
  BY DEF StoreProof, HasProof
<1>5. HasProof(results, Current) => HasProof(stored', Current)
  BY DEF StoreProof, HasProof
<1>6. FinishedProofsAreSent'
  <2>1. \A h \in Height : h <= committed => h # Current
    BY DEF Current, Height, DeliveryInv, ProofsTypeOK
  <2>2. \A h \in Height : h <= committed => HasProof(stored', h) /\ IsSent(h)
    BY <1>4, <2>1 DEF DeliveryInv, FinishedProofsAreSent, IsSent
  <2>3. caller = "finalizer" => IsSent(Current)
    BY DEF StoreProof, Out!IsSending, DeliveryInv, StepsFollow, IsOnItsWay
  <2> QED
    BY <2>2, <2>3
       DEF StoreProof, FinishedProofsAreSent, HasProof, IsSent, Current, podVars
<1>7. StepsFollow'
  BY <1>5 DEF StoreProof, DeliveryInv, StepsFollow, IsSent, Current, HasProof,
              waiterVars, roundVars, podVars
<1>8. RepliesAreSound' /\ AcksAreTrue'
  BY DEF StoreProof, DeliveryInv, RepliesAreSound, Sound, AcksAreTrue, waiterVars,
         roundVars, podVars
<1> QED
  BY <1>2, <1>3, <1>6, <1>7, <1>8 DEF DeliveryInv

\* Steps in which the outbox and the place of the caller change.
LEMMA SendingStepInv ==
    ASSUME DeliveryInv,
           UNCHANGED <<waiterVars, caller, next, results, stored, committed>>,
           step' \in {"collect", "store", "send", "advance", "over"},
           OutboxInv', NothingIsLost, StepsFollow'
    PROVE  DeliveryInv'
<1>1. ProofsTypeOK'
  BY DEF DeliveryInv, ProofsTypeOK, WaiterTypeOK, OutboxInv, waiterVars, roundVars, connVars
<1>2. RepliesAreSound' /\ ProofsAreSigned'
  BY DEF DeliveryInv, RepliesAreSound, Sound, ProofsAreSigned, waiterVars, roundVars
<1>3. FinishedProofsAreSent'
  BY DEF DeliveryInv, FinishedProofsAreSent, HasProof, Current, NothingIsLost, IsSent
<1> QED
  BY <1>1, <1>2, <1>3 DEF DeliveryInv, OutboxInv

\* What else is sent leaves the caller where it is.
LEMMA StepsStay ==
    ASSUME DeliveryInv, UNCHANGED <<waiterVars, callerVars>>, NothingIsLost
    PROVE  StepsFollow'
<1>1. /\ Current' = Current /\ step' = step /\ caller' = caller
      /\ IsSent(Current) => IsSent(Current)'
      /\ IsOnItsWay(Current) => IsOnItsWay(Current)'
  BY DEF NothingIsLost, Current, callerVars, IsSent, IsOnItsWay
<1> QED
  BY <1>1 DEF DeliveryInv, StepsFollow, HasProof, waiterVars, roundVars, callerVars

LEMMA QueueProofInv ==
    ASSUME DeliveryInv, QueueProof
    PROVE  DeliveryInv'
<1>1. Current \in Topic /\ OutboxInv
  BY DEF QueueProof, DeliveryInv, ProofsTypeOK, StepsFollow, OutboxInv
<1>2. OutboxInv' /\ IsSent(Current)' /\ NothingIsLost
  <2>1. Out!QueuePoDOutbox(Self, Current)
    BY DEF QueueProof
  <2>2. ASSUME NEW x \in Topic, x = Current
        PROVE  OutboxInv' /\ IsSent(x)' /\ NothingIsLost
    BY <1>1, <2>1, <2>2, QueueInv
  <2>3. Current' = Current
    BY DEF QueueProof, Current
  <2> QED
    BY <1>1, <2>2, <2>3 DEF IsSent
<1>3. StepsFollow'
  BY <1>2 DEF QueueProof, DeliveryInv, StepsFollow, Current, HasProof, IsSent,
              waiterVars, roundVars
<1> QED
  BY <1>2, <1>3, SendingStepInv DEF QueueProof

LEMMA SendProofInv ==
    ASSUME DeliveryInv, SendProof
    PROVE  DeliveryInv'
<1>1. Current \in Topic /\ OutboxInv
  BY DEF SendProof, DeliveryInv, ProofsTypeOK, StepsFollow, OutboxInv
<1>2. /\ OutboxInv' /\ NothingIsLost
      /\ caller = "finalizer" => IsOnItsWay(Current)'
  <2>1. /\ caller \in SendingThread /\ Out!SendToPoD(Self, caller, Current)
        /\ flushing' \in [{Self} -> SUBSET Topic]
    BY <1>1 DEF SendProof, OutboxInv, Out!OutboxTypeOK
  <2>2. ASSUME NEW x \in Topic, x = Current
        PROVE  /\ OutboxInv' /\ NothingIsLost
               /\ caller = "finalizer" => IsOnItsWay(x)'
    BY <1>1, <2>1, <2>2, SendToPoDInv
  <2>3. Current' = Current
    BY DEF SendProof, Current
  <2> QED
    BY <1>1, <2>2, <2>3 DEF IsOnItsWay, IsSent
<1>3. StepsFollow'
  BY <1>2 DEF SendProof, SendingThread, DeliveryInv, StepsFollow, Current, waiterVars,
              roundVars
<1>4. step' \in {"collect", "store", "send", "advance", "over"}
  BY DEF SendProof
<1> QED
  BY <1>2, <1>3, <1>4, SendingStepInv DEF SendProof

LEMMA OtherSendsInv ==
    ASSUME DeliveryInv,
           \/ Flush \/ BeginFlush
           \/ \E thread \in SendingThread \cup {Out!Flusher} : FinishSend(thread)
    PROVE  DeliveryInv'
<1>1. OutboxInv
  BY DEF DeliveryInv, ProofsTypeOK, OutboxInv
<1>2. OutboxInv' /\ NothingIsLost
  <2>1. CASE Flush
    <3>1. PICK x \in flushing[Self] :
              /\ Out!SendToPoD(Self, Out!Flusher, x)
              /\ flushing' = [flushing EXCEPT ![Self] = @ \ {x}]
      BY <2>1 DEF Flush, Out!FlushPoDOutbox
    <3>2. x \in Topic /\ flushing' \in [{Self} -> SUBSET Topic]
      BY <1>1, <3>1 DEF OutboxInv, Out!OutboxTypeOK
    <3> QED
      BY <1>1, <3>1, <3>2, SendToPoDInv
  <2>2. CASE BeginFlush
    BY <1>1, <2>2, BeginFlushInv DEF BeginFlush
  <2>3. CASE \E thread \in SendingThread \cup {Out!Flusher} : FinishSend(thread)
    BY <1>1, <2>3, FinishSendInv DEF FinishSend
  <2> QED
    BY <2>1, <2>2, <2>3
<1>3. UNCHANGED <<waiterVars, callerVars>>
  BY DEF Flush, BeginFlush, FinishSend
<1>4. StepsFollow'
  BY <1>2, <1>3, StepsStay
<1>5. step' \in {"collect", "store", "send", "advance", "over"}
  BY <1>3 DEF DeliveryInv, ProofsTypeOK, callerVars
<1> QED
  BY <1>2, <1>3, <1>4, <1>5, SendingStepInv DEF callerVars

LEMMA AdvanceTrackerInv ==
    ASSUME DeliveryInv, AdvanceTracker
    PROVE  DeliveryInv'
<1>1. /\ caller = "collector" /\ Current \in Topic
      /\ HasProof(stored, Current) /\ IsSent(Current)
  BY DEF AdvanceTracker, DeliveryInv, ProofsTypeOK, SendingThread, StepsFollow
<1>2. ProofsTypeOK'
  BY <1>1, SameTypes DEF AdvanceTracker, DeliveryInv, ProofsTypeOK
<1>3. FinishedProofsAreSent'
  <2>1. \A h \in Height : h <= committed' => h <= committed \/ h = Current
    BY DEF AdvanceTracker, Current, Height, DeliveryInv, ProofsTypeOK
  <2> QED
    BY <1>1, <2>1 DEF AdvanceTracker, DeliveryInv, FinishedProofsAreSent, IsSent,
                      HasProof, podVars
<1>4. StepsFollow'
  BY <1>1 DEF AdvanceTracker, DeliveryInv, StepsFollow, waiterVars, roundVars
<1>5. RepliesAreSound' /\ ProofsAreSigned' /\ AcksAreTrue'
  BY DEF AdvanceTracker, DeliveryInv, RepliesAreSound, Sound, ProofsAreSigned,
         AcksAreTrue, waiterVars, roundVars, podVars
<1> QED
  BY <1>2, <1>3, <1>4, <1>5 DEF DeliveryInv

\* What is stored, committed and queued outlives the process.
LEMMA RestartInv ==
    ASSUME DeliveryInv, RestartCaller
    PROVE  DeliveryInv'
<1>1. WaiterTypeOK'
  BY NewWaiterType, TroubleType DEF RestartCaller, DeliveryInv, ProofsTypeOK
<1>2. OutboxInv' /\ \A y : IsSent(y) => IsSent(y)'
  BY LoseSendsInv DEF RestartCaller, DeliveryInv, ProofsTypeOK, OutboxInv
<1>3. next' \in 1 .. LastHeight + 1
  BY DEF RestartCaller, Current, DeliveryInv, ProofsTypeOK
<1>4. RepliesAreSound' /\ ProofsAreSigned'
  BY DEF RestartCaller, NewWaiter, DeliveryInv, RepliesAreSound, ProofsAreSigned
<1>5. StepsFollow'
  BY DEF RestartCaller, NewWaiter, DeliveryInv, ProofsTypeOK, StepsFollow
<1>6. FinishedProofsAreSent'
  BY <1>2 DEF RestartCaller, DeliveryInv, FinishedProofsAreSent, HasProof, Current,
              IsSent
<1>7. ProofsTypeOK'
  BY <1>1, <1>2, <1>3 DEF RestartCaller, DeliveryInv, ProofsTypeOK, OutboxInv
<1> QED
  BY <1>2, <1>4, <1>5, <1>6, <1>7 DEF DeliveryInv, OutboxInv

LEMMA InvNext == DeliveryInv /\ [ProofsNext]_proofsVars => DeliveryInv'
<1> SUFFICES ASSUME DeliveryInv, [ProofsNext]_proofsVars PROVE DeliveryInv'
  OBVIOUS
<1>1. CASE WaiterStep /\ UNCHANGED <<callerVars, podVars>>
  BY <1>1, WaiterStepInv
<1>2. CASE Ask \/ UseStoredProof \/ EndJob \/ EndAttempt
  BY <1>2, AskInv, UseStoredProofInv, EndJobInv, EndAttemptInv
<1>3. CASE Commit \/ NextWindow \/ StoreProof
  BY <1>3, CommitInv, NextWindowInv, StoreProofInv
<1>4. CASE QueueProof \/ AdvanceTracker \/ SendProof
  BY <1>4, QueueProofInv, AdvanceTrackerInv, SendProofInv
<1>5. CASE \/ Flush \/ BeginFlush
           \/ \E thread \in SendingThread \cup {Out!Flusher} : FinishSend(thread)
  BY <1>5, OtherSendsInv
<1>6. CASE RestartCaller
  BY <1>6, RestartInv
<1>7. CASE UNCHANGED proofsVars
  <2>1. UNCHANGED <<waiterVars, callerVars, podVars>>
    BY <1>7 DEF proofsVars
  <2>2. OutboxInv' /\ NothingIsLost
    BY <2>1 DEF DeliveryInv, ProofsTypeOK, OutboxInv, Out!OutboxTypeOK, AcksAreTrue,
                NothingIsLost, IsOnItsWay, IsSent, podVars
  <2>3. step' \in {"collect", "store", "send", "advance", "over"}
    BY <2>1 DEF DeliveryInv, ProofsTypeOK, callerVars
  <2> QED
    BY <2>1, <2>2, <2>3, StepsStay, SendingStepInv DEF callerVars
<1> QED
  BY <1>1, <1>2, <1>3, <1>4, <1>5, <1>6, <1>7 DEF ProofsNext, Progress

\* The invariant that the theorems below rest on holds in every state.
THEOREM DeliveryInvariant == ProofsSpec => []DeliveryInv
BY InvInit, InvNext, PTL DEF ProofsSpec

-----------------------------------------------------------------------------
(* The theorems *)

\* Every variable of the waiter, the caller and the outbox keeps its type:
\* ProofsTypeOK of ProofDelivery.
THEOREM ProofsTypeCorrect == ProofsSpec => []ProofsTypeOK
<1>1. DeliveryInv => ProofsTypeOK
  BY DEF DeliveryInv
<1> QED
  BY <1>1, DeliveryInvariant, PTL

\* Aggregated proofs have the signatures of a majority for their topic, however
\* the rounds that share a waiter overlap.
THEOREM ProofsSigned == ProofsSpec => []ProofsAreSigned
<1>1. DeliveryInv => ProofsAreSigned
  BY DEF DeliveryInv
<1> QED
  BY <1>1, DeliveryInvariant, PTL

\* The collector's tracker passes no height whose proof is not stored, or could
\* be lost on its way, and the finalizer finds no proof that could.
THEOREM CommittedSent == ProofsSpec => []FinishedProofsAreSent
<1>1. DeliveryInv => FinishedProofsAreSent
  BY DEF DeliveryInv
<1> QED
  BY <1>1, DeliveryInvariant, PTL

-----------------------------------------------------------------------------
(* The refinement *)

\* What the node has to bring to the PoD: the abstract state of PodDelivery.
Messages(S) == {s.message : s \in S}
Burden == outbox[Self] \cup Messages(sends[Self])
Charge == [n \in {Self} |-> outbox[n] \cup {s.message : s \in sends[n]}]

LEMMA ChargeIsBurden ==
    /\ Charge = [n \in {Self} |-> Burden]
    /\ Charge' = [n \in {Self} |-> Burden']
BY DEF Charge, Burden, Messages

LEMMA SendTakes ==
    ASSUME OutboxInv, NEW x \in Topic, NEW thread, Out!SendToPoD(Self, thread, x)
    PROVE  Pod!Take(Self, x)
<1>1. PICK accepted \in BOOLEAN, acked \in BOOLEAN :
          /\ pod' = IF accepted THEN pod \cup {x} ELSE pod
          /\ sends' = [sends EXCEPT ![Self] = @ \cup
                {[thread |-> thread, message |-> x, acked |-> acked]}]
  BY DEF Out!SendToPoD
<1> DEFINE new == [thread |-> thread, message |-> x, acked |-> acked]
<1>2. Messages(sends[Self])' = Messages(sends[Self]) \cup {x}
  <2>1. sends'[Self] = sends[Self] \cup {new}
    BY <1>1 DEF OutboxInv, Out!OutboxTypeOK
  <2>2. new.message = x
    OBVIOUS
  <2> HIDE DEF new
  <2>3. {s.message : s \in sends[Self] \cup {new}} =
            {s.message : s \in sends[Self]} \cup {x}
    BY <2>2
  <2> QED
    BY <2>1, <2>3 DEF Messages
<1>3. Burden' = Burden \cup {x}
  BY <1>2 DEF Burden, Out!SendToPoD
<1>4. Charge' = [Charge EXCEPT ![Self] = @ \cup {x}]
  BY <1>3, ChargeIsBurden
<1> QED
  BY <1>1, <1>4 DEF Pod!Take, Charge

LEMMA QueueTakes ==
    ASSUME OutboxInv, NEW x \in Topic, Out!QueuePoDOutbox(Self, x)
    PROVE  Pod!Take(Self, x)
<1>1. outbox'[Self] = outbox[Self] \cup {x} /\ UNCHANGED <<pod, sends>>
  BY DEF Out!QueuePoDOutbox, OutboxInv, Out!OutboxTypeOK
<1>2. Burden' = Burden \cup {x}
  BY <1>1 DEF Burden, Messages
<1>3. Charge' = [Charge EXCEPT ![Self] = @ \cup {x}]
  BY <1>2, ChargeIsBurden
<1> QED
  BY <1>1, <1>3 DEF Pod!Take, Charge

\* An answer takes the message away only when no other thread has it in hand,
\* and only when the PoD has it.
LEMMA FinishReleases ==
    ASSUME OutboxInv, NEW thread, Out!FinishSend(Self, thread)
    PROVE  \/ \E x \in Topic : Pod!Release(Self, x)
           \/ UNCHANGED Pod!deliveryVars
<1>1. PICK s \in sends[Self] :
          /\ outbox' = [outbox EXCEPT ![Self] = Out!OutboxAfterSend(@, s)]
          /\ sends' = [sends EXCEPT ![Self] = @ \ {s}]
          /\ UNCHANGED <<pod, flushing>>
  BY DEF Out!FinishSend
<1>2. s.message \in Topic /\ (s.acked => s.message \in pod)
  BY DEF OutboxInv, Out!OutboxTypeOK, Out!Send, AcksAreTrue
<1>3. /\ outbox'[Self] = Out!OutboxAfterSend(outbox[Self], s)
      /\ sends'[Self] = sends[Self] \ {s}
  BY <1>1 DEF OutboxInv, Out!OutboxTypeOK
<1>4. /\ Messages(sends[Self])' \subseteq Messages(sends[Self])
      /\ Messages(sends[Self]) = Messages(sends[Self])' \cup {s.message}
  BY <1>3 DEF Messages
<1>5. CASE s.message \in Burden'
  <2>1. Burden' = Burden
    BY <1>3, <1>4, <1>5 DEF Burden, Out!OutboxAfterSend
  <2> QED
    BY <1>1, <2>1, ChargeIsBurden DEF Pod!deliveryVars, Charge
<1>6. CASE s.message \notin Burden'
  <2>1. s.acked
    BY <1>3, <1>6 DEF Burden, Out!OutboxAfterSend
  <2>2. Burden' = Burden \ {s.message}
    BY <1>3, <1>4, <1>6, <2>1 DEF Burden, Out!OutboxAfterSend
  <2>3. Charge' = [Charge EXCEPT ![Self] = @ \ {s.message}]
    BY <2>2, ChargeIsBurden
  <2> QED
    BY <1>1, <1>2, <2>1, <2>3 DEF Pod!Release, Charge
<1> QED
  BY <1>5, <1>6

LEMMA LosingForgets ==
    ASSUME OutboxInv, Out!LoseSends(Self)
    PROVE  Pod!Forget(Self)
<1>1. /\ sends'[Self] = {}
      /\ UNCHANGED <<pod, outbox>>
  BY DEF Out!LoseSends, OutboxInv, Out!OutboxTypeOK
<1>2. Burden' = outbox[Self]
  BY <1>1 DEF Burden, Messages
<1>3. Burden' \in SUBSET Charge[Self]
  BY <1>2, ChargeIsBurden DEF Burden
<1>4. Charge' = [Charge EXCEPT ![Self] = Burden']
  BY ChargeIsBurden
<1> QED
  BY <1>1, <1>3, <1>4 DEF Pod!Forget, Charge

\* Every step either leaves the node's charge and the PoD alone or is one that
\* PodDelivery allows.
LEMMA StepDelivers ==
    ASSUME DeliveryInv, [ProofsNext]_proofsVars
    PROVE  [Pod!DeliveryNext(RestartCaller)]_(Pod!deliveryVars)
<1>1. OutboxInv
  BY DEF DeliveryInv, ProofsTypeOK, OutboxInv
<1>2. CASE UNCHANGED podVars
  BY <1>2 DEF Pod!deliveryVars, podVars
<1>3. CASE SendProof
  <2>1. Out!SendToPoD(Self, caller, Current) /\ Current \in Topic
    BY <1>3 DEF SendProof, DeliveryInv, StepsFollow
  <2>2. ASSUME NEW x \in Topic, x = Current PROVE Pod!Take(Self, x)
    BY <1>1, <2>1, <2>2, SendTakes
  <2> QED
    BY <2>1, <2>2 DEF Pod!DeliveryNext
<1>4. CASE QueueProof
  <2>1. Out!QueuePoDOutbox(Self, Current) /\ Current \in Topic
    BY <1>4 DEF QueueProof, DeliveryInv, StepsFollow
  <2>2. ASSUME NEW x \in Topic, x = Current PROVE Pod!Take(Self, x)
    BY <1>1, <2>1, <2>2, QueueTakes
  <2> QED
    BY <2>1, <2>2 DEF Pod!DeliveryNext
<1>5. CASE Flush
  <2>1. PICK x \in Topic : Out!SendToPoD(Self, Out!Flusher, x)
    BY <1>1, <1>5 DEF Flush, Out!FlushPoDOutbox, OutboxInv, Out!OutboxTypeOK
  <2> QED
    BY <1>1, <2>1, SendTakes DEF Pod!DeliveryNext
<1>6. CASE \E thread \in SendingThread \cup {Out!Flusher} : FinishSend(thread)
  BY <1>1, <1>6, FinishReleases DEF FinishSend, Pod!DeliveryNext
<1>7. CASE RestartCaller
  <2>1. Pod!Forget(Self)
    BY <1>1, <1>7, LosingForgets DEF RestartCaller
  <2> QED
    BY <1>7, <2>1 DEF Pod!DeliveryNext
<1>8. CASE \/ WaiterStep /\ UNCHANGED <<callerVars, podVars>>
           \/ Ask \/ UseStoredProof \/ EndJob \/ EndAttempt
           \/ Commit \/ NextWindow \/ StoreProof \/ AdvanceTracker
           \/ UNCHANGED proofsVars
  <2>1. UNCHANGED podVars
    BY <1>8 DEF Ask, UseStoredProof, EndJob, EndAttempt, Commit, NextWindow,
                StoreProof, AdvanceTracker, proofsVars
  <2> QED
    BY <1>2, <2>1
<1>9. CASE BeginFlush
  BY <1>9 DEF BeginFlush, Out!BeginFlush, Pod!deliveryVars
<1> QED
  BY <1>3, <1>4, <1>5, <1>6, <1>7, <1>8, <1>9 DEF ProofsNext, Progress

\* The outbox implements PodDelivery: in whatever order the finalizer and the
\* flusher learn what became of the same message, it leaves the node's charge only when the PoD has
\* it, or in a crash.
THEOREM Implementation == ProofsSpec => OutboxDelivers
<1>1. ProofsInit => Pod!DeliveryInit
  BY DEF ProofsInit, Out!OutboxInit, Pod!DeliveryInit
<1>2. DeliveryInv /\ [ProofsNext]_proofsVars => [Pod!DeliveryNext(RestartCaller)]_(Pod!deliveryVars)
  BY StepDelivers
<1> QED
  BY <1>1, <1>2, DeliveryInvariant, PTL DEF ProofsSpec, OutboxDelivers
=============================================================================
