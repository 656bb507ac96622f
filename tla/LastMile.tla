------------------------------ MODULE LastMile ------------------------------
(***************************************************************************)
(* How nodes give every finalized block its absolute height.               *)
(*                                                                         *)
(* On every node LastMileFinalizerThread, the sequencer, walks over the    *)
(* blocks of the leaders and writes the height map.  Members of the quorum *)
(* sign what is in their maps (GetHeightProof) and where an epoch has      *)
(* ended (GetEpochRotationProof).  LastMileAHPCollectorThread follows the  *)
(* sequencer and collects aggregated height proofs (AHP); a node whose     *)
(* sequencer waits for a block is moved on by AHPs of others, height by    *)
(* height, or by aggregated epoch rotation proofs (AERP), epoch by epoch.  *)
(*                                                                         *)
(* Both threads keep a tracker in memory and write it to the database; the *)
(* collector also writes the sequencer's, from a copy it has read before   *)
(* it went to the network.                                                 *)
(***************************************************************************)
EXTENDS CoreQuorum

CONSTANTS
    Follower,     \* nodes that run the threads outside of the quorum
    NumLeaders,   \* length of LeadersSequence, in every epoch
    MaxIndex,     \* bound: blocks of a leader have the indexes 0 .. MaxIndex
    MaxEpoch,     \* bound: the last epoch
    Networks      \* the finalized chains that are considered

Node   == Honest \cup Follower
Epoch  == 0 .. MaxEpoch
Leader == 0 .. NumLeaders - 1
Turn   == Epoch \X Leader
Place  == [epoch : Epoch, leader : Leader, index : 0 .. MaxIndex]

\* What the quorum has finalized: the last block of every leader, as sealed by
\* the ALFP the anchors have, and the highest block with an AFP, which is at
\* most one after it.  "start" is the height of a leader's first block, or of
\* what follows if it has none, and "end" the height after an epoch.
NetworkOk(w) ==
    /\ w.last  \in [Turn -> -1 .. MaxIndex]
    /\ w.top   \in [Turn -> -1 .. MaxIndex]
    /\ w.start \in [Turn -> Nat]
    /\ w.end   \in [Epoch -> Nat]
    /\ \A t \in Turn : w.last[t] <= w.top[t] /\ w.top[t] <= w.last[t] + 1
    /\ \A e \in Epoch, l \in Leader :
          LET after == w.start[<<e, l>>] + w.last[<<e, l>>] + 1
          IN  IF l + 1 \in Leader THEN w.start[<<e, l + 1>>] = after
                                  ELSE w.end[e] = after
    /\ w.start[<<0, 0>>] = 0
    /\ \A e \in Epoch : e + 1 \in Epoch => w.start[<<e + 1, 0>>] = w.end[e]
    \* What follows for leaders and epochs that are further apart.
    /\ \A e \in Epoch, l \in Leader :
          w.start[<<e, l>>] + w.last[<<e, l>>] + 1 <= w.end[e]
    /\ \A d, e \in Epoch : d <= e => w.end[d] <= w.end[e]

ASSUME LastMileAssumption ==
    /\ NumLeaders \in Nat \ {0}
    /\ MaxIndex \in Nat
    /\ MaxEpoch \in Nat
    /\ Follower \cap (Honest \cup Faulty) = {}
    /\ \A w \in Networks : NetworkOk(w)

VARIABLES
    network,    \* one of the Networks, fixed
    seq,        \* the sequencer's tracker
    seqDb,      \* LAST_MILE_FINALIZER_TRACKER in the database
    col,        \* the collector's tracker
    colDb,      \* LAST_MILE_AHP_COLLECTOR_TRACKER in the database
    copied,     \* what the collector works on: the sequencer's tracker as it
                \* has read it and the entries of the height map below it, or
                \* the entry it has caught up with
    heightMap,  \* LAST_MILE_HEIGHT_MAP with HEIGHT_IN_EPOCH_MAP
    boundaries, \* LAST_MILE_EPOCH_BOUNDARY: an epoch and its last height
    hps,        \* height proofs signed by honest members of the quorum
    erps,       \* epoch rotation proofs signed by them
    restarted   \* the node has been restarted

vars == <<network, seq, seqDb, col, colDb, copied, heightMap, boundaries, hps,
          erps, restarted>>

\* LastMileSequenceState.  A leader index after the last leader, and a block
\* index after the last block, say that the epoch or the leader is done.
LastMileSequenceState ==
    [epoch : Epoch, leader : 0 .. NumLeaders, index : 0 .. MaxIndex + 1,
     height : Nat, hie : Nat]

Tracker(e, l, i, h, k) ==
    [epoch |-> e, leader |-> l, index |-> i, height |-> h, hie |-> k]

FirstState == Tracker(0, 0, 0, 0, 0)

Entry    == [height : Nat, place : Place, hie : Nat]
Boundary == [epoch : Epoch, height : Nat \cup {-1}]
Copy     == [tracker : LastMileSequenceState, jobs : SUBSET Entry,
             step : {"copied", "committed", "written"}]

TypeOK ==
    /\ network \in Networks
    /\ seq \in [Node -> LastMileSequenceState]
    /\ seqDb \in [Node -> LastMileSequenceState]
    /\ col \in [Node -> LastMileSequenceState]
    /\ colDb \in [Node -> LastMileSequenceState]
    /\ copied \in [Node -> SUBSET Copy]
    /\ heightMap \in [Node -> SUBSET Entry]
    /\ boundaries \in [Node -> SUBSET Boundary]
    /\ hps \subseteq [voter : Honest, entry : Entry]
    /\ erps \subseteq [voter : Honest, boundary : Boundary]
    /\ restarted \in [Node -> BOOLEAN]

Init ==
    /\ network \in Networks
    /\ seq = [n \in Node |-> FirstState]
    /\ seqDb = seq
    /\ col = seq
    /\ colDb = seq
    /\ copied = [n \in Node |-> {}]
    /\ heightMap = [n \in Node |-> {}]
    /\ boundaries = [n \in Node |-> {}]
    /\ hps = {}
    /\ erps = {}
    /\ restarted = [n \in Node |-> FALSE]

-----------------------------------------------------------------------------
(* Certificates *)

VerifyAggregatedHeightProof(x) ==
    IsMajority({v \in Honest : [voter |-> v, entry |-> x] \in hps})

VerifyAggregatedEpochRotationProof(b) ==
    IsMajority({v \in Honest : [voter |-> v, boundary |-> b] \in erps})

-----------------------------------------------------------------------------
(* LastMileFinalizerThread.  Each step writes one batch, the tracker in     *)
(* memory follows when it is written.                                       *)

LeaderTurn(t) == <<t.epoch, t.leader>>

SetTracker(n, t) ==
    /\ seq' = [seq EXCEPT ![n] = t]
    /\ seqDb' = [seqDb EXCEPT ![n] = t]

\* Mutation: the index is left as it is.
NextLeaderOnly(t) ==
    Tracker(t.epoch, t.leader + 1, t.index, t.height, t.hie)

NextLeader(t) == Tracker(t.epoch, t.leader + 1, 0, t.height, t.hie)

NextIndex(t) == Tracker(t.epoch, t.leader, t.index + 1, t.height, t.hie)

NextHeight(t) == Tracker(t.epoch, t.leader, t.index, t.height + 1, t.hie + 1)

\* The data of an epoch (getEpochHandlerForTracker) may be there or not when it
\* is asked for: a thread that misses it waits, which is a stutter.

\* The leader is known to have ended before this index.
SkipLeader(n) ==
    /\ seq[n].leader < NumLeaders
    /\ seq[n].index > network.last[LeaderTurn(seq[n])]
    /\ SetTracker(n, NextLeader(seq[n]))
    /\ UNCHANGED <<network, col, colDb, copied, heightMap, boundaries, hps,
                   erps, restarted>>

PlaceOf(t) == [epoch |-> t.epoch, leader |-> t.leader, index |-> t.index]

\* A height is written over whatever was there.
WithEntry(S, x) == {y \in S : y.height # x.height} \cup {x}

WithBoundary(S, b) == {c \in S : c.epoch # b.epoch} \cup {b}

\* The block is final by the AFP of the next one, or is the last of the leader
\* by its ALFP.  In the second case the leader's turn may already be known to
\* be over; otherwise the next iteration finds out that it has ended.
PlaceBlock(n, isLastBlock) ==
    LET t    == seq[n]
        turn == LeaderTurn(t)
        x    == [height |-> t.height, place |-> PlaceOf(t), hie |-> t.hie]
        u    == IF isLastBlock THEN NextLeader(t) ELSE NextIndex(t)
    IN  /\ t.leader < NumLeaders
        /\ t.index = network.last[turn] \/ t.index < network.top[turn]
        /\ isLastBlock => t.index = network.last[turn]
        /\ SetTracker(n, NextHeight(u))
        /\ heightMap' = [heightMap EXCEPT ![n] = WithEntry(@, x)]
        /\ boundaries' =
              IF u.leader < NumLeaders THEN boundaries
              ELSE [boundaries EXCEPT ![n] = WithBoundary(@,
                       [epoch |-> t.epoch, height |-> t.height])]
        /\ UNCHANGED <<network, col, colDb, copied, hps, erps, restarted>>

\* LoadHeightBlockIdMapping finds a block.
IsMapped(n, h) == \E x \in heightMap[n] : x.height = h

\* Mutation: the boundary is the first height after the epoch.
BoundaryAtNextHeight(t) == [epoch |-> t.epoch, height |-> t.height]

\* The last block is the one before the next height, whichever epoch it is in.
CompletedEpochBoundary(t) == [epoch |-> t.epoch, height |-> t.height - 1]

AdvanceToNextEpoch(t) == Tracker(t.epoch + 1, 0, 0, t.height, 0)

\* All leaders of the epoch are done: the boundary is written, and the next
\* epoch is started once its handler is there.
CompleteEpoch(n) ==
    LET t == seq[n]
    IN  /\ t.leader = NumLeaders
        /\ t.height > 0 => IsMapped(n, t.height - 1)
        /\ boundaries' = [boundaries EXCEPT ![n] = WithBoundary(@,
              CompletedEpochBoundary(t))]
        /\ \/ SetTracker(n, t)
           \/ /\ t.epoch < MaxEpoch
              /\ SetTracker(n, AdvanceToNextEpoch(t))
        /\ UNCHANGED <<network, col, colDb, copied, heightMap, hps, erps,
                       restarted>>

\* The start of an epoch, after the boundary b.
EpochStart(e, b) == Tracker(e, 0, 0, b + 1, 0)

\* Every epoch of the chain is written as it is reached, and memory follows only
\* when the chain leads up to the epoch of the approvement thread.
FastForwardAlong(n, last, end, isCurrent) ==
    LET t == seq[n]
        u == EpochStart(last + 1, end[last])
    IN  /\ \A e \in t.epoch .. last :
              VerifyAggregatedEpochRotationProof(
                  [epoch |-> e, height |-> end[e]])
        /\ end[t.epoch] + 1 >= t.height
        /\ \A e \in t.epoch + 1 .. last : end[e] >= end[e - 1]
        /\ seqDb' = [seqDb EXCEPT ![n] = u]
        /\ seq' = IF isCurrent THEN [seq EXCEPT ![n] = u] ELSE seq
        /\ boundaries' = [boundaries EXCEPT ![n] =
              {b \in @ : b.epoch \notin t.epoch .. last} \cup
              {[epoch |-> e, height |-> end[e]] : e \in t.epoch .. last}]
        /\ UNCHANGED <<network, col, colDb, copied, heightMap, hps, erps,
                       restarted>>

\* syncLastMileTrackerToCurrentEpochStart: AERPs carry the tracker from epoch
\* to epoch, until a proof is missing or would take the height back.
FastForward(n) ==
    \E last \in seq[n].epoch .. MaxEpoch - 1 :
    \E end \in [seq[n].epoch .. last -> {r.boundary.height : r \in erps}] :
    \E isCurrent \in BOOLEAN : FastForwardAlong(n, last, end, isCurrent)

-----------------------------------------------------------------------------
(* LastMileAHPCollectorThread *)

\* One round of the collector begins with a copy of the sequencer's tracker and
\* of the heights that are to be proved.
CopySequencer(n) ==
    /\ copied[n] = {}
    /\ copied' = [copied EXCEPT ![n] =
          {[tracker |-> seqDb[n],
            jobs    |-> {x \in heightMap[n] : /\ col[n].height <= x.height
                                              /\ x.height < seqDb[n].height},
            step    |-> "copied"]}]
    /\ UNCHANGED <<network, seq, seqDb, col, colDb, heightMap, boundaries, hps,
                   erps, restarted>>

\* Where the next height has a block already the tracker goes to it, otherwise
\* to the place after the given one.
AdvanceAHPCollectorTracker(n, t, place) ==
    IF IsMapped(n, t.height + 1)
    THEN LET x == CHOOSE y \in heightMap[n] : y.height = t.height + 1
         IN  Tracker(x.place.epoch, x.place.leader, x.place.index, x.height,
                     x.hie)
    ELSE Tracker(place.epoch, place.leader, place.index + 1, t.height + 1,
                 t.hie + 1)

SetCollector(n, t) ==
    /\ col' = [col EXCEPT ![n] = t]
    /\ colDb' = [colDb EXCEPT ![n] = t]

\* The sequencer is ahead, and there is an AHP for the collector's next height.
CommitHeight(n) ==
    \E c \in copied[n] : \E x \in c.jobs :
        /\ c.step \in {"copied", "committed"}
        /\ x.height = col[n].height
        /\ VerifyAggregatedHeightProof(x)
        /\ SetCollector(n, AdvanceAHPCollectorTracker(n, col[n], x.place))
        /\ copied' = [copied EXCEPT ![n] = {[c EXCEPT !.step = "committed"]}]
        /\ UNCHANGED <<network, seq, seqDb, heightMap, boundaries, hps, erps,
                       restarted>>

\* Mutation: the start of the tracker's own epoch will do.
IsNotAhead(t, u) == t.epoch <= u.epoch

IsEpochsBehind(t, u) == t.epoch < u.epoch

\* syncAHPCollectorToSequencerBoundary: no height could be committed, and the
\* sequencer is in a later epoch whose start is known.
SyncToBoundary(n) ==
    \E c \in copied[n] : \E b \in boundaries[n] :
        /\ c.step = "copied"
        /\ c.tracker.height > col[n].height
        /\ IsEpochsBehind(col[n], c.tracker)
        /\ b.epoch = c.tracker.epoch - 1
        /\ SetCollector(n, EpochStart(c.tracker.epoch, b.height))
        /\ copied' = [copied EXCEPT ![n] = {}]
        /\ UNCHANGED <<network, seq, seqDb, heightMap, boundaries, hps, erps,
                       restarted>>

\* catchUpLastMileWithinEpoch: the sequencer is not ahead, and others have
\* proved the collector's next height.  First the sequencer's tracker is
\* written with the height, from the copy ...
CatchUpSequencer(n) ==
    \E c \in copied[n], r \in hps :
        LET x == r.entry
        IN  /\ c.step = "copied"
            /\ c.tracker.height <= col[n].height
            /\ x.height = col[n].height
            /\ x.place.epoch = col[n].epoch
            /\ x.hie = col[n].hie
            /\ VerifyAggregatedHeightProof(x)
            /\ seqDb' = [seqDb EXCEPT ![n] =
                  AdvanceAHPCollectorTracker(n, c.tracker, x.place)]
            /\ heightMap' = [heightMap EXCEPT ![n] = WithEntry(@, x)]
            /\ copied' = [copied EXCEPT ![n] =
                  {[c EXCEPT !.jobs = {x}, !.step = "written"]}]
            /\ UNCHANGED <<network, seq, col, colDb, boundaries, hps, erps,
                           restarted>>

\* ... then the collector's own.
CatchUpCollector(n) ==
    \E c \in copied[n] : \E x \in c.jobs :
        /\ c.step = "written"
        /\ SetCollector(n, AdvanceAHPCollectorTracker(n, col[n], x.place))
        /\ heightMap' = [heightMap EXCEPT ![n] = WithEntry(@, x)]
        /\ copied' = [copied EXCEPT ![n] = {}]
        /\ UNCHANGED <<network, seq, seqDb, boundaries, hps, erps, restarted>>

\* The round is over: there are no more proofs, or none at all.
EndRound(n) ==
    /\ \E c \in copied[n] : c.step # "written"
    /\ copied' = [copied EXCEPT ![n] = {}]
    /\ UNCHANGED <<network, seq, seqDb, col, colDb, heightMap, boundaries, hps,
                   erps, restarted>>

-----------------------------------------------------------------------------
(* The members of the quorum sign what they have when they are asked for it. *)

GetHeightProof(v) ==
    /\ \E x \in heightMap[v] : hps' = hps \cup {[voter |-> v, entry |-> x]}
    /\ UNCHANGED <<network, seq, seqDb, col, colDb, copied, heightMap,
                   boundaries, erps, restarted>>

GetEpochRotationProof(v) ==
    /\ \E b \in boundaries[v] :
          erps' = erps \cup {[voter |-> v, boundary |-> b]}
    /\ UNCHANGED <<network, seq, seqDb, col, colDb, copied, heightMap,
                   boundaries, hps, restarted>>

\* Both threads start from what they find in the database.
Restart(n) ==
    /\ seq' = [seq EXCEPT ![n] = seqDb[n]]
    /\ col' = [col EXCEPT ![n] = colDb[n]]
    /\ copied' = [copied EXCEPT ![n] = {}]
    /\ restarted' = [restarted EXCEPT ![n] = TRUE]
    /\ UNCHANGED <<network, seqDb, colDb, heightMap, boundaries, hps, erps>>

NodeStep(n) ==
    \/ SkipLeader(n)
    \/ \E isLastBlock \in BOOLEAN : PlaceBlock(n, isLastBlock)
    \/ CompleteEpoch(n)
    \/ FastForward(n)
    \/ CopySequencer(n)
    \/ CommitHeight(n)
    \/ SyncToBoundary(n)
    \/ CatchUpSequencer(n)
    \/ CatchUpCollector(n)
    \/ EndRound(n)
    \/ Restart(n)

Next ==
    \/ \E n \in Node : NodeStep(n)
    \/ \E v \in Honest : GetHeightProof(v) \/ GetEpochRotationProof(v)

Spec == Init /\ [][Next]_vars

-----------------------------------------------------------------------------
(* Properties *)

\* The block is one of the leader's finalized ones, and its heights count the
\* blocks before it.
IsCanonical(x) ==
    LET turn == LeaderTurn(x.place)
    IN  /\ x.place.index <= network.last[turn]
        /\ x.height = network.start[turn] + x.place.index
        /\ x.hie = x.height - network.start[<<x.place.epoch, 0>>]

\* Neither the node nor a member of the quorum has been restarted.
Undisturbed(n) == \A m \in Honest \cup {n} : ~restarted[m]

\* The height map walks through the blocks in leader order: whichever of the
\* two threads writes a height, and in whatever order, it gets the block that
\* belongs there.
HeightMapInLeaderOrder ==
    \A n \in Node : Undisturbed(n) => \A x \in heightMap[n] : IsCanonical(x)

\* An epoch's boundary is the height of its last block, however the node has
\* come to know it.
BoundariesAreReal ==
    \A n \in Node : Undisturbed(n) =>
        \A b \in boundaries[n] : b.height = network.end[b.epoch] - 1

\* No thread goes back to a height it has been past, unless it is restarted.
HeightsNeverMoveBack ==
    [][\A n \in Node : Undisturbed(n)' =>
           /\ seq[n].height <= seq'[n].height
           /\ col[n].height <= col'[n].height]_vars

\* What the comment on LastMileFinalizerThread promises of the height map: the
\* blocks in leader order, restarts or not.
HeightMapSurvivesRestart ==
    \A n \in Node : \A x \in heightMap[n] : IsCanonical(x)
=============================================================================
