---------------------------- MODULE AlfpWatcher ----------------------------
(***************************************************************************)
(* AlfpInclusionWatcherThread: a second reader of the anchors' chains,     *)
(* independent of AnchorAlignment.                                         *)
(*                                                                         *)
(* It reads every block of the anchors in the epoch that                   *)
(* LeaderFinalizationThread is busy with, and leaves a marker              *)
(* ALFP_INCLUDED in the database for every leader whose ALFP it finds; the *)
(* leader then needs no more attention.  Its place in the chains is in     *)
(* memory and, after every step, in the database under the epoch.          *)
(***************************************************************************)
EXTENDS AnchorChains

VARIABLES
    progress,   \* ALFP_PROGRESS: the epoch of LeaderFinalizationThread
    included,   \* ALFP_INCLUDED markers: pairs of an epoch and a leader
    saved,      \* ALFP_WATCHER_STATE of every epoch, in the database
    watcher     \* the thread: its place and what it does; nothing at first

watcherVars == <<progress, included, saved, watcher>>
allWatcherVars == <<network, watcherVars>>

RegistryLast == NumAnchors - 1

\* CurrentAnchorAssumption, CurrentAnchorBlockIndexObserved and the keys of
\* LastBlocksByAnchors.
WatcherState == [anchor : Anchor, cursor : Index, targets : SUBSET Anchor]
NewAlfpWatcherState == [anchor |-> 0, cursor |-> 0, targets |-> {}]

WatcherTypeOK ==
    /\ ChainsTypeOK
    /\ progress \in Epoch
    /\ included \subseteq Epoch \X Leader
    /\ saved \in [Epoch -> WatcherState]
    /\ watcher \subseteq [epoch : Epoch, at : WatcherState,
                          phase : {"idle", "fetching", "accepted"}]
    /\ Cardinality(watcher) <= 1

WatcherInit ==
    /\ ChainsInit
    /\ progress = 0
    /\ included = {}
    /\ saved = [e \in Epoch |-> NewAlfpWatcherState]
    /\ watcher = {}

-----------------------------------------------------------------------------

\* At the top of the loop the thread turns to the epoch it finds in the
\* database, and takes up its place there.
LoadState ==
    /\ \A w \in watcher : w.phase = "idle" /\ w.epoch # progress
    /\ watcher' = {[epoch |-> progress, at |-> saved[progress], phase |-> "idle"]}
    /\ UNCHANGED <<network, progress, included, saved>>

Turned(w) == w.phase = "idle" /\ w.epoch = progress

\* There is still a leader of the epoch without a marker.
Wanted(w) == \E l \in Leader : <<w.epoch, l>> \notin included

KeepPlace(w, at) ==
    /\ saved' = [saved EXCEPT ![w.epoch] = at]
    /\ watcher' = {[epoch |-> w.epoch, at |-> at, phase |-> "idle"]}

Go(w, phase) == watcher' = {[w EXCEPT !.phase = phase]}

HasTarget(w) == w.at.anchor = RegistryLast \/ w.at.anchor \in w.at.targets

\* fetchCatchUpTargetForAnchor: the boundary of the anchor, once there is one.
LearnTarget(w) ==
    /\ Turned(w)
    /\ Wanted(w)
    /\ ~HasTarget(w)
    /\ ProofCanBeFound(w.epoch, w.at.anchor)
    /\ KeepPlace(w, [w.at EXCEPT !.targets = @ \cup {w.at.anchor}])
    /\ UNCHANGED <<network, progress, included>>

\* The block at the cursor is asked for.
Fetch(w) ==
    /\ Turned(w)
    /\ Wanted(w)
    /\ HasTarget(w)
    /\ Go(w, "fetching")
    /\ UNCHANGED <<network, progress, included, saved>>

\* The boundary block needs no AFP: the AARP names its hash.
IsTarget(w) ==
    /\ w.at.anchor # RegistryLast
    /\ w.at.cursor = boundary[<<w.epoch, w.at.anchor>>]

Accept(w) ==
    /\ w.phase = "fetching"
    /\ \/ IsTarget(w)
       \/ FinalizedByNextAfp(w.epoch, w.at.anchor, w.at.cursor)
    /\ Go(w, "accepted")
    /\ UNCHANGED <<network, progress, included, saved>>

\* No block, an invalid one, or one that is not final: the thread waits.
GiveUp(w) ==
    /\ w.phase = "fetching"
    /\ Go(w, "idle")
    /\ UNCHANGED <<network, progress, included, saved>>

Unmarked(w) ==
    {x \in AlfpsIn(w.epoch, w.at.anchor, w.at.cursor) :
        <<w.epoch, x.leader>> \notin included}

\* Mutation: the marker goes to the epoch that ALFP_PROGRESS is at by now.
MarkInProgress(w) ==
    /\ w.phase = "accepted"
    /\ \E x \in Unmarked(w) : included' = included \cup {<<progress, x.leader>>}
    /\ UNCHANGED <<network, progress, saved, watcher>>

\* StoreAlfpIncluded, one ALFP of the block after the other.
Mark(w) ==
    /\ w.phase = "accepted"
    /\ \E x \in Unmarked(w) : included' = included \cup {<<w.epoch, x.leader>>}
    /\ UNCHANGED <<network, progress, saved, watcher>>

\* Mutation: the next anchor is turned to before the boundary is read.
NextPlaceEarly(w) ==
    IF w.at.anchor = RegistryLast
         \/ w.at.cursor + 1 < boundary[<<w.epoch, w.at.anchor>>]
    THEN [w.at EXCEPT !.cursor = @ + 1]
    ELSE [w.at EXCEPT !.anchor = @ + 1, !.cursor = 0]

\* On the last anchor of the registry the thread stays.
NextPlace(w) ==
    IF w.at.anchor = RegistryLast
         \/ w.at.cursor < boundary[<<w.epoch, w.at.anchor>>]
    THEN [w.at EXCEPT !.cursor = @ + 1]
    ELSE [w.at EXCEPT !.anchor = @ + 1, !.cursor = 0]

\* Mutation: the place is written before the markers are.
AdvanceAtOnce(w) ==
    /\ w.phase = "accepted"
    /\ KeepPlace(w, NextPlace(w))
    /\ UNCHANGED <<network, progress, included>>

\* After the last marker the place moves on, in memory and in the database.
AdvancePlace(w) ==
    /\ w.phase = "accepted"
    /\ Unmarked(w) = {}
    /\ KeepPlace(w, NextPlace(w))
    /\ UNCHANGED <<network, progress, included>>

\* LeaderFinalizationThread is done with the epoch, or finds that the
\* finalizer is far ahead: at any time, for what this thread can tell.
MoveProgress ==
    /\ \E e \in Epoch : progress < e /\ progress' = e
    /\ UNCHANGED <<network, included, saved, watcher>>

RestartWatcher ==
    /\ watcher # {}
    /\ watcher' = {}
    /\ UNCHANGED <<network, progress, included, saved>>

LearnsTarget == \E w \in watcher : LearnTarget(w)
Fetches      == \E w \in watcher : Fetch(w)
Accepts      == \E w \in watcher : Accept(w)
GivesUp      == \E w \in watcher : GiveUp(w)
Marks        == \E w \in watcher : Mark(w)
Advances     == \E w \in watcher : AdvancePlace(w)

WatcherNext ==
    \/ LoadState
    \/ LearnsTarget
    \/ Fetches
    \/ Accepts
    \/ GivesUp
    \/ Marks
    \/ Advances
    \/ MoveProgress
    \/ RestartWatcher

WatcherSpec == WatcherInit /\ [][WatcherNext]_allWatcherVars

\* The thread loops for ever and every request ends.  Neither restarts nor
\* failing requests come between every two of its steps.
FairWatcherSpec ==
    /\ WatcherSpec
    /\ WF_allWatcherVars(LoadState)
    /\ WF_allWatcherVars(GivesUp)
    /\ SF_allWatcherVars(LearnsTarget)
    /\ SF_allWatcherVars(Fetches)
    /\ SF_allWatcherVars(Accepts)
    /\ SF_allWatcherVars(Marks)
    /\ SF_allWatcherVars(Advances)

-----------------------------------------------------------------------------
(* Properties *)

\* The block is final: at or before the boundary, or with a successor that has
\* an AFP.
IsFinal(p) ==
    /\ p.anchor <= active[p.epoch]
    /\ IF RotatesAway(p.epoch, p.anchor)
       THEN p.index <= boundary[<<p.epoch, p.anchor>>]
       ELSE p.index < MaxIndex

\* A marker, which ends all efforts to collect and deliver the ALFP of the
\* leader, is only left for an ALFP in a final block of that epoch, although
\* ALFP_PROGRESS may move on while a block is fetched.
MarkersAreReal ==
    \A m \in included :
        \E x \in inclusions : /\ x.at.epoch = m[1]
                              /\ x.leader = m[2]
                              /\ IsFinal(x.at)

Before(p, w) ==
    \/ p.anchor < w.anchor
    \/ p.anchor = w.anchor /\ p.index < w.cursor

\* The place in the database never gets ahead of the markers: a crash at any
\* point loses no ALFP of a block that will not be read again.
NothingPassedOver ==
    \A x \in inclusions :
        IsFinal(x.at) /\ Before(x.at, saved[x.at.epoch])
            => <<x.at.epoch, x.leader>> \in included

\* The thread gets to see the blocks of the anchor: every anchor up to it has
\* a block, and each of them rotates away or is the last of the registry.
Reachable(e, a) ==
    \A b \in 0 .. a : IF b = RegistryLast THEN TRUE
                      ELSE RotatesAway(e, b) /\ boundary[<<e, b>>] >= 0

FinalAlfps(e, l) ==
    {x \in inclusions : x.at.epoch = e /\ x.leader = l /\ IsFinal(x.at)}

\* An ALFP in a final block that the thread gets to see is marked in the end,
\* unless ALFP_PROGRESS moves on.
ReachableAlfpsAreMarked ==
    \A e \in Epoch, l \in Leader :
        (progress = e /\ \E x \in FinalAlfps(e, l) : Reachable(e, x.at.anchor))
            ~> (progress # e \/ <<e, l>> \in included)
=============================================================================
