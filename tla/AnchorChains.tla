---------------------------- MODULE AnchorChains ----------------------------
(***************************************************************************)
(* The chains of the anchors, as the threads that read them see them.      *)
(*                                                                         *)
(* Within an epoch of the core network one anchor after the other makes    *)
(* the blocks.  An anchor that disappears is replaced by the next one, and *)
(* an aggregated anchor rotation proof (AARP) in the chain of a later      *)
(* anchor fixes its last block, the boundary.  The first blocks hold the   *)
(* seals (ALFPs) of the leaders.                                           *)
(*                                                                         *)
(* The anchors are another program.  Their chains are fixed here before    *)
(* the start and a fetch may take any time.  What is assumed of them is    *)
(* what this code says of AARPs: a boundary does not cut off a block whose *)
(* successor has an AFP.                                                   *)
(***************************************************************************)
EXTENDS Integers, FiniteSets

CONSTANTS
    NumAnchors,     \* length of globals.ANCHORS
    MaxIndex,       \* bound: blocks of an anchor have the indexes 0 .. MaxIndex
    MaxEpoch,       \* bound: the last epoch
    Leader,         \* leaders of an epoch
    Stat,           \* what an ALFP seals: index and hash of the last block
    MaxInclusions   \* bound: ALFPs included in the chains of the anchors

ASSUME AnchorsAssumption ==
    /\ NumAnchors \in Nat \ {0}
    /\ MaxIndex \in Nat
    /\ MaxEpoch \in Nat
    /\ MaxInclusions \in Nat

Anchor     == 0 .. NumAnchors - 1
Index      == 0 .. MaxIndex
Epoch      == 0 .. MaxEpoch
Place      == [epoch : Epoch, anchor : Anchor, index : Index]
Inclusion  == [at : Place, leader : Leader, stat : Stat]

VARIABLES
    inclusions,   \* the valid ALFPs in blocks of the anchors
    active,       \* per epoch, the anchor that is never replaced
    boundary,     \* the last block of every anchor before it
    tail          \* the places after a boundary block that have an AFP of it

network == <<inclusions, active, boundary, tail>>

ChainsTypeOK ==
    /\ inclusions \subseteq Inclusion
    /\ active \in [Epoch -> Anchor]
    /\ boundary \in [Epoch \X Anchor -> Index \cup {-1}]
    /\ tail \subseteq Epoch \X Anchor

RotatesAway(e, a) == a < active[e]

\* Only what can be looked at is varied: the boundaries of the anchors that
\* rotate away.
ChainsInit ==
    /\ \E n \in 0 .. MaxInclusions :
          inclusions \in {S \in SUBSET Inclusion : Cardinality(S) = n}
    /\ active \in [Epoch -> Anchor]
    /\ boundary \in [Epoch \X Anchor -> Index \cup {-1}]
    /\ tail \in SUBSET (Epoch \X Anchor)
    /\ \A e \in Epoch, a \in Anchor :
          ~RotatesAway(e, a) => boundary[<<e, a>>] = -1 /\ <<e, a>> \notin tail

\* The block exists and is, or will be, served.
Exists(e, a, i) ==
    /\ i \in Index
    /\ a <= active[e]
    /\ RotatesAway(e, a) => i <= boundary[<<e, a>>]

\* findEarliestAnchorRotationProof: the search through the later anchors' chains
\* for the AARP of an anchor always ends in the chain of the next anchor, which
\* must have it.  When that anchor has no block the AARP is never found, wherever
\* else it is.  Otherwise the search may fail, too, and is tried again.
ProofCanBeFound(e, a) == RotatesAway(e, a) /\ Exists(e, a + 1, 0)

\* Mutation: a valid AFP will do, whatever block it is for.
AnyAfp(e, a, i) == Exists(e, a, i)

\* An AFP of the next block chains to this one.  No anchor has one for a block
\* after its boundary; the boundary block itself may have one.
FinalizedByNextAfp(e, a, i) ==
    /\ Exists(e, a, i)
    /\ IF RotatesAway(e, a) THEN i < boundary[<<e, a>>] \/ <<e, a>> \in tail
       ELSE i < MaxIndex

AlfpsIn(e, a, i) ==
    {x \in inclusions : x.at = [epoch |-> e, anchor |-> a, index |-> i]}
=============================================================================
