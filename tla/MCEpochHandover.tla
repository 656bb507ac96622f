-------------------------- MODULE MCEpochHandover --------------------------
(***************************************************************************)
(* Two members and an anchor for EpochHandover.                            *)
(***************************************************************************)
EXTENDS EpochHandover

CONSTANTS v1, v2, a1

MCHonest == {v1, v2}
MCFaulty == {}

\* Epoch 1 has been handed over already, by the one of the two that made its
\* AERP; epoch 2 has two finalizers that get in each other's way.
MCFinalizers == [e \in 0 .. 2 |-> IF e < 2 THEN {v1} ELSE {v1, v2}]

MCHonestAnchor == {a1}
MCFaultyAnchor == {}
=============================================================================
