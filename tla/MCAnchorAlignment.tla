------------------------- MODULE MCAnchorAlignment -------------------------
(* Small instances of AnchorAlignment for TLC. *)
EXTENDS AnchorAlignment

\* Bound: the ALFPs, which are there from the start, are all of one epoch, the
\* first or the second.  Records of an epoch are dropped before the next one.
OneEpoch == \A x, y \in inclusions : x.at.epoch = y.at.epoch
=============================================================================
