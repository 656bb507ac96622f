---------------------------- MODULE MCAlfpWatcher ---------------------------
(* Small instances of AlfpWatcher for TLC. *)
EXTENDS AlfpWatcher

\* Bound: the ALFPs, which are there from the start, are all in one block.
\* The thread handles one block after the other and keeps nothing of an earlier
\* one but its place and the markers, and a block with markers is met again
\* after a restart.
OneBlock == \A x, y \in inclusions : x.at = y.at
=============================================================================
