-------------------------- MODULE MCLeaderPipeline --------------------------
(* Small instances of LeaderPipeline for TLC. *)
EXTENDS LeaderPipeline
=============================================================================
