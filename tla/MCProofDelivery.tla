-------------------------- MODULE MCProofDelivery --------------------------
(* Small instances of ProofDelivery for TLC. *)
EXTENDS ProofDelivery

CONSTANTS v1, v2, v3, f1

MCHonest == {v1, v2, v3}
MCFaulty == {f1}
MCTopic  == 1 .. LastHeight

\* Bound: where the faulty peer answers nothing else goes wrong, and there is no
\* second height.
OneKindOfTrouble ==
    reachable \subseteq Honest \/ (caller # "collector" /\ trouble = 0)

\* Bound: the threads that send to the PoD, which share nothing with a round,
\* do so between rounds.
SendsBetweenRounds == sends[Self] # {} => phase = "idle"

\* Bound: the timer does not tick while an answer is there to be taken.
AnswersAreTaken ==
    phase = "waiting" /\ inbox # {} =>
        {c \in calls' : ~c.failing} \subseteq calls
=============================================================================
