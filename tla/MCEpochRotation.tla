-------------------------- MODULE MCEpochRotation --------------------------
(***************************************************************************)
(* Two validators at the start and a third that is created, with a staker  *)
(* besides them; two epochs with delayed transactions, executed or not, in *)
(* a few scripts that let stakes join and leave the registry, let votes    *)
(* change what the rest of the batch does, and create a validator twice.   *)
(***************************************************************************)
EXTENDS EpochRotation

CONSTANTS v1, v2, v3, s1

MCValidator == {v1, v2, v3}

MCStaker == {v1, v2, v3, s1}

MCDetails == {"first", "second", "invalid"}

MCValidDetails == {"first", "second"}

GenesisValidator(v) ==
    [pubkey |-> v, storage |-> [details |-> "first", total |-> 2,
                                stakers |-> [a \in {v} |-> 2]]]

MCGenesis ==
    [validators |-> <<GenesisValidator(v1), GenesisValidator(v2)>>,
     params |-> [f \in Field |->
                    IF f = "VALIDATOR_REQUIRED_STAKE" THEN 2
                    ELSE IF f = "QUORUM_SIZE" THEN 3
                    ELSE 1],
     version |-> 0, start |-> 5]

Create(v, d) == [type |-> "createValidator", creator |-> v, details |-> d]

Update(v, d) == [type |-> "updateValidator", creator |-> v, details |-> d]

StakeTx(a, v, n) ==
    [type |-> "stake", staker |-> a, validator |-> v, amount |-> n]

UnstakeTx(a, v, n) ==
    [type |-> "unstake", staker |-> a, validator |-> v, amount |-> n]

VoteTx(e, f, n) ==
    [type |-> "votingAccept", votingType |-> "parameters", epoch |-> e,
     agreements |-> {v1, v2, v3}, updateField |-> f, newValue |-> n]

VersionTx(e, A, n) ==
    [type |-> "votingAccept", votingType |-> "version", epoch |-> e,
     agreements |-> A, newMajorVersion |-> n]

\* A validator joins with exactly the required stake; one leaves and one is
\* left by its only staker.
Joining ==
    <<<<Create(v1, "second"), StakeTx(s1, v3, 2), Create(v3, "first"),
        StakeTx(s1, v3, 2), Create(v3, "invalid"), Update(v3, "second"),
        StakeTx(s1, v2, 0)>>,
      <<UnstakeTx(v2, v2, 1), UnstakeTx(s1, v3, 2), UnstakeTx(s1, v3, 1),
        StakeTx(s1, v1, 1), Create(v2, "second")>>>>

\* Votes change the quorum and what the rest of the batch needs.
Voting ==
    <<<<StakeTx(s1, v2, 1), VoteTx(1, "MINIMAL_STAKE_PER_STAKER", 2),
        VoteTx(1, "QUORUM_SIZE", 1), VoteTx(2, "BLOCK_TIME", 7),
        Create(v3, "second"), StakeTx(v3, v3, 2)>>,
      <<VersionTx(2, {v1, v2, v3}, 1), VersionTx(2, {s1}, 2),
        VoteTx(2, "EPOCH_DURATION", 3), UnstakeTx(v1, v1, 2),
        Update(v2, "second"), Update(v1, "invalid")>>>>

\* A validator is created twice, with a stake between.
Recreating ==
    <<<<StakeTx(s1, v1, 1), StakeTx(s1, v2, 1), Create(v3, "first"),
        StakeTx(s1, v3, 2), Create(v3, "second")>>,
      <<Update(v1, "second"), UnstakeTx(s1, v2, 1), StakeTx(s1, v1, 3)>>>>

Queue(script) ==
    [e \in Epoch |-> IF e \in {1, 2} THEN script[e]
                     ELSE <<Create(v3, "first")>>]

MCWorlds ==
    {[stub |-> FALSE, cap |-> cap, queue |-> Queue(q),
      draw |-> [e \in Epoch |-> <<4 + e, 1, 0>>]] :
        cap \in {1, 3}, q \in {Joining, Voting, Recreating}}
    \cup {[stub |-> TRUE, cap |-> 3, queue |-> Queue(Joining),
           draw |-> [e \in Epoch |-> <<3, 1, 0>>]]}
=============================================================================
