-------------------------- MODULE SystemContracts --------------------------
(***************************************************************************)
(* The delayed transactions: what they do to the validators, to the        *)
(* network parameters and to the registry, on the approvement thread and   *)
(* on the execution thread.                                                *)
(*                                                                         *)
(* A context x is what resolveContext gives a contract: the store of the   *)
(* thread, its parameters, version, registry and epoch and, on the         *)
(* execution thread, the statistics and the accounts.  Amounts are numbers *)
(* and small enough not to overflow; a transaction whose numbers do not    *)
(* parse is refused by the code before it does anything.                   *)
(***************************************************************************)
EXTENDS ValidatorStore

CONSTANTS ValidDetails \* the details with URLs and a percentage up to 100

ASSUME DetailsAssumption == ValidDetails \subseteq Details

Field ==
    {"VALIDATOR_REQUIRED_STAKE", "MINIMAL_STAKE_PER_STAKER", "QUORUM_SIZE",
     "EPOCH_DURATION", "LEADERSHIP_DURATION", "BLOCK_TIME",
     "MAX_BLOCK_SIZE_IN_BYTES", "TXS_LIMIT_PER_BLOCK"}

NetworkParameters == [Field -> Nat]

\* What can be queued, of known and of unknown types.
DelayedTransaction ==
    [type : {"createValidator", "updateValidator"}, creator : Validator,
     details : Details]
    \cup [type : {"stake", "unstake"}, staker : Staker, validator : Validator,
          amount : Nat]
    \cup [type : {"votingAccept"}, votingType : {"version"}, epoch : Nat,
          agreements : SUBSET Staker, newMajorVersion : Nat]
    \cup [type : {"votingAccept"}, votingType : {"parameters"}, epoch : Nat,
          agreements : SUBSET Staker, updateField : STRING, newValue : Nat]
    \cup [type : {"other"}]

\* Two thirds of the quorum rounded down, plus one, and never more than all.
QuorumMajority(quorum) ==
    LET n == Cardinality(quorum)
        m == (2 * n) \div 3 + 1
    IN  IF m > n THEN n ELSE m

-----------------------------------------------------------------------------
(* Validators *)

\* Mutation: the database is not asked.
IsNewToTheCache(s, v) == v \notin s.cached

\* The touched set is not asked.
IsNew(s, v) == v \notin s.cached /\ v \notin DOMAIN s.db

CreateValidator(x, tx) ==
    LET v   == tx.creator
        new == [details |-> tx.details, total |-> 0,
                stakers |-> [a \in {v} |-> 0]]
    IN  IF tx.details \notin ValidDetails \/ ~IsNew(x.store, v) THEN x
        ELSE [x EXCEPT !.store =
                 Collect(MarkTouched(PutCache(@, v, new), v))]

UpdateValidator(x, tx) ==
    LET v == tx.creator
        n == [StorageOf(x.store, v) EXCEPT !.details = tx.details]
    IN  IF tx.details \notin ValidDetails \/ ~Exists(x.store, v) THEN x
        ELSE [x EXCEPT !.store =
                 TouchCache(SetStorage(GetValidator(@, v), v, n), v)]

-----------------------------------------------------------------------------
(* Stakes *)

StakeOf(storage, a) == IF a \in DOMAIN storage.stakers
                       THEN storage.stakers[a] ELSE 0

WithStake(storage, a, amount) ==
    [storage EXCEPT
        !.stakers = [b \in DOMAIN @ \cup {a} |->
                        IF b = a THEN amount ELSE @[b]]]

WithoutStaker(storage, a) ==
    [storage EXCEPT !.stakers = [b \in DOMAIN @ \ {a} |-> @[b]]]

\* Mutation: a validator with exactly the required stake does not join.
JoinRegistryAbove(x, v, total) ==
    IF total <= x.params["VALIDATOR_REQUIRED_STAKE"] THEN x.registry
    ELSE IF Contains(x.registry, v) THEN x.registry
    ELSE Append(x.registry, v)

JoinRegistry(x, v, total) ==
    IF total < x.params["VALIDATOR_REQUIRED_STAKE"] THEN x.registry
    ELSE IF Contains(x.registry, v) THEN x.registry
    ELSE Append(x.registry, v)

LeaveRegistry(x, v, total) ==
    IF total >= x.params["VALIDATOR_REQUIRED_STAKE"] THEN x.registry
    ELSE RemoveFirst(x.registry, v)

\* onStakeDelta: only the execution thread has statistics.
StakeDelta(x, amount) ==
    IF x.thread = "execution" THEN x.stakingDelta + amount ELSE x.stakingDelta

Stake(x, tx) ==
    LET v     == tx.validator
        o     == StorageOf(x.store, v)
        total == o.total + tx.amount
        n     == WithStake([o EXCEPT !.total = total], tx.staker,
                           StakeOf(o, tx.staker) + tx.amount)
    IN  IF ~Exists(x.store, v) THEN x
        ELSE IF tx.amount < x.params["MINIMAL_STAKE_PER_STAKER"]
        THEN [x EXCEPT !.store = GetValidator(@, v)]
        ELSE [x EXCEPT !.store = SetStorage(GetValidator(@, v), v, n),
                       !.stakingDelta = StakeDelta(x, tx.amount),
                       !.registry = JoinRegistry(x, v, total)]

\* onUnstakeRefund
RefundUnstaked(x, tx) ==
    IF x.thread = "execution"
    THEN [x.balances EXCEPT ![tx.staker] = @ + tx.amount] ELSE x.balances

\* A staker without anything left is removed.
StakersAfterUnstake(o, tx) ==
    IF o.stakers[tx.staker] = tx.amount THEN WithoutStaker(o, tx.staker)
    ELSE WithStake(o, tx.staker, o.stakers[tx.staker] - tx.amount)

Unstake(x, tx) ==
    LET v     == tx.validator
        o     == StorageOf(x.store, v)
        total == o.total - tx.amount
        n     == [StakersAfterUnstake(o, tx) EXCEPT !.total = total]
    IN  IF ~Exists(x.store, v) THEN x
        ELSE IF tx.staker \notin DOMAIN o.stakers
                \/ o.stakers[tx.staker] < tx.amount
        THEN [x EXCEPT !.store = GetValidator(@, v)]
        ELSE [x EXCEPT !.store = SetStorage(GetValidator(@, v), v, n),
                       !.stakingDelta = StakeDelta(x, -tx.amount),
                       !.balances = RefundUnstaked(x, tx),
                       !.registry = LeaveRegistry(x, v, total)]

-----------------------------------------------------------------------------
(* Votes of the quorum.  A signature is over the votes's payload and the     *)
(* full id of the epoch, so that it is worth nothing in another epoch.       *)

OkSignatures(x, tx) ==
    IF tx.epoch = x.epoch THEN tx.agreements \cap x.quorum ELSE {}

VerifyVotingAcceptMajority(x, tx) ==
    /\ tx.agreements # {}
    /\ Cardinality(OkSignatures(x, tx)) >= QuorumMajority(x.quorum)

VotingAccept(x, tx) ==
    IF ~VerifyVotingAcceptMajority(x, tx) THEN x
    ELSE IF tx.votingType = "version"
    THEN [x EXCEPT !.version = tx.newMajorVersion]
    ELSE IF tx.votingType = "parameters" /\ tx.updateField \in Field
    THEN [x EXCEPT !.params[tx.updateField] = tx.newValue]
    ELSE x

-----------------------------------------------------------------------------
(* Batches *)

\* executeDelayedTransaction: what is of no known type is passed over.
ExecuteDelayedTransaction(x, tx) ==
    CASE tx.type = "createValidator" -> CreateValidator(x, tx)
      [] tx.type = "updateValidator" -> UpdateValidator(x, tx)
      [] tx.type = "stake"           -> Stake(x, tx)
      [] tx.type = "unstake"         -> Unstake(x, tx)
      [] tx.type = "votingAccept"    -> VotingAccept(x, tx)
      [] OTHER                       -> x

\* Votes are set apart from the rest.
SetApart(lists, tx) ==
    IF tx.type = "votingAccept"
    THEN [lists EXCEPT !.votes = Append(@, tx)]
    ELSE [lists EXCEPT !.rest = Append(@, tx)]

OrderByPriority(txs) ==
    LET lists == FoldLeft(SetApart, [votes |-> <<>>, rest |-> <<>>], txs)
    IN  lists.votes \o lists.rest

\* The batch txs as a thread executes it: the touched set starts out empty, and
\* what is in it at the end is written.
ExecuteBatch(x, txs) ==
    LET y == FoldLeft(ExecuteDelayedTransaction,
                      [x EXCEPT !.store = ResetTouched(@)], txs)
    IN  [y EXCEPT !.store = WriteTouched(@)]
=============================================================================
