---------------------------- MODULE AccountState ----------------------------
(***************************************************************************)
(* What a block does to the accounts, and what a recovery does to the      *)
(* stakes that are waiting: the pure part of block execution.              *)
(*                                                                         *)
(* Balances, amounts and fees are of type uint64.  No sum of them is       *)
(* checked: it wraps.                                                      *)
(***************************************************************************)
EXTENDS Integers, SequencesExt

CONSTANTS
    Account,                       \* the accounts, all of them known
    NonceCheckBypassFromAddresses, \* accounts whose nonces are not checked
    NoStaker,                      \* the staker of a payload that has none
    Modulus                        \* numbers wrap here, in the code at 2^64

ASSUME AccountAssumption ==
    /\ IsFiniteSet(Account)
    /\ NoStaker \notin Account
    /\ Modulus \in Nat \ {0}

Uint64 == 0 .. Modulus - 1

\* The code's x + y.
Plus(x, y) == (x + y) % Modulus

Accounts == [Account -> [balance : Uint64, nonce : Nat]]

\* A stake is made by "from" for the staker "to", if its payload names one.  Any
\* other delayed transaction moves nothing but the fee: its amount is 0.
Transaction ==
    {tx \in [from : Account, to : Account \cup {NoStaker}, amount : Uint64,
             fee : Uint64, nonce : Nat, type : {"transfer", "stake", "other"}] :
        /\ tx.type = "transfer" => tx.to \in Account
        /\ tx.type = "other" => tx.amount = 0}

NonceIsRight(accounts, tx) ==
    \/ tx.from \in NonceCheckBypassFromAddresses
    \/ tx.nonce = accounts[tx.from].nonce + 1

IsDelayed(tx) == tx.type # "transfer"

TotalSpend(tx) == Plus(tx.fee, tx.amount)

\* Of a delayed transaction the fee is looked at alone, too.
CanSpend(accounts, tx) ==
    /\ IsDelayed(tx) => accounts[tx.from].balance >= tx.fee
    /\ accounts[tx.from].balance >= TotalSpend(tx)

Credit(accounts, a, amount) == [accounts EXCEPT ![a].balance = Plus(@, amount)]

\* What is left is the same number whether fee and amount are taken at once or,
\* as from the sender of a delayed transaction, one after the other.
Spend(accounts, tx) ==
    [accounts EXCEPT ![tx.from] =
        [balance |-> @.balance - TotalSpend(tx), nonce |-> @.nonce + 1]]

\* Mutation: the fee of a delayed transaction is paid twice.
FeeTwice(s, tx) ==
    IF IsDelayed(tx) THEN Plus(s.fees, Plus(tx.fee, tx.fee))
                     ELSE Plus(s.fees, tx.fee)

FeesWith(s, tx) == Plus(s.fees, tx.fee)

\* A transaction that fails changes nothing (its sender's counters are left out).
ExecuteTransaction(s, tx) ==
    IF ~NonceIsRight(s.accounts, tx) \/ ~CanSpend(s.accounts, tx) THEN s
    ELSE LET spent == Spend(s.accounts, tx)
         IN  [accounts |-> IF IsDelayed(tx) THEN spent
                           ELSE Credit(spent, tx.to, tx.amount),
              delayed  |-> IF ~IsDelayed(tx) THEN s.delayed
                           ELSE Append(s.delayed, [staker |-> tx.to,
                                                   amount |-> tx.amount]),
              fees     |-> FeesWith(s, tx)]

\* The accounts after a block, and the delayed transactions it has queued.
ApplyTransactions(accounts, block) ==
    LET s == FoldLeft(ExecuteTransaction,
                      [accounts |-> accounts, delayed |-> <<>>, fees |-> 0],
                      block.transactions)
    IN  [accounts |-> Credit(s.accounts, block.creator, s.fees),
         delayed  |-> s.delayed]

-----------------------------------------------------------------------------
(* Delayed transactions wait in the database, in lists under keys of a       *)
(* network and an epoch.                                                     *)

EmptyQueue == [key \in {} |-> <<>>]

Queued(queue, key, delayed) ==
    IF delayed = <<>> THEN queue
    ELSE [k \in DOMAIN queue \cup {key} |->
            IF k # key THEN queue[k]
            ELSE IF key \in DOMAIN queue THEN queue[k] \o delayed ELSE delayed]

\* What a list of delayed transactions holds for the staker a.
AmountsFor(a, delayed) ==
    SumFunction([i \in DOMAIN delayed |->
                    IF delayed[i].staker = a THEN delayed[i].amount ELSE 0])

Waiting(queue, a) ==
    SumFunction([key \in DOMAIN queue |-> AmountsFor(a, queue[key])])

\* The amounts of the queue go back to their stakers.  What was staked without a
\* staker goes back to nobody, although it was taken from its sender.
RefundPendingStakes(accounts, queue) ==
    [a \in Account |->
        [accounts[a] EXCEPT !.balance = Plus(@, Waiting(queue, a))]]

Balance(accounts, a) == IF a \in Account THEN accounts[a].balance ELSE 0

\* Every coin is in an account or waits in the queue.
Coins(accounts, queue) ==
    SumFunction([a \in Account \cup {NoStaker} |->
                    Balance(accounts, a) + Waiting(queue, a)])
=============================================================================
