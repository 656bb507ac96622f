----------------------------- MODULE Execution -----------------------------
(***************************************************************************)
(* How one node executes the chain, over crashes and over recoveries.      *)
(*                                                                         *)
(* BlockExecutionThread follows the heights that the quorum has proved.    *)
(* It changes the cursor and the accounts in memory, and writes both with  *)
(* everything else a block changes in one batch.  When a network has come  *)
(* to a halt, the operators agree on its last block and continue with a    *)
(* new network: a node that has been given the new genesis and the plan    *)
(* executes the old network to its end, and then applies the transition.   *)
(***************************************************************************)
EXTENDS AccountState

CONSTANTS
    LastEra,  \* the eras 0 .. LastEra are the networks, one after the other
    Chains,   \* the chains of blocks that are considered
    MaxStops  \* bound: how often the node is stopped or crashes

Era == 0 .. LastEra

DelayedTransactionsEpochDelay == 2

\* The key of delayed transactions that are queued in an epoch.
DelayedTransactionsKey(era, epoch) ==
    [network |-> era, epoch |-> epoch + DelayedTransactionsEpochDelay]

\* A chain: the blocks of every era up to the last one with an AHP, the plan
\* that ends an era, the offsets at which an era starts, and the accounts with
\* the queue of delayed transactions after each block, -1 being the start.
BlocksOk(w) ==
    \A e \in Era :
        /\ w.top[e] \in Nat \ {0}
        /\ \A h \in 0 .. w.top[e] :
              /\ w.block[e][h].epoch \in Nat
              /\ w.block[e][h].creator \in Account
              /\ w.block[e][h].transactions \in Seq(Transaction)
              /\ h > 0 => w.block[e][h - 1].epoch <= w.block[e][h].epoch
              /\ LET before == w.ledger[e][h - 1]
                     after  == ApplyTransactions(before.accounts, w.block[e][h])
                     key    == DelayedTransactionsKey(e,
                                  w.startEpoch[e] + w.block[e][h].epoch)
                 IN  w.ledger[e][h] =
                        [accounts |-> after.accounts,
                         queue    |-> Queued(before.queue, key, after.delayed)]

\* The plan names the highest block whose height proof the operators have
\* found, so that at most one more is proved, and the newest epoch.
PlanOk(w, e) ==
    LET p    == w.plan[e]
        last == p.lastAbsoluteHeight - w.start[e]
        l    == w.ledger[e][last]
    IN  /\ p.lastAbsoluteHeight \in Nat /\ p.lastEpochIndex \in Nat
        /\ last \in 0 .. w.top[e]
        /\ w.top[e] <= last + 1
        /\ p.lastEpochIndex >= w.startEpoch[e] + w.block[e][last].epoch
        /\ w.start[e + 1] = p.lastAbsoluteHeight + 1
        /\ w.startEpoch[e + 1] = p.lastEpochIndex + 1
        /\ w.ledger[e + 1][-1] =
              [accounts |-> RefundPendingStakes(l.accounts, l.queue),
               queue    |-> EmptyQueue]

ChainOk(w) ==
    /\ w.start[0] = 0 /\ w.startEpoch[0] = 0
    /\ \A e \in Era : w.start[e] \in Nat /\ w.startEpoch[e] \in Nat
    /\ w.ledger[0][-1].accounts \in Accounts
    /\ w.ledger[0][-1].queue = EmptyQueue
    /\ BlocksOk(w)
    /\ \A e \in 0 .. LastEra - 1 : PlanOk(w, e)

ASSUME ExecutionAssumption ==
    /\ LastEra \in Nat
    /\ MaxStops \in Nat
    /\ \A w \in Chains : ChainOk(w)

VARIABLES
    chain,    \* one of the Chains, fixed
    genesis,  \* the era of the node's genesis.json
    up,       \* the node runs
    cursor,   \* ChainCursor in memory
    accounts, \* the accounts as the node sees them
    plan,     \* RecoveryPlan in memory: the eras with a plan, at most one
    batch,    \* what is being written to STATE: nothing or its new contents
    state,    \* STATE, the database
    stops     \* how often the node has been stopped

vars == <<chain, genesis, up, cursor, accounts, plan, batch, state, stops>>

\* lastHeight is Statistics.LastHeight, epochBlocks is
\* EpochStatistics.BlocksGenerated.
ChainCursor ==
    [era : Era, heightOffset : Nat, epochOffset : Nat,
     lastLocal : Nat \cup {-1}, lastHeight : Nat \cup {-1},
     epoch : Nat, epochBlocks : Nat]

\* BLOCK_INDEX, with the epoch that is in the id of the block.
IndexEntry == [height : Nat, era : Era, local : Nat, epoch : Nat]

EpochStats == [epoch : Nat, blocks : Nat]

\* The last block of an era that is executed: that of the plan, or the last one
\* with a proved successor.
LastExecutable(e) ==
    IF e = LastEra THEN chain.top[e] - 1
    ELSE chain.plan[e].lastAbsoluteHeight - chain.start[e]

Committed(s) ==
    /\ s.cursor \in ChainCursor
    /\ s.cursor.lastLocal <= LastExecutable(s.cursor.era)
    /\ s.index \in SUBSET IndexEntry
    /\ s.epochStats \in SUBSET EpochStats
    /\ s.recovery \in SUBSET (0 .. LastEra - 1)

\* The accounts are in no type: CommittedStateIsReplay says what they are.
TypeOK ==
    /\ chain \in Chains
    /\ genesis \in Era
    /\ up \in BOOLEAN
    /\ cursor \in ChainCursor
    /\ plan \in SUBSET (0 .. LastEra - 1)
    /\ Committed(state)
    /\ \A s \in batch : Committed(s)
    /\ stops \in 0 .. MaxStops

FirstCursor ==
    [era |-> 0, heightOffset |-> 0, epochOffset |-> 0, lastLocal |-> -1,
     lastHeight |-> -1, epoch |-> 0, epochBlocks |-> 0]

Init ==
    /\ chain \in Chains
    /\ genesis = 0
    /\ up = TRUE
    /\ cursor = FirstCursor
    /\ accounts = chain.ledger[0][-1].accounts
    /\ plan = {}
    /\ batch = {}
    /\ state = [cursor |-> cursor, accounts |-> accounts,
                queue |-> EmptyQueue,
                index |-> {}, epochStats |-> {}, recovery |-> {}]
    /\ stops = 0

-----------------------------------------------------------------------------
(* BlockExecutionThread *)

\* Mutation: the boundary is behind the last block.
AfterRecoveryBoundary ==
    \E p \in plan : /\ cursor.era # genesis
                    /\ cursor.lastHeight = chain.plan[p].lastAbsoluteHeight

\* The last block of a halted network has no height after it.
AtRecoveryBoundary ==
    \E p \in plan :
        /\ cursor.era # genesis
        /\ cursor.lastHeight + 1 = chain.plan[p].lastAbsoluteHeight

NextHeight == cursor.lastLocal + 1

NextBlock == chain.block[cursor.era][NextHeight]

\* The block and its AHP are there, and the AHP of the height after it.
NextBlockIsConfirmed ==
    /\ up
    /\ batch = {}
    /\ NextHeight <= chain.top[cursor.era]
    /\ NextHeight + 1 <= chain.top[cursor.era] \/ AtRecoveryBoundary

\* A statistic is written over the one the epoch had.
WithEpochStats(S, epoch, blocks) ==
    {x \in S : x.epoch # epoch} \cup {[epoch |-> epoch, blocks |-> blocks]}

\* setupNextEpochFromRotationProof, with the AERP of the cursor's epoch.  No
\* delayed transactions are executed: the AERP has none in it.
SetupNextEpoch ==
    LET next == [cursor EXCEPT !.epoch = @ + 1, !.epochBlocks = 0]
    IN  /\ NextBlockIsConfirmed
        /\ NextBlock.epoch > cursor.epoch
        /\ cursor' = next
        /\ state' = [state EXCEPT
              !.cursor = next,
              !.epochStats = WithEpochStats(@,
                  cursor.epochOffset + cursor.epoch, cursor.epochBlocks)]
        /\ UNCHANGED <<chain, genesis, up, accounts, plan, batch, stops>>

\* Mutation: the new era starts at the last height of the old one.
TransitionedWithoutStep(c, p) ==
    [c EXCEPT !.era = p + 1, !.epoch = 0, !.epochBlocks = 0, !.lastLocal = -1,
              !.heightOffset = chain.plan[p].lastAbsoluteHeight,
              !.epochOffset = chain.plan[p].lastEpochIndex + 1]

TransitionedCursor(c, p) ==
    [c EXCEPT !.era = p + 1, !.epoch = 0, !.epochBlocks = 0, !.lastLocal = -1,
              !.heightOffset = chain.plan[p].lastAbsoluteHeight + 1,
              !.epochOffset = chain.plan[p].lastEpochIndex + 1]

\* Mutation: the keys are deleted and nothing is refunded.
DropPendingStakes(s) == [s EXCEPT !.queue = EmptyQueue]

\* SettleAndDeleteDelayedTransactions sees the keys of the database, and not
\* what the batch adds to them or beside them.
SettleDelayedTransactions(s) ==
    [s EXCEPT
        !.accounts = RefundPendingStakes(@, state.queue),
        !.queue = [key \in DOMAIN @ \ DOMAIN state.queue |-> @[key]]]

DeleteRecoveryPlan(s) == [s EXCEPT !.recovery = {}]

\* The contents s of STATE become those after the transition.
ApplyRecoveryTransition(s, p) ==
    [SettleDelayedTransactions(DeleteRecoveryPlan(s)) EXCEPT
        !.cursor = TransitionedCursor(@, p),
        !.epochStats = WithEpochStats(@, chain.plan[p].lastEpochIndex,
                                      s.cursor.epochBlocks)]

\* The transition is due after the plan's last block.
IsDue(p, c) == c.lastHeight = chain.plan[p].lastAbsoluteHeight

\* What STATE will be when the next block has been executed.
StateAfterBlock ==
    LET r == ApplyTransactions(accounts, NextBlock)
        c == [cursor EXCEPT !.lastLocal = @ + 1, !.lastHeight = @ + 1,
                            !.epochBlocks = @ + 1]
        key == DelayedTransactionsKey(c.era, c.epochOffset + c.epoch)
    IN  [state EXCEPT
            !.cursor = c,
            !.accounts = r.accounts,
            !.queue = Queued(@, key, r.delayed),
            !.index = {x \in @ : x.height # c.heightOffset + c.lastLocal} \cup
                      {[height |-> c.heightOffset + c.lastLocal, era |-> c.era,
                        local |-> c.lastLocal,
                        epoch |-> c.epochOffset + c.epoch]}]

\* executeBlock under the lock: memory is changed and the batch is built.
BuildExecutionBatch ==
    LET s == StateAfterBlock
        t == IF \E p \in plan : IsDue(p, s.cursor)
             THEN ApplyRecoveryTransition(s, CHOOSE p \in plan : TRUE)
             ELSE s
    IN  /\ NextBlockIsConfirmed
        /\ NextBlock.epoch <= cursor.epoch
        /\ cursor' = t.cursor
        /\ accounts' = t.accounts
        /\ plan' = {p \in plan : ~IsDue(p, s.cursor)}
        /\ batch' = {t}
        /\ UNCHANGED <<chain, genesis, up, state, stops>>

\* executeBlock after the lock.
WriteBatch ==
    /\ up
    /\ state' \in batch
    /\ batch' = {}
    /\ UNCHANGED <<chain, genesis, up, cursor, accounts, plan, stops>>

-----------------------------------------------------------------------------
(* Stops, starts and recoveries *)

\* What is in memory is lost.
LoseMemory ==
    /\ up' = FALSE
    /\ cursor' = state.cursor
    /\ accounts' = state.accounts
    /\ plan' = {}
    /\ batch' = {}

Stop ==
    /\ up
    /\ stops < MaxStops
    /\ stops' = stops + 1
    /\ LoseMemory
    /\ UNCHANGED <<chain, genesis, state>>

\* validateLocalCursor
CanRegister(c, p) ==
    /\ p = c.era
    /\ c.lastHeight <= chain.plan[p].lastAbsoluteHeight
    /\ c.epochOffset + c.epoch = chain.plan[p].lastEpochIndex

\* The operator stops the node, replaces its genesis and registers the plan.
RegisterRecovery ==
    \E p \in 0 .. LastEra - 1 :
        /\ genesis = p
        /\ CanRegister(state.cursor, p)
        /\ genesis' = p + 1
        /\ state' = [state EXCEPT !.recovery = {p}]
        /\ LoseMemory
        /\ UNCHANGED <<chain, stops>>

\* Mutation: the boundary's own block cannot be left.
IsPlanBeforeBoundary(p, c) ==
    p + 1 = genesis /\ c.lastHeight + 1 < chain.plan[p].lastAbsoluteHeight

IsValidRecoveryPlanForCursor(p, c) ==
    p + 1 = genesis /\ c.lastHeight < chain.plan[p].lastAbsoluteHeight

\* prepareBlockchain refuses to start on the state of another network.
CanStart ==
    \/ state.cursor.era = genesis
    \/ \E p \in state.recovery :
          \/ IsDue(p, state.cursor) /\ p + 1 = genesis
          \/ IsValidRecoveryPlanForCursor(p, state.cursor)

\* The transition is applied on startup where it is due already.
Start ==
    LET t == IF \E p \in state.recovery : IsDue(p, state.cursor)
             THEN ApplyRecoveryTransition(state,
                                          CHOOSE p \in state.recovery : TRUE)
             ELSE state
    IN  /\ ~up
        /\ CanStart
        /\ up' = TRUE
        /\ state' = t
        /\ cursor' = t.cursor
        /\ accounts' = t.accounts
        /\ plan' = t.recovery
        /\ UNCHANGED <<chain, genesis, batch, stops>>

Next ==
    \/ SetupNextEpoch
    \/ BuildExecutionBatch
    \/ WriteBatch
    \/ Stop
    \/ RegisterRecovery
    \/ Start

\* The thread is an endless loop, a node that has been stopped is started
\* again, and the operators go through with a recovery.
Fairness ==
    /\ WF_vars(SetupNextEpoch)
    /\ WF_vars(BuildExecutionBatch)
    /\ WF_vars(WriteBatch)
    /\ WF_vars(Start)
    /\ WF_vars(RegisterRecovery)

Spec == Init /\ [][Next]_vars

FairSpec == Spec /\ Fairness

-----------------------------------------------------------------------------
(* Properties *)

\* No network ends with a block that queues delayed transactions.
QuietBoundaries ==
    \A e \in 0 .. LastEra - 1 :
        LET last == chain.plan[e].lastAbsoluteHeight - chain.start[e]
        IN  chain.ledger[e][last].queue = chain.ledger[e][last - 1].queue

Ledger(c) == chain.ledger[c.era][c.lastLocal]

IsReplay(s) == /\ s.accounts = Ledger(s.cursor).accounts
               /\ s.queue = Ledger(s.cursor).queue

\* The accounts and the queue in the database are those after the blocks up to
\* the cursor, wherever the node has been stopped and whenever it has learned
\* of a recovery: every block has been executed exactly once.
CommittedStateIsReplay == QuietBoundaries => IsReplay(state)

IsIndexed(s) == \A h \in 0 .. s.cursor.lastHeight :
                    \E x \in s.index : x.height = h

IndexIsOfChain(s) ==
    \A x \in s.index :
        /\ x.height = chain.start[x.era] + x.local
        /\ x.height <= s.cursor.lastHeight
        /\ x.era <= s.cursor.era
        /\ x.era < s.cursor.era => x.height < chain.start[x.era + 1]
        /\ x.epoch = chain.startEpoch[x.era] + chain.block[x.era][x.local].epoch

\* "History remains linear" (the wiki's description of the recovery): the
\* heights from 0 to the last one are indexed once each, with the blocks and
\* epochs of the eras one after the other.
HistoryIsLinear ==
    /\ state.cursor.lastHeight = chain.start[state.cursor.era]
                                 + state.cursor.lastLocal
    /\ IsIndexed(state)
    /\ IndexIsOfChain(state)

\* What the recoveries before an era have deleted without a refund.
NotRefunded(era) ==
    SumFunction([e \in 0 .. era - 1 |->
        LET last == chain.plan[e].lastAbsoluteHeight - chain.start[e]
        IN  Waiting(chain.ledger[e][last].queue, NoStaker)])

Supply == Coins(chain.ledger[0][-1].accounts, EmptyQueue)

\* The genesis has less than 2^64 coins, and no transaction's fee and amount
\* come to 2^64.
SpendsFit ==
    /\ Supply < Modulus
    /\ \A e \in Era : \A h \in 0 .. chain.top[e] :
          LET txs == chain.block[e][h].transactions
          IN  \A i \in DOMAIN txs : txs[i].fee + txs[i].amount < Modulus

\* Fees, transfers, stakes and refunds move coins: what sums that wrap make or
\* lose are multiples of 2^64, and while no transaction's own sum wraps, no
\* other sum does and every coin stays, over blocks, stops and recoveries.  The
\* exception are stakes without a staker, which a recovery deletes.
CoinsAreConserved ==
    QuietBoundaries =>
        LET coins == Coins(state.accounts, state.queue)
                     + NotRefunded(state.cursor.era)
        IN  /\ (coins - Supply) % Modulus = 0
            /\ SpendsFit => coins = Supply

\* A node that has stopped anywhere in a recovery can be started again.
RestartIsNeverRefused == ~up => CanStart

\* The execution thread gets to the epoch of the plan without the plan.  An
\* epoch in which no block has a proved successor is never begun, and a plan
\* that names it is refused by every node.
PlansCanBeRegistered ==
    \A e \in 0 .. LastEra - 1 :
        LET Y == chain.plan[e].lastEpochIndex - chain.startEpoch[e]
        IN  Y = 0 \/ \E h \in 0 .. chain.top[e] - 1 : chain.block[e][h].epoch = Y

\* The node gets through all the recoveries and to the last block that has a
\* proved successor.
EndIsReached ==
    PlansCanBeRegistered =>
        <>(/\ state.cursor.era = LastEra
           /\ state.cursor.lastLocal = LastExecutable(LastEra))

=============================================================================
