---------------------------- MODULE MCExecution ----------------------------
(***************************************************************************)
(* Small chains for Execution: two networks, one after the other.          *)
(***************************************************************************)
EXTENDS Execution

CONSTANTS alice, bob, carol

MCAccount == {alice, bob, carol}
MCBypass  == {carol}
MCModulus == 16

Genesis ==
    [x \in MCAccount |->
        [balance |-> IF x = alice THEN 4 ELSE IF x = carol THEN 2 ELSE 0,
         nonce   |-> 0]]

Tx(from, to, amount, fee, nonce, type) ==
    [from |-> from, to |-> to, amount |-> amount, fee |-> fee, nonce |-> nonce,
     type |-> type]

\* Pay, Stake, Whole and Large compete for a nonce, and More and Unnamed for the
\* next one.  Other has its fee only after Pay has paid bob, and Free can be
\* repeated.  Fee and amount of Whole and of Large come to the modulus.
Pay     == Tx(alice, bob, 1, 1, 1, "transfer")
Stake   == Tx(alice, bob, 2, 1, 1, "stake")
Whole   == Tx(alice, bob, 12, 4, 1, "transfer")
Large   == Tx(alice, bob, 13, 3, 1, "stake")
More    == Tx(alice, carol, 1, 0, 2, "stake")
Unnamed == Tx(alice, NoStaker, 1, 0, 2, "stake")
Other   == Tx(bob, bob, 0, 1, 1, "other")
Free    == Tx(carol, bob, 1, 0, 0, "transfer")

\* What the three blocks of the first network may carry.
Loads ==
    {<<Pay, Other>>, <<Stake, Stake>>, <<Whole>>, <<Large>>}
        \X {<<More, Free>>, <<Unnamed>>, <<Free>>}
        \X {<<>>, <<More, Stake>>}

\* The epochs of the three blocks: the last one begins an epoch, or shares it
\* with another one, right after the first epoch or after one without blocks.
EpochsOfBlocks == {<<0, 0, 1>>, <<0, 1, 1>>, <<0, 2, 2>>}

Blocks(epochs, loads) ==
    [h \in 0 .. Len(epochs) - 1 |->
        [epoch |-> epochs[h + 1], creator |-> carol,
         transactions |-> loads[h + 1]]]

\* The accounts and the queue after each of the blocks of an era.
LedgerOf(start, era, startEpoch, blocks) ==
    LET L[h \in {-1} \cup DOMAIN blocks] ==
            IF h = -1 THEN start
            ELSE LET r   == ApplyTransactions(L[h - 1].accounts, blocks[h])
                     key == DelayedTransactionsKey(era,
                                startEpoch + blocks[h].epoch)
                 IN  [accounts |-> r.accounts,
                      queue    |-> Queued(L[h - 1].queue, key, r.delayed)]
    IN  L

\* The first network has these blocks and ends with block last in epoch Y; the
\* second one pays again with nonces that may have been used in the first.
ChainOf(blocks, last, Y) ==
    LET second  == Blocks(<<0, 0, 1>>, <<<<Pay, More>>, <<Free>>, <<>>>>)
        ledger  == LedgerOf([accounts |-> Genesis, queue |-> EmptyQueue],
                            0, 0, blocks)
        restart == [accounts |-> RefundPendingStakes(ledger[last].accounts,
                                                     ledger[last].queue),
                    queue    |-> EmptyQueue]
        OfEra(x, y) == [e \in Era |-> IF e = 0 THEN x ELSE y]
    IN  [top        |-> OfEra(2, 2),
         block      |-> OfEra(blocks, second),
         start      |-> OfEra(0, last + 1),
         startEpoch |-> OfEra(0, Y + 1),
         plan       |-> [e \in {0} |-> [lastAbsoluteHeight |-> last,
                                        lastEpochIndex |-> Y]],
         ledger     |-> OfEra(ledger, LedgerOf(restart, 1, Y + 1, second))]

MCChains ==
    {ChainOf(Blocks(epochs, loads), last, epochs[last + 1] + idle) :
        epochs \in EpochsOfBlocks, loads \in Loads, last \in {1, 2},
        idle \in {0, 1}}

=============================================================================
