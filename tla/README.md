# ModulrCore in TLA+

This directory is a formal development of ModulrCore, the Go node of the Modulr
core network. It models how blocks are finalized, how leaders are sealed, how
nodes read the seals back from the anchors, give the blocks their heights,
hand over from epoch to epoch, and execute the blocks and the delayed
transactions, down to the order of database writes and the locks that are held
in between. TLC checks small instances, and TLAPS proves the main safety results
for every value of the constants.

Paths are relative to the repository's `src/`.

## 1. The system

Time is cut into *epochs*. An epoch has a *quorum* of validators and a
*leaders sequence*; each leader makes blocks during its turn.

- A block is **finalized** by an *AFP* (aggregated finalization proof):
  signatures of more than two thirds of the quorum over the block and its
  predecessor's hash. A block is **confirmed** once its successor has an AFP.
- A leader whose turn is over is **sealed** by an *ALFP* (aggregated leader
  finalization proof): signatures of a majority that its last block is `i`.
- The *anchors* are a second, external network. ALFPs are sent to them and come
  back in the first blocks of the anchors' chains, which every node reads to
  learn where each leader's chain ends. An anchor that disappears is replaced,
  and an *AARP* (aggregated anchor rotation proof) fixes its last block.
- The *sequencer* (last mile) concatenates the leaders' chains, gives every
  block an absolute height, and has the quorum sign heights (AHP) and the end of
  the epoch (AERP). Blocks are executed in that order.

### 1.1 Inventory

| Component (code) | State | Operations | What makes it correct |
|---|---|---|---|
| Finalization, quorum side (`websocket_pack/routes.go`, `utils/proofs_verification.go`) | per leader `VotingStat`; `FINALIZATION_VOTE`, `BLOCKS`, `AFP` records | `GetFinalizationProof`, `GetLeaderFinalizationProof` | one AFP per place; AFPs chain; a seal never cuts off a confirmed block; a signature only for what is stored |
| Leader and epoch rotation (`threads/leader_rotation.go`, `threads/epoch_rotation.go`) | the approvement thread's metadata (AT), `EPOCH_FINISH` | rotate the leader, raise `EPOCH_FINISH`, start the next epoch | voting is over before sealing starts; the same next epoch on every node |
| Block generation and grabbing of proofs (`threads/block_generation.go`, `threads/share_block_and_grab_proofs.go`) | `GENERATION_THREAD_METADATA`, `PROOFS_GRABBER`, the leader's blocks and AFPs | generate a block, ask the quorum, store the AFP | a restarted leader never asks for what the quorum cannot sign; every block gets its AFP |
| Collection of ALFPs (`threads/leader_finalization.go`) | `LeaderFinalizationCache`, stored ALFP, `ALFP_PROGRESS` | rounds of requests, UPGRADE, store, deliver | what is stored verifies; every leader is sealed in the end |
| Websocket rounds (`utils/websocket_interaction.go`) | connections, one lock per connection | `SendAndWaitValidated` | an answer is used for the round it fits; a round ends |
| Sequence alignment (`threads/sequence_alignment.go`, `threads/anchor_rotation_monitor.go`) | `SequenceAlignmentData` in FT | walk over the anchors' blocks, learn boundaries | only final blocks are read; records are stable; the walk gets to the end |
| ALFP watcher (`threads/alfp_inclusion_watcher.go`) | place per epoch and `ALFP_INCLUDED` markers in the database | scan the anchors' blocks | no marker without an ALFP; none lost by a crash; the scan ends |
| Last mile (`threads/last_mile_finalizer.go`, `utils/last_mile_sequence.go`) | trackers, height maps, AHP, AERP, boundaries | place blocks, collect AHPs and AERPs, catch up | heights have no gaps and agree between nodes; trackers survive crashes |
| Epoch announcement and acknowledgement (`utils/epoch_announcement.go`, `websocket_pack/routes.go`, `threads/last_mile_finalizer.go`) | announcements, AERPs, the anchors' acknowledgements, cursor of the finalizer | announce, collect the rotation proof, have it acknowledged, ask for the acknowledgement | the quorum does not wait for itself; no executor runs ahead of the hand-over |
| Execution (`threads/block_execution.go`) | chain cursor, accounts, queue of delayed transactions, `BLOCK_INDEX`, statistics | execute a block, set up the next epoch | every block is executed once, in order, over crashes; coins move, and only a sum that wraps makes or loses any |
| Delayed transactions (`system_contracts/delayed_transactions.go`) | stakes in two states | create and update a validator, stake, unstake, vote, at the end of an epoch | both states are what the transactions make of the genesis; no stake is lost |
| Recovery transition (`utils/recovery_transition.go`, `entrypoint.go`, `scripts/recovery/main.go`) | recovery plan, offsets of the cursor, queue of delayed transactions | register a plan, switch from the halted network to the next one, refund stakes | applied exactly once; heights and epochs go on; a node can always be started again |
| Selection (`utils/epoch_related.go`, `utils/fenwick_tree.go`) | a tree of stakes during a selection | weighted choice of quorum and leaders | equal to the linear definition |
| PoD outbox (`utils/pod_outbox.go`, `threads/pod_outbox.go`) | `POD_OUTBOX` entries | send, queue, try again | nothing leaves the node's charge before the PoD has it |
| Caches of validators (`utils/cache_management.go`) | LRU lists, touched sets | read, touch, evict, write with the batch | what a thread reads is what it wrote, whatever was evicted |
| Start of the node (`entrypoint.go`) | the genesis in two databases | write the genesis, load the threads' metadata | a crash anywhere leaves a node that starts from what it wrote |
| HTTP API, databases, cryptography, tests | | | read-only, I/O or declarations |

### 1.2 Interactions

A leader's grabber calls `GetFinalizationProof` on every validator of the quorum
over websockets. When the leader's turn is over on a validator (shared AT,
guarded by a read-write lock), every quorum member collects the ALFP with
`GetLeaderFinalizationProof`, stores it, and delivers it to the anchors. The
watcher reads the anchors' chains only to know when delivery may stop; it tells
the collector through markers in the database. Sequence alignment and the
rotation monitor read the anchors' chains for FT, under the lock of FT, and the
last-mile sequencer consumes what they recorded. When it has placed the last
block of an epoch, the finalizers of the next one collect the AERP, post it to
the anchors, and turn their answers into the acknowledgement without which no
member signs a height of the next epoch. Proofs get to other nodes over a *point
of distribution* (PoD), to which every node has an outbox. Execution follows the
sequencer through the height maps in the database; at the end of an epoch the
approvement thread and, later, the execution thread each execute the delayed
transactions on a database of their own and draw the next quorum and leaders. When a network has come to a
halt, the operators give every node a plan and the genesis of the next network;
execution gets to the plan's height and applies the transition.

### 1.3 What is hard

- handlers on one validator run concurrently with each other and with the
  rotation threads, and protect different stretches by different locks;
- a handler makes several database writes before it signs, and may crash
  between any two;
- requests are repeated, arrive in a later round than they were sent in, or never;
- each quorum member collects its own ALFP at its own time;
- three threads update the same alignment data from copies they took before a
  network request;
- progress is persisted separately from what it is progress of;
- answers of an earlier round, and the late end of a request, change what the
  next round works with;
- the same transactions are executed by two threads, on two databases, behind two
  caches, at different times;
- a recovery is spread over a registration, any number of starts and stops, and
  a transition that is part of a block's batch or of a startup.

`PROJECT.json` lists these hazards line by line, with the properties that cover
them.

## 2. Modules

| Module | What it is |
|---|---|
| `CoreQuorum` | the quorum, honest and faulty validators, `GetQuorumMajority` |
| `FinalizationVoting` | the two voting handlers write by write, and the rotation threads, on every validator |
| `FinalizedChain` | abstract: finalized chains that only grow, and seals that respect them |
| `LeaderVotes` | abstract: the votes and seals for one superseded leader |
| `LeaderPipeline` | a leader (generation and grabber threads) composed with the quorum of `FinalizationVoting` |
| `AlfpCollector` | the collection rounds, on top of `LeaderVotes` |
| `AnchorChains` | the anchors' chains as seen by readers |
| `AnchorAlignment` | sequence alignment, rotation monitor and epoch switch, on `AnchorChains` |
| `AlfpWatcher` | the watcher, on `AnchorChains` |
| `LastMile` | the sequencer, the AHP collector and the voters of heights on every node |
| `EpochHandover` | AERP, acknowledgement and first heights of the next epoch, on every node and on the anchors |
| `PodDelivery` | abstract: a message stays in the node's charge until the PoD has it |
| `PodOutbox` | sends to the PoD, the outbox and the thread that flushes it |
| `QuorumWaiter` | a waiter's rounds, connections, requests and validations |
| `ProofDelivery` | a caller of the waiter, from the request to the outbox, on `QuorumWaiter` and `PodOutbox` |
| `ValidatorStore` | pure: the validators' storages behind a cache and a touched set |
| `SystemContracts` | pure: the delayed transactions, on `ValidatorStore` |
| `WeightedSelection` | pure: the Fenwick tree and its descent, with the linear definition |
| `EpochRotation` | genesis, rotations of both threads and crashes of one node, on `SystemContracts` and `WeightedSelection` |
| `AccountState` | pure: what a block and a refund do to the accounts and the queue |
| `Execution` | one node that executes several networks, with crashes and recoveries |
| `MC...` | bounds and symmetry for TLC |
| `..._proofs` | theorems and their proofs |

```
 CoreQuorum <--- FinalizationVoting --(implements)--> FinalizedChain
     ^                 ^      \
     |                 |       +-------(implements)--> LeaderVotes
     |           LeaderPipeline                            ^
     +-----------------------------------------------------+--- AlfpCollector

 AnchorChains <--- AnchorAlignment
              <--- AlfpWatcher

 CoreQuorum <--- LastMile          AccountState <--- Execution

 CoreQuorum <--- EpochHandover ---(uses)---> PodDelivery
     ^                                            ^
     |                                       (implements)
 QuorumWaiter <--- ProofDelivery ---(uses)---> PodOutbox

 ValidatorStore <--- SystemContracts <--- EpochRotation ---> WeightedSelection
```

### 2.1 FinalizationVoting

One epoch, the whole quorum. A call of `GetFinalizationProof` is a record in
`inflight` that moves through its phases, one per database write:
`RecordVote` (all checks, then the `FINALIZATION_VOTE` record, which is written
*before* the AFP of the previous block is verified), `StoreBlock`,
`StorePreviousAfp`, `StoreVotingStat`, `SignFinalizationProof`.
`RejectPreviousAfp` and `Crash` end a call early and leave what was written.
`BLOCK_CREATOR_REQUEST_MUTEX` is `Handling(v) = {}` in the guard of
`RecordVote`; the handler holds the read lock of AT throughout, so the two
actions that take the write lock (`RotateLeader`, `RotateEpoch`) have the same
guard, while `RaiseEpochFinish` and `SignLeaderFinalizationProof`, which do not
exclude the handler in the code, have none.

Signatures go into the growing sets `fps` and `lfps`. A certificate exists when
the signatures in it do, plus any signatures of faulty validators
(`IsMajority`), so loss, delay, duplication and reordering of answers need no
actions. What depends on the clock (the end of a leader's turn, of an epoch) may
happen at any time. Faulty validators sign anything; there are fewer than a
third of them, which is what a majority of two thirds plus one is for.

Abstracted: the content of a block (its hash stands for it), signatures
(unforgeable), and the AFP inside an ALFP.

### 2.2 LeaderPipeline

Extends `FinalizationVoting` by one leader that runs the code. `GenerateBlock`
writes block and thread in one batch; `StoreAfp` and `StoreProgress` are two
writes in the order of the code, which stores the grabber *before* it moves on.
`LeaderRestart` loses `grabber`, `hunt` and the round, and reloads
`generation`. The initial state holds what an earlier epoch leaves in both
threads (`LeftoverGrabber`, `LeftoverGeneration`).

### 2.3 AlfpCollector

Rounds of `SendAndWaitValidated` as `tryCollectLeaderFinalizationProofs` uses
them. `requests` are on the wire, at most one per connection; they outlive the
round they belong to, as the code's connection lock makes a repeated send wait
for the late answer. `FinishRound` handles the answers of a round all at once
and in any order (the code ranges over a map). `StoreAfpFromPoD` (the point of
distribution), `Confirm` and `Restart` may come at any time.

### 2.4 AnchorChains, AnchorAlignment, AlfpWatcher

The anchors are another program: their chains are chosen in `Init` and fixed;
what is assumed of them is what this code says of AARPs, that a boundary cuts
off no block with a finalized successor. `AnchorAlignment` models each thread
as *copy under the lock* (`AlignerCopies`, `MonitorCopies`), then *apply under the lock*
(`Flip`, `AcceptBlock`, `LearnBoundary`) or give up; every interleaving of the
two, with `RotateFinalizerEpoch` and restarts in between, is a behaviour.
The search for rotation proofs (`findEarliestAnchorRotationProof`) is modelled by
where it ends (`ProofCanBeFound`): the chain of the next anchor.
`AlfpWatcher` steps through fetch, acceptance, one marker after the other,
and the place; `MoveProgress` and `Restart` may come between any two.

### 2.5 LastMile

What the quorum has finalized and the anchors have recorded is one of
`Networks`, chosen in `Init`: the last block of every leader and the highest
block with an AFP, which is at most one after it.

- *The sequencer* (`LastMileFinalizerThread`): `SkipLeader`, `PlaceBlock`,
  `CompleteEpoch` and `FastForward`, one for each batch the loop writes. `seq` is
  the tracker in memory and `seqDb` the one in the database. They differ because
  the collector writes the second, and because a fast-forward that stops short of
  the current epoch has written its epochs and leaves memory alone.
- *The collector* (`LastMileAHPCollectorThread`): a round begins with
  `CopySequencer`. It then commits heights with an AHP (`CommitHeight`), jumps to
  the start of the sequencer's epoch (`SyncToBoundary`), or catches up with a
  proof that others made. Catching up is two batches, `CatchUpSequencer` and
  `CatchUpCollector`, and the sequencer may take any step before, between and
  after them. `EndRound` is every way a round ends without a write.
- *The voters* (`GetHeightProof`, `GetEpochRotationProof`) sign what is in their
  maps when they are asked.
- `Restart` sets both trackers in memory to what the database holds.

Abstracted: a block is told by epoch, leader and index, and a boundary by its
height (their hashes go with them); the window of eight heights, as any proof
may be missing at any time anyway (`ProofDelivery` has the window); the wait for
the data of an epoch or of a block, which is a stutter; the acknowledgement of
the anchors as a guard of the voters (`EpochHandover`). `isLastBlock` of `PlaceBlock` is open for
the last block of a leader, because the code may know that the turn is over or
find out in the next iteration. The quorum is the same in every epoch, and all
nodes have the same ALFP on record, which is what `AnchorAlignment` is about.

### 2.6 AccountState, Execution

What a node executes is given: a chain, for every network (*era*) its blocks up
to the last one with an AHP, the plan that ends it, and the accounts and the
queue after each block. Nodes share nothing while they execute, so one is enough.
`ledger` in a chain is the specification of execution (a replay by
`ApplyTransactions`, in `ChainOk`); the module is the machinery around it.

- *A block* is `BuildExecutionBatch` (`executeBlock` under the lock: memory is
  changed, the batch is built, and at the plan's height the transition goes into
  the same batch) and `WriteBatch`. `batch` is what the batch will make of the
  database. `accounts` is what the thread sees: its caches over the database.
- `SetupNextEpoch` moves the cursor, and writes at once.
- `NextBlockIsConfirmed` is the wait for the AHP of the next height, which the
  last block of a halted network does not have (`AtRecoveryBoundary`).
- `Stop` loses memory anywhere, also between the two steps of a block.
  `RegisterRecovery` is the operator: stop, new genesis, plan, at any time from
  which the script accepts it. `Start` is `prepareBlockchain`, with the checks
  that refuse a foreign database (`CanStart`) and the transition where it is due
  already.
- The refund reads the keys *of the database* and deletes them from what the
  batch will leave (`SettleDelayedTransactions`), as the code does.

Amounts are uint64, as in the code: `Plus` wraps at `Modulus`, so the sum of fee and
amount that is compared with the balance (`TotalSpend`) may be less than either of
them. A stake may lack a staker (`NoStaker`), and then a recovery refunds it to
nobody.

Abstracted: counters of accounts other than balance and nonce; receipts; the accounts and validators of the next genesis (the wiki has
none, `wiki/recovery_description.md:212`); fetching and verifying blocks and
proofs. The delayed transactions that the execution thread takes from a rotation
proof are in `EpochRotation`. A plan names
the highest block for which the operators found a height proof, so at most one
more may be proved; and no earlier epoch than that block's (`PlanOk`).

### 2.7 EpochHandover

Epochs on every node, on the anchors and at the PoD. A member's part is
`RotateEpoch` (the approvement thread), `CompleteEpoch` (the sequencer: by its last
block, or by a fast-forward over a proof it has), `FetchRotationProof` (a proof that
others have made, for the executor or the sequencer), and the signatures
`RotationSigners` and `HeightSigners`, which are computed from what a node has when
it is asked. A finalizer's part is `CollectRotationProof` (which ends with
`DeliverToAnchors`), `PublishRotationProof`, `StoreRotationProof`, `StoreAck`,
`PublishAck` and `EndHandover`, in this order, and its cursor
`lastRotationEpoch` (`AdvanceCursor`). A member that lacks an acknowledgement when
it is asked for a height starts one fetch (`MissesAck`), from the PoD or from one
endpoint of the network (`PullAckFromPoD`, `PullAckFromMember`). `EnterEpoch` is
the execution thread. The PoD and the outboxes are an `INSTANCE` of `PodDelivery`.
`Restart` loses what is in memory, and `mishap` records that a delivery met with
too few anchors or that a node was restarted.

Abstracted: the same quorum in every epoch; the data that is signed is the epoch;
faulty members and anchors sign anything, and what they send to others is of no
account without a majority.

### 2.8 QuorumWaiter, ProofDelivery, PodOutbox, PodDelivery

`QuorumWaiter` is one round after the other of `SendAndWaitValidated`: `StartRound`
sends to every peer with a connection, `Receive` and `FinishCheck` are the answer
and the goroutine that validates it, `FailRound` and `CompleteRound` end the round,
`Reconnect` dials the failed peers. A request is a goroutine that goes on after
its round, and takes its steps by itself: `Answer`, or `Break` and later
`DropConnection`. `ProofDelivery` is the caller: a window of heights with one
waiter, the commits (`StoreProof`, `QueueProof`, `AdvanceTracker`, three writes);
or the single round of an announcement; or the finalizer with the proof of a
rotation, which it tries to make until it has it, over new connections each time
(`EndAttempt`), and sends (`SendProof`) before it stores it (`StoreProof`).

`PodOutbox` splits a send from what the thread does with its outcome, because two
threads may have the same message on its way. A finalizer that stops between
sending and storing makes the proof again and sends it again, while the flusher may
be sending the first one, which it has found in the outbox: `sends` then has two
entries for one message, and either may be acknowledged, and either may be dealt
with first. The flusher goes over the entries as they were when it began
(`BeginFlush`, `flushing`), also over one that has been acknowledged since.
`PodDelivery` is what the outbox promises, and `ProofDelivery` is shown to implement
that.

Abstracted: one worker with one waiter stands for the three of the collector, as
workers share nothing before the commit; the sends of a round are one step;
repeated requests on a connection are one request (the connection's lock
serializes them); the announcement's posts to the anchors.

### 2.9 EpochRotation, SystemContracts, ValidatorStore, WeightedSelection

`ValidatorStore` keeps the objects of a thread in `mem`, and the cache, its LRU
list and the touched set as sets and lists of keys, so that an object in both maps
is one object, as it is in the code. Objects that the genesis has put into both
threads' caches are `shared`, and `Mirror` is what one thread's write does to the
other's object. `SystemContracts` has each contract with its early returns, in a
context (`resolveContext`) of either thread. `EpochRotation` is one node:
`WriteGenesisOfApprovement`, `WriteGenesisOfState`, `WriteHandler` (three writes,
`StopNode` between any two), `RotateEpoch` of the approvement thread and
`SetupNextEpochFromRotationProof` of the execution thread, which run under their
locks and end in one batch each, and `StartFetch`, `EndFetch`, a reader that looks into the
database between two holds of the lock. The batch of delayed transactions, its
agreement and the block that has it are inputs; `world` has the queue, the size of
the caches, the pseudorandom numbers and `STUB_FOR_FIRST_BLOCK_SEARCH`.
`WeightedSelection` has the descent bit by bit, beside the scan it must agree with,
and the draws, which take a stake out of the tree and out of the total each by
itself (`DrawNext`). Powers of two and lowest bits are recursive functions there.

Abstracted: stakes and their totals are natural numbers, where the code has uint64
and does not check sums (those of accounts are in `AccountState`, wrapping included);
what does not parse is refused before anything happens; the pseudorandom number is
any number.

## 3. What TLC checks

| Run | Configuration | Question | States, time |
|---|---|---|---|
| `chain` | 2 validators, 2 leaders, 2 blocks, 2 hashes | two AFPs for a place, gaps, signatures without data; do the handlers implement `FinalizedChain` and `LeaderVotes`? | 29,772 states, 91 s |
| `pipeline` | 2 validators, 2 blocks, 2 hashes, 1 failure | does a crashing leader ever lock itself out; does every block get its AFP? | 170,940 states, 65 s |
| `alfp` | 3 honest + 1 faulty, 1 collector, 1 block, 1 failure | does what is stored verify? | 169,323 states, 19 s |
| `alfp_rounds` | 3 validators, 1 collector, 3 blocks, 1 failure | are seals close, and do rounds end in one? | 76,788 states, 22 s |
| `alignment` | 2 epochs, 2 anchors, 2 blocks each, 2 ALFPs | finality and stability of the records, end of the walk | 288,626 states, 112 s |
| `watcher` | 2 epochs, 2 anchors, 2 ALFPs in one block | markers, crashes, and the end of the scan | 70,781 states, 58 s |
| `lastmile` | 1 voter, 1 follower, 2 leaders, 2 epochs, 2 networks | heights in leader order, real boundaries, no way back, in every order of the two threads | 520,919 states, 97 s |
| `lastmile_restart` | the same, 1 network | the comment on the sequencer, restarts included (violated, see 3.3) | about 270,000 states up to the violation, 46 s |
| `execution` | 2 networks of 3 blocks, 288 chains, amounts of 4 bits, 2 stops | is the database always the replay of its cursor; do heights and coins come out right over a recovery; does the node get to the end? | 12,834 states, 18 s |
| `rotation` | 3 validators, 1 staker, 3 epochs, 1 stop, 7 worlds: caches of 1 and of 3, three scripts | are both threads' states what the batches make of the genesis; do registry, statistics, selections and snapshots fit them? | 68,378 states, 77 s |
| `handover` | 2 members, 1 anchor, epoch 1 to epoch 2, 2 finalizers | does anyone run ahead of the hand-over, or wait for ever in it? | 297,658 states, 158 s |
| `waiter` | 3 honest peers and one that is faulty or away, 2 heights, 1 trouble | are proofs what their voters signed, does a proof that is not made again get to the PoD, does the outbox implement `PodDelivery`? | 266,639 states, 90 s |

### 3.1 Bounds

- Four validators with one faulty are the smallest quorum in which faulty
  signatures matter and majorities (3 of 4) may differ in their members. `alfp`
  and `waiter` have them. `chain` has two that must agree and conflicting
  proposals instead; that no quorum with a faulty minority finalizes two blocks
  for a place, or cuts off a confirmed block, is proved (`AfpUniqueness`,
  `AlfpKeepsConfirmed`).
- Two blocks per leader have everything the rules tell apart: a first block,
  which has no previous AFP, one with a predecessor, a confirmed one. The seals
  then range over -1, 0 and 1. `alfp_rounds` has three, so that proposals may be
  two apart.
- `OneCallAtATime`: calls on different validators write disjoint databases and
  meet only in the growing set of signatures.
- `OneSealOfSupersededLeader` (`chain`): the seals signed are all for one
  block of the leader before the last; the module says why others only add up.
- `RoundsThatMatter`: no collection before someone can answer.
- `OneBlock`, `OneEpoch`: the ALFPs of a run are in one block, or one epoch;
  they are constants of a behaviour, so the bound only chooses initial states.
- `FollowerOnly`: the voter of `lastmile` is alone in the quorum, so its collector
  has nobody to learn from. It can still sign before, between and after any two
  steps of the follower, which is the node that is raced and restarted.
- `MCNetworks` has a leader without blocks in the middle and at the end of an
  epoch, an epoch without any, and a block that is final by its AFP and yet
  left out by the seal. `LongEpoch` is the shortest chain on which a tracker
  that is out of step meets another leader's block.
- `MCChains`: the last block of the old network shares its epoch with others, or
  begins one, right after the first epoch or after one without blocks; the plan
  ends the network at its last proved block or at the one before, in the block's
  epoch or in one without blocks after it. Transactions compete for a nonce, fail
  and come to work later, are repeated within and across networks, with and
  without a nonce check, and stakes wait in two epochs' lists. Every case of the
  transition is in two networks; a third one repeats the second.
  Fee and amount of some come to 16, where numbers wrap: of a transfer, and of a
  stake that waits for the recovery. Of 168 chains with quiet boundaries 84 have
  such a sum, and 48 a stake without a staker that the recovery deletes.
- `MaxStops` (`Execution`): two, so that a stop may follow a registration and precede the end
  of the batch with the transition; a registration stops the node as well and is
  not counted.
- `MaxFailures` bounds crashes, lost requests and early timeouts. One is enough
  for each kind to hit every state; the fair properties hold after the last.
- `MCWorlds`: scripts of delayed transactions in which a validator joins with
  exactly the required stake and another one leaves, in which votes change what
  the rest of the batch needs, and in which a validator is created twice with a
  stake between; each with caches that hold everybody and caches that hold one.
  Every early return of every contract is taken. Three epochs let a batch meet
  what an earlier one left, on both threads, at different times.
- `handover` begins with epoch 1 handed over, so that a restarted finalizer finds
  epochs behind it that it has not made, and epoch 2 has two finalizers that may
  make the same proof. Two members are the smallest quorum whose majority is not
  one node; a sequencer that takes the proof of an epoch from others, because a
  majority did without it, needs four, and is covered by the theorems.
- `OneKindOfTrouble` (`waiter`): where the faulty peer answers, there is no other
  trouble, and no second height. `SendsBetweenRounds`: a send to the PoD, which shares
  nothing with a round, ends while no round runs. `AnswersAreTaken`: the timer
  does not tick while an answer is waiting in `responseCh`. `MaxConnections` is
  never reached.
- `MaxTrouble`: one failure, refusal, late answer or restart; the liveness
  property holds after the last.
- Symmetry is used only in runs without liveness, over validators and hashes
  that no definition singles out.

`CHECK_DEADLOCK FALSE` is set where an epoch, or the collection for a leader,
simply ends, or where the last epoch of the bound is reached.

### 3.2 Fairness

- `LeaderPipeline`: the leader's two threads are endless loops, the handlers run
  to their end, and a request of a round is received; nothing is assumed of
  rotations, crashes or late requests.
- `AlfpCollector`: `LeaderFinalizationThread` is an endless loop that calls the
  collection for every leader without an ALFP, rounds repeat requests, and a
  voter that has left the leader answers. `LeaderGetsSealed` is claimed for
  quorums without faulty voters only: a faulty one may answer UPGRADE to a lower
  block in every round and so reset the proofs each time.
- `AnchorAlignment`, `AlfpWatcher`: the loops (weak fairness), every request
  ends, and a block or boundary that the anchors serve is obtained in the end
  although single requests may fail again and again (strong fairness on
  the steps that apply it). `ReachesTheEnd` is claimed for chains whose AARPs can
  be found, see 3.3.
- `EpochHandover`: the loops of every thread are endless, and a member asks for an
  acknowledgement each time it is asked for a height. Nothing is assumed of
  restarts. `EveryEpochIsEntered` holds until a mishap, because the code does not
  try a delivery again, see 3.3.
- `ProofDelivery`: goroutines run, rounds end by their timer, and a message that
  the outbox sends again and again is acknowledged in the end (strong fairness).
  Claimed without faulty peers that answer: the waiter counts peers, the caller
  counts distinct voters with valid signatures, so a faulty peer that answers
  with another's signature can make every round succeed for the one and fail for
  the other.
- `Execution`: the thread is an endless loop, a node that has been stopped is
  started again, and operators register a plan that is accepted for good (weak
  fairness). That blocks and proofs arrive is part of the chain. `EndIsReached`
  has a precondition, `PlansCanBeRegistered`, see 3.3.

### 3.3 Where code and documentation differ, and what limits the properties

The violated run is `lastmile_restart`. `catchUpLastMileWithinEpoch` takes any copy
of the sequencer's tracker that is not ahead of the proof
(`last_mile_finalizer.go:803`), and moves it one height up but to the place after
the proved block. If the copy was more than one behind, the tracker it writes
pairs a height with a block of another. Memory is right and soon writes over it,
but a restart in between loads it (`:136`), and the sequencer then gives heights
to the wrong blocks. This is a flaw of the code: the comment on the thread
(`:120-122`) promises the blocks in leader order. Without a restart the promise
holds (`HeightMapInLeaderOrder`, proved).

The following were met while modelling. Each is a precondition of a property, or a
place where a property had to be weaker than what a comment says.

- *The last leader of an epoch.* `routes.go:244-245` and `:413-415` say that a
  validator signs a leader finalization proof only after `VotingStat` is frozen.
  For the last leader, a call of `GetFinalizationProof` that has passed its second
  `EPOCH_FINISH` check (`:249`) may store `VotingStat` after the seal was signed.
  For every other leader the statement holds (`LfpFreezesVotingStat`, proved as
  `LfpFreeze`); what it is for, that a seal cuts off no confirmed block, holds for
  them with it (`AlfpKeepsConfirmedBlocks`).
- *Refunds of the boundary block.* `SettleAndDeleteDelayedTransactions` looks for
  pending stakes in the database (`utils/recovery_transition.go:144`) while those
  of the block that triggers the transition are still in the batch
  (`threads/block_execution.go:785`, `:978`). They are not refunded, and their list
  stays in the queue of the next network, or is deleted with it, against
  `scripts/recovery/README.md:56-60`. `QuietBoundaries` is the precondition of
  `CommittedStateIsReplay` and `CoinsAreConserved`: no network ends with a block
  that queues.
- *Sums of amounts.* `tx.Fee + tx.Amount` (`threads/block_execution.go:866`) and
  `amount+tx.Fee` (`:942`) are uint64 and not checked. A sum that wraps passes the
  comparison with a balance that is below it, and the transaction then makes coins.
  `CoinsAreConserved` therefore has two parts: whatever the transactions are, coins
  are conserved modulo 2^64; and they are conserved exactly while no transaction's
  own sum wraps (`SpendsFit`): the other additions, to balances, fees and refunds,
  then stay in range by themselves.
- *Stakes without a staker.* A stake whose payload names no staker is taken from its
  sender and queued like any other. A recovery deletes its entry and skips the
  refund (`utils/recovery_transition.go:174-177`): these coins are counted apart
  (`NotRefunded`).
- *Registration.* A plan can be registered only in the epoch it names
  (`scripts/recovery/main.go:138-144`). The execution thread begins an epoch with
  its first block whose successor is proved. Where the newest epoch of a halted
  network has no such block, every node is told to wait for a synchronization
  that cannot come: `PlansCanBeRegistered`.
- *The jump of the rotation monitor.* It moves the observed pointer to a boundary
  when it learns it (`anchor_rotation_monitor.go:118`), past blocks the walk has
  not read, so an included ALFP may not be recorded on a node. `AnchorAlignment`
  has this jump; its properties are about what is recorded. `LastMile` takes the
  record as given.
- *The search for rotation proofs.* It walks back from the last anchor of the
  registry, and takes the index of the block where it found a proof in a later
  chain as the number of blocks to search in the one before it
  (`anchor_rotation_monitor.go:300`). In the end the proof has to be in the chain of
  the next anchor. Where that anchor was replaced before its first block, no node
  finds the proof, and the walk waits there for good: `ProofCanBeFound`. The epoch
  that the proof names is not compared with the one that is searched for.
- *Chains the watcher does not read.* It reads the blocks of an anchor that is not
  the last of the registry only once that anchor has been replaced, and stops at
  one that was replaced before its first block: `Reachable` of
  `ReachableAlfpsAreMarked`. The collector delivers again until the marker is
  there, so what is lost is time.
- *A hand-over that fails.* A finalizer delivers the AERP to the anchors once, and
  stores it whatever they answer (`last_mile_finalizer.go:190-206`). After too few
  answers, or a crash between storing the AERP and storing the acknowledgement, the
  proof is there, so that nobody asks the anchors again, and without an
  acknowledgement no member signs a height of the next epoch (`routes.go:626`). This
  is `mishap` of `EpochHandover`. A member that asks others for the acknowledgement
  stops at the first endpoint that answers (`routes.go:608`): an error reply decodes
  to an empty proof. `wiki/workflow_description.md:203-216` has the next epoch begin
  its sequencing after the acknowledgement; in the code it is the signatures that
  wait for it.
- *The outbox.* `wiki/databases.md:108` speaks of reliable delivery. A payload that
  is being sent for the first time is not in the database yet (`SendToPoDWithOutbox`,
  `pod_outbox.go:43`), so a crash loses it; the collector therefore queues height
  proofs before it moves its tracker, and the finalizer sends a rotation proof
  before it stores it, and makes it again until then (`FinishedProofsAreSent`). An
  announcement has one round of five seconds and is not repeated.
- *The waiter.* An answer that fails its validation late deletes the peer's
  `answered` mark in whichever round runs by then, and an error closes and removes
  whichever connection the peer has by then (`websocket_interaction.go:655`, `:675`).
  Neither blocks a peer for good (`ProofsGetDelivered`).
- *Objects of the genesis.* `setGenesisToState` puts the same object into the
  caches of both threads (`entrypoint.go:492-495`). In the process that wrote the
  genesis, each thread's batch changes what the other one computes with: a stake
  that the approvement thread has executed is there twice after the execution
  thread has. A restart ends this. It needs a batch that is executed before the
  first restart: `StoresAreApart`.
- *A validator created twice in a batch.* `CreateValidator` asks the cache and the
  database (`delayed_transactions.go:107`), not the touched set; if the first
  creation has been evicted since, the second one replaces it with its stakes:
  `NoRepeatedCreate`, `CacheHoldsAll`.
- *Snapshots after a vote.* Both threads write the snapshot of an epoch with the
  parameters from before the batch that begins it. The approvement thread counts
  the start of the epoch with the new duration, and writes the snapshot again, with
  the new parameters, when the epoch ends; the execution thread does neither:
  `SnapshotsAgree` is claimed without votes on parameters.
- *A crash within the genesis.* It is written in two batches and a handler
  (`entrypoint.go:608`). A node with the first part only does not come up, and its
  data has to be removed.

## 4. What is proved

Every theorem holds for every quorum with less than a third of faulty validators,
and any number of leaders, blocks, anchors, epochs and networks:
`QuorumAssumption` (`CoreQuorum`), `BoundsAssumption`, `LeaderAssumption`,
`MaxIndexAssumption`, `CollectorAssumption`, `AnchorsAssumption`,
`LastMileAssumption`, `AccountAssumption`, `ExecutionAssumption`, `HandoverAssumption`,
`WaiterAssumption`, `DeliveryAssumption`, `StoreAssumption`, `DetailsAssumption`,
`RotationAssumption`.

- `CoreQuorum_proofs`: two majorities share an honest validator
  (`MajoritiesIntersect`), by counting; majorities only grow with signatures.
- `FinalizationVoting_proofs`: the invariant `IndInv` adds to `TypeOK` that
  there is one call per validator (`Mutex`); what a running call has already
  checked still holds (`Calls`); a validator's signatures, its
  `FINALIZATION_VOTE` records and the signed predecessors agree (`OneVote`,
  `Signed`); a seal is at or above the signer's `VotingStat`, which is at most
  one behind anything it voted for (`Sealed`). None of the safety properties is
  inductive by itself: `AfpIsUnique` needs that the honest validator in the
  intersection has one record per place, and the signed predecessor is itself
  the subject of an AFP. From it: `AfpUniqueness`, `AfpChain`, `LfpFreeze`,
  `AlfpKeepsConfirmed`; with `StoredInv`, `SignedIsStored`; and
  `Implementation`, the refinement of `FinalizedChain`, step by step.
  `VotesImplemented` is the refinement of `LeaderVotes`, for every leader but the
  last one at once: what `AlfpCollector` takes for granted of the quorum. It needs
  that nothing moves VotingStat between its write and the signature (`Standing`),
  which is the mutex.
- `AlfpCollector_proofs`: `VotesInv` (votes follow `stat`, and stand still after
  the validator has left the leader) gives `CloseSealsOfVotes`. `CollectorInv`
  adds that every proof a collector holds is a signature of its current
  proposal (`Sound`), although answers of several rounds are handled in any
  order: `StoredAlfpsAreValid`, `SealsOfCollectorsAreClose`.
- `FinalizationVoting_proofs` goes on with `LeaderPipeline`. `LeaderUsesQuorum`: a
  leader that runs the code is one behaviour of the quorum, so `IndInv` holds with
  it. `LeaderInv` adds that the blocks generated are one chain (`OwnChain`), on which
  the generation thread continues in memory and in the database (`Generations`);
  that an AFP the leader has stored is one of its chain, with the one before
  (`OwnRecords`); that the grabber is right after a stored AFP, and its record at
  most one block behind it (`Grabbers`), so that after a restart it asks for a block
  it had asked for before; that whatever was ever sent is a block of the chain with
  the AFP of its predecessor (`SentProposals`, `Hunting`); and that votes, records
  and calls of honest validators for the leader's places come from what was sent
  (`SeenByQuorum`). `HuntedBlockIsAcceptable` needs all of it: what a validator
  refuses depends on what the leader sent before it crashed. From it
  `LeaderTypeCorrect`, `NeverLockedOut`, `SignedLinks`, `GrabberHasAfps`.
- `AnchorChains_proofs`, on alignment: `IndInv` relates the two threads' copies to the
  data: a copy of the current place is never ahead of the pointer, and a known
  boundary is the anchor's. From it `WithinBoundary`, `FinalRecords`,
  `StableRecords`. On the watcher: `WatcherInv` adds to its type and its two properties
  that an anchor that is never replaced has no boundary, that the thread's place is
  the one in the database and it looks only at blocks of an anchor whose last block
  it can tell (`PlaceIsSaved`), and that the block whose ALFPs it marks is final
  (`AcceptedIsFinal`). From it `WatcherTypeCorrect`, `RealMarkers`,
  `PlaceBehindMarkers`.
- `LastMile_proofs`: `NodeInv` says, of a node that is undisturbed (neither it
  nor a voter has been restarted), that the sequencer's tracker in memory stands
  at the place its height belongs to (`Aligned`), that the collector's height is
  not above the end of its epoch, and that everything in its height map, its
  boundaries and its copies of them is canonical. `SignedInv` carries this over
  the network: a majority has an honest member, which signed what was in its map.
  The database's copy of the sequencer's tracker is in no part of the invariant,
  and that is the point of finding 2: nothing but a restart depends on it. From
  it `HeightsInLeaderOrder`, `RealBoundaries`, `MonotoneHeights`.
- `LastMile_proofs` goes on with `ProofDelivery`. `DeliveryInv` says that an answer,
  wherever it is (in `responseCh`, under validation, or counted), has a signature
  that its signer has made, and that what is validated as good, or counted, is for
  the topic of the round under way (`RepliesAreSound`); where the caller is between
  the three writes of a commit, and that the finalizer's proof is at the PoD, in the
  outbox or on its way when it is about to be stored (`StepsFollow`); and that an
  acknowledged send is at the PoD. No send takes away what is on its way in another
  one (`NothingIsLost`). From it `ProofsSigned` and `CommittedSent`. `Implementation`
  is the refinement of `PodDelivery`, with the messages under way counted as the
  node's charge: that an answer takes a message away only when no other thread has
  it in hand, and then only if it is acknowledged, is `FinishReleases`.
- `Execution_proofs`: from `ExecutionAssumption`, that the chain is one (`ChainOk`).
  The invariant `IndInv` says that the database, and what the batch under way
  would make of it, belong to their cursors (`Good`: offsets, height, index,
  ledger), that memory belongs to the newer of the two (`MemoryOf`), and that a
  plan is registered exactly while the cursor is in the network before that of
  the genesis (`Fits`). Two lemmas carry it, `Block` and `Transition`; the second
  serves a transition in a block's batch and one at a startup. Neither looks at
  what transactions do. `CommittedStateIsReplay` alone is not inductive: a block
  that follows the transition needs the offsets, and the transition needs that
  its plan is the cursor's own. From it `TypeCorrect`, `Replay`, `LinearHistory`,
  `RestartAllowed`.
  The second part is about what transactions do. `SumFunction` and `FoldLeft` are
  defined by a `CHOOSE` of a recursive function, of which nothing is known before
  it is shown to exist: `Recursion` shows that, for any function on the subsets of
  a finite set, and `SubsetInduction` what such functions have in common. (Both
  stay first-order: the step of a recursion is a function, and what is shown by
  induction is membership in a set.) From them how a sum changes with one of its
  members (`SumChanges`, `SumExtends`), what lists and queues hold (`AmountsOfConcat`,
  `QueuedWaits`), and what a transaction, a block and a refund make of the coins
  (`TransactionKeepsCoins`, `BlockKeepsCoins`, `RefundKeepsCoins`): `Kept` says that
  an amount has changed by a multiple of the modulus, and, while no transaction's own
  sum wraps, that it has not grown (a credit that wraps only loses). Coins that are
  fewer than the modulus can lose no multiple of it, so the exact half needs no
  bound on each balance on the way. `LedgerKeepsCoins` is an induction over blocks
  and networks, with the stakes that each recovery deletes (`LostBefore`), and with
  `Replay`'s invariant it gives `CoinsKept`. It needs `AccountAssumption`, that the
  accounts are finitely many.
- `EpochRotation_proofs`, on the lemmas about sums of `Execution_proofs`: any
  validators and stakers, any genesis with a valid registry, any batches of delayed
  transactions, any agreements, caches of any size, any number of epochs and stops
  (`StoreAssumption`, `RotationAssumption`). A batch is a fold of contracts over a
  store in which objects are read into the cache, evicted from it and marked as
  touched, and the argument is that none of this is seen. `Transparent` says of a
  delayed transaction that it does to the `View` of a store (what a reader gets)
  what it does to a mapping without a cache; it needs room in the cache, or that no
  validator is created twice (`Fresh`), and nothing else. `BatchRun` lays it out
  along a batch, so that what transactions keep, batches keep: two contexts that
  show the same are made the same (`AlikeBatch`), storages add up to the delta
  (`BatchStakes`), the registry has the validators with the required stake
  (`BatchRegistry`). Between two batches an object in memory is what the database
  has (`Settled`): of the approvement thread also while a reader holds what it has
  read without the lock (`Faithful`, with `FetchesFit`: what was read is still in
  the database, or the cache has a newer object by then, which the second look
  finds). On top of that and of the order of writes from the genesis on (`Course`),
  each property has an invariant of its own. The two replays are functions of the
  database of the approvement thread (`ReplayOf`), so that a rotation must be shown
  to change none of the batches that are there (`Approving`, `Executing`); that the
  quorum of an epoch is in its snapshot, and the same on both threads, is
  `SnapshotsTell`, which the execution of a vote rests on. From it `SnapshotsFit`,
  `StakesAccounted`, `RegistryFits`, `ExecutionReplays`, `ApprovementReplays`.
  `RegistryFits` has a hypothesis of its own, that the required stake of the genesis
  is above zero: with zero, a validator that was created and has no stake has the
  required one and is not in the registry, which is what the code does.

  The second part is about the selection of quorums and leaders, and unlike the
  first it makes no condition: caches may be of any size, and the threads may have
  changed objects of each other. A node of a Fenwick tree has the stakes from
  `NodeStart` to itself, and its `Parent` is the next one that has its last stake,
  too; that two such nodes are nested or apart, and which ones a step of the
  descent passes, is arithmetic on the lowest bit (`LowBit`), by induction over its
  halving. From it: the tree has the sums of the stakes when it is built, for every
  length of the list (`Sums`, `NewStakeFenwickTree` adds each node to its parent
  once its own sum is complete), and after each removal (`UpdatePath` is all nodes
  that have the place, and no other). The descent keeps that the sum up to `pos` is
  at most the number drawn and that the sum up to the next power of two after it is
  above (`Descending`); with the last power it has the place to which the number
  falls (`Finds`), which is the one the scan finds, over a tree from which any
  stakes have been removed (`FindsAsScanned`). A draw therefore never finds a place
  without a stake, so `Drawing` holds: the places drawn are different, the tree has the
  stakes of the others, and the total is their sum. It ends when as many are drawn as
  there should be, or when nobody is left who has a stake (`DrawnFacts`,
  `AllDrawn`).

  What a selection is made from is in one invariant, `Stores`: that the storages
  that a thread has, in the database, in memory and on the way past the lock, have
  amounts that add up, whoever has changed them; that the LRU list has whatever is
  in the cache (`Stocked`; half-way through a put it does not, and `TouchEvicts` is
  about that state); and that the handlers of both threads and the epochs between
  them have a registry, a quorum and leaders with nobody twice (`Chosen`). It is
  inductive with `Course` and needs nothing of the replays: joins and leaves keep a
  registry without repetitions whatever the storages say (`ListedAfter`). From it
  `SelectionFits`, `NobodyTwice`, `CacheIsListed`, `RotationTypeCorrect`, and with
  `ApprovementReplays`, which says that the storages seen are still those of the
  draw, `NobodyLeftOut`; and `SelectionSound`, which is what the run checks.
  `CachedAreListed`, which `CacheIsListed` proves, is in no run.
- `EpochHandover_proofs`: of any quorum, any anchors and any restarts. `HandoverInv`
  adds to the types and the cursor that a proof is `Founded` wherever it is found
  (stored, in a node's charge, at the PoD, or pushed to members): an AERP in a
  majority of members that have placed the epoch, an acknowledgement in a majority
  of anchors, a height proof in a majority of members that have the acknowledgement;
  that the steps of a hand-over under way are (`HandoverIsFounded`); and that an
  executor has kept the proofs it has gone on with. `ExecutionFollowsHandover`
  alone says nothing of the proofs in between, which every step of an executor
  rests on. From it `CursorCorrect`, `HeightsCorrect`, `ExecutionCorrect`.

Every module states its type invariant, and all of them are proved. Only
model-checked: everything with fairness.

## 5. What is not modelled

- *Announcements at the anchors.* The posts of `utils/epoch_announcement.go` to the
  anchors change nothing on a node and are not repeated.
- *The contents of blocks*: mempool, transactions other than those `AccountState`
  tells apart, receipts, explorer statistics. They are data of execution, and no
  thread waits for them.
- *Fetching*: which endpoint is asked for a block or a proof, and in which order. A
  proof or a block is there or is not there yet, in every module.
- *The blocks read by the search for rotation proofs*, one by one; what the search
  comes to is `ProofCanBeFound`. An error in the search's own indexes, with three or
  more anchors, would not show in `ReachesTheEnd` or `ReachableAlfpsAreMarked`.
- *A composition of `LastMile` with `Execution`*: the height maps of one node as the
  chain of the other. `Execution` takes a chain and a last proved height, which is
  what `HeightMapInLeaderOrder` gives it.
- *A changing quorum in `LastMile` and `EpochHandover`*: what the next quorum is, is
  in `EpochRotation`; the argument from majorities is made for each epoch by itself.
- *HTTP routes* (read-only), databases, cryptography, configuration, the tests and
  the scripts other than the one that registers a recovery.
