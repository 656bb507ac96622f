--------------------------- MODULE EpochRotation ---------------------------
(***************************************************************************)
(* The epochs of one node: how its genesis is written, how the approvement *)
(* thread moves from an epoch to the next one, and how the execution       *)
(* thread follows with the rotation proof.  Both execute the delayed       *)
(* transactions of the first block of the epoch that ends, each on its own *)
(* database behind its own cache.                                          *)
(*                                                                         *)
(* A rotation runs under the lock of its thread and ends with one batch:   *)
(* it is one action, and a crash before the batch is a crash before it.    *)
(***************************************************************************)
EXTENDS SystemContracts, WeightedSelection

CONSTANTS
    Genesis,  \* validators (a list of [pubkey, storage]), params, version, start
    Worlds,   \* [stub, cap, queue, draw]: see WorldOk
    MaxEpoch, \* bound: the last epoch
    MaxRestarts  \* bound: how often the node stops

Epoch == 0 .. MaxEpoch

GenesisDb ==
    [v \in {Genesis.validators[i].pubkey : i \in DOMAIN Genesis.validators} |->
        (CHOOSE g \in Range(Genesis.validators) : g.pubkey = v).storage]

TotalStaked(db) == SumFunction([v \in DOMAIN db |-> db[v].total])

AddsUp(x) == x.total = SumFunction(x.stakers)

HasRequiredStake(x, params) == x.total >= params["VALIDATOR_REQUIRED_STAKE"]

\* stub is STUB_FOR_FIRST_BLOCK_SEARCH, cap VALIDATORS_CACHE_MAX, queue the
\* delayed transactions that the blocks have queued for each epoch, and draw
\* the pseudorandom numbers that come from the hash of each epoch.
WorldOk(w) ==
    /\ w.stub \in BOOLEAN
    /\ w.cap \in Nat \ {0}
    /\ w.queue \in [Epoch -> Seq(DelayedTransaction)]
    /\ \A e \in Epoch : \A i \in 1 .. Cardinality(Validator) : w.draw[e][i] \in Nat

ASSUME RotationAssumption ==
    /\ MaxEpoch \in Nat /\ MaxRestarts \in Nat
    /\ Genesis.params \in NetworkParameters
    /\ Genesis.version \in Nat /\ Genesis.start \in Nat
    /\ Genesis.validators \in Seq(Range(Genesis.validators))
    /\ \A g \in Range(Genesis.validators) :
          /\ g.pubkey \in Validator
          /\ Storage(g.storage) /\ AddsUp(g.storage)
          /\ HasRequiredStake(g.storage, Genesis.params)
    /\ IsInjective([i \in DOMAIN Genesis.validators |->
                        Genesis.validators[i].pubkey])
    /\ \A w \in Worlds : WorldOk(w)

VARIABLES
    world,     \* one of the Worlds, fixed
    phase,     \* of the node: see Phase
    at,        \* the approvement thread's handler
    atWritten, \* the handler is in the database
    atStore,   \* the validators of the approvement thread
    atDb,      \* EPOCH_HANDLER, EPOCH_DATA and the latest batch index
    finished,  \* the epochs with EPOCH_FINISH
    firstBlock, \* the batches in the first blocks of the epochs
    fetch,     \* a storage that is being read without the lock, if any
    et,        \* the chain cursor, with the accounts' refunds
    etWritten, \* the cursor is in the database
    etStore,   \* the validators in STATE
    etSnapshots, \* EPOCH_DATA in STATE
    software,  \* CORE_MAJOR_VERSION of the program
    mixed,     \* history: one thread has changed an object of the other's
    restarts   \* how often the node has stopped

rotationVars ==
    <<world, phase, at, atWritten, atStore, atDb, finished, firstBlock, fetch,
      et, etWritten, etStore, etSnapshots, software, mixed, restarts>>

atVars == <<at, atWritten, atStore, atDb, finished, firstBlock, fetch>>

etVars == <<et, etWritten, etStore, etSnapshots>>

\* "approvement" and "state": the bootstrap has written these batches; "old":
\* the program is older than what has been voted for, and shuts down.
Phase == {"down", "approvement", "state", "up", "old"}

EpochData(d) ==
    /\ d.epoch \in Epoch
    /\ \A q \in {d.registry, d.quorum, d.leaders} :
          q \in Seq(Validator) /\ IsInjective(q)
    /\ d.start \in Nat

RotationTypeOK ==
    /\ world \in Worlds
    /\ phase \in Phase
    /\ atWritten \in BOOLEAN /\ etWritten \in BOOLEAN
    /\ StoreTypeOK(atStore) /\ StoreTypeOK(etStore)
    /\ atWritten => EpochData(at) /\ at.params \in NetworkParameters
    /\ etWritten => /\ EpochData(et) /\ et.params \in NetworkParameters
                    /\ et.stakingDelta \in Int /\ et.balances \in [Staker -> Nat]
    /\ atDb.latestBatchIndex \in Epoch
    /\ finished \in SUBSET Epoch
    /\ DOMAIN firstBlock \subseteq Epoch
    /\ Cardinality(fetch) <= 1
    /\ software \in Nat
    /\ mixed \in BOOLEAN
    /\ restarts \in 0 .. MaxRestarts

NothingYet == [epoch |-> 0, leaders |-> <<>>]

RotationInit ==
    /\ world \in Worlds
    /\ phase = "down"
    /\ at = NothingYet /\ atWritten = FALSE
    /\ atStore = OpenStore([v \in {} |-> 0], world.cap)
    /\ atDb = [snapshots |-> <<>>, epochData |-> <<>>, latestBatchIndex |-> 0]
    /\ finished = {}
    /\ firstBlock = <<>>
    /\ fetch = {}
    /\ et = NothingYet /\ etWritten = FALSE
    /\ etStore = OpenStore([v \in {} |-> 0], world.cap)
    /\ etSnapshots = <<>>
    /\ software = Genesis.version
    /\ mixed = FALSE
    /\ restarts = 0

-----------------------------------------------------------------------------
(* Quorums and leaders *)

AppendKnown(storages, q, v) == IF v \in DOMAIN storages THEN Append(q, v) ELSE q

\* The validators of the registry that have a storage.
Known(storages, registry) ==
    FoldLeft(LAMBDA q, v : AppendKnown(storages, q, v), <<>>, registry)

Stakes(storages, q) == [i \in 1 .. Len(q) |-> storages[q[i]].total]

GetCurrentEpochQuorum(storages, registry, quorumSize, draw) ==
    LET known == Known(storages, registry)
    IN  IF Len(registry) <= quorumSize THEN registry
        ELSE DrawByStake(known, Stakes(storages, known), quorumSize, draw)

GetLeadersSequence(storages, registry, draw) ==
    LET known == Known(storages, registry)
    IN  DrawByStake(known, Stakes(storages, known), Len(known), draw)

\* The store after both have read it.
AfterSelection(s, registry, quorumSize) ==
    IF Len(registry) <= quorumSize THEN ReadAll(s, registry)
    ELSE ReadAll(ReadAll(s, registry), registry)

-----------------------------------------------------------------------------
(* The start of the node *)

\* The caches are filled before the batches are written, and both threads get
\* the same objects.
PutGenesisValidator(s, g) == Collect(PutCache(s, g.pubkey, g.storage))

GenesisStore(db) ==
    LET s == FoldLeft(PutGenesisValidator, OpenStore(db, world.cap),
                      Genesis.validators)
    IN  [s EXCEPT !.shared = s.cached]

GenesisRegistry ==
    [i \in DOMAIN Genesis.validators |-> Genesis.validators[i].pubkey]

\* GetValidatorFromApprovementThreadState, and the same for a list.
ReadWithoutLock(s, v) ==
    IF v \in DOMAIN s.db THEN FillCache(s, v, s.db[v]) ELSE s

ReadAllWithoutLock(s, q) == FoldLeft(ReadWithoutLock, s, q)

\* Both handlers are made from the store of the approvement thread.
GenesisHandler(s) ==
    [epoch    |-> 0,
     registry |-> GenesisRegistry,
     quorum   |-> GetCurrentEpochQuorum(View(s), GenesisRegistry,
                      Genesis.params["QUORUM_SIZE"], world.draw[0]),
     leaders  |-> GetLeadersSequence(View(s), GenesisRegistry, world.draw[0]),
     start    |-> Genesis.start,
     params   |-> Genesis.params,
     version  |-> Genesis.version]

Cursor(h, delta, balances) ==
    [epoch |-> h.epoch, registry |-> h.registry, quorum |-> h.quorum,
     leaders |-> h.leaders, start |-> h.start, params |-> h.params,
     version |-> h.version, stakingDelta |-> delta, balances |-> balances]

Snapshot(h, params) ==
    [registry |-> h.registry, quorum |-> h.quorum, leaders |-> h.leaders,
     start |-> h.start, params |-> params]

With(f, key, value) ==
    [k \in DOMAIN f \cup {key} |-> IF k = key THEN value ELSE f[k]]

\* The memory that setGenesisToState leaves, with the store s and the handler h.
GenesisInMemory(s, h) ==
    /\ at' = h
    /\ atStore' = [ReadAllWithoutLock(s, GenesisRegistry \o GenesisRegistry)
                       EXCEPT !.db = GenesisDb]
    /\ atDb' = [atDb EXCEPT !.snapshots = With(@, 0, Snapshot(h, h.params))]
    /\ et' = Cursor(h, TotalStaked(GenesisDb), [a \in Staker |-> 0])
    /\ etStore' = GenesisStore(etStore.db)

GenesisWith(s) == GenesisInMemory(s, GenesisHandler(s))

\* setGenesisToState up to its first batch.
WriteGenesisOfApprovement ==
    /\ phase = "down" /\ ~etWritten
    /\ phase' = "approvement"
    /\ GenesisWith(GenesisStore(atStore.db))
    /\ UNCHANGED <<world, atWritten, finished, firstBlock, fetch,
                   etWritten, etSnapshots, software, mixed, restarts>>

\* Its second batch.
WriteGenesisOfState ==
    /\ phase = "approvement"
    /\ phase' = "state"
    /\ etWritten' = TRUE
    /\ etStore' = [etStore EXCEPT !.db = GenesisDb]
    /\ etSnapshots' = With(etSnapshots, 0, Snapshot(et, et.params))
    /\ UNCHANGED <<world, atVars, et, software, mixed, restarts>>

\* prepareBlockchain writes the handler after that.
WriteHandler ==
    /\ phase = "state"
    /\ phase' = "up"
    /\ atWritten' = TRUE
    /\ UNCHANGED <<world, at, atStore, atDb, finished, firstBlock, fetch,
                   etVars, software, mixed, restarts>>

\* Caches and what was not written are lost.
LoseCaches ==
    /\ phase' = "down"
    /\ at' = IF atWritten THEN at ELSE NothingYet
    /\ et' = IF etWritten THEN et ELSE NothingYet
    /\ atStore' = OpenStore(atStore.db, world.cap)
    /\ etStore' = OpenStore(etStore.db, world.cap)
    /\ fetch' = {}

StopNode ==
    /\ phase \notin {"down", "old"}
    /\ restarts < MaxRestarts
    /\ restarts' = restarts + 1
    /\ LoseCaches
    /\ UNCHANGED <<world, atWritten, atDb, finished, firstBlock,
                   etWritten, etSnapshots, software, mixed>>

\* A statistic that is 0 is counted anew.
Backfilled(c, db) ==
    IF c.stakingDelta = 0 THEN [c EXCEPT !.stakingDelta = TotalStaked(db)] ELSE c

\* A node without the handler of its approvement thread has no leaders, and
\* its threads panic: it is not "up".  A node that is too old is refused until
\* the operator has upgraded it.
StartNode ==
    /\ phase = "down" /\ etWritten /\ atWritten
    /\ software' \in {software, at.version}
    /\ software' >= at.version
    /\ phase' = "up"
    /\ et' = Backfilled(et, etStore.db)
    /\ UNCHANGED <<world, atVars, etWritten, etStore, etSnapshots, mixed, restarts>>

-----------------------------------------------------------------------------
(* The approvement thread *)

\* The epoch's time is over.
FinishEpoch ==
    /\ phase = "up"
    /\ at.epoch \notin finished /\ at.epoch < MaxEpoch
    /\ finished' = finished \cup {at.epoch}
    /\ UNCHANGED <<world, phase, at, atWritten, atStore, atDb, firstBlock, fetch,
                   etVars, software, mixed, restarts>>

NoBatch == [txs |-> <<>>, signatures |-> 0]

\* getBatchOfApprovedDelayedTxsByQuorum: signatures of a majority are counted
\* but not verified, and those of members whose STATE has another list queued
\* (it may be incomplete there) are over something else.  The signatures that
\* the batch has are those over its own list: the leader's, at least.
BatchesOf(e) ==
    {NoBatch} \cup {[txs |-> world.queue[e], signatures |-> n] :
                       n \in 1 .. Len(at.quorum)}

\* FirstBlockInEpochMonitorThread, for the epoch of the approvement thread:
\* FIRST_BLOCK_DATA, with the batch of delayed transactions in the block.
FindFirstBlock ==
    /\ phase = "up" /\ ~world.stub
    /\ at.epoch \notin DOMAIN firstBlock /\ at.epoch < MaxEpoch
    /\ \E b \in BatchesOf(at.epoch) : firstBlock' = With(firstBlock, at.epoch, b)
    /\ UNCHANGED <<world, phase, at, atWritten, atStore, atDb, finished, fetch,
                   etVars, software, mixed, restarts>>

\* With the stub the first block is an empty one.
FirstBlock(e) == IF world.stub THEN NoBatch ELSE firstBlock[e]

IsNewBatch(index, e) == e > index

IsApproved(b, quorum) ==
    b.signatures >= QuorumMajority(quorum)

\* The delayed transactions that the end of an epoch executes.
TransactionsToExecute(h, index) ==
    LET b == FirstBlock(h.epoch)
    IN  IF IsApproved(b, ToSet(h.quorum)) /\ IsNewBatch(index, h.epoch)
        THEN b.txs ELSE <<>>

ApprovementContext(h, store) ==
    [thread |-> "approvement", store |-> store, params |-> h.params,
     version |-> h.version, registry |-> h.registry, epoch |-> h.epoch,
     quorum |-> ToSet(h.quorum), stakingDelta |-> 0,
     balances |-> [a \in Staker |-> 0]]

\* The handler of the epoch after h, when the batch has made x of the context.
NextHandler(h, x) ==
    LET e == h.epoch + 1
    IN  [epoch    |-> e,
         registry |-> x.registry,
         quorum   |-> GetCurrentEpochQuorum(View(x.store), x.registry,
                          x.params["QUORUM_SIZE"], world.draw[e]),
         leaders  |-> GetLeadersSequence(View(x.store), x.registry,
                                         world.draw[e]),
         start    |-> h.start + x.params["EPOCH_DURATION"],
         params   |-> x.params,
         version  |-> x.version]

\* Mutation: the snapshot is taken before the leaders are set.
SnapshotBeforeLeaders(h, n) == Snapshot([n EXCEPT !.leaders = <<>>], h.params)

\* The snapshot of the next epoch n has the parameters from before the batch.
NextSnapshot(h, n) == Snapshot(n, h.params)

NextEpochDataHandler(n, txs) ==
    [registry |-> n.registry, quorum |-> n.quorum, leaders |-> n.leaders,
     start |-> n.start, delayed |-> txs]

\* The program is compared with the version when an epoch has begun.
PhaseAt(version) == IF version > software THEN "old" ELSE "up"

\* The end of EpochRotationThread's batch, after txs have made the context x:
\* the handler becomes n.
BeginEpoch(txs, x, n) ==
    LET e == at.epoch
    IN  /\ at' = n
        /\ atStore' = ResetTouched(AfterSelection(x.store, x.registry,
                                                 x.params["QUORUM_SIZE"]))
        /\ etStore' = Mirror(etStore, x.store)
        /\ mixed' = (mixed \/ etStore' # etStore)
        /\ atDb' = [snapshots |-> With(With(atDb.snapshots, e,
                                            Snapshot(at, at.params)),
                                       e + 1, NextSnapshot(at, n)),
                    epochData |-> With(atDb.epochData, e + 1,
                                       NextEpochDataHandler(n, txs)),
                    latestBatchIndex |->
                        IF IsApproved(FirstBlock(e), ToSet(at.quorum))
                           /\ IsNewBatch(atDb.latestBatchIndex, e)
                        THEN e ELSE atDb.latestBatchIndex]
        /\ phase' = PhaseAt(n.version)

RotateWith(txs, x) == BeginEpoch(txs, x, NextHandler(at, x))

\* EpochRotationThread, from the first block to the end of the batch.
RotateEpoch ==
    LET txs == OrderByPriority(TransactionsToExecute(at, atDb.latestBatchIndex))
    IN  /\ phase = "up" /\ at.epoch \in finished
        /\ world.stub \/ at.epoch \in DOMAIN firstBlock
        /\ RotateWith(txs, ExecuteBatch(ApprovementContext(at, atStore), txs))
        /\ UNCHANGED <<world, atWritten, finished, firstBlock, fetch,
                       et, etWritten, etSnapshots, software, restarts>>

\* GracefulShutdown
ShutDownWhenOld ==
    /\ phase = "old"
    /\ LoseCaches
    /\ UNCHANGED <<world, atWritten, atDb, finished, firstBlock,
                   etWritten, etSnapshots, software, mixed, restarts>>

\* A thread reads a validator, without the lock after a miss of the cache.
StartFetch ==
    /\ phase = "up" /\ fetch = {}
    /\ \E v \in DOMAIN atStore.db :
          /\ ~InMemory(atStore, v)
          /\ fetch' = {[validator |-> v, storage |-> atStore.db[v]]}
    /\ UNCHANGED <<world, phase, at, atWritten, atStore, atDb, finished,
                   firstBlock, etVars, software, mixed, restarts>>

EndFetch ==
    /\ phase = "up"
    /\ \E f \in fetch :
          atStore' = FillCache(atStore, f.validator, f.storage)
    /\ fetch' = {}
    /\ UNCHANGED <<world, phase, at, atWritten, atDb, finished, firstBlock,
                   etVars, software, mixed, restarts>>

-----------------------------------------------------------------------------
(* The execution thread *)

ExecutionContext(c, store) ==
    [thread |-> "execution", store |-> store, params |-> c.params,
     version |-> c.version, registry |-> c.registry, epoch |-> c.epoch,
     quorum |-> ToSet(c.quorum), stakingDelta |-> c.stakingDelta,
     balances |-> c.balances]

\* The cursor in the epoch after c.
NextCursor(c, d, x) ==
    [epoch |-> c.epoch + 1, registry |-> d.registry, quorum |-> d.quorum,
     leaders |-> d.leaders, start |-> c.start + c.params["EPOCH_DURATION"],
     params |-> x.params, version |-> x.version,
     stakingDelta |-> x.stakingDelta, balances |-> x.balances]

\* The state batch of setupNextEpochFromRotationProof, after the transactions
\* have made the context x: the cursor becomes c.
EnterEpoch(x, c) ==
    /\ et' = c
    /\ etStore' = x.store
    /\ atStore' = Mirror(atStore, x.store)
    /\ mixed' = (mixed \/ atStore' # atStore)
    /\ etSnapshots' = With(etSnapshots, c.epoch, Snapshot(c, et.params))
    /\ phase' = PhaseAt(c.version)

EnterEpochWith(d, x) == EnterEpoch(x, NextCursor(et, d, x))

\* setupNextEpochFromRotationProof: the proof has what a majority of the quorum
\* has as EPOCH_DATA, here what this node has.
SetupNextEpochFromRotationProof ==
    LET d == atDb.epochData[et.epoch + 1]
    IN  /\ phase = "up"
        /\ et.epoch + 1 \in DOMAIN atDb.epochData
        /\ EnterEpochWith(d, ExecuteBatch(ExecutionContext(et, etStore),
                                         d.delayed))
        /\ UNCHANGED <<world, at, atWritten, atDb, finished, firstBlock, fetch,
                       etWritten, software, restarts>>

RotationNext ==
    \/ WriteGenesisOfApprovement
    \/ WriteGenesisOfState
    \/ WriteHandler
    \/ StopNode
    \/ StartNode
    \/ FinishEpoch
    \/ FindFirstBlock
    \/ RotateEpoch
    \/ ShutDownWhenOld
    \/ StartFetch
    \/ EndFetch
    \/ SetupNextEpochFromRotationProof

RotationSpec == RotationInit /\ [][RotationNext]_rotationVars

-----------------------------------------------------------------------------
(* Properties *)

\* The cache has room for every validator.
CacheHoldsAll == world.cap >= Cardinality(Validator)

\* No thread has changed a validator that the other one had in its cache as the
\* same object.  The caches that the genesis has filled have the same objects.
StoresAreApart == ~mixed

\* The batch of the rotation to epoch e, as the database of the approvement
\* thread has it.
Executed(e) == atDb.epochData[e].delayed

\* No batch creates the same validator twice.
NoRepeatedCreate ==
    \A e \in DOMAIN atDb.epochData :
        \A i, j \in DOMAIN Executed(e) :
            (/\ i # j
             /\ Executed(e)[i].type = "createValidator"
             /\ Executed(e)[j].type = "createValidator")
                => Executed(e)[i].creator # Executed(e)[j].creator

\* The context of the execution thread after the genesis.
GenesisContext(quorum) ==
    [thread |-> "execution", store |-> OpenStore(GenesisDb, Cardinality(Validator)),
     params |-> Genesis.params, version |-> Genesis.version,
     registry |-> GenesisRegistry, epoch |-> 0, quorum |-> ToSet(quorum),
     stakingDelta |-> TotalStaked(GenesisDb), balances |-> [a \in Staker |-> 0]]

\* The context x after the batch of epoch data d, at the start of epoch e.
ReplayedInto(e, x, d) ==
    [ExecuteBatch(x, d.delayed) EXCEPT
        !.epoch = e,
        !.store = OpenStore(@.db, @.cap),
        !.quorum = ToSet(d.quorum)]

\* What the batches in db make of the genesis, with no cache in the way: the
\* context of the execution thread at the start of each epoch.
ReplayOf(db) ==
    LET after[e \in Epoch] ==
            IF e = 0 THEN GenesisContext(db.snapshots[0].quorum)
            ELSE ReplayedInto(e, after[e - 1], db.epochData[e])
    IN  after

\* The two threads see what is in the context r.
ApprovementShows(r) ==
    /\ View(atStore) = r.store.db
    /\ at.params = r.params /\ at.version = r.version
    /\ at.registry = r.registry
    /\ at.leaders = GetLeadersSequence(r.store.db, r.registry,
                                       world.draw[at.epoch])
    /\ ToSet(at.quorum) = r.quorum

ExecutionShows(r) ==
    /\ View(etStore) = r.store.db
    /\ etStore.db = r.store.db
    /\ et.params = r.params /\ et.version = r.version
    /\ et.balances = r.balances

\* What the approvement thread sees after any number of rotations, with caches
\* that are filled, read past and lost, is what the batches make of the
\* genesis; its quorum and leaders are drawn from that.
ApprovementIsReplay ==
    (phase \in {"up", "old"} /\ CacheHoldsAll /\ StoresAreApart) =>
        ApprovementShows(ReplayOf(atDb)[at.epoch])

\* The same for the execution thread, and with a cache of any size as long as
\* no batch creates a validator twice.
ExecutionIsReplay ==
    (phase = "up" /\ StoresAreApart /\ (CacheHoldsAll \/ NoRepeatedCreate)) =>
        ExecutionShows(ReplayOf(atDb)[et.epoch])

\* No batch that has been executed has a vote on one of the fields F.
NoVoteOn(F) ==
    \A e \in DOMAIN atDb.epochData : \A i \in DOMAIN Executed(e) :
        LET tx == Executed(e)[i]
        IN  tx.type = "votingAccept" /\ tx.votingType = "parameters" =>
                tx.updateField \notin F

\* The registry has the validators with the required stake, each once,
\* whatever was staked and unstaked in whichever order.
RegistryFollowsStakes ==
    (/\ phase = "up" /\ CacheHoldsAll /\ StoresAreApart
     /\ NoVoteOn({"VALIDATOR_REQUIRED_STAKE"})) =>
        /\ IsInjective(at.registry)
        /\ ToSet(at.registry) =
              {v \in DOMAIN View(atStore) :
                  HasRequiredStake(View(atStore)[v], at.params)}

\* The statistic of staked coins is the sum of the storages in STATE, and each
\* of these the sum of its stakers, so that the count at a start changes nothing.
StakedCoinsAreAccounted ==
    (etWritten /\ StoresAreApart /\ (CacheHoldsAll \/ NoRepeatedCreate)) =>
        /\ et.stakingDelta = TotalStaked(etStore.db)
        /\ \A v \in DOMAIN etStore.db : AddsUp(etStore.db[v])

\* However far a selection has come, and whichever number is drawn next, the
\* tree finds the validator that a scan of the remaining stakes finds.
SelectionFindsByStake ==
    phase = "up" =>
        LET known == Known(View(atStore), at.registry)
        IN  \A removed \in SUBSET (0 .. Len(known) - 1) :
                FindsWhatScanFinds(Stakes(View(atStore), known), removed)

DrawnOnce(h) ==
    \A q \in {h.quorum, h.leaders} :
        IsInjective(q) /\ ToSet(q) \subseteq ToSet(h.registry)

\* Draws are without replacement: nobody is twice in a quorum, whose majority is
\* counted by its length, or twice among the leaders, and all are registered,
\* in the epoch of either thread and whatever its cache has thrown out.
NobodyIsDrawnTwice == phase = "up" => DrawnOnce(at) /\ DrawnOnce(et)

\* Nobody is left out: a quorum is as large as the parameters say unless all who
\* have a stake are in it, and every registered validator with a stake leads.
SelectionIsComplete ==
    phase = "up" =>
        /\ Len(at.quorum) <= at.params["QUORUM_SIZE"]
        /\ \/ Len(at.quorum) = at.params["QUORUM_SIZE"]
           \/ ToSet(at.leaders) \subseteq ToSet(at.quorum)
        /\ (CacheHoldsAll /\ StoresAreApart) =>
               ToSet(at.leaders) =
                  {v \in ToSet(at.registry) \cap DOMAIN View(atStore) :
                      View(atStore)[v].total > 0}

\* What holds of the selection of quorums and leaders altogether.
SelectionIsSound == SelectionFindsByStake /\ NobodyIsDrawnTwice /\ SelectionIsComplete

\* Whatever is in a cache is in its LRU list, which the code keeps beside it: an
\* entry that is not can never be evicted, and the cache outgrows its limit.
CachedAreListed ==
    \A s \in {atStore, etStore} :
        IsInjective(s.lru) /\ s.cached \subseteq ToSet(s.lru)

\* GetEpochSnapshot gives the same for an epoch from STATE and from the
\* approvement thread's database, unless a vote has changed the parameters.
SnapshotsAgree ==
    (phase = "up" /\ NoVoteOn(Field)) =>
        \A e \in DOMAIN etSnapshots \cap DOMAIN atDb.snapshots :
            etSnapshots[e] = atDb.snapshots[e]
=============================================================================
