-------------------------- MODULE Execution_proofs --------------------------
(***************************************************************************)
(* Proofs about Execution, for any number of networks and blocks, any      *)
(* transactions, and any number of stops.                                  *)
(*                                                                         *)
(* What is in STATE, and what the batch would make of it, is the chain up  *)
(* to the cursor (Good); memory is the one that is newer; and a plan is    *)
(* registered exactly while the cursor is in the network before the one of *)
(* the genesis (Fits).  What a block and a refund do to the accounts is    *)
(* not looked into for that.                                               *)
(*                                                                         *)
(* The second part looks into it: transactions, blocks and refunds move    *)
(* coins, and the ledger of a chain has the same ones everywhere, up to    *)
(* what sums that wrap make or lose (Kept).  Sums are shown to be what     *)
(* their recursion says they are first.                                    *)
(***************************************************************************)
EXTENDS Execution, FiniteSetTheorems, WellFoundedInduction, TLAPS

USE ExecutionAssumption

LastOf(w, e) ==
    IF e = LastEra THEN w.top[e] - 1
    ELSE w.plan[e].lastAbsoluteHeight - w.start[e]

NoStakeAtTheEnd(w) ==
    \A e \in 0 .. LastEra - 1 :
        LET last == w.plan[e].lastAbsoluteHeight - w.start[e]
        IN  w.ledger[e][last].queue = w.ledger[e][last - 1].queue

\* The cursor is a place in the chain, and its epoch is at most the next
\* block's.
CursorOk(w, c) ==
    /\ c \in ChainCursor
    /\ c.lastLocal <= LastOf(w, c.era)
    /\ c.heightOffset = w.start[c.era]
    /\ c.epochOffset = w.startEpoch[c.era]
    /\ c.lastHeight = w.start[c.era] + c.lastLocal
    /\ c.lastLocal < w.top[c.era] =>
          c.epoch <= w.block[c.era][c.lastLocal + 1].epoch

IndexOk(w, c, index) ==
    /\ index \in SUBSET IndexEntry
    /\ \A h \in 0 .. c.lastHeight : \E x \in index : x.height = h
    /\ \A x \in index :
          /\ x.height = w.start[x.era] + x.local
          /\ x.height <= c.lastHeight
          /\ x.era <= c.era
          /\ x.era < c.era => x.height < w.start[x.era + 1]
          /\ x.epoch = w.startEpoch[x.era] + w.block[x.era][x.local].epoch

LedgerOk(w, s) ==
    NoStakeAtTheEnd(w) =>
        /\ s.accounts = w.ledger[s.cursor.era][s.cursor.lastLocal].accounts
        /\ s.queue = w.ledger[s.cursor.era][s.cursor.lastLocal].queue

IsState(s) ==
    /\ s = [cursor |-> s.cursor, accounts |-> s.accounts, queue |-> s.queue,
            index |-> s.index, epochStats |-> s.epochStats,
            recovery |-> s.recovery]
    /\ s.epochStats \in SUBSET EpochStats

\* The contents s of STATE are those that belong to its cursor.
Good(w, s) ==
    /\ IsState(s)
    /\ CursorOk(w, s.cursor)
    /\ IndexOk(w, s.cursor, s.index)
    /\ LedgerOk(w, s)

Fits(s, g) ==
    \/ s.cursor.era = g /\ s.recovery = {}
    \/ s.cursor.era + 1 = g /\ s.recovery = {s.cursor.era}

\* Memory belongs to the contents s.
MemoryOf(s) ==
    /\ cursor = s.cursor
    /\ accounts = s.accounts
    /\ up => plan = s.recovery

IndInv ==
    /\ chain \in Chains
    /\ genesis \in Era
    /\ up \in BOOLEAN
    /\ stops \in 0 .. MaxStops
    /\ Good(chain, state)
    /\ Fits(state, genesis)
    /\ \A s \in batch : Good(chain, s) /\ Fits(s, genesis) /\ MemoryOf(s)
    /\ batch = {} => MemoryOf(state)
    /\ ~up => batch = {} /\ plan = {}

-----------------------------------------------------------------------------

\* What the assumption says of the era of a cursor.
LEMMA EraFacts ==
    ASSUME NEW w \in Chains, NEW e \in Era
    PROVE  /\ e \in Nat
           /\ w.start[e] \in Nat
           /\ w.startEpoch[e] \in Nat
           /\ w.top[e] \in Nat \ {0}
           /\ \A h \in 0 .. w.top[e] : w.block[e][h].epoch \in Nat
           /\ \A h \in 1 .. w.top[e] :
                 w.block[e][h - 1].epoch <= w.block[e][h].epoch
<1>1. ChainOk(w)
  OBVIOUS
<1>2. BlocksOk(w)
  BY <1>1 DEF ChainOk
<1>3. \A h \in 0 .. w.top[e] :
         /\ w.block[e][h].epoch \in Nat
         /\ h > 0 => w.block[e][h - 1].epoch <= w.block[e][h].epoch
  BY <1>2 DEF BlocksOk
<1> QED
  BY <1>1, <1>2, <1>3 DEF ChainOk, BlocksOk, Era

\* What it says of an era that ends with a plan.
LEMMA PlanFacts ==
    ASSUME NEW w \in Chains, NEW e \in 0 .. LastEra - 1
    PROVE  /\ e \in Era /\ e + 1 \in Era /\ e # LastEra
           /\ w.plan[e].lastAbsoluteHeight \in Nat
           /\ w.plan[e].lastEpochIndex \in Nat
           /\ LastOf(w, e) \in 0 .. w.top[e]
           /\ w.top[e] <= LastOf(w, e) + 1
           /\ w.start[e + 1] = w.plan[e].lastAbsoluteHeight + 1
           /\ w.startEpoch[e + 1] = w.plan[e].lastEpochIndex + 1
           /\ w.ledger[e + 1][-1] =
                 [accounts |-> RefundPendingStakes(
                                  w.ledger[e][LastOf(w, e)].accounts,
                                  w.ledger[e][LastOf(w, e)].queue),
                  queue    |-> EmptyQueue]
<1>1. PlanOk(w, e)
  BY DEF ChainOk
<1>2. e \in Era /\ e + 1 \in Era /\ e # LastEra
  BY DEF Era
<1> QED
  BY <1>1, <1>2 DEF PlanOk, LastOf

\* The last executable block of an era is one of its blocks.
LEMMA LastInRange ==
    ASSUME NEW w \in Chains, NEW e \in Era
    PROVE  LastOf(w, e) \in 0 .. w.top[e]
<1>1. CASE e = LastEra
  BY <1>1, EraFacts DEF LastOf
<1>2. CASE e # LastEra
  <2>1. e \in 0 .. LastEra - 1
    BY <1>2 DEF Era
  <2> QED
    BY <2>1, PlanFacts
<1> QED
  BY <1>1, <1>2

-----------------------------------------------------------------------------
(* The recovery transition *)

\* The state after a recovery transition.
LEMMA Transition ==
    ASSUME chain \in Chains, NEW s, Good(chain, s),
           NEW p \in 0 .. LastEra - 1, s.cursor.era = p, IsDue(p, s.cursor),
           NoStakeAtTheEnd(chain) => state.queue = s.queue
    PROVE  LET t == ApplyRecoveryTransition(s, p)
           IN  Good(chain, t) /\ t.cursor.era = p + 1 /\ t.recovery = {}
<1> DEFINE c == s.cursor
           d == TransitionedCursor(c, p)
           refunded == RefundPendingStakes(s.accounts, state.queue)
           kept == [key \in DOMAIN s.queue \ DOMAIN state.queue |-> s.queue[key]]
           stats == WithEpochStats(s.epochStats, chain.plan[p].lastEpochIndex,
                                   c.epochBlocks)
           t == ApplyRecoveryTransition(s, p)
<1>1. t = [cursor |-> d, accounts |-> refunded, queue |-> kept,
           index |-> s.index, epochStats |-> stats, recovery |-> {}]
  <2> DEFINE r == [cursor |-> c, accounts |-> s.accounts, queue |-> s.queue,
                   index |-> s.index, epochStats |-> s.epochStats,
                   recovery |-> {}]
             u == [cursor |-> c, accounts |-> refunded, queue |-> kept,
                   index |-> s.index, epochStats |-> s.epochStats,
                   recovery |-> {}]
  <2>1. DeleteRecoveryPlan(s) = r
    <3>1. s = [cursor |-> c, accounts |-> s.accounts, queue |-> s.queue,
               index |-> s.index, epochStats |-> s.epochStats,
               recovery |-> s.recovery]
      BY DEF Good, IsState
    <3> QED
      BY <3>1 DEF DeleteRecoveryPlan
  <2>2. SettleDelayedTransactions(r) = u
    <3>1. SettleDelayedTransactions(r) =
             [r EXCEPT !.accounts = RefundPendingStakes(r.accounts, state.queue),
                       !.queue = [key \in DOMAIN r.queue \ DOMAIN state.queue
                                      |-> r.queue[key]]]
      BY DEF SettleDelayedTransactions
    <3>2. r.accounts = s.accounts /\ r.queue = s.queue
      OBVIOUS
    <3>3. SettleDelayedTransactions(r) =
             [r EXCEPT !.accounts = refunded, !.queue = kept]
      <4> HIDE DEF r
      <4> QED
        BY <3>1, <3>2
    <3> HIDE DEF c, refunded, kept
    <3> QED
      BY <3>3
  <2>3. t = [u EXCEPT !.cursor = TransitionedCursor(u.cursor, p),
                      !.epochStats = WithEpochStats(u.epochStats,
                          chain.plan[p].lastEpochIndex, s.cursor.epochBlocks)]
    <3> HIDE DEF r, u
    <3> QED
      BY <2>1, <2>2 DEF ApplyRecoveryTransition
  <2>4. u.cursor = c /\ u.epochStats = s.epochStats
    OBVIOUS
  <2>5. t = [u EXCEPT !.cursor = d, !.epochStats = stats]
    <3> HIDE DEF u
    <3> QED
      BY <2>3, <2>4
  <2> HIDE DEF c, d, stats, refunded, kept
  <2> QED
    BY <2>5
<1>2. /\ c \in ChainCursor /\ p \in Era /\ p + 1 \in Era /\ p \in Nat
      /\ c.lastHeight = chain.start[p] + c.lastLocal
      /\ c.lastHeight = chain.plan[p].lastAbsoluteHeight
      /\ c.lastLocal = LastOf(chain, p)
  <2>1. /\ c \in ChainCursor
        /\ c.lastHeight = chain.start[p] + c.lastLocal
        /\ c.lastHeight = chain.plan[p].lastAbsoluteHeight
    BY DEF Good, CursorOk, IsDue
  <2>2. /\ p \in Era /\ p + 1 \in Era /\ p \in Nat
        /\ p # LastEra
        /\ chain.start[p] \in Nat
    BY PlanFacts, EraFacts
  <2>3. c.lastLocal \in Int
    BY <2>1 DEF ChainCursor
  <2> QED
    BY <2>1, <2>2, <2>3 DEF LastOf
<1>3. d = [era |-> p + 1,
           heightOffset |-> chain.plan[p].lastAbsoluteHeight + 1,
           epochOffset |-> chain.plan[p].lastEpochIndex + 1,
           lastLocal |-> -1, lastHeight |-> c.lastHeight,
           epoch |-> 0, epochBlocks |-> 0]
  <2>1. c = [era |-> c.era, heightOffset |-> c.heightOffset,
             epochOffset |-> c.epochOffset, lastLocal |-> c.lastLocal,
             lastHeight |-> c.lastHeight, epoch |-> c.epoch,
             epochBlocks |-> c.epochBlocks]
    BY <1>2 DEF ChainCursor
  <2>2. d = [c EXCEPT !.era = p + 1, !.epoch = 0, !.epochBlocks = 0,
                      !.lastLocal = -1,
                      !.heightOffset = chain.plan[p].lastAbsoluteHeight + 1,
                      !.epochOffset = chain.plan[p].lastEpochIndex + 1]
    BY DEF TransitionedCursor
  <2> HIDE DEF c, d
  <2> QED
    BY <2>1, <2>2
<1>4. CursorOk(chain, d)
  <2>1. /\ chain.plan[p].lastAbsoluteHeight \in Nat
        /\ chain.plan[p].lastEpochIndex \in Nat
        /\ chain.start[p + 1] = chain.plan[p].lastAbsoluteHeight + 1
        /\ chain.startEpoch[p + 1] = chain.plan[p].lastEpochIndex + 1
    BY PlanFacts
  <2>2. d \in ChainCursor
    BY <1>2, <1>3, <2>1 DEF ChainCursor
  <2>3. LastOf(chain, p + 1) >= -1
    BY <1>2, LastInRange, EraFacts
  <2>4. chain.block[p + 1][0].epoch \in Nat
    BY <1>2, EraFacts
  <2> QED
    BY <1>2, <1>3, <2>1, <2>2, <2>3, <2>4 DEF CursorOk
<1>5. IndexOk(chain, d, s.index)
  <2>1. IndexOk(chain, c, s.index)
    BY DEF Good
  <2>2. chain.start[p + 1] = c.lastHeight + 1
    BY <1>2, PlanFacts
  <2>3. d.lastHeight = c.lastHeight /\ d.era = p + 1
    BY <1>3
  <2>4. ASSUME NEW x \in s.index
        PROVE  /\ x.era \in Nat /\ x.era <= p /\ x.height \in Nat
               /\ x.height <= c.lastHeight
               /\ x.era < p => x.height < chain.start[x.era + 1]
    BY <2>1 DEF IndexOk, IndexEntry, Era
  <2>5. ASSUME NEW x \in s.index
        PROVE  x.era <= d.era /\ x.height < chain.start[x.era + 1]
    <3>1. CASE x.era < p
      BY <1>2, <2>3, <2>4, <3>1
    <3>2. CASE x.era = p
      BY <1>2, <2>2, <2>3, <2>4, <3>2 DEF ChainCursor
    <3> QED
      BY <1>2, <2>4, <3>1, <3>2
  <2> QED
    BY <2>1, <2>3, <2>5 DEF IndexOk
<1>6. NoStakeAtTheEnd(chain) =>
         /\ refunded = chain.ledger[p + 1][-1].accounts
         /\ kept = chain.ledger[p + 1][-1].queue
  <2> SUFFICES ASSUME NoStakeAtTheEnd(chain)
               PROVE  /\ refunded = chain.ledger[p + 1][-1].accounts
                      /\ kept = chain.ledger[p + 1][-1].queue
    OBVIOUS
  <2>1. /\ s.accounts = chain.ledger[p][LastOf(chain, p)].accounts
        /\ s.queue = chain.ledger[p][LastOf(chain, p)].queue
    BY <1>2 DEF Good, LedgerOk
  <2>2. kept = EmptyQueue
    BY DEF EmptyQueue
  <2>3. chain.ledger[p + 1][-1] =
           [accounts |-> RefundPendingStakes(s.accounts, s.queue),
            queue    |-> EmptyQueue]
    BY <2>1, PlanFacts
  <2>4. state.queue = s.queue
    OBVIOUS
  <2> QED
    BY <2>2, <2>3, <2>4
<1>7. stats \in SUBSET EpochStats
  <2>1. chain.plan[p].lastEpochIndex \in Nat /\ c.epochBlocks \in Nat
    BY <1>2, PlanFacts DEF ChainCursor
  <2> QED
    BY <2>1 DEF WithEpochStats, EpochStats, Good, IsState
<1>8. Good(chain, t)
  <2>1. d.era = p + 1 /\ d.lastLocal = -1
    BY <1>3
  <2>2. IsState(t)
    BY <1>1, <1>7 DEF IsState
  <2>3. LedgerOk(chain, t)
    BY <1>1, <1>6, <2>1 DEF LedgerOk
  <2> QED
    BY <1>1, <1>4, <1>5, <2>2, <2>3 DEF Good
<1> QED
  BY <1>1, <1>3, <1>8

-----------------------------------------------------------------------------
(* A block *)

\* A cursor that is a place in the chain, field by field.
LEMMA CursorFacts ==
    ASSUME NEW w \in Chains, NEW k, CursorOk(w, k)
    PROVE  /\ k = [era |-> k.era, heightOffset |-> w.start[k.era],
                   epochOffset |-> w.startEpoch[k.era],
                   lastLocal |-> k.lastLocal, lastHeight |-> k.lastHeight,
                   epoch |-> k.epoch, epochBlocks |-> k.epochBlocks]
           /\ k.era \in Era /\ k.era \in Nat
           /\ k.lastLocal \in Int /\ k.lastLocal >= -1
           /\ k.lastHeight \in Int
           /\ k.lastHeight = w.start[k.era] + k.lastLocal
           /\ k.epoch \in Nat /\ k.epochBlocks \in Nat
<1>1. k \in ChainCursor
  BY DEF CursorOk
<1>2. /\ k = [era |-> k.era, heightOffset |-> k.heightOffset,
              epochOffset |-> k.epochOffset,
              lastLocal |-> k.lastLocal, lastHeight |-> k.lastHeight,
              epoch |-> k.epoch, epochBlocks |-> k.epochBlocks]
      /\ k.era \in Era
      /\ k.lastLocal \in Int /\ k.lastLocal >= -1
      /\ k.lastHeight \in Int
      /\ k.epoch \in Nat /\ k.epochBlocks \in Nat
  BY <1>1 DEF ChainCursor
<1>3. k.era \in Nat
  BY <1>2 DEF Era
<1> QED
  BY <1>2, <1>3 DEF CursorOk

\* A plan in memory is that of the cursor's own network.
LEMMA PlanInMemory ==
    ASSUME IndInv, up, batch = {}
    PROVE  /\ chain \in Chains
           /\ cursor = state.cursor /\ accounts = state.accounts
           /\ plan = state.recovery
           /\ cursor \in ChainCursor /\ cursor.era \in Era
           /\ \A p \in plan : /\ p = cursor.era
                              /\ p \in 0 .. LastEra - 1
                              /\ genesis = p + 1
                              /\ plan = {p}
           /\ plan = {} => genesis = cursor.era
<1>1. /\ cursor = state.cursor /\ accounts = state.accounts
      /\ plan = state.recovery
  BY DEF IndInv, MemoryOf
<1>2. cursor \in ChainCursor /\ cursor.era \in Era
  BY <1>1 DEF IndInv, Good, CursorOk, ChainCursor
<1>3. ASSUME NEW p \in plan
      PROVE  p = cursor.era /\ genesis = p + 1 /\ plan = {p}
  BY <1>1 DEF IndInv, Fits
<1>4. plan = {} => genesis = cursor.era
  BY <1>1 DEF IndInv, Fits
<1>5. ASSUME NEW p \in plan
      PROVE  p \in 0 .. LastEra - 1
  BY <1>2, <1>3 DEF IndInv, Era
<1> QED
  BY <1>1, <1>2, <1>3, <1>4, <1>5 DEF IndInv

\* The next block is one that is to be executed.
LEMMA NextBlockFacts ==
    ASSUME IndInv, NextBlockIsConfirmed
    PROVE  /\ NextHeight \in 0 .. chain.top[cursor.era]
           /\ NextHeight <= LastOf(chain, cursor.era)
           /\ cursor.epoch <= NextBlock.epoch
           /\ NextBlock.epoch \in Nat
<1> DEFINE e == cursor.era
<1>1. up /\ batch = {}
  BY DEF NextBlockIsConfirmed
<1>2. /\ chain \in Chains /\ cursor = state.cursor
      /\ cursor \in ChainCursor /\ e \in Era
      /\ \A p \in plan : p = e /\ p \in 0 .. LastEra - 1 /\ genesis = p + 1
  BY <1>1, PlanInMemory
<1>3. CursorOk(chain, cursor)
  BY <1>2 DEF IndInv, Good
<1>4. /\ cursor.lastLocal \in Nat \cup {-1}
      /\ chain.top[e] \in Nat /\ chain.start[e] \in Nat
  BY <1>2, EraFacts DEF ChainCursor
<1>5. NextHeight \in 0 .. chain.top[e]
  BY <1>4 DEF NextBlockIsConfirmed, NextHeight
<1>6. NextHeight <= LastOf(chain, e)
  <2>1. CASE AtRecoveryBoundary
    <3>1. PICK p \in plan :
             cursor.lastHeight + 1 = chain.plan[p].lastAbsoluteHeight
      BY <2>1 DEF AtRecoveryBoundary
    <3>2. p = e /\ p \in 0 .. LastEra - 1
      BY <1>2
    <3>3. cursor.lastHeight = chain.start[e] + cursor.lastLocal
      BY <1>3 DEF CursorOk
    <3>4. LastOf(chain, e) = chain.plan[e].lastAbsoluteHeight - chain.start[e]
      BY <1>2, <3>2, PlanFacts DEF LastOf
    <3> QED
      BY <1>4, <3>1, <3>2, <3>3, <3>4 DEF NextHeight
  <2>2. CASE ~AtRecoveryBoundary
    <3>1. NextHeight + 1 <= chain.top[e]
      BY <2>2 DEF NextBlockIsConfirmed
    <3>2. CASE e = LastEra
      BY <1>4, <3>1, <3>2 DEF LastOf, NextHeight
    <3>3. CASE e # LastEra
      <4>1. e \in 0 .. LastEra - 1
        BY <1>2, <3>3 DEF Era
      <4>2. LastOf(chain, e) \in Int /\ chain.top[e] <= LastOf(chain, e) + 1
        <5>1. LastOf(chain, e) \in 0 .. chain.top[e]
          BY <1>2, LastInRange
        <5>2. chain.top[e] <= LastOf(chain, e) + 1
          BY <1>2, <4>1, PlanFacts
        <5> QED
          BY <5>1, <5>2
      <4> QED
        BY <1>4, <3>1, <4>2 DEF NextHeight
    <3> QED
      BY <3>2, <3>3
  <2> QED
    BY <2>1, <2>2
<1>7. cursor.epoch <= NextBlock.epoch
  BY <1>3, <1>4, <1>5 DEF CursorOk, NextBlock, NextHeight
<1>8. NextBlock.epoch \in Nat
  BY <1>2, <1>5, EraFacts DEF NextBlock
<1> QED
  BY <1>5, <1>6, <1>7, <1>8

\* STATE after the next block is the chain up to that block.
LEMMA Block ==
    ASSUME IndInv, NextBlockIsConfirmed, NextBlock.epoch <= cursor.epoch
    PROVE  LET s == StateAfterBlock
           IN  /\ Good(chain, s)
               /\ s.cursor.era = cursor.era
               /\ s.recovery = plan
               /\ \A p \in plan : IsDue(p, s.cursor) /\ NoStakeAtTheEnd(chain)
                                     => state.queue = s.queue
<1> DEFINE e == cursor.era
           n == NextHeight
           r == ApplyTransactions(accounts, NextBlock)
           c == [cursor EXCEPT !.lastLocal = @ + 1, !.lastHeight = @ + 1,
                               !.epochBlocks = @ + 1]
           key == DelayedTransactionsKey(c.era, c.epochOffset + c.epoch)
           entry == [height |-> c.heightOffset + c.lastLocal, era |-> c.era,
                     local |-> c.lastLocal, epoch |-> c.epochOffset + c.epoch]
           index == {x \in state.index : x.height # c.heightOffset + c.lastLocal}
                       \cup {entry}
           queue == Queued(state.queue, key, r.delayed)
           s == StateAfterBlock
<1>1. /\ chain \in Chains /\ cursor = state.cursor /\ accounts = state.accounts
      /\ plan = state.recovery
      /\ cursor \in ChainCursor /\ e \in Era
      /\ \A p \in plan : p = e /\ p \in 0 .. LastEra - 1
  BY PlanInMemory DEF NextBlockIsConfirmed
<1>2. /\ Good(chain, state) /\ CursorOk(chain, cursor)
      /\ IndexOk(chain, cursor, state.index)
  BY <1>1 DEF IndInv, Good
<1>3. /\ chain.start[e] \in Nat /\ chain.startEpoch[e] \in Nat
      /\ chain.top[e] \in Nat
      /\ \A h \in 0 .. chain.top[e] : chain.block[e][h].epoch \in Nat
      /\ \A h \in 1 .. chain.top[e] :
            chain.block[e][h - 1].epoch <= chain.block[e][h].epoch
  BY <1>1, EraFacts
<1>4. /\ n \in 0 .. chain.top[e] /\ n <= LastOf(chain, e)
      /\ cursor.epoch = NextBlock.epoch
  <2>1. cursor.epoch \in Nat
    BY <1>1 DEF ChainCursor
  <2> QED
    BY <2>1, NextBlockFacts
<1>5. n = cursor.lastLocal + 1 /\ NextBlock = chain.block[e][n]
  BY DEF NextHeight, NextBlock
<1>6. c = [era |-> e, heightOffset |-> chain.start[e],
           epochOffset |-> chain.startEpoch[e], lastLocal |-> n,
           lastHeight |-> chain.start[e] + n, epoch |-> NextBlock.epoch,
           epochBlocks |-> cursor.epochBlocks + 1]
  <2> DEFINE k == [era |-> e, heightOffset |-> chain.start[e],
                   epochOffset |-> chain.startEpoch[e],
                   lastLocal |-> cursor.lastLocal,
                   lastHeight |-> cursor.lastHeight, epoch |-> cursor.epoch,
                   epochBlocks |-> cursor.epochBlocks]
  <2>1. cursor = k /\ cursor.lastHeight = chain.start[e] + cursor.lastLocal
        /\ cursor.lastLocal \in Int
    BY <1>1, <1>2, CursorFacts
  <2>2. c = [k EXCEPT !.lastLocal = cursor.lastLocal + 1,
                      !.lastHeight = cursor.lastHeight + 1,
                      !.epochBlocks = cursor.epochBlocks + 1]
    BY <2>1, Zenon
  <2>3. c = [era |-> e, heightOffset |-> chain.start[e],
             epochOffset |-> chain.startEpoch[e],
             lastLocal |-> cursor.lastLocal + 1,
             lastHeight |-> cursor.lastHeight + 1, epoch |-> cursor.epoch,
             epochBlocks |-> cursor.epochBlocks + 1]
    <3> HIDE DEF c, e
    <3> QED
      BY <2>2
  <2>4. cursor.lastHeight + 1 = chain.start[e] + n
    <3> HIDE DEF c, e, k, n
    <3> QED
      BY <1>3, <1>5, <2>1
  <2> HIDE DEF c, e, n, k
  <2> QED
    BY <1>4, <1>5, <2>3, <2>4
<1>7. s = [cursor |-> c, accounts |-> r.accounts, queue |-> queue,
           index |-> index, epochStats |-> state.epochStats,
           recovery |-> state.recovery]
  <2>1. state = [cursor |-> state.cursor, accounts |-> state.accounts,
                 queue |-> state.queue, index |-> state.index,
                 epochStats |-> state.epochStats, recovery |-> state.recovery]
    BY <1>2 DEF Good, IsState
  <2>2. s = [state EXCEPT !.cursor = c, !.accounts = r.accounts,
                          !.queue = Queued(state.queue, key, r.delayed),
                          !.index = {x \in state.index :
                                       x.height # c.heightOffset + c.lastLocal}
                                    \cup {entry}]
    <3> HIDE DEF r, c, key, entry
    <3> QED
      BY DEF StateAfterBlock, r, c, key, entry
  <2> HIDE DEF c, r, key, entry, s
  <2> QED
    BY <2>1, <2>2
<1>8. /\ c.era = e /\ c.lastLocal = n /\ c.lastHeight = chain.start[e] + n
      /\ c.heightOffset = chain.start[e] /\ c.epochOffset = chain.startEpoch[e]
      /\ c.epoch = NextBlock.epoch /\ c.epochBlocks = cursor.epochBlocks + 1
  <2> HIDE DEF c, e, n
  <2> QED
    BY <1>6
<1>9. /\ key = DelayedTransactionsKey(e,
                   chain.startEpoch[e] + chain.block[e][n].epoch)
      /\ entry = [height |-> chain.start[e] + n, era |-> e, local |-> n,
                  epoch |-> chain.startEpoch[e] + chain.block[e][n].epoch]
      /\ index = {x \in state.index : x.height # chain.start[e] + n} \cup {entry}
      /\ queue = Queued(state.queue, key, r.delayed)
      /\ r = ApplyTransactions(accounts, chain.block[e][n])
  <2> HIDE DEF c, e, n
  <2> QED
    BY <1>5, <1>8
<1>10. /\ s.cursor = c /\ s.accounts = r.accounts /\ s.queue = queue
       /\ s.index = index /\ s.epochStats = state.epochStats
       /\ s.recovery = state.recovery
  <2> HIDE DEF s, c, r, queue, index
  <2> QED
    BY <1>7
<1>11. /\ e \in Nat /\ n \in Nat /\ n - 1 = cursor.lastLocal
       /\ cursor.lastLocal \in Int
       /\ cursor.lastHeight = chain.start[e] + (n - 1)
       /\ cursor.epochBlocks \in Nat
  <2>1. /\ e \in Nat /\ cursor.lastLocal \in Int
        /\ cursor.lastHeight = chain.start[e] + cursor.lastLocal
        /\ cursor.epochBlocks \in Nat
    BY <1>1, <1>2, CursorFacts
  <2> HIDE DEF e, n
  <2> QED
    BY <1>4, <1>5, <2>1
<1> HIDE DEF e, n, c, key, entry, index, queue, r, s
<1>12. CursorOk(chain, c)
  <2>1. c \in ChainCursor
    BY <1>1, <1>3, <1>4, <1>5, <1>6, <1>11 DEF ChainCursor
  <2>2. ASSUME n < chain.top[e]
        PROVE  NextBlock.epoch <= chain.block[e][n + 1].epoch
    <3>1. n \in Nat /\ chain.top[e] \in Nat
      BY <1>3, <1>4
    <3>2. n + 1 \in 1 .. chain.top[e] /\ (n + 1) - 1 = n
      BY <2>2, <3>1
    <3>3. chain.block[e][(n + 1) - 1].epoch <= chain.block[e][n + 1].epoch
      BY <1>3, <3>2
    <3> QED
      BY <1>5, <3>2, <3>3
  <2> QED
    BY <1>4, <1>8, <2>1, <2>2 DEF CursorOk
<1>13. IndexOk(chain, c, index)
  <2>1. /\ entry.height = chain.start[e] + n /\ entry.era = e /\ entry.local = n
        /\ entry.epoch = chain.startEpoch[e] + chain.block[e][n].epoch
    BY <1>9
  <2>2. entry \in IndexEntry
    <3>1. /\ chain.start[e] + n \in Nat
          /\ chain.startEpoch[e] + chain.block[e][n].epoch \in Nat
      BY <1>3, <1>4
    <3> QED
      BY <1>1, <1>9, <1>11, <3>1 DEF IndexEntry
  <2>3. index \in SUBSET IndexEntry
    BY <1>2, <1>9, <2>2 DEF IndexOk
  <2>4. ASSUME NEW h \in 0 .. c.lastHeight
        PROVE  \E x \in index : x.height = h
    <3>1. CASE h = c.lastHeight
      BY <1>8, <1>9, <2>1, <3>1
    <3>2. CASE h # c.lastHeight
      <4>1. h \in 0 .. cursor.lastHeight
        BY <1>3, <1>8, <1>11, <3>2
      <4>2. PICK x \in state.index : x.height = h
        BY <1>2, <4>1 DEF IndexOk
      <4> QED
        BY <1>8, <1>9, <3>2, <4>2
    <3> QED
      BY <3>1, <3>2
  <2>5. ASSUME NEW x \in index
        PROVE  /\ x.height = chain.start[x.era] + x.local
               /\ x.height <= c.lastHeight
               /\ x.era <= c.era
               /\ x.era < c.era => x.height < chain.start[x.era + 1]
               /\ x.epoch = chain.startEpoch[x.era]
                            + chain.block[x.era][x.local].epoch
    <3>1. CASE x = entry
      BY <1>3, <1>4, <1>8, <1>11, <2>1, <3>1
    <3>2. CASE x \in state.index
      <4>1. /\ x.height \in Nat /\ x.height <= cursor.lastHeight
            /\ x.era <= e
            /\ x.era < e => x.height < chain.start[x.era + 1]
            /\ x.height = chain.start[x.era] + x.local
            /\ x.epoch = chain.startEpoch[x.era]
                         + chain.block[x.era][x.local].epoch
        BY <1>2, <3>2 DEF IndexOk, IndexEntry, e
      <4>2. x.height <= c.lastHeight
        BY <1>3, <1>8, <1>11, <4>1
      <4> QED
        BY <1>8, <4>1, <4>2
    <3> QED
      BY <1>9, <3>1, <3>2
  <2> QED
    BY <2>3, <2>4, <2>5 DEF IndexOk
<1>14. ASSUME NoStakeAtTheEnd(chain)
       PROVE  /\ state.queue = chain.ledger[e][n - 1].queue
              /\ r.accounts = chain.ledger[e][n].accounts
              /\ queue = chain.ledger[e][n].queue
  <2>1. /\ accounts = chain.ledger[e][n - 1].accounts
        /\ state.queue = chain.ledger[e][n - 1].queue
    BY <1>1, <1>2, <1>11, <1>14 DEF Good, LedgerOk, e
  <2>2. BlocksOk(chain)
    BY <1>1 DEF ChainOk
  <2>3. LET before == chain.ledger[e][n - 1]
            after  == ApplyTransactions(before.accounts, chain.block[e][n])
            k      == DelayedTransactionsKey(e,
                         chain.startEpoch[e] + chain.block[e][n].epoch)
        IN  chain.ledger[e][n] =
               [accounts |-> after.accounts,
                queue    |-> Queued(before.queue, k, after.delayed)]
    BY <1>1, <1>4, <2>2 DEF BlocksOk
  <2>4. chain.ledger[e][n] =
           [accounts |-> r.accounts, queue |-> Queued(state.queue, key, r.delayed)]
    BY <1>9, <2>1, <2>3, Zenon
  <2> DEFINE l == [accounts |-> r.accounts,
                   queue    |-> Queued(state.queue, key, r.delayed)]
  <2>5. l.accounts = r.accounts /\ l.queue = Queued(state.queue, key, r.delayed)
    OBVIOUS
  <2>6. chain.ledger[e][n] = l
    BY <2>4
  <2>7. queue = Queued(state.queue, key, r.delayed)
    BY <1>9
  <2> HIDE DEF l
  <2> QED
    BY <2>1, <2>5, <2>6, <2>7, Zenon
<1>15. ASSUME NEW p \in plan, IsDue(p, s.cursor), NoStakeAtTheEnd(chain)
       PROVE  state.queue = s.queue
  <2>1. p = e /\ p \in 0 .. LastEra - 1
    BY <1>1
  <2>2. chain.plan[p].lastAbsoluteHeight = chain.start[e] + n
    BY <1>8, <1>10, <1>15 DEF IsDue
  <2>3. n = chain.plan[p].lastAbsoluteHeight - chain.start[p]
    BY <1>3, <1>11, <2>1, <2>2
  <2>4. chain.ledger[e][n].queue = chain.ledger[e][n - 1].queue
    BY <1>15, <2>1, <2>3 DEF NoStakeAtTheEnd
  <2> QED
    BY <1>10, <1>14, <1>15, <2>4
<1>16. IsState(s)
  BY <1>2, <1>7, <1>10 DEF IsState, Good
<1>17. LedgerOk(chain, s)
  BY <1>8, <1>10, <1>14 DEF LedgerOk
<1>18. Good(chain, s) /\ s.cursor.era = e /\ s.recovery = plan
  BY <1>1, <1>8, <1>10, <1>12, <1>13, <1>16, <1>17 DEF Good
<1> QED
  BY <1>15, <1>18 DEF s, e

-----------------------------------------------------------------------------
(* The invariant is inductive *)

\* The invariant holds at first.
LEMMA InitIndInv == Init => IndInv
<1> SUFFICES ASSUME Init PROVE IndInv
  OBVIOUS
<1> DEFINE c == FirstCursor
<1>1. /\ chain \in Chains /\ genesis = 0 /\ up = TRUE /\ plan = {}
      /\ batch = {} /\ stops = 0 /\ cursor = c
      /\ accounts = chain.ledger[0][-1].accounts
      /\ state = [cursor |-> c, accounts |-> chain.ledger[0][-1].accounts,
                  queue |-> EmptyQueue, index |-> {}, epochStats |-> {},
                  recovery |-> {}]
  BY DEF Init
<1>2. 0 \in Era
  BY DEF Era
<1>3. /\ chain.start[0] = 0 /\ chain.startEpoch[0] = 0
      /\ chain.ledger[0][-1].queue = EmptyQueue
  BY <1>1 DEF ChainOk
<1>4. chain.top[0] \in Nat /\ chain.block[0][0].epoch \in Nat
  BY <1>1, <1>2, EraFacts
<1>5. LastOf(chain, 0) >= -1
  BY <1>1, <1>2, LastInRange, EraFacts
<1>6. CursorOk(chain, c)
  BY <1>2, <1>3, <1>4, <1>5 DEF CursorOk, FirstCursor, ChainCursor
<1>7. IndexOk(chain, c, {})
  BY DEF IndexOk, FirstCursor
<1>8. IsState(state) /\ LedgerOk(chain, state)
  BY <1>1, <1>3 DEF IsState, LedgerOk, FirstCursor
<1>9. Good(chain, state)
  BY <1>1, <1>6, <1>7, <1>8 DEF Good
<1>10. Fits(state, genesis) /\ MemoryOf(state)
  BY <1>1 DEF Fits, MemoryOf, FirstCursor
<1> QED
  BY <1>1, <1>2, <1>9, <1>10 DEF IndInv

\* A new epoch leaves everything but the epoch in its place.
LEMMA SetupNextEpochIndInv ==
    IndInv /\ SetupNextEpoch => IndInv'
<1> SUFFICES ASSUME IndInv, SetupNextEpoch PROVE IndInv'
  OBVIOUS
<1> DEFINE next == [cursor EXCEPT !.epoch = @ + 1, !.epochBlocks = 0]
           stats == WithEpochStats(state.epochStats,
                       cursor.epochOffset + cursor.epoch, cursor.epochBlocks)
<1>1. /\ NextBlockIsConfirmed /\ NextBlock.epoch > cursor.epoch
      /\ cursor' = next
      /\ state' = [state EXCEPT !.cursor = next, !.epochStats = stats]
      /\ UNCHANGED <<chain, genesis, up, accounts, plan, batch, stops>>
  BY DEF SetupNextEpoch
<1>2. up /\ batch = {}
  BY <1>1 DEF NextBlockIsConfirmed
<1>3. /\ chain \in Chains /\ cursor = state.cursor /\ accounts = state.accounts
      /\ plan = state.recovery /\ cursor \in ChainCursor
  BY <1>2, PlanInMemory
<1>4. Good(chain, state)
  BY DEF IndInv
<1>5. state' = [cursor |-> next, accounts |-> state.accounts,
                queue |-> state.queue, index |-> state.index,
                epochStats |-> stats, recovery |-> state.recovery]
  <2> HIDE DEF next, stats
  <2> QED
    BY <1>1, <1>4 DEF Good, IsState
<1>6. /\ next \in ChainCursor
      /\ next.era = cursor.era /\ next.lastLocal = cursor.lastLocal
      /\ next.lastHeight = cursor.lastHeight
      /\ next.heightOffset = cursor.heightOffset
      /\ next.epochOffset = cursor.epochOffset
      /\ next.epoch = cursor.epoch + 1
  <2>1. next = [cursor EXCEPT !.epoch = cursor.epoch + 1, !.epochBlocks = 0]
    OBVIOUS
  <2> DEFINE k == [era |-> cursor.era, heightOffset |-> cursor.heightOffset,
                   epochOffset |-> cursor.epochOffset,
                   lastLocal |-> cursor.lastLocal,
                   lastHeight |-> cursor.lastHeight, epoch |-> cursor.epoch,
                   epochBlocks |-> cursor.epochBlocks]
  <2>2. cursor = k
    BY <1>3 DEF ChainCursor
  <2>3. next = [k EXCEPT !.epoch = cursor.epoch + 1, !.epochBlocks = 0]
    BY <2>1, <2>2, Zenon
  <2>4. next = [era |-> cursor.era, heightOffset |-> cursor.heightOffset,
                epochOffset |-> cursor.epochOffset,
                lastLocal |-> cursor.lastLocal,
                lastHeight |-> cursor.lastHeight, epoch |-> cursor.epoch + 1,
                epochBlocks |-> 0]
    <3> HIDE DEF next
    <3> QED
      BY <2>3
  <2> HIDE DEF next, k
  <2>5. /\ cursor.era \in Era /\ cursor.heightOffset \in Nat
        /\ cursor.epochOffset \in Nat /\ cursor.lastLocal \in Nat \cup {-1}
        /\ cursor.lastHeight \in Nat \cup {-1} /\ cursor.epoch + 1 \in Nat
    BY <1>3 DEF ChainCursor
  <2>6. next \in ChainCursor
    BY <2>4, <2>5 DEF ChainCursor
  <2> QED
    BY <2>4, <2>6
<1>7. next.epoch <= NextBlock.epoch
  <2>1. cursor.epoch \in Nat /\ NextBlock.epoch \in Nat
    BY <1>1, <1>3, NextBlockFacts DEF ChainCursor
  <2> QED
    BY <1>1, <1>6, <2>1
<1> HIDE DEF next
<1>8. CursorOk(chain, next)
  BY <1>3, <1>4, <1>6, <1>7
     DEF Good, CursorOk, NextBlock, NextHeight
<1>9. IndexOk(chain, next, state.index)
  BY <1>3, <1>4, <1>6 DEF Good, IndexOk
<1>10. stats \in SUBSET EpochStats
  <2>1. cursor.epochOffset + cursor.epoch \in Nat /\ cursor.epochBlocks \in Nat
    BY <1>3 DEF ChainCursor
  <2> QED
    BY <1>4, <2>1 DEF WithEpochStats, EpochStats, Good, IsState
<1> HIDE DEF stats
<1>11. Good(chain, state')
  <2>1. IsState(state')
    BY <1>5, <1>10 DEF IsState
  <2>2. LedgerOk(chain, state')
    BY <1>3, <1>4, <1>5, <1>6 DEF Good, LedgerOk
  <2> QED
    BY <1>5, <1>8, <1>9, <2>1, <2>2 DEF Good
<1>12. Fits(state', genesis)
  BY <1>3, <1>5, <1>6 DEF IndInv, Fits
<1>13. MemoryOf(state)'
  BY <1>1, <1>3, <1>5 DEF MemoryOf
<1> QED
  BY <1>1, <1>2, <1>11, <1>12, <1>13 DEF IndInv

\* What a block makes of STATE, with the transition where it is due.
LEMMA BuildExecutionBatchIndInv ==
    IndInv /\ BuildExecutionBatch => IndInv'
<1> SUFFICES ASSUME IndInv, BuildExecutionBatch PROVE IndInv'
  OBVIOUS
<1> DEFINE s == StateAfterBlock
           t == IF \E p \in plan : IsDue(p, s.cursor)
                THEN ApplyRecoveryTransition(s, CHOOSE p \in plan : TRUE)
                ELSE s
<1>1. /\ NextBlockIsConfirmed /\ NextBlock.epoch <= cursor.epoch
      /\ cursor' = t.cursor /\ accounts' = t.accounts
      /\ plan' = {p \in plan : ~IsDue(p, s.cursor)}
      /\ batch' = {t}
      /\ UNCHANGED <<chain, genesis, up, state, stops>>
  BY DEF BuildExecutionBatch
<1>2. up /\ batch = {}
  BY <1>1 DEF NextBlockIsConfirmed
<1>3. /\ chain \in Chains /\ cursor = state.cursor /\ plan = state.recovery
      /\ \A p \in plan : /\ p = cursor.era /\ p \in 0 .. LastEra - 1
                         /\ genesis = p + 1 /\ plan = {p}
  BY <1>2, PlanInMemory
<1>4. /\ Good(chain, s) /\ s.cursor.era = cursor.era /\ s.recovery = plan
      /\ \A p \in plan : IsDue(p, s.cursor) /\ NoStakeAtTheEnd(chain)
                            => state.queue = s.queue
  BY <1>1, Block
<1>5. Good(chain, t) /\ Fits(t, genesis) /\ plan' = t.recovery
  <2>1. CASE \E p \in plan : IsDue(p, s.cursor)
    <3>1. PICK p \in plan : IsDue(p, s.cursor)
      BY <2>1
    <3>2. plan = {p} /\ p \in 0 .. LastEra - 1 /\ genesis = p + 1
          /\ s.cursor.era = p
      BY <1>3, <1>4
    <3>3. t = ApplyRecoveryTransition(s, p)
      <4> HIDE DEF s
      <4>1. (CHOOSE q \in plan : TRUE) = p
        BY <3>2
      <4> QED
        BY <2>1, <4>1
    <3>4. plan' = {}
      BY <1>1, <3>1, <3>2
    <3>5. /\ Good(chain, ApplyRecoveryTransition(s, p))
          /\ ApplyRecoveryTransition(s, p).cursor.era = p + 1
          /\ ApplyRecoveryTransition(s, p).recovery = {}
      <4> HIDE DEF s
      <4> QED
        BY <1>3, <1>4, <3>1, <3>2, Transition
    <3> QED
      BY <3>2, <3>3, <3>4, <3>5 DEF Fits
  <2>2. CASE ~ \E p \in plan : IsDue(p, s.cursor)
    <3>1. t = s /\ plan' = plan
      BY <1>1, <2>2
    <3> QED
      BY <1>3, <1>4, <3>1 DEF Fits, IndInv
  <2> QED
    BY <2>1, <2>2
<1> HIDE DEF t, s
<1>6. ASSUME NEW x \in batch'
      PROVE  Good(chain, x)' /\ Fits(x, genesis)' /\ MemoryOf(x)'
  BY <1>1, <1>5, <1>6 DEF MemoryOf
<1>7. Good(chain, state)' /\ Fits(state, genesis)' /\ batch' # {} /\ up'
  BY <1>1, <1>2 DEF IndInv
<1> QED
  BY <1>1, <1>6, <1>7 DEF IndInv

\* The batch of a block is written.
LEMMA WriteBatchIndInv == IndInv /\ WriteBatch => IndInv'
<1> SUFFICES ASSUME IndInv, WriteBatch PROVE IndInv'
  OBVIOUS
<1>1. /\ up /\ state' \in batch /\ batch' = {}
      /\ UNCHANGED <<chain, genesis, up, cursor, accounts, plan, stops>>
  BY DEF WriteBatch
<1>2. Good(chain, state') /\ Fits(state', genesis)
  BY <1>1 DEF IndInv
<1>3. MemoryOf(state)'
  BY <1>1 DEF IndInv, MemoryOf
<1> QED
  BY <1>1, <1>2, <1>3 DEF IndInv

\* What was not written is lost.
LEMMA StopIndInv == IndInv /\ Stop => IndInv'
<1> SUFFICES ASSUME IndInv, Stop PROVE IndInv'
  OBVIOUS
<1>1. /\ stops < MaxStops /\ stops' = stops + 1
      /\ UNCHANGED <<chain, genesis, state>>
      /\ up' = FALSE /\ cursor' = state.cursor /\ accounts' = state.accounts
      /\ plan' = {} /\ batch' = {}
  BY DEF Stop, LoseMemory
<1>2. MemoryOf(state)'
  BY <1>1 DEF MemoryOf
<1>3. stops' \in 0 .. MaxStops
  BY <1>1 DEF IndInv
<1> QED
  BY <1>1, <1>2, <1>3 DEF IndInv

\* A plan is registered for the network that the cursor is in.
LEMMA RegisterRecoveryIndInv == IndInv /\ RegisterRecovery => IndInv'
<1> SUFFICES ASSUME IndInv, RegisterRecovery PROVE IndInv'
  OBVIOUS
<1>1. PICK p \in 0 .. LastEra - 1 :
         /\ p = state.cursor.era
         /\ genesis' = p + 1
         /\ state' = [state EXCEPT !.recovery = {p}]
         /\ up' = FALSE /\ cursor' = state.cursor
         /\ accounts' = state.accounts /\ plan' = {} /\ batch' = {}
         /\ UNCHANGED <<chain, stops>>
  BY DEF RegisterRecovery, CanRegister, LoseMemory
<1>2. Good(chain, state) /\ chain \in Chains
  BY DEF IndInv
<1>3. state' = [cursor |-> state.cursor, accounts |-> state.accounts,
                queue |-> state.queue, index |-> state.index,
                epochStats |-> state.epochStats, recovery |-> {p}]
  BY <1>1, <1>2 DEF Good, IsState
<1>4. Good(chain, state')
  BY <1>2, <1>3 DEF Good, IsState, LedgerOk
<1>5. genesis' \in Era
  BY <1>1, PlanFacts, <1>2
<1>6. Fits(state, genesis)' /\ MemoryOf(state)'
  BY <1>1, <1>3 DEF Fits, MemoryOf
<1> QED
  BY <1>1, <1>4, <1>5, <1>6 DEF IndInv

\* At a start the transition is applied to what is in the database.
LEMMA StartIndInv == IndInv /\ Start => IndInv'
<1> SUFFICES ASSUME IndInv, Start PROVE IndInv'
  OBVIOUS
<1> DEFINE t == IF \E p \in state.recovery : IsDue(p, state.cursor)
                THEN ApplyRecoveryTransition(state,
                                             CHOOSE p \in state.recovery : TRUE)
                ELSE state
<1>1. /\ ~up /\ up' = TRUE /\ state' = t /\ cursor' = t.cursor
      /\ accounts' = t.accounts /\ plan' = t.recovery
      /\ UNCHANGED <<chain, genesis, batch, stops>>
  BY DEF Start
<1>2. /\ batch = {} /\ chain \in Chains /\ Good(chain, state)
      /\ Fits(state, genesis) /\ genesis \in Era
  BY <1>1 DEF IndInv
<1>3. Good(chain, t) /\ Fits(t, genesis)
  <2>1. CASE \E p \in state.recovery : IsDue(p, state.cursor)
    <3>1. PICK p \in state.recovery : IsDue(p, state.cursor)
      BY <2>1
    <3>2. state.recovery = {p} /\ genesis = p + 1 /\ state.cursor.era = p
      BY <1>2 DEF Fits
    <3>3. p \in 0 .. LastEra - 1
      BY <1>2, <3>2 DEF Good, CursorOk, ChainCursor, Era
    <3>4. t = ApplyRecoveryTransition(state, p)
      <4>1. (CHOOSE q \in state.recovery : TRUE) = p
        BY <3>2
      <4> QED
        BY <2>1, <4>1
    <3>5. /\ Good(chain, ApplyRecoveryTransition(state, p))
          /\ ApplyRecoveryTransition(state, p).cursor.era = p + 1
          /\ ApplyRecoveryTransition(state, p).recovery = {}
      BY <1>2, <3>1, <3>2, <3>3, Transition
    <3> QED
      BY <3>2, <3>4, <3>5 DEF Fits
  <2>2. CASE ~ \E p \in state.recovery : IsDue(p, state.cursor)
    BY <1>2, <2>2
  <2> QED
    BY <2>1, <2>2
<1> HIDE DEF t
<1>4. Good(chain, state)' /\ Fits(state, genesis)' /\ MemoryOf(state)'
  BY <1>1, <1>3 DEF MemoryOf
<1> QED
  BY <1>1, <1>2, <1>4 DEF IndInv

\* Every step keeps the invariant.
LEMMA StepIndInv == IndInv /\ [Next]_vars => IndInv'
<1> SUFFICES ASSUME IndInv, [Next]_vars PROVE IndInv'
  OBVIOUS
<1>1. CASE UNCHANGED vars
  BY <1>1 DEF IndInv, vars, MemoryOf
<1> QED
  BY <1>1, SetupNextEpochIndInv, BuildExecutionBatchIndInv, WriteBatchIndInv,
     StopIndInv, RegisterRecoveryIndInv, StartIndInv DEF Next

\* The invariant holds always.
LEMMA IndInvHolds == Spec => []IndInv
  BY InitIndInv, StepIndInv, PTL DEF Spec

-----------------------------------------------------------------------------
(* What it says *)

\* A good state is one of the chain.
LEMMA GoodIsCommitted ==
    ASSUME chain \in Chains, genesis \in Era, NEW s, Good(chain, s),
           Fits(s, genesis)
    PROVE  Committed(s)
<1>1. s.cursor \in ChainCursor /\ s.cursor.lastLocal <= LastOf(chain, s.cursor.era)
  BY DEF Good, CursorOk
<1>2. s.index \in SUBSET IndexEntry /\ s.epochStats \in SUBSET EpochStats
  BY DEF Good, IndexOk, IsState
<1>3. s.recovery \in SUBSET (0 .. LastEra - 1)
  BY <1>1 DEF Fits, ChainCursor, Era
<1> QED
  BY <1>1, <1>2, <1>3 DEF Committed, LastExecutable, LastOf

\* Every variable keeps its type, and the cursor never passes the last block
\* that is to be executed: BlockExecutionThread and ApplyRecoveryTransition.
THEOREM TypeCorrect == Spec => []TypeOK
<1>1. ASSUME IndInv PROVE TypeOK
  <2>1. Committed(state) /\ \A s \in batch : Committed(s)
    BY <1>1, GoodIsCommitted DEF IndInv
  <2>2. \A s : MemoryOf(s) /\ Committed(s) =>
           cursor \in ChainCursor /\ plan \in SUBSET (0 .. LastEra - 1)
    BY <1>1 DEF MemoryOf, Committed, IndInv
  <2>3. cursor \in ChainCursor /\ plan \in SUBSET (0 .. LastEra - 1)
    <3>1. CASE batch = {}
      BY <1>1, <2>1, <2>2, <3>1 DEF IndInv
    <3>2. CASE batch # {}
      BY <1>1, <2>1, <2>2, <3>2 DEF IndInv
    <3> QED
      BY <3>1, <3>2
  <2> QED
    BY <1>1, <2>1, <2>3 DEF IndInv, TypeOK
<1> QED
  BY <1>1, IndInvHolds, PTL

\* What the database has is the replay of the blocks up to its cursor, however
\* executeBlock, the recovery and the stops of the node interleave.
THEOREM Replay == Spec => []CommittedStateIsReplay
<1>1. ASSUME IndInv PROVE CommittedStateIsReplay
  BY <1>1 DEF IndInv, Good, LedgerOk, CommittedStateIsReplay, IsReplay, Ledger,
              QuietBoundaries, NoStakeAtTheEnd
<1> QED
  BY <1>1, IndInvHolds, PTL

\* BLOCK_INDEX has each height once executed, with the block and the epoch of
\* its network, and nothing else: heights go on across recoveries.
THEOREM LinearHistory == Spec => []HistoryIsLinear
<1>1. ASSUME IndInv PROVE HistoryIsLinear
  BY <1>1 DEF IndInv, Good, CursorOk, IndexOk, HistoryIsLinear, IsIndexed,
              IndexIsOfChain
<1> QED
  BY <1>1, IndInvHolds, PTL

\* prepareBlockchain never refuses what an earlier run has left, wherever in a
\* recovery that was.
THEOREM RestartAllowed == Spec => []RestartIsNeverRefused
<1>1. ASSUME IndInv, ~up PROVE CanStart
  <2>1. CASE state.cursor.era = genesis
    BY <2>1 DEF CanStart
  <2>2. CASE state.cursor.era # genesis
    <3> DEFINE c == state.cursor
               p == state.cursor.era
    <3>1. p + 1 = genesis /\ state.recovery = {p}
      BY <1>1, <2>2 DEF IndInv, Fits
    <3>2. /\ chain \in Chains /\ genesis \in Era
          /\ c \in ChainCursor /\ c.lastLocal <= LastOf(chain, p)
          /\ c.lastHeight = chain.start[p] + c.lastLocal
      BY <1>1 DEF IndInv, Good, CursorOk
    <3>3. p \in 0 .. LastEra - 1 /\ p \in Era
      BY <3>1, <3>2 DEF ChainCursor, Era
    <3>4. /\ chain.start[p] \in Nat
          /\ chain.plan[p].lastAbsoluteHeight \in Nat
          /\ LastOf(chain, p) = chain.plan[p].lastAbsoluteHeight - chain.start[p]
      BY <3>2, <3>3, EraFacts, PlanFacts DEF LastOf
    <3>5. c.lastHeight <= chain.plan[p].lastAbsoluteHeight
      BY <3>2, <3>4 DEF ChainCursor
    <3>6. IsDue(p, c) \/ IsValidRecoveryPlanForCursor(p, c)
      BY <3>1, <3>2, <3>4, <3>5
         DEF IsDue, IsValidRecoveryPlanForCursor, ChainCursor
    <3> QED
      BY <3>1, <3>6 DEF CanStart
  <2> QED
    BY <2>1, <2>2
<1>2. IndInv => RestartIsNeverRefused
  BY <1>1 DEF RestartIsNeverRefused
<1> QED
  BY <1>2, IndInvHolds, PTL

HIDE ExecutionAssumption

-----------------------------------------------------------------------------
(* Sums over finite sets: a sum is defined by recursion, and what it is for    *)
(* every set is shown by induction over its subsets.                           *)

\* Induction over the naturals, for the members of a set.
LEMMA Counting ==
    ASSUME NEW G, 0 \in G, \A n \in Nat : n \in G => n + 1 \in G
    PROVE  \A n \in Nat : n \in G
<1> DEFINE T == Nat \ G
<1>1. SUFFICES ASSUME T # {} PROVE FALSE
  OBVIOUS
<1>2. PICK x \in T : \A y \in T : <<y, x>> \notin OpToRel(<, Nat)
  <2> HIDE DEF T
  <2>1. T \subseteq Nat
    BY DEF T
  <2> QED
    BY <1>1, <2>1, WFMin, NatLessThanWellFounded
<1>3. x \in Nat /\ x # 0 /\ x - 1 \in Nat /\ x - 1 + 1 = x
  OBVIOUS
<1>4. x - 1 \in T
  BY <1>3
<1>5. <<x - 1, x>> \in OpToRel(<, Nat)
  BY <1>3 DEF OpToRel
<1> QED
  BY <1>2, <1>4, <1>5

\* c takes an element of any subset of D, and F has values in V.
Chooses(c, D) == \A t \in SUBSET D : t # {} => c[t] \in t
StepsIn(F, D, V) == \A x \in D : \A v \in V : F[x][v] \in V
Solves(h, D, base, c, F) ==
    \A t \in SUBSET D : h[t] = IF t = {} THEN base ELSE F[c[t]][h[t \ {c[t]}]]

\* A function on the subsets of a finite set, defined by recursion over an
\* element that is taken away.
LEMMA Recursion ==
    ASSUME NEW D, IsFiniteSet(D), NEW V, NEW base \in V,
           NEW c, Chooses(c, D), NEW F, StepsIn(F, D, V)
    PROVE  \E h \in [SUBSET D -> V] : Solves(h, D, base, c, F)
<1> USE DEF Chooses, StepsIn, Solves
<1> DEFINE Upto(n) == {t \in SUBSET D : Cardinality(t) <= n}
           Def(h, t) == IF t = {} THEN base ELSE F[c[t]][h[t \ {c[t]}]]
           G == {n \in Nat : \E h \in [Upto(n) -> V] :
                                \A t \in Upto(n) : h[t] = Def(h, t)}
<1>1. \A t \in SUBSET D : /\ IsFiniteSet(t) /\ Cardinality(t) \in Nat
                          /\ Cardinality(t) <= Cardinality(D)
                          /\ Cardinality(t) = 0 => t = {}
                          /\ \A x \in t : Cardinality(t \ {x}) = Cardinality(t) - 1
  BY FS_Subset, FS_CardinalityType, FS_RemoveElement, FS_EmptySet
<1>2. 0 \in G
  <2> DEFINE h == [t \in Upto(0) |-> base]
  <2>1. \A t \in Upto(0) : t = {}
    BY <1>1
  <2>2. h \in [Upto(0) -> V] /\ \A t \in Upto(0) : h[t] = Def(h, t)
    BY <2>1
  <2> QED
    BY <2>2
<1>3. ASSUME NEW n \in Nat, n \in G PROVE n + 1 \in G
  <2>1. PICK h \in [Upto(n) -> V] : \A t \in Upto(n) : h[t] = Def(h, t)
    BY <1>3
  <2> DEFINE k == [t \in Upto(n + 1) |-> Def(h, t)]
  <2>2. ASSUME NEW t \in Upto(n + 1), t # {}
        PROVE  /\ c[t] \in t /\ c[t] \in D
               /\ t \ {c[t]} \in Upto(n) /\ t \ {c[t]} \in Upto(n + 1)
    BY <1>1, <2>2
  <2>3. k \in [Upto(n + 1) -> V]
    BY <2>2
  <2>4. \A t \in Upto(n) : k[t] = h[t]
    <3>1. Upto(n) \subseteq Upto(n + 1)
      BY <1>1
    <3> QED
      BY <2>1, <3>1
  <2>5. ASSUME NEW t \in Upto(n + 1) PROVE k[t] = Def(k, t)
    <3>1. CASE t = {}
      BY <2>5, <3>1
    <3>2. CASE t # {}
      <4>1. k[t \ {c[t]}] = h[t \ {c[t]}]
        <5> HIDE DEF k
        <5> QED
          BY <2>2, <2>4, <3>2
      <4>2. k[t] = Def(h, t)
        BY <2>5
      <4> HIDE DEF k
      <4> QED
        BY <3>2, <4>1, <4>2
    <3> QED
      BY <3>1, <3>2
  <2>6. \E g \in [Upto(n + 1) -> V] : \A t \in Upto(n + 1) : g[t] = Def(g, t)
    <3> HIDE DEF k, Upto, Def
    <3> QED
      BY <2>3, <2>5
  <2> HIDE DEF k, Upto, Def
  <2> QED
    BY <2>6
<1>4. Cardinality(D) \in G
  <2> HIDE DEF G
  <2> QED
    BY <1>1, <1>2, <1>3, Counting
<1>5. Upto(Cardinality(D)) = SUBSET D
  BY <1>1
<1> QED
  BY <1>4, <1>5

\* Induction over the subsets of a finite set.
LEMMA SubsetInduction ==
    ASSUME NEW D, IsFiniteSet(D), NEW G,
           \A t \in SUBSET D : (\A x \in t : t \ {x} \in G) => t \in G
    PROVE  \A t \in SUBSET D : t \in G
<1> DEFINE N == {n \in Nat : \A t \in SUBSET D : Cardinality(t) = n => t \in G}
<1>1. \A t \in SUBSET D : /\ IsFiniteSet(t) /\ Cardinality(t) \in Nat
                          /\ Cardinality(t) = 0 => t = {}
                          /\ \A x \in t : Cardinality(t \ {x}) = Cardinality(t) - 1
  BY FS_Subset, FS_CardinalityType, FS_RemoveElement, FS_EmptySet
<1>2. 0 \in N
  BY <1>1
<1>3. ASSUME NEW n \in Nat, n \in N PROVE n + 1 \in N
  <2>1. ASSUME NEW t \in SUBSET D, Cardinality(t) = n + 1 PROVE t \in G
    <3>1. ASSUME NEW x \in t PROVE t \ {x} \in G
      <4>1. t \ {x} \in SUBSET D /\ Cardinality(t \ {x}) = n
        BY <1>1, <2>1, <3>1
      <4> QED
        BY <1>3, <4>1
    <3> QED
      BY <3>1
  <2> QED
    BY <2>1
<1>4. \A n \in Nat : n \in N
  <2> HIDE DEF N
  <2> QED
    BY <1>2, <1>3, Counting
<1> QED
  BY <1>1, <1>4

\* f has a number for every member of the finite set D.
Summable(f, D) == IsFiniteSet(D) /\ f \in [D -> Int]

\* A sum is the sum of any one of its members and the others.
LEMMA SumFacts ==
    ASSUME NEW D, NEW f, Summable(f, D)
    PROVE  /\ SumFunctionOnSet(f, {}) = 0
           /\ \A S \in SUBSET D :
                 /\ SumFunctionOnSet(f, S) \in Int
                 /\ \A x \in S : SumFunctionOnSet(f, S) =
                                   f[x] + SumFunctionOnSet(f, S \ {x})
<1> USE DEF Summable
<1> DEFINE c == [t \in SUBSET D |-> CHOOSE x \in t : TRUE]
           F == [x \in D |-> [v \in Int |-> f[x] + v]]
<1>1. PICK h \in [SUBSET D -> Int] : Solves(h, D, 0, c, F)
  <2>1. Chooses(c, D)
    BY DEF Chooses
  <2>2. StepsIn(F, D, Int)
    BY DEF StepsIn
  <2>3. 0 \in Int
    OBVIOUS
  <2> HIDE DEF c, F
  <2> QED
    BY <2>1, <2>2, <2>3, Recursion
<1>2. \A t \in SUBSET D :
         h[t] = IF t = {} THEN 0
                ELSE f[CHOOSE x \in t : TRUE] + h[t \ {CHOOSE x \in t : TRUE}]
  BY <1>1 DEF Solves
<1> HIDE DEF c, F
<1>3. ASSUME NEW S \in SUBSET D PROVE SumFunctionOnSet(f, S) = h[S]
  <2> DEFINE R(g) == [s \in SUBSET S |-> IF s = {} THEN 0
                        ELSE f[CHOOSE x \in s : TRUE] + g[s \ {CHOOSE x \in s : TRUE}]]
             k == [s \in SUBSET S |-> h[s]]
  <2>1. k = R(k)
    BY <1>2
  <2>2. PICK g : g = R(g) /\ SumFunctionOnSet(f, S) = g[S]
    <3> HIDE DEF k
    <3> QED
      BY <2>1 DEF SumFunctionOnSet, FoldFunctionOnSet, MapThenFoldSet
  <2> DEFINE G == {t \in SUBSET S : g[t] = h[t]}
  <2>3. ASSUME NEW t \in SUBSET S, \A x \in t : t \ {x} \in G PROVE t \in G
    <3> DEFINE x == CHOOSE x \in t : TRUE
    <3>1. /\ g[t] = IF t = {} THEN 0 ELSE f[x] + g[t \ {x}]
          /\ h[t] = IF t = {} THEN 0 ELSE f[x] + h[t \ {x}]
      BY <1>2, <2>2
    <3>2. t # {} => x \in t
      OBVIOUS
    <3> HIDE DEF x
    <3> QED
      BY <2>3, <3>1, <3>2
  <2>4. \A t \in SUBSET S : t \in G
    <3>1. IsFiniteSet(S)
      BY FS_Subset
    <3> HIDE DEF G
    <3> QED
      BY <2>3, <3>1, SubsetInduction
  <2> QED
    BY <2>2, <2>4
<1> DEFINE G == {S \in SUBSET D : \A x \in S : h[S] = f[x] + h[S \ {x}]}
<1>4. ASSUME NEW S \in SUBSET D, \A x \in S : S \ {x} \in G PROVE S \in G
  <2> SUFFICES ASSUME NEW x \in S PROVE h[S] = f[x] + h[S \ {x}]
    OBVIOUS
  <2> DEFINE y == CHOOSE y \in S : TRUE
  <2>1. y \in S /\ h[S] = f[y] + h[S \ {y}]
    BY <1>2
  <2> HIDE DEF y
  <2>2. CASE y # x
    <3>1. h[S \ {y}] = f[x] + h[(S \ {y}) \ {x}]
      BY <1>4, <2>1, <2>2
    <3>2. h[S \ {x}] = f[y] + h[(S \ {x}) \ {y}]
      BY <1>4, <2>1, <2>2
    <3>3. (S \ {y}) \ {x} = (S \ {x}) \ {y}
      OBVIOUS
    <3>4. f[x] \in Int /\ f[y] \in Int /\ h[(S \ {x}) \ {y}] \in Int
      BY <2>1
    <3> QED
      <4> HIDE DEF c, F
      <4>1. h[S] = f[y] + (f[x] + h[(S \ {x}) \ {y}])
        BY <2>1, <3>1, <3>3
      <4> DEFINE a == f[x]
                 b == f[y]
                 r == h[(S \ {x}) \ {y}]
      <4>2. b + (a + r) = a + (b + r)
        <5>1. a \in Int /\ b \in Int /\ r \in Int
          BY <3>4
        <5> HIDE DEF a, b, r
        <5> QED
          BY <5>1
      <4> QED
        BY <3>2, <4>1, <4>2
  <2> QED
    BY <2>1, <2>2
<1>5. \A S \in SUBSET D : S \in G
  <2> HIDE DEF G
  <2> QED
    BY <1>4, SubsetInduction
<1>6. h[{}] = 0
  BY <1>2
<1> QED
  BY <1>3, <1>5, <1>6

\* Sums of functions that agree are equal.
LEMMA SumsAgree ==
    ASSUME NEW D, NEW f, Summable(f, D), NEW E, NEW g, Summable(g, E),
           NEW S \in SUBSET D, S \in SUBSET E,
           \A x \in S : f[x] = g[x]
    PROVE  SumFunctionOnSet(f, S) = SumFunctionOnSet(g, S)
<1> DEFINE G == {T \in SUBSET S : SumFunctionOnSet(f, T) = SumFunctionOnSet(g, T)}
<1>1. IsFiniteSet(S)
  BY FS_Subset DEF Summable
<1>2. ASSUME NEW T \in SUBSET S, \A x \in T : T \ {x} \in G PROVE T \in G
  <2>1. CASE T = {}
    BY <2>1, SumFacts
  <2>2. CASE T # {}
    <3>1. PICK x \in T : TRUE
      BY <2>2
    <3>2. SumFunctionOnSet(f, T) = f[x] + SumFunctionOnSet(f, T \ {x})
      BY SumFacts
    <3>3. SumFunctionOnSet(g, T) = g[x] + SumFunctionOnSet(g, T \ {x})
      BY SumFacts
    <3> QED
      BY <1>2, <3>2, <3>3
  <2> QED
    BY <2>1, <2>2
<1>3. \A T \in SUBSET S : T \in G
  <2> HIDE DEF G
  <2> QED
    BY <1>1, <1>2, SubsetInduction
<1> QED
  BY <1>3

\* A sum changes with the one member that changes.
LEMMA SumChanges ==
    ASSUME NEW D, NEW f, Summable(f, D), NEW g, Summable(g, D),
           NEW x \in D, \A y \in D : y # x => f[y] = g[y]
    PROVE  /\ SumFunction(f) \in Int
           /\ SumFunction(g) = SumFunction(f) + g[x] - f[x]
<1>1. SumFunctionOnSet(f, D \ {x}) = SumFunctionOnSet(g, D \ {x})
  BY SumsAgree
<1>2. /\ SumFunctionOnSet(f, D) = f[x] + SumFunctionOnSet(f, D \ {x})
      /\ SumFunctionOnSet(f, D) \in Int
      /\ SumFunctionOnSet(f, D \ {x}) \in Int
  BY SumFacts
<1>3. SumFunctionOnSet(g, D) = g[x] + SumFunctionOnSet(g, D \ {x})
  BY SumFacts
<1>4. f[x] \in Int /\ g[x] \in Int
  BY DEF Summable
<1>5. DOMAIN f = D /\ DOMAIN g = D
  BY DEF Summable
<1> QED
  BY <1>1, <1>2, <1>3, <1>4, <1>5 DEF SumFunction

\* A sum grows by a new member.
LEMMA SumExtends ==
    ASSUME NEW D, NEW f, Summable(f, D), NEW E, NEW g, Summable(g, E),
           NEW x \in E, E \ {x} = D, \A y \in D : f[y] = g[y]
    PROVE  /\ SumFunction(f) \in Int
           /\ SumFunction(g) = SumFunction(f) + g[x]
<1>1. D \subseteq D /\ D \subseteq E
  OBVIOUS
<1>2. SumFunctionOnSet(g, E) = g[x] + SumFunctionOnSet(g, D)
  BY SumFacts
<1>3. SumFunctionOnSet(f, D) = SumFunctionOnSet(g, D)
  BY <1>1, SumsAgree
<1>4. SumFunctionOnSet(f, D) \in Int /\ g[x] \in Int
  BY SumFacts DEF Summable
<1>5. DOMAIN f = D /\ DOMAIN g = E
  BY DEF Summable
<1> QED
  BY <1>2, <1>3, <1>4, <1>5 DEF SumFunction

\* A sum is a number, and that of nothing is 0.
LEMMA SumIsInt ==
    ASSUME NEW D, NEW f, Summable(f, D)
    PROVE  /\ SumFunction(f) \in Int
           /\ D = {} => SumFunction(f) = 0
<1>1. DOMAIN f = D
  BY DEF Summable
<1> QED
  BY <1>1, SumFacts DEF SumFunction

-----------------------------------------------------------------------------
(* What waits in lists and in the queue.                                       *)

\* A delayed transaction as it waits.
Delayed == [staker : Account \cup {NoStaker}, amount : Uint64]

\* What it holds for the staker a.
Amount(a, e) == IF e.staker = a THEN e.amount ELSE 0

Amounts(a, q) == [i \in DOMAIN q |-> Amount(a, q[i])]

\* What a list holds for a staker is a sum over its places.
LEMMA AmountsFunction ==
    ASSUME NEW q \in Seq(Delayed), NEW a
    PROVE  /\ Summable(Amounts(a, q), 1 .. Len(q))
           /\ DOMAIN Amounts(a, q) = 1 .. Len(q)
           /\ \A i \in 1 .. Len(q) : Amounts(a, q)[i] = Amount(a, q[i])
           /\ AmountsFor(a, q) = SumFunction(Amounts(a, q))
           /\ AmountsFor(a, q) \in Int
<1>1. DOMAIN q = 1 .. Len(q) /\ \A i \in 1 .. Len(q) : q[i] \in Delayed
  OBVIOUS
<1>2. IsFiniteSet(1 .. Len(q))
  BY FS_Interval
<1>3. \A e \in Delayed : Amount(a, e) \in Int
  BY AccountAssumption DEF Amount, Delayed, Uint64
<1>4. Amounts(a, q) \in [1 .. Len(q) -> Int]
  BY <1>1, <1>3 DEF Amounts
<1>5. AmountsFor(a, q) = SumFunction(Amounts(a, q))
  BY DEF AmountsFor, Amounts, Amount
<1>6. Summable(Amounts(a, q), 1 .. Len(q))
  BY <1>2, <1>4 DEF Summable
<1>7. SumFunction(Amounts(a, q)) \in Int
  BY <1>6, SumIsInt
<1> QED
  BY <1>1, <1>4, <1>5, <1>6, <1>7 DEF Amounts

\* An empty list holds nothing.
LEMMA AmountsOfNothing ==
    ASSUME NEW a PROVE AmountsFor(a, <<>>) = 0
<1>1. <<>> \in Seq(Delayed) /\ 1 .. Len(<<>>) = {}
  OBVIOUS
<1> QED
  BY <1>1, AmountsFunction, SumIsInt

\* A list holds more by what is appended to it.
LEMMA AmountsOfAppend ==
    ASSUME NEW q \in Seq(Delayed), NEW e \in Delayed, NEW a
    PROVE  AmountsFor(a, Append(q, e)) = AmountsFor(a, q) + Amount(a, e)
<1> DEFINE r == Append(q, e)
           D == 1 .. Len(q)
           E == 1 .. Len(r)
           x == Len(q) + 1
           f == Amounts(a, q)
           g == Amounts(a, r)
<1>1. /\ r \in Seq(Delayed) /\ x \in E /\ E \ {x} = D
      /\ r[x] = e /\ \A i \in D : r[i] = q[i]
  OBVIOUS
<1>2. Summable(f, D) /\ AmountsFor(a, q) = SumFunction(f)
  BY AmountsFunction
<1> HIDE DEF r
<1>3. Summable(g, E) /\ AmountsFor(a, r) = SumFunction(g)
  BY <1>1, AmountsFunction
<1>4. \A i \in D : f[i] = g[i]
  BY <1>1, AmountsFunction
<1>5. g[x] = Amount(a, e)
  BY <1>1, AmountsFunction
<1> HIDE DEF D, E, x, f, g
<1>6. SumFunction(g) = SumFunction(f) + g[x]
  BY <1>1, <1>2, <1>3, <1>4, SumExtends
<1> QED
  BY <1>2, <1>3, <1>5, <1>6 DEF r

\* Two lists in one hold what both hold.
LEMMA AmountsOfConcat ==
    ASSUME NEW q \in Seq(Delayed), NEW d \in Seq(Delayed), NEW a
    PROVE  AmountsFor(a, q \o d) = AmountsFor(a, q) + AmountsFor(a, d)
<1> DEFINE r == q \o d
           m == Len(q)
           n == Len(d)
           f == Amounts(a, q)
           g == Amounts(a, d)
           h == Amounts(a, r)
           I(k) == 1 .. k
           G == {k \in Nat : k <= n =>
                   SumFunctionOnSet(h, I(m + k)) =
                       SumFunctionOnSet(f, I(m)) + SumFunctionOnSet(g, I(k))}
<1>1. /\ m \in Nat /\ n \in Nat /\ r \in Seq(Delayed) /\ Len(r) = m + n
      /\ \A i \in I(m) : r[i] = q[i]
      /\ \A i \in I(n) : r[m + i] = d[i]
      /\ I(0) = {} /\ m + 0 = m
  OBVIOUS
<1>2. /\ Summable(f, I(m)) /\ AmountsFor(a, q) = SumFunction(f)
      /\ Summable(g, I(n)) /\ AmountsFor(a, d) = SumFunction(g)
      /\ DOMAIN f = I(m) /\ DOMAIN g = I(n)
  BY AmountsFunction
<1> HIDE DEF r
<1>3. /\ Summable(h, I(m + n)) /\ AmountsFor(a, r) = SumFunction(h)
      /\ DOMAIN h = I(m + n)
  BY <1>1, AmountsFunction
<1>4. /\ \A i \in I(m) : h[i] = f[i]
      /\ \A i \in I(n) : h[m + i] = g[i]
  <2>1. I(m) \subseteq I(m + n) /\ \A i \in I(n) : m + i \in I(m + n)
    BY <1>1
  <2>2. /\ \A i \in I(m + n) : h[i] = Amount(a, r[i])
        /\ \A i \in I(m) : f[i] = Amount(a, q[i])
        /\ \A i \in I(n) : g[i] = Amount(a, d[i])
    BY <1>1, AmountsFunction
  <2> QED
    BY <1>1, <2>1, <2>2
<1> HIDE DEF m, n, f, g, h
<1>5. \A k \in Nat : k + 1 <= n =>
         /\ I(m + k) \subseteq I(m + n) /\ I(m + (k + 1)) \subseteq I(m + n)
         /\ m + (k + 1) \in I(m + (k + 1))
         /\ I(m + (k + 1)) \ {m + (k + 1)} = I(m + k)
         /\ I(k) \subseteq I(n) /\ I(k + 1) \subseteq I(n)
         /\ k + 1 \in I(k + 1) /\ k + 1 \in I(n)
         /\ I(k + 1) \ {k + 1} = I(k)
  <2> SUFFICES ASSUME NEW k \in Nat, k + 1 <= n
               PROVE  /\ I(m + k) \subseteq I(m + n) /\ I(m + (k + 1)) \subseteq I(m + n)
                      /\ m + (k + 1) \in I(m + (k + 1))
                      /\ I(m + (k + 1)) \ {m + (k + 1)} = I(m + k)
                      /\ I(k) \subseteq I(n) /\ I(k + 1) \subseteq I(n)
                      /\ k + 1 \in I(k + 1) /\ k + 1 \in I(n)
                      /\ I(k + 1) \ {k + 1} = I(k)
    OBVIOUS
  <2>1. m \in Nat /\ n \in Nat
    BY <1>1
  <2>2. I(m + k) \subseteq I(m + n) /\ I(m + (k + 1)) \subseteq I(m + n)
    BY <2>1
  <2>3. /\ m + (k + 1) \in I(m + (k + 1))
        /\ I(m + (k + 1)) \ {m + (k + 1)} = I(m + k)
    BY <2>1
  <2>4. /\ I(k) \subseteq I(n) /\ I(k + 1) \subseteq I(n)
        /\ k + 1 \in I(k + 1) /\ k + 1 \in I(n)
    BY <2>1
  <2>5. I(k + 1) \ {k + 1} = I(k)
    BY <2>1
  <2> QED
    BY <2>2, <2>3, <2>4, <2>5
<1>6. I(m) \subseteq I(m) /\ I(m) \subseteq I(m + n)
  BY <1>1
<1> HIDE DEF I
<1>7. SumFunctionOnSet(f, I(m)) \in Int
  BY <1>2, SumFacts
<1>8. 0 \in G
  <2>1. SumFunctionOnSet(h, I(m)) = SumFunctionOnSet(f, I(m))
    BY <1>2, <1>3, <1>4, <1>6, SumsAgree
  <2>2. SumFunctionOnSet(g, {}) = 0
    BY <1>2, SumFacts
  <2>3. I(m + 0) = I(m) /\ I(0) = {}
    BY <1>1
  <2>4. SumFunctionOnSet(f, I(m)) + 0 = SumFunctionOnSet(f, I(m))
    BY <1>7
  <2>5. SumFunctionOnSet(h, I(m + 0)) =
           SumFunctionOnSet(f, I(m)) + SumFunctionOnSet(g, I(0))
    BY <2>1, <2>2, <2>3, <2>4
  <2> QED
    BY <2>5
<1>9. ASSUME NEW k \in Nat, k \in G PROVE k + 1 \in G
  <2> SUFFICES ASSUME k + 1 <= n
               PROVE  SumFunctionOnSet(h, I(m + (k + 1))) =
                          SumFunctionOnSet(f, I(m)) + SumFunctionOnSet(g, I(k + 1))
    OBVIOUS
  <2>1. SumFunctionOnSet(h, I(m + k)) =
           SumFunctionOnSet(f, I(m)) + SumFunctionOnSet(g, I(k))
    BY <1>1, <1>9
  <2>2. SumFunctionOnSet(h, I(m + (k + 1))) =
           h[m + (k + 1)] + SumFunctionOnSet(h, I(m + k))
    BY <1>3, <1>5, SumFacts
  <2>3. /\ SumFunctionOnSet(g, I(k + 1)) = g[k + 1] + SumFunctionOnSet(g, I(k))
        /\ SumFunctionOnSet(g, I(k)) \in Int
    BY <1>2, <1>5, SumFacts
  <2>4. h[m + (k + 1)] = g[k + 1] /\ g[k + 1] \in Int
    BY <1>2, <1>4, <1>5 DEF Summable
  <2> QED
    BY <1>7, <2>1, <2>2, <2>3, <2>4
<1>10. n \in G
  <2> HIDE DEF G
  <2> QED
    BY <1>1, <1>8, <1>9, Counting
<1>11. SumFunctionOnSet(h, I(m + n)) =
          SumFunctionOnSet(f, I(m)) + SumFunctionOnSet(g, I(n))
  BY <1>1, <1>10
<1> QED
  BY <1>2, <1>3, <1>11 DEF SumFunction, r

\* A queue has finitely many keys, with a list under each.
QueueOk(queue) ==
    /\ queue = [key \in DOMAIN queue |-> queue[key]]
    /\ IsFiniteSet(DOMAIN queue)
    /\ \A key \in DOMAIN queue : queue[key] \in Seq(Delayed)

Waits(a, queue) == [key \in DOMAIN queue |-> AmountsFor(a, queue[key])]

\* What waits for a staker is a sum over the keys.
LEMMA WaitsFunction ==
    ASSUME NEW queue, QueueOk(queue), NEW a
    PROVE  /\ Summable(Waits(a, queue), DOMAIN queue)
           /\ Waiting(queue, a) = SumFunction(Waits(a, queue))
           /\ Waiting(queue, a) \in Int
<1>1. \A key \in DOMAIN queue : AmountsFor(a, queue[key]) \in Int
  BY AmountsFunction DEF QueueOk
<1>2. Summable(Waits(a, queue), DOMAIN queue)
  BY <1>1 DEF QueueOk, Waits, Summable
<1>3. Waiting(queue, a) = SumFunction(Waits(a, queue))
  BY DEF Waiting, Waits
<1> QED
  BY <1>2, <1>3, SumIsInt

\* In the empty queue nothing waits.
LEMMA NothingWaits ==
    /\ QueueOk(EmptyQueue)
    /\ \A a : Waiting(EmptyQueue, a) = 0
<1>1. DOMAIN EmptyQueue = {}
  BY DEF EmptyQueue
<1>2. QueueOk(EmptyQueue)
  BY <1>1, FS_EmptySet DEF QueueOk, EmptyQueue
<1> QED
  BY <1>1, <1>2, WaitsFunction, SumIsInt

\* What is queued waits.
LEMMA QueuedWaits ==
    ASSUME NEW queue, QueueOk(queue), NEW d \in Seq(Delayed), NEW key
    PROVE  /\ QueueOk(Queued(queue, key, d))
           /\ \A a : Waiting(Queued(queue, key, d), a) =
                        Waiting(queue, a) + AmountsFor(a, d)
<1> DEFINE next == Queued(queue, key, d)
           D == DOMAIN queue
<1>1. CASE d = <<>>
  <2>1. next = queue
    BY <1>1 DEF Queued
  <2>2. \A a : AmountsFor(a, d) = 0
    BY <1>1, AmountsOfNothing
  <2> QED
    BY <2>1, <2>2, WaitsFunction
<1>2. CASE d # <<>> /\ key \in D
  <2>1. /\ next = [k \in D |-> next[k]] /\ DOMAIN next = D
        /\ next[key] = queue[key] \o d
        /\ \A k \in D : k # key => next[k] = queue[k]
    <3>1. D \cup {key} = D
      BY <1>2
    <3>2. next = [k \in D |-> IF k # key THEN queue[k] ELSE queue[k] \o d]
      BY <1>2, <3>1 DEF Queued
    <3> QED
      BY <1>2, <3>2
  <2> HIDE DEF next
  <2>2. QueueOk(next)
    <3>1. queue[key] \o d \in Seq(Delayed)
      BY <1>2 DEF QueueOk
    <3>2. \A k \in D : next[k] \in Seq(Delayed)
      BY <2>1, <3>1 DEF QueueOk
    <3> QED
      BY <2>1, <3>2 DEF QueueOk
  <2>3. ASSUME NEW a PROVE Waiting(next, a) = Waiting(queue, a) + AmountsFor(a, d)
    <3> DEFINE f == Waits(a, queue)
               g == Waits(a, next)
    <3>1. /\ Summable(f, D) /\ Summable(g, D)
          /\ Waiting(queue, a) = SumFunction(f) /\ Waiting(next, a) = SumFunction(g)
      BY <2>1, <2>2, WaitsFunction
    <3>2. /\ \A k \in D : k # key => f[k] = g[k]
          /\ f[key] = AmountsFor(a, queue[key])
          /\ g[key] = AmountsFor(a, next[key])
      BY <1>2, <2>1 DEF Waits
    <3>3. /\ g[key] = f[key] + AmountsFor(a, d)
          /\ f[key] \in Int /\ AmountsFor(a, d) \in Int
      <4>1. queue[key] \in Seq(Delayed)
        BY <1>2 DEF QueueOk
      <4>2. AmountsFor(a, queue[key] \o d) =
               AmountsFor(a, queue[key]) + AmountsFor(a, d)
        BY <4>1, AmountsOfConcat
      <4>3. AmountsFor(a, queue[key]) \in Int /\ AmountsFor(a, d) \in Int
        BY <4>1, AmountsFunction
      <4> QED
        BY <2>1, <3>2, <4>2, <4>3
    <3> HIDE DEF f, g
    <3>4. SumFunction(f) \in Int /\ SumFunction(g) = SumFunction(f) + g[key] - f[key]
      BY <1>2, <3>1, <3>2, SumChanges
    <3> QED
      BY <3>1, <3>3, <3>4
  <2> QED
    BY <2>2, <2>3 DEF next
<1>3. CASE d # <<>> /\ key \notin D
  <2> DEFINE E == D \cup {key}
  <2>1. /\ next = [k \in E |-> next[k]] /\ DOMAIN next = E
        /\ next[key] = d
        /\ \A k \in D : next[k] = queue[k]
    <3>1. next = [k \in E |-> IF k # key THEN queue[k] ELSE d]
      BY <1>3 DEF Queued
    <3> QED
      BY <1>3, <3>1
  <2>2. E \ {key} = D /\ key \in E /\ (IsFiniteSet(D) => IsFiniteSet(E))
    BY <1>3, FS_AddElement
  <2>3. \A k \in E : k \in D \/ k = key
    OBVIOUS
  <2> HIDE DEF next, E
  <2>4. QueueOk(next)
    <3>1. \A k \in E : next[k] \in Seq(Delayed)
      BY <2>1, <2>3 DEF QueueOk
    <3> QED
      BY <2>1, <2>2, <3>1 DEF QueueOk
  <2>5. ASSUME NEW a PROVE Waiting(next, a) = Waiting(queue, a) + AmountsFor(a, d)
    <3> DEFINE f == Waits(a, queue)
               g == Waits(a, next)
    <3>1. /\ Summable(f, D) /\ Summable(g, E)
          /\ Waiting(queue, a) = SumFunction(f) /\ Waiting(next, a) = SumFunction(g)
      BY <2>1, <2>4, WaitsFunction
    <3>2. (\A k \in D : f[k] = g[k]) /\ g[key] = AmountsFor(a, d)
      BY <1>3, <2>1, <2>2 DEF Waits
    <3> HIDE DEF f, g
    <3>3. SumFunction(g) = SumFunction(f) + g[key]
      BY <2>2, <3>1, <3>2, SumExtends
    <3> QED
      BY <3>1, <3>2, <3>3
  <2> QED
    BY <2>4, <2>5 DEF next
<1> QED
  BY <1>1, <1>2, <1>3

-----------------------------------------------------------------------------
(* Sums that wrap: a sum that has wrapped is less by multiples of the modulus, *)
(* and a spending that has wrapped leaves more by one.                         *)

Losses == {k \in Int : k <= 0}

\* Number x has become y, up to as many times the modulus as K has.
Kept(x, y, K) ==
    x \in Int /\ y \in Int /\ \E k \in K : y = x + k * Modulus

\* What stays is kept, and what is less by a modulus or more of them, too.
LEMMA KeptSame ==
    ASSUME NEW x \in Int, NEW K \in {Int, Losses} PROVE Kept(x, x, K)
<1>1. 0 \in K
  BY DEF Losses
<1>2. x = x + 0 * Modulus
  BY AccountAssumption
<1> QED
  BY <1>1, <1>2 DEF Kept

LEMMA KeptTransitive ==
    ASSUME NEW K \in {Int, Losses}, NEW x, NEW y, NEW z,
           Kept(x, y, K), Kept(y, z, K)
    PROVE  Kept(x, z, K)
<1>1. PICK k \in K : y = x + k * Modulus
  BY DEF Kept
<1>2. PICK l \in K : z = y + l * Modulus
  BY DEF Kept
<1>3. k + l \in K /\ k \in Int /\ l \in Int
  BY DEF Losses
<1>4. x \in Int /\ y \in Int /\ z \in Int
  BY DEF Kept
<1>5. z = x + (k + l) * Modulus
  BY <1>1, <1>2, <1>3, <1>4, AccountAssumption
<1> QED
  BY <1>3, <1>4, <1>5 DEF Kept

LEMMA KeptTogether ==
    ASSUME NEW K \in {Int, Losses}, NEW x, NEW y, NEW v, NEW w,
           Kept(x, y, K), Kept(v, w, K)
    PROVE  Kept(x + v, y + w, K)
<1>1. PICK k \in K : y = x + k * Modulus
  BY DEF Kept
<1>2. PICK l \in K : w = v + l * Modulus
  BY DEF Kept
<1>3. k + l \in K /\ k \in Int /\ l \in Int
  BY DEF Losses
<1>4. x \in Int /\ y \in Int /\ v \in Int /\ w \in Int
  BY DEF Kept
<1>5. y + w = (x + v) + (k + l) * Modulus
  BY <1>1, <1>2, <1>3, <1>4, AccountAssumption
<1> QED
  BY <1>3, <1>4, <1>5 DEF Kept

LEMMA KeptBeside ==
    ASSUME NEW K \in {Int, Losses}, NEW x, NEW y, Kept(x, y, K), NEW n \in Int
    PROVE  Kept(x + n, y + n, K)
BY KeptSame, KeptTogether

\* A sum of uint64 values is one, and what it loses are multiples of 2^64.
LEMMA PlusKeeps ==
    ASSUME NEW x \in Nat, NEW y \in Nat, NEW K \in {Int, Losses}
    PROVE  /\ Plus(x, y) \in Uint64
           /\ Kept(x + y, Plus(x, y), K)
           /\ x + y < Modulus => Plus(x, y) = x + y
<1> DEFINE s == x + y
           r == s % Modulus
           k == -(s \div Modulus)
<1>1. s \in Nat
  OBVIOUS
<1>2. Plus(x, y) = r
  BY DEF Plus
<1> HIDE DEF s
<1>3. r \in Uint64 /\ r <= s /\ (s < Modulus => r = s)
  BY <1>1, AccountAssumption DEF Uint64
<1>4. s \div Modulus \in Nat /\ r = s + k * Modulus
  BY <1>1, AccountAssumption
<1>5. k \in K
  BY <1>4 DEF Losses
<1>6. r \in Int
  BY <1>3, AccountAssumption DEF Uint64
<1> HIDE DEF k, r
<1>7. Kept(s, r, K)
  BY <1>1, <1>4, <1>5, <1>6 DEF Kept
<1> QED
  BY <1>2, <1>3, <1>7 DEF s

\* What is kept is the same modulo 2^64.
LEMMA KeptModulo ==
    ASSUME NEW K \in {Int, Losses}, NEW x, NEW y, Kept(x, y, K)
    PROVE  (y - x) % Modulus = 0
<1>1. PICK k \in K : y = x + k * Modulus
  BY DEF Kept
<1>2. x \in Int /\ k \in Int
  BY DEF Kept, Losses
<1>3. y - x = k * Modulus
  BY <1>1, <1>2, AccountAssumption
<1>4. (k * Modulus) % Modulus = 0
  BY <1>2, AccountAssumption
<1> QED
  BY <1>3, <1>4

\* Less than 2^64 has not become less and still not negative.
LEMMA KeptExactly ==
    ASSUME NEW x \in Nat, NEW y \in Nat, x < Modulus, Kept(x, y, Losses)
    PROVE  y = x
<1>1. PICK k \in Losses : y = x + k * Modulus
  BY DEF Kept
<1>2. k \in Int /\ k <= 0
  BY DEF Losses
<1>3. k < 0 => k * Modulus <= -Modulus
  BY <1>2, AccountAssumption
<1>4. k = 0
  BY <1>1, <1>2, <1>3, AccountAssumption
<1> QED
  BY <1>1, <1>4, AccountAssumption

-----------------------------------------------------------------------------
(* What a block and a recovery do to the coins.                                *)

\* What stakes without a staker hold counts, too.
Owner == Account \cup {NoStaker}

\* What a block has come to, between two transactions.
RunState == [accounts : Accounts, delayed : Seq(Delayed), fees : Uint64]

\* What belongs to each owner in the middle of a block.
Holdings(acc, delayed, queue) ==
    [a \in Owner |-> Balance(acc, a) + Waiting(queue, a)
                     + AmountsFor(a, delayed)]

LEMMA BalanceIsNat ==
    ASSUME NEW acc \in Accounts, NEW a PROVE Balance(acc, a) \in Nat
<1>1. a \in Account => acc[a].balance \in Uint64
  BY DEF Accounts
<1> QED
  BY <1>1, AccountAssumption DEF Balance, Uint64

\* What belongs to an owner is a number.
LEMMA HoldingsSummable ==
    ASSUME NEW acc \in Accounts, NEW delayed \in Seq(Delayed),
           NEW queue, QueueOk(queue)
    PROVE  /\ Summable(Holdings(acc, delayed, queue), Owner)
           /\ \A a \in Owner :
                 /\ Holdings(acc, delayed, queue)[a] =
                       Balance(acc, a) + Waiting(queue, a) + AmountsFor(a, delayed)
                 /\ Balance(acc, a) \in Int /\ Waiting(queue, a) \in Int
                 /\ AmountsFor(a, delayed) \in Int
<1>1. \A a \in Owner : Balance(acc, a) \in Int
  BY BalanceIsNat
<1>2. \A a \in Owner : Waiting(queue, a) \in Int /\ AmountsFor(a, delayed) \in Int
  BY WaitsFunction, AmountsFunction
<1>3. \A a \in Owner : Balance(acc, a) + Waiting(queue, a)
                         + AmountsFor(a, delayed) \in Int
  BY <1>1, <1>2
<1>4. IsFiniteSet(Owner)
  BY AccountAssumption, FS_AddElement DEF Owner
<1> QED
  BY <1>1, <1>2, <1>3, <1>4 DEF Holdings, Summable

\* What changes the balance of one owner by n, or wraps it, changes the sum
\* alike.
LEMMA HoldingsChange ==
    ASSUME NEW f, NEW g, Summable(f, Owner), Summable(g, Owner),
           NEW x \in Owner, \A y \in Owner : y # x => f[y] = g[y],
           NEW n \in Int, NEW K \in {Int, Losses}, Kept(f[x] + n, g[x], K)
    PROVE  Kept(SumFunction(f) + n, SumFunction(g), K)
<1>1. SumFunction(f) \in Int /\ SumFunction(g) = SumFunction(f) + g[x] - f[x]
  BY SumChanges
<1>2. f[x] \in Int /\ g[x] \in Int
  BY DEF Summable
<1> DEFINE m == SumFunction(f) - f[x]
<1>3. m \in Int
  BY <1>1, <1>2
<1>4. Kept((f[x] + n) + m, g[x] + m, K)
  BY <1>3, KeptBeside
<1>5. (f[x] + n) + m = SumFunction(f) + n /\ g[x] + m = SumFunction(g)
  BY <1>1, <1>2
<1> QED
  BY <1>4, <1>5

\* A balance that changes, in the sum of all that belongs to owners.
LEMMA BalanceChange ==
    ASSUME NEW acc \in Accounts, NEW next \in Accounts, NEW x \in Account,
           \A y \in Account : y # x => next[y] = acc[y],
           NEW n \in Int, NEW K \in {Int, Losses},
           Kept(acc[x].balance + n, next[x].balance, K),
           NEW delayed \in Seq(Delayed), NEW queue, QueueOk(queue)
    PROVE  Kept(SumFunction(Holdings(acc, delayed, queue)) + n,
                SumFunction(Holdings(next, delayed, queue)), K)
<1> DEFINE f == Holdings(acc, delayed, queue)
           g == Holdings(next, delayed, queue)
<1>1. /\ Summable(f, Owner) /\ Summable(g, Owner)
      /\ \A y \in Owner :
            /\ f[y] = Balance(acc, y) + Waiting(queue, y) + AmountsFor(y, delayed)
            /\ g[y] = Balance(next, y) + Waiting(queue, y) + AmountsFor(y, delayed)
            /\ Waiting(queue, y) \in Int /\ AmountsFor(y, delayed) \in Int
            /\ Balance(acc, y) \in Int /\ Balance(next, y) \in Int
  BY HoldingsSummable
<1>2. /\ x \in Owner /\ Balance(acc, x) = acc[x].balance
      /\ Balance(next, x) = next[x].balance
      /\ \A y \in Owner : y # x => Balance(acc, y) = Balance(next, y)
  BY DEF Owner, Balance
<1> HIDE DEF f, g
<1>3. \A y \in Owner : y # x => f[y] = g[y]
  BY <1>1, <1>2
<1>4. Kept(f[x] + n, g[x], K)
  <2> DEFINE b == Balance(acc, x)
             c == Balance(next, x)
             m == Waiting(queue, x) + AmountsFor(x, delayed)
  <2>1. /\ b \in Int /\ c \in Int /\ m \in Int
        /\ f[x] = b + m /\ g[x] = c + m
    BY <1>1, <1>2
  <2>2. Kept(b + n, c, K)
    BY <1>2
  <2> HIDE DEF b, c, m
  <2>3. Kept((b + n) + m, c + m, K)
    BY <2>1, <2>2, KeptBeside
  <2>4. (b + n) + m = f[x] + n
    BY <2>1
  <2> QED
    BY <2>1, <2>3, <2>4
<1>5. Kept(SumFunction(f) + n, SumFunction(g), K)
  BY <1>1, <1>2, <1>3, <1>4, HoldingsChange
<1> QED
  BY <1>5 DEF f, g

\* A credit adds its amount.
LEMMA CreditHoldings ==
    ASSUME NEW acc \in Accounts, NEW delayed \in Seq(Delayed),
           NEW queue, QueueOk(queue), NEW x \in Account, NEW n \in Uint64,
           NEW K \in {Int, Losses}
    PROVE  /\ Credit(acc, x, n) \in Accounts
           /\ Kept(SumFunction(Holdings(acc, delayed, queue)) + n,
                   SumFunction(Holdings(Credit(acc, x, n), delayed, queue)), K)
<1> DEFINE next == Credit(acc, x, n)
           b == acc[x].balance
<1>1. /\ acc[x] \in [balance : Uint64, nonce : Nat]
      /\ b \in Nat /\ n \in Nat
  BY AccountAssumption DEF Accounts, Uint64
<1>2. Plus(b, n) \in Uint64 /\ Kept(b + n, Plus(b, n), K)
  BY <1>1, PlusKeeps
<1>3. next = [acc EXCEPT ![x] = [acc[x] EXCEPT !.balance = Plus(b, n)]]
  BY DEF Credit
<1> DEFINE r == [acc[x] EXCEPT !.balance = Plus(b, n)]
<1>4. r \in [balance : Uint64, nonce : Nat] /\ r.balance = Plus(b, n)
  BY <1>1, <1>2
<1> HIDE DEF next, r
<1>5. /\ next \in Accounts /\ next[x] = r
      /\ \A y \in Account : y # x => next[y] = acc[y]
  <2>1. next = [acc EXCEPT ![x] = r]
    BY <1>3 DEF r
  <2> QED
    BY <1>4, <2>1 DEF Accounts
<1>6. Kept(acc[x].balance + n, next[x].balance, K)
  BY <1>2, <1>4, <1>5
<1>7. n \in Int
  BY <1>1
<1> HIDE DEF b
<1>8. Kept(SumFunction(Holdings(acc, delayed, queue)) + n,
           SumFunction(Holdings(next, delayed, queue)), K)
  BY <1>5, <1>6, <1>7, BalanceChange
<1> QED
  BY <1>5, <1>8 DEF next

\* With Losses, the sum of the transaction's fee and amount does not wrap.
FitsIn(K, tx) == K = Losses => tx.fee + tx.amount < Modulus

\* What is spent is gone, until it is credited, delayed or a fee.
LEMMA SpendHoldings ==
    ASSUME NEW acc \in Accounts, NEW delayed \in Seq(Delayed),
           NEW queue, QueueOk(queue), NEW tx \in Transaction, CanSpend(acc, tx),
           NEW K \in {Int, Losses}, FitsIn(K, tx)
    PROVE  /\ Spend(acc, tx) \in Accounts
           /\ Kept(SumFunction(Holdings(acc, delayed, queue))
                       + (0 - (tx.fee + tx.amount)),
                   SumFunction(Holdings(Spend(acc, tx), delayed, queue)), K)
<1> DEFINE next == Spend(acc, tx)
           x == tx.from
           b == acc[x].balance
           p == TotalSpend(tx)
           s == tx.fee + tx.amount
           r == [balance |-> b - p, nonce |-> acc[x].nonce + 1]
<1>1. x \in Account /\ tx.fee \in Nat /\ tx.amount \in Nat
  BY AccountAssumption DEF Transaction, Uint64
<1>2. /\ acc[x] \in [balance : Uint64, nonce : Nat]
      /\ b \in Uint64 /\ b \in Nat /\ acc[x].nonce \in Nat
  BY <1>1, AccountAssumption DEF Accounts, Uint64
<1>3. /\ s \in Nat /\ p \in Uint64 /\ p \in Nat /\ Kept(s, p, Losses)
      /\ s < Modulus => p = s
  <2> DEFINE n == tx.fee
             m == tx.amount
  <2>1. Losses \in {Int, Losses} /\ \A i \in Uint64 : i \in Nat
    BY AccountAssumption DEF Uint64
  <2>2. n \in Nat /\ m \in Nat
    BY <1>1
  <2>3. p = Plus(n, m) /\ s = n + m
    BY DEF TotalSpend
  <2> HIDE DEF n, m, p, s
  <2>4. /\ Plus(n, m) \in Uint64 /\ Kept(n + m, Plus(n, m), Losses)
        /\ n + m < Modulus => Plus(n, m) = n + m
    BY <2>1, <2>2, PlusKeeps
  <2>5. n + m \in Nat
    BY <2>2
  <2> QED
    BY <2>1, <2>3, <2>4, <2>5
<1>4. b >= p
  BY DEF CanSpend
<1>5. next = [acc EXCEPT ![x] = r]
  BY DEF Spend
<1> HIDE DEF next, x, p, s
<1>6. Kept(b + (0 - s), b - p, K)
  <2>1. PICK k \in Losses : p = s + k * Modulus
    BY <1>3 DEF Kept
  <2>2. k \in Int /\ k * Modulus \in Int
    BY <2>1, AccountAssumption DEF Losses
  <2>3. CASE K = Int
    <3> DEFINE l == -k
    <3>1. l \in K /\ l * Modulus = -(k * Modulus)
      BY <2>2, <2>3, AccountAssumption
    <3> HIDE DEF l
    <3>2. b - p = (b + (0 - s)) + l * Modulus
      BY <1>2, <1>3, <2>1, <2>2, <3>1
    <3>3. b - p \in Int /\ b + (0 - s) \in Int
      BY <1>2, <1>3
    <3> HIDE DEF b
    <3> QED
      BY <3>1, <3>2, <3>3 DEF Kept
  <2>4. CASE K = Losses
    <3>1. p = s
      BY <1>3, <2>4 DEF FitsIn, s
    <3>2. b - p = b + (0 - s) /\ b - p \in Int
      BY <1>2, <1>3, <3>1
    <3> QED
      BY <3>2, KeptSame
  <2> QED
    BY <2>3, <2>4
<1>7. r \in [balance : Uint64, nonce : Nat] /\ r.balance = b - p
  <2>1. b - p \in Uint64
    BY <1>2, <1>3, <1>4, AccountAssumption DEF Uint64
  <2> QED
    BY <1>2, <2>1
<1> HIDE DEF r
<1>8. /\ next \in Accounts /\ next[x] = r
      /\ \A y \in Account : y # x => next[y] = acc[y]
  BY <1>1, <1>5, <1>7 DEF Accounts
<1>9. Kept(acc[x].balance + (0 - s), next[x].balance, K)
  BY <1>6, <1>7, <1>8
<1>10. 0 - s \in Int
  BY <1>3
<1> HIDE DEF b
<1>11. Kept(SumFunction(Holdings(acc, delayed, queue)) + (0 - s),
            SumFunction(Holdings(next, delayed, queue)), K)
  BY <1>1, <1>8, <1>9, <1>10, BalanceChange
<1> QED
  BY <1>8, <1>11 DEF next, s

\* What is delayed belongs to its staker, or to nobody.
LEMMA DelayedHoldings ==
    ASSUME NEW acc \in Accounts, NEW delayed \in Seq(Delayed),
           NEW queue, QueueOk(queue), NEW e \in Delayed,
           NEW K \in {Int, Losses}
    PROVE  Kept(SumFunction(Holdings(acc, delayed, queue)) + e.amount,
                SumFunction(Holdings(acc, Append(delayed, e), queue)), K)
<1> DEFINE next == Append(delayed, e)
           x == e.staker
           n == e.amount
           f == Holdings(acc, delayed, queue)
           g == Holdings(acc, next, queue)
<1>1. \A a : AmountsFor(a, next) = AmountsFor(a, delayed) + Amount(a, e)
  BY AmountsOfAppend
<1>2. x \in Owner /\ n \in Int
  BY AccountAssumption DEF Delayed, Owner, Uint64
<1>3. next \in Seq(Delayed)
  OBVIOUS
<1>4. Amount(x, e) = n /\ \A y : y # x => Amount(y, e) = 0
  BY DEF Amount
<1> HIDE DEF next, x, n
<1>5. /\ Summable(f, Owner) /\ Summable(g, Owner)
      /\ \A y \in Owner :
            /\ f[y] = Balance(acc, y) + Waiting(queue, y) + AmountsFor(y, delayed)
            /\ g[y] = Balance(acc, y) + Waiting(queue, y) + AmountsFor(y, next)
            /\ Balance(acc, y) \in Int /\ Waiting(queue, y) \in Int
            /\ AmountsFor(y, delayed) \in Int
  BY <1>3, HoldingsSummable
<1> HIDE DEF f, g
<1>6. \A y \in Owner : y # x => f[y] = g[y]
  BY <1>1, <1>4, <1>5
<1>7. g[x] = f[x] + n /\ f[x] + n \in Int
  <2> DEFINE b == Balance(acc, x)
             w == Waiting(queue, x)
             d == AmountsFor(x, delayed)
  <2>1. /\ f[x] = b + w + d /\ g[x] = b + w + (d + n)
        /\ b \in Int /\ w \in Int /\ d \in Int
    BY <1>1, <1>2, <1>4, <1>5
  <2> HIDE DEF b, w, d
  <2> QED
    BY <1>2, <2>1
<1>8. Kept(f[x] + n, g[x], K)
  BY <1>7, KeptSame
<1>9. Kept(SumFunction(f) + n, SumFunction(g), K)
  BY <1>2, <1>5, <1>6, <1>8, HoldingsChange
<1> QED
  BY <1>9 DEF f, g, next, n

\* The coins in the middle of a block.
CoinsOf(s, queue) == SumFunction(Holdings(s.accounts, s.delayed, queue)) + s.fees

LEMMA CoinsOfIsInt ==
    ASSUME NEW s \in RunState, NEW queue, QueueOk(queue)
    PROVE  CoinsOf(s, queue) \in Int
<1>1. s.accounts \in Accounts /\ s.delayed \in Seq(Delayed) /\ s.fees \in Int
  BY AccountAssumption DEF RunState, Uint64
<1>2. SumFunction(Holdings(s.accounts, s.delayed, queue)) \in Int
  BY <1>1, HoldingsSummable, SumIsInt
<1> QED
  BY <1>1, <1>2 DEF CoinsOf

\* A transaction moves coins, into the fees too, and makes or loses none but by
\* sums that wrap.
LEMMA TransactionKeepsCoins ==
    ASSUME NEW s \in RunState, NEW tx \in Transaction, NEW queue, QueueOk(queue),
           NEW K \in {Int, Losses}, FitsIn(K, tx)
    PROVE  /\ ExecuteTransaction(s, tx) \in RunState
           /\ Kept(CoinsOf(s, queue), CoinsOf(ExecuteTransaction(s, tx), queue), K)
<1> DEFINE n == tx.amount
           m == tx.fee
           l == s.fees
           fees == Plus(l, m)
           d == s.delayed
           acc == s.accounts
           spent == Spend(acc, tx)
           e == [staker |-> tx.to, amount |-> n]
           total == SumFunction(Holdings(acc, d, queue))
           left == SumFunction(Holdings(spent, d, queue))
<1>1. /\ acc \in Accounts /\ d \in Seq(Delayed) /\ l \in Uint64
      /\ tx.to \in Account \cup {NoStaker} /\ n \in Uint64 /\ m \in Uint64
      /\ \A i \in Uint64 : i \in Nat
      /\ CoinsOf(s, queue) = total + l
  BY AccountAssumption DEF RunState, Transaction, Uint64, CoinsOf
<1>2. CASE ~NonceIsRight(s.accounts, tx) \/ ~CanSpend(s.accounts, tx)
  <2>1. ExecuteTransaction(s, tx) = s
    BY <1>2 DEF ExecuteTransaction
  <2>2. Kept(CoinsOf(s, queue), CoinsOf(s, queue), K)
    BY CoinsOfIsInt, KeptSame
  <2> QED
    BY <2>1, <2>2
<1>3. CASE NonceIsRight(s.accounts, tx) /\ CanSpend(s.accounts, tx)
  <2>1. /\ ExecuteTransaction(s, tx) =
              [accounts |-> IF IsDelayed(tx) THEN spent ELSE Credit(spent, tx.to, n),
               delayed  |-> IF IsDelayed(tx) THEN Append(d, e) ELSE d,
               fees     |-> fees]
        /\ ~IsDelayed(tx) => tx.to \in Account
    BY <1>3 DEF ExecuteTransaction, FeesWith, Transaction, IsDelayed
  <2>2. CanSpend(acc, tx)
    BY <1>3
  <2> HIDE DEF acc, d, l
  <2>3. spent \in Accounts /\ Kept(total + (0 - (m + n)), left, K)
    BY <1>1, <2>2, SpendHoldings
  <2>4. e \in Delayed /\ e.amount = n
    BY <1>1 DEF Delayed
  <2> HIDE DEF n, m, fees, spent, e, total, left
  <2>5. fees \in Uint64 /\ Kept(l + m, fees, K)
    BY <1>1, PlusKeeps DEF fees
  <2>6. total \in Int /\ left \in Int /\ l \in Int /\ m \in Int /\ n \in Int
    <3>1. total + (0 - (m + n)) \in Int /\ left \in Int
      BY <2>3 DEF Kept
    <3>2. total \in Int
      BY <1>1, HoldingsSummable, SumIsInt DEF total
    <3> QED
      BY <1>1, <3>1, <3>2
  <2>7. ASSUME NEW new, Kept(left + n, new, K)
        PROVE  Kept(total + l, new + fees, K)
    <3>1. Kept((total + (0 - (m + n))) + n, left + n, K)
      BY <2>3, <2>6, KeptBeside
    <3>2. Kept((total + (0 - (m + n))) + n, new, K)
      BY <2>7, <3>1, KeptTransitive
    <3>3. Kept(((total + (0 - (m + n))) + n) + (l + m), new + fees, K)
      BY <2>5, <3>2, KeptTogether
    <3>4. ((total + (0 - (m + n))) + n) + (l + m) = total + l
      BY <2>6
    <3> QED
      BY <3>3, <3>4
  <2>8. CASE IsDelayed(tx)
    <3> DEFINE next == [accounts |-> spent, delayed |-> Append(d, e), fees |-> fees]
               new == SumFunction(Holdings(spent, Append(d, e), queue))
    <3>1. next \in RunState
      BY <1>1, <2>3, <2>4, <2>5 DEF RunState
    <3>2. Kept(left + n, new, K)
      BY <1>1, <2>3, <2>4, DelayedHoldings DEF left
    <3>3. CoinsOf(next, queue) = new + fees
      BY DEF CoinsOf
    <3>4. ExecuteTransaction(s, tx) = next
      BY <2>1, <2>8
    <3> HIDE DEF next, new
    <3>5. Kept(total + l, new + fees, K)
      BY <2>7, <3>2
    <3> QED
      BY <1>1, <3>1, <3>3, <3>4, <3>5
  <2>9. CASE ~IsDelayed(tx)
    <3> DEFINE x == tx.to
               paid == Credit(spent, x, n)
               next == [accounts |-> paid, delayed |-> d, fees |-> fees]
               new == SumFunction(Holdings(paid, d, queue))
    <3>1. x \in Account
      BY <2>1, <2>9
    <3>2. ExecuteTransaction(s, tx) = next
      BY <2>1, <2>9
    <3> HIDE DEF x
    <3>3. paid \in Accounts /\ Kept(left + n, new, K)
      BY <1>1, <2>3, <3>1, CreditHoldings DEF left
    <3> HIDE DEF paid
    <3>4. next \in RunState
      BY <1>1, <2>5, <3>3 DEF RunState
    <3>5. CoinsOf(next, queue) = new + fees
      BY DEF CoinsOf
    <3> HIDE DEF next, new
    <3>6. Kept(total + l, new + fees, K)
      BY <2>7, <3>3
    <3> QED
      BY <1>1, <3>2, <3>4, <3>5, <3>6
  <2> QED
    BY <2>8, <2>9
<1> QED
  BY <1>2, <1>3

\* The transactions of a block, one after the other.
LEMMA TransactionsKeepCoins ==
    ASSUME NEW s \in RunState, NEW txs \in Seq(Transaction),
           NEW queue, QueueOk(queue), NEW K \in {Int, Losses},
           \A i \in DOMAIN txs : FitsIn(K, txs[i])
    PROVE  /\ FoldLeft(ExecuteTransaction, s, txs) \in RunState
           /\ Kept(CoinsOf(s, queue),
                   CoinsOf(FoldLeft(ExecuteTransaction, s, txs), queue), K)
<1> DEFINE D == DOMAIN txs
           V == {r \in RunState : Kept(CoinsOf(s, queue), CoinsOf(r, queue), K)}
           c == [t \in SUBSET D |-> Max(t)]
           F == [i \in D |-> [r \in V |-> ExecuteTransaction(r, txs[i])]]
           R(g) == [t \in SUBSET D |-> IF t = {} THEN s
                        ELSE ExecuteTransaction(g[t \ {Max(t)}], txs[Max(t)])]
<1>1. D = 1 .. Len(txs) /\ \A i \in D : txs[i] \in Transaction
  OBVIOUS
<1>2. IsFiniteSet(D)
  BY <1>1, FS_Interval
<1>3. ASSUME NEW t \in SUBSET D, t # {} PROVE Max(t) \in t
  <2> DEFINE N == {u \in SUBSET D : u # {} => \E m \in u : \A y \in u : m >= y}
  <2>1. ASSUME NEW u \in SUBSET D, \A x \in u : u \ {x} \in N PROVE u \in N
    <3> SUFFICES ASSUME u # {} PROVE \E m \in u : \A y \in u : m >= y
      OBVIOUS
    <3>1. PICK x \in u : TRUE
      OBVIOUS
    <3>2. CASE u = {x}
      BY <1>1, <3>2
    <3>3. CASE u # {x}
      <4>1. PICK m \in u \ {x} : \A y \in u \ {x} : m >= y
        BY <2>1, <3>1, <3>3
      <4>2. m \in Int /\ x \in Int /\ \A y \in u : y \in Int
        BY <1>1, <3>1
      <4>3. CASE m >= x
        <5>1. \A y \in u : m >= y
          BY <4>1, <4>3
        <5> QED
          BY <4>1, <5>1
      <4>4. CASE ~(m >= x)
        <5>1. \A y \in u : x >= y
          BY <4>1, <4>2, <4>4
        <5> QED
          BY <3>1, <5>1
      <4> QED
        BY <4>3, <4>4
    <3> QED
      BY <3>2, <3>3
  <2>2. \A u \in SUBSET D : u \in N
    <3> HIDE DEF N, D
    <3> QED
      BY <1>2, <2>1, SubsetInduction
  <2>3. \E m \in t : \A y \in t : m >= y
    BY <1>3, <2>2
  <2> QED
    BY <2>3 DEF Max
<1>4. Chooses(c, D)
  BY <1>3 DEF Chooses
<1>5. StepsIn(F, D, V)
  <2>1. \A i \in D : \A r \in V : ExecuteTransaction(r, txs[i]) \in V
    <3> SUFFICES ASSUME NEW i \in D, NEW r \in V
                 PROVE  ExecuteTransaction(r, txs[i]) \in V
      OBVIOUS
    <3>1. /\ r \in RunState /\ Kept(CoinsOf(s, queue), CoinsOf(r, queue), K)
          /\ txs[i] \in Transaction /\ FitsIn(K, txs[i])
      BY <1>1
    <3> DEFINE tx == txs[i]
               next == ExecuteTransaction(r, tx)
    <3> HIDE DEF tx
    <3>2. /\ next \in RunState
          /\ Kept(CoinsOf(r, queue), CoinsOf(next, queue), K)
      BY <3>1, TransactionKeepsCoins DEF tx
    <3> HIDE DEF next
    <3>3. Kept(CoinsOf(s, queue), CoinsOf(next, queue), K)
      BY <3>1, <3>2, KeptTransitive
    <3> QED
      BY <3>2, <3>3 DEF next, tx
  <2> HIDE DEF V
  <2> QED
    BY <2>1 DEF StepsIn
<1>6. PICK h \in [SUBSET D -> V] : Solves(h, D, s, c, F)
  <2>1. s \in V
    BY CoinsOfIsInt, KeptSame
  <2> HIDE DEF D, V, c, F
  <2> QED
    BY <1>2, <1>4, <1>5, <2>1, Recursion
<1> HIDE DEF V
<1>7. ASSUME NEW t \in SUBSET D
      PROVE  h[t] = IF t = {} THEN s
                    ELSE ExecuteTransaction(h[t \ {Max(t)}], txs[Max(t)])
  <2>1. h[t] = IF t = {} THEN s ELSE F[c[t]][h[t \ {c[t]}]]
    BY <1>6 DEF Solves
  <2>2. ASSUME t # {}
        PROVE  F[c[t]][h[t \ {c[t]}]] = ExecuteTransaction(h[t \ {Max(t)}], txs[Max(t)])
    <3>1. c[t] = Max(t) /\ Max(t) \in D
      BY <1>3, <2>2
    <3>2. h[t \ {Max(t)}] \in V
      OBVIOUS
    <3> QED
      BY <3>1, <3>2
  <2> QED
    BY <2>1, <2>2
<1>8. h = R(h)
  BY <1>7
<1> HIDE DEF c, F
<1>9. PICK g : g = R(g) /\ FoldLeft(ExecuteTransaction, s, txs) = g[D]
  BY <1>8 DEF FoldLeft, MapThenFoldSet
<1> DEFINE G == {t \in SUBSET D : g[t] = h[t]}
<1>10. ASSUME NEW t \in SUBSET D, \A x \in t : t \ {x} \in G PROVE t \in G
  <2>1. /\ g[t] = IF t = {} THEN s
                  ELSE ExecuteTransaction(g[t \ {Max(t)}], txs[Max(t)])
    BY <1>9
  <2> QED
    BY <1>3, <1>7, <1>10, <2>1
<1>11. \A t \in SUBSET D : t \in G
  <2> HIDE DEF G, D
  <2> QED
    BY <1>2, <1>10, SubsetInduction
<1>12. FoldLeft(ExecuteTransaction, s, txs) = h[D] /\ h[D] \in V
  BY <1>9, <1>11
<1> QED
  BY <1>12 DEF V

\* What a block has delayed waits when it has been queued.
LEMMA QueuedHoldings ==
    ASSUME NEW acc \in Accounts, NEW d \in Seq(Delayed),
           NEW queue, QueueOk(queue), NEW key
    PROVE  SumFunction(Holdings(acc, d, queue)) =
              Coins(acc, Queued(queue, key, d))
<1> DEFINE next == Queued(queue, key, d)
<1>1. ASSUME NEW a \in Owner
      PROVE  Balance(acc, a) + Waiting(queue, a) + AmountsFor(a, d) =
                Balance(acc, a) + Waiting(next, a)
  <2> DEFINE b == Balance(acc, a)
             v == Waiting(queue, a)
             n == AmountsFor(a, d)
  <2>1. b \in Int /\ v \in Int /\ n \in Int
    BY HoldingsSummable
  <2>2. Waiting(next, a) = v + n
    BY QueuedWaits
  <2> HIDE DEF b, v, n, next
  <2>3. b + v + n = b + (v + n)
    BY <2>1
  <2> QED
    BY <2>2, <2>3 DEF b, v, n
<1> HIDE DEF next
<1>2. Holdings(acc, d, queue) =
         [a \in Owner |-> Balance(acc, a) + Waiting(next, a)]
  BY <1>1 DEF Holdings
<1> QED
  BY <1>2 DEF Coins, next, Owner

\* What a block with the result r has made of the accounts and the queue.
KeptBy(acc, queue, key, r, K) ==
    /\ r.accounts \in Accounts
    /\ QueueOk(Queued(queue, key, r.delayed))
    /\ Kept(Coins(acc, queue),
            Coins(r.accounts, Queued(queue, key, r.delayed)), K)

\* A block moves coins and makes or loses none but by sums that wrap.
LEMMA BlockKeepsCoins ==
    ASSUME NEW acc \in Accounts, NEW queue, QueueOk(queue), NEW key,
           NEW block, block.creator \in Account,
           block.transactions \in Seq(Transaction),
           NEW K \in {Int, Losses},
           \A i \in DOMAIN block.transactions : FitsIn(K, block.transactions[i])
    PROVE  KeptBy(acc, queue, key, ApplyTransactions(acc, block), K)
<1> DEFINE first == [accounts |-> acc, delayed |-> <<>>, fees |-> 0]
           txs == block.transactions
           last == FoldLeft(ExecuteTransaction, first, txs)
           after == ApplyTransactions(acc, block)
<1>1. /\ first \in RunState /\ txs \in Seq(Transaction)
      /\ \A i \in DOMAIN txs : FitsIn(K, txs[i])
  BY AccountAssumption DEF RunState, Uint64
<1>2. CoinsOf(first, queue) = Coins(acc, queue)
  <2>1. <<>> \in Seq(Delayed) /\ Queued(queue, key, <<>>) = queue
    BY DEF Queued
  <2>2. SumFunction(Holdings(acc, <<>>, queue)) = Coins(acc, queue)
    BY <2>1, QueuedHoldings
  <2>3. SumFunction(Holdings(acc, <<>>, queue)) \in Int
    BY <2>1, HoldingsSummable, SumIsInt
  <2>4. /\ first.accounts = acc /\ first.delayed = <<>> /\ first.fees = 0
    OBVIOUS
  <2> HIDE DEF first
  <2>5. CoinsOf(first, queue) = SumFunction(Holdings(acc, <<>>, queue)) + 0
    BY <2>4 DEF CoinsOf
  <2> QED
    BY <2>2, <2>3, <2>5
<1>3. after = [accounts |-> Credit(last.accounts, block.creator, last.fees),
               delayed |-> last.delayed]
  BY DEF ApplyTransactions
<1> HIDE DEF first, txs, last, after
<1>4. last \in RunState /\ Kept(Coins(acc, queue), CoinsOf(last, queue), K)
  BY <1>1, <1>2, TransactionsKeepCoins DEF last
<1> DEFINE x == block.creator
           d == last.delayed
           n == last.fees
           l == last.accounts
           paid == Credit(l, x, n)
           new == SumFunction(Holdings(paid, d, queue))
<1>5. x \in Account /\ d \in Seq(Delayed) /\ n \in Uint64 /\ l \in Accounts
  BY <1>4 DEF RunState
<1>6. /\ CoinsOf(last, queue) = SumFunction(Holdings(l, d, queue)) + n
      /\ after.accounts = paid /\ after.delayed = d
  BY <1>3 DEF CoinsOf
<1> HIDE DEF x, d, n, l
<1>7. paid \in Accounts /\ Kept(CoinsOf(last, queue), new, K)
  BY <1>5, <1>6, CreditHoldings
<1> HIDE DEF paid
<1>8. new = Coins(paid, Queued(queue, key, d)) /\ QueueOk(Queued(queue, key, d))
  BY <1>5, <1>7, QueuedHoldings, QueuedWaits
<1> HIDE DEF new
<1>9. Kept(Coins(acc, queue), new, K)
  BY <1>4, <1>7, KeptTransitive
<1> QED
  BY <1>6, <1>7, <1>8, <1>9 DEF after, KeptBy

\* A sum of what is not negative is not negative.
LEMMA SumIsNat ==
    ASSUME NEW D, NEW f, Summable(f, D), \A x \in D : f[x] >= 0
    PROVE  SumFunction(f) \in Nat
<1> DEFINE G == {T \in SUBSET D : SumFunctionOnSet(f, T) >= 0}
<1>1. ASSUME NEW T \in SUBSET D, \A x \in T : T \ {x} \in G PROVE T \in G
  <2>1. CASE T = {}
    BY <2>1, SumFacts
  <2>2. CASE T # {}
    <3>1. PICK x \in T : TRUE
      BY <2>2
    <3>2. /\ SumFunctionOnSet(f, T) = f[x] + SumFunctionOnSet(f, T \ {x})
          /\ SumFunctionOnSet(f, T \ {x}) \in Int
      BY SumFacts
    <3>3. f[x] \in Int /\ f[x] >= 0
      BY DEF Summable
    <3> QED
      BY <1>1, <3>2, <3>3
  <2> QED
    BY <2>1, <2>2
<1>2. \A T \in SUBSET D : T \in G
  <2> HIDE DEF G
  <2> QED
    BY <1>1, SubsetInduction DEF Summable
<1>3. DOMAIN f = D
  BY DEF Summable
<1>4. SumFunctionOnSet(f, D) \in Int
  BY SumFacts
<1> QED
  BY <1>2, <1>3, <1>4 DEF SumFunction

\* What waits is not negative.
LEMMA WaitingIsNat ==
    ASSUME NEW queue, QueueOk(queue), NEW a
    PROVE  Waiting(queue, a) \in Nat
<1>1. ASSUME NEW q \in Seq(Delayed) PROVE AmountsFor(a, q) >= 0
  <2> DEFINE f == Amounts(a, q)
             D == 1 .. Len(q)
  <2>1. \A e \in Delayed : Amount(a, e) >= 0
    BY AccountAssumption DEF Amount, Delayed, Uint64
  <2>2. \A i \in D : q[i] \in Delayed
    OBVIOUS
  <2>3. \A i \in D : f[i] >= 0
    BY <2>1, <2>2, AmountsFunction
  <2>4. Summable(f, D) /\ AmountsFor(a, q) = SumFunction(f)
    BY AmountsFunction
  <2> HIDE DEF f, D
  <2>5. SumFunction(f) \in Nat
    BY <2>3, <2>4, SumIsNat
  <2> QED
    BY <2>4, <2>5
<1> DEFINE f == Waits(a, queue)
           D == DOMAIN queue
<1>2. \A key \in D : f[key] >= 0
  BY <1>1 DEF QueueOk, Waits
<1>3. Summable(f, D) /\ Waiting(queue, a) = SumFunction(f)
  BY WaitsFunction
<1> HIDE DEF f, D
<1> QED
  BY <1>2, <1>3, SumIsNat

\* Where every member is kept, the sum is.
LEMMA SumsAreKept ==
    ASSUME NEW D, NEW f, NEW g, Summable(f, D), Summable(g, D),
           NEW K \in {Int, Losses}, \A x \in D : Kept(f[x], g[x], K)
    PROVE  Kept(SumFunction(f), SumFunction(g), K)
<1> DEFINE G == {T \in SUBSET D :
                    Kept(SumFunctionOnSet(f, T), SumFunctionOnSet(g, T), K)}
<1>1. ASSUME NEW T \in SUBSET D, \A x \in T : T \ {x} \in G PROVE T \in G
  <2>1. CASE T = {}
    <3>1. SumFunctionOnSet(f, T) = 0 /\ SumFunctionOnSet(g, T) = 0
      BY <2>1, SumFacts
    <3>2. Kept(0, 0, K)
      BY KeptSame
    <3> QED
      BY <3>1, <3>2
  <2>2. CASE T # {}
    <3>1. PICK x \in T : TRUE
      BY <2>2
    <3>2. /\ SumFunctionOnSet(f, T) = f[x] + SumFunctionOnSet(f, T \ {x})
          /\ SumFunctionOnSet(g, T) = g[x] + SumFunctionOnSet(g, T \ {x})
      BY SumFacts
    <3>3. /\ Kept(f[x], g[x], K)
          /\ Kept(SumFunctionOnSet(f, T \ {x}), SumFunctionOnSet(g, T \ {x}), K)
      BY <1>1
    <3>4. Kept(f[x] + SumFunctionOnSet(f, T \ {x}),
               g[x] + SumFunctionOnSet(g, T \ {x}), K)
      BY <3>3, KeptTogether
    <3> QED
      BY <3>2, <3>4
  <2> QED
    BY <2>1, <2>2
<1>2. \A T \in SUBSET D : T \in G
  <2> HIDE DEF G
  <2> QED
    BY <1>1, SubsetInduction DEF Summable
<1>3. DOMAIN f = D /\ DOMAIN g = D
  BY DEF Summable
<1> QED
  BY <1>2, <1>3 DEF SumFunction

\* What belongs to the owners between two blocks.
Belongings(acc, queue) == [a \in Owner |-> Balance(acc, a) + Waiting(queue, a)]

LEMMA BelongingsSummable ==
    ASSUME NEW acc \in Accounts, NEW queue, QueueOk(queue)
    PROVE  /\ Summable(Belongings(acc, queue), Owner)
           /\ Coins(acc, queue) = SumFunction(Belongings(acc, queue))
           /\ Coins(acc, queue) \in Nat
<1>1. \A a \in Owner : Balance(acc, a) + Waiting(queue, a) \in Nat
  BY BalanceIsNat, WaitingIsNat
<1>2. IsFiniteSet(Owner)
  BY AccountAssumption, FS_AddElement DEF Owner
<1> DEFINE f == Belongings(acc, queue)
<1>3. Summable(f, Owner) /\ \A a \in Owner : f[a] >= 0
  BY <1>1, <1>2 DEF Belongings, Summable
<1>4. Coins(acc, queue) = SumFunction(f)
  BY DEF Coins, Owner, Belongings
<1> HIDE DEF f
<1>5. SumFunction(f) \in Nat
  BY <1>3, SumIsNat
<1> QED
  BY <1>3, <1>4, <1>5 DEF f

\* A refund gives back what waits, except what waits for nobody.
LEMMA RefundKeepsCoins ==
    ASSUME NEW acc \in Accounts, NEW queue, QueueOk(queue), NEW K \in {Int, Losses}
    PROVE  /\ RefundPendingStakes(acc, queue) \in Accounts
           /\ Kept(Coins(acc, queue),
                   Coins(RefundPendingStakes(acc, queue), EmptyQueue)
                       + Waiting(queue, NoStaker), K)
<1> DEFINE next == RefundPendingStakes(acc, queue)
           lost == Waiting(queue, NoStaker)
           f == Belongings(acc, queue)
           g == Belongings(next, EmptyQueue)
           m == [a \in Owner |-> IF a = NoStaker THEN 0 ELSE f[a]]
<1>1. ASSUME NEW a \in Account
      PROVE  /\ next[a] \in [balance : Uint64, nonce : Nat]
             /\ Kept(acc[a].balance + Waiting(queue, a), next[a].balance, K)
  <2> DEFINE b == acc[a].balance
             v == Waiting(queue, a)
             r == [acc[a] EXCEPT !.balance = Plus(b, v)]
  <2>1. acc[a] \in [balance : Uint64, nonce : Nat] /\ b \in Nat
    BY AccountAssumption DEF Accounts, Uint64
  <2>2. next[a] = r
    BY DEF RefundPendingStakes
  <2>3. v \in Nat
    BY WaitingIsNat
  <2>4. Plus(b, v) \in Uint64 /\ Kept(b + v, Plus(b, v), K)
    BY <2>1, <2>3, PlusKeeps
  <2>5. r \in [balance : Uint64, nonce : Nat] /\ r.balance = Plus(b, v)
    BY <2>1, <2>4
  <2> HIDE DEF r, next
  <2> QED
    BY <2>2, <2>4, <2>5
<1>2. next = [a \in Account |-> next[a]]
  BY DEF RefundPendingStakes
<1> HIDE DEF next
<1>3. next \in Accounts
  BY <1>1, <1>2 DEF Accounts
<1>4. /\ Summable(f, Owner) /\ Coins(acc, queue) = SumFunction(f)
      /\ Summable(g, Owner) /\ Coins(next, EmptyQueue) = SumFunction(g)
  BY <1>3, BelongingsSummable, NothingWaits
<1>5. /\ NoStaker \in Owner /\ f[NoStaker] = lost /\ g[NoStaker] = 0
      /\ lost \in Int
  <2>1. lost \in Int
    BY WaitingIsNat
  <2>2. NoStaker \in Owner /\ NoStaker \notin Account
    BY AccountAssumption DEF Owner
  <2>3. f[NoStaker] = 0 + lost /\ g[NoStaker] = 0 + 0
    BY <2>2, NothingWaits DEF Belongings, Balance
  <2> QED
    BY <2>1, <2>2, <2>3
<1>6. Summable(m, Owner) /\ \A a \in Owner : a # NoStaker => f[a] = m[a]
  <2>1. IsFiniteSet(Owner) /\ \A a \in Owner : f[a] \in Int
    BY <1>4 DEF Summable
  <2> QED
    BY <2>1 DEF Summable
<1>7. m[NoStaker] = 0
  BY <1>5
<1>8. ASSUME NEW a \in Owner PROVE Kept(m[a], g[a], K)
  <2>1. CASE a = NoStaker
    <3>1. Kept(0, 0, K)
      BY KeptSame
    <3> QED
      BY <1>5, <1>7, <2>1, <3>1
  <2>2. CASE a # NoStaker
    <3>1. a \in Account
      BY <2>2 DEF Owner
    <3>2. m[a] = acc[a].balance + Waiting(queue, a)
      BY <2>2, <3>1 DEF Belongings, Balance
    <3>3. next[a].balance \in Int
      BY <1>1, <3>1, AccountAssumption DEF Uint64
    <3>4. g[a] = next[a].balance
      BY <3>1, <3>3, NothingWaits DEF Belongings, Balance
    <3> QED
      BY <1>1, <3>1, <3>2, <3>4
  <2> QED
    BY <2>1, <2>2
<1> HIDE DEF f, g, m, lost
<1>9. Kept(SumFunction(m), SumFunction(g), K)
  BY <1>4, <1>6, <1>8, SumsAreKept
<1>10. SumFunction(f) \in Int /\ SumFunction(m) = SumFunction(f) + m[NoStaker] - f[NoStaker]
  BY <1>4, <1>5, <1>6, SumChanges
<1>11. SumFunction(m) + lost = SumFunction(f)
  BY <1>5, <1>7, <1>10
<1>12. Kept(SumFunction(m) + lost, SumFunction(g) + lost, K)
  BY <1>5, <1>9, KeptBeside
<1> QED
  BY <1>3, <1>4, <1>11, <1>12 DEF next, lost

-----------------------------------------------------------------------------
(* From block to block and from era to era.                                    *)

LostAt(w, e) == Waiting(w.ledger[e][LastOf(w, e)].queue, NoStaker)

LostBefore(w, e) == SumFunction([x \in 0 .. e - 1 |-> LostAt(w, x)])

SupplyOf(w) == Coins(w.ledger[0][-1].accounts, EmptyQueue)

\* The ledger of the era e after the block h has, with what has been lost since,
\* the coins of the genesis.
KeepsCoins(w, e, h, K) ==
    /\ w.ledger[e][h].accounts \in Accounts
    /\ QueueOk(w.ledger[e][h].queue)
    /\ Kept(SupplyOf(w),
            Coins(w.ledger[e][h].accounts, w.ledger[e][h].queue)
                + LostBefore(w, e), K)

LossesAreCounted(w, e) == \A x \in 0 .. e - 1 : LostAt(w, x) \in Nat

\* What has been lost is a sum over the eras.
LEMMA LostIsNat ==
    ASSUME NEW w, NEW e \in Nat, LossesAreCounted(w, e)
    PROVE  /\ LostBefore(w, e) \in Nat
           /\ LostAt(w, e) \in Nat =>
                 LostBefore(w, e + 1) = LostBefore(w, e) + LostAt(w, e)
<1> DEFINE D == 0 .. e - 1
           E == 0 .. e + 1 - 1
           f == [x \in D |-> LostAt(w, x)]
           g == [x \in E |-> LostAt(w, x)]
<1>1. IsFiniteSet(D) /\ IsFiniteSet(E) /\ e \in E /\ E \ {e} = D
  <2>1. 0 \in Int /\ e - 1 \in Int /\ e + 1 - 1 \in Int
    OBVIOUS
  <2>2. IsFiniteSet(D) /\ IsFiniteSet(E)
    BY <2>1, FS_Interval
  <2>3. e \in E /\ E \ {e} = D
    OBVIOUS
  <2> QED
    BY <2>2, <2>3
<1>2. Summable(f, D) /\ \A x \in D : f[x] >= 0
  BY <1>1 DEF LossesAreCounted, Summable
<1>3. LostBefore(w, e) = SumFunction(f) /\ LostBefore(w, e + 1) = SumFunction(g)
  BY DEF LostBefore
<1>4. ASSUME LostAt(w, e) \in Nat
      PROVE  /\ Summable(g, E) /\ g[e] = LostAt(w, e)
             /\ \A y \in D : f[y] = g[y]
  <2>1. \A x \in E : LostAt(w, x) \in Int
    BY <1>1, <1>4 DEF LossesAreCounted
  <2> QED
    BY <1>1, <2>1 DEF Summable
<1> HIDE DEF D, E, f, g
<1>5. SumFunction(f) \in Nat
  BY <1>2, SumIsNat
<1>6. LostAt(w, e) \in Nat => SumFunction(g) = SumFunction(f) + g[e]
  BY <1>1, <1>2, <1>4, SumExtends
<1> QED
  BY <1>3, <1>4, <1>5, <1>6

\* With Losses, no transaction of the chain has a sum that wraps.
ChainFitsIn(K, w) ==
    \A e \in Era : \A h \in 0 .. w.top[e] :
        LET txs == w.block[e][h].transactions
        IN  \A i \in DOMAIN txs : FitsIn(K, txs[i])

\* Within an era, block by block.
LEMMA EraKeepsCoins ==
    ASSUME NEW w \in Chains, NEW e \in Era, NEW K \in {Int, Losses},
           ChainFitsIn(K, w), KeepsCoins(w, e, -1, K), LossesAreCounted(w, e)
    PROVE  \A h \in -1 .. w.top[e] : KeepsCoins(w, e, h, K)
<1> DEFINE G == {n \in Nat : n <= w.top[e] + 1 => KeepsCoins(w, e, n - 1, K)}
<1>1. 0 \in G
  OBVIOUS
<1>2. w.top[e] \in Nat /\ e \in Nat
  BY ExecutionAssumption, EraFacts DEF Era
<1>3. ASSUME NEW n \in Nat, n \in G PROVE n + 1 \in G
  <2> SUFFICES ASSUME n + 1 <= w.top[e] + 1 PROVE KeepsCoins(w, e, n, K)
    OBVIOUS
  <2>1. n \in 0 .. w.top[e] /\ KeepsCoins(w, e, n - 1, K)
    BY <1>2, <1>3
  <2> DEFINE before == w.ledger[e][n - 1]
             block == w.block[e][n]
             key == DelayedTransactionsKey(e, w.startEpoch[e] + block.epoch)
             after == ApplyTransactions(before.accounts, block)
             lost == LostBefore(w, e)
  <2>2. /\ block.creator \in Account /\ block.transactions \in Seq(Transaction)
        /\ w.ledger[e][n] = [accounts |-> after.accounts,
                             queue |-> Queued(before.queue, key, after.delayed)]
    <3>1. ChainOk(w)
      BY ExecutionAssumption
    <3> QED
      BY <2>1, <3>1 DEF ChainOk, BlocksOk
  <2>3. \A i \in DOMAIN block.transactions : FitsIn(K, block.transactions[i])
    BY <2>1 DEF ChainFitsIn
  <2> DEFINE a == before.accounts
             q == before.queue
             c == after.accounts
             r == Queued(q, key, after.delayed)
  <2>4. /\ a \in Accounts /\ QueueOk(q)
        /\ Kept(SupplyOf(w), Coins(a, q) + lost, K)
    BY <2>1 DEF KeepsCoins
  <2>5. lost \in Int
    BY <1>2, LostIsNat
  <2>6. w.ledger[e][n].accounts = c /\ w.ledger[e][n].queue = r
    BY <2>2
  <2> HIDE DEF a, q, block, key, lost, G
  <2>7. KeptBy(a, q, key, ApplyTransactions(a, block), K)
    BY <2>2, <2>3, <2>4, BlockKeepsCoins
  <2>8. /\ c \in Accounts /\ QueueOk(r)
        /\ Kept(Coins(a, q), Coins(c, r), K)
    BY <2>7 DEF KeptBy, a
  <2> HIDE DEF after, c, r
  <2>9. Kept(Coins(a, q) + lost, Coins(c, r) + lost, K)
    BY <2>5, <2>8, KeptBeside
  <2>10. Kept(SupplyOf(w), Coins(c, r) + lost, K)
    BY <2>4, <2>9, KeptTransitive
  <2> QED
    BY <2>6, <2>8, <2>10 DEF KeepsCoins, lost
<1>4. \A n \in Nat : n \in G
  <2> HIDE DEF G
  <2> QED
    BY <1>1, <1>3, Counting
<1>5. ASSUME NEW h \in -1 .. w.top[e] PROVE KeepsCoins(w, e, h, K)
  <2>1. h + 1 \in Nat /\ h + 1 <= w.top[e] + 1 /\ h + 1 - 1 = h
    BY <1>2
  <2> QED
    BY <1>4, <2>1
<1> QED
  BY <1>5

\* And from era to era, by what the recovery refunds.
LEMMA LedgerKeepsCoins ==
    ASSUME NEW w \in Chains, NEW K \in {Int, Losses}, ChainFitsIn(K, w)
    PROVE  \A e \in Era : /\ LossesAreCounted(w, e)
                          /\ \A h \in -1 .. w.top[e] : KeepsCoins(w, e, h, K)
<1> DEFINE G == {e \in Nat : e <= LastEra =>
                    LossesAreCounted(w, e) /\ KeepsCoins(w, e, -1, K)}
<1>1. w.ledger[0][-1].accounts \in Accounts /\ w.ledger[0][-1].queue = EmptyQueue
  BY ExecutionAssumption DEF ChainOk
<1>2. 0 \in G
  <2>1. LossesAreCounted(w, 0)
    BY DEF LossesAreCounted
  <2>2. LostBefore(w, 0) = 0
    <3> DEFINE f == [x \in 0 .. 0 - 1 |-> LostAt(w, x)]
    <3>1. 0 .. 0 - 1 = {} /\ IsFiniteSet({})
      BY FS_EmptySet
    <3>2. Summable(f, {})
      BY <3>1 DEF Summable
    <3> HIDE DEF f
    <3>3. SumFunction(f) = 0
      BY <3>2, SumIsInt
    <3> QED
      BY <3>3 DEF f, LostBefore
  <2>3. SupplyOf(w) \in Int
    BY <1>1, NothingWaits, BelongingsSummable DEF SupplyOf
  <2>4. Kept(SupplyOf(w), SupplyOf(w) + LostBefore(w, 0), K)
    BY <2>2, <2>3, KeptSame
  <2>5. KeepsCoins(w, 0, -1, K)
    BY <1>1, <2>4, NothingWaits DEF KeepsCoins, SupplyOf
  <2> QED
    BY <2>1, <2>5
<1>3. ASSUME NEW e \in Nat, e \in G PROVE e + 1 \in G
  <2> SUFFICES ASSUME e + 1 <= LastEra
               PROVE  LossesAreCounted(w, e + 1) /\ KeepsCoins(w, e + 1, -1, K)
    OBVIOUS
  <2>1. /\ e \in 0 .. LastEra - 1 /\ e \in Era
        /\ LossesAreCounted(w, e) /\ KeepsCoins(w, e, -1, K)
    BY <1>3, ExecutionAssumption DEF Era
  <2> DEFINE l == w.ledger[e][LastOf(w, e)]
             a == l.accounts
             q == l.queue
             refunded == RefundPendingStakes(a, q)
             lost == LostBefore(w, e)
             n == Waiting(q, NoStaker)
  <2>2. /\ LastOf(w, e) \in -1 .. w.top[e]
        /\ w.ledger[e + 1][-1] = [accounts |-> refunded, queue |-> EmptyQueue]
    BY <2>1, PlanFacts
  <2>3. KeepsCoins(w, e, LastOf(w, e), K)
    BY <2>1, <2>2, EraKeepsCoins
  <2>4. /\ a \in Accounts /\ QueueOk(q)
        /\ Kept(SupplyOf(w), Coins(a, q) + lost, K)
    BY <2>3 DEF KeepsCoins
  <2>5. LostAt(w, e) = n
    BY DEF LostAt
  <2> HIDE DEF l, a, q, G
  <2>6. n \in Nat
    BY <2>4, WaitingIsNat
  <2>7. LossesAreCounted(w, e + 1)
    <3>1. \A x \in 0 .. e + 1 - 1 : x \in 0 .. e - 1 \/ x = e
      OBVIOUS
    <3> QED
      BY <2>1, <2>5, <2>6, <3>1 DEF LossesAreCounted
  <2>8. /\ refunded \in Accounts
        /\ Kept(Coins(a, q), Coins(refunded, EmptyQueue) + n, K)
    BY <2>4, RefundKeepsCoins
  <2> HIDE DEF n, refunded
  <2>9. lost \in Int /\ LostBefore(w, e + 1) = lost + n
    BY <2>1, <2>5, <2>6, LostIsNat
  <2>10. Coins(refunded, EmptyQueue) \in Int
    BY <2>8, NothingWaits, BelongingsSummable
  <2> DEFINE c == Coins(refunded, EmptyQueue)
  <2> HIDE DEF lost, c
  <2>11. Kept(Coins(a, q) + lost, (c + n) + lost, K)
    BY <2>8, <2>9, KeptBeside DEF c
  <2>12. (c + n) + lost = c + LostBefore(w, e + 1)
    BY <2>6, <2>9, <2>10 DEF c
  <2>13. Kept(SupplyOf(w), c + LostBefore(w, e + 1), K)
    BY <2>4, <2>11, <2>12, KeptTransitive
  <2>14. KeepsCoins(w, e + 1, -1, K)
    BY <2>2, <2>8, <2>13, NothingWaits DEF KeepsCoins, c
  <2> QED
    BY <2>7, <2>14
<1>4. \A e \in Nat : e \in G
  <2> HIDE DEF G
  <2> QED
    BY <1>2, <1>3, Counting
<1>5. ASSUME NEW e \in Era PROVE LossesAreCounted(w, e) /\ KeepsCoins(w, e, -1, K)
  BY <1>4, ExecutionAssumption DEF Era
<1> QED
  BY <1>5, EraKeepsCoins

\* Whatever the blocks have in them, what the database has of the accounts and of
\* the queue, and what recoveries have deleted without a refund, comes to the
\* coins of the genesis modulo 2^64, and exactly to them if no transaction's fee
\* and amount wrap, after any blocks, recoveries and stops.
THEOREM CoinsKept == Spec => []CoinsAreConserved
<1>1. ASSUME IndInv PROVE CoinsAreConserved
  <2> DEFINE e == state.cursor.era
             h == state.cursor.lastLocal
             here == Coins(state.accounts, state.queue)
             lost == NotRefunded(e)
  <2> SUFFICES ASSUME QuietBoundaries
               PROVE  /\ ((here + lost) - Supply) % Modulus = 0
                      /\ SpendsFit => here + lost = Supply
    BY DEF CoinsAreConserved
  <2>1. /\ chain \in Chains
        /\ e \in Era /\ h \in Nat \cup {-1} /\ h <= LastOf(chain, e)
    BY <1>1 DEF IndInv, Good, CursorOk, ChainCursor
  <2>2. /\ state.accounts = chain.ledger[e][h].accounts
        /\ state.queue = chain.ledger[e][h].queue
    BY <1>1 DEF IndInv, Good, LedgerOk, QuietBoundaries, NoStakeAtTheEnd
  <2> HIDE DEF e, h
  <2>3. LastOf(chain, e) \in 0 .. chain.top[e] /\ chain.top[e] \in Nat
    BY <2>1, LastInRange, EraFacts
  <2>4. h \in -1 .. chain.top[e] /\ e \in 0 .. LastEra
    BY <2>1, <2>3 DEF Era
  <2>5. lost = LostBefore(chain, e) /\ Supply = SupplyOf(chain)
    <3>1. \A x \in 0 .. e - 1 :
             LastOf(chain, x) = chain.plan[x].lastAbsoluteHeight - chain.start[x]
      BY <2>4, ExecutionAssumption DEF LastOf
    <3>2. [x \in 0 .. e - 1 |-> LostAt(chain, x)] =
             [x \in 0 .. e - 1 |->
                 LET last == chain.plan[x].lastAbsoluteHeight - chain.start[x]
                 IN  Waiting(chain.ledger[x][last].queue, NoStaker)]
      BY <3>1 DEF LostAt
    <3> QED
      BY <3>2 DEF LostBefore, NotRefunded, Supply, SupplyOf
  <2> HIDE DEF lost
  <2>6. ASSUME NEW K \in {Int, Losses}, ChainFitsIn(K, chain)
        PROVE  /\ Kept(Supply, here + lost, K)
               /\ here + lost \in Nat /\ Supply \in Nat
    <3>1. LossesAreCounted(chain, e) /\ KeepsCoins(chain, e, h, K)
      BY <2>1, <2>4, <2>6, LedgerKeepsCoins
    <3>2. lost \in Nat
      BY <2>4, <2>5, <3>1, LostIsNat
    <3>3. here \in Nat
      BY <2>2, <3>1, BelongingsSummable DEF KeepsCoins
    <3>4. SupplyOf(chain) \in Nat
      <4>1. chain.ledger[0][-1].accounts \in Accounts
        BY <2>1, ExecutionAssumption DEF ChainOk
      <4> QED
        BY <4>1, NothingWaits, BelongingsSummable DEF SupplyOf
    <3>5. Kept(Supply, here + lost, K)
      BY <2>2, <2>5, <3>1 DEF KeepsCoins
    <3> HIDE DEF here
    <3> QED
      BY <2>5, <3>2, <3>3, <3>4, <3>5
  <2> HIDE DEF here
  <2>7. ((here + lost) - Supply) % Modulus = 0
    <3>1. Int \in {Int, Losses} /\ Int # Losses
      <4>1. 1 \in Int /\ 1 \notin Losses
        BY DEF Losses
      <4> QED
        BY <4>1
    <3>2. ChainFitsIn(Int, chain)
      BY <3>1 DEF ChainFitsIn, FitsIn
    <3> QED
      BY <2>6, <3>1, <3>2, KeptModulo
  <2>8. ASSUME SpendsFit PROVE here + lost = Supply
    <3>1. Losses \in {Int, Losses} /\ ChainFitsIn(Losses, chain) /\ Supply < Modulus
      BY <2>8 DEF SpendsFit, ChainFitsIn, FitsIn
    <3>2. /\ Kept(Supply, here + lost, Losses)
          /\ here + lost \in Nat /\ Supply \in Nat
      BY <2>6, <3>1
    <3> QED
      BY <3>1, <3>2, KeptExactly
  <2> QED
    BY <2>7, <2>8
<1> QED
  BY <1>1, IndInvHolds, PTL
=============================================================================
