------------------------ MODULE EpochRotation_proofs ------------------------
(***************************************************************************)
(* Proofs about EpochRotation, for any validators and stakers, any         *)
(* genesis, any batches of delayed transactions, caches of any size, and   *)
(* any number of epochs and stops.  What sums come to is in                *)
(* Execution_proofs.                                                       *)
(*                                                                         *)
(* A batch is a fold over the store of a thread, with evictions in         *)
(* between.  Each transaction is shown to do to the View of the store what *)
(* it does without a cache (Transparent), and so does the batch            *)
(* (BatchRun): two contexts that agree are made the same by it             *)
(* (AlikeBatch), storages keep adding up (BatchStakes), and the registry   *)
(* keeps up with them (BatchRegistry).  Between two batches the memory of  *)
(* a store has what the database has (Settled), also while reads without   *)
(* the lock are under way (Faithful).  The rest is one invariant for each  *)
(* property, on top of the course of the node's life (Course).             *)
(*                                                                         *)
(* The second part is about the selection, with caches of any size and     *)
(* with objects that both threads change: the tree of WeightedSelection    *)
(* has the sums of the stakes that its nodes have, when it is new and      *)
(* after each removal (Sums), so that the descent finds the place to which *)
(* a number falls (Finds), and draws are without replacement (Drawing).    *)
(* What the selection is made from, and what it comes to, is one invariant *)
(* of the stores and handlers (Stores).                                    *)
(***************************************************************************)
EXTENDS EpochRotation, Execution_proofs

HIDE ExecutionAssumption
HIDE StoreAssumption
HIDE RotationAssumption

-----------------------------------------------------------------------------
(* Lists that are gone through by FoldLeft *)

\* The steps of the lists that are gone through, by names.
Do(k, s, x) ==
    CASE k[1] = "delayed" -> ExecuteDelayedTransaction(s, x)
      [] k[1] = "evict"   -> EvictStep(s, x)
      [] k[1] = "genesis" -> PutGenesisValidator(s, x)
      [] k[1] = "get"     -> GetValidator(s, x)
      [] k[1] = "read"    -> ReadWithoutLock(s, x)
      [] k[1] = "apart"   -> SetApart(s, x)
      [] k[1] = "sum"     -> s + x
      [] k[1] = "parent"  -> AddToParent(s, x)
      [] k[1] = "remove"  -> RemoveStake(s, x, k[2][x + 1])
      [] k[1] = "descend" -> Descend(k[2], s, x)
      [] k[1] = "draw"    -> DrawNext(k[2], k[3], k[4], s, x)
      [] k[1] = "known"   -> AppendKnown(k[2], s, x)

\* A set of places of a list has a greatest one.
LEMMA MaxOfPlaces ==
    ASSUME NEW n \in Nat, NEW t \in SUBSET (1 .. n), t # {}
    PROVE  Max(t) \in t
<1> DEFINE D == 1 .. n
           N == {u \in SUBSET D : u # {} => \E m \in u : \A y \in u : m >= y}
<1>1. ASSUME NEW u \in SUBSET D, \A x \in u : u \ {x} \in N PROVE u \in N
  <2> SUFFICES ASSUME u # {} PROVE \E m \in u : \A y \in u : m >= y
    OBVIOUS
  <2>1. PICK x \in u : TRUE
    OBVIOUS
  <2>2. CASE u = {x}
    BY <2>2
  <2>3. CASE u # {x}
    <3>1. PICK m \in u \ {x} : \A y \in u \ {x} : m >= y
      BY <1>1, <2>1, <2>3
    <3>2. m \in Int /\ x \in Int /\ \A y \in u : y \in Int
      BY <2>1
    <3>3. CASE m >= x
      <4>1. \A y \in u : m >= y
        BY <3>1, <3>3
      <4> QED
        BY <3>1, <4>1
    <3>4. CASE ~(m >= x)
      <4>1. \A y \in u : x >= y
        BY <3>1, <3>2, <3>4
      <4> QED
        BY <2>1, <4>1
    <3> QED
      BY <3>3, <3>4
  <2> QED
    BY <2>2, <2>3
<1>2. IsFiniteSet(D)
  BY FS_Interval
<1>3. \A u \in SUBSET D : u \in N
  <2> HIDE DEF N, D
  <2> QED
    BY <1>1, <1>2, SubsetInduction
<1>4. \E m \in t : \A y \in t : m >= y
  BY <1>3
<1> QED
  BY <1>4 DEF Max

\* The function that FoldLeft defines with such a step.
DoFold(k, base, q, g) ==
    [t \in SUBSET DOMAIN q |-> IF t = {} THEN base
                               ELSE Do(k, g[t \ {Max(t)}], q[Max(t)])]

\* A list of n members.
List(q, n) == n \in Nat /\ DOMAIN q = 1 .. n

\* What FoldLeft chooses exists.
LEMMA FoldExists ==
    ASSUME NEW k, NEW base, NEW q, NEW n, List(q, n)
    PROVE  \E h : h = DoFold(k, base, q, h)
<1> DEFINE D == 1 .. n
           Upto(m) == {t \in SUBSET D : Cardinality(t) <= m}
           Step(h, t) == IF t = {} THEN base
                         ELSE Do(k, h[t \ {Max(t)}], q[Max(t)])
           G == {m \in Nat : \E h : h = [t \in Upto(m) |-> Step(h, t)]}
<1> n \in Nat /\ DOMAIN q = 1 .. n
  BY DEF List
<1>1. \A t \in SUBSET D : /\ IsFiniteSet(t) /\ Cardinality(t) \in Nat
                          /\ Cardinality(t) <= Cardinality(D)
                          /\ Cardinality(t) = 0 => t = {}
                          /\ \A x \in t : Cardinality(t \ {x}) = Cardinality(t) - 1
  <2>1. IsFiniteSet(D)
    BY FS_Interval
  <2> HIDE DEF D
  <2> QED
    BY <2>1, FS_Subset, FS_CardinalityType, FS_RemoveElement, FS_EmptySet
<1>2. Cardinality(D) \in Nat /\ D \in SUBSET D
  BY <1>1
<1>3. \A t \in SUBSET D : t # {} => Max(t) \in t
  BY MaxOfPlaces
<1> HIDE DEF D
<1>4. 0 \in G
  <2> DEFINE h == [t \in Upto(0) |-> base]
  <2>1. \A t \in Upto(0) : t = {}
    BY <1>1
  <2>2. \A t \in Upto(0) : base = Step(h, t)
    BY <2>1
  <2>3. h = [t \in Upto(0) |-> Step(h, t)]
    BY <2>2
  <2> QED
    BY <2>3
<1>5. ASSUME NEW m \in Nat, m \in G PROVE m + 1 \in G
  <2>1. PICK h : h = [t \in Upto(m) |-> Step(h, t)]
    BY <1>5
  <2> DEFINE g == [t \in Upto(m + 1) |-> Step(h, t)]
  <2>2. \A t \in Upto(m) : t \in Upto(m + 1)
    BY <1>1
  <2>3. \A t \in Upto(m) : g[t] = h[t]
    <3>1. \A t \in Upto(m) : h[t] = Step(h, t)
      BY <2>1
    <3> HIDE DEF Upto, Step
    <3> QED
      BY <2>2, <3>1
  <2>4. ASSUME NEW t \in Upto(m + 1), t # {} PROVE t \ {Max(t)} \in Upto(m)
    BY <1>1, <1>3, <2>4
  <2>5. ASSUME NEW t \in Upto(m + 1) PROVE Step(h, t) = Step(g, t)
    <3>1. CASE t = {}
      BY <3>1
    <3>2. CASE t # {}
      <4>1. g[t \ {Max(t)}] = h[t \ {Max(t)}]
        BY <2>3, <2>4, <3>2
      <4> HIDE DEF g
      <4> QED
        BY <4>1
    <3> QED
      BY <3>1, <3>2
  <2>6. g = [t \in Upto(m + 1) |-> Step(g, t)]
    <3> HIDE DEF Upto, Step
    <3>1. g = [t \in Upto(m + 1) |-> Step(h, t)]
      OBVIOUS
    <3> HIDE DEF g
    <3> QED
      BY <2>5, <3>1
  <2> HIDE DEF Upto, Step, g
  <2> QED
    BY <2>6
<1>6. Cardinality(D) \in G
  <2> HIDE DEF G
  <2> QED
    BY <1>2, <1>4, <1>5, Counting
<1>7. Upto(Cardinality(D)) = SUBSET D
  BY <1>1
<1>8. SUBSET D = SUBSET DOMAIN q
  BY DEF D
<1>9. PICK h : h = [t \in SUBSET D |-> Step(h, t)]
  BY <1>6, <1>7
<1> QED
  BY <1>8, <1>9 DEF DoFold

\* v comes from base when the members of the list q are gone through.
Runs(k, base, q, n, v) ==
    \E run : /\ run[0] = base
             /\ \A i \in 1 .. n : run[i] = Do(k, run[i - 1], q[i])
             /\ run[n] = v

\* It goes through the list one by one.
LEMMA FoldRun ==
    ASSUME NEW k, NEW base, NEW q, NEW n, List(q, n),
           NEW g, g = DoFold(k, base, q, g)
    PROVE  Runs(k, base, q, n, g[DOMAIN q])
<1> n \in Nat /\ DOMAIN q = 1 .. n
  BY DEF List
<1> DEFINE run == [i \in 0 .. n |-> g[1 .. i]]
<1>1. \A i \in 0 .. n : 1 .. i \in SUBSET DOMAIN q
  OBVIOUS
<1>2. run[0] = base
  <2>1. 1 .. 0 = {}
    OBVIOUS
  <2>2. g[{}] = base
    BY DEF DoFold
  <2> QED
    BY <2>1, <2>2
<1>3. ASSUME NEW i \in 1 .. n PROVE run[i] = Do(k, run[i - 1], q[i])
  <2> DEFINE t == 1 .. i
  <2>1. t \in SUBSET DOMAIN q /\ t # {} /\ t \in SUBSET (1 .. i)
    BY <1>1
  <2>2. Max(t) = i
    <3>1. i \in t /\ \A y \in t : i >= y
      OBVIOUS
    <3>2. \A m \in t : (\A y \in t : m >= y) => m = i
      OBVIOUS
    <3> HIDE DEF t
    <3> QED
      BY <3>1, <3>2 DEF Max
  <2>3. t \ {i} = 1 .. i - 1
    OBVIOUS
  <2>4. g[t] = Do(k, g[t \ {Max(t)}], q[Max(t)])
    <3> HIDE DEF t
    <3> QED
      BY <2>1 DEF DoFold
  <2>5. run[i] = g[t] /\ run[i - 1] = g[1 .. i - 1]
    OBVIOUS
  <2> HIDE DEF t, run
  <2> QED
    BY <2>2, <2>3, <2>4, <2>5
<1>4. run[n] = g[DOMAIN q]
  OBVIOUS
<1> HIDE DEF run
<1> QED
  BY <1>2, <1>3, <1>4 DEF Runs

\* FoldLeft over a batch of delayed transactions.
LEMMA DelayedFold ==
    ASSUME NEW base, NEW q, NEW n, List(q, n)
    PROVE  Runs(<<"delayed">>, base, q, n, FoldLeft(ExecuteDelayedTransaction, base, q))
<1> DEFINE Fold(g) == [t \in SUBSET DOMAIN q |->
                          IF t = {} THEN base
                          ELSE ExecuteDelayedTransaction(g[t \ {Max(t)}], q[Max(t)])]
           v == FoldLeft(ExecuteDelayedTransaction, base, q)
<1>1. \A s, x : Do(<<"delayed">>, s, x) = ExecuteDelayedTransaction(s, x)
  BY DEF Do
<1>2. \A g : DoFold(<<"delayed">>, base, q, g) = Fold(g)
  BY <1>1 DEF DoFold
<1>3. PICK h : h = DoFold(<<"delayed">>, base, q, h)
  BY FoldExists
<1>4. h = Fold(h)
  BY <1>2, <1>3
<1>5. PICK g : g = Fold(g) /\ v = g[DOMAIN q]
  BY <1>4 DEF FoldLeft, MapThenFoldSet
<1>6. g = DoFold(<<"delayed">>, base, q, g)
  BY <1>2, <1>5
<1>7. Runs(<<"delayed">>, base, q, n, g[DOMAIN q])
  BY <1>6, FoldRun
<1> QED
  BY <1>5, <1>7

\* FoldLeft over the turns of an eviction.
LEMMA EvictFold ==
    ASSUME NEW base, NEW q, NEW n, List(q, n)
    PROVE  Runs(<<"evict">>, base, q, n, FoldLeft(EvictStep, base, q))
<1> DEFINE Fold(g) == [t \in SUBSET DOMAIN q |->
                          IF t = {} THEN base
                          ELSE EvictStep(g[t \ {Max(t)}], q[Max(t)])]
           v == FoldLeft(EvictStep, base, q)
<1>1. \A s, x : Do(<<"evict">>, s, x) = EvictStep(s, x)
  BY DEF Do
<1>2. \A g : DoFold(<<"evict">>, base, q, g) = Fold(g)
  BY <1>1 DEF DoFold
<1>3. PICK h : h = DoFold(<<"evict">>, base, q, h)
  BY FoldExists
<1>4. h = Fold(h)
  BY <1>2, <1>3
<1>5. PICK g : g = Fold(g) /\ v = g[DOMAIN q]
  BY <1>4 DEF FoldLeft, MapThenFoldSet
<1>6. g = DoFold(<<"evict">>, base, q, g)
  BY <1>2, <1>5
<1>7. Runs(<<"evict">>, base, q, n, g[DOMAIN q])
  BY <1>6, FoldRun
<1> QED
  BY <1>5, <1>7

\* FoldLeft over the validators of the genesis.
LEMMA GenesisFold ==
    ASSUME NEW base, NEW q, NEW n, List(q, n)
    PROVE  Runs(<<"genesis">>, base, q, n, FoldLeft(PutGenesisValidator, base, q))
<1> DEFINE Fold(g) == [t \in SUBSET DOMAIN q |->
                          IF t = {} THEN base
                          ELSE PutGenesisValidator(g[t \ {Max(t)}], q[Max(t)])]
           v == FoldLeft(PutGenesisValidator, base, q)
<1>1. \A s, x : Do(<<"genesis">>, s, x) = PutGenesisValidator(s, x)
  BY DEF Do
<1>2. \A g : DoFold(<<"genesis">>, base, q, g) = Fold(g)
  BY <1>1 DEF DoFold
<1>3. PICK h : h = DoFold(<<"genesis">>, base, q, h)
  BY FoldExists
<1>4. h = Fold(h)
  BY <1>2, <1>3
<1>5. PICK g : g = Fold(g) /\ v = g[DOMAIN q]
  BY <1>4 DEF FoldLeft, MapThenFoldSet
<1>6. g = DoFold(<<"genesis">>, base, q, g)
  BY <1>2, <1>5
<1>7. Runs(<<"genesis">>, base, q, n, g[DOMAIN q])
  BY <1>6, FoldRun
<1> QED
  BY <1>5, <1>7

\* FoldLeft over reads under the lock.
LEMMA GetFold ==
    ASSUME NEW base, NEW q, NEW n, List(q, n)
    PROVE  Runs(<<"get">>, base, q, n, FoldLeft(GetValidator, base, q))
<1> DEFINE Fold(g) == [t \in SUBSET DOMAIN q |->
                          IF t = {} THEN base
                          ELSE GetValidator(g[t \ {Max(t)}], q[Max(t)])]
           v == FoldLeft(GetValidator, base, q)
<1>1. \A s, x : Do(<<"get">>, s, x) = GetValidator(s, x)
  BY DEF Do
<1>2. \A g : DoFold(<<"get">>, base, q, g) = Fold(g)
  BY <1>1 DEF DoFold
<1>3. PICK h : h = DoFold(<<"get">>, base, q, h)
  BY FoldExists
<1>4. h = Fold(h)
  BY <1>2, <1>3
<1>5. PICK g : g = Fold(g) /\ v = g[DOMAIN q]
  BY <1>4 DEF FoldLeft, MapThenFoldSet
<1>6. g = DoFold(<<"get">>, base, q, g)
  BY <1>2, <1>5
<1>7. Runs(<<"get">>, base, q, n, g[DOMAIN q])
  BY <1>6, FoldRun
<1> QED
  BY <1>5, <1>7

\* FoldLeft over reads without the lock.
LEMMA ReadFold ==
    ASSUME NEW base, NEW q, NEW n, List(q, n)
    PROVE  Runs(<<"read">>, base, q, n, FoldLeft(ReadWithoutLock, base, q))
<1> DEFINE Fold(g) == [t \in SUBSET DOMAIN q |->
                          IF t = {} THEN base
                          ELSE ReadWithoutLock(g[t \ {Max(t)}], q[Max(t)])]
           v == FoldLeft(ReadWithoutLock, base, q)
<1>1. \A s, x : Do(<<"read">>, s, x) = ReadWithoutLock(s, x)
  BY DEF Do
<1>2. \A g : DoFold(<<"read">>, base, q, g) = Fold(g)
  BY <1>1 DEF DoFold
<1>3. PICK h : h = DoFold(<<"read">>, base, q, h)
  BY FoldExists
<1>4. h = Fold(h)
  BY <1>2, <1>3
<1>5. PICK g : g = Fold(g) /\ v = g[DOMAIN q]
  BY <1>4 DEF FoldLeft, MapThenFoldSet
<1>6. g = DoFold(<<"read">>, base, q, g)
  BY <1>2, <1>5
<1>7. Runs(<<"read">>, base, q, n, g[DOMAIN q])
  BY <1>6, FoldRun
<1> QED
  BY <1>5, <1>7

\* FoldLeft over the transactions that are ordered.
LEMMA ApartFold ==
    ASSUME NEW base, NEW q, NEW n, List(q, n)
    PROVE  Runs(<<"apart">>, base, q, n, FoldLeft(SetApart, base, q))
<1> DEFINE Fold(g) == [t \in SUBSET DOMAIN q |->
                          IF t = {} THEN base
                          ELSE SetApart(g[t \ {Max(t)}], q[Max(t)])]
           v == FoldLeft(SetApart, base, q)
<1>1. \A s, x : Do(<<"apart">>, s, x) = SetApart(s, x)
  BY DEF Do
<1>2. \A g : DoFold(<<"apart">>, base, q, g) = Fold(g)
  BY <1>1 DEF DoFold
<1>3. PICK h : h = DoFold(<<"apart">>, base, q, h)
  BY FoldExists
<1>4. h = Fold(h)
  BY <1>2, <1>3
<1>5. PICK g : g = Fold(g) /\ v = g[DOMAIN q]
  BY <1>4 DEF FoldLeft, MapThenFoldSet
<1>6. g = DoFold(<<"apart">>, base, q, g)
  BY <1>2, <1>5
<1>7. Runs(<<"apart">>, base, q, n, g[DOMAIN q])
  BY <1>6, FoldRun
<1> QED
  BY <1>5, <1>7

\* Members of a run have what the first one has and every step keeps.
Goes(run, k, base, q, n, v) ==
    /\ run[0] = base /\ run[n] = v
    /\ \A m \in Nat : m + 1 <= n =>
          m + 1 \in DOMAIN q /\ run[m + 1] = Do(k, run[m], q[m + 1])

\* What is folded goes step by step.
LEMMA RunFacts ==
    ASSUME NEW k, NEW base, NEW q, NEW n, List(q, n), NEW v, Runs(k, base, q, n, v)
    PROVE  \E run : Goes(run, k, base, q, n, v)
<1>1. PICK run : /\ run[0] = base
                 /\ \A i \in 1 .. n : run[i] = Do(k, run[i - 1], q[i])
                 /\ run[n] = v
  BY DEF Runs
<1>2. n \in Nat /\ DOMAIN q = 1 .. n
  BY DEF List
<1>3. ASSUME NEW m \in Nat, m + 1 <= n
      PROVE  m + 1 \in DOMAIN q /\ run[m + 1] = Do(k, run[m], q[m + 1])
  <2>1. m + 1 \in 1 .. n /\ m + 1 - 1 = m
    BY <1>2, <1>3
  <2> QED
    BY <1>1, <1>2, <2>1
<1> QED
  BY <1>1, <1>2, <1>3 DEF Goes

\* The first occurrence of a member.
LEMMA FirstPlace ==
    ASSUME NEW S, NEW q \in Seq(S), NEW e, \E i \in 1 .. Len(q) : q[i] = e
    PROVE  /\ SelectInSeq(q, LAMBDA v : v = e) \in 1 .. Len(q)
           /\ q[SelectInSeq(q, LAMBDA v : v = e)] = e
<1> DEFINE I == {i \in 1 .. Len(q) : q[i] = e}
           G == {m \in Nat : m \in I => \E x \in I : \A y \in I : x =< y}
<1>1. I # {} /\ I \subseteq Nat
  OBVIOUS
<1>2. \E x \in I : \A y \in I : x =< y
  <2> DEFINE H == {m \in Nat : \A j \in I : j <= m => \E x \in I : \A y \in I : x =< y}
  <2>1. 0 \in H
    OBVIOUS
  <2>2. ASSUME NEW m \in Nat, m \in H PROVE m + 1 \in H
    <3>1. SUFFICES ASSUME NEW j \in I, j <= m + 1,
                          ~ \E x \in I : \A y \in I : x =< y
                   PROVE FALSE
      OBVIOUS
    <3>2. PICK y \in I : ~(j =< y)
      BY <3>1
    <3>3. y <= m
      BY <1>1, <3>1, <3>2
    <3> QED
      BY <2>2, <3>1, <3>3
  <2>3. \A m \in Nat : m \in H
    <3> HIDE DEF H
    <3> QED
      BY <2>1, <2>2, Counting
  <2>4. PICK j \in I : TRUE
    BY <1>1
  <2>5. j \in Nat /\ j <= j
    BY <1>1, <2>4
  <2> QED
    BY <2>3, <2>4, <2>5
<1>3. Min(I) \in I
  BY <1>2 DEF Min
<1>4. SelectInSeq(q, LAMBDA v : v = e) = Min(I)
  BY <1>1 DEF SelectInSeq
<1> QED
  BY <1>3, <1>4

\* What is left of a list when the first occurrence of e is removed.
LEMMA Removed ==
    ASSUME NEW S, NEW q \in Seq(S), NEW e
    PROVE  /\ RemoveFirst(q, e) \in Seq(S)
           /\ IsInjective(q) => /\ IsInjective(RemoveFirst(q, e))
                                /\ ToSet(RemoveFirst(q, e)) = ToSet(q) \ {e}
<1> DEFINE r == RemoveFirst(q, e)
<1>1. CASE ~ \E i \in 1 .. Len(q) : q[i] = e
  <2>1. r = q
    BY <1>1 DEF RemoveFirst
  <2>2. ToSet(q) \ {e} = ToSet(q)
    BY <1>1 DEF ToSet
  <2> QED
    BY <2>1, <2>2
<1>2. CASE \E i \in 1 .. Len(q) : q[i] = e
  <2> DEFINE p == SelectInSeq(q, LAMBDA v : v = e)
             a == SubSeq(q, 1, p - 1)
             b == SubSeq(q, p + 1, Len(q))
  <2>1. p \in 1 .. Len(q) /\ q[p] = e
    BY <1>2, FirstPlace
  <2>2. r = a \o b
    BY <1>2 DEF RemoveFirst, RemoveAt
  <2> HIDE DEF p, r
  <2>3. a \in Seq(S) /\ Len(a) = p - 1 /\ \A i \in 1 .. p - 1 : a[i] = q[i]
    BY <2>1
  <2>4. /\ b \in Seq(S) /\ Len(b) = Len(q) - p
        /\ \A i \in 1 .. Len(q) - p : b[i] = q[i + p]
    BY <2>1
  <2> HIDE DEF a, b
  <2>5. r \in Seq(S) /\ Len(r) = Len(q) - 1
    BY <2>1, <2>2, <2>3, <2>4
  <2>6. \A i \in 1 .. Len(q) - 1 : r[i] = IF i < p THEN q[i] ELSE q[i + 1]
    <3>1. TAKE i \in 1 .. Len(q) - 1
    <3>2. CASE i < p
      BY <2>1, <2>2, <2>3, <2>4, <3>2
    <3>3. CASE ~(i < p)
      <4>1. r[i] = b[i - (p - 1)]
        BY <2>1, <2>2, <2>3, <2>4, <3>3
      <4>2. i - (p - 1) \in 1 .. Len(q) - p /\ i - (p - 1) + p = i + 1
        BY <2>1, <3>3
      <4> QED
        BY <2>4, <3>3, <4>1, <4>2
    <3> QED
      BY <3>2, <3>3
  <2>7. DOMAIN r = 1 .. Len(q) - 1 /\ DOMAIN q = 1 .. Len(q) /\ Len(q) \in Nat
    BY <2>1, <2>5
  <2>8. IsInjective(q) => IsInjective(r)
    BY <2>1, <2>6, <2>7 DEF IsInjective
  <2>9. ASSUME IsInjective(q) PROVE ToSet(r) = ToSet(q) \ {e}
    <3>1. ASSUME NEW i \in DOMAIN r PROVE r[i] \in ToSet(q) \ {e}
      <4>1. PICK j \in DOMAIN q : j # p /\ r[i] = q[j]
        BY <2>1, <2>6, <2>7
      <4> QED
        BY <2>1, <2>7, <2>9, <4>1 DEF IsInjective, ToSet
    <3>2. ASSUME NEW j \in DOMAIN q, q[j] # e PROVE q[j] \in ToSet(r)
      <4>1. j # p
        BY <2>1, <3>2
      <4>2. PICK i \in DOMAIN r : r[i] = q[j]
        <5>1. CASE j < p
          <6>1. j \in DOMAIN r /\ r[j] = q[j]
            BY <2>1, <2>6, <2>7, <5>1
          <6> QED
            BY <6>1
        <5>2. CASE j > p
          <6>1. j - 1 \in DOMAIN r /\ r[j - 1] = q[j]
            BY <2>1, <2>6, <2>7, <5>2
          <6> QED
            BY <6>1
        <5> QED
          BY <2>1, <2>7, <4>1, <5>1, <5>2
      <4> QED
        BY <4>2 DEF ToSet
    <3> QED
      BY <3>1, <3>2 DEF ToSet
  <2> QED
    BY <2>5, <2>8, <2>9 DEF r
<1> QED
  BY <1>1, <1>2

-----------------------------------------------------------------------------
(* Stores: what a good one is, and evictions *)

\* A store as it is at every moment: what is in memory and not touched is what
\* the database has.
StoreShape(s) ==
    /\ DOMAIN s =
          {"db", "cap", "mem", "cached", "touched", "lru", "shared"}
    /\ s.lru \in Seq(Validator) /\ s.cap \in Nat
    /\ s.cached \subseteq Validator

\* The maps of a store are functions of validators.
StoreMaps(s) ==
    /\ s.db = [v \in DOMAIN s.db |-> s.db[v]]
    /\ s.mem = [v \in DOMAIN s.mem |-> s.mem[v]]
    /\ s.touched \subseteq Validator /\ DOMAIN s.db \subseteq Validator
    /\ s.cached \cup s.touched \subseteq DOMAIN s.mem
    /\ DOMAIN s.mem \subseteq Validator

\* What is in memory and not touched is what the database has.
Clean(s) ==
    \A v \in DOMAIN s.mem \ s.touched :
        v \in DOMAIN s.db /\ s.mem[v] = s.db[v]

\* A store as it is at every moment.
GoodStore(s) == StoreShape(s) /\ StoreMaps(s) /\ Clean(s)

\* What has been touched has not been evicted, and never is.
Roomy(s) ==
    /\ s.cap >= Cardinality(Validator)
    /\ s.touched \subseteq s.cached

\* The LRU list has everything that is in the cache, and nothing twice.
InOrder(s) == IsInjective(s.lru) /\ s.cached \subseteq ToSet(s.lru)

\* t is s after an eviction.
Evicted(s, t) ==
    /\ StoreShape(t)
    /\ t.db = s.db /\ t.cap = s.cap /\ t.mem = s.mem
    /\ t.touched = s.touched /\ t.shared = s.shared
    /\ t.cached \subseteq s.cached
    /\ s.cached \cap s.touched \subseteq t.cached
    /\ Cardinality(s.cached) <= s.cap => t.cached = s.cached
    /\ InOrder(s) => InOrder(t)

\* One more is put before a list.
LEMMA PutFirst ==
    ASSUME NEW q \in Seq(Validator), IsInjective(q), NEW v, v \notin ToSet(q),
           NEW r \in Seq(Validator), Len(r) = Len(q) + 1, r[1] = v,
           \A i \in 1 .. Len(q) : r[i + 1] = q[i]
    PROVE  IsInjective(r) /\ ToSet(r) = ToSet(q) \cup {v}
<1>1. Len(q) \in Nat
  OBVIOUS
<1>2. DOMAIN r = 1 .. Len(q) + 1 /\ DOMAIN q = 1 .. Len(q)
  BY <1>1
<1>3. \A j \in DOMAIN r : j # 1 => j - 1 \in DOMAIN q /\ r[j] = q[j - 1]
  <2>1. TAKE j \in DOMAIN r
  <2>2. HAVE j # 1
  <2>3. j - 1 \in 1 .. Len(q) /\ (j - 1) + 1 = j
    BY <1>1, <1>2, <2>2
  <2> QED
    BY <1>1, <1>2, <2>3
<1>4. \A j \in DOMAIN q : j + 1 \in DOMAIN r /\ r[j + 1] = q[j]
  BY <1>1, <1>2
<1>5. \A j \in DOMAIN q : q[j] # v
  BY DEF ToSet
<1>6. IsInjective(r)
  <2> SUFFICES ASSUME NEW i \in DOMAIN r, NEW j \in DOMAIN r, r[i] = r[j]
               PROVE  i = j
    BY DEF IsInjective
  <2>1. CASE i = 1 \/ j = 1
    BY <1>1, <1>3, <1>5, <2>1
  <2>2. CASE i # 1 /\ j # 1
    <3>1. i - 1 = j - 1
      BY <1>3, <2>2 DEF IsInjective
    <3> QED
      BY <1>1, <1>2, <3>1
  <2> QED
    BY <2>1, <2>2
<1>7. ToSet(r) = ToSet(q) \cup {v}
  <2>1. 1 \in DOMAIN r
    BY <1>1, <1>2
  <2>2. ASSUME NEW j \in DOMAIN r PROVE r[j] \in ToSet(q) \cup {v}
    BY <1>3 DEF ToSet
  <2>3. ASSUME NEW j \in DOMAIN q PROVE q[j] \in ToSet(r)
    BY <1>4 DEF ToSet
  <2>4. v \in ToSet(r)
    BY <2>1 DEF ToSet
  <2> QED
    BY <2>2, <2>3, <2>4 DEF ToSet
<1> QED
  BY <1>6, <1>7

\* A list without its last entry.
LEMMA WithoutLast ==
    ASSUME NEW S, NEW q \in Seq(S), Len(q) # 0
    PROVE  /\ Front(q) \in Seq(S) /\ Last(q) \in S
           /\ IsInjective(q) => /\ IsInjective(Front(q))
                                /\ ToSet(Front(q)) = ToSet(q) \ {Last(q)}
<1> DEFINE n == Len(q)
           f == Front(q)
<1>1. n \in Nat /\ n # 0 /\ DOMAIN q = 1 .. n /\ Last(q) = q[n] /\ n \in DOMAIN q
  BY DEF Last
<1>2. /\ f \in Seq(S) /\ Last(q) \in S /\ DOMAIN f = 1 .. n - 1
      /\ \A i \in 1 .. n - 1 : f[i] = q[i]
  BY DEF Front, Last
<1> HIDE DEF n, f
<1>3. DOMAIN f \subseteq DOMAIN q /\ \A i \in DOMAIN q : i # n => i \in DOMAIN f
  BY <1>1, <1>2
<1>4. IsInjective(q) => IsInjective(f)
  BY <1>2, <1>3 DEF IsInjective
<1>5. ASSUME IsInjective(q) PROVE ToSet(f) = ToSet(q) \ {Last(q)}
  <2>1. \A i \in DOMAIN f : f[i] = q[i] /\ i # n
    BY <1>1, <1>2
  <2>2. \A i \in DOMAIN q : q[i] = q[n] => i = n
    BY <1>1, <1>5 DEF IsInjective
  <2> QED
    BY <1>1, <1>3, <2>1, <2>2 DEF ToSet
<1> QED
  BY <1>2, <1>4, <1>5 DEF f

\* One turn of the eviction.
LEMMA EvictTurn ==
    ASSUME NEW s, StoreShape(s), NEW turn, NEW x,
           turn = [store |-> turn.store, skipped |-> turn.skipped],
           Evicted(s, turn.store), turn.skipped \in Nat,
           NEW next, next = EvictStep(turn, x)
    PROVE  /\ next = [store |-> next.store, skipped |-> next.skipped]
           /\ Evicted(s, next.store) /\ next.skipped \in Nat
<1> DEFINE t == turn.store
           q == t.lru
<1>1. CASE Cardinality(t.cached) <= t.cap \/ turn.skipped >= Len(q)
  <2>1. next = turn
    BY <1>1 DEF EvictStep
  <2> QED
    BY <2>1
<1>2. CASE ~(Cardinality(t.cached) <= t.cap \/ turn.skipped >= Len(q))
  <2>1. q \in Seq(Validator) /\ Len(q) \in Nat /\ Len(q) # 0
    BY <1>2 DEF Evicted, StoreShape
  <2>2. Front(q) \in Seq(Validator) /\ Last(q) \in Validator
    BY <2>1 DEF Front, Last
  <2>3. <<Last(q)>> \o Front(q) \in Seq(Validator)
    BY <2>2
  <2>4. ~(Cardinality(s.cached) <= s.cap)
    BY <1>2 DEF Evicted
  <2>5. CASE Last(q) \in t.touched
    <3> DEFINE u == [t EXCEPT !.lru = <<Last(q)>> \o Front(q)]
    <3>1. next = [store |-> u, skipped |-> turn.skipped + 1]
      BY <1>2, <2>5 DEF EvictStep
    <3>2. t.lru = q /\ DOMAIN t = DOMAIN u
      BY DEF u
    <3>3. /\ u.db = t.db /\ u.cap = t.cap /\ u.mem = t.mem
          /\ u.cached = t.cached /\ u.touched = t.touched
          /\ u.lru = <<Last(q)>> \o Front(q) /\ u.shared = t.shared
      BY DEF Evicted, StoreShape
    <3> HIDE DEF u, q
    <3>4. StoreShape(u)
      BY <2>2, <2>3, <3>2, <3>3 DEF Evicted, StoreShape
    <3>5. ASSUME InOrder(t) PROVE InOrder(u)
      <4> DEFINE f == Front(q)
                 w == Last(q)
                 r == <<w>> \o f
      <4>1. IsInjective(f) /\ ToSet(f) = ToSet(q) \ {w}
        BY <2>1, <3>2, <3>5, WithoutLast DEF InOrder
      <4>2. w \in ToSet(q)
        <5>1. Len(q) \in DOMAIN q
          BY <2>1
        <5> QED
          BY <5>1 DEF ToSet, Last
      <4>3. f \in Seq(Validator) /\ w \in Validator /\ w \notin ToSet(f)
        BY <2>2, <4>1
      <4>4. u.lru = r
        BY <3>3
      <4> HIDE DEF f, w
      <4>5. /\ r \in Seq(Validator) /\ Len(r) = Len(f) + 1 /\ r[1] = w
            /\ \A i \in 1 .. Len(f) : r[i + 1] = f[i]
        BY <4>3
      <4> HIDE DEF r
      <4>6. IsInjective(r) /\ ToSet(r) = ToSet(f) \cup {w}
        BY <4>1, <4>3, <4>5, PutFirst
      <4> QED
        BY <3>2, <3>3, <3>5, <4>1, <4>2, <4>4, <4>6 DEF InOrder
    <3>6. Evicted(s, u)
      BY <2>4, <2>5, <3>3, <3>4, <3>5 DEF Evicted
    <3> QED
      BY <3>1, <3>6
  <2>6. CASE Last(q) \notin t.touched
    <3> DEFINE u == [t EXCEPT !.lru = Front(q), !.cached = t.cached \ {Last(q)}]
    <3>1. next = [store |-> u, skipped |-> 0]
      BY <1>2, <2>6 DEF EvictStep
    <3>2. t.lru = q /\ DOMAIN t = DOMAIN u
      BY DEF u
    <3>3. /\ u.db = t.db /\ u.cap = t.cap /\ u.mem = t.mem
          /\ u.cached = t.cached \ {Last(q)} /\ u.touched = t.touched
          /\ u.lru = Front(q) /\ u.shared = t.shared
      BY DEF Evicted, StoreShape
    <3> HIDE DEF u, q
    <3>4. StoreShape(u)
      BY <2>2, <2>3, <3>2, <3>3 DEF Evicted, StoreShape
    <3>5. ASSUME InOrder(t) PROVE InOrder(u)
      <4>1. IsInjective(Front(q)) /\ ToSet(Front(q)) = ToSet(q) \ {Last(q)}
        BY <2>1, <3>2, <3>5, WithoutLast DEF InOrder
      <4> QED
        BY <3>2, <3>3, <3>5, <4>1 DEF InOrder
    <3>6. Evicted(s, u)
      BY <2>4, <2>6, <3>3, <3>4, <3>5 DEF Evicted
    <3> QED
      BY <3>1, <3>6
  <2> QED
    BY <2>5, <2>6
<1> QED
  BY <1>1, <1>2

\* The loop of evictIfNeeded only evicts, as far as it has to.
LEMMA EvictIfNeededEvicts ==
    ASSUME NEW s, StoreShape(s)
    PROVE  Evicted(s, EvictIfNeeded(s))
<1> DEFINE base == [store |-> s, skipped |-> 0]
           q == s.lru \o s.lru
           n == Len(q)
           v == FoldLeft(EvictStep, base, q)
           Ok(turn) == /\ turn = [store |-> turn.store, skipped |-> turn.skipped]
                       /\ Evicted(s, turn.store) /\ turn.skipped \in Nat
<1>1. q \in Seq(Validator)
  BY DEF StoreShape
<1>2. List(q, n)
  BY <1>1 DEF List
<1>3. Runs(<<"evict">>, base, q, n, v)
  BY <1>2, EvictFold
<1>4. Ok(base)
  BY DEF Evicted, StoreShape
<1>5. \A turn, x : Ok(turn) => Ok(EvictStep(turn, x))
  BY EvictTurn
<1> HIDE DEF Ok, base, q, v, n
<1>6. \A turn, x : Do(<<"evict">>, turn, x) = EvictStep(turn, x)
  BY DEF Do
<1>7. PICK run : Goes(run, <<"evict">>, base, q, n, v)
  BY <1>2, <1>3, RunFacts
<1>8. n \in Nat
  BY <1>2 DEF List
<1> DEFINE G == {m \in Nat : m <= n => Ok(run[m])}
<1>9. 0 \in G
  BY <1>4, <1>7 DEF Goes
<1>10. ASSUME NEW m \in Nat, m \in G PROVE m + 1 \in G
  BY <1>5, <1>6, <1>7, <1>8, <1>10 DEF Goes
<1>11. \A m \in Nat : m \in G
  <2> HIDE DEF G
  <2> QED
    BY <1>9, <1>10, Counting
<1>12. Ok(v)
  BY <1>7, <1>8, <1>11 DEF Goes
<1> QED
  BY <1>12 DEF Ok, v, base, q, EvictIfNeeded

\* t is what s has become by a read or a write of one validator.
Follows(s, t) ==
    /\ GoodStore(t) /\ t.db = s.db /\ t.cap = s.cap
    /\ Roomy(s) => Roomy(t) /\ s.cached \subseteq t.cached

\* So does touching an entry of the cache; one that is new there gets into the
\* list.
LEMMA TouchEvicts ==
    ASSUME NEW s, StoreShape(s), NEW v \in Validator
    PROVE  /\ Evicted(s, TouchCache(s, v))
           /\ (IsInjective(s.lru) /\ s.cached \subseteq ToSet(s.lru) \cup {v}) =>
                 InOrder(TouchCache(s, v))
<1> DEFINE u == MoveToFront(s, v)
           p == RemoveFirst(s.lru, v)
           q == <<v>> \o p
<1>1. /\ p \in Seq(Validator)
      /\ IsInjective(s.lru) => IsInjective(p) /\ ToSet(p) = ToSet(s.lru) \ {v}
  BY Removed DEF StoreShape
<1>2. u = [s EXCEPT !.lru = q]
  BY DEF MoveToFront
<1> HIDE DEF u, p
<1>3. /\ q \in Seq(Validator)
      /\ IsInjective(s.lru) => IsInjective(q) /\ ToSet(q) = ToSet(s.lru) \cup {v}
  <2>1. q \in Seq(Validator)
    BY <1>1
  <2>2. ASSUME IsInjective(s.lru)
        PROVE  IsInjective(q) /\ ToSet(q) = ToSet(s.lru) \cup {v}
    <3>1. IsInjective(p) /\ ToSet(p) = ToSet(s.lru) \ {v} /\ v \notin ToSet(p)
      BY <1>1, <2>2
    <3>2. IsInjective(q) /\ ToSet(q) = ToSet(p) \cup {v}
      <4>1. p \in Seq(Validator) /\ IsInjective(p) /\ v \notin ToSet(p)
        BY <1>1, <3>1
      <4>2. /\ q \in Seq(Validator) /\ Len(q) = Len(p) + 1 /\ q[1] = v
            /\ \A i \in 1 .. Len(p) : q[i + 1] = p[i]
        BY <4>1
      <4> HIDE DEF q
      <4> QED
        BY <4>1, <4>2, PutFirst
    <3> QED
      BY <3>1, <3>2
  <2> QED
    BY <2>1, <2>2
<1> HIDE DEF q
<1>4. /\ DOMAIN u = DOMAIN s
      /\ u.db = s.db /\ u.cap = s.cap /\ u.mem = s.mem /\ u.cached = s.cached
      /\ u.touched = s.touched /\ u.lru = q /\ u.shared = s.shared
  BY <1>2 DEF StoreShape
<1>5. StoreShape(u)
  BY <1>3, <1>4 DEF StoreShape
<1>6. Evicted(u, EvictIfNeeded(u))
  BY <1>5, EvictIfNeededEvicts
<1>7. (IsInjective(s.lru) /\ s.cached \subseteq ToSet(s.lru) \cup {v}) =>
         InOrder(u)
  BY <1>3, <1>4 DEF InOrder
<1>8. EvictIfNeeded(u) = TouchCache(s, v)
  BY DEF TouchCache, u
<1>9. InOrder(s) => InOrder(u)
  BY <1>7 DEF InOrder
<1> QED
  BY <1>4, <1>6, <1>7, <1>8, <1>9 DEF Evicted

\* A cache with room for all has room for these.
LEMMA RoomForCached ==
    ASSUME NEW s, Roomy(s), NEW C \in SUBSET Validator
    PROVE  s.cap \in Nat => Cardinality(C) <= s.cap
<1>1. IsFiniteSet(Validator)
  BY StoreAssumption, FS_Subset
<1>2. Cardinality(C) \in Nat /\ Cardinality(Validator) \in Nat
      /\ Cardinality(C) <= Cardinality(Validator)
  BY <1>1, FS_Subset, FS_CardinalityType
<1> QED
  BY <1>2 DEF Roomy

\* What a good store shows: the touched storages and the database.
Seen(s) == [v \in DOMAIN s.db \cup s.touched |->
               IF v \in s.touched THEN s.mem[v] ELSE s.db[v]]

\* A good store shows just that, and a read returns it.
LEMMA ViewFacts ==
    ASSUME NEW s, GoodStore(s)
    PROVE  /\ View(s) = Seen(s)
           /\ DOMAIN View(s) = DOMAIN s.db \cup s.touched
           /\ DOMAIN View(s) \subseteq Validator
           /\ \A v : Exists(s, v) <=> v \in DOMAIN View(s)
           /\ \A v \in DOMAIN View(s) : StorageOf(s, v) = View(s)[v]
<1>1. DOMAIN s.db \cup DOMAIN s.mem = DOMAIN s.db \cup s.touched
  BY DEF GoodStore, StoreMaps, Clean
<1>2. \A v \in DOMAIN s.db \cup s.touched :
          StorageOf(s, v) = IF v \in s.touched THEN s.mem[v] ELSE s.db[v]
  BY DEF GoodStore, StoreMaps, Clean, StorageOf
<1>3. View(s) = Seen(s)
  BY <1>1, <1>2 DEF View, Seen
<1>4. DOMAIN View(s) = DOMAIN s.db \cup s.touched
  BY <1>3 DEF Seen
<1>5. \A v : Exists(s, v) <=> v \in DOMAIN s.db \cup s.touched
  BY DEF GoodStore, StoreMaps, Clean, Exists, InMemory
<1>6. DOMAIN View(s) \subseteq Validator
  BY <1>4 DEF GoodStore, StoreMaps
<1>7. \A v \in DOMAIN View(s) : StorageOf(s, v) = View(s)[v]
  BY <1>2, <1>3, <1>4 DEF Seen
<1> QED
  BY <1>3, <1>4, <1>5, <1>6, <1>7

\* What is evicted is still seen.
LEMMA EvictedFollows ==
    ASSUME NEW s, GoodStore(s), NEW t, Evicted(s, t)
    PROVE  Follows(s, t) /\ View(t) = View(s) /\ t.touched = s.touched
<1>1. GoodStore(t)
  BY DEF GoodStore, StoreMaps, Clean, Evicted
<1>2. View(t) = View(s)
  BY DEF View, StorageOf, Evicted
<1>3. Roomy(s) => Roomy(t) /\ s.cached \subseteq t.cached
  BY RoomForCached DEF Roomy, Evicted, GoodStore, StoreShape
<1> QED
  BY <1>1, <1>2, <1>3 DEF Follows, Evicted

\* Nothing but garbage is collected.
LEMMA CollectFacts ==
    ASSUME NEW s, StoreShape(s)
    PROVE  /\ StoreShape(Collect(s))
           /\ Collect(s).db = s.db /\ Collect(s).cap = s.cap
           /\ Collect(s).cached = s.cached /\ Collect(s).touched = s.touched
           /\ Collect(s).mem = [v \in s.cached \cup s.touched |-> s.mem[v]]
<1> DEFINE t == Collect(s)
<1>1. /\ DOMAIN t = DOMAIN s /\ t.db = s.db /\ t.cap = s.cap
      /\ t.cached = s.cached /\ t.touched = s.touched /\ t.lru = s.lru
      /\ t.mem = [v \in s.cached \cup s.touched |-> s.mem[v]]
  BY DEF Collect, StoreShape
<1> HIDE DEF t
<1>2. StoreShape(t)
  BY <1>1 DEF StoreShape
<1> QED
  BY <1>1, <1>2 DEF t

\* Garbage is not seen.
LEMMA CollectFollows ==
    ASSUME NEW s, GoodStore(s)
    PROVE  /\ Follows(s, Collect(s)) /\ View(Collect(s)) = View(s)
           /\ Collect(s).touched = s.touched
<1> DEFINE t == Collect(s)
<1>1. /\ StoreShape(t) /\ t.db = s.db /\ t.cap = s.cap
      /\ t.cached = s.cached /\ t.touched = s.touched
      /\ t.mem = [v \in s.cached \cup s.touched |-> s.mem[v]]
  BY CollectFacts DEF GoodStore
<1> HIDE DEF t
<1>2. GoodStore(t)
  BY <1>1 DEF GoodStore, StoreMaps, Clean
<1>3. View(s) = Seen(s)
  BY ViewFacts
<1>4. View(t) = Seen(t)
  BY <1>2, ViewFacts
<1>5. View(t) = View(s)
  BY <1>1, <1>3, <1>4 DEF Seen
<1> QED
  BY <1>1, <1>2, <1>5 DEF Follows, Roomy, t

-----------------------------------------------------------------------------
(* Reads and writes of one validator *)

\* A storage is put into the cache and touched.
LEMMA PutFacts ==
    ASSUME NEW s, GoodStore(s), NEW v \in Validator, NEW x,
           NEW t, t = Collect(MarkTouched(PutCache(s, v, x), v))
    PROVE  /\ Follows(s, t) /\ t.touched = s.touched \cup {v}
           /\ View(t) = With(View(s), v, x)
<1> DEFINE mem == [w \in DOMAIN s.mem \cup {v} |-> IF w = v THEN x ELSE s.mem[w]]
           r == [s EXCEPT !.mem = mem, !.cached = s.cached \cup {v}]
           u == TouchCache(r, v)
           m == MarkTouched(u, v)
<1>1. t = Collect(m)
  BY DEF PutCache
<1>2. /\ DOMAIN r = DOMAIN s /\ r.db = s.db /\ r.cap = s.cap /\ r.mem = mem
      /\ r.cached = s.cached \cup {v} /\ r.touched = s.touched
      /\ r.lru = s.lru /\ r.shared = s.shared
  BY DEF GoodStore, StoreShape
<1> HIDE DEF r
<1>3. StoreShape(r)
  BY <1>2 DEF GoodStore, StoreShape
<1>4. Evicted(r, u)
  BY <1>3, TouchEvicts
<1> HIDE DEF u
<1>5. /\ DOMAIN m = DOMAIN u /\ m.db = u.db /\ m.cap = u.cap /\ m.mem = u.mem
      /\ m.cached = u.cached /\ m.touched = u.touched \cup {v}
      /\ m.lru = u.lru
  BY <1>4 DEF MarkTouched, Evicted, StoreShape
<1> HIDE DEF m
<1>6. StoreShape(m)
  BY <1>4, <1>5 DEF Evicted, StoreShape
<1>7. /\ StoreShape(t) /\ t.db = m.db /\ t.cap = m.cap
      /\ t.cached = m.cached /\ t.touched = m.touched
      /\ t.mem = [w \in m.cached \cup m.touched |-> m.mem[w]]
  BY <1>1, <1>6, CollectFacts
<1>8. /\ StoreShape(t) /\ t.db = s.db /\ t.cap = s.cap
      /\ t.cached \subseteq s.cached \cup {v}
      /\ t.touched = s.touched \cup {v}
      /\ t.mem = [w \in t.cached \cup t.touched |->
                     IF w = v THEN x ELSE s.mem[w]]
      /\ Roomy(s) => t.cached = s.cached \cup {v}
  <2>1. \A w \in m.cached \cup m.touched :
            m.mem[w] = IF w = v THEN x ELSE s.mem[w]
    BY <1>2, <1>4, <1>5 DEF Evicted, GoodStore, StoreMaps
  <2>2. t.mem = [w \in t.cached \cup t.touched |->
                     IF w = v THEN x ELSE s.mem[w]]
    BY <1>7, <2>1
  <2>3. Roomy(s) => Cardinality(r.cached) <= r.cap
    <3>1. r.cached \in SUBSET Validator /\ s.cap \in Nat
      BY <1>2 DEF GoodStore, StoreShape
    <3> QED
      BY <1>2, <3>1, RoomForCached
  <2> QED
    BY <1>2, <1>4, <1>5, <1>7, <2>2, <2>3 DEF Evicted
<1> HIDE DEF mem
<1>9. StoreMaps(t) /\ Clean(t)
  BY <1>8 DEF GoodStore, StoreMaps, Clean, StoreShape
<1>10. Roomy(s) => Roomy(t) /\ s.cached \subseteq t.cached
  BY <1>8 DEF Roomy
<1>11. View(t) = With(View(s), v, x)
  <2>1. View(s) = Seen(s)
    BY ViewFacts
  <2>2. View(t) = Seen(t)
    BY <1>8, <1>9, ViewFacts DEF GoodStore
  <2>3. \A w \in DOMAIN t.db \cup t.touched :
           (IF w \in t.touched THEN t.mem[w] ELSE t.db[w]) =
           (IF w = v THEN x ELSE View(s)[w])
    BY <1>8, <2>1 DEF Seen
  <2>4. DOMAIN View(s) \cup {v} = DOMAIN t.db \cup t.touched
    BY <1>8, <2>1 DEF Seen
  <2> QED
    BY <2>2, <2>3, <2>4 DEF With, Seen
<1> QED
  BY <1>8, <1>9, <1>10, <1>11 DEF Follows, GoodStore

\* A read under the lock changes nothing of what is seen.
LEMMA GetFacts ==
    ASSUME NEW s, GoodStore(s), NEW v \in Validator,
           NEW t, t = GetValidator(s, v)
    PROVE  /\ Follows(s, t) /\ View(t) = View(s)
           /\ Exists(s, v) => t.touched = s.touched \cup {v}
           /\ ~Exists(s, v) => t = s
<1>1. CASE v \in s.touched
  <2> DEFINE u == TouchCache(s, v)
  <2>1. Evicted(s, u)
    BY TouchEvicts DEF GoodStore
  <2>2. Follows(s, u) /\ View(u) = View(s) /\ u.touched = s.touched
    BY <2>1, EvictedFollows
  <2>3. t = Collect(u)
    BY <1>1 DEF GetValidator
  <2> HIDE DEF u
  <2>4. Follows(u, t) /\ View(t) = View(u) /\ t.touched = u.touched
    BY <2>2, <2>3, CollectFollows DEF Follows
  <2> QED
    BY <1>1, <2>2, <2>4 DEF Follows, Exists, InMemory
<1>2. CASE v \notin s.touched /\ v \in s.cached
  <2> DEFINE u == TouchCache(s, v)
             m == MarkTouched(u, v)
  <2>1. Evicted(s, u)
    BY TouchEvicts DEF GoodStore
  <2>2. Follows(s, u) /\ View(u) = View(s) /\ u.touched = s.touched
    BY <2>1, EvictedFollows
  <2>3. t = Collect(m)
    BY <1>2 DEF GetValidator
  <2>4. u.mem = s.mem /\ (Roomy(s) => u.cached = s.cached)
    <3>1. s.cached \in SUBSET Validator /\ s.cap \in Nat
      BY DEF GoodStore, StoreShape
    <3>2. Roomy(s) => Cardinality(s.cached) <= s.cap
      BY <3>1, RoomForCached
    <3> QED
      BY <2>1, <3>2 DEF Evicted
  <2> HIDE DEF u
  <2>5. /\ DOMAIN m = DOMAIN u /\ m.db = u.db /\ m.cap = u.cap /\ m.mem = u.mem
        /\ m.cached = u.cached /\ m.touched = u.touched \cup {v}
        /\ m.lru = u.lru
    BY <2>2 DEF MarkTouched, Follows, GoodStore, StoreShape
  <2> HIDE DEF m
  <2>6. v \in DOMAIN s.db /\ v \in DOMAIN s.mem /\ s.mem[v] = s.db[v]
    BY <1>2 DEF GoodStore, StoreMaps, Clean
  <2>7. GoodStore(m)
    BY <2>2, <2>4, <2>5, <2>6 DEF Follows, GoodStore, StoreShape, StoreMaps, Clean
  <2>8. View(m) = View(u)
    BY <2>5 DEF View, StorageOf
  <2>9. Roomy(s) => Roomy(m) /\ s.cached \subseteq m.cached
    BY <1>2, <2>2, <2>4, <2>5 DEF Roomy, Follows
  <2>10. Follows(m, t) /\ View(t) = View(m) /\ t.touched = m.touched
    BY <2>3, <2>7, CollectFollows
  <2> QED
    BY <1>2, <2>2, <2>5, <2>8, <2>9, <2>10 DEF Follows, Exists, InMemory
<1>3. CASE v \notin s.touched /\ v \notin s.cached /\ v \in DOMAIN s.db
  <2>1. t = Collect(MarkTouched(PutCache(s, v, s.db[v]), v))
    BY <1>3 DEF GetValidator
  <2>2. /\ Follows(s, t) /\ t.touched = s.touched \cup {v}
        /\ View(t) = With(View(s), v, s.db[v])
    BY <2>1, PutFacts
  <2>3. View(s) = Seen(s)
    BY ViewFacts
  <2>4. With(View(s), v, s.db[v]) = View(s)
    BY <1>3, <2>3 DEF With, Seen
  <2> QED
    BY <1>3, <2>2, <2>4 DEF Exists
<1>4. CASE v \notin s.touched /\ v \notin s.cached /\ v \notin DOMAIN s.db
  <2>1. t = s /\ ~Exists(s, v)
    BY <1>4 DEF GetValidator, Exists, InMemory
  <2> QED
    BY <2>1 DEF Follows
<1> QED
  BY <1>1, <1>2, <1>3, <1>4

\* A write to what has been read.
LEMMA SetFacts ==
    ASSUME NEW s, GoodStore(s), NEW v \in s.touched, NEW x,
           NEW t, t = SetStorage(s, v, x)
    PROVE  /\ Follows(s, t) /\ View(t) = With(View(s), v, x)
           /\ t.touched = s.touched
<1>1. v \in DOMAIN s.mem
  BY DEF GoodStore, StoreMaps
<1>2. /\ DOMAIN t = DOMAIN s /\ t.db = s.db /\ t.cap = s.cap
      /\ t.cached = s.cached /\ t.touched = s.touched /\ t.lru = s.lru
      /\ t.mem = [s.mem EXCEPT ![v] = x]
  BY DEF SetStorage, GoodStore, StoreShape
<1>3. GoodStore(t)
  BY <1>1, <1>2 DEF GoodStore, StoreShape, StoreMaps, Clean
<1>4. View(s) = Seen(s)
  BY ViewFacts
<1>5. View(t) = Seen(t)
  BY <1>3, ViewFacts
<1>6. \A w \in s.touched : t.mem[w] = IF w = v THEN x ELSE s.mem[w]
  BY <1>1, <1>2 DEF GoodStore, StoreMaps
<1>7. View(t) = With(View(s), v, x)
  <2>1. DOMAIN View(s) \cup {v} = DOMAIN t.db \cup t.touched
    BY <1>2, <1>4 DEF Seen
  <2>2. \A w \in DOMAIN t.db \cup t.touched :
           (IF w \in t.touched THEN t.mem[w] ELSE t.db[w]) =
           (IF w = v THEN x ELSE View(s)[w])
    BY <1>2, <1>4, <1>6 DEF Seen
  <2> QED
    BY <1>5, <2>1, <2>2 DEF With, Seen
<1> QED
  BY <1>2, <1>3, <1>7 DEF Follows, Roomy

-----------------------------------------------------------------------------
(* What a delayed transaction does, with no cache in the way *)

\* A context of a contract.
ContextShape(x) ==
    DOMAIN x = {"thread", "store", "params", "version", "registry", "epoch",
                "quorum", "stakingDelta", "balances"}

\* A context with a good store.
GoodContext(x) == ContextShape(x) /\ GoodStore(x.store)

\* The validator that tx is about.
About(tx) == IF tx.type \in {"createValidator", "updateValidator"}
             THEN tx.creator ELSE tx.validator

\* Whether tx changes one of the storages V under the parameters P.
Acts(V, P, tx) ==
    CASE tx.type = "createValidator" ->
            tx.details \in ValidDetails /\ tx.creator \notin DOMAIN V
      [] tx.type = "updateValidator" ->
            tx.details \in ValidDetails /\ tx.creator \in DOMAIN V
      [] tx.type = "stake" ->
            /\ tx.validator \in DOMAIN V
            /\ ~(tx.amount < P["MINIMAL_STAKE_PER_STAKER"])
      [] tx.type = "unstake" ->
            /\ tx.validator \in DOMAIN V
            /\ tx.staker \in DOMAIN V[tx.validator].stakers
            /\ ~(V[tx.validator].stakers[tx.staker] < tx.amount)
      [] OTHER -> FALSE

\* What becomes of the storage that it changes.
Becomes(V, tx) ==
    LET o == V[About(tx)]
    IN  CASE tx.type = "createValidator" ->
                [details |-> tx.details, total |-> 0,
                 stakers |-> [a \in {tx.creator} |-> 0]]
          [] tx.type = "updateValidator" -> [o EXCEPT !.details = tx.details]
          [] tx.type = "stake" ->
                WithStake([o EXCEPT !.total = o.total + tx.amount], tx.staker,
                          StakeOf(o, tx.staker) + tx.amount)
          [] OTHER ->
                [StakersAfterUnstake(o, tx) EXCEPT !.total = o.total - tx.amount]

\* The storages V after tx, with no cache in the way.
ViewAfter(V, P, tx) ==
    IF Acts(V, P, tx) THEN With(V, About(tx), Becomes(V, tx)) ELSE V

\* What else changes with it.
DeltaAfter(V, x, tx) ==
    IF tx.type = "stake" /\ Acts(V, x.params, tx) THEN StakeDelta(x, tx.amount)
    ELSE IF tx.type = "unstake" /\ Acts(V, x.params, tx)
         THEN StakeDelta(x, -tx.amount)
    ELSE x.stakingDelta

\* The accounts after tx.
BalancesAfter(V, x, tx) ==
    IF tx.type = "unstake" /\ Acts(V, x.params, tx) THEN RefundUnstaked(x, tx)
    ELSE x.balances

\* The registry after tx.
RegistryAfter(V, x, tx) ==
    IF tx.type = "stake" /\ Acts(V, x.params, tx)
    THEN JoinRegistry(x, tx.validator, V[tx.validator].total + tx.amount)
    ELSE IF tx.type = "unstake" /\ Acts(V, x.params, tx)
    THEN LeaveRegistry(x, tx.validator, V[tx.validator].total - tx.amount)
    ELSE x.registry

\* A majority of the quorum has voted.
Voted(x, tx, kind) ==
    /\ tx.type = "votingAccept" /\ VerifyVotingAcceptMajority(x, tx)
    /\ tx.votingType = kind

\* The parameters after tx.
ParamsAfter(x, tx) ==
    IF Voted(x, tx, "parameters") /\ tx.updateField \in Field
    THEN [x.params EXCEPT ![tx.updateField] = tx.newValue] ELSE x.params

\* The version after tx.
VersionAfter(x, tx) ==
    IF Voted(x, tx, "version") THEN tx.newMajorVersion ELSE x.version

\* The validator that tx creates has not been created and evicted before.
Fresh(s, tx) ==
    tx.type = "createValidator" /\ tx.creator \in s.touched
        => tx.creator \in s.cached \cup DOMAIN s.db

\* y is what tx makes of x when the store only shows what it has to.
Shown(x, y, tx) ==
    LET V == View(x.store)
    IN  /\ y.thread = x.thread /\ y.epoch = x.epoch /\ y.quorum = x.quorum
        /\ View(y.store) = ViewAfter(V, x.params, tx)
        /\ y.stakingDelta = DeltaAfter(V, x, tx)
        /\ y.balances = BalancesAfter(V, x, tx)
        /\ y.registry = RegistryAfter(V, x, tx)
        /\ y.params = ParamsAfter(x, tx)
        /\ y.version = VersionAfter(x, tx)

\* What it has touched was there, or it has created it.
TouchedBy(s, t, tx) ==
    \A v \in t.touched :
        \/ v \in s.touched \cup DOMAIN s.db
        \/ tx.type = "createValidator" /\ v = tx.creator

\* y is what tx makes of x, and the cache is not noticed.
Transparent(x, y, tx) ==
    /\ GoodContext(y) /\ Follows(x.store, y.store)
    /\ TouchedBy(x.store, y.store, tx) /\ Shown(x, y, tx)

\* The types of the fields of a delayed transaction.
LEMMA TransactionFacts ==
    ASSUME NEW tx \in DelayedTransaction
    PROVE  /\ tx.type \in {"createValidator", "updateValidator"} =>
                  tx.creator \in Validator
           /\ tx.type \in {"stake", "unstake"} =>
                  tx.staker \in Staker /\ tx.validator \in Validator
                  /\ tx.amount \in Nat
           /\ tx.type = "votingAccept" /\ tx.votingType = "version" =>
                  tx.newMajorVersion \in Nat
           /\ tx.type = "votingAccept" /\ tx.votingType = "parameters" =>
                  tx.newValue \in Nat
BY DEF DelayedTransaction

\* A transaction that does nothing.
LEMMA NothingShown ==
    ASSUME NEW x, GoodContext(x), NEW tx,
           ~Acts(View(x.store), x.params, tx), tx.type # "votingAccept"
    PROVE  Transparent(x, x, tx)
BY DEF Transparent, Shown, ViewAfter, DeltaAfter, BalancesAfter, RegistryAfter,
       ParamsAfter, VersionAfter, Voted, Follows, GoodContext, TouchedBy

\* One that only reads.
LEMMA ReadShown ==
    ASSUME NEW x, GoodContext(x), NEW tx, NEW v \in Validator,
           ~Acts(View(x.store), x.params, tx), tx.type # "votingAccept",
           NEW y, y = [x EXCEPT !.store = GetValidator(x.store, v)]
    PROVE  Transparent(x, y, tx)
<1> DEFINE s == x.store
           t == GetValidator(s, v)
<1>1. /\ Follows(s, t) /\ View(t) = View(s)
      /\ Exists(s, v) => t.touched = s.touched \cup {v}
      /\ ~Exists(s, v) => t = s
  BY GetFacts DEF GoodContext
<1> HIDE DEF t
<1>2. /\ ContextShape(y) /\ y.store = t
      /\ y.thread = x.thread /\ y.epoch = x.epoch /\ y.quorum = x.quorum
      /\ y.stakingDelta = x.stakingDelta /\ y.balances = x.balances
      /\ y.registry = x.registry /\ y.params = x.params /\ y.version = x.version
  BY DEF GoodContext, ContextShape, t
<1>3. TouchedBy(s, t, tx)
  BY <1>1 DEF TouchedBy, Exists, InMemory, GoodContext, GoodStore, StoreMaps, Clean
<1>4. Shown(x, y, tx)
  BY <1>1, <1>2 DEF Shown, ViewAfter, DeltaAfter, BalancesAfter, RegistryAfter,
       ParamsAfter, VersionAfter, Voted
<1> QED
  BY <1>1, <1>2, <1>3, <1>4 DEF Transparent, GoodContext, Follows

-----------------------------------------------------------------------------
(* The contracts, on a store with a cache *)

\* The context of a contract that changes one storage.
LEMMA StoreSet ==
    ASSUME NEW x, GoodContext(x), NEW t, GoodStore(t),
           NEW y, y = [x EXCEPT !.store = t]
    PROVE  /\ GoodContext(y) /\ y.store = t
           /\ y.thread = x.thread /\ y.epoch = x.epoch /\ y.quorum = x.quorum
           /\ y.stakingDelta = x.stakingDelta /\ y.balances = x.balances
           /\ y.registry = x.registry /\ y.params = x.params
           /\ y.version = x.version
BY DEF GoodContext, ContextShape

\* CREATE_VALIDATOR does not notice the cache.
LEMMA CreateShown ==
    ASSUME NEW x, GoodContext(x), NEW tx \in DelayedTransaction,
           tx.type = "createValidator", Fresh(x.store, tx)
    PROVE  Transparent(x, CreateValidator(x, tx), tx)
<1> DEFINE s == x.store
           v == tx.creator
           V == View(s)
           new == Becomes(V, tx)
           y == CreateValidator(x, tx)
           t == Collect(MarkTouched(PutCache(s, v, new), v))
<1>1. v \in Validator
  BY TransactionFacts
<1>2. IsNew(s, v) <=> v \notin DOMAIN V
  <2>1. DOMAIN V = DOMAIN s.db \cup s.touched
    BY ViewFacts DEF GoodContext
  <2>2. /\ s.cached \cup s.touched \subseteq DOMAIN s.mem
        /\ v \in DOMAIN s.mem /\ v \notin s.touched => v \in DOMAIN s.db
    BY DEF GoodContext, GoodStore, StoreMaps, Clean
  <2>3. v \in s.touched => v \in s.cached \cup DOMAIN s.db
    BY DEF Fresh
  <2> QED
    BY <2>1, <2>2, <2>3 DEF IsNew
<1>3. new = [details |-> tx.details, total |-> 0, stakers |-> [a \in {v} |-> 0]]
  BY DEF Becomes
<1>4. CASE ~Acts(V, x.params, tx)
  <2>1. y = x
    BY <1>2, <1>4 DEF Acts, CreateValidator
  <2> QED
    BY <1>4, <2>1, NothingShown
<1>5. CASE Acts(V, x.params, tx)
  <2>1. y = [x EXCEPT !.store = t]
    BY <1>2, <1>3, <1>5 DEF Acts, CreateValidator
  <2> HIDE DEF new, V, s
  <2>2. /\ Follows(s, t) /\ t.touched = s.touched \cup {v}
        /\ View(t) = With(View(s), v, new)
    BY <1>1, PutFacts DEF GoodContext, s
  <2> HIDE DEF t, y
  <2>3. GoodStore(t)
    BY <2>2 DEF Follows
  <2>4. /\ GoodContext(y) /\ y.store = t
        /\ y.thread = x.thread /\ y.epoch = x.epoch /\ y.quorum = x.quorum
        /\ y.stakingDelta = x.stakingDelta /\ y.balances = x.balances
        /\ y.registry = x.registry /\ y.params = x.params
        /\ y.version = x.version
    BY <2>1, <2>3, StoreSet
  <2>5. View(y.store) = ViewAfter(V, x.params, tx)
    BY <1>5, <2>2, <2>4 DEF ViewAfter, V, About, new
  <2>6. TouchedBy(s, t, tx)
    BY <2>2 DEF TouchedBy
  <2>7. Shown(x, y, tx)
    BY <2>4, <2>5 DEF Shown, DeltaAfter, BalancesAfter, RegistryAfter,
       ParamsAfter, VersionAfter, Voted, V, s
  <2> QED
    BY <2>2, <2>4, <2>6, <2>7 DEF Transparent, y, s
<1> QED
  BY <1>4, <1>5

\* A read and a write of a validator that is there.
LEMMA WriteShown ==
    ASSUME NEW s, GoodStore(s), NEW v \in Validator, Exists(s, v), NEW n,
           NEW t, t = SetStorage(GetValidator(s, v), v, n)
    PROVE  /\ Follows(s, t) /\ View(t) = With(View(s), v, n)
           /\ t.touched = s.touched \cup {v}
<1> DEFINE u == GetValidator(s, v)
<1>1. /\ Follows(s, u) /\ View(u) = View(s) /\ u.touched = s.touched \cup {v}
  BY GetFacts
<1> HIDE DEF u
<1>2. t = SetStorage(u, v, n)
  BY DEF u
<1>3. /\ Follows(u, t) /\ View(t) = With(View(u), v, n)
      /\ t.touched = u.touched
  BY <1>1, <1>2, SetFacts DEF Follows
<1> QED
  BY <1>1, <1>3 DEF Follows

\* UPDATE_VALIDATOR does not notice the cache.
LEMMA UpdateShown ==
    ASSUME NEW x, GoodContext(x), NEW tx \in DelayedTransaction,
           tx.type = "updateValidator"
    PROVE  Transparent(x, UpdateValidator(x, tx), tx)
<1> DEFINE s == x.store
           v == tx.creator
           V == View(s)
           new == Becomes(V, tx)
           y == UpdateValidator(x, tx)
           r == SetStorage(GetValidator(s, v), v, new)
           t == TouchCache(r, v)
<1>1. v \in Validator
  BY TransactionFacts
<1>2. Exists(s, v) <=> v \in DOMAIN V
  BY ViewFacts DEF GoodContext
<1>3. v \in DOMAIN V => new = [StorageOf(s, v) EXCEPT !.details = tx.details]
  BY ViewFacts DEF Becomes, About, GoodContext
<1>4. CASE ~Acts(V, x.params, tx)
  <2>1. y = x
    BY <1>2, <1>4 DEF Acts, UpdateValidator
  <2> QED
    BY <1>4, <2>1, NothingShown
<1>5. CASE Acts(V, x.params, tx)
  <2>1. y = [x EXCEPT !.store = t]
    BY <1>2, <1>3, <1>5 DEF Acts, UpdateValidator
  <2>2. Exists(s, v)
    BY <1>2, <1>5 DEF Acts
  <2> HIDE DEF new, V, s
  <2>3. /\ Follows(s, r) /\ r.touched = s.touched \cup {v}
        /\ View(r) = With(View(s), v, new)
    BY <1>1, <2>2, WriteShown DEF GoodContext, s
  <2> HIDE DEF r
  <2>4. Evicted(r, t)
    BY <1>1, <2>3, TouchEvicts DEF Follows, GoodStore
  <2>5. Follows(r, t) /\ View(t) = View(r) /\ t.touched = r.touched
    BY <2>3, <2>4, EvictedFollows DEF Follows
  <2> HIDE DEF t, y
  <2>6. GoodStore(t) /\ Follows(s, t)
    BY <2>3, <2>5 DEF Follows
  <2>7. /\ GoodContext(y) /\ y.store = t
        /\ y.thread = x.thread /\ y.epoch = x.epoch /\ y.quorum = x.quorum
        /\ y.stakingDelta = x.stakingDelta /\ y.balances = x.balances
        /\ y.registry = x.registry /\ y.params = x.params
        /\ y.version = x.version
    BY <2>1, <2>6, StoreSet
  <2>8. View(y.store) = ViewAfter(V, x.params, tx)
    BY <1>5, <2>3, <2>5, <2>7 DEF ViewAfter, V, About, new
  <2>9. TouchedBy(s, t, tx)
    BY <2>2, <2>3, <2>5 DEF TouchedBy, Exists, InMemory, s, GoodContext,
                            GoodStore, StoreMaps, Clean
  <2>10. Shown(x, y, tx)
    BY <2>7, <2>8 DEF Shown, DeltaAfter, BalancesAfter, RegistryAfter,
       ParamsAfter, VersionAfter, Voted, V, s
  <2> QED
    BY <2>6, <2>7, <2>9, <2>10 DEF Transparent, y, s
<1> QED
  BY <1>4, <1>5

\* STAKE does not notice the cache.
LEMMA StakeShown ==
    ASSUME NEW x, GoodContext(x), NEW tx \in DelayedTransaction,
           tx.type = "stake"
    PROVE  Transparent(x, Stake(x, tx), tx)
<1> DEFINE s == x.store
           v == tx.validator
           V == View(s)
           o == StorageOf(s, v)
           new == WithStake([o EXCEPT !.total = o.total + tx.amount], tx.staker,
                            StakeOf(o, tx.staker) + tx.amount)
           y == Stake(x, tx)
           t == SetStorage(GetValidator(s, v), v, new)
           delta == StakeDelta(x, tx.amount)
           reg == JoinRegistry(x, v, o.total + tx.amount)
<1>1. v \in Validator
  BY TransactionFacts
<1>2. /\ Exists(s, v) <=> v \in DOMAIN V
      /\ v \in DOMAIN V => o = V[v]
  BY ViewFacts DEF GoodContext
<1>3. CASE v \notin DOMAIN V
  <2>1. y = x
    BY <1>2, <1>3 DEF Stake
  <2>2. ~Acts(V, x.params, tx)
    BY <1>3 DEF Acts
  <2> QED
    BY <2>1, <2>2, NothingShown
<1>4. CASE v \in DOMAIN V /\ tx.amount < x.params["MINIMAL_STAKE_PER_STAKER"]
  <2>1. y = [x EXCEPT !.store = GetValidator(s, v)]
    BY <1>2, <1>4 DEF Stake
  <2>2. ~Acts(V, x.params, tx)
    BY <1>4 DEF Acts
  <2> QED
    BY <1>1, <2>1, <2>2, ReadShown
<1>5. CASE v \in DOMAIN V /\ ~(tx.amount < x.params["MINIMAL_STAKE_PER_STAKER"])
  <2>1. y = [x EXCEPT !.store = t, !.stakingDelta = delta, !.registry = reg]
    BY <1>2, <1>5 DEF Stake
  <2>2. Exists(s, v) /\ Acts(V, x.params, tx)
    BY <1>2, <1>5 DEF Acts
  <2>3. new = Becomes(V, tx)
    BY <1>2, <1>5 DEF Becomes, About
  <2>4. /\ delta = DeltaAfter(V, x, tx)
        /\ reg = RegistryAfter(V, x, tx)
    BY <1>2, <1>5, <2>2 DEF DeltaAfter, RegistryAfter
  <2> HIDE DEF new, V, s, delta, reg, o
  <2>5. /\ Follows(s, t) /\ t.touched = s.touched \cup {v}
        /\ View(t) = With(View(s), v, new)
    BY <1>1, <2>2, WriteShown DEF GoodContext, s
  <2> HIDE DEF t, y
  <2>6. /\ ContextShape(y) /\ y.store = t
        /\ y.thread = x.thread /\ y.epoch = x.epoch /\ y.quorum = x.quorum
        /\ y.stakingDelta = delta /\ y.balances = x.balances
        /\ y.registry = reg /\ y.params = x.params
        /\ y.version = x.version
    BY <2>1 DEF GoodContext, ContextShape
  <2>7. View(y.store) = ViewAfter(V, x.params, tx)
    BY <2>2, <2>3, <2>5, <2>6 DEF ViewAfter, V, About
  <2>8. TouchedBy(s, t, tx)
    BY <2>2, <2>5 DEF TouchedBy, Exists, InMemory, s, GoodContext,
                            GoodStore, StoreMaps, Clean
  <2>9. Shown(x, y, tx)
    BY <2>4, <2>6, <2>7 DEF Shown, BalancesAfter, ParamsAfter, VersionAfter,
                            Voted, V, s
  <2> QED
    BY <2>5, <2>6, <2>8, <2>9 DEF Transparent, GoodContext, Follows, y, s
<1> QED
  BY <1>3, <1>4, <1>5

\* UNSTAKE does not notice the cache.
LEMMA UnstakeShown ==
    ASSUME NEW x, GoodContext(x), NEW tx \in DelayedTransaction,
           tx.type = "unstake"
    PROVE  Transparent(x, Unstake(x, tx), tx)
<1> DEFINE s == x.store
           v == tx.validator
           V == View(s)
           o == StorageOf(s, v)
           new == [StakersAfterUnstake(o, tx) EXCEPT !.total = o.total - tx.amount]
           y == Unstake(x, tx)
           t == SetStorage(GetValidator(s, v), v, new)
           delta == StakeDelta(x, -tx.amount)
           bal == RefundUnstaked(x, tx)
           reg == LeaveRegistry(x, v, o.total - tx.amount)
           Refused == \/ tx.staker \notin DOMAIN o.stakers
                      \/ o.stakers[tx.staker] < tx.amount
<1>1. v \in Validator
  BY TransactionFacts
<1>2. /\ Exists(s, v) <=> v \in DOMAIN V
      /\ v \in DOMAIN V => o = V[v]
  BY ViewFacts DEF GoodContext
<1>3. CASE v \notin DOMAIN V
  <2>1. y = x
    BY <1>2, <1>3 DEF Unstake
  <2>2. ~Acts(V, x.params, tx)
    BY <1>3 DEF Acts
  <2> QED
    BY <2>1, <2>2, NothingShown
<1>4. CASE v \in DOMAIN V /\ Refused
  <2>1. y = [x EXCEPT !.store = GetValidator(s, v)]
    BY <1>2, <1>4 DEF Unstake
  <2>2. ~Acts(V, x.params, tx)
    BY <1>2, <1>4 DEF Acts
  <2> QED
    BY <1>1, <2>1, <2>2, ReadShown
<1>5. CASE v \in DOMAIN V /\ ~Refused
  <2>1. y = [x EXCEPT !.store = t, !.stakingDelta = delta, !.balances = bal,
                      !.registry = reg]
    BY <1>2, <1>5 DEF Unstake
  <2>2. Exists(s, v) /\ Acts(V, x.params, tx)
    BY <1>2, <1>5 DEF Acts
  <2>3. new = Becomes(V, tx)
    BY <1>2, <1>5 DEF Becomes, About
  <2>4. /\ delta = DeltaAfter(V, x, tx)
        /\ reg = RegistryAfter(V, x, tx)
        /\ bal = BalancesAfter(V, x, tx)
    BY <1>2, <1>5, <2>2 DEF DeltaAfter, RegistryAfter, BalancesAfter
  <2> HIDE DEF new, V, s, delta, reg, bal, o
  <2>5. /\ Follows(s, t) /\ t.touched = s.touched \cup {v}
        /\ View(t) = With(View(s), v, new)
    BY <1>1, <2>2, WriteShown DEF GoodContext, s
  <2> HIDE DEF t, y
  <2>6. /\ ContextShape(y) /\ y.store = t
        /\ y.thread = x.thread /\ y.epoch = x.epoch /\ y.quorum = x.quorum
        /\ y.stakingDelta = delta /\ y.balances = bal
        /\ y.registry = reg /\ y.params = x.params
        /\ y.version = x.version
    BY <2>1 DEF GoodContext, ContextShape
  <2>7. View(y.store) = ViewAfter(V, x.params, tx)
    BY <2>2, <2>3, <2>5, <2>6 DEF ViewAfter, V, About
  <2>8. TouchedBy(s, t, tx)
    BY <2>2, <2>5 DEF TouchedBy, Exists, InMemory, s, GoodContext,
                            GoodStore, StoreMaps, Clean
  <2>9. Shown(x, y, tx)
    BY <2>4, <2>6, <2>7 DEF Shown, ParamsAfter, VersionAfter, Voted, V, s
  <2> QED
    BY <2>5, <2>6, <2>8, <2>9 DEF Transparent, GoodContext, Follows, y, s
<1> QED
  BY <1>3, <1>4, <1>5

\* VOTING_ACCEPT has nothing to do with the store.
LEMMA VoteShown ==
    ASSUME NEW x, GoodContext(x), NEW tx, tx.type = "votingAccept"
    PROVE  Transparent(x, VotingAccept(x, tx), tx)
<1> DEFINE y == VotingAccept(x, tx)
<1>1. /\ ContextShape(y) /\ y.store = x.store
      /\ y.thread = x.thread /\ y.epoch = x.epoch /\ y.quorum = x.quorum
      /\ y.stakingDelta = x.stakingDelta /\ y.balances = x.balances
      /\ y.registry = x.registry
  BY DEF VotingAccept, GoodContext, ContextShape
<1>2. y.params = ParamsAfter(x, tx) /\ y.version = VersionAfter(x, tx)
  BY DEF VotingAccept, GoodContext, ContextShape, ParamsAfter, VersionAfter,
         Voted
<1>3. ~Acts(View(x.store), x.params, tx)
  BY DEF Acts
<1> HIDE DEF y
<1>4. Shown(x, y, tx)
  BY <1>1, <1>2, <1>3 DEF Shown, ViewAfter, DeltaAfter, BalancesAfter,
                          RegistryAfter
<1>5. TouchedBy(x.store, y.store, tx)
  BY <1>1 DEF TouchedBy
<1>6. Follows(x.store, y.store)
  BY <1>1 DEF Follows, GoodContext
<1> QED
  BY <1>1, <1>4, <1>5, <1>6 DEF Transparent, GoodContext, y

\* No transaction can tell the store from what it shows, as long as it creates
\* no validator that another one of the batch has created.
LEMMA TransactionShown ==
    ASSUME NEW x, GoodContext(x), NEW tx \in DelayedTransaction,
           Fresh(x.store, tx)
    PROVE  Transparent(x, ExecuteDelayedTransaction(x, tx), tx)
<1> DEFINE y == ExecuteDelayedTransaction(x, tx)
<1>1. CASE tx.type = "createValidator"
  <2>1. y = CreateValidator(x, tx)
    BY <1>1 DEF ExecuteDelayedTransaction
  <2> QED
    BY <1>1, <2>1, CreateShown
<1>2. CASE tx.type = "updateValidator"
  <2>1. y = UpdateValidator(x, tx)
    BY <1>2 DEF ExecuteDelayedTransaction
  <2> QED
    BY <1>2, <2>1, UpdateShown
<1>3. CASE tx.type = "stake"
  <2>1. y = Stake(x, tx)
    BY <1>3 DEF ExecuteDelayedTransaction
  <2> QED
    BY <1>3, <2>1, StakeShown
<1>4. CASE tx.type = "unstake"
  <2>1. y = Unstake(x, tx)
    BY <1>4 DEF ExecuteDelayedTransaction
  <2> QED
    BY <1>4, <2>1, UnstakeShown
<1>5. CASE tx.type = "votingAccept"
  <2>1. y = VotingAccept(x, tx)
    BY <1>5 DEF ExecuteDelayedTransaction
  <2> QED
    BY <1>5, <2>1, VoteShown
<1>6. CASE tx.type \notin {"createValidator", "updateValidator", "stake",
                           "unstake", "votingAccept"}
  <2>1. y = x
    BY <1>6 DEF ExecuteDelayedTransaction
  <2>2. ~Acts(View(x.store), x.params, tx)
    BY <1>6 DEF Acts
  <2> QED
    BY <1>6, <2>1, <2>2, NothingShown
<1> QED
  BY <1>1, <1>2, <1>3, <1>4, <1>5, <1>6

-----------------------------------------------------------------------------
(* Batches *)

\* A store between two batches: memory has what the database has.
Settled(s) ==
    /\ StoreShape(s) /\ StoreMaps(s)
    /\ \A v \in DOMAIN s.mem : v \in DOMAIN s.db /\ s.mem[v] = s.db[v]

\* A settled store shows its database.
LEMMA SettledFacts ==
    ASSUME NEW s, Settled(s)
    PROVE  GoodStore(s) /\ View(s) = s.db
<1>1. GoodStore(s)
  BY DEF Settled, GoodStore, Clean
<1>2. View(s) = Seen(s)
  BY <1>1, ViewFacts
<1>3. DOMAIN s.db \cup s.touched = DOMAIN s.db
  BY DEF Settled, StoreMaps
<1>4. Seen(s) = [v \in DOMAIN s.db |-> s.db[v]]
  BY <1>3 DEF Seen, Settled, StoreMaps
<1>5. s.db = [v \in DOMAIN s.db |-> s.db[v]]
  BY DEF Settled, StoreMaps
<1> QED
  BY <1>1, <1>2, <1>4, <1>5

\* A settled store stays so when the touched set is emptied.
LEMMA ResetFacts ==
    ASSUME NEW s, Settled(s), NEW t, t = ResetTouched(s)
    PROVE  /\ Settled(t) /\ t.db = s.db /\ t.cap = s.cap /\ t.touched = {}
           /\ t.cached = s.cached
<1> DEFINE r == [s EXCEPT !.touched = {}]
<1>1. /\ DOMAIN r = DOMAIN s /\ r.db = s.db /\ r.cap = s.cap /\ r.mem = s.mem
      /\ r.cached = s.cached /\ r.touched = {} /\ r.lru = s.lru
  BY DEF Settled, StoreShape
<1> HIDE DEF r
<1>2. StoreShape(r)
  BY <1>1 DEF Settled, StoreShape
<1>3. t = Collect(r)
  BY DEF ResetTouched, r
<1>4. /\ StoreShape(t) /\ t.db = r.db /\ t.cap = r.cap
      /\ t.cached = r.cached /\ t.touched = r.touched
      /\ t.mem = [v \in r.cached \cup r.touched |-> r.mem[v]]
  BY <1>2, <1>3, CollectFacts
<1>5. Settled(t)
  BY <1>1, <1>4 DEF Settled, StoreMaps
<1> QED
  BY <1>1, <1>4, <1>5

\* A store is settled when the touched storages are written.
LEMMA WrittenFacts ==
    ASSUME NEW s, GoodStore(s), NEW t, t = WriteTouched(s)
    PROVE  Settled(t) /\ t.db = View(s) /\ t.cap = s.cap
<1>1. /\ DOMAIN t = DOMAIN s /\ t.cap = s.cap /\ t.mem = s.mem
      /\ t.cached = s.cached /\ t.touched = s.touched /\ t.lru = s.lru
      /\ t.db = Seen(s)
  BY DEF WriteTouched, GoodStore, StoreShape, Seen
<1>2. View(s) = Seen(s)
  BY ViewFacts
<1>3. /\ DOMAIN t.db = DOMAIN s.db \cup s.touched
      /\ t.db = [v \in DOMAIN t.db |-> t.db[v]]
      /\ \A v \in DOMAIN t.db :
            t.db[v] = IF v \in s.touched THEN s.mem[v] ELSE s.db[v]
  BY <1>1 DEF Seen
<1>4. Settled(t)
  BY <1>1, <1>3 DEF Settled, GoodStore, StoreShape, StoreMaps, Clean
<1> QED
  BY <1>1, <1>2, <1>4

\* No validator is created twice by txs.
Once(txs) ==
    \A i, j \in DOMAIN txs :
        (/\ i # j
         /\ txs[i].type = "createValidator" /\ txs[j].type = "createValidator")
            => txs[i].creator # txs[j].creator

\* The cache holds all, or txs create no validator twice: what a batch has
\* created and evicted is not created again.
Calm(x, txs) == x.store.cap >= Cardinality(Validator) \/ Once(txs)

\* The context at the start and at the end of a batch.
Opened(x) == [x EXCEPT !.store = ResetTouched(x.store)]
Closed(x) == [x EXCEPT !.store = WriteTouched(x.store)]

\* What has been touched was there or has been created by the first m of txs.
TouchedSince(s, txs, m) ==
    \A v \in s.touched :
        \/ v \in DOMAIN s.db
        \/ \E i \in DOMAIN txs :
              i <= m /\ txs[i].type = "createValidator" /\ txs[i].creator = v

\* How a batch goes.
BatchRun(run, x, txs) ==
    /\ run[0] = Opened(x) /\ GoodContext(run[0])
    /\ ExecuteBatch(x, txs) = Closed(run[Len(txs)])
    /\ GoodContext(run[Len(txs)])
    /\ run[Len(txs)].store.cap = x.store.cap
    /\ run[Len(txs)].store.db = x.store.db
    /\ x.store.cap >= Cardinality(Validator) =>
          /\ Roomy(run[Len(txs)].store)
          /\ x.store.cached \subseteq run[Len(txs)].store.cached
    /\ Len(txs) \in Nat
    /\ \A m \in Nat : m + 1 <= Len(txs) =>
          /\ m + 1 \in DOMAIN txs /\ txs[m + 1] \in DelayedTransaction
          /\ GoodContext(run[m])
          /\ Transparent(run[m], run[m + 1], txs[m + 1])

\* The context at the start of a batch.
LEMMA OpenedFacts ==
    ASSUME NEW x, ContextShape(x), Settled(x.store)
    PROVE  /\ GoodContext(Opened(x)) /\ Opened(x).store.touched = {}
           /\ Opened(x).store.cap = x.store.cap
           /\ Opened(x).store.db = x.store.db
           /\ Opened(x).store.cached = x.store.cached
           /\ View(Opened(x).store) = x.store.db
           /\ Opened(x).thread = x.thread /\ Opened(x).epoch = x.epoch
           /\ Opened(x).quorum = x.quorum /\ Opened(x).params = x.params
           /\ Opened(x).stakingDelta = x.stakingDelta
           /\ Opened(x).balances = x.balances
           /\ Opened(x).registry = x.registry
           /\ Opened(x).version = x.version
<1> DEFINE t == ResetTouched(x.store)
           y == Opened(x)
<1>1. /\ Settled(t) /\ t.db = x.store.db /\ t.cap = x.store.cap
      /\ t.touched = {} /\ t.cached = x.store.cached
  BY ResetFacts
<1>2. GoodStore(t) /\ View(t) = x.store.db
  BY <1>1, SettledFacts
<1> HIDE DEF t
<1>3. y = [x EXCEPT !.store = t]
  BY DEF Opened, t
<1> HIDE DEF y
<1>4. /\ ContextShape(y) /\ y.store = t
      /\ y.thread = x.thread /\ y.epoch = x.epoch /\ y.quorum = x.quorum
      /\ y.stakingDelta = x.stakingDelta /\ y.balances = x.balances
      /\ y.registry = x.registry /\ y.params = x.params
      /\ y.version = x.version
  BY <1>3 DEF ContextShape
<1> QED
  BY <1>1, <1>2, <1>4 DEF GoodContext, y

\* A step of the run of a batch.
LEMMA BatchStep ==
    ASSUME NEW run, NEW x, NEW txs, BatchRun(run, x, txs),
           NEW m \in Nat, m + 1 <= Len(txs)
    PROVE  /\ m <= Len(txs) /\ m + 1 \in DOMAIN txs
           /\ txs[m + 1] \in DelayedTransaction
           /\ Transparent(run[m], run[m + 1], txs[m + 1])
           /\ Shown(run[m], run[m + 1], txs[m + 1])
<1>1. Len(txs) \in Nat /\ m <= Len(txs)
  BY DEF BatchRun
<1>2. /\ m + 1 \in DOMAIN txs /\ txs[m + 1] \in DelayedTransaction
      /\ Transparent(run[m], run[m + 1], txs[m + 1])
  BY DEF BatchRun
<1> QED
  BY <1>1, <1>2 DEF Transparent

\* Every transaction of a batch is executed as if there were no cache.
LEMMA BatchGoes ==
    ASSUME NEW x, ContextShape(x), Settled(x.store),
           NEW txs \in Seq(DelayedTransaction), Calm(x, txs)
    PROVE  \E run : BatchRun(run, x, txs)
<1> DEFINE n == Len(txs)
           v == FoldLeft(ExecuteDelayedTransaction, Opened(x), txs)
<1>1. List(txs, n)
  BY DEF List
<1>2. Runs(<<"delayed">>, Opened(x), txs, n, v)
  BY <1>1, DelayedFold
<1>3. ExecuteBatch(x, txs) = Closed(v)
  BY DEF ExecuteBatch, Closed, Opened
<1>4. \A y, tx : Do(<<"delayed">>, y, tx) = ExecuteDelayedTransaction(y, tx)
  BY DEF Do
<1>5. \A i \in DOMAIN txs : txs[i] \in DelayedTransaction
  OBVIOUS
<1> HIDE DEF v, n
<1>6. PICK run : Goes(run, <<"delayed">>, Opened(x), txs, n, v)
  BY <1>1, <1>2, RunFacts
<1>7. n \in Nat /\ DOMAIN txs = 1 .. n
  BY <1>1 DEF List
<1> DEFINE Ok(m) ==
             /\ GoodContext(run[m]) /\ run[m].store.db = x.store.db
             /\ run[m].store.cap = x.store.cap
             /\ (x.store.cap >= Cardinality(Validator)) =>
                   /\ Roomy(run[m].store)
                   /\ x.store.cached \subseteq run[m].store.cached
             /\ TouchedSince(run[m].store, txs, m)
           G == {m \in Nat : m <= n => Ok(m)}
<1>8. 0 \in G
  <2>1. /\ GoodContext(run[0]) /\ run[0].store.db = x.store.db
        /\ run[0].store.touched = {} /\ run[0].store.cap = x.store.cap
        /\ run[0].store.cached = x.store.cached
    BY <1>6, OpenedFacts DEF Goes
  <2>2. TouchedSince(run[0].store, txs, 0)
    BY <2>1 DEF TouchedSince
  <2>3. (x.store.cap >= Cardinality(Validator)) => Roomy(run[0].store)
    BY <2>1 DEF Roomy
  <2>4. Ok(0)
    BY <2>1, <2>2, <2>3
  <2> QED
    BY <2>4
<1>9. ASSUME NEW m \in Nat, m + 1 <= n, Ok(m)
      PROVE  /\ Ok(m + 1) /\ Transparent(run[m], run[m + 1], txs[m + 1])
  <2> DEFINE s == run[m].store
             t == run[m + 1].store
             tx == txs[m + 1]
  <2>1. /\ m + 1 \in DOMAIN txs
        /\ run[m + 1] = ExecuteDelayedTransaction(run[m], tx)
    BY <1>4, <1>6, <1>9 DEF Goes
  <2>2. Fresh(s, tx)
    <3>1. SUFFICES ASSUME tx.type = "createValidator", tx.creator \in s.touched,
                          tx.creator \notin DOMAIN s.db
                   PROVE  tx.creator \in s.cached
      BY DEF Fresh
    <3>2. PICK i \in DOMAIN txs :
             i <= m /\ txs[i].type = "createValidator" /\ txs[i].creator = tx.creator
      BY <1>9, <3>1 DEF TouchedSince
    <3>3. i # m + 1
      BY <1>7, <3>2
    <3>4. ~Once(txs)
      BY <2>1, <3>1, <3>2, <3>3 DEF Once
    <3>5. Roomy(s)
      BY <1>9, <3>4 DEF Calm
    <3> QED
      BY <3>1, <3>5 DEF Roomy
  <2>3. Transparent(run[m], run[m + 1], tx)
    BY <1>5, <1>9, <2>1, <2>2, TransactionShown
  <2>4. /\ GoodContext(run[m + 1]) /\ t.db = s.db /\ t.cap = s.cap
        /\ Roomy(s) => Roomy(t) /\ s.cached \subseteq t.cached
        /\ TouchedBy(s, t, tx)
    BY <2>3 DEF Transparent, Follows
  <2>5. TouchedSince(t, txs, m + 1)
    <3>1. SUFFICES ASSUME NEW w \in t.touched, w \notin DOMAIN t.db
                   PROVE  \E i \in DOMAIN txs : i <= m + 1
                             /\ txs[i].type = "createValidator" /\ txs[i].creator = w
      BY DEF TouchedSince
    <3>2. CASE tx.type = "createValidator" /\ w = tx.creator
      <4>1. m + 1 <= m + 1
        OBVIOUS
      <4> QED
        BY <2>1, <3>2, <4>1
    <3>3. CASE w \in s.touched
      <4>1. PICK i \in DOMAIN txs :
               i <= m /\ txs[i].type = "createValidator" /\ txs[i].creator = w
        BY <1>9, <2>4, <3>1, <3>3 DEF TouchedSince
      <4>2. i <= m + 1
        BY <1>7, <4>1
      <4> QED
        BY <4>1, <4>2
    <3> QED
      BY <2>4, <3>1, <3>2, <3>3 DEF TouchedBy
  <2> QED
    BY <1>9, <2>3, <2>4, <2>5
<1> HIDE DEF Ok
<1>10. ASSUME NEW m \in Nat, m \in G PROVE m + 1 \in G
  BY <1>7, <1>9, <1>10
<1>11. \A m \in Nat : m \in G
  <2> HIDE DEF G
  <2> QED
    BY <1>8, <1>10, Counting
<1>12. \A m \in Nat : m <= n => Ok(m)
  BY <1>11
<1>13. \A m \in Nat : m + 1 <= n => Transparent(run[m], run[m + 1], txs[m + 1])
  BY <1>7, <1>9, <1>12
<1>14. \A m \in Nat : m + 1 <= n => m <= n
  BY <1>7
<1>15. \A m \in Nat : Ok(m) =>
          /\ GoodContext(run[m])
          /\ run[m].store.cap = x.store.cap /\ run[m].store.db = x.store.db
          /\ (x.store.cap >= Cardinality(Validator)) =>
                /\ Roomy(run[m].store)
                /\ x.store.cached \subseteq run[m].store.cached
  BY DEF Ok
<1>16. n <= n /\ 0 <= n
  BY <1>7
<1> QED
  BY <1>3, <1>5, <1>6, <1>7, <1>12, <1>13, <1>14, <1>15, <1>16
     DEF BatchRun, Goes, n

\* The context after a batch.
LEMMA ClosedFacts ==
    ASSUME NEW x, GoodContext(x)
    PROVE  /\ ContextShape(Closed(x)) /\ Settled(Closed(x).store)
           /\ Closed(x).store.db = View(x.store)
           /\ Closed(x).store.cap = x.store.cap
           /\ Closed(x).thread = x.thread /\ Closed(x).epoch = x.epoch
           /\ Closed(x).quorum = x.quorum /\ Closed(x).params = x.params
           /\ Closed(x).stakingDelta = x.stakingDelta
           /\ Closed(x).balances = x.balances
           /\ Closed(x).registry = x.registry
           /\ Closed(x).version = x.version
<1> DEFINE t == WriteTouched(x.store)
           y == Closed(x)
<1>1. Settled(t) /\ t.db = View(x.store) /\ t.cap = x.store.cap
  BY WrittenFacts DEF GoodContext
<1> HIDE DEF t
<1>2. y = [x EXCEPT !.store = t]
  BY DEF Closed, t
<1> HIDE DEF y
<1>3. /\ ContextShape(y) /\ y.store = t
      /\ y.thread = x.thread /\ y.epoch = x.epoch /\ y.quorum = x.quorum
      /\ y.stakingDelta = x.stakingDelta /\ y.balances = x.balances
      /\ y.registry = x.registry /\ y.params = x.params
      /\ y.version = x.version
  BY <1>2 DEF ContextShape, GoodContext
<1> QED
  BY <1>1, <1>3 DEF y

\* A batch can be executed from x.
Ready(x, txs) ==
    /\ ContextShape(x) /\ Settled(x.store)
    /\ txs \in Seq(DelayedTransaction) /\ Calm(x, txs)

\* What the store of a context is after a batch.
LEMMA BatchStore ==
    ASSUME NEW x, NEW txs, Ready(x, txs), NEW y, y = ExecuteBatch(x, txs)
    PROVE  ContextShape(y) /\ Settled(y.store) /\ y.store.cap = x.store.cap
<1>1. PICK run : BatchRun(run, x, txs)
  BY BatchGoes DEF Ready
<1>2. y = Closed(run[Len(txs)]) /\ GoodContext(run[Len(txs)])
      /\ run[Len(txs)].store.cap = x.store.cap
  BY <1>1 DEF BatchRun
<1> QED
  BY <1>2, ClosedFacts

-----------------------------------------------------------------------------
(* Parameters *)

\* None of txs votes for one of the fields F.
NoVote(tx, F) ==
    tx.type = "votingAccept" /\ tx.votingType = "parameters" =>
        tx.updateField \notin F

NoVoteIn(txs, F) == \A i \in DOMAIN txs : NoVote(txs[i], F)

\* A transaction that votes on none of F changes none of F.
LEMMA ParamsStep ==
    ASSUME NEW x, x.params \in NetworkParameters,
           NEW tx \in DelayedTransaction, NEW F, NoVote(tx, F)
    PROVE  /\ ParamsAfter(x, tx) \in NetworkParameters
           /\ \A f \in F \cap Field : ParamsAfter(x, tx)[f] = x.params[f]
<1> DEFINE P == ParamsAfter(x, tx)
<1>1. CASE P = x.params
  BY <1>1
<1>2. CASE P # x.params
  <2>1. /\ P = [x.params EXCEPT ![tx.updateField] = tx.newValue]
        /\ tx.updateField \in Field /\ tx.updateField \notin F
        /\ tx.newValue \in Nat
    BY <1>2, TransactionFacts DEF ParamsAfter, Voted, NoVote
  <2> HIDE DEF P
  <2>2. x.params \in [Field -> Nat]
    BY DEF NetworkParameters
  <2> DEFINE old == x.params
  <2>3. P = [old EXCEPT ![tx.updateField] = tx.newValue] /\ old \in [Field -> Nat]
    BY <2>1, <2>2
  <2> HIDE DEF old
  <2>4. P \in [Field -> Nat]
    BY <2>1, <2>3
  <2>5. \A f \in Field : f # tx.updateField => P[f] = old[f]
    BY <2>3
  <2> QED
    BY <2>1, <2>4, <2>5 DEF NetworkParameters, old, P
<1> QED
  BY <1>1, <1>2

\* A batch that votes on none of F changes none of F.
LEMMA BatchParams ==
    ASSUME NEW x, NEW txs, Ready(x, txs), x.params \in NetworkParameters,
           NEW F, NoVoteIn(txs, F), NEW y, y = ExecuteBatch(x, txs)
    PROVE  /\ y.params \in NetworkParameters
           /\ \A f \in F \cap Field : y.params[f] = x.params[f]
<1>1. PICK run : BatchRun(run, x, txs)
  BY BatchGoes DEF Ready
<1> DEFINE n == Len(txs)
           Ok(m) == /\ run[m].params \in NetworkParameters
                    /\ \A f \in F \cap Field : run[m].params[f] = x.params[f]
           G == {m \in Nat : m <= n => Ok(m)}
<1>2. 0 \in G
  <2>1. run[0].params = x.params
    BY <1>1, OpenedFacts DEF BatchRun, Ready
  <2> QED
    BY <2>1
<1>3. ASSUME NEW m \in Nat, m \in G PROVE m + 1 \in G
  <2>1. SUFFICES ASSUME m + 1 <= n PROVE Ok(m + 1)
    OBVIOUS
  <2>2. /\ m + 1 \in DOMAIN txs /\ txs[m + 1] \in DelayedTransaction
        /\ Transparent(run[m], run[m + 1], txs[m + 1]) /\ m <= n
    BY <1>1, <2>1, BatchStep
  <2>3. Ok(m)
    BY <1>3, <2>2
  <2>4. run[m + 1].params = ParamsAfter(run[m], txs[m + 1])
    BY <2>2 DEF Transparent, Shown
  <2>5. NoVote(txs[m + 1], F)
    BY <2>2 DEF NoVoteIn
  <2> HIDE DEF n
  <2> QED
    BY <2>2, <2>3, <2>4, <2>5, ParamsStep
<1>4. \A m \in Nat : m \in G
  <2> HIDE DEF G
  <2> QED
    BY <1>2, <1>3, Counting
<1>5. n \in Nat /\ n <= n /\ y = Closed(run[n]) /\ GoodContext(run[n])
  BY <1>1 DEF BatchRun
<1>6. Ok(n) /\ y.params = run[n].params
  BY <1>4, <1>5, ClosedFacts
<1> QED
  BY <1>6

-----------------------------------------------------------------------------
(* A batch makes the same of contexts that agree *)

\* The contexts x and r show a contract the same.
Alike(x, r) ==
    /\ x.epoch = r.epoch /\ x.quorum = r.quorum
    /\ x.params = r.params /\ x.version = r.version
    /\ View(x.store) = View(r.store)

\* The contexts x and r have the same accounts.
AlikeAccounts(x, r) == x.thread = r.thread /\ x.balances = r.balances

\* The contexts x and r have the same registry.
AlikeRegistry(x, r) == x.registry = r.registry

\* A transaction makes the same of both.
LEMMA AlikeStep ==
    ASSUME NEW x, NEW r, Alike(x, r), NEW tx, NEW y, NEW q,
           Shown(x, y, tx), Shown(r, q, tx)
    PROVE  /\ Alike(y, q)
           /\ AlikeAccounts(x, r) => AlikeAccounts(y, q)
           /\ AlikeRegistry(x, r) => AlikeRegistry(y, q)
<1> DEFINE V == View(x.store)
<1>1. V = View(r.store)
  BY DEF Alike
<1> HIDE DEF V
<1>2. Shown(x, y, tx) <=>
        /\ y.thread = x.thread /\ y.epoch = x.epoch /\ y.quorum = x.quorum
        /\ View(y.store) = ViewAfter(V, x.params, tx)
        /\ y.stakingDelta = DeltaAfter(V, x, tx)
        /\ y.balances = BalancesAfter(V, x, tx)
        /\ y.registry = RegistryAfter(V, x, tx)
        /\ y.params = ParamsAfter(x, tx)
        /\ y.version = VersionAfter(x, tx)
  BY DEF Shown, V
<1>3. Shown(r, q, tx) <=>
        /\ q.thread = r.thread /\ q.epoch = r.epoch /\ q.quorum = r.quorum
        /\ View(q.store) = ViewAfter(V, r.params, tx)
        /\ q.stakingDelta = DeltaAfter(V, r, tx)
        /\ q.balances = BalancesAfter(V, r, tx)
        /\ q.registry = RegistryAfter(V, r, tx)
        /\ q.params = ParamsAfter(r, tx)
        /\ q.version = VersionAfter(r, tx)
  BY <1>1 DEF Shown
<1>4. VerifyVotingAcceptMajority(x, tx) <=> VerifyVotingAcceptMajority(r, tx)
  BY DEF Alike, VerifyVotingAcceptMajority, OkSignatures
<1>5. /\ ParamsAfter(x, tx) = ParamsAfter(r, tx)
      /\ VersionAfter(x, tx) = VersionAfter(r, tx)
  BY <1>4 DEF Alike, ParamsAfter, VersionAfter, Voted
<1>6. Alike(y, q)
  BY <1>2, <1>3, <1>5 DEF Alike
<1>7. AlikeAccounts(x, r) => AlikeAccounts(y, q)
  BY <1>2, <1>3 DEF Alike, AlikeAccounts, BalancesAfter, RefundUnstaked
<1>8. AlikeRegistry(x, r) => AlikeRegistry(y, q)
  BY <1>2, <1>3 DEF Alike, AlikeRegistry, RegistryAfter, JoinRegistry,
                    LeaveRegistry
<1> QED
  BY <1>6, <1>7, <1>8

\* What a batch makes of a context does not depend on the cache.
LEMMA AlikeBatch ==
    ASSUME NEW x, NEW r, NEW txs, Ready(x, txs), Ready(r, txs),
           x.epoch = r.epoch, x.quorum = r.quorum, x.params = r.params,
           x.version = r.version, x.store.db = r.store.db,
           NEW y, y = ExecuteBatch(x, txs), NEW q, q = ExecuteBatch(r, txs)
    PROVE  /\ y.params = q.params /\ y.version = q.version
           /\ y.store.db = q.store.db
           /\ AlikeAccounts(x, r) => AlikeAccounts(y, q)
           /\ AlikeRegistry(x, r) => AlikeRegistry(y, q)
<1>1. PICK f : BatchRun(f, x, txs)
  BY BatchGoes DEF Ready
<1>2. PICK g : BatchRun(g, r, txs)
  BY BatchGoes DEF Ready
<1> DEFINE n == Len(txs)
           Ok(m) == /\ Alike(f[m], g[m])
                    /\ AlikeAccounts(x, r) => AlikeAccounts(f[m], g[m])
                    /\ AlikeRegistry(x, r) => AlikeRegistry(f[m], g[m])
           G == {m \in Nat : m <= n => Ok(m)}
<1>3. 0 \in G
  <2>1. f[0] = Opened(x) /\ g[0] = Opened(r)
    BY <1>1, <1>2 DEF BatchRun
  <2>2. Alike(f[0], g[0])
    BY <2>1, OpenedFacts DEF Alike, Ready
  <2>3. /\ AlikeAccounts(x, r) => AlikeAccounts(f[0], g[0])
        /\ AlikeRegistry(x, r) => AlikeRegistry(f[0], g[0])
    BY <2>1, OpenedFacts DEF AlikeAccounts, AlikeRegistry, Ready
  <2> QED
    BY <2>2, <2>3
<1>4. ASSUME NEW m \in Nat, m \in G PROVE m + 1 \in G
  <2>1. SUFFICES ASSUME m + 1 <= n PROVE Ok(m + 1)
    OBVIOUS
  <2>2. /\ Shown(f[m], f[m + 1], txs[m + 1])
        /\ Shown(g[m], g[m + 1], txs[m + 1]) /\ m <= n
    BY <1>1, <1>2, <2>1, BatchStep
  <2>3. Ok(m)
    BY <1>4, <2>2
  <2> HIDE DEF n
  <2> QED
    BY <2>2, <2>3, AlikeStep
<1>5. \A m \in Nat : m \in G
  <2> HIDE DEF G
  <2> QED
    BY <1>3, <1>4, Counting
<1>6. /\ n \in Nat /\ n <= n /\ y = Closed(f[n]) /\ GoodContext(f[n])
      /\ q = Closed(g[n]) /\ GoodContext(g[n])
  BY <1>1, <1>2 DEF BatchRun
<1>7. Ok(n)
  BY <1>5, <1>6
<1> HIDE DEF n
<1> QED
  BY <1>6, <1>7, ClosedFacts DEF Alike, AlikeAccounts, AlikeRegistry

-----------------------------------------------------------------------------
(* Stakes *)

\* What is in a view adds up.
Funded(o) == Storage(o) /\ AddsUp(o)

\* Storages of validators that add up.
GoodView(V) ==
    /\ DOMAIN V \subseteq Validator
    /\ \A v \in DOMAIN V : Funded(V[v])

\* There are finitely many stakers.
LEMMA FinitelyMany ==
    /\ IsFiniteSet(Staker) /\ IsFiniteSet(Validator)
    /\ \A S \in SUBSET Staker : IsFiniteSet(S)
BY StoreAssumption, FS_Subset

\* The stakes of a storage can be added up.
LEMMA StakersSummable ==
    ASSUME NEW o, Storage(o)
    PROVE  /\ Summable(o.stakers, DOMAIN o.stakers)
           /\ o.stakers \in [DOMAIN o.stakers -> Nat]
           /\ DOMAIN o.stakers \subseteq Staker /\ o.total \in Nat
BY FinitelyMany DEF Storage, Summable

\* A stake is added to the stakers.
LEMMA StakeFunds ==
    ASSUME NEW o, Funded(o), NEW a \in Staker, NEW amount \in Nat, NEW n,
           n = WithStake([o EXCEPT !.total = o.total + amount], a,
                         StakeOf(o, a) + amount)
    PROVE  Funded(n) /\ n.total = o.total + amount
<1> DEFINE f == o.stakers
           D == DOMAIN f
           E == D \cup {a}
           g == [b \in E |-> IF b = a THEN StakeOf(o, a) + amount ELSE f[b]]
           p == [o EXCEPT !.total = o.total + amount]
<1>1. /\ Storage(o) /\ Summable(f, D) /\ f \in [D -> Nat]
      /\ D \subseteq Staker /\ o.total \in Nat /\ o.total = SumFunction(f)
  BY StakersSummable DEF Funded, AddsUp
<1>2. DOMAIN p = DOMAIN o /\ p.stakers = f /\ p.total = o.total + amount
      /\ p.details = o.details
  BY <1>1 DEF Storage
<1>3. n = [p EXCEPT !.stakers = g]
  BY <1>2 DEF WithStake
<1> HIDE DEF p
<1>4. DOMAIN n = DOMAIN o /\ n.stakers = g /\ n.total = o.total + amount
      /\ n.details = o.details
  BY <1>1, <1>2, <1>3 DEF Storage
<1>5. StakeOf(o, a) \in Nat
  BY <1>1 DEF StakeOf
<1>6. g \in [E -> Nat] /\ E \subseteq Staker
  BY <1>1, <1>5
<1>7. Summable(g, E)
  BY <1>6, FinitelyMany DEF Summable
<1>8. Storage(n)
  BY <1>1, <1>4, <1>6 DEF Storage
<1>9. SumFunction(g) = SumFunction(f) + amount
  <2>1. CASE a \in D
    <3>1. E = D /\ g[a] = f[a] + amount /\ f[a] \in Nat
      BY <1>1, <2>1 DEF StakeOf
    <3>2. \A b \in D : b # a => f[b] = g[b]
      OBVIOUS
    <3> HIDE DEF g, E
    <3>3. SumFunction(g) = SumFunction(f) + g[a] - f[a] /\ SumFunction(f) \in Int
      <4>1. Summable(g, D)
        BY <1>7, <3>1
      <4> HIDE DEF D, f
      <4> QED
        BY <1>1, <2>1, <3>2, <4>1, SumChanges
    <3> QED
      BY <3>1, <3>3
  <2>2. CASE a \notin D
    <3>1. E \ {a} = D /\ g[a] = amount /\ a \in E
      BY <2>2 DEF StakeOf
    <3>2. \A b \in D : f[b] = g[b]
      BY <2>2
    <3> HIDE DEF g, E
    <3>3. SumFunction(g) = SumFunction(f) + g[a]
      <4> HIDE DEF D, f
      <4> QED
        BY <1>1, <1>7, <3>1, <3>2, SumExtends
    <3> QED
      BY <3>1, <3>3
  <2> QED
    BY <2>1, <2>2
<1>10. AddsUp(n)
  BY <1>1, <1>4, <1>9 DEF AddsUp
<1> QED
  BY <1>4, <1>8, <1>10 DEF Funded

\* A stake is taken back.
LEMMA UnstakeFunds ==
    ASSUME NEW o, Funded(o), NEW tx, tx.staker \in DOMAIN o.stakers,
           tx.amount \in Nat, ~(o.stakers[tx.staker] < tx.amount), NEW n,
           n = [StakersAfterUnstake(o, tx) EXCEPT !.total = o.total - tx.amount]
    PROVE  Funded(n) /\ n.total = o.total - tx.amount
<1> DEFINE f == o.stakers
           D == DOMAIN f
           a == tx.staker
           amount == tx.amount
           p == StakersAfterUnstake(o, tx)
<1>1. /\ Storage(o) /\ Summable(f, D) /\ f \in [D -> Nat]
      /\ D \subseteq Staker /\ o.total \in Nat /\ o.total = SumFunction(f)
  BY StakersSummable DEF Funded, AddsUp
<1>2. f[a] \in Nat /\ f[a] >= amount /\ a \in D /\ amount \in Nat
  BY <1>1
<1>3. \E g, E : /\ p = [o EXCEPT !.stakers = g] /\ g \in [E -> Nat] /\ E \subseteq D
                /\ SumFunction(g) = SumFunction(f) - amount
  <2>1. CASE f[a] = amount
    <3> DEFINE E == D \ {a}
               g == [b \in E |-> f[b]]
    <3>1. p = [o EXCEPT !.stakers = g]
      BY <1>1, <2>1 DEF StakersAfterUnstake, WithoutStaker, Storage
    <3>2. g \in [E -> Nat]
      BY <1>1
    <3>3. Summable(g, E)
      BY <1>1, <3>2, FinitelyMany DEF Summable
    <3>4. \A b \in E : g[b] = f[b]
      OBVIOUS
    <3>5. SumFunction(f) = SumFunction(g) + f[a] /\ SumFunction(g) \in Int
      <4>1. D \ {a} = E
        OBVIOUS
      <4> HIDE DEF E, D, f, g
      <4> QED
        BY <1>1, <1>2, <3>3, <3>4, <4>1, SumExtends
    <3>6. SumFunction(g) = SumFunction(f) - amount
      <4> HIDE DEF g
      <4> QED
        BY <1>1, <1>2, <2>1, <3>5
    <3>7. E \subseteq D
      OBVIOUS
    <3> HIDE DEF g, E
    <3> QED
      BY <3>1, <3>2, <3>6, <3>7
  <2>2. CASE f[a] # amount
    <3> DEFINE E == D \cup {a}
               g == [b \in E |-> IF b = a THEN f[a] - amount ELSE f[b]]
    <3>1. p = [o EXCEPT !.stakers = g]
      BY <1>1, <2>2 DEF StakersAfterUnstake, WithStake, Storage
    <3>2. E = D
      BY <1>2
    <3>3. f[a] - amount \in Nat
      BY <1>2
    <3>4. g \in [D -> Nat] /\ g[a] = f[a] - amount
      BY <1>1, <1>2, <3>2, <3>3
    <3>5. Summable(g, D)
      BY <1>1, <3>4 DEF Summable
    <3>6. \A b \in D : b # a => f[b] = g[b]
      OBVIOUS
    <3> HIDE DEF g, E
    <3>7. SumFunction(g) = SumFunction(f) + g[a] - f[a]
      <4> HIDE DEF D, f
      <4> QED
        BY <1>1, <1>2, <3>5, <3>6, SumChanges
    <3>8. SumFunction(g) = SumFunction(f) - amount
      BY <1>1, <1>2, <3>4, <3>7
    <3> QED
      BY <3>1, <3>4, <3>8
  <2> QED
    BY <2>1, <2>2
<1>4. PICK g, E : /\ p = [o EXCEPT !.stakers = g] /\ g \in [E -> Nat] /\ E \subseteq D
                  /\ SumFunction(g) = SumFunction(f) - amount
  BY <1>3
<1> HIDE DEF p
<1>5. /\ DOMAIN p = DOMAIN o /\ p.stakers = g /\ p.details = o.details
      /\ p.total = o.total
  BY <1>1, <1>4 DEF Storage
<1>6. n = [p EXCEPT !.total = o.total - amount]
  BY DEF p
<1>7. /\ DOMAIN n = DOMAIN o /\ n.stakers = g /\ n.details = o.details
      /\ n.total = o.total - amount
  BY <1>1, <1>5, <1>6 DEF Storage
<1>8. AddsUp(n)
  BY <1>1, <1>4, <1>7 DEF AddsUp
<1>9. n.total \in Nat
  <2>1. Summable(g, E)
    BY <1>1, <1>4, FinitelyMany DEF Summable
  <2>2. \A b \in E : g[b] >= 0
    BY <1>4
  <2>3. SumFunction(g) \in Nat
    BY <2>1, <2>2, SumIsNat
  <2> QED
    BY <1>7, <1>8, <2>3 DEF AddsUp
<1>10. Storage(n)
  BY <1>1, <1>4, <1>7, <1>9 DEF Storage
<1> QED
  BY <1>7, <1>8, <1>10 DEF Funded

\* The stakes of the validators.
Totals(V) == [v \in DOMAIN V |-> V[v].total]

\* A storage o of V becomes n.
LEMMA TotalChanges ==
    ASSUME NEW V, GoodView(V), NEW v \in Validator, NEW n, Funded(n)
    PROVE  /\ GoodView(With(V, v, n)) /\ TotalStaked(V) \in Int
           /\ TotalStaked(With(V, v, n)) =
                 TotalStaked(V) + n.total - (IF v \in DOMAIN V THEN V[v].total ELSE 0)
<1> DEFINE W == With(V, v, n)
           D == DOMAIN V
           E == D \cup {v}
           f == Totals(V)
           g == Totals(W)
<1>1. DOMAIN W = E /\ W[v] = n /\ \A w \in D : w # v => W[w] = V[w]
  BY DEF With
<1> HIDE DEF W
<1>2. GoodView(W)
  BY <1>1 DEF GoodView
<1>3. \A w \in D : V[w].total \in Nat
  BY DEF GoodView, Funded, Storage
<1>4. \A w \in E : W[w].total \in Nat
  BY <1>1, <1>2 DEF GoodView, Funded, Storage
<1>5. IsFiniteSet(D) /\ IsFiniteSet(E)
  BY <1>1, <1>2, StoreAssumption, FinitelyMany DEF GoodView
<1>6. DOMAIN f = D /\ f = [w \in D |-> f[w]] /\ \A w \in D : f[w] = V[w].total
  BY DEF Totals
<1>7. DOMAIN g = E /\ g = [w \in E |-> g[w]] /\ \A w \in E : g[w] = W[w].total
  BY <1>1 DEF Totals
<1> HIDE DEF f, g
<1>8. Summable(f, D) /\ Summable(g, E)
  <2> HIDE DEF D, E
  <2>1. \A w \in D : f[w] \in Int
    BY <1>3, <1>6
  <2>2. \A w \in E : g[w] \in Int
    BY <1>4, <1>7
  <2>3. f \in [D -> Int]
    BY <1>6, <2>1
  <2>4. g \in [E -> Int]
    BY <1>7, <2>2
  <2> QED
    BY <1>5, <2>3, <2>4 DEF Summable
<1>9. TotalStaked(V) = SumFunction(f) /\ TotalStaked(W) = SumFunction(g)
  BY DEF TotalStaked, Totals, f, g
<1>10. CASE v \in D
  <2>1. E = D /\ f[v] = V[v].total /\ g[v] = n.total
    BY <1>1, <1>6, <1>7, <1>10
  <2>2. \A w \in D : w # v => f[w] = g[w]
    BY <1>1, <1>6, <1>7
  <2> HIDE DEF E, D
  <2>3. SumFunction(f) \in Int /\ SumFunction(g) = SumFunction(f) + g[v] - f[v]
    BY <1>8, <1>10, <2>1, <2>2, SumChanges
  <2> QED
    BY <1>2, <1>9, <1>10, <2>1, <2>3 DEF W, D
<1>11. CASE v \notin D
  <2>1. E \ {v} = D /\ v \in E /\ g[v] = n.total
    BY <1>1, <1>7, <1>11
  <2>2. \A w \in D : f[w] = g[w]
    BY <1>1, <1>6, <1>7, <1>11
  <2> HIDE DEF E, D
  <2>3. SumFunction(f) \in Int /\ SumFunction(g) = SumFunction(f) + g[v]
    BY <1>8, <2>1, <2>2, SumExtends
  <2>4. n.total \in Nat
    BY DEF Funded, Storage
  <2> QED
    BY <1>2, <1>9, <1>11, <2>1, <2>3, <2>4 DEF W, D
<1> QED
  BY <1>10, <1>11

\* A new validator has nothing.
LEMMA NewFunded ==
    ASSUME NEW v \in Validator, NEW d \in ValidDetails, NEW n,
           n = [details |-> d, total |-> 0, stakers |-> [a \in {v} |-> 0]]
    PROVE  Funded(n)
<1> DEFINE f == [a \in {v} |-> 0]
<1>1. v \in Staker /\ d \in Details /\ IsFiniteSet({v})
  BY StoreAssumption, DetailsAssumption, FS_Singleton
<1>2. f \in [{v} -> Nat] /\ f[v] = 0
  OBVIOUS
<1>3. Summable(f, {v})
  BY <1>1, <1>2 DEF Summable
<1>4. n.details = d /\ n.total = 0 /\ n.stakers = f /\ DOMAIN f = {v}
      /\ DOMAIN n = {"details", "total", "stakers"}
  OBVIOUS
<1> HIDE DEF f
<1>5. SumFunctionOnSet(f, {v}) = f[v] + SumFunctionOnSet(f, {v} \ {v})
      /\ SumFunctionOnSet(f, {}) = 0
  <2>1. {v} \in SUBSET {v} /\ v \in {v}
    OBVIOUS
  <2> QED
    BY <1>3, <2>1, SumFacts
<1>6. {v} \ {v} = {}
  OBVIOUS
<1>7. SumFunction(f) = 0
  BY <1>2, <1>4, <1>5, <1>6 DEF SumFunction
<1>8. Storage(n)
  BY <1>1, <1>2, <1>4 DEF Storage
<1> QED
  BY <1>4, <1>7, <1>8 DEF Funded, AddsUp

\* What tx adds to the stakes in the view.
Gain(V, P, tx) ==
    IF ~Acts(V, P, tx) THEN 0
    ELSE IF tx.type = "stake" THEN tx.amount
    ELSE IF tx.type = "unstake" THEN -tx.amount
    ELSE 0

\* The stakes of a view come to a number.
LEMMA TotalIsInt ==
    ASSUME NEW V, GoodView(V)
    PROVE  TotalStaked(V) \in Int
<1>1. CASE DOMAIN V = {}
  <2> DEFINE f == Totals(V)
  <2>1. DOMAIN f = {} /\ Summable(f, {})
    BY <1>1, FS_EmptySet DEF Totals, Summable
  <2> HIDE DEF f
  <2> QED
    BY <2>1, SumIsInt DEF TotalStaked, Totals, f
<1>2. CASE DOMAIN V # {}
  <2>1. PICK w \in DOMAIN V : TRUE
    BY <1>2
  <2>2. w \in Validator /\ Funded(V[w])
    BY DEF GoodView
  <2> QED
    BY <2>2, TotalChanges
<1> QED
  BY <1>1, <1>2

\* A transaction keeps the storages funded, and what is staked altogether
\* changes by what was staked and unstaked.
LEMMA ViewStep ==
    ASSUME NEW V, GoodView(V), NEW P, NEW tx \in DelayedTransaction,
           NEW W, W = ViewAfter(V, P, tx)
    PROVE  /\ GoodView(W) /\ TotalStaked(V) \in Int
           /\ TotalStaked(W) = TotalStaked(V) + Gain(V, P, tx)
           /\ Gain(V, P, tx) \in Int
<1> DEFINE v == About(tx)
           o == V[v]
           n == Becomes(V, tx)
           old == IF v \in DOMAIN V THEN o.total ELSE 0
<1>1. TotalStaked(V) \in Int
  BY TotalIsInt
<1>2. CASE ~Acts(V, P, tx)
  BY <1>1, <1>2 DEF ViewAfter, Gain
<1>3. CASE Acts(V, P, tx)
  <2>1. W = With(V, v, n)
    BY <1>3 DEF ViewAfter
  <2>2. tx.type \in {"createValidator", "updateValidator", "stake", "unstake"}
    BY <1>3 DEF Acts
  <2>3. v \in Validator
    BY <2>2, TransactionFacts DEF About
  <2>4. v \in DOMAIN V => Funded(o) /\ o.total \in Nat
    BY DEF GoodView, Funded, Storage
  <2>5. Funded(n) /\ n.total = old + Gain(V, P, tx) /\ Gain(V, P, tx) \in Int
    <3>1. CASE tx.type = "createValidator"
      <4>1. v = tx.creator /\ tx.details \in ValidDetails /\ v \notin DOMAIN V
        BY <1>3, <3>1 DEF Acts, About
      <4>2. n = [details |-> tx.details, total |-> 0, stakers |-> [a \in {v} |-> 0]]
        BY <3>1, <4>1 DEF Becomes
      <4>3. Funded(n)
        BY <2>3, <4>1, <4>2, NewFunded
      <4>4. n.total = 0
        BY <4>2
      <4> QED
        BY <1>3, <3>1, <4>1, <4>3, <4>4 DEF Gain
    <3>2. CASE tx.type = "updateValidator"
      <4>1. v = tx.creator /\ tx.details \in ValidDetails /\ v \in DOMAIN V
        BY <1>3, <3>2 DEF Acts, About
      <4>2. n = [o EXCEPT !.details = tx.details]
        BY <3>2 DEF Becomes
      <4> HIDE DEF n
      <4>3. /\ DOMAIN n = DOMAIN o /\ n.details = tx.details
            /\ n.total = o.total /\ n.stakers = o.stakers
        BY <2>4, <4>1, <4>2 DEF Funded, Storage
      <4>4. Funded(n)
        BY <2>4, <4>1, <4>3, DetailsAssumption DEF Funded, Storage, AddsUp
      <4> QED
        BY <1>3, <2>4, <3>2, <4>1, <4>3, <4>4 DEF Gain
    <3>3. CASE tx.type = "stake"
      <4>1. v = tx.validator /\ v \in DOMAIN V /\ tx.amount \in Nat
            /\ tx.staker \in Staker
        BY <1>3, <3>3, TransactionFacts DEF Acts, About
      <4>2. n = WithStake([o EXCEPT !.total = o.total + tx.amount], tx.staker,
                          StakeOf(o, tx.staker) + tx.amount)
        BY <3>3 DEF Becomes
      <4> HIDE DEF n
      <4>3. Funded(n) /\ n.total = o.total + tx.amount
        BY <2>4, <4>1, <4>2, StakeFunds
      <4> QED
        BY <1>3, <3>3, <4>1, <4>3 DEF Gain
    <3>4. CASE tx.type = "unstake"
      <4>1. v = tx.validator /\ v \in DOMAIN V /\ tx.amount \in Nat
            /\ tx.staker \in DOMAIN o.stakers
            /\ ~(o.stakers[tx.staker] < tx.amount)
        BY <1>3, <3>4, TransactionFacts DEF Acts, About
      <4>2. n = [StakersAfterUnstake(o, tx) EXCEPT !.total = o.total - tx.amount]
        BY <3>4 DEF Becomes
      <4> HIDE DEF n, o
      <4>3. Funded(o)
        BY <2>4, <4>1
      <4>4. Funded(n) /\ n.total = o.total - tx.amount
        BY <4>1, <4>2, <4>3, UnstakeFunds
      <4>5. o.total \in Nat
        BY <2>4, <4>1
      <4> QED
        BY <1>3, <3>4, <4>1, <4>4, <4>5 DEF Gain
    <3> QED
      BY <2>2, <3>1, <3>2, <3>3, <3>4
  <2> HIDE DEF n, v, old
  <2>6. /\ GoodView(W)
        /\ TotalStaked(W) = TotalStaked(V) + n.total - old
    BY <2>1, <2>3, <2>5, TotalChanges DEF old, o
  <2>7. old \in Nat
    BY <2>4 DEF old
  <2> QED
    BY <1>1, <2>5, <2>6, <2>7
<1> QED
  BY <1>2, <1>3

-----------------------------------------------------------------------------
(* Batches keep accounts, and the registry *)

\* Batches keep the storages funded, and the statistic of the execution thread.
LEMMA BatchStakes ==
    ASSUME NEW x, NEW txs, Ready(x, txs), GoodView(x.store.db),
           NEW y, y = ExecuteBatch(x, txs)
    PROVE  /\ GoodView(y.store.db)
           /\ (/\ x.thread = "execution"
               /\ x.stakingDelta = TotalStaked(x.store.db)) =>
                  y.stakingDelta = TotalStaked(y.store.db)
<1>1. PICK run : BatchRun(run, x, txs)
  BY BatchGoes DEF Ready
<1> DEFINE n == Len(txs)
           Counted == /\ x.thread = "execution"
                      /\ x.stakingDelta = TotalStaked(x.store.db)
           Ok(m) == /\ GoodView(View(run[m].store))
                    /\ Counted => /\ run[m].thread = "execution"
                                  /\ run[m].stakingDelta =
                                        TotalStaked(View(run[m].store))
           G == {m \in Nat : m <= n => Ok(m)}
<1>2. 0 \in G
  <2>1. run[0] = Opened(x)
    BY <1>1 DEF BatchRun
  <2>2. Ok(0)
    BY <2>1, OpenedFacts DEF Ready
  <2> QED
    BY <2>2
<1>3. ASSUME NEW m \in Nat, m \in G PROVE m + 1 \in G
  <2>1. SUFFICES ASSUME m + 1 <= n PROVE Ok(m + 1)
    OBVIOUS
  <2> DEFINE r == run[m]
             q == run[m + 1]
             tx == txs[m + 1]
             V == View(r.store)
             W == View(q.store)
  <2>2. tx \in DelayedTransaction /\ Shown(r, q, tx) /\ m <= n
    BY <1>1, <2>1, BatchStep
  <2>3. Ok(m)
    BY <1>3, <2>2
  <2>4. W = ViewAfter(V, r.params, tx)
    BY <2>2 DEF Shown
  <2>5. /\ GoodView(W) /\ TotalStaked(V) \in Int
        /\ TotalStaked(W) = TotalStaked(V) + Gain(V, r.params, tx)
        /\ Gain(V, r.params, tx) \in Int
    BY <2>2, <2>3, <2>4, ViewStep
  <2>6. ASSUME Counted
        PROVE  q.thread = "execution" /\ q.stakingDelta = TotalStaked(W)
    <3>1. /\ q.thread = r.thread /\ q.stakingDelta = DeltaAfter(V, r, tx)
      BY <2>2 DEF Shown
    <3>2. r.thread = "execution" /\ r.stakingDelta = TotalStaked(V)
      BY <2>3, <2>6
    <3>3. DeltaAfter(V, r, tx) = TotalStaked(V) + Gain(V, r.params, tx)
      <4> HIDE DEF V, r, tx
      <4>1. CASE tx.type = "stake" /\ Acts(V, r.params, tx)
        BY <3>2, <4>1 DEF DeltaAfter, Gain, StakeDelta
      <4>2. CASE tx.type = "unstake" /\ Acts(V, r.params, tx)
        BY <3>2, <4>2 DEF DeltaAfter, Gain, StakeDelta
      <4>3. CASE ~Acts(V, r.params, tx) \/ tx.type \notin {"stake", "unstake"}
        <5>1. Gain(V, r.params, tx) = 0
          BY <4>3 DEF Gain
        <5>2. DeltaAfter(V, r, tx) = r.stakingDelta
          BY <4>3 DEF DeltaAfter
        <5> QED
          BY <2>5, <3>2, <5>1, <5>2
      <4> QED
        BY <4>1, <4>2, <4>3
    <3> QED
      BY <2>5, <3>1, <3>2, <3>3
  <2> QED
    BY <2>5, <2>6
<1>4. \A m \in Nat : m \in G
  <2> HIDE DEF G
  <2> QED
    BY <1>2, <1>3, Counting
<1>5. n \in Nat /\ n <= n /\ y = Closed(run[n]) /\ GoodContext(run[n])
  BY <1>1 DEF BatchRun
<1>6. Ok(n)
  BY <1>4, <1>5
<1> HIDE DEF n
<1> QED
  BY <1>5, <1>6, ClosedFacts

-----------------------------------------------------------------------------
(* The registry *)

\* The registry has the validators of V with the required stake, each once.
RegistryOf(V, reg, required) ==
    /\ reg \in Seq(Validator) /\ IsInjective(reg)
    /\ ToSet(reg) = {v \in DOMAIN V : V[v].total >= required}

\* A validator joins a registry.
LEMMA Joins ==
    ASSUME NEW reg \in Seq(Validator), IsInjective(reg), NEW v \in Validator,
           v \notin ToSet(reg), NEW q, q = Append(reg, v)
    PROVE  /\ q \in Seq(Validator) /\ IsInjective(q)
           /\ ToSet(q) = ToSet(reg) \cup {v}
<1>1. /\ q \in Seq(Validator) /\ Len(q) = Len(reg) + 1 /\ q[Len(reg) + 1] = v
      /\ Len(reg) \in Nat /\ \A i \in 1 .. Len(reg) : q[i] = reg[i]
  OBVIOUS
<1>2. DOMAIN q = 1 .. Len(reg) + 1 /\ DOMAIN reg = 1 .. Len(reg)
  BY <1>1
<1>3. \A i \in 1 .. Len(reg) : reg[i] # v
  BY <1>2 DEF ToSet
<1>4. IsInjective(q)
  <2> SUFFICES ASSUME NEW i \in DOMAIN q, NEW j \in DOMAIN q, q[i] = q[j]
               PROVE  i = j
    BY DEF IsInjective
  <2>1. CASE i \in 1 .. Len(reg) /\ j \in 1 .. Len(reg)
    BY <1>1, <1>2, <2>1 DEF IsInjective
  <2>2. CASE i = Len(reg) + 1 \/ j = Len(reg) + 1
    BY <1>1, <1>2, <1>3, <2>2
  <2> QED
    BY <1>1, <1>2, <2>1, <2>2
<1>5. ToSet(q) = ToSet(reg) \cup {v}
  <2>1. \A i \in DOMAIN q : (i \in DOMAIN reg /\ q[i] = reg[i]) \/ q[i] = v
    BY <1>1, <1>2
  <2>2. \A i \in DOMAIN reg : i \in DOMAIN q /\ q[i] = reg[i]
    BY <1>1, <1>2
  <2>3. Len(reg) + 1 \in DOMAIN q
    BY <1>1, <1>2
  <2> QED
    BY <1>1, <2>1, <2>2, <2>3 DEF ToSet
<1> QED
  BY <1>1, <1>4, <1>5

\* Whatever a transaction does to a stake, the registry follows it.
LEMMA RegistryStep ==
    ASSUME NEW x, NEW V, GoodView(V), NEW R \in Nat, R > 0,
           x.params["VALIDATOR_REQUIRED_STAKE"] = R,
           RegistryOf(V, x.registry, R), NEW tx \in DelayedTransaction
    PROVE  RegistryOf(ViewAfter(V, x.params, tx), RegistryAfter(V, x, tx), R)
<1> DEFINE P == x.params
           W == ViewAfter(V, P, tx)
           v == About(tx)
           n == Becomes(V, tx)
           reg == x.registry
           new == RegistryAfter(V, x, tx)
           Of(U) == {w \in DOMAIN U : U[w].total >= R}
<1>1. CASE ~Acts(V, P, tx)
  <2>1. W = V /\ new = reg
    BY <1>1 DEF ViewAfter, RegistryAfter
  <2> QED
    BY <2>1
<1>2. CASE Acts(V, P, tx)
  <2>1. W = With(V, v, n)
    BY <1>2 DEF ViewAfter
  <2>2. tx.type \in {"createValidator", "updateValidator", "stake", "unstake"}
    BY <1>2 DEF Acts
  <2>3. v \in Validator
    BY <2>2, TransactionFacts DEF About
  <2>4. /\ DOMAIN W = DOMAIN V \cup {v} /\ W[v] = n
        /\ \A w \in DOMAIN V : w # v => W[w] = V[w]
    BY <2>1 DEF With
  <2>5. v \in DOMAIN V => V[v].total \in Nat /\ Storage(V[v])
    BY DEF GoodView, Funded, Storage
  <2>6. /\ reg \in Seq(Validator) /\ IsInjective(reg) /\ ToSet(reg) = Of(V)
    BY DEF RegistryOf
  <2> HIDE DEF W, v, n, P, reg, new
  <2>7. n.total >= R => Of(W) = Of(V) \cup {v}
    BY <2>4
  <2>8. ~(n.total >= R) => Of(W) = Of(V) \ {v}
    BY <2>4
  <2>9. v \in Of(V) <=> v \in DOMAIN V /\ V[v].total >= R
    OBVIOUS
  <2> HIDE DEF Of
  <2>10. CASE tx.type = "createValidator"
    <3>1. n.total = 0 /\ v \notin DOMAIN V
      BY <1>2, <2>10 DEF Becomes, n, Acts, v, About
    <3>2. new = reg
      BY <2>10 DEF new, RegistryAfter, reg
    <3>3. ~(n.total >= R)
      BY <3>1
    <3>4. Of(W) = Of(V)
      BY <2>8, <2>9, <3>1, <3>3
    <3> QED
      BY <2>6, <3>2, <3>4 DEF RegistryOf, Of, new, W, P
  <2>11. CASE tx.type = "updateValidator"
    <3>1. v \in DOMAIN V /\ n = [V[v] EXCEPT !.details = tx.details]
      BY <1>2, <2>11 DEF Becomes, n, Acts, v, About
    <3>2. n.total = V[v].total
      BY <2>5, <3>1 DEF Storage
    <3>3. new = reg
      BY <2>11 DEF new, RegistryAfter, reg
    <3>4. Of(W) = Of(V)
      BY <2>7, <2>8, <2>9, <3>1, <3>2
    <3> QED
      BY <2>6, <3>3, <3>4 DEF RegistryOf, Of, new, W, P
  <2>12. CASE tx.type = "stake"
    <3>1. v = tx.validator /\ v \in DOMAIN V /\ tx.amount \in Nat
          /\ tx.staker \in Staker
      BY <1>2, <2>12, TransactionFacts DEF Acts, v, About
    <3>2. n.total = V[v].total + tx.amount
      <4>1. n = WithStake([V[v] EXCEPT !.total = V[v].total + tx.amount], tx.staker,
                          StakeOf(V[v], tx.staker) + tx.amount)
        BY <2>12 DEF Becomes, n, v
      <4>2. Funded(V[v])
        BY <3>1 DEF GoodView
      <4> QED
        BY <3>1, <4>1, <4>2, StakeFunds
    <3>3. new = JoinRegistry(x, v, n.total)
      BY <1>2, <2>12, <3>1, <3>2 DEF new, RegistryAfter, P
    <3>4. CASE n.total < R
      <4>1. new = reg
        BY <3>3, <3>4 DEF JoinRegistry, reg
      <4>2. ~(n.total >= R) /\ ~(V[v].total >= R)
        BY <2>5, <3>1, <3>2, <3>4
      <4>3. Of(W) = Of(V) \ {v} /\ v \notin Of(V)
        BY <2>8, <2>9, <4>2
      <4>4. Of(W) = Of(V)
        BY <4>3
      <4> QED
        BY <2>6, <4>1, <4>4 DEF RegistryOf, Of, new, W, P
    <3>5. CASE ~(n.total < R) /\ v \in ToSet(reg)
      <4>1. Contains(reg, v)
        BY <2>6, <3>5 DEF Contains, ToSet
      <4>2. new = reg
        BY <3>3, <3>5, <4>1 DEF JoinRegistry, reg
      <4>3. n.total >= R
        BY <2>5, <3>1, <3>2, <3>5
      <4>4. Of(W) = Of(V)
        BY <2>6, <2>7, <3>5, <4>3
      <4> QED
        BY <2>6, <4>2, <4>4 DEF RegistryOf, Of, new, W, P
    <3>6. CASE ~(n.total < R) /\ v \notin ToSet(reg)
      <4>1. ~Contains(reg, v)
        BY <2>6, <3>6 DEF Contains, ToSet
      <4>2. new = Append(reg, v)
        BY <3>3, <3>6, <4>1 DEF JoinRegistry, reg
      <4>3. n.total >= R
        BY <2>5, <3>1, <3>2, <3>6
      <4>4. Of(W) = ToSet(reg) \cup {v}
        BY <2>6, <2>7, <4>3
      <4>5. /\ new \in Seq(Validator) /\ IsInjective(new)
            /\ ToSet(new) = ToSet(reg) \cup {v}
        BY <2>3, <2>6, <3>6, <4>2, Joins
      <4> QED
        BY <4>4, <4>5 DEF RegistryOf, Of, new, W, P
    <3> QED
      BY <3>4, <3>5, <3>6
  <2>13. CASE tx.type = "unstake"
    <3>1. v = tx.validator /\ v \in DOMAIN V /\ tx.amount \in Nat
          /\ tx.staker \in DOMAIN V[v].stakers
          /\ ~(V[v].stakers[tx.staker] < tx.amount)
      BY <1>2, <2>13, TransactionFacts DEF Acts, v, About
    <3>2. n.total = V[v].total - tx.amount /\ n.total \in Nat
      <4>1. n = [StakersAfterUnstake(V[v], tx) EXCEPT !.total = V[v].total - tx.amount]
        BY <2>13 DEF Becomes, n, v
      <4>2. Funded(V[v])
        BY <3>1 DEF GoodView
      <4> QED
        BY <3>1, <4>1, <4>2, UnstakeFunds DEF Funded, Storage
    <3>3. new = LeaveRegistry(x, v, n.total)
      BY <1>2, <2>13, <3>1, <3>2 DEF new, RegistryAfter, P
    <3>4. CASE n.total >= R
      <4>1. new = reg
        BY <3>3, <3>4 DEF LeaveRegistry, reg
      <4>2. V[v].total >= R
        BY <2>5, <3>1, <3>2, <3>4
      <4>3. Of(W) = Of(V)
        BY <2>7, <2>9, <3>1, <3>4, <4>2
      <4> QED
        BY <2>6, <4>1, <4>3 DEF RegistryOf, Of, new, W, P
    <3>5. CASE ~(n.total >= R)
      <4>1. new = RemoveFirst(reg, v)
        BY <3>3, <3>5 DEF LeaveRegistry, reg
      <4>2. Of(W) = ToSet(reg) \ {v}
        BY <2>6, <2>8, <3>5
      <4>3. /\ new \in Seq(Validator) /\ IsInjective(new)
            /\ ToSet(new) = ToSet(reg) \ {v}
        BY <2>6, <4>1, Removed
      <4> QED
        BY <4>2, <4>3 DEF RegistryOf, Of, new, W, P
    <3> QED
      BY <3>4, <3>5
  <2> QED
    BY <2>2, <2>10, <2>11, <2>12, <2>13 DEF W, P, new
<1> QED
  BY <1>1, <1>2

\* The registry follows the stakes through a batch.
LEMMA BatchRegistry ==
    ASSUME NEW x, NEW txs, Ready(x, txs), GoodView(x.store.db),
           x.params \in NetworkParameters,
           NoVoteIn(txs, {"VALIDATOR_REQUIRED_STAKE"}),
           NEW R, R = x.params["VALIDATOR_REQUIRED_STAKE"], R > 0,
           RegistryOf(x.store.db, x.registry, R),
           NEW y, y = ExecuteBatch(x, txs)
    PROVE  RegistryOf(y.store.db, y.registry, R)
<1>1. PICK run : BatchRun(run, x, txs)
  BY BatchGoes DEF Ready
<1> DEFINE n == Len(txs)
           F == {"VALIDATOR_REQUIRED_STAKE"}
           Ok(m) == /\ GoodView(View(run[m].store))
                    /\ run[m].params \in NetworkParameters
                    /\ run[m].params["VALIDATOR_REQUIRED_STAKE"] = R
                    /\ RegistryOf(View(run[m].store), run[m].registry, R)
           G == {m \in Nat : m <= n => Ok(m)}
<1>2. 0 \in G
  <2>1. run[0] = Opened(x)
    BY <1>1 DEF BatchRun
  <2>2. Ok(0)
    BY <2>1, OpenedFacts DEF Ready
  <2> QED
    BY <2>2
<1>3. ASSUME NEW m \in Nat, m \in G PROVE m + 1 \in G
  <2>1. SUFFICES ASSUME m + 1 <= n PROVE Ok(m + 1)
    OBVIOUS
  <2> DEFINE r == run[m]
             q == run[m + 1]
             tx == txs[m + 1]
             V == View(r.store)
  <2>2. /\ tx \in DelayedTransaction /\ Shown(r, q, tx) /\ m <= n
        /\ m + 1 \in DOMAIN txs
    BY <1>1, <2>1, BatchStep
  <2>3. Ok(m)
    BY <1>3, <2>2
  <2>4. /\ View(q.store) = ViewAfter(V, r.params, tx)
        /\ q.params = ParamsAfter(r, tx)
        /\ q.registry = RegistryAfter(V, r, tx)
    BY <2>2 DEF Shown
  <2>5. NoVote(tx, F)
    BY <2>2 DEF NoVoteIn
  <2>6. /\ q.params \in NetworkParameters
        /\ q.params["VALIDATOR_REQUIRED_STAKE"] = R
    <3>1. "VALIDATOR_REQUIRED_STAKE" \in F \cap Field
      BY DEF Field
    <3> HIDE DEF F
    <3> QED
      BY <2>2, <2>3, <2>4, <2>5, <3>1, ParamsStep
  <2>7. GoodView(View(q.store))
    BY <2>2, <2>3, <2>4, ViewStep
  <2>8. R \in Nat
    BY DEF NetworkParameters, Field
  <2>9. RegistryOf(View(q.store), q.registry, R)
    BY <2>2, <2>3, <2>4, <2>8, RegistryStep
  <2> QED
    BY <2>6, <2>7, <2>9
<1>4. \A m \in Nat : m \in G
  <2> HIDE DEF G
  <2> QED
    BY <1>2, <1>3, Counting
<1>5. n \in Nat /\ n <= n /\ y = Closed(run[n]) /\ GoodContext(run[n])
  BY <1>1 DEF BatchRun
<1>6. Ok(n)
  BY <1>4, <1>5
<1> HIDE DEF n
<1> QED
  BY <1>5, <1>6, ClosedFacts

\* A registry stays a list of validators.
LEMMA RegistryTyped ==
    ASSUME NEW V, NEW x, x.registry \in Seq(Validator),
           NEW tx \in DelayedTransaction
    PROVE  RegistryAfter(V, x, tx) \in Seq(Validator)
<1> DEFINE v == tx.validator
           reg == x.registry
<1>1. tx.type \in {"stake", "unstake"} => v \in Validator
  BY TransactionFacts
<1>2. RemoveFirst(reg, v) \in Seq(Validator)
  BY Removed
<1>3. v \in Validator => Append(reg, v) \in Seq(Validator)
  OBVIOUS
<1>4. \A total : JoinRegistry(x, v, total) \in {reg, Append(reg, v)}
  BY DEF JoinRegistry
<1>5. \A total : LeaveRegistry(x, v, total) \in {reg, RemoveFirst(reg, v)}
  BY DEF LeaveRegistry
<1>6. RegistryAfter(V, x, tx) =
         IF tx.type = "stake" /\ Acts(V, x.params, tx)
         THEN JoinRegistry(x, v, V[v].total + tx.amount)
         ELSE IF tx.type = "unstake" /\ Acts(V, x.params, tx)
         THEN LeaveRegistry(x, v, V[v].total - tx.amount) ELSE reg
  BY DEF RegistryAfter
<1> HIDE DEF v, reg
<1>7. reg \in Seq(Validator)
  BY DEF reg
<1>8. CASE tx.type = "stake" /\ Acts(V, x.params, tx)
  <2>1. RegistryAfter(V, x, tx) = JoinRegistry(x, v, V[v].total + tx.amount)
    BY <1>6, <1>8
  <2> QED
    BY <1>1, <1>3, <1>4, <1>7, <1>8, <2>1
<1>9. CASE tx.type = "unstake" /\ Acts(V, x.params, tx)
  <2>1. RegistryAfter(V, x, tx) = LeaveRegistry(x, v, V[v].total - tx.amount)
    BY <1>6, <1>9
  <2> QED
    BY <1>2, <1>5, <1>7, <2>1
<1> QED
  BY <1>6, <1>7, <1>8, <1>9

\* The registry of a context is one of validators after a batch.
LEMMA BatchRegistryTyped ==
    ASSUME NEW x, NEW txs, Ready(x, txs), x.registry \in Seq(Validator),
           NEW y, y = ExecuteBatch(x, txs)
    PROVE  y.registry \in Seq(Validator)
<1>1. PICK run : BatchRun(run, x, txs)
  BY BatchGoes DEF Ready
<1> DEFINE n == Len(txs)
           Ok(m) == run[m].registry \in Seq(Validator)
           G == {m \in Nat : m <= n => Ok(m)}
<1>2. 0 \in G
  BY <1>1, OpenedFacts DEF BatchRun, Ready
<1>3. ASSUME NEW m \in Nat, m \in G PROVE m + 1 \in G
  <2>1. SUFFICES ASSUME m + 1 <= n PROVE Ok(m + 1)
    OBVIOUS
  <2>2. /\ txs[m + 1] \in DelayedTransaction /\ m <= n
        /\ Shown(run[m], run[m + 1], txs[m + 1])
    BY <1>1, <2>1, BatchStep
  <2>3. run[m + 1].registry =
           RegistryAfter(View(run[m].store), run[m], txs[m + 1])
    BY <2>2 DEF Shown
  <2>4. Ok(m)
    BY <1>3, <2>2
  <2> QED
    BY <2>2, <2>3, <2>4, RegistryTyped
<1>4. \A m \in Nat : m \in G
  <2> HIDE DEF G
  <2> QED
    BY <1>2, <1>3, Counting
<1>5. n \in Nat /\ n <= n /\ y = Closed(run[n]) /\ GoodContext(run[n])
  BY <1>1 DEF BatchRun
<1>6. Ok(n)
  BY <1>4, <1>5
<1> HIDE DEF n
<1> QED
  BY <1>5, <1>6, ClosedFacts

-----------------------------------------------------------------------------
(* What is in memory after a batch *)

\* With a cache for all, what a batch has changed is in the cache after it.
LEMMA BatchMemory ==
    ASSUME NEW x, NEW txs, Ready(x, txs),
           x.store.cap >= Cardinality(Validator),
           NEW y, y = ExecuteBatch(x, txs)
    PROVE  /\ Roomy(y.store) /\ x.store.cached \subseteq y.store.cached
           /\ \A v \in DOMAIN x.store.db :
                 /\ v \in DOMAIN y.store.db
                 /\ v \in y.store.touched \/ y.store.db[v] = x.store.db[v]
<1>1. PICK run : BatchRun(run, x, txs)
  BY BatchGoes DEF Ready
<1> DEFINE z == run[Len(txs)]
           s == z.store
           t == WriteTouched(s)
<1>2. /\ y = [z EXCEPT !.store = t] /\ GoodContext(z) /\ Roomy(s)
      /\ x.store.cached \subseteq s.cached /\ s.db = x.store.db
  BY <1>1 DEF BatchRun, Closed
<1> HIDE DEF z
<1>3. GoodStore(s) /\ ContextShape(z)
  BY <1>2 DEF GoodContext
<1>4. /\ t.cap = s.cap /\ t.cached = s.cached /\ t.touched = s.touched
      /\ t.db = Seen(s)
  BY <1>3 DEF WriteTouched, GoodStore, StoreShape, Seen
<1> HIDE DEF t
<1>5. y.store = t
  BY <1>2, <1>3 DEF ContextShape
<1> HIDE DEF s
<1>6. \A v \in DOMAIN s.db : /\ v \in DOMAIN t.db
                             /\ v \in t.touched \/ t.db[v] = s.db[v]
  BY <1>4 DEF Seen
<1> QED
  BY <1>2, <1>4, <1>5, <1>6 DEF Roomy, s

\* Reads under the lock.
LEMMA AllRead ==
    ASSUME NEW s, GoodStore(s), NEW q \in Seq(Validator), NEW t, t = ReadAll(s, q)
    PROVE  /\ Follows(s, t) /\ View(t) = View(s)
           /\ s.touched \subseteq t.touched
<1> DEFINE n == Len(q)
<1>1. List(q, n) /\ \A i \in DOMAIN q : q[i] \in Validator
  BY DEF List
<1>2. Runs(<<"get">>, s, q, n, t)
  BY <1>1, GetFold DEF ReadAll
<1>3. \A u, v : Do(<<"get">>, u, v) = GetValidator(u, v)
  BY DEF Do
<1> HIDE DEF n
<1>4. PICK run : Goes(run, <<"get">>, s, q, n, t)
  BY <1>1, <1>2, RunFacts
<1>5. n \in Nat
  BY <1>1 DEF List
<1> DEFINE Ok(u) == /\ Follows(s, u) /\ View(u) = View(s)
                    /\ s.touched \subseteq u.touched
           G == {m \in Nat : m <= n => Ok(run[m])}
<1>6. Ok(s)
  BY DEF Follows
<1>7. ASSUME NEW u, Ok(u), NEW v \in Validator PROVE Ok(GetValidator(u, v))
  <2> DEFINE w == GetValidator(u, v)
  <2>1. /\ Follows(u, w) /\ View(w) = View(u)
        /\ Exists(u, v) => w.touched = u.touched \cup {v}
        /\ ~Exists(u, v) => w = u
    BY <1>7, GetFacts DEF Follows
  <2> HIDE DEF w
  <2>2. Follows(s, w)
    BY <1>7, <2>1 DEF Follows
  <2> QED
    BY <1>7, <2>1, <2>2 DEF w
<1> HIDE DEF Ok
<1>8. 0 \in G
  BY <1>4, <1>6 DEF Goes
<1>9. ASSUME NEW m \in Nat, m \in G PROVE m + 1 \in G
  BY <1>1, <1>3, <1>4, <1>5, <1>7, <1>9 DEF Goes
<1>10. \A m \in Nat : m \in G
  <2> HIDE DEF G
  <2> QED
    BY <1>8, <1>9, Counting
<1>11. Ok(t)
  BY <1>4, <1>5, <1>10 DEF Goes
<1> QED
  BY <1>11 DEF Ok

\* A store that shows its database is settled.
LEMMA SettledAgain ==
    ASSUME NEW s, GoodStore(s), View(s) = s.db
    PROVE  Settled(s)
<1>1. View(s) = Seen(s) /\ DOMAIN View(s) = DOMAIN s.db \cup s.touched
  BY ViewFacts
<1>2. \A v \in s.touched : v \in DOMAIN s.db /\ s.mem[v] = s.db[v]
  BY <1>1 DEF Seen
<1> QED
  BY <1>2 DEF Settled, GoodStore, Clean

\* The selection of a quorum and of leaders only reads.
LEMMA SelectionSettles ==
    ASSUME NEW s, Settled(s), NEW q \in Seq(Validator), NEW size,
           NEW t, t = ResetTouched(AfterSelection(s, q, size))
    PROVE  /\ Settled(t) /\ t.db = s.db /\ t.cap = s.cap /\ t.touched = {}
           /\ Roomy(s) => s.cached \cup s.touched \subseteq t.cached
<1> DEFINE u == AfterSelection(s, q, size)
<1>1. GoodStore(s) /\ View(s) = s.db
  BY SettledFacts
<1>2. Follows(s, u) /\ View(u) = View(s) /\ s.touched \subseteq u.touched
  <2> DEFINE r == ReadAll(s, q)
  <2>1. Follows(s, r) /\ View(r) = View(s) /\ s.touched \subseteq r.touched
    BY <1>1, AllRead
  <2> HIDE DEF r
  <2> DEFINE p == ReadAll(r, q)
  <2>2. Follows(r, p) /\ View(p) = View(r) /\ r.touched \subseteq p.touched
    BY <2>1, AllRead DEF Follows
  <2> HIDE DEF p
  <2>3. Follows(s, p)
    BY <2>1, <2>2 DEF Follows
  <2>4. u = r \/ u = p
    BY DEF AfterSelection, r, p
  <2> QED
    BY <2>1, <2>2, <2>3, <2>4
<1> HIDE DEF u
<1>3. Settled(u) /\ u.db = s.db /\ u.cap = s.cap
  BY <1>1, <1>2, SettledAgain DEF Follows
<1>4. /\ Settled(t) /\ t.db = u.db /\ t.cap = u.cap /\ t.touched = {}
      /\ t.cached = u.cached
  BY <1>3, ResetFacts DEF u
<1>5. Roomy(s) => s.cached \cup s.touched \subseteq t.cached
  BY <1>2, <1>4 DEF Follows, Roomy
<1> QED
  BY <1>3, <1>4, <1>5

-----------------------------------------------------------------------------
(* What is put into the cache without being touched *)

\* What the store has in memory is in D, too.
Holding(s, D) ==
    /\ StoreShape(s) /\ StoreMaps(s)
    /\ \A v \in DOMAIN s.mem : v \in DOMAIN D /\ s.mem[v] = D[v]

\* A storage of D is put into the cache.
LEMMA PutHolds ==
    ASSUME NEW s, NEW D, Holding(s, D), NEW v \in Validator, v \in DOMAIN D,
           NEW t, t = Collect(PutCache(s, v, D[v]))
    PROVE  /\ Holding(t, D) /\ t.db = s.db /\ t.cap = s.cap
           /\ t.touched = s.touched
           /\ s.cap >= Cardinality(Validator) =>
                 t.cached = s.cached \cup {v}
<1> DEFINE mem == [w \in DOMAIN s.mem \cup {v} |->
                      IF w = v THEN D[v] ELSE s.mem[w]]
           r == [s EXCEPT !.mem = mem, !.cached = s.cached \cup {v}]
           u == TouchCache(r, v)
<1>1. t = Collect(u)
  BY DEF PutCache
<1>2. /\ DOMAIN r = DOMAIN s /\ r.db = s.db /\ r.cap = s.cap /\ r.mem = mem
      /\ r.cached = s.cached \cup {v} /\ r.touched = s.touched
      /\ r.lru = s.lru
  BY DEF Holding, StoreShape
<1> HIDE DEF r
<1>3. StoreShape(r)
  BY <1>2 DEF Holding, StoreShape
<1>4. Evicted(r, u)
  BY <1>3, TouchEvicts
<1> HIDE DEF u
<1>5. /\ StoreShape(t) /\ t.db = u.db /\ t.cap = u.cap
      /\ t.cached = u.cached /\ t.touched = u.touched
      /\ t.mem = [w \in u.cached \cup u.touched |-> u.mem[w]]
  BY <1>1, <1>4, CollectFacts DEF Evicted
<1>6. /\ t.db = s.db /\ t.cap = s.cap /\ t.touched = s.touched
      /\ t.cached \subseteq s.cached \cup {v}
      /\ t.mem = [w \in t.cached \cup t.touched |-> mem[w]]
  BY <1>2, <1>4, <1>5 DEF Evicted
<1>7. \A w \in s.cached \cup s.touched \cup {v} :
          w \in DOMAIN D /\ mem[w] = D[w] /\ w \in Validator
  BY DEF Holding, StoreMaps
<1> HIDE DEF mem
<1>8. Holding(t, D)
  BY <1>5, <1>6, <1>7 DEF Holding, StoreMaps
<1>9. ASSUME s.cap >= Cardinality(Validator)
      PROVE  t.cached = s.cached \cup {v}
  <2>1. r.cached \in SUBSET Validator /\ s.cap \in Nat
    BY <1>2 DEF Holding, StoreShape
  <2>2. IsFiniteSet(Validator)
    BY FinitelyMany
  <2>3. Cardinality(r.cached) <= s.cap
    <3>1. Cardinality(r.cached) \in Nat /\ Cardinality(Validator) \in Nat
          /\ Cardinality(r.cached) <= Cardinality(Validator)
      BY <2>1, <2>2, FS_Subset, FS_CardinalityType
    <3> QED
      BY <1>9, <2>1, <3>1
  <2> QED
    BY <1>2, <1>4, <1>5, <2>3 DEF Evicted
<1> QED
  BY <1>6, <1>8, <1>9

\* The end of a read that was begun without the lock.
LEMMA FillHolds ==
    ASSUME NEW s, NEW D, Holding(s, D), NEW v \in Validator, v \in DOMAIN D,
           NEW x, InMemory(s, v) \/ x = D[v], NEW t, t = FillCache(s, v, x)
    PROVE  /\ Holding(t, D) /\ t.db = s.db /\ t.cap = s.cap
           /\ t.touched = s.touched
           /\ s.cap >= Cardinality(Validator) => s.cached \subseteq t.cached
<1>1. CASE InMemory(s, v)
  BY <1>1 DEF FillCache
<1>2. CASE ~InMemory(s, v)
  <2>1. t = Collect(PutCache(s, v, D[v]))
    BY <1>2 DEF FillCache
  <2> QED
    BY <2>1, PutHolds
<1> QED
  BY <1>1, <1>2

\* A store is settled when its memory has what its database has.
LEMMA SettledHolds ==
    ASSUME NEW s
    PROVE  Settled(s) <=> Holding(s, s.db)
BY DEF Settled, Holding

\* A store without anything in memory is settled.
LEMMA OpenSettled ==
    ASSUME NEW db, db = [v \in DOMAIN db |-> db[v]], DOMAIN db \subseteq Validator,
           NEW cap \in Nat, NEW t, t = OpenStore(db, cap)
    PROVE  /\ t.db = db /\ t.cap = cap /\ t.touched = {} /\ t.cached = {}
           /\ Settled(t) /\ \A D : Holding(t, D)
<1>1. /\ DOMAIN t = {"db", "cap", "mem", "cached", "touched", "lru", "shared"}
      /\ t.db = db /\ t.cap = cap /\ t.mem = [v \in {} |-> 0]
      /\ t.cached = {} /\ t.touched = {} /\ t.lru = <<>>
  BY DEF OpenStore
<1>2. StoreShape(t) /\ StoreMaps(t)
  BY <1>1 DEF StoreShape, StoreMaps
<1> QED
  BY <1>1, <1>2 DEF Settled, Holding

-----------------------------------------------------------------------------
(* The genesis *)

\* The validators of the genesis by their keys.
LEMMA GenesisFacts ==
    /\ Genesis.params \in NetworkParameters
    /\ DOMAIN GenesisDb \subseteq Validator
    /\ GenesisDb = [v \in DOMAIN GenesisDb |-> GenesisDb[v]]
    /\ GoodView(GenesisDb)
    /\ RegistryOf(GenesisDb, GenesisRegistry,
                  Genesis.params["VALIDATOR_REQUIRED_STAKE"])
    /\ ToSet(GenesisRegistry) = DOMAIN GenesisDb
    /\ List(Genesis.validators, Len(Genesis.validators))
    /\ \A i \in DOMAIN Genesis.validators :
          LET g == Genesis.validators[i]
          IN  /\ g.pubkey \in Validator /\ g.pubkey \in DOMAIN GenesisDb
              /\ g.storage = GenesisDb[g.pubkey]
<1> DEFINE q == Genesis.validators
           R == Genesis.params["VALIDATOR_REQUIRED_STAKE"]
<1>1. /\ q \in Seq(Range(q)) /\ Genesis.params \in NetworkParameters
      /\ IsInjective([i \in DOMAIN q |-> q[i].pubkey])
      /\ \A i \in DOMAIN q :
            /\ q[i] \in Range(q) /\ q[i].pubkey \in Validator
            /\ Storage(q[i].storage) /\ AddsUp(q[i].storage)
            /\ q[i].storage.total >= R
  BY RotationAssumption DEF Range, HasRequiredStake
<1>2. \A g : g \in Range(q) <=> \E i \in DOMAIN q : g = q[i]
  BY DEF Range
<1>3. \A i, j \in DOMAIN q : q[i].pubkey = q[j].pubkey => i = j
  BY <1>1 DEF IsInjective
<1>4. \A i \in DOMAIN q :
          (CHOOSE g \in Range(q) : g.pubkey = q[i].pubkey) = q[i]
  BY <1>1, <1>2, <1>3
<1>5. /\ DOMAIN GenesisDb = {q[i].pubkey : i \in DOMAIN q}
      /\ GenesisDb = [v \in DOMAIN GenesisDb |-> GenesisDb[v]]
  BY DEF GenesisDb
<1>6. \A i \in DOMAIN q : /\ q[i].pubkey \in DOMAIN GenesisDb
                          /\ GenesisDb[q[i].pubkey] = q[i].storage
  BY <1>4, <1>5 DEF GenesisDb
<1>7. /\ GenesisRegistry = [i \in 1 .. Len(q) |-> q[i].pubkey]
      /\ DOMAIN q = 1 .. Len(q) /\ Len(q) \in Nat
  BY <1>1 DEF GenesisRegistry
<1> HIDE DEF q
<1>8. GoodView(GenesisDb)
  BY <1>1, <1>5, <1>6 DEF GoodView, Funded
<1>9. /\ GenesisRegistry \in Seq(Validator) /\ IsInjective(GenesisRegistry)
      /\ ToSet(GenesisRegistry) = DOMAIN GenesisDb
  <2>1. GenesisRegistry \in Seq(Validator)
    BY <1>1, <1>7
  <2>2. /\ DOMAIN GenesisRegistry = DOMAIN q
        /\ \A i \in DOMAIN q : GenesisRegistry[i] = q[i].pubkey
    BY <1>7
  <2>3. IsInjective(GenesisRegistry)
    BY <1>3, <2>2 DEF IsInjective
  <2>4. ToSet(GenesisRegistry) = DOMAIN GenesisDb
    BY <1>5, <2>2 DEF ToSet
  <2> QED
    BY <2>1, <2>3, <2>4
<1>10. {v \in DOMAIN GenesisDb : GenesisDb[v].total >= R} = DOMAIN GenesisDb
  BY <1>1, <1>5, <1>6
<1>11. RegistryOf(GenesisDb, GenesisRegistry, R)
  BY <1>9, <1>10 DEF RegistryOf
<1>12. List(q, Len(q))
  BY <1>7 DEF List
<1> QED
  BY <1>1, <1>5, <1>6, <1>8, <1>9, <1>11, <1>12 DEF q

\* The size of the cache and the queues of a world.
LEMMA WorldFacts ==
    ASSUME NEW w \in Worlds
    PROVE  /\ w.cap \in Nat
           /\ \A e \in Epoch : w.queue[e] \in Seq(DelayedTransaction)
BY RotationAssumption DEF WorldOk

\* The database before the genesis.
NoDb == [v \in {} |-> 0]

\* The store that the genesis fills.
LEMMA GenesisStoreFacts ==
    ASSUME world \in Worlds, NEW db, db \in {NoDb, GenesisDb}, NEW t,
           t = GenesisStore(db)
    PROVE  /\ Holding(t, GenesisDb) /\ t.db = db /\ t.cap = world.cap
           /\ t.touched = {} /\ t.shared = t.cached
           /\ world.cap >= Cardinality(Validator) => View(t) = GenesisDb
<1> DEFINE q == Genesis.validators
           n == Len(q)
           cap == world.cap
           base == OpenStore(db, cap)
           u == FoldLeft(PutGenesisValidator, base, q)
<1>1. db = [v \in DOMAIN db |-> db[v]] /\ DOMAIN db \subseteq Validator
      /\ cap \in Nat
  BY GenesisFacts, WorldFacts DEF NoDb
<1>2. Runs(<<"genesis">>, base, q, n, u) /\ List(q, n)
  BY GenesisFacts, GenesisFold
<1>3. /\ Holding(base, GenesisDb) /\ base.db = db /\ base.cap = cap
      /\ base.touched = {} /\ base.cached = {}
  <2> HIDE DEF cap
  <2> QED
    BY <1>1, OpenSettled
<1>4. t = [u EXCEPT !.shared = u.cached]
  BY DEF GenesisStore
<1>5. \A s, g : Do(<<"genesis">>, s, g) = Collect(PutCache(s, g.pubkey, g.storage))
  BY DEF Do, PutGenesisValidator
<1>6. \A i \in DOMAIN q : /\ q[i].pubkey \in Validator
                          /\ q[i].pubkey \in DOMAIN GenesisDb
                          /\ q[i].storage = GenesisDb[q[i].pubkey]
  BY GenesisFacts
<1> HIDE DEF u, base, n, q, cap
<1>7. PICK run : Goes(run, <<"genesis">>, base, q, n, u)
  BY <1>2, RunFacts
<1>8. n \in Nat /\ DOMAIN q = 1 .. n
  BY <1>2 DEF List
<1> DEFINE Ok(m) == /\ Holding(run[m], GenesisDb) /\ run[m].db = db
                    /\ run[m].cap = cap /\ run[m].touched = {}
                    /\ cap >= Cardinality(Validator) =>
                          \A i \in 1 .. m : q[i].pubkey \in run[m].cached
           G == {m \in Nat : m <= n => Ok(m)}
<1>9. 0 \in G
  BY <1>3, <1>7 DEF Goes
<1>10. ASSUME NEW m \in Nat, m \in G PROVE m + 1 \in G
  <2>1. SUFFICES ASSUME m + 1 <= n PROVE Ok(m + 1)
    OBVIOUS
  <2> DEFINE s == run[m]
             r == run[m + 1]
             v == q[m + 1].pubkey
  <2>2. m + 1 \in DOMAIN q /\ r = Collect(PutCache(s, v, GenesisDb[v]))
    BY <1>5, <1>6, <1>7, <2>1 DEF Goes
  <2>3. Ok(m)
    BY <1>8, <1>10, <2>1
  <2>4. v \in Validator /\ v \in DOMAIN GenesisDb
    BY <1>6, <2>2
  <2> HIDE DEF s, r
  <2>5. /\ Holding(r, GenesisDb) /\ r.db = s.db /\ r.cap = s.cap
        /\ r.touched = s.touched
        /\ s.cap >= Cardinality(Validator) => r.cached = s.cached \cup {v}
    <3> HIDE DEF v
    <3> QED
      BY <2>2, <2>3, <2>4, PutHolds DEF s
  <2>6. \A i \in 1 .. m + 1 : i \in 1 .. m \/ i = m + 1
    OBVIOUS
  <2> QED
    BY <2>3, <2>5, <2>6 DEF s, r
<1>11. \A m \in Nat : m \in G
  <2> HIDE DEF G
  <2> QED
    BY <1>9, <1>10, Counting
<1>12. n <= n
  BY <1>8
<1>13. /\ Holding(u, GenesisDb) /\ u.db = db /\ u.cap = cap /\ u.touched = {}
       /\ cap >= Cardinality(Validator) =>
             \A i \in DOMAIN q : q[i].pubkey \in u.cached
  BY <1>7, <1>8, <1>11, <1>12 DEF Goes
<1>14. /\ DOMAIN t = DOMAIN u /\ t.db = u.db /\ t.cap = u.cap /\ t.mem = u.mem
       /\ t.cached = u.cached /\ t.touched = u.touched /\ t.lru = u.lru
       /\ t.shared = u.cached
  BY <1>4, <1>13 DEF Holding, StoreShape
<1>15. Holding(t, GenesisDb)
  BY <1>13, <1>14 DEF Holding, StoreShape, StoreMaps
<1>16. ASSUME cap >= Cardinality(Validator) PROVE View(t) = GenesisDb
  <2>1. DOMAIN GenesisDb = {q[i].pubkey : i \in DOMAIN q}
    BY DEF GenesisDb, q
  <2>2. DOMAIN GenesisDb \subseteq t.cached
    BY <1>13, <1>14, <1>16, <2>1
  <2>3. DOMAIN t.mem = DOMAIN GenesisDb
    BY <1>15, <2>2 DEF Holding, StoreMaps
  <2>4. DOMAIN db \subseteq DOMAIN GenesisDb
    BY DEF NoDb
  <2>5. View(t) = [v \in DOMAIN GenesisDb |-> GenesisDb[v]]
    BY <1>13, <1>14, <1>15, <2>3, <2>4 DEF View, StorageOf, Holding
  <2> QED
    BY <2>5, GenesisFacts
<1> QED
  BY <1>13, <1>14, <1>15, <1>16 DEF cap

\* Reads without the lock, when the database has nothing that D has not.
LEMMA AllFilled ==
    ASSUME NEW s, NEW D, Holding(s, D),
           \A v \in DOMAIN s.db : v \in DOMAIN D /\ s.db[v] = D[v],
           NEW q \in Seq(Validator), NEW t, t = ReadAllWithoutLock(s, q)
    PROVE  /\ Holding(t, D) /\ t.db = s.db /\ t.cap = s.cap
           /\ t.touched = s.touched
<1> DEFINE n == Len(q)
<1>1. List(q, n) /\ \A i \in DOMAIN q : q[i] \in Validator
  BY DEF List
<1>2. Runs(<<"read">>, s, q, n, t)
  BY <1>1, ReadFold DEF ReadAllWithoutLock
<1>3. \A u, v : Do(<<"read">>, u, v) =
                   IF v \in DOMAIN u.db THEN FillCache(u, v, u.db[v]) ELSE u
  BY DEF Do, ReadWithoutLock
<1> HIDE DEF n
<1>4. PICK run : Goes(run, <<"read">>, s, q, n, t)
  BY <1>1, <1>2, RunFacts
<1>5. n \in Nat
  BY <1>1 DEF List
<1> DEFINE Ok(u) == /\ Holding(u, D) /\ u.db = s.db /\ u.cap = s.cap
                    /\ u.touched = s.touched
           G == {m \in Nat : m <= n => Ok(run[m])}
<1>6. Ok(s)
  OBVIOUS
<1>7. ASSUME NEW u, Ok(u), NEW v \in Validator PROVE Ok(Do(<<"read">>, u, v))
  <2>1. CASE v \in DOMAIN u.db
    <3>1. Do(<<"read">>, u, v) = FillCache(u, v, u.db[v])
      BY <1>3, <2>1
    <3>2. v \in DOMAIN D /\ u.db[v] = D[v]
      BY <1>7, <2>1
    <3> QED
      BY <1>7, <3>1, <3>2, FillHolds
  <2>2. CASE v \notin DOMAIN u.db
    BY <1>3, <1>7, <2>2
  <2> QED
    BY <2>1, <2>2
<1> HIDE DEF Ok
<1>8. 0 \in G
  BY <1>4, <1>6 DEF Goes
<1>9. ASSUME NEW m \in Nat, m \in G PROVE m + 1 \in G
  BY <1>1, <1>4, <1>5, <1>7, <1>9 DEF Goes
<1>10. \A m \in Nat : m \in G
  <2> HIDE DEF G
  <2> QED
    BY <1>8, <1>9, Counting
<1>11. Ok(t)
  BY <1>4, <1>5, <1>10 DEF Goes
<1> QED
  BY <1>11 DEF Ok

\* The approvement thread's store after the genesis.
LEMMA GenesisSettles ==
    ASSUME world \in Worlds, NEW db, db \in {NoDb, GenesisDb}, NEW t,
           t = [ReadAllWithoutLock(GenesisStore(db),
                                   GenesisRegistry \o GenesisRegistry)
                    EXCEPT !.db = GenesisDb]
    PROVE  /\ Settled(t) /\ t.db = GenesisDb /\ t.cap = world.cap
           /\ t.touched = {}
<1> DEFINE s == GenesisStore(db)
           q == GenesisRegistry \o GenesisRegistry
           u == ReadAllWithoutLock(s, q)
<1>1. Holding(s, GenesisDb) /\ s.db = db /\ s.cap = world.cap /\ s.touched = {}
  BY GenesisStoreFacts
<1>2. \A v \in DOMAIN s.db : v \in DOMAIN GenesisDb /\ s.db[v] = GenesisDb[v]
  BY <1>1 DEF NoDb
<1>3. q \in Seq(Validator)
  <2>1. GenesisRegistry \in Seq(Validator)
    BY GenesisFacts DEF RegistryOf
  <2> QED
    BY <2>1
<1> HIDE DEF s, q
<1>4. /\ Holding(u, GenesisDb) /\ u.db = s.db /\ u.cap = s.cap
      /\ u.touched = s.touched
  BY <1>1, <1>2, <1>3, AllFilled
<1>5. t = [u EXCEPT !.db = GenesisDb]
  BY DEF s, q
<1> HIDE DEF u
<1>6. /\ DOMAIN t = DOMAIN u /\ t.db = GenesisDb /\ t.cap = u.cap
      /\ t.mem = u.mem /\ t.cached = u.cached /\ t.touched = u.touched
      /\ t.lru = u.lru
  BY <1>4, <1>5 DEF Holding, StoreShape
<1>7. Settled(t)
  BY <1>4, <1>6, GenesisFacts DEF Settled, Holding, StoreShape, StoreMaps
<1> QED
  BY <1>1, <1>4, <1>6, <1>7

-----------------------------------------------------------------------------
(* The order of a batch *)

\* The order of a batch leaves it a batch.
LEMMA Ordered ==
    ASSUME NEW txs \in Seq(DelayedTransaction)
    PROVE  OrderByPriority(txs) \in Seq(DelayedTransaction)
<1> DEFINE n == Len(txs)
           base == [votes |-> <<>>, rest |-> <<>>]
           v == FoldLeft(SetApart, base, txs)
           T == DelayedTransaction
           Ok(u) == /\ DOMAIN u = {"votes", "rest"}
                    /\ u.votes \in Seq(T) /\ u.rest \in Seq(T)
<1>1. List(txs, n) /\ \A i \in DOMAIN txs : txs[i] \in T
  BY DEF List
<1>2. Runs(<<"apart">>, base, txs, n, v)
  BY <1>1, ApartFold
<1>3. OrderByPriority(txs) = v.votes \o v.rest
  BY DEF OrderByPriority
<1>4. Ok(base)
  OBVIOUS
<1>5. \A u, x : Do(<<"apart">>, u, x) = SetApart(u, x)
  BY DEF Do
<1> HIDE DEF v, n, base, T
<1>6. ASSUME NEW u, Ok(u), NEW x \in T PROVE Ok(Do(<<"apart">>, u, x))
  <2> DEFINE w == SetApart(u, x)
  <2>1. Append(u.votes, x) \in Seq(T) /\ Append(u.rest, x) \in Seq(T)
    BY <1>6
  <2>2. CASE x.type = "votingAccept"
    <3>1. w = [u EXCEPT !.votes = Append(u.votes, x)]
      BY <2>2 DEF SetApart
    <3> HIDE DEF w
    <3>2. DOMAIN w = DOMAIN u /\ w.votes = Append(u.votes, x) /\ w.rest = u.rest
      BY <1>6, <3>1
    <3> QED
      BY <1>5, <1>6, <2>1, <3>2 DEF w
  <2>3. CASE x.type # "votingAccept"
    <3>1. w = [u EXCEPT !.rest = Append(u.rest, x)]
      BY <2>3 DEF SetApart
    <3> HIDE DEF w
    <3>2. DOMAIN w = DOMAIN u /\ w.rest = Append(u.rest, x) /\ w.votes = u.votes
      BY <1>6, <3>1
    <3> QED
      BY <1>5, <1>6, <2>1, <3>2 DEF w
  <2> QED
    BY <2>2, <2>3
<1> HIDE DEF Ok
<1>7. PICK run : Goes(run, <<"apart">>, base, txs, n, v)
  BY <1>1, <1>2, RunFacts
<1>8. n \in Nat
  BY <1>1 DEF List
<1> DEFINE G == {m \in Nat : m <= n => Ok(run[m])}
<1>9. 0 \in G
  BY <1>4, <1>7 DEF Goes
<1>10. ASSUME NEW m \in Nat, m \in G PROVE m + 1 \in G
  BY <1>1, <1>6, <1>7, <1>8, <1>10 DEF Goes
<1>11. \A m \in Nat : m \in G
  <2> HIDE DEF G
  <2> QED
    BY <1>9, <1>10, Counting
<1>12. Ok(v)
  BY <1>7, <1>8, <1>11 DEF Goes
<1>13. v.votes \in Seq(T) /\ v.rest \in Seq(T)
  BY <1>12 DEF Ok
<1>14. v.votes \o v.rest \in Seq(T)
  BY <1>13
<1> QED
  BY <1>3, <1>14 DEF T

-----------------------------------------------------------------------------
(* The steps of the node *)

\* Which of the batches have been written.
Lifecycle ==
    /\ world \in Worlds /\ phase \in Phase
    /\ atWritten \in BOOLEAN /\ etWritten \in BOOLEAN /\ mixed \in BOOLEAN
    /\ atWritten => etWritten
    /\ phase \in {"up", "old"} => atWritten
    /\ phase = "state" => etWritten /\ ~atWritten
    /\ phase = "approvement" => ~etWritten

\* The handler of the approvement thread is in memory or in the database.
HasAt == phase # "down" \/ atWritten

\* The cursor of the execution thread is in memory or in the database.
HasEt == phase # "down" \/ etWritten

\* The fields of a cursor.
CursorFields == {"epoch", "registry", "quorum", "leaders", "start", "params",
                 "version", "stakingDelta", "balances"}

\* The epochs that the two threads are in, and the data of those between.
Epochs ==
    /\ at.epoch \in Epoch /\ et.epoch \in 0 .. at.epoch
    /\ ~atWritten => at.epoch = 0
    /\ HasEt => DOMAIN et = CursorFields
    /\ DOMAIN atDb = {"snapshots", "epochData", "latestBatchIndex"}
    /\ DOMAIN atDb.epochData = 1 .. at.epoch
    /\ \A e \in 1 .. at.epoch :
          atDb.epochData[e].delayed \in Seq(DelayedTransaction)
    /\ finished \subseteq {e \in Nat : e < MaxEpoch}
    /\ \A e \in DOMAIN firstBlock :
          firstBlock[e].txs \in Seq(DelayedTransaction)

\* How far the node has come.
Course == Lifecycle /\ Epochs

\* The steps, by what they do to the two threads.
Founds(h) ==
    /\ phase = "down" /\ ~etWritten /\ phase' = "approvement"
    /\ h = GenesisHandler(GenesisStore(atStore.db)) /\ at' = h
    /\ atStore' = [ReadAllWithoutLock(GenesisStore(atStore.db),
                                      GenesisRegistry \o GenesisRegistry)
                       EXCEPT !.db = GenesisDb]
    /\ atDb' = [atDb EXCEPT !.snapshots =
                   With(atDb.snapshots, 0, Snapshot(h, h.params))]
    /\ et' = Cursor(h, TotalStaked(GenesisDb), [a \in Staker |-> 0])
    /\ etStore' = GenesisStore(etStore.db)
    /\ UNCHANGED <<world, atWritten, finished, firstBlock, fetch, etWritten,
                   etSnapshots, mixed>>

\* Caches and what was not written are lost.
Loses ==
    /\ phase # "down" /\ LoseCaches
    /\ UNCHANGED <<world, atWritten, atDb, finished, firstBlock, etWritten,
                   etSnapshots, mixed>>

\* The approvement thread begins an epoch: the batch txs makes x of its
\* context, and n is the handler.
Rotates(txs, x, n) ==
    /\ phase = "up" /\ phase' \in {"up", "old"} /\ at.epoch \in finished
    /\ txs \in Seq(DelayedTransaction)
    /\ x = ExecuteBatch(ApprovementContext(at, atStore), txs)
    /\ n = NextHandler(at, x) /\ at' = n
    /\ atStore' = ResetTouched(AfterSelection(x.store, x.registry,
                                             x.params["QUORUM_SIZE"]))
    /\ etStore' = Mirror(etStore, x.store)
    /\ mixed' \in BOOLEAN /\ (mixed' <=> mixed \/ etStore' # etStore)
    /\ DOMAIN atDb' = {"snapshots", "epochData", "latestBatchIndex"}
    /\ atDb'.snapshots = With(With(atDb.snapshots, at.epoch,
                                   Snapshot(at, at.params)),
                              at.epoch + 1, NextSnapshot(at, n))
    /\ atDb'.epochData = With(atDb.epochData, at.epoch + 1,
                              NextEpochDataHandler(n, txs))
    /\ UNCHANGED <<world, atWritten, finished, firstBlock, fetch, et,
                   etWritten, etSnapshots>>

\* The execution thread enters an epoch with the data d: the batch makes x of
\* its context, and c is the cursor.
Enters(d, x, c) ==
    /\ phase = "up" /\ phase' \in {"up", "old"}
    /\ et.epoch + 1 \in DOMAIN atDb.epochData
    /\ d = atDb.epochData[et.epoch + 1]
    /\ x = ExecuteBatch(ExecutionContext(et, etStore), d.delayed)
    /\ c = NextCursor(et, d, x) /\ et' = c
    /\ etStore' = x.store
    /\ atStore' = Mirror(atStore, x.store)
    /\ mixed' \in BOOLEAN /\ (mixed' <=> mixed \/ atStore' # atStore)
    /\ etSnapshots' = With(etSnapshots, c.epoch, Snapshot(c, et.params))
    /\ UNCHANGED <<world, at, atWritten, atDb, finished, firstBlock, fetch,
                   etWritten>>

\* What the batch of a rotation is made of.
LEMMA RotationBatch ==
    ASSUME Epochs, phase = "up", world.stub \/ at.epoch \in DOMAIN firstBlock,
           NEW index
    PROVE  OrderByPriority(TransactionsToExecute(at, index))
              \in Seq(DelayedTransaction)
<1>1. FirstBlock(at.epoch).txs \in Seq(DelayedTransaction)
  BY DEF FirstBlock, NoBatch, Epochs
<1>2. TransactionsToExecute(at, index) \in Seq(DelayedTransaction)
  BY <1>1 DEF TransactionsToExecute
<1> QED
  BY <1>2, Ordered

\* Every step is one of these.
LEMMA StepGroups ==
    ASSUME Course, RotationNext
    PROVE  \/ \E h : Founds(h)
           \/ WriteGenesisOfState
           \/ WriteHandler
           \/ Loses
           \/ StartNode
           \/ FinishEpoch
           \/ FindFirstBlock
           \/ \E txs, x, n : Rotates(txs, x, n)
           \/ StartFetch
           \/ EndFetch
           \/ \E d, x, c : Enters(d, x, c)
<1>1. CASE WriteGenesisOfApprovement
  BY <1>1 DEF WriteGenesisOfApprovement, GenesisWith, GenesisInMemory, Founds
<1>2. CASE StopNode
  BY <1>2 DEF StopNode, Loses
<1>3. CASE ShutDownWhenOld
  BY <1>3 DEF ShutDownWhenOld, Loses
<1>4. CASE RotateEpoch
  <2> DEFINE txs == OrderByPriority(TransactionsToExecute(at, atDb.latestBatchIndex))
             x == ExecuteBatch(ApprovementContext(at, atStore), txs)
             n == NextHandler(at, x)
  <2>1. txs \in Seq(DelayedTransaction)
    BY <1>4, RotationBatch DEF RotateEpoch, Course
  <2>2. BeginEpoch(txs, x, n) /\ phase = "up" /\ at.epoch \in finished
        /\ UNCHANGED <<world, atWritten, finished, firstBlock, fetch, et,
                       etWritten, etSnapshots>>
    BY <1>4 DEF RotateEpoch, RotateWith
  <2> HIDE DEF txs
  <2>3. n = NextHandler(at, x) /\ x = ExecuteBatch(ApprovementContext(at, atStore), txs)
    OBVIOUS
  <2> HIDE DEF x, n
  <2>4. mixed \in BOOLEAN
    BY DEF Course, Lifecycle
  <2>5. phase' \in {"up", "old"}
    BY <2>2 DEF BeginEpoch, PhaseAt
  <2>6. /\ mixed' = (mixed \/ etStore' # etStore) /\ at' = n
        /\ atStore' = ResetTouched(AfterSelection(x.store, x.registry,
                                                  x.params["QUORUM_SIZE"]))
        /\ etStore' = Mirror(etStore, x.store)
    BY <2>2 DEF BeginEpoch
  <2>7. /\ DOMAIN atDb' = {"snapshots", "epochData", "latestBatchIndex"}
        /\ atDb'.snapshots = With(With(atDb.snapshots, at.epoch,
                                       Snapshot(at, at.params)),
                                  at.epoch + 1, NextSnapshot(at, n))
        /\ atDb'.epochData = With(atDb.epochData, at.epoch + 1,
                                  NextEpochDataHandler(n, txs))
    BY <2>2 DEF BeginEpoch
  <2>8. mixed' \in BOOLEAN /\ (mixed' <=> mixed \/ etStore' # etStore)
    BY <2>4, <2>6
  <2> QED
    BY <2>1, <2>2, <2>3, <2>5, <2>6, <2>7, <2>8 DEF Rotates
<1>5. CASE SetupNextEpochFromRotationProof
  <2> DEFINE d == atDb.epochData[et.epoch + 1]
             x == ExecuteBatch(ExecutionContext(et, etStore), d.delayed)
             c == NextCursor(et, d, x)
  <2>1. EnterEpoch(x, c) /\ phase = "up"
        /\ et.epoch + 1 \in DOMAIN atDb.epochData
        /\ UNCHANGED <<world, at, atWritten, atDb, finished, firstBlock, fetch,
                       etWritten>>
    BY <1>5 DEF SetupNextEpochFromRotationProof, EnterEpochWith
  <2>2. d = atDb.epochData[et.epoch + 1]
        /\ x = ExecuteBatch(ExecutionContext(et, etStore), d.delayed)
        /\ c = NextCursor(et, d, x)
    OBVIOUS
  <2> HIDE DEF d, x, c
  <2>3. mixed \in BOOLEAN
    BY DEF Course, Lifecycle
  <2>4. phase' \in {"up", "old"}
    BY <2>1 DEF EnterEpoch, PhaseAt
  <2>5. mixed' \in BOOLEAN /\ (mixed' <=> mixed \/ atStore' # atStore)
    BY <2>1, <2>3 DEF EnterEpoch
  <2> QED
    BY <2>1, <2>2, <2>4, <2>5 DEF Enters, EnterEpoch
<1> QED
  BY <1>1, <1>2, <1>3, <1>4, <1>5 DEF RotationNext

-----------------------------------------------------------------------------
(* The course of the node *)

\* The course holds at first.
LEMMA CourseStarts == RotationInit => Course
<1> SUFFICES ASSUME RotationInit PROVE Course
  OBVIOUS
<1>1. Lifecycle
  BY DEF RotationInit, Lifecycle, Phase
<1>2. /\ at = NothingYet /\ et = NothingYet /\ phase = "down"
      /\ atWritten = FALSE /\ etWritten = FALSE
      /\ atDb = [snapshots |-> <<>>, epochData |-> <<>>, latestBatchIndex |-> 0]
      /\ finished = {} /\ firstBlock = <<>>
  BY DEF RotationInit
<1>3. DOMAIN atDb.epochData = {} /\ DOMAIN firstBlock = {}
  BY <1>2
<1>4. at.epoch = 0 /\ et.epoch = 0 /\ 0 \in Epoch
  BY <1>2, RotationAssumption DEF NothingYet, Epoch
<1>5. Epochs
  BY <1>2, <1>3, <1>4 DEF Epochs, HasEt
<1> QED
  BY <1>1, <1>5 DEF Course

\* The course is kept when memory is lost.
LEMMA CourseLost ==
    ASSUME Course, Loses
    PROVE  Course'
<1>1. Lifecycle'
  BY DEF Course, Lifecycle, Loses, LoseCaches, Phase
<1>2. /\ at' = IF atWritten THEN at ELSE NothingYet
      /\ et' = IF etWritten THEN et ELSE NothingYet
      /\ phase' = "down" /\ phase # "down"
      /\ UNCHANGED <<atWritten, atDb, finished, firstBlock, etWritten>>
  BY DEF Loses, LoseCaches
<1>3. /\ at.epoch \in Epoch /\ et.epoch \in 0 .. at.epoch
      /\ ~atWritten => at.epoch = 0
  BY DEF Course, Epochs, Lifecycle
<1>4. NothingYet.epoch = 0 /\ 0 \in Epoch
  BY RotationAssumption DEF NothingYet, Epoch
<1>5. at'.epoch = at.epoch
  <2>1. atWritten => at'.epoch = at.epoch
    BY <1>2
  <2>2. ~atWritten => at'.epoch = at.epoch
    BY <1>2, <1>3, <1>4
  <2> QED
    BY <2>1, <2>2
<1>8. et'.epoch \in 0 .. at.epoch
  <2>1. 0 \in 0 .. at.epoch
    BY <1>3 DEF Epoch
  <2>2. etWritten => et'.epoch = et.epoch
    BY <1>2
  <2>3. ~etWritten => et'.epoch = 0
    BY <1>2, <1>4
  <2> QED
    BY <1>3, <2>1, <2>2, <2>3
<1>6. HasEt' => DOMAIN et' = CursorFields
  BY <1>2 DEF HasEt, Course, Epochs
<1>7. Epochs'
  BY <1>2, <1>3, <1>5, <1>6, <1>8 DEF Course, Epochs
<1> QED
  BY <1>1, <1>7 DEF Course

\* The course is kept when the genesis is made.
LEMMA CourseFounded ==
    ASSUME Course, NEW h, Founds(h)
    PROVE  Course'
<1>1. Lifecycle'
  BY DEF Course, Lifecycle, Founds, Phase
<1>2. h.epoch = 0
  BY DEF Founds, GenesisHandler
<1>3. at'.epoch = 0 /\ et'.epoch = 0 /\ DOMAIN et' = CursorFields
  BY <1>2 DEF Founds, Cursor, CursorFields
<1>4. at.epoch = 0 /\ 0 \in Epoch
  <2>1. 0 \in Epoch
    BY RotationAssumption DEF Epoch
  <2>2. ~etWritten /\ (atWritten => etWritten) /\ (~atWritten => at.epoch = 0)
    BY DEF Founds, Course, Lifecycle, Epochs
  <2> QED
    BY <2>1, <2>2
<1>5. DOMAIN atDb' = DOMAIN atDb /\ atDb'.epochData = atDb.epochData
  BY DEF Founds, Course, Epochs
<1>6. UNCHANGED <<atWritten, finished, firstBlock>>
  BY DEF Founds
<1>7. Epochs
  BY DEF Course
<1>8. /\ DOMAIN atDb' = {"snapshots", "epochData", "latestBatchIndex"}
      /\ DOMAIN atDb'.epochData = 1 .. at'.epoch
      /\ \A e \in 1 .. at'.epoch :
            atDb'.epochData[e].delayed \in Seq(DelayedTransaction)
      /\ at'.epoch \in Epoch /\ et'.epoch \in 0 .. at'.epoch
  BY <1>3, <1>4, <1>5, <1>7 DEF Epochs
<1>9. Epochs'
  BY <1>3, <1>6, <1>7, <1>8 DEF Epochs
<1> QED
  BY <1>1, <1>9 DEF Course

\* The course is kept when the approvement thread rotates.
LEMMA CourseRotated ==
    ASSUME Course, NEW txs, NEW x, NEW n, Rotates(txs, x, n)
    PROVE  Course'
<1>1. Lifecycle'
  BY DEF Course, Lifecycle, Rotates, Phase
<1>2. at.epoch \in Nat /\ at.epoch < MaxEpoch /\ MaxEpoch \in Nat
  <2>1. MaxEpoch \in Nat
    BY RotationAssumption
  <2>2. at.epoch \in finished /\ finished \subseteq {e \in Nat : e < MaxEpoch}
    BY DEF Rotates, Course, Epochs
  <2> QED
    BY <2>1, <2>2
<1>3. n.epoch = at.epoch + 1
  BY DEF Rotates, NextHandler
<1>4. at'.epoch = at.epoch + 1 /\ at'.epoch \in Epoch
  BY <1>2, <1>3 DEF Rotates, Epoch
<1>5. atWritten
  BY DEF Rotates, Course, Lifecycle
<1>6. et.epoch \in 0 .. at'.epoch
  BY <1>2, <1>4 DEF Course, Epochs
<1>7. /\ DOMAIN atDb'.epochData = DOMAIN atDb.epochData \cup {at.epoch + 1}
      /\ atDb'.epochData[at.epoch + 1].delayed = txs
      /\ \A e \in DOMAIN atDb.epochData : e # at.epoch + 1 =>
            atDb'.epochData[e] = atDb.epochData[e]
  BY DEF Rotates, With, NextEpochDataHandler
<1>8. DOMAIN atDb'.epochData = 1 .. at'.epoch
  BY <1>2, <1>4, <1>7 DEF Course, Epochs
<1>9. \A e \in 1 .. at'.epoch :
         atDb'.epochData[e].delayed \in Seq(DelayedTransaction)
  <2> TAKE e \in 1 .. at'.epoch
  <2>1. CASE e = at.epoch + 1
    BY <1>7, <2>1 DEF Rotates
  <2>2. CASE e # at.epoch + 1
    <3>1. e \in 1 .. at.epoch /\ e \in DOMAIN atDb.epochData
      BY <1>2, <1>4, <2>2 DEF Course, Epochs
    <3>2. atDb'.epochData[e] = atDb.epochData[e]
      BY <1>7, <2>2, <3>1
    <3> QED
      BY <3>1, <3>2 DEF Course, Epochs
  <2> QED
    BY <2>1, <2>2
<1>10. /\ UNCHANGED <<atWritten, etWritten, finished, firstBlock, et>>
       /\ phase = "up"
       /\ DOMAIN atDb' = {"snapshots", "epochData", "latestBatchIndex"}
  BY DEF Rotates
<1>11. HasEt' => DOMAIN et' = CursorFields
  BY <1>10 DEF HasEt, Course, Epochs
<1>12. Epochs
  BY DEF Course
<1>13. Epochs'
  BY <1>4, <1>5, <1>6, <1>8, <1>9, <1>10, <1>11, <1>12 DEF Epochs
<1> QED
  BY <1>1, <1>13 DEF Course

\* The course is kept when the execution thread follows.
LEMMA CourseEntered ==
    ASSUME Course, NEW d, NEW x, NEW c, Enters(d, x, c)
    PROVE  Course'
<1>1. Lifecycle'
  BY DEF Course, Lifecycle, Enters, Phase
<1>2. c.epoch = et.epoch + 1 /\ DOMAIN c = CursorFields
  BY DEF Enters, NextCursor, CursorFields
<1>3. et.epoch + 1 \in 0 .. at.epoch
  BY DEF Enters, Course, Epochs, Epoch
<1>4. et' = c /\ UNCHANGED <<at, atWritten, atDb, finished, firstBlock>>
  BY DEF Enters
<1>5. Epochs
  BY DEF Course
<1>6. Epochs'
  BY <1>2, <1>3, <1>4, <1>5 DEF Epochs
<1> QED
  BY <1>1, <1>6 DEF Course

\* The course is kept by the writes of the genesis, by the end of an epoch and
\* by reads.
LEMMA CourseKept ==
    ASSUME Course,
           \/ WriteGenesisOfState \/ WriteHandler \/ FinishEpoch
           \/ StartFetch \/ EndFetch
    PROVE  Course'
<1>1. Lifecycle'
  <2>1. CASE WriteGenesisOfState
    BY <2>1 DEF Course, Lifecycle, WriteGenesisOfState, atVars, Phase
  <2>2. CASE WriteHandler
    BY <2>2 DEF Course, Lifecycle, WriteHandler, etVars, Phase
  <2>3. CASE FinishEpoch \/ StartFetch \/ EndFetch
    BY <2>3 DEF Course, Lifecycle, FinishEpoch, StartFetch, EndFetch, etVars
  <2> QED
    BY <2>1, <2>2, <2>3
<1>2. UNCHANGED <<at, et, atDb, firstBlock>>
  BY DEF WriteGenesisOfState, WriteHandler,
         FinishEpoch, StartFetch, EndFetch, atVars, etVars
<1>3. finished' \subseteq {e \in Nat : e < MaxEpoch}
  <2>1. CASE FinishEpoch
    <3>1. at.epoch \in Nat /\ at.epoch < MaxEpoch /\ finished' = finished \cup {at.epoch}
      BY <2>1 DEF FinishEpoch, Course, Epochs, Epoch
    <3> QED
      BY <3>1 DEF Course, Epochs
  <2>2. CASE UNCHANGED finished
    BY <2>2 DEF Course, Epochs
  <2> QED
    BY <2>1, <2>2 DEF WriteGenesisOfState, WriteHandler,
         FinishEpoch, StartFetch, EndFetch, atVars
<1>4. (~atWritten' => ~atWritten) /\ (HasEt' => HasEt)
  BY DEF HasEt, WriteGenesisOfState, WriteHandler,
         FinishEpoch, StartFetch, EndFetch, atVars, etVars, Course, Lifecycle
<1>5. Epochs'
  BY <1>2, <1>3, <1>4 DEF Course, Epochs
<1> QED
  BY <1>1, <1>5 DEF Course

\* The course is kept when the node starts.
LEMMA CourseStarted ==
    ASSUME Course, StartNode
    PROVE  Course'
<1>1. Lifecycle'
  BY DEF Course, Lifecycle, StartNode, atVars, Phase
<1>2. HasEt
  BY DEF StartNode, HasEt
<1>3. DOMAIN et' = CursorFields /\ et'.epoch = et.epoch
  BY <1>2 DEF StartNode, Backfilled, Course, Epochs, CursorFields
<1>4. Epochs'
  BY <1>3 DEF Course, Epochs, StartNode, atVars
<1> QED
  BY <1>1, <1>4 DEF Course

\* The course is kept when the first block is found.
LEMMA CourseSearched ==
    ASSUME Course, FindFirstBlock
    PROVE  Course'
<1>1. Lifecycle'
  BY DEF Course, Lifecycle, FindFirstBlock, etVars, Phase
<1>2. /\ UNCHANGED <<at, et, atDb, finished, atWritten, etWritten, phase>>
      /\ at.epoch \in Epoch
  BY DEF FindFirstBlock, etVars, Course, Epochs
<1>3. PICK b \in BatchesOf(at.epoch) : firstBlock' = With(firstBlock, at.epoch, b)
  BY DEF FindFirstBlock
<1>4. b.txs \in Seq(DelayedTransaction)
  <2>1. world.queue[at.epoch] \in Seq(DelayedTransaction)
    BY <1>2, WorldFacts DEF Course, Lifecycle
  <2> QED
    <3>1. b = NoBatch \/ b.txs = world.queue[at.epoch]
      BY <1>3 DEF BatchesOf
    <3>2. NoBatch.txs \in Seq(DelayedTransaction)
      BY DEF NoBatch
    <3> QED
      BY <2>1, <3>1, <3>2
<1>5. \A e \in DOMAIN firstBlock' : firstBlock'[e].txs \in Seq(DelayedTransaction)
  BY <1>3, <1>4 DEF With, Course, Epochs
<1>6. Epochs'
  BY <1>2, <1>5 DEF Course, Epochs, HasEt
<1> QED
  BY <1>1, <1>6 DEF Course

\* The course is kept by every step.
LEMMA CourseSteps ==
    ASSUME Course, [RotationNext]_rotationVars
    PROVE  Course'
<1>1. CASE UNCHANGED rotationVars
  BY <1>1 DEF rotationVars, Course, Lifecycle, Epochs, HasEt
<1>2. CASE RotationNext
  BY <1>2, StepGroups, CourseFounded, CourseLost, CourseRotated, CourseEntered,
     CourseKept, CourseStarted, CourseSearched
<1> QED
  BY <1>1, <1>2

\* The handler, the cursor and the epoch data are of the epochs that the
\* lifecycle of the node allows.
LEMMA CourseHolds == RotationSpec => []Course
<1>1. Course /\ [RotationNext]_rotationVars => Course'
  BY CourseSteps
<1> QED
  BY CourseStarts, <1>1, PTL DEF RotationSpec

-----------------------------------------------------------------------------
(* Batches without votes on the parameters *)

\* A transaction that is no vote on the parameters leaves them alone, whatever
\* the store of the context is.
LEMMA ParamsKept ==
    ASSUME NEW x, ContextShape(x), NEW tx, NoVote(tx, Field),
           NEW y, y = ExecuteDelayedTransaction(x, tx)
    PROVE  ContextShape(y) /\ y.params = x.params
<1>1. ASSUME NEW s, NEW z, z = [x EXCEPT !.store = s]
      PROVE  ContextShape(z) /\ z.params = x.params
  BY <1>1 DEF ContextShape
<1> DEFINE Staked(s, a, b) ==
             [x EXCEPT !.store = s, !.stakingDelta = a, !.registry = b]
           Unstaked(s, a, c, b) ==
             [x EXCEPT !.store = s, !.stakingDelta = a, !.balances = c,
                       !.registry = b]
<1>2. \A s, a, b : /\ ContextShape(Staked(s, a, b))
                   /\ Staked(s, a, b).params = x.params
  BY DEF ContextShape
<1>10. \A s, a, b, c : /\ ContextShape(Unstaked(s, a, c, b))
                       /\ Unstaked(s, a, c, b).params = x.params
  BY DEF ContextShape
<1>3. ASSUME NEW v, NEW z, z = [x EXCEPT !.version = v]
      PROVE  ContextShape(z) /\ z.params = x.params
  BY <1>3 DEF ContextShape
<1>4. CASE tx.type = "createValidator"
  <2>1. y = CreateValidator(x, tx)
    BY <1>4 DEF ExecuteDelayedTransaction
  <2>2. y = x \/ \E s : y = [x EXCEPT !.store = s]
    BY <2>1 DEF CreateValidator
  <2> QED
    BY <1>1, <2>2
<1>5. CASE tx.type = "updateValidator"
  <2>1. y = UpdateValidator(x, tx)
    BY <1>5 DEF ExecuteDelayedTransaction
  <2>2. y = x \/ \E s : y = [x EXCEPT !.store = s]
    BY <2>1 DEF UpdateValidator
  <2> QED
    BY <1>1, <2>2
<1>6. CASE tx.type = "stake"
  <2>1. y = Stake(x, tx)
    BY <1>6 DEF ExecuteDelayedTransaction
  <2>2. \/ y = x \/ \E s : y = [x EXCEPT !.store = s]
        \/ \E s, a, b : y = Staked(s, a, b)
    BY <2>1 DEF Stake
  <2> HIDE DEF Staked
  <2> QED
    BY <1>1, <1>2, <2>2
<1>7. CASE tx.type = "unstake"
  <2>1. y = Unstake(x, tx)
    BY <1>7 DEF ExecuteDelayedTransaction
  <2> DEFINE v == tx.validator
             o == StorageOf(x.store, v)
             total == o.total - tx.amount
             m == [StakersAfterUnstake(o, tx) EXCEPT !.total = total]
             s == SetStorage(GetValidator(x.store, v), v, m)
             a == StakeDelta(x, -tx.amount)
             c == RefundUnstaked(x, tx)
             b == LeaveRegistry(x, v, total)
  <2>2. y \in {x, [x EXCEPT !.store = GetValidator(x.store, v)],
               Unstaked(s, a, c, b)}
    BY <2>1 DEF Unstake
  <2> HIDE DEF Unstaked, s, a, b, c
  <2> QED
    BY <1>1, <1>10, <2>2
<1>8. CASE tx.type = "votingAccept"
  <2>1. y = VotingAccept(x, tx)
    BY <1>8 DEF ExecuteDelayedTransaction
  <2>2. y = x \/ \E v : y = [x EXCEPT !.version = v]
    BY <1>8, <2>1 DEF VotingAccept, NoVote
  <2> QED
    BY <1>3, <2>2
<1>9. CASE tx.type \notin {"createValidator", "updateValidator", "stake",
                           "unstake", "votingAccept"}
  BY <1>9 DEF ExecuteDelayedTransaction
<1> QED
  BY <1>4, <1>5, <1>6, <1>7, <1>8, <1>9

\* So does a batch with no vote on the parameters.
LEMMA ParamsKeptByBatch ==
    ASSUME NEW x, ContextShape(x), NEW txs \in Seq(DelayedTransaction),
           NoVoteIn(txs, Field)
    PROVE  ExecuteBatch(x, txs).params = x.params
<1> DEFINE n == Len(txs)
           base == [x EXCEPT !.store = ResetTouched(x.store)]
           y == FoldLeft(ExecuteDelayedTransaction, base, txs)
<1>1. List(txs, n)
  BY DEF List
<1>2. Runs(<<"delayed">>, base, txs, n, y)
  BY <1>1, DelayedFold
<1>3. \A u, tx : Do(<<"delayed">>, u, tx) = ExecuteDelayedTransaction(u, tx)
  BY DEF Do
<1>4. ExecuteBatch(x, txs) = [y EXCEPT !.store = WriteTouched(y.store)]
  BY DEF ExecuteBatch
<1>5. ContextShape(base) /\ base.params = x.params
  BY DEF ContextShape
<1> HIDE DEF y, base, n
<1>6. PICK run : Goes(run, <<"delayed">>, base, txs, n, y)
  BY <1>1, <1>2, RunFacts
<1>7. n \in Nat
  BY <1>1 DEF List
<1> DEFINE Ok(u) == ContextShape(u) /\ u.params = x.params
           G == {m \in Nat : m <= n => Ok(run[m])}
<1>8. 0 \in G
  BY <1>5, <1>6 DEF Goes
<1>9. ASSUME NEW m \in Nat, m \in G PROVE m + 1 \in G
  <2>1. SUFFICES ASSUME m + 1 <= n PROVE Ok(run[m + 1])
    OBVIOUS
  <2>2. /\ Ok(run[m]) /\ m + 1 \in DOMAIN txs
        /\ run[m + 1] = ExecuteDelayedTransaction(run[m], txs[m + 1])
    BY <1>3, <1>6, <1>7, <1>9, <2>1 DEF Goes
  <2>3. NoVote(txs[m + 1], Field)
    BY <2>2 DEF NoVoteIn
  <2> QED
    BY <2>2, <2>3, ParamsKept
<1>10. \A m \in Nat : m \in G
  <2> HIDE DEF G
  <2> QED
    BY <1>8, <1>9, Counting
<1>11. Ok(y)
  BY <1>6, <1>7, <1>10 DEF Goes
<1> QED
  BY <1>4, <1>11 DEF ContextShape

-----------------------------------------------------------------------------
(* The data of the epochs that have begun *)

\* The data of an epoch does not change once it is written.
LEMMA DataKept ==
    ASSUME Course, [RotationNext]_rotationVars
    PROVE  \A e \in DOMAIN atDb.epochData :
              /\ e \in DOMAIN atDb'.epochData
              /\ atDb'.epochData[e] = atDb.epochData[e]
<1>1. CASE UNCHANGED atDb \/ atDb'.epochData = atDb.epochData
  BY <1>1
<1>2. ASSUME NEW txs, NEW x, NEW n, Rotates(txs, x, n)
      PROVE  \A e \in DOMAIN atDb.epochData :
                /\ e \in DOMAIN atDb'.epochData
                /\ atDb'.epochData[e] = atDb.epochData[e]
  <2>1. at.epoch + 1 \notin DOMAIN atDb.epochData
    BY DEF Course, Epochs, Epoch
  <2>2. \E d : atDb'.epochData = With(atDb.epochData, at.epoch + 1, d)
    BY <1>2 DEF Rotates
  <2> QED
    BY <2>1, <2>2 DEF With
<1>3. ASSUME NEW h, Founds(h) PROVE atDb'.epochData = atDb.epochData
  BY <1>3 DEF Founds, Course, Epochs
<1>4. CASE RotationNext
  <2>1. CASE \/ WriteGenesisOfState \/ WriteHandler \/ Loses
             \/ StartNode \/ FinishEpoch \/ FindFirstBlock
             \/ StartFetch \/ EndFetch
             \/ \E d, x, c : Enters(d, x, c)
    <3>1. UNCHANGED atDb
      BY <2>1 DEF WriteGenesisOfState, WriteHandler, Loses, StartNode, FinishEpoch,
                  FindFirstBlock, StartFetch, EndFetch, Enters, atVars
    <3> QED
      BY <1>1, <3>1
  <2> QED
    BY <1>1, <1>2, <1>3, <1>4, <2>1, StepGroups
<1>5. CASE UNCHANGED rotationVars
  <2>1. UNCHANGED atDb
    BY <1>5 DEF rotationVars
  <2> QED
    BY <1>1, <2>1
<1> QED
  BY <1>4, <1>5

\* The votes are those in the batches of the epochs' data.
LEMMA NoVoteOnData ==
    ASSUME NEW F
    PROVE  /\ NoVoteOn(F) <=> \A e \in DOMAIN atDb.epochData :
                                 NoVoteIn(atDb.epochData[e].delayed, F)
           /\ NoVoteOn(F)' <=> \A e \in DOMAIN atDb'.epochData :
                                 NoVoteIn(atDb'.epochData[e].delayed, F')
BY DEF NoVoteOn, NoVoteIn, NoVote, Executed

\* The created validators are those in the batches of the epochs' data.
LEMMA OnceData ==
    /\ NoRepeatedCreate <=> \A e \in DOMAIN atDb.epochData :
                               Once(atDb.epochData[e].delayed)
    /\ NoRepeatedCreate' <=> \A e \in DOMAIN atDb'.epochData :
                               Once(atDb'.epochData[e].delayed)
BY DEF NoRepeatedCreate, Once, Executed

-----------------------------------------------------------------------------
(* The snapshots of the epochs *)

\* The parameters of the genesis.
P0 == Genesis.params

\* The snapshot of an epoch has what its data has, and its start.
FromData(d, start) ==
    Snapshot([registry |-> d.registry, quorum |-> d.quorum,
              leaders |-> d.leaders, start |-> start], P0)

\* A snapshot has the registry, the quorum, the leaders and the start.
LEMMA SameSnapshot ==
    ASSUME NEW a, NEW b, a.registry = b.registry, a.quorum = b.quorum,
           a.leaders = b.leaders, a.start = b.start, NEW p
    PROVE  /\ Snapshot(a, p) = Snapshot(b, p) /\ Snapshot(a, p).start = a.start
           /\ Snapshot(a, p).quorum = a.quorum
BY DEF Snapshot

\* A snapshot in STATE is that of the approvement thread, which is made of the
\* epoch's data, where the cursor takes it from, and of unchanged parameters.
SnapshotsTell ==
    LET s == atDb.snapshots
    IN  /\ HasAt => /\ at.params = P0 /\ at.epoch \in DOMAIN s
                    /\ s[at.epoch] = Snapshot(at, P0)
        /\ HasEt => /\ et.params = P0 /\ et.epoch \in DOMAIN s
                    /\ s[et.epoch] = Snapshot(et, P0)
        /\ \A e \in DOMAIN atDb.epochData :
              /\ e - 1 \in DOMAIN s /\ e \in DOMAIN s
              /\ s[e] = FromData(atDb.epochData[e],
                                 s[e - 1].start + P0["EPOCH_DURATION"])
        /\ DOMAIN etSnapshots \subseteq 0 .. et.epoch
        /\ ~etWritten => DOMAIN etSnapshots = {}
        /\ \A e \in DOMAIN etSnapshots : e \in DOMAIN s /\ etSnapshots[e] = s[e]

\* The inductive invariant: as long as there was no vote on the parameters.
SnapshotInv == NoVoteOn(Field) => SnapshotsTell

\* The snapshots agree at first.
LEMMA SnapshotsStart == RotationInit => SnapshotInv
<1> SUFFICES ASSUME RotationInit PROVE SnapshotsTell
  BY DEF SnapshotInv
<1>1. /\ phase = "down" /\ atWritten = FALSE /\ etWritten = FALSE
      /\ DOMAIN atDb.epochData = {} /\ DOMAIN etSnapshots = {}
  BY DEF RotationInit
<1> QED
  BY <1>1 DEF SnapshotsTell, HasAt, HasEt

\* The snapshots agree when the genesis is made.
LEMMA SnapshotsFounded ==
    ASSUME Course, NEW h, Founds(h), SnapshotsTell
    PROVE  SnapshotsTell'
<1> DEFINE s == atDb.snapshots
           t == atDb'.snapshots
<1>1. /\ h.epoch = 0 /\ h.params = P0
      /\ at' = h /\ et' = Cursor(h, TotalStaked(GenesisDb), [a \in Staker |-> 0])
      /\ t = With(s, 0, Snapshot(h, h.params)) /\ atDb'.epochData = atDb.epochData
      /\ UNCHANGED <<etWritten, etSnapshots>> /\ ~etWritten
  BY DEF Founds, GenesisHandler, P0, Course, Epochs
<1>2. /\ et'.epoch = h.epoch /\ et'.params = h.params /\ et'.registry = h.registry
      /\ et'.quorum = h.quorum /\ et'.leaders = h.leaders /\ et'.start = h.start
  BY <1>1 DEF Cursor
<1>3. Snapshot(et', P0) = Snapshot(h, P0)
  BY <1>2, SameSnapshot
<1>4. 0 \in DOMAIN t /\ t[0] = Snapshot(h, P0)
  BY <1>1 DEF With
<1>5. DOMAIN atDb.epochData = {}
  <2>1. at.epoch = 0 /\ DOMAIN atDb.epochData = 1 .. at.epoch
    BY <1>1 DEF Course, Lifecycle, Epochs
  <2> QED
    BY <2>1
<1>6. DOMAIN etSnapshots = {}
  BY <1>1 DEF SnapshotsTell
<1> HIDE DEF t
<1>7. /\ at'.params = P0 /\ at'.epoch \in DOMAIN t
      /\ t[at'.epoch] = Snapshot(at', P0)
      /\ et'.params = P0 /\ et'.epoch \in DOMAIN t
      /\ t[et'.epoch] = Snapshot(et', P0)
      /\ DOMAIN atDb'.epochData = {} /\ DOMAIN etSnapshots' = {}
  BY <1>1, <1>2, <1>3, <1>4, <1>5, <1>6
<1> QED
  BY <1>7 DEF SnapshotsTell, t

\* The snapshots agree when the genesis is written to STATE.
LEMMA SnapshotsWritten ==
    ASSUME Course, WriteGenesisOfState, SnapshotsTell
    PROVE  SnapshotsTell'
<1>1. /\ phase = "approvement" /\ phase' = "state" /\ etWritten' = TRUE
      /\ etSnapshots' = With(etSnapshots, 0, Snapshot(et, et.params))
      /\ UNCHANGED <<at, atDb, et, atWritten>>
  BY DEF WriteGenesisOfState, atVars
<1>2. ~etWritten /\ HasEt /\ HasAt /\ HasEt' /\ HasAt'
  BY <1>1 DEF HasEt, HasAt, Course, Lifecycle
<1>3. et.epoch = 0
  <2>1. at.epoch = 0 /\ et.epoch \in 0 .. at.epoch
    BY <1>2 DEF Course, Lifecycle, Epochs
  <2> QED
    BY <2>1
<1>4. DOMAIN etSnapshots = {} /\ et.params = P0 /\ 0 \in DOMAIN atDb.snapshots
      /\ atDb.snapshots[0] = Snapshot(et, P0)
  BY <1>2, <1>3 DEF SnapshotsTell
<1>5. DOMAIN etSnapshots' = {0} /\ etSnapshots'[0] = atDb.snapshots[0]
  BY <1>1, <1>4 DEF With
<1>6. {0} \subseteq 0 .. et.epoch
  BY <1>3
<1> QED
  BY <1>1, <1>2, <1>4, <1>5, <1>6 DEF SnapshotsTell

\* The snapshots agree when the approvement thread rotates.
LEMMA SnapshotsRotated ==
    ASSUME Course, NEW txs, NEW x, NEW n, Rotates(txs, x, n),
           NoVoteIn(txs, Field), SnapshotsTell
    PROVE  SnapshotsTell'
<1> DEFINE s == atDb.snapshots
           t == atDb'.snapshots
           e == at.epoch
           d == NextEpochDataHandler(n, txs)
           start == at.start + P0["EPOCH_DURATION"]
<1>1. /\ HasAt /\ HasEt /\ HasAt' /\ HasEt' /\ etWritten /\ etWritten'
  BY DEF Rotates, HasAt, HasEt, Course, Lifecycle
<1>2. /\ at.params = P0 /\ e \in DOMAIN s /\ s[e] = Snapshot(at, P0)
      /\ e \in Nat
  BY <1>1 DEF SnapshotsTell, Course, Epochs, Epoch
<1>3. x.params = P0
  <2> DEFINE y == ApprovementContext(at, atStore)
  <2>1. ContextShape(y) /\ y.params = P0
    BY <1>2 DEF ApprovementContext, ContextShape
  <2>2. x = ExecuteBatch(y, txs) /\ txs \in Seq(DelayedTransaction)
    BY DEF Rotates
  <2> HIDE DEF y
  <2> QED
    BY <2>1, <2>2, ParamsKeptByBatch
<1>4. n.epoch = e + 1 /\ n.start = start /\ n.params = P0 /\ at' = n
  BY <1>3 DEF Rotates, NextHandler
<1>5. t = With(With(s, e, Snapshot(at, P0)), e + 1, Snapshot(n, P0))
  BY <1>2 DEF Rotates, NextSnapshot
<1> HIDE DEF t
<1>6. /\ DOMAIN t = DOMAIN s \cup {e + 1} /\ t[e + 1] = Snapshot(n, P0)
      /\ \A i \in DOMAIN s : i # e + 1 => t[i] = s[i]
  BY <1>2, <1>5 DEF With
<1>7. Snapshot(n, P0) = FromData(d, start)
  <2>1. /\ d.registry = n.registry /\ d.quorum = n.quorum
        /\ d.leaders = n.leaders
    BY DEF NextEpochDataHandler
  <2> HIDE DEF d
  <2> QED
    BY <1>4, <2>1, SameSnapshot DEF FromData
<1>8. atDb'.epochData = With(atDb.epochData, e + 1, d)
  BY DEF Rotates
<1> HIDE DEF d
<1>9. DOMAIN atDb.epochData = 1 .. e
  BY DEF Course, Epochs
<1>10. ASSUME NEW i \in DOMAIN atDb'.epochData
       PROVE  /\ i - 1 \in DOMAIN t /\ i \in DOMAIN t
              /\ t[i] = FromData(atDb'.epochData[i],
                                 t[i - 1].start + P0["EPOCH_DURATION"])
  <2>1. CASE i = e + 1
    <3>1. atDb'.epochData[i] = d
      BY <1>8, <2>1 DEF With
    <3>2. i - 1 = e /\ e # e + 1
      BY <1>2, <2>1
    <3>3. t[e].start = at.start
      BY <1>2, <1>6, <3>2, SameSnapshot
    <3> QED
      BY <1>2, <1>6, <1>7, <2>1, <3>1, <3>2, <3>3
  <2>2. CASE i # e + 1
    <3>1. i \in 1 .. e /\ atDb'.epochData[i] = atDb.epochData[i]
      BY <1>8, <1>9, <2>2 DEF With
    <3>2. /\ i - 1 \in DOMAIN s /\ i \in DOMAIN s
          /\ s[i] = FromData(atDb.epochData[i],
                             s[i - 1].start + P0["EPOCH_DURATION"])
      BY <1>9, <3>1 DEF SnapshotsTell
    <3>3. i - 1 # e + 1
      BY <1>2, <3>1
    <3> QED
      BY <1>6, <2>2, <3>1, <3>2, <3>3
  <2> QED
    BY <2>1, <2>2
<1>11. et' = et /\ et.epoch \in 0 .. e /\ etSnapshots' = etSnapshots
  BY DEF Rotates, Course, Epochs
<1>12. \A i \in 0 .. e : i # e + 1
  BY <1>2
<1>13. /\ et'.params = P0 /\ et'.epoch \in DOMAIN t
       /\ t[et'.epoch] = Snapshot(et', P0)
  BY <1>1, <1>6, <1>11, <1>12 DEF SnapshotsTell
<1>14. \A i \in DOMAIN etSnapshots' : i \in DOMAIN t /\ etSnapshots'[i] = t[i]
  <2> TAKE i \in DOMAIN etSnapshots'
  <2>1. i \in DOMAIN s /\ etSnapshots[i] = s[i] /\ i \in 0 .. et.epoch
    BY <1>11 DEF SnapshotsTell
  <2>2. i # e + 1
    BY <1>2, <1>11, <2>1
  <2> QED
    BY <1>6, <1>11, <2>1, <2>2
<1>15. DOMAIN etSnapshots' \subseteq 0 .. et'.epoch
  BY <1>11 DEF SnapshotsTell
<1>16. /\ at'.params = P0 /\ at'.epoch \in DOMAIN t
       /\ t[at'.epoch] = Snapshot(at', P0)
  BY <1>4, <1>6
<1> HIDE DEF e
<1> QED
  BY <1>1, <1>10, <1>13, <1>14, <1>15, <1>16 DEF SnapshotsTell, t

\* The snapshots agree when the execution thread follows.
LEMMA SnapshotsEntered ==
    ASSUME Course, NEW d, NEW x, NEW c, Enters(d, x, c),
           NoVoteIn(d.delayed, Field), SnapshotsTell
    PROVE  SnapshotsTell'
<1> DEFINE s == atDb.snapshots
           e == et.epoch
           start == et.start + P0["EPOCH_DURATION"]
<1>1. /\ HasAt /\ HasEt /\ HasAt' /\ HasEt' /\ etWritten /\ etWritten'
  BY DEF Enters, HasAt, HasEt, Course, Lifecycle
<1>2. /\ et.params = P0 /\ e \in DOMAIN s /\ s[e] = Snapshot(et, P0)
      /\ e \in Nat
  BY <1>1 DEF SnapshotsTell, Course, Epochs
<1>3. e + 1 \in DOMAIN atDb.epochData /\ d = atDb.epochData[e + 1]
  BY DEF Enters
<1>4. d.delayed \in Seq(DelayedTransaction)
  BY <1>3 DEF Course, Epochs
<1>5. x.params = P0
  <2> DEFINE y == ExecutionContext(et, etStore)
  <2>1. ContextShape(y) /\ y.params = P0
    BY <1>2 DEF ExecutionContext, ContextShape
  <2>2. x = ExecuteBatch(y, d.delayed)
    BY DEF Enters
  <2> HIDE DEF y
  <2> QED
    BY <1>4, <2>1, <2>2, ParamsKeptByBatch
<1>6. /\ c.epoch = e + 1 /\ c.start = start /\ c.params = P0 /\ et' = c
      /\ c.registry = d.registry /\ c.quorum = d.quorum /\ c.leaders = d.leaders
  BY <1>2, <1>5 DEF Enters, NextCursor
<1>7. s[e + 1] = FromData(d, start) /\ e + 1 \in DOMAIN s
  <2>2. s[e].start = et.start
    BY <1>2, SameSnapshot
  <2>3. \A i \in DOMAIN atDb.epochData : i - 1 = e =>
           /\ i \in DOMAIN s
           /\ s[i] = FromData(atDb.epochData[i], s[e].start + P0["EPOCH_DURATION"])
    <3> HIDE DEF e
    <3> QED
      BY DEF SnapshotsTell
  <2>4. /\ e + 1 \in DOMAIN s
        /\ s[e + 1] = FromData(d, s[e].start + P0["EPOCH_DURATION"])
    <3> HIDE DEF e, s
    <3> QED
      BY <1>2, <1>3, <2>3
  <2> QED
    BY <2>2, <2>4
<1>8. Snapshot(c, P0) = FromData(d, start)
  <2> HIDE DEF start
  <2> QED
    BY <1>6, SameSnapshot DEF FromData
<1>9. /\ etSnapshots' = With(etSnapshots, c.epoch, Snapshot(c, P0))
      /\ UNCHANGED <<at, atDb>>
  BY <1>2 DEF Enters
<1>10. \A i \in DOMAIN etSnapshots' : i \in DOMAIN s /\ etSnapshots'[i] = s[i]
  BY <1>6, <1>7, <1>8, <1>9 DEF With, SnapshotsTell
<1>11. DOMAIN etSnapshots' \subseteq 0 .. et'.epoch
  <2>1. DOMAIN etSnapshots' = DOMAIN etSnapshots \cup {e + 1}
    BY <1>6, <1>9 DEF With
  <2>2. DOMAIN etSnapshots \subseteq 0 .. e
    BY DEF SnapshotsTell
  <2> QED
    BY <1>2, <1>6, <2>1, <2>2
<1>12. /\ et'.params = P0 /\ et'.epoch \in DOMAIN s
       /\ s[et'.epoch] = Snapshot(et', P0)
  BY <1>6, <1>7, <1>8
<1> HIDE DEF e
<1> QED
  BY <1>1, <1>9, <1>10, <1>11, <1>12 DEF SnapshotsTell

\* The snapshots agree when the node starts.
LEMMA SnapshotsStarted ==
    ASSUME Course, StartNode, SnapshotsTell
    PROVE  SnapshotsTell'
<1>1. etWritten /\ atWritten /\ UNCHANGED <<at, atDb, etSnapshots, etWritten>>
  BY DEF StartNode, atVars
<1>2. DOMAIN et = CursorFields /\ et' = Backfilled(et, etStore.db)
  BY <1>1 DEF StartNode, Course, Epochs, HasEt
<1>3. /\ et'.epoch = et.epoch /\ et'.params = et.params
      /\ et'.registry = et.registry /\ et'.quorum = et.quorum
      /\ et'.leaders = et.leaders /\ et'.start = et.start
  BY <1>2 DEF Backfilled, CursorFields
<1>4. Snapshot(et', P0) = Snapshot(et, P0)
  BY <1>3, SameSnapshot
<1>5. HasAt /\ HasEt
  BY <1>1 DEF HasAt, HasEt
<1> QED
  BY <1>1, <1>3, <1>4, <1>5 DEF SnapshotsTell

\* The snapshots agree when memory is lost.
LEMMA SnapshotsLost ==
    ASSUME Course, Loses, SnapshotsTell
    PROVE  SnapshotsTell'
<1>1. /\ phase' = "down" /\ phase # "down"
      /\ UNCHANGED <<atWritten, etWritten, atDb, etSnapshots>>
      /\ at' = IF atWritten THEN at ELSE NothingYet
      /\ et' = IF etWritten THEN et ELSE NothingYet
  BY DEF Loses, LoseCaches
<1>2. HasAt /\ HasEt
  BY <1>1 DEF HasAt, HasEt
<1>3. /\ HasAt' => atWritten /\ at' = at
      /\ HasEt' => etWritten /\ et' = et
  BY <1>1 DEF HasAt, HasEt
<1>4. DOMAIN etSnapshots \subseteq 0 .. et'.epoch
  <2>1. CASE etWritten
    BY <1>1, <2>1 DEF SnapshotsTell
  <2>2. CASE ~etWritten
    BY <2>2 DEF SnapshotsTell
  <2> QED
    BY <2>1, <2>2
<1> QED
  BY <1>1, <1>2, <1>3, <1>4 DEF SnapshotsTell

\* The snapshots agree when no thread moves.
LEMMA SnapshotsKept ==
    ASSUME Course, UNCHANGED <<at, atDb, et, etWritten, etSnapshots>>,
           HasAt' => HasAt, HasEt' => HasEt, SnapshotsTell
    PROVE  SnapshotsTell'
BY DEF SnapshotsTell

\* The snapshots agree after every step.
LEMMA SnapshotsStep ==
    ASSUME Course, [RotationNext]_rotationVars, SnapshotInv
    PROVE  SnapshotInv'
<1> SUFFICES ASSUME NoVoteOn(Field)' PROVE SnapshotsTell'
  BY DEF SnapshotInv
<1>1. Field' = Field
  BY DEF Field
<1>2. NoVoteOn(Field)
  BY <1>1, DataKept, NoVoteOnData
<1>3. SnapshotsTell
  BY <1>2 DEF SnapshotInv
<1>4. ASSUME NEW txs, NEW x, NEW n, Rotates(txs, x, n) PROVE SnapshotsTell'
  <2>1. at.epoch + 1 \in DOMAIN atDb'.epochData
        /\ atDb'.epochData[at.epoch + 1].delayed = txs
    BY <1>4 DEF Rotates, With, NextEpochDataHandler
  <2>2. NoVoteIn(txs, Field)
    BY <1>1, <2>1, NoVoteOnData
  <2> QED
    BY <1>3, <1>4, <2>2, SnapshotsRotated
<1>5. ASSUME NEW d, NEW x, NEW c, Enters(d, x, c) PROVE SnapshotsTell'
  <2>1. NoVoteIn(d.delayed, Field)
    BY <1>2, <1>5, NoVoteOnData DEF Enters
  <2> QED
    BY <1>3, <1>5, <2>1, SnapshotsEntered
<1>6. CASE WriteHandler \/ FinishEpoch \/ FindFirstBlock \/ StartFetch \/ EndFetch
           \/ UNCHANGED rotationVars
  <2>1. UNCHANGED <<at, atDb, et, etWritten, etSnapshots>>
    BY <1>6 DEF WriteHandler, FinishEpoch, FindFirstBlock, StartFetch, EndFetch,
                etVars, rotationVars
  <2>2. (HasAt' => HasAt) /\ (HasEt' => HasEt)
    BY <1>6 DEF WriteHandler, FinishEpoch, FindFirstBlock, StartFetch, EndFetch,
                etVars, rotationVars, HasAt, HasEt
  <2> QED
    BY <1>3, <2>1, <2>2, SnapshotsKept
<1> QED
  BY <1>3, <1>4, <1>5, <1>6, StepGroups, SnapshotsFounded, SnapshotsWritten,
     SnapshotsStarted, SnapshotsLost

\* GetEpochSnapshot gives the same for an epoch from both databases, when no
\* batch has changed the parameters.
THEOREM SnapshotsFit == RotationSpec => []SnapshotsAgree
<1>1. Course /\ SnapshotInv /\ [RotationNext]_rotationVars => SnapshotInv'
  BY SnapshotsStep
<1>2. SnapshotInv => SnapshotsAgree
  BY DEF SnapshotInv, SnapshotsAgree, SnapshotsTell
<1> QED
  BY CourseHolds, SnapshotsStart, <1>1, <1>2, PTL DEF RotationSpec

-----------------------------------------------------------------------------
(* The stakes in STATE *)

\* When the execution thread sees what has been written.
ExecutionSees == ~mixed /\ (CacheHoldsAll \/ NoRepeatedCreate)

\* What holds of the whole history held of the history before a step.
LEMMA SeesBefore ==
    ASSUME Course, [RotationNext]_rotationVars
    PROVE  /\ world' = world /\ (CacheHoldsAll' <=> CacheHoldsAll)
           /\ ~mixed' => ~mixed
           /\ NoRepeatedCreate' => NoRepeatedCreate
           /\ ExecutionSees' => ExecutionSees
<1>1. world' = world /\ (~mixed' => ~mixed)
  <2>1. CASE RotationNext
    <3>1. CASE \/ WriteGenesisOfState \/ WriteHandler \/ Loses \/ StartNode
               \/ FinishEpoch \/ FindFirstBlock \/ StartFetch \/ EndFetch
               \/ \E h : Founds(h)
      BY <3>1 DEF WriteGenesisOfState, WriteHandler, Loses, StartNode,
            FinishEpoch, FindFirstBlock, StartFetch, EndFetch, Founds
    <3>2. CASE \E txs, x, n : Rotates(txs, x, n)
      BY <3>2 DEF Rotates
    <3>3. CASE \E d, x, c : Enters(d, x, c)
      BY <3>3 DEF Enters
    <3> QED
      BY <2>1, <3>1, <3>2, <3>3, StepGroups
  <2>2. CASE UNCHANGED rotationVars
    BY <2>2 DEF rotationVars
  <2> QED
    BY <2>1, <2>2
<1>2. CacheHoldsAll' <=> CacheHoldsAll
  BY <1>1 DEF CacheHoldsAll
<1>3. NoRepeatedCreate' => NoRepeatedCreate
  BY DataKept, OnceData
<1> QED
  BY <1>1, <1>2, <1>3 DEF ExecutionSees

\* The storages in STATE are funded and counted, and memory has nothing else.
Accounted ==
    /\ etStore.cap = world.cap
    /\ phase = "approvement" => Holding(etStore, GenesisDb)
    /\ phase # "approvement" => Settled(etStore)
    /\ ~etWritten => etStore.db = NoDb
    /\ GoodView(etStore.db)
    /\ etWritten => et.stakingDelta = TotalStaked(etStore.db)
    /\ phase = "approvement" => et.stakingDelta = TotalStaked(GenesisDb)

\* The inductive invariant for the stakes.
AccountedInv == ExecutionSees => Accounted

\* Nothing is staked before the genesis.
LEMMA NoDbFacts ==
    /\ NoDb = [v \in DOMAIN NoDb |-> NoDb[v]] /\ DOMAIN NoDb \subseteq Validator
    /\ GoodView(NoDb)
BY DEF NoDb, GoodView

\* The stakes are accounted for at first.
LEMMA AccountedStarts == RotationInit => AccountedInv
<1> SUFFICES ASSUME RotationInit PROVE Accounted
  BY DEF AccountedInv
<1>1. /\ world \in Worlds /\ phase = "down" /\ etWritten = FALSE
      /\ etStore = OpenStore(NoDb, world.cap)
  BY DEF RotationInit, NoDb
<1>2. etStore.db = NoDb /\ etStore.cap = world.cap /\ Settled(etStore)
  BY <1>1, OpenSettled, NoDbFacts, WorldFacts
<1> QED
  BY <1>1, <1>2, NoDbFacts DEF Accounted

\* The stakes are accounted for when the genesis is made.
LEMMA AccountedFounded ==
    ASSUME Course, NEW h, Founds(h), Accounted
    PROVE  Accounted'
<1>1. /\ etStore' = GenesisStore(etStore.db) /\ ~etWritten /\ etWritten' = etWritten
      /\ et' = Cursor(h, TotalStaked(GenesisDb), [a \in Staker |-> 0])
      /\ phase' = "approvement" /\ world' = world /\ world \in Worlds
  BY DEF Founds, Course, Lifecycle
<1>2. etStore.db = NoDb
  BY <1>1 DEF Accounted
<1>3. /\ Holding(etStore', GenesisDb) /\ etStore'.db = NoDb
      /\ etStore'.cap = world.cap
  BY <1>1, <1>2, GenesisStoreFacts
<1>4. et'.stakingDelta = TotalStaked(GenesisDb)
  BY <1>1 DEF Cursor
<1> QED
  BY <1>1, <1>3, <1>4, NoDbFacts DEF Accounted

\* The stakes are accounted for when the genesis is written to STATE.
LEMMA AccountedWritten ==
    ASSUME Course, WriteGenesisOfState, Accounted
    PROVE  Accounted'
<1>1. /\ phase = "approvement" /\ phase' = "state" /\ etWritten' = TRUE
      /\ etStore' = [etStore EXCEPT !.db = GenesisDb] /\ UNCHANGED <<et, world>>
  BY DEF WriteGenesisOfState
<1>2. Holding(etStore, GenesisDb) /\ etStore.cap = world.cap
  BY <1>1 DEF Accounted
<1>3. /\ DOMAIN etStore' = DOMAIN etStore /\ etStore'.db = GenesisDb
      /\ etStore'.cap = etStore.cap /\ etStore'.mem = etStore.mem
      /\ etStore'.cached = etStore.cached /\ etStore'.touched = etStore.touched
      /\ etStore'.lru = etStore.lru
  BY <1>1, <1>2 DEF Holding, StoreShape
<1>4. Settled(etStore')
  BY <1>2, <1>3, GenesisFacts DEF Settled, Holding, StoreShape, StoreMaps
<1> QED
  BY <1>1, <1>2, <1>3, <1>4, GenesisFacts DEF Accounted

\* The stakes are accounted for when memory is lost.
LEMMA AccountedLost ==
    ASSUME Course, Loses, Accounted
    PROVE  Accounted'
<1>1. /\ phase' = "down" /\ UNCHANGED <<world, etWritten>>
      /\ etStore' = OpenStore(etStore.db, world.cap)
      /\ et' = IF etWritten THEN et ELSE NothingYet
  BY DEF Loses, LoseCaches
<1>2. StoreMaps(etStore)
  BY DEF Accounted, Holding, Settled
<1>3. /\ etStore.db = [v \in DOMAIN etStore.db |-> etStore.db[v]]
      /\ DOMAIN etStore.db \subseteq Validator /\ world.cap \in Nat
  BY <1>2, WorldFacts DEF StoreMaps, Course, Lifecycle
<1>4. /\ etStore'.db = etStore.db /\ etStore'.cap = world.cap
      /\ Settled(etStore')
  BY <1>1, <1>3, OpenSettled
<1> QED
  BY <1>1, <1>4 DEF Accounted

\* The stakes are accounted for when the node starts.
LEMMA AccountedStarted ==
    ASSUME Course, StartNode, Accounted
    PROVE  Accounted'
<1>1. /\ etWritten /\ phase = "down" /\ phase' = "up"
      /\ et' = Backfilled(et, etStore.db) /\ UNCHANGED <<world, etWritten, etStore>>
  BY DEF StartNode
<1>2. DOMAIN et = CursorFields
  BY <1>1 DEF Course, Epochs, HasEt
<1>3. et.stakingDelta = TotalStaked(etStore.db)
  BY <1>1 DEF Accounted
<1>4. et'.stakingDelta = TotalStaked(etStore.db)
  BY <1>1, <1>2, <1>3 DEF Backfilled, CursorFields
<1> QED
  BY <1>1, <1>4 DEF Accounted

\* The stakes are accounted for when the execution thread follows, and its
\* batch can be executed.
LEMMA AccountedEntered ==
    ASSUME Course, ExecutionSees, NEW d, NEW x, NEW c, Enters(d, x, c), Accounted
    PROVE  Accounted' /\ Ready(ExecutionContext(et, etStore), d.delayed)
<1> DEFINE y == ExecutionContext(et, etStore)
<1>1. /\ phase = "up" /\ phase' \in {"up", "old"} /\ etWritten
      /\ UNCHANGED <<world, etWritten>>
  BY DEF Enters, Course, Lifecycle
<1>2. /\ et.epoch + 1 \in DOMAIN atDb.epochData
      /\ d = atDb.epochData[et.epoch + 1]
      /\ x = ExecuteBatch(y, d.delayed) /\ c = NextCursor(et, d, x)
      /\ et' = c /\ etStore' = x.store
  BY DEF Enters
<1>3. d.delayed \in Seq(DelayedTransaction)
  BY <1>2 DEF Course, Epochs
<1>4. /\ ContextShape(y) /\ y.store = etStore /\ y.thread = "execution"
      /\ y.stakingDelta = et.stakingDelta
  BY DEF ExecutionContext, ContextShape
<1>5. /\ Settled(etStore) /\ etStore.cap = world.cap /\ GoodView(etStore.db)
      /\ et.stakingDelta = TotalStaked(etStore.db)
  BY <1>1 DEF Accounted
<1>6. Calm(y, d.delayed)
  <2>1. NoRepeatedCreate => Once(d.delayed)
    BY <1>2, OnceData
  <2> QED
    BY <1>4, <1>5, <2>1 DEF ExecutionSees, CacheHoldsAll, Calm
<1> HIDE DEF y
<1>7. Ready(y, d.delayed)
  BY <1>3, <1>4, <1>5, <1>6 DEF Ready
<1>8. Settled(x.store) /\ x.store.cap = world.cap
  BY <1>2, <1>4, <1>5, <1>7, BatchStore
<1>9. GoodView(x.store.db) /\ x.stakingDelta = TotalStaked(x.store.db)
  BY <1>2, <1>4, <1>5, <1>7, BatchStakes
<1>10. et'.stakingDelta = x.stakingDelta
  BY <1>2 DEF NextCursor
<1> QED
  BY <1>1, <1>2, <1>7, <1>8, <1>9, <1>10 DEF Accounted, y

\* The stakes are accounted for when nothing that they are about changes.
LEMMA AccountedKept ==
    ASSUME UNCHANGED <<world, et, etStore, etWritten>>, Accounted,
           phase' = "approvement" <=> phase = "approvement"
    PROVE  Accounted'
BY DEF Accounted

\* The stakes are accounted for after every step.
LEMMA AccountedStep ==
    ASSUME Course, [RotationNext]_rotationVars, AccountedInv
    PROVE  AccountedInv'
<1> SUFFICES ASSUME ExecutionSees' PROVE Accounted'
  BY DEF AccountedInv
<1>1. ExecutionSees /\ Accounted
  BY SeesBefore DEF AccountedInv
<1>2. ASSUME NEW txs, NEW x, NEW n, Rotates(txs, x, n) PROVE Accounted'
  <2>1. etStore' = etStore
    BY <1>2 DEF Rotates, ExecutionSees
  <2>2. UNCHANGED <<world, et, etWritten>>
        /\ phase = "up" /\ phase' \in {"up", "old"}
    BY <1>2 DEF Rotates
  <2> QED
    BY <1>1, <2>1, <2>2, AccountedKept
<1>3. CASE WriteHandler \/ FinishEpoch \/ FindFirstBlock \/ StartFetch \/ EndFetch
           \/ UNCHANGED rotationVars
  <2>1. UNCHANGED <<world, et, etStore, etWritten>>
    BY <1>3 DEF WriteHandler, FinishEpoch, FindFirstBlock, StartFetch, EndFetch,
                etVars, rotationVars
  <2>2. phase' = "approvement" <=> phase = "approvement"
    BY <1>3 DEF WriteHandler, FinishEpoch, FindFirstBlock, StartFetch, EndFetch,
                rotationVars
  <2> QED
    BY <1>1, <2>1, <2>2, AccountedKept
<1> QED
  BY <1>1, <1>2, <1>3, StepGroups, AccountedFounded, AccountedWritten,
     AccountedLost, AccountedStarted, AccountedEntered

\* The statistic of staked coins is the sum of the storages in STATE, each of
\* which is the sum of its stakers.
THEOREM StakesAccounted == RotationSpec => []StakedCoinsAreAccounted
<1>1. Course /\ AccountedInv /\ [RotationNext]_rotationVars => AccountedInv'
  BY AccountedStep
<1>2. AccountedInv => StakedCoinsAreAccounted
  BY DEF AccountedInv, Accounted, StakedCoinsAreAccounted, StoresAreApart,
         ExecutionSees, GoodView, Funded
<1> QED
  BY CourseHolds, AccountedStarts, <1>1, <1>2, PTL DEF RotationSpec

-----------------------------------------------------------------------------
(* The memory of the approvement thread *)

\* When the approvement thread sees what it has written.
ApprovementSees == ~mixed /\ CacheHoldsAll

\* A read that was begun without the lock ends with what is in the database, or
\* finds the storage in memory.
FetchesFit(reads, s) ==
    \A f \in reads :
        /\ f.validator \in DOMAIN s.db
        /\ InMemory(s, f.validator) \/ f.storage = s.db[f.validator]

\* The memory of the approvement thread has what its database has.
Faithful ==
    /\ Settled(atStore) /\ atStore.cap = world.cap /\ atStore.touched = {}
    /\ ~atWritten => atStore.db \in {NoDb, GenesisDb}
    /\ HasAt => at.registry \in Seq(Validator)
    /\ fetch # {} => phase \in {"up", "old"}
    /\ FetchesFit(fetch, atStore)

\* The inductive invariant for the approvement thread's store.
FaithfulInv == ApprovementSees => Faithful

\* What the approvement thread sees now it saw before a step.
LEMMA ApprovementSeesBefore ==
    ASSUME Course, [RotationNext]_rotationVars, ApprovementSees'
    PROVE  ApprovementSees
BY SeesBefore DEF ApprovementSees

\* The approvement thread's memory is faithful at first.
LEMMA FaithfulStarts == RotationInit => FaithfulInv
<1> SUFFICES ASSUME RotationInit PROVE Faithful
  BY DEF FaithfulInv
<1>1. /\ world \in Worlds /\ phase = "down" /\ atWritten = FALSE /\ fetch = {}
      /\ atStore = OpenStore(NoDb, world.cap)
  BY DEF RotationInit, NoDb
<1>2. /\ atStore.db = NoDb /\ atStore.cap = world.cap /\ Settled(atStore)
      /\ atStore.touched = {}
  BY <1>1, OpenSettled, NoDbFacts, WorldFacts
<1> QED
  BY <1>1, <1>2 DEF Faithful, HasAt, FetchesFit

\* The approvement thread's memory is faithful when the genesis is made.
LEMMA FaithfulFounded ==
    ASSUME Course, NEW h, Founds(h), Faithful
    PROVE  Faithful'
<1>1. /\ ~atWritten /\ phase = "down" /\ phase' = "approvement"
      /\ UNCHANGED <<world, atWritten, fetch>> /\ world \in Worlds /\ at' = h
      /\ h = GenesisHandler(GenesisStore(atStore.db))
      /\ atStore' = [ReadAllWithoutLock(GenesisStore(atStore.db),
                                        GenesisRegistry \o GenesisRegistry)
                         EXCEPT !.db = GenesisDb]
  BY DEF Founds, Course, Lifecycle
<1>2. atStore.db \in {NoDb, GenesisDb} /\ fetch = {}
  BY <1>1 DEF Faithful
<1>3. /\ Settled(atStore') /\ atStore'.db = GenesisDb
      /\ atStore'.cap = world.cap /\ atStore'.touched = {}
  BY <1>1, <1>2, GenesisSettles
<1>4. at'.registry \in Seq(Validator)
  BY <1>1, GenesisFacts DEF GenesisHandler, RegistryOf
<1> QED
  BY <1>1, <1>2, <1>3, <1>4 DEF Faithful, FetchesFit

\* The approvement thread's memory is faithful when memory is lost.
LEMMA FaithfulLost ==
    ASSUME Course, Loses, Faithful
    PROVE  Faithful'
<1>1. /\ phase # "down" /\ phase' = "down" /\ UNCHANGED <<world, atWritten>>
      /\ atStore' = OpenStore(atStore.db, world.cap) /\ fetch' = {}
      /\ at' = IF atWritten THEN at ELSE NothingYet
  BY DEF Loses, LoseCaches
<1>2. /\ atStore.db = [v \in DOMAIN atStore.db |-> atStore.db[v]]
      /\ DOMAIN atStore.db \subseteq Validator /\ world.cap \in Nat
  BY WorldFacts DEF StoreMaps, Course, Lifecycle, Faithful, Settled
<1>3. /\ atStore'.db = atStore.db /\ atStore'.cap = world.cap
      /\ Settled(atStore') /\ atStore'.touched = {}
  BY <1>1, <1>2, OpenSettled
<1> QED
  BY <1>1, <1>3 DEF Faithful, HasAt, FetchesFit

\* The batch of a rotation can be executed.
LEMMA RotationReady ==
    ASSUME ApprovementSees, Faithful, NEW txs, NEW x, NEW n, Rotates(txs, x, n)
    PROVE  Ready(ApprovementContext(at, atStore), txs)
<1> DEFINE y == ApprovementContext(at, atStore)
<1>1. ContextShape(y) /\ y.store = atStore
  BY DEF ApprovementContext, ContextShape
<1> HIDE DEF y
<1>2. Settled(atStore) /\ atStore.cap >= Cardinality(Validator)
  BY DEF Faithful, ApprovementSees, CacheHoldsAll
<1>3. txs \in Seq(DelayedTransaction)
  BY DEF Rotates
<1> QED
  BY <1>1, <1>2, <1>3 DEF Ready, Calm, y

\* The approvement thread's memory is faithful when the approvement thread
\* rotates.
LEMMA FaithfulRotated ==
    ASSUME Course, ApprovementSees, NEW txs, NEW x, NEW n, Rotates(txs, x, n),
           Faithful
    PROVE  /\ Faithful' /\ atStore'.db = x.store.db
           /\ x.registry \in Seq(Validator)
<1> DEFINE y == ApprovementContext(at, atStore)
<1>1. /\ phase = "up" /\ phase' \in {"up", "old"} /\ at' = n
      /\ x = ExecuteBatch(y, txs) /\ n = NextHandler(at, x)
      /\ atStore' = ResetTouched(AfterSelection(x.store, x.registry,
                                                x.params["QUORUM_SIZE"]))
      /\ UNCHANGED <<world, atWritten, fetch>>
  BY DEF Rotates
<1>2. atWritten
  BY <1>1 DEF Course, Lifecycle
<1>3. Ready(y, txs)
  BY RotationReady
<1>4. y.store = atStore /\ y.registry = at.registry
  BY DEF ApprovementContext
<1>5. at.registry \in Seq(Validator) /\ at'.registry = x.registry
  BY <1>1 DEF Faithful, HasAt, NextHandler
<1>6. Settled(atStore) /\ atStore.cap = world.cap /\ atStore.touched = {}
      /\ atStore.cap >= Cardinality(Validator)
  BY DEF Faithful, ApprovementSees, CacheHoldsAll
<1> HIDE DEF y
<1>7. Settled(x.store) /\ x.store.cap = atStore.cap
  BY <1>1, <1>3, <1>4, BatchStore
<1>8. x.registry \in Seq(Validator)
  BY <1>1, <1>3, <1>4, <1>5, BatchRegistryTyped
<1>9. /\ Roomy(x.store) /\ atStore.cached \subseteq x.store.cached
      /\ \A v \in DOMAIN atStore.db :
            /\ v \in DOMAIN x.store.db
            /\ v \in x.store.touched \/ x.store.db[v] = atStore.db[v]
  BY <1>1, <1>3, <1>4, <1>6, BatchMemory
<1>10. /\ Settled(atStore') /\ atStore'.db = x.store.db
       /\ atStore'.cap = x.store.cap /\ atStore'.touched = {}
       /\ x.store.cached \cup x.store.touched \subseteq atStore'.cached
  <2> DEFINE size == x.params["QUORUM_SIZE"]
  <2> HIDE DEF size
  <2>1. atStore' = ResetTouched(AfterSelection(x.store, x.registry, size))
    BY <1>1 DEF size
  <2> QED
    BY <1>7, <1>8, <1>9, <2>1, SelectionSettles
<1>11. FetchesFit(fetch, atStore)
  BY DEF Faithful
<1>12. FetchesFit(fetch, atStore')
  BY <1>6, <1>9, <1>10, <1>11 DEF FetchesFit, InMemory
<1> QED
  BY <1>1, <1>2, <1>5, <1>6, <1>7, <1>8, <1>10, <1>12 DEF Faithful

\* The approvement thread's memory is faithful when a read without the lock
\* ends.
LEMMA FaithfulFetched ==
    ASSUME Course, ApprovementSees, EndFetch, Faithful
    PROVE  Faithful' /\ atStore'.db = atStore.db
<1>1. /\ UNCHANGED <<world, phase, at, atWritten>> /\ fetch' = {}
      /\ \E f \in fetch : atStore' = FillCache(atStore, f.validator, f.storage)
  BY DEF EndFetch
<1>2. PICK f \in fetch : atStore' = FillCache(atStore, f.validator, f.storage)
  BY <1>1
<1> DEFINE v == f.validator
           o == f.storage
<1>3. /\ v \in DOMAIN atStore.db /\ v \in Validator
      /\ InMemory(atStore, v) \/ o = atStore.db[v]
  BY DEF Faithful, FetchesFit, Settled, StoreMaps
<1>4. Holding(atStore, atStore.db) /\ atStore.touched = {}
  BY SettledHolds DEF Faithful
<1>5. atStore' = FillCache(atStore, v, o)
  BY <1>2
<1> HIDE DEF v, o
<1>6. /\ Holding(atStore', atStore.db) /\ atStore'.db = atStore.db
      /\ atStore'.cap = atStore.cap /\ atStore'.touched = {}
  BY <1>3, <1>4, <1>5, FillHolds
<1>7. Settled(atStore')
  BY <1>6, SettledHolds
<1> QED
  BY <1>1, <1>6, <1>7 DEF Faithful, HasAt, FetchesFit

\* The approvement thread's memory is faithful when it does not change.
LEMMA FaithfulKept ==
    ASSUME Course, UNCHANGED <<world, atStore, atWritten, at, fetch>>, Faithful,
           phase' \in {"up", "old"} => phase \in {"up", "old"} \/ fetch = {},
           fetch # {} => phase' \in {"up", "old"},
           phase' # "down" => HasAt
    PROVE  Faithful'
BY DEF Faithful, HasAt, FetchesFit

\* The approvement thread's memory is faithful after every step.
LEMMA FaithfulStep ==
    ASSUME Course, [RotationNext]_rotationVars, FaithfulInv
    PROVE  FaithfulInv'
<1> SUFFICES ASSUME ApprovementSees' PROVE Faithful'
  BY DEF FaithfulInv
<1>1. ApprovementSees /\ Faithful
  BY ApprovementSeesBefore DEF FaithfulInv
<1>2. ASSUME NEW d, NEW x, NEW c, Enters(d, x, c) PROVE Faithful'
  <2>1. atStore' = atStore
    BY <1>2 DEF Enters, ApprovementSees
  <2>2. UNCHANGED <<world, at, atWritten, fetch>>
        /\ phase = "up" /\ phase' \in {"up", "old"}
    BY <1>2 DEF Enters
  <2> QED
    BY <1>1, <2>1, <2>2, FaithfulKept DEF HasAt
<1>3. CASE \/ WriteGenesisOfState \/ WriteHandler \/ StartNode
           \/ FinishEpoch \/ FindFirstBlock
  <2>1. UNCHANGED <<world, at, atStore, fetch>>
    BY <1>3 DEF WriteGenesisOfState, WriteHandler, StartNode, FinishEpoch,
                FindFirstBlock, atVars
  <2>2. /\ atWritten' \in BOOLEAN /\ (atWritten => atWritten')
        /\ phase' # "down" /\ HasAt
        /\ phase' = phase \/ (phase' \in {"up", "state"} /\ phase \notin {"up", "old"})
    BY <1>3 DEF WriteGenesisOfState, WriteHandler, StartNode, FinishEpoch,
                FindFirstBlock, atVars, HasAt, Course, Lifecycle
  <2> QED
    BY <1>1, <2>1, <2>2 DEF Faithful, FetchesFit, HasAt
<1>4. CASE StartFetch
  <2>1. PICK v \in DOMAIN atStore.db :
           fetch' = {[validator |-> v, storage |-> atStore.db[v]]}
    BY <1>4 DEF StartFetch
  <2>2. UNCHANGED <<world, phase, at, atWritten, atStore>> /\ phase = "up"
    BY <1>4 DEF StartFetch
  <2>3. FetchesFit(fetch', atStore)
    BY <2>1 DEF FetchesFit
  <2> QED
    BY <1>1, <2>2, <2>3 DEF Faithful, HasAt
<1>5. CASE UNCHANGED rotationVars
  <2>1. UNCHANGED <<world, at, atStore, atWritten, fetch, phase>>
    BY <1>5 DEF rotationVars
  <2> QED
    BY <1>1, <2>1 DEF Faithful, FetchesFit, HasAt
<1> QED
  BY <1>1, <1>2, <1>3, <1>4, <1>5, StepGroups, FaithfulFounded, FaithfulLost,
     FaithfulRotated, FaithfulFetched

\* The approvement thread's memory is always faithful.
LEMMA FaithfulHolds == RotationSpec => [](Course /\ FaithfulInv)
<1>1. Course /\ FaithfulInv /\ [RotationNext]_rotationVars => FaithfulInv'
  BY FaithfulStep
<1> QED
  BY CourseHolds, FaithfulStarts, <1>1, PTL DEF RotationSpec

-----------------------------------------------------------------------------
(* The registry and the stakes *)

\* The field that must not have been voted on.
RequiredStake == {"VALIDATOR_REQUIRED_STAKE"}

\* The required stake of the genesis.
Required == Genesis.params["VALIDATOR_REQUIRED_STAKE"]

\* The registry has the validators with the required stake.
Registered ==
    HasAt => /\ at.params \in NetworkParameters
             /\ at.params["VALIDATOR_REQUIRED_STAKE"] = Required
             /\ GoodView(atStore.db)
             /\ RegistryOf(atStore.db, at.registry, Required)

\* The inductive invariant for the registry.
RegisteredInv ==
    ApprovementSees /\ NoVoteOn(RequiredStake) => Registered

\* What was voted for before is still among the batches.
LEMMA NoVoteBefore ==
    ASSUME Course, [RotationNext]_rotationVars, NoVoteOn(RequiredStake)'
    PROVE  NoVoteOn(RequiredStake)
<1>1. \A e \in DOMAIN atDb'.epochData :
         NoVoteIn(atDb'.epochData[e].delayed, RequiredStake)
  BY NoVoteOnData DEF RequiredStake
<1>2. \A e \in DOMAIN atDb.epochData :
         NoVoteIn(atDb.epochData[e].delayed, RequiredStake)
  BY <1>1, DataKept
<1> QED
  BY <1>2, NoVoteOnData

\* The registry follows the stakes at first.
LEMMA RegisteredStarts == RotationInit => RegisteredInv
BY DEF RotationInit, RegisteredInv, Registered, HasAt

\* The registry follows the stakes when the genesis is made.
LEMMA RegisteredFounded ==
    ASSUME Course, NEW h, Founds(h), Faithful
    PROVE  Registered'
<1>1. /\ ~atWritten /\ world \in Worlds /\ at' = h
      /\ h = GenesisHandler(GenesisStore(atStore.db))
      /\ atStore' = [ReadAllWithoutLock(GenesisStore(atStore.db),
                                        GenesisRegistry \o GenesisRegistry)
                         EXCEPT !.db = GenesisDb]
  BY DEF Founds, Course, Lifecycle
<1>2. atStore.db \in {NoDb, GenesisDb}
  BY <1>1 DEF Faithful
<1>3. atStore'.db = GenesisDb
  BY <1>1, <1>2, GenesisSettles
<1>4. at'.registry = GenesisRegistry /\ at'.params = Genesis.params
  BY <1>1 DEF GenesisHandler
<1> QED
  BY <1>3, <1>4, GenesisFacts DEF Registered, Required

\* The registry follows the stakes when memory is lost.
LEMMA RegisteredLost ==
    ASSUME Course, Loses, Faithful, Registered
    PROVE  Registered'
<1>1. /\ phase # "down" /\ phase' = "down" /\ UNCHANGED atWritten
      /\ atStore' = OpenStore(atStore.db, world.cap)
      /\ at' = IF atWritten THEN at ELSE NothingYet
  BY DEF Loses, LoseCaches
<1>2. atStore'.db = atStore.db
  BY <1>1 DEF OpenStore
<1> QED
  BY <1>1, <1>2 DEF Registered, HasAt

\* The registry follows the stakes when the approvement thread rotates.
LEMMA RegisteredRotated ==
    ASSUME Course, ApprovementSees, NEW txs, NEW x, NEW n, Rotates(txs, x, n),
           Faithful, Registered, NoVoteOn(RequiredStake)', Required > 0
    PROVE  Registered'
<1> DEFINE y == ApprovementContext(at, atStore)
<1>1. /\ phase = "up" /\ at' = n /\ n = NextHandler(at, x)
      /\ x = ExecuteBatch(y, txs)
      /\ atDb'.epochData = With(atDb.epochData, at.epoch + 1,
                                NextEpochDataHandler(n, txs))
  BY DEF Rotates
<1>2. Ready(y, txs)
  BY RotationReady
<1>3. y.store = atStore /\ y.registry = at.registry /\ y.params = at.params
  BY DEF ApprovementContext
<1>4. NoVoteIn(txs, RequiredStake)
  <2>1. at.epoch + 1 \in DOMAIN atDb'.epochData
        /\ atDb'.epochData[at.epoch + 1].delayed = txs
    BY <1>1 DEF With, NextEpochDataHandler
  <2> QED
    BY <2>1, NoVoteOnData DEF RequiredStake
<1>5. /\ at.params \in NetworkParameters
      /\ at.params["VALIDATOR_REQUIRED_STAKE"] = Required
      /\ GoodView(atStore.db) /\ RegistryOf(atStore.db, at.registry, Required)
  BY <1>1 DEF Registered, HasAt
<1> HIDE DEF y
<1>6. /\ x.params \in NetworkParameters
      /\ \A f \in RequiredStake \cap Field : x.params[f] = at.params[f]
  BY <1>1, <1>2, <1>3, <1>4, <1>5, BatchParams
<1>7. x.params["VALIDATOR_REQUIRED_STAKE"] = Required
  BY <1>5, <1>6 DEF RequiredStake, Field
<1>8. GoodView(x.store.db)
  BY <1>1, <1>2, <1>3, <1>5, BatchStakes
<1>9. RegistryOf(x.store.db, x.registry, Required)
  BY <1>1, <1>2, <1>3, <1>4, <1>5, BatchRegistry DEF RequiredStake
<1>10. atStore'.db = x.store.db
  BY FaithfulRotated
<1>11. at'.registry = x.registry /\ at'.params = x.params
  BY <1>1 DEF NextHandler
<1> QED
  BY <1>6, <1>7, <1>8, <1>9, <1>10, <1>11 DEF Registered

\* The registry follows the stakes when neither changes.
LEMMA RegisteredKept ==
    ASSUME UNCHANGED <<at, atStore>>, HasAt' => HasAt, Registered
    PROVE  Registered'
BY DEF Registered

\* The registry follows the stakes after every step.
LEMMA RegisteredStep ==
    ASSUME Course, [RotationNext]_rotationVars, FaithfulInv, RegisteredInv,
           Required > 0
    PROVE  RegisteredInv'
<1> SUFFICES ASSUME ApprovementSees', NoVoteOn(RequiredStake)'
             PROVE  Registered'
  BY DEF RegisteredInv, RequiredStake
<1>1. ApprovementSees /\ Faithful /\ Registered
  BY ApprovementSeesBefore, NoVoteBefore DEF FaithfulInv, RegisteredInv
<1>2. ASSUME NEW d, NEW x, NEW c, Enters(d, x, c) PROVE Registered'
  <2>1. UNCHANGED <<at, atStore>> /\ phase = "up"
    BY <1>2 DEF Enters, ApprovementSees
  <2> QED
    BY <1>1, <2>1, RegisteredKept DEF HasAt
<1>3. CASE \/ WriteGenesisOfState \/ WriteHandler \/ StartNode
           \/ FinishEpoch \/ FindFirstBlock \/ StartFetch
  <2>1. UNCHANGED <<at, atStore>> /\ HasAt
    BY <1>3 DEF WriteGenesisOfState, WriteHandler, StartNode, FinishEpoch,
                FindFirstBlock, StartFetch, atVars, HasAt
  <2> QED
    BY <1>1, <2>1, RegisteredKept
<1>4. CASE EndFetch
  <2>1. UNCHANGED at /\ phase = "up"
    BY <1>4 DEF EndFetch
  <2>2. atStore'.db = atStore.db
    BY <1>1, <1>4, FaithfulFetched
  <2> QED
    BY <1>1, <2>1, <2>2 DEF Registered, HasAt
<1>5. CASE UNCHANGED rotationVars
  <2>1. UNCHANGED <<at, atStore, atWritten, phase>>
    BY <1>5 DEF rotationVars
  <2> QED
    BY <1>1, <2>1, RegisteredKept DEF HasAt
<1> QED
  BY <1>1, <1>2, <1>3, <1>4, <1>5, StepGroups, RegisteredFounded,
     RegisteredLost, RegisteredRotated

\* The registry has the validators with the required stake, each once, as long
\* as nobody votes on that stake.  A validator is created with a stake of 0
\* and outside of the registry: the required stake is more than that.
THEOREM RegistryFits ==
    ASSUME Genesis.params["VALIDATOR_REQUIRED_STAKE"] > 0
    PROVE  RotationSpec => []RegistryFollowsStakes
<1>1. Required > 0
  BY DEF Required
<1>2. Course /\ FaithfulInv /\ RegisteredInv /\ [RotationNext]_rotationVars
         => RegisteredInv'
  BY <1>1, RegisteredStep
<1>3. ASSUME FaithfulInv, RegisteredInv PROVE RegistryFollowsStakes
  <2> SUFFICES ASSUME phase = "up", ApprovementSees, NoVoteOn(RequiredStake)
               PROVE  /\ IsInjective(at.registry)
                      /\ ToSet(at.registry) =
                            {v \in DOMAIN View(atStore) :
                                HasRequiredStake(View(atStore)[v], at.params)}
    BY DEF RegistryFollowsStakes, ApprovementSees, StoresAreApart, RequiredStake
  <2>1. Settled(atStore) /\ Registered /\ HasAt
    BY <1>3 DEF FaithfulInv, RegisteredInv, Faithful, HasAt
  <2>2. View(atStore) = atStore.db
    BY <2>1, SettledFacts
  <2> QED
    BY <2>1, <2>2 DEF Registered, RegistryOf, HasRequiredStake
<1> QED
  BY FaithfulHolds, RegisteredStarts, <1>2, <1>3, PTL DEF RotationSpec

-----------------------------------------------------------------------------
(* The replay of the batches *)

\* The context at the start of epoch e, from g of the epoch before.
ReplayStep(db, g, e) ==
    IF e = 0 THEN GenesisContext(db.snapshots[0].quorum)
    ELSE ReplayedInto(e, g[e - 1], db.epochData[e])

\* What ReplayOf chooses exists.
LEMMA ReplayExists ==
    ASSUME NEW db
    PROVE  \E h : h = [e \in Epoch |-> ReplayStep(db, h, e)]
<1> DEFINE Step(g, e) == ReplayStep(db, g, e)
           G == {m \in Nat : \E h : h = [e \in 0 .. m |-> Step(h, e)]}
<1>1. ASSUME NEW g, NEW h, NEW e \in Nat, e # 0 => g[e - 1] = h[e - 1]
      PROVE  Step(g, e) = Step(h, e)
  BY <1>1 DEF ReplayStep
<1>2. \A g, h : Step(g, 0) = Step(h, 0)
  BY DEF ReplayStep
<1> HIDE DEF Step
<1>3. 0 \in G
  <2> DEFINE h == [e \in 0 .. 0 |-> Step(0, 0)]
  <2>1. \A e \in 0 .. 0 : Step(0, 0) = Step(h, e)
    <3> HIDE DEF h
    <3> QED
      BY <1>2
  <2>2. h = [e \in 0 .. 0 |-> Step(h, e)]
    BY <2>1
  <2> QED
    BY <2>2
<1>4. ASSUME NEW m \in Nat, m \in G PROVE m + 1 \in G
  <2>1. PICK h : h = [e \in 0 .. m |-> Step(h, e)]
    BY <1>4
  <2> DEFINE g == [e \in 0 .. m + 1 |-> Step(h, e)]
  <2>2. \A e \in 0 .. m : g[e] = h[e]
    <3>1. \A e \in 0 .. m : h[e] = Step(h, e) /\ e \in 0 .. m + 1
      BY <2>1
    <3> QED
      BY <3>1
  <2>3. ASSUME NEW e \in 0 .. m + 1 PROVE Step(h, e) = Step(g, e)
    <3>1. e # 0 => e - 1 \in 0 .. m
      OBVIOUS
    <3>2. e # 0 => g[e - 1] = h[e - 1]
      BY <2>2, <3>1
    <3> HIDE DEF g
    <3> QED
      BY <1>1, <3>2
  <2>4. g = [e \in 0 .. m + 1 |-> Step(h, e)]
    OBVIOUS
  <2> HIDE DEF g
  <2>5. g = [e \in 0 .. m + 1 |-> Step(g, e)]
    BY <2>3, <2>4
  <2> QED
    BY <2>5
<1>5. \A m \in Nat : m \in G
  <2> HIDE DEF G
  <2> QED
    BY <1>3, <1>4, Counting
<1>6. MaxEpoch \in G
  BY <1>5, RotationAssumption
<1> QED
  BY <1>6 DEF Epoch, Step

\* The replay of the batches starts with the genesis, and each epoch begins
\* with what its batch makes of the epoch before.
LEMMA ReplayGoes ==
    ASSUME NEW db
    PROVE  /\ ReplayOf(db)[0] = GenesisContext(db.snapshots[0].quorum)
           /\ \A e \in Epoch : e + 1 \in Epoch =>
                 ReplayOf(db)[e + 1] =
                    ReplayedInto(e + 1, ReplayOf(db)[e], db.epochData[e + 1])
<1> DEFINE r == ReplayOf(db)
           Is(h) == h = [e \in Epoch |-> ReplayStep(db, h, e)]
<1>1. r = CHOOSE h : Is(h)
  BY DEF ReplayOf, ReplayStep
<1>2. \E h : Is(h)
  BY ReplayExists
<1>3. Is(r)
  <2> HIDE DEF Is, r
  <2> QED
    BY <1>1, <1>2
<1> HIDE DEF r
<1>4. \A e \in Epoch : r[e] = ReplayStep(db, r, e)
  BY <1>3
<1>5. MaxEpoch \in Nat
  BY RotationAssumption
<1>6. 0 \in Epoch /\ \A e \in Epoch : e + 1 # 0 /\ (e + 1) - 1 = e
  BY <1>5 DEF Epoch
<1> HIDE DEF Is
<1> QED
  BY <1>4, <1>6 DEF ReplayStep, r

\* A batch is executed by one thread.
LEMMA BatchThread ==
    ASSUME NEW x, NEW txs, Ready(x, txs), NEW y, y = ExecuteBatch(x, txs)
    PROVE  y.thread = x.thread
<1>1. PICK run : BatchRun(run, x, txs)
  BY BatchGoes DEF Ready
<1> DEFINE n == Len(txs)
           Ok(m) == run[m].thread = x.thread
           G == {m \in Nat : m <= n => Ok(m)}
<1>2. 0 \in G
  BY <1>1, OpenedFacts DEF BatchRun, Ready
<1>3. ASSUME NEW m \in Nat, m \in G PROVE m + 1 \in G
  <2>1. SUFFICES ASSUME m + 1 <= n PROVE Ok(m + 1)
    OBVIOUS
  <2>2. m <= n /\ Shown(run[m], run[m + 1], txs[m + 1])
    BY <1>1, <2>1, BatchStep
  <2>3. run[m + 1].thread = run[m].thread
    BY <2>2 DEF Shown
  <2> QED
    BY <1>3, <2>2, <2>3
<1>4. \A m \in Nat : m \in G
  <2> HIDE DEF G
  <2> QED
    BY <1>2, <1>3, Counting
<1>5. n \in Nat /\ n <= n /\ y = Closed(run[n]) /\ GoodContext(run[n])
  BY <1>1 DEF BatchRun
<1>6. Ok(n)
  BY <1>4, <1>5
<1> HIDE DEF n
<1> QED
  BY <1>5, <1>6, ClosedFacts

\* The context of a replay at the start of epoch e: its caches are empty, and
\* have room for all.
Replayable(r, e) ==
    /\ ContextShape(r) /\ Settled(r.store)
    /\ r.store.cap = Cardinality(Validator)
    /\ r.thread = "execution" /\ r.epoch = e

\* Any batch can be executed from the context of a replay.
LEMMA ReplayableReady ==
    ASSUME NEW r, NEW e, Replayable(r, e), NEW txs \in Seq(DelayedTransaction)
    PROVE  Ready(r, txs)
<1>1. Cardinality(Validator) \in Nat
  BY FinitelyMany, FS_CardinalityType
<1>2. r.store.cap >= Cardinality(Validator)
  BY <1>1 DEF Replayable
<1> QED
  BY <1>2 DEF Replayable, Ready, Calm

\* The context at the start of the next epoch.
LEMMA ReplayedFacts ==
    ASSUME NEW x, NEW i, Replayable(x, i), NEW d,
           d.delayed \in Seq(DelayedTransaction), NEW e,
           NEW y, y = ExecuteBatch(x, d.delayed),
           NEW r, r = ReplayedInto(e, x, d)
    PROVE  /\ Replayable(r, e) /\ r.quorum = ToSet(d.quorum)
           /\ r.store.db = y.store.db /\ r.params = y.params
           /\ r.version = y.version /\ r.registry = y.registry
           /\ r.balances = y.balances
<1> DEFINE s == OpenStore(y.store.db, y.store.cap)
           q == ToSet(d.quorum)
<1>1. Ready(x, d.delayed)
  BY ReplayableReady
<1>2. ContextShape(y) /\ Settled(y.store) /\ y.store.cap = x.store.cap
      /\ y.thread = x.thread
  BY <1>1, BatchStore, BatchThread
<1>3. /\ y.store.db = [v \in DOMAIN y.store.db |-> y.store.db[v]]
      /\ DOMAIN y.store.db \subseteq Validator
      /\ y.store.cap \in Nat /\ y.store.cap = Cardinality(Validator)
  BY <1>2, FinitelyMany, FS_CardinalityType DEF Settled, StoreMaps, Replayable
<1>4. s.db = y.store.db /\ s.cap = y.store.cap /\ Settled(s)
  BY <1>3, OpenSettled
<1>5. r = [y EXCEPT !.epoch = e, !.store = s, !.quorum = q]
  BY DEF ReplayedInto
<1> HIDE DEF s, q
<1>6. /\ ContextShape(r) /\ r.store = s /\ r.epoch = e /\ r.quorum = q
      /\ r.thread = y.thread /\ r.params = y.params /\ r.version = y.version
      /\ r.registry = y.registry /\ r.balances = y.balances
  BY <1>2, <1>5 DEF ContextShape
<1> QED
  BY <1>2, <1>3, <1>4, <1>6 DEF Replayable, q

\* The context after the genesis.
LEMMA GenesisReplayable ==
    ASSUME NEW quorum, NEW r, r = GenesisContext(quorum)
    PROVE  /\ Replayable(r, 0) /\ r.quorum = ToSet(quorum)
           /\ r.store.db = GenesisDb /\ r.params = Genesis.params
           /\ r.version = Genesis.version /\ r.registry = GenesisRegistry
           /\ r.balances = [a \in Staker |-> 0]
<1> DEFINE cap == Cardinality(Validator)
           s == OpenStore(GenesisDb, cap)
<1>1. cap \in Nat
  BY FinitelyMany, FS_CardinalityType
<1>2. /\ ContextShape(r) /\ r.store = s /\ r.epoch = 0
      /\ r.thread = "execution" /\ r.quorum = ToSet(quorum)
      /\ r.params = Genesis.params /\ r.version = Genesis.version
      /\ r.registry = GenesisRegistry /\ r.balances = [a \in Staker |-> 0]
  BY DEF GenesisContext, ContextShape
<1> HIDE DEF cap
<1>3. s.db = GenesisDb /\ s.cap = cap /\ Settled(s)
  BY <1>1, GenesisFacts, OpenSettled
<1> QED
  BY <1>2, <1>3 DEF Replayable, cap

\* The batches up to epoch n are typed.
Batched(db, n) ==
    \A e \in 1 .. n : db.epochData[e].delayed \in Seq(DelayedTransaction)

\* The contexts of a replay.
LEMMA ReplaysReplayable ==
    ASSUME NEW db, NEW n \in Epoch, Batched(db, n)
    PROVE  \A e \in 0 .. n : Replayable(ReplayOf(db)[e], e)
<1> DEFINE G == {m \in Nat : m <= n => Replayable(ReplayOf(db)[m], m)}
<1>1. MaxEpoch \in Nat /\ n \in 0 .. MaxEpoch
  BY RotationAssumption DEF Epoch
<1>2. 0 \in G
  BY ReplayGoes, GenesisReplayable
<1>3. ASSUME NEW m \in Nat, m \in G PROVE m + 1 \in G
  <2>1. SUFFICES ASSUME m + 1 <= n PROVE Replayable(ReplayOf(db)[m + 1], m + 1)
    OBVIOUS
  <2>2. m \in Epoch /\ m + 1 \in Epoch /\ m + 1 \in 1 .. n /\ m <= n
    BY <1>1, <2>1 DEF Epoch
  <2>3. Replayable(ReplayOf(db)[m], m)
    BY <1>3, <2>2
  <2>4. db.epochData[m + 1].delayed \in Seq(DelayedTransaction)
    BY <2>2 DEF Batched
  <2>5. ReplayOf(db)[m + 1] =
           ReplayedInto(m + 1, ReplayOf(db)[m], db.epochData[m + 1])
    BY <2>2, ReplayGoes
  <2> QED
    BY <2>3, <2>4, <2>5, ReplayedFacts
<1>4. \A m \in Nat : m \in G
  <2> HIDE DEF G
  <2> QED
    BY <1>2, <1>3, Counting
<1> QED
  BY <1>1, <1>4

\* Two databases with the same batches up to epoch n are replayed the same up
\* to there.
LEMMA SameReplay ==
    ASSUME NEW db, NEW new, NEW n \in Epoch,
           new.snapshots[0].quorum = db.snapshots[0].quorum,
           \A e \in 1 .. n : new.epochData[e] = db.epochData[e]
    PROVE  \A e \in 0 .. n : ReplayOf(new)[e] = ReplayOf(db)[e]
<1> DEFINE G == {m \in Nat : m <= n => ReplayOf(new)[m] = ReplayOf(db)[m]}
<1>1. MaxEpoch \in Nat /\ n \in 0 .. MaxEpoch
  BY RotationAssumption DEF Epoch
<1>2. 0 \in G
  BY ReplayGoes
<1>3. ASSUME NEW m \in Nat, m \in G PROVE m + 1 \in G
  <2>1. SUFFICES ASSUME m + 1 <= n
                 PROVE  ReplayOf(new)[m + 1] = ReplayOf(db)[m + 1]
    OBVIOUS
  <2>2. m \in Epoch /\ m + 1 \in Epoch /\ m + 1 \in 1 .. n /\ m <= n
    BY <1>1, <2>1 DEF Epoch
  <2>3. ReplayOf(new)[m] = ReplayOf(db)[m]
    BY <1>3, <2>2
  <2>4. new.epochData[m + 1] = db.epochData[m + 1]
    BY <2>2
  <2> QED
    BY <2>2, <2>3, <2>4, ReplayGoes
<1>4. \A m \in Nat : m \in G
  <2> HIDE DEF G
  <2> QED
    BY <1>2, <1>3, Counting
<1> QED
  BY <1>1, <1>4

-----------------------------------------------------------------------------
(* Rotations and the replay *)

\* The first snapshot has the quorum of the genesis.
FirstQuorum ==
    HasAt => /\ 0 \in DOMAIN atDb.snapshots
             /\ at.epoch = 0 => atDb.snapshots[0].quorum = at.quorum

\* The first snapshot has the quorum of the genesis after every step.
LEMMA FirstQuorumStep ==
    ASSUME Course, Course', [RotationNext]_rotationVars, FirstQuorum
    PROVE  FirstQuorum'
<1>1. ASSUME NEW h, Founds(h) PROVE FirstQuorum'
  <2>1. /\ at' = h
        /\ atDb' = [atDb EXCEPT !.snapshots =
                       With(atDb.snapshots, 0, Snapshot(h, h.params))]
    BY <1>1 DEF Founds
  <2>2. atDb'.snapshots = With(atDb.snapshots, 0, Snapshot(h, h.params))
    BY <2>1 DEF Course, Epochs
  <2> QED
    BY <2>1, <2>2 DEF FirstQuorum, With, Snapshot
<1>2. CASE Loses
  BY <1>2 DEF Loses, LoseCaches, FirstQuorum, HasAt
<1>3. ASSUME NEW txs, NEW x, NEW n, Rotates(txs, x, n) PROVE FirstQuorum'
  <2>1. /\ at' = n /\ n = NextHandler(at, x) /\ phase = "up"
        /\ atDb'.snapshots = With(With(atDb.snapshots, at.epoch,
                                       Snapshot(at, at.params)),
                                  at.epoch + 1, NextSnapshot(at, n))
    BY <1>3 DEF Rotates
  <2>2. at'.epoch = at.epoch + 1
    BY <2>1 DEF NextHandler
  <2>3. at.epoch \in Nat
    BY DEF Course, Epochs, Epoch
  <2>4. at'.epoch # 0
    BY <2>2, <2>3
  <2>5. 0 \in DOMAIN atDb'.snapshots
    BY <2>1 DEF FirstQuorum, HasAt, With
  <2> QED
    BY <2>4, <2>5 DEF FirstQuorum
<1>4. CASE \/ WriteGenesisOfState \/ WriteHandler \/ StartNode
           \/ FinishEpoch \/ FindFirstBlock \/ StartFetch \/ EndFetch
           \/ (\E d, x, c : Enters(d, x, c)) \/ UNCHANGED rotationVars
  <2>1. UNCHANGED <<at, atDb>>
    BY <1>4 DEF WriteGenesisOfState, WriteHandler, StartNode, FinishEpoch,
         FindFirstBlock, StartFetch, EndFetch, Enters, rotationVars, atVars
  <2>2. HasAt' => HasAt
    BY <1>4 DEF WriteGenesisOfState, WriteHandler, StartNode, FinishEpoch,
         FindFirstBlock, StartFetch, EndFetch, Enters, rotationVars, atVars, HasAt
  <2> QED
    BY <2>1, <2>2 DEF FirstQuorum
<1> QED
  BY <1>1, <1>2, <1>3, <1>4, StepGroups

\* The first snapshot always has the quorum of the genesis.
LEMMA FirstQuorumHolds == RotationSpec => []FirstQuorum
<1>1. RotationInit => FirstQuorum
  BY DEF RotationInit, FirstQuorum, HasAt
<1>2. Course /\ Course' /\ FirstQuorum /\ [RotationNext]_rotationVars
         => FirstQuorum'
  BY FirstQuorumStep
<1> QED
  BY CourseHolds, <1>1, <1>2, PTL DEF RotationSpec

\* A rotation adds to the batches, and changes nothing of the earlier epochs.
LEMMA ReplayKept ==
    ASSUME Course, FirstQuorum, NEW txs, NEW x, NEW n, Rotates(txs, x, n)
    PROVE  /\ \A e \in 0 .. at.epoch : ReplayOf(atDb')[e] = ReplayOf(atDb)[e]
           /\ at.epoch \in Epoch /\ at.epoch + 1 \in Epoch
           /\ ReplayOf(atDb')[at.epoch + 1] =
                 ReplayedInto(at.epoch + 1, ReplayOf(atDb)[at.epoch],
                              NextEpochDataHandler(n, txs))
<1> DEFINE e == at.epoch
           new == atDb'
           d == NextEpochDataHandler(n, txs)
<1>1. /\ e \in finished /\ phase = "up"
      /\ new.snapshots = With(With(atDb.snapshots, e, Snapshot(at, at.params)),
                              e + 1, NextSnapshot(at, n))
      /\ new.epochData = With(atDb.epochData, e + 1, d)
  BY DEF Rotates
<1>2. /\ e \in 0 .. MaxEpoch /\ e < MaxEpoch /\ MaxEpoch \in Nat
      /\ DOMAIN atDb.epochData = 1 .. e
  BY <1>1, RotationAssumption DEF Course, Epochs, Epoch
<1>3. e \in Epoch /\ e + 1 \in Epoch /\ e \in 0 .. e /\ e + 1 # 0
  BY <1>2 DEF Epoch
<1>4. /\ e = 0 => atDb.snapshots[0].quorum = at.quorum
      /\ 0 \in DOMAIN atDb.snapshots
  BY <1>1 DEF FirstQuorum, HasAt
<1> HIDE DEF e, new
<1>5. new.snapshots[0].quorum = atDb.snapshots[0].quorum
  <2>1. CASE e = 0
    <3>1. new.snapshots[0] = Snapshot(at, at.params)
      BY <1>1, <2>1 DEF With
    <3> QED
      BY <1>4, <2>1, <3>1 DEF Snapshot
  <2>2. CASE e # 0
    <3>1. new.snapshots[0] = atDb.snapshots[0]
      BY <1>1, <1>3, <1>4, <2>2 DEF With
    <3> QED
      BY <3>1
  <2> QED
    BY <2>1, <2>2
<1>6. \A i \in 1 .. e : new.epochData[i] = atDb.epochData[i]
  BY <1>1, <1>2 DEF With
<1>7. new.epochData[e + 1] = d
  BY <1>1 DEF With
<1>8. \A i \in 0 .. e : ReplayOf(new)[i] = ReplayOf(atDb)[i]
  BY <1>3, <1>5, <1>6, SameReplay
<1>9. ReplayOf(new)[e + 1] = ReplayedInto(e + 1, ReplayOf(new)[e], d)
  BY <1>3, <1>7, ReplayGoes
<1>10. ReplayOf(new)[e + 1] = ReplayedInto(e + 1, ReplayOf(atDb)[e], d)
  BY <1>3, <1>8, <1>9
<1> QED
  BY <1>3, <1>8, <1>10 DEF e, new

-----------------------------------------------------------------------------
(* The execution thread *)

\* The cursor c has what is in the context r of a replay.
CursorShows(c, r) ==
    /\ c.params = r.params /\ c.version = r.version
    /\ c.balances = r.balances /\ ToSet(c.quorum) = r.quorum

\* The execution thread is where the batches take the genesis to.
Executing ==
    HasEt => /\ phase # "approvement" =>
                   etStore.db = ReplayOf(atDb)[et.epoch].store.db
             /\ CursorShows(et, ReplayOf(atDb)[et.epoch])

\* The inductive invariant for the execution thread.
ExecutingInv == ExecutionSees => Executing

\* The execution thread is where the replay is at first.
LEMMA ExecutingStarts == RotationInit => ExecutingInv
BY DEF RotationInit, ExecutingInv, Executing, HasEt

\* The execution thread is where the replay is when the genesis is made.
LEMMA ExecutingFounded ==
    ASSUME Course, NEW h, Founds(h)
    PROVE  Executing'
<1>1. /\ phase' = "approvement"
      /\ h = GenesisHandler(GenesisStore(atStore.db))
      /\ et' = Cursor(h, TotalStaked(GenesisDb), [a \in Staker |-> 0])
      /\ atDb' = [atDb EXCEPT !.snapshots =
                     With(atDb.snapshots, 0, Snapshot(h, h.params))]
  BY DEF Founds
<1>2. /\ h.epoch = 0 /\ h.params = Genesis.params
      /\ h.version = Genesis.version
  BY <1>1 DEF GenesisHandler
<1>3. /\ et'.epoch = 0 /\ et'.params = Genesis.params
      /\ et'.version = Genesis.version /\ et'.quorum = h.quorum
      /\ et'.balances = [a \in Staker |-> 0]
  BY <1>1, <1>2 DEF Cursor
<1>4. atDb'.snapshots = With(atDb.snapshots, 0, Snapshot(h, h.params))
  BY <1>1 DEF Course, Epochs
<1>5. atDb'.snapshots[0].quorum = h.quorum
  BY <1>4 DEF With, Snapshot
<1> DEFINE new == atDb'
           c == et'
           r == ReplayOf(new)[0]
<1> HIDE DEF new, c, r
<1>6. r = GenesisContext(h.quorum)
  BY <1>5, ReplayGoes DEF new, r
<1>7. /\ r.quorum = ToSet(h.quorum) /\ r.params = Genesis.params
      /\ r.version = Genesis.version /\ r.balances = [a \in Staker |-> 0]
  BY <1>6, GenesisReplayable
<1>8. CursorShows(c, r)
  BY <1>3, <1>7 DEF CursorShows, c
<1> QED
  BY <1>1, <1>3, <1>8 DEF Executing, c, r, new

\* The execution thread is where the replay is when the genesis is written to
\* STATE.
LEMMA ExecutingWritten ==
    ASSUME Course, Accounted, WriteGenesisOfState, Executing
    PROVE  Executing'
<1>1. /\ phase = "approvement" /\ phase' = "state" /\ UNCHANGED <<et, atDb>>
      /\ etStore' = [etStore EXCEPT !.db = GenesisDb]
  BY DEF WriteGenesisOfState, atVars
<1>2. et.epoch = 0
  <2>1. ~atWritten
    BY <1>1 DEF Course, Lifecycle
  <2> QED
    BY <2>1 DEF Course, Epochs
<1>3. ReplayOf(atDb)[0].store.db = GenesisDb
  <2> DEFINE quorum == atDb.snapshots[0].quorum
             r == ReplayOf(atDb)[0]
  <2>1. r = GenesisContext(quorum)
    BY ReplayGoes
  <2> HIDE DEF r, quorum
  <2>2. r.store.db = GenesisDb
    BY <2>1, GenesisReplayable
  <2> QED
    BY <2>2 DEF r
<1>4. CursorShows(et, ReplayOf(atDb)[0])
  BY <1>1, <1>2 DEF Executing, HasEt
<1>5. etStore'.db = GenesisDb
  BY <1>1 DEF Accounted, Holding, StoreShape
<1>6. et' = et /\ atDb' = atDb /\ et'.epoch = 0
  BY <1>1, <1>2
<1>7. /\ etStore'.db = ReplayOf(atDb')[et'.epoch].store.db
      /\ CursorShows(et', ReplayOf(atDb')[et'.epoch])
  BY <1>3, <1>4, <1>5, <1>6
<1> QED
  BY <1>7 DEF Executing

\* The execution thread is where the replay is when the execution thread
\* follows.
LEMMA ExecutingEntered ==
    ASSUME Course, Course', ExecutionSees, Accounted, Executing,
           NEW d, NEW x, NEW c, Enters(d, x, c)
    PROVE  Executing'
<1> DEFINE y == ExecutionContext(et, etStore)
           e == et.epoch
           r == ReplayOf(atDb)[e]
           q == ExecuteBatch(r, d.delayed)
           s == ReplayOf(atDb)[e + 1]
<1>1. /\ phase = "up" /\ phase' \in {"up", "old"} /\ UNCHANGED atDb
      /\ e + 1 \in DOMAIN atDb.epochData /\ d = atDb.epochData[e + 1]
      /\ x = ExecuteBatch(y, d.delayed) /\ c = NextCursor(et, d, x)
      /\ et' = c /\ etStore' = x.store
  BY DEF Enters
<1>2. /\ e \in Nat /\ e \in 0 .. at.epoch /\ at.epoch \in Epoch
      /\ e + 1 \in 0 .. at.epoch /\ e \in Epoch /\ e + 1 \in Epoch
      /\ d.delayed \in Seq(DelayedTransaction) /\ Batched(atDb, at.epoch)
  <2>1. /\ Batched(atDb, at.epoch) /\ e + 1 \in 1 .. at.epoch
        /\ at.epoch \in 0 .. MaxEpoch /\ e \in Nat
    <3>1. /\ at.epoch \in 0 .. MaxEpoch /\ e \in 0 .. at.epoch
          /\ DOMAIN atDb.epochData = 1 .. at.epoch
      BY DEF Course, Epochs, Epoch
    <3>2. Batched(atDb, at.epoch)
      BY DEF Course, Epochs, Batched
    <3> HIDE DEF e
    <3> QED
      BY <1>1, <3>1, <3>2
  <2>2. d.delayed \in Seq(DelayedTransaction)
    BY <1>1, <2>1 DEF Batched
  <2> HIDE DEF e
  <2> QED
    BY <2>1, <2>2, RotationAssumption DEF Epoch
<1>3. /\ Replayable(r, e) /\ Replayable(s, e + 1)
      /\ s = ReplayedInto(e + 1, r, d)
  BY <1>1, <1>2, ReplaysReplayable, ReplayGoes
<1>4. Ready(y, d.delayed)
  BY AccountedEntered
<1>5. etStore.db = r.store.db /\ CursorShows(et, r)
  BY <1>1 DEF Executing, HasEt
<1>6. /\ y.thread = "execution" /\ y.store = etStore /\ y.params = et.params
      /\ y.version = et.version /\ y.epoch = e /\ y.quorum = ToSet(et.quorum)
      /\ y.balances = et.balances
  BY DEF ExecutionContext
<1> HIDE DEF y, e, r, s
<1>7. Ready(r, d.delayed) /\ r.thread = "execution" /\ r.epoch = e
  BY <1>2, <1>3, ReplayableReady DEF Replayable
<1>8. AlikeAccounts(y, r)
  BY <1>5, <1>6, <1>7 DEF AlikeAccounts, CursorShows
<1>9. /\ y.epoch = r.epoch /\ y.quorum = r.quorum /\ y.params = r.params
      /\ y.version = r.version /\ y.store.db = r.store.db
  BY <1>5, <1>6, <1>7 DEF CursorShows
<1>10. /\ x.params = q.params /\ x.version = q.version
       /\ x.store.db = q.store.db /\ AlikeAccounts(x, q)
  <2> HIDE DEF q
  <2>1. q = ExecuteBatch(r, d.delayed)
    BY DEF q
  <2> QED
    BY <1>1, <1>4, <1>7, <1>8, <1>9, <2>1, AlikeBatch
<1>11. /\ s.quorum = ToSet(d.quorum) /\ s.store.db = q.store.db
       /\ s.params = q.params /\ s.version = q.version
       /\ s.balances = q.balances
  BY <1>2, <1>3, ReplayedFacts
<1>12. /\ c.epoch = e + 1 /\ c.params = x.params /\ c.version = x.version
       /\ c.balances = x.balances /\ c.quorum = d.quorum
  BY <1>1 DEF NextCursor, e
<1> HIDE DEF q
<1>13. CursorShows(c, s) /\ x.store.db = s.store.db
  BY <1>10, <1>11, <1>12 DEF CursorShows, AlikeAccounts
<1>14. CursorShows(et', ReplayOf(atDb')[et'.epoch])
       /\ etStore'.db = ReplayOf(atDb')[et'.epoch].store.db
  BY <1>1, <1>12, <1>13 DEF s
<1> QED
  BY <1>14 DEF Executing

\* The execution thread is where the replay is after every step.
LEMMA ExecutingStep ==
    ASSUME Course, Course', FirstQuorum, [RotationNext]_rotationVars,
           AccountedInv, ExecutingInv
    PROVE  ExecutingInv'
<1> SUFFICES ASSUME ExecutionSees' PROVE Executing'
  BY DEF ExecutingInv
<1>1. ExecutionSees /\ Accounted /\ Executing
  BY SeesBefore DEF AccountedInv, ExecutingInv
<1>2. ASSUME NEW txs, NEW x, NEW n, Rotates(txs, x, n) PROVE Executing'
  <2>1. UNCHANGED <<et, etStore>> /\ HasEt /\ phase = "up"
    BY <1>2 DEF Rotates, ExecutionSees, HasEt
  <2>2. et.epoch \in 0 .. at.epoch
    BY DEF Course, Epochs
  <2>3. ReplayOf(atDb')[et.epoch] = ReplayOf(atDb)[et.epoch]
    BY <1>2, <2>2, ReplayKept
  <2>4. /\ etStore.db = ReplayOf(atDb)[et.epoch].store.db
        /\ CursorShows(et, ReplayOf(atDb)[et.epoch])
    BY <1>1, <2>1 DEF Executing
  <2>5. /\ etStore'.db = ReplayOf(atDb')[et'.epoch].store.db
        /\ CursorShows(et', ReplayOf(atDb')[et'.epoch])
    BY <2>1, <2>3, <2>4
  <2> QED
    BY <2>5 DEF Executing
<1>3. CASE Loses
  <2>1. /\ phase' = "down" /\ UNCHANGED <<atDb, etWritten>>
        /\ etStore' = OpenStore(etStore.db, world.cap)
        /\ et' = IF etWritten THEN et ELSE NothingYet
    BY <1>3 DEF Loses, LoseCaches
  <2>2. etStore'.db = etStore.db
    BY <2>1 DEF OpenStore
  <2>3. etWritten => phase # "approvement"
    BY DEF Course, Lifecycle
  <2> QED
    BY <1>1, <2>1, <2>2, <2>3 DEF Executing, HasEt
<1>4. CASE StartNode
  <2>1. /\ etWritten /\ phase = "down" /\ UNCHANGED <<atDb, etStore>>
        /\ et' = Backfilled(et, etStore.db)
    BY <1>4 DEF StartNode, atVars
  <2>2. DOMAIN et = CursorFields
    BY <2>1 DEF Course, Epochs, HasEt
  <2>3. /\ et'.epoch = et.epoch /\ et'.params = et.params
        /\ et'.version = et.version /\ et'.balances = et.balances
        /\ et'.quorum = et.quorum
    BY <2>1, <2>2 DEF Backfilled, CursorFields
  <2>4. /\ etStore.db = ReplayOf(atDb)[et.epoch].store.db
        /\ CursorShows(et, ReplayOf(atDb)[et.epoch])
    BY <1>1, <2>1 DEF Executing, HasEt
  <2>5. CursorShows(et', ReplayOf(atDb)[et.epoch])
    BY <2>3, <2>4 DEF CursorShows
  <2> QED
    BY <2>1, <2>3, <2>4, <2>5 DEF Executing
<1>5. CASE \/ WriteHandler \/ FinishEpoch \/ FindFirstBlock \/ StartFetch
           \/ EndFetch \/ UNCHANGED rotationVars
  <2>1. UNCHANGED <<et, etStore, etWritten, atDb>>
    BY <1>5 DEF WriteHandler, FinishEpoch, FindFirstBlock, StartFetch, EndFetch,
                etVars, rotationVars
  <2>2. phase' = phase \/ phase = "state"
    BY <1>5 DEF WriteHandler, FinishEpoch, FindFirstBlock, StartFetch, EndFetch,
                rotationVars
  <2> QED
    BY <1>1, <2>1, <2>2 DEF Executing, HasEt
<1>6. ASSUME NEW h, Founds(h) PROVE Executing'
  BY <1>6, ExecutingFounded
<1>7. CASE WriteGenesisOfState
  BY <1>1, <1>7, ExecutingWritten
<1>8. ASSUME NEW d, NEW x, NEW c, Enters(d, x, c) PROVE Executing'
  BY <1>1, <1>8, ExecutingEntered
<1> QED
  BY <1>2, <1>3, <1>4, <1>5, <1>6, <1>7, <1>8, StepGroups

\* What the execution thread has after any epochs and stops is what the batches
\* make of the genesis, for a cache that holds all, and for any cache as long
\* as no batch creates a validator twice.
THEOREM ExecutionReplays == RotationSpec => []ExecutionIsReplay
<1>1. Course /\ Course' /\ FirstQuorum /\ AccountedInv /\ ExecutingInv
        /\ [RotationNext]_rotationVars => ExecutingInv'
  BY ExecutingStep
<1>2. Course /\ AccountedInv /\ [RotationNext]_rotationVars => AccountedInv'
  BY AccountedStep
<1>3. ASSUME AccountedInv, ExecutingInv PROVE ExecutionIsReplay
  <2> SUFFICES ASSUME phase = "up", ExecutionSees
               PROVE  ExecutionShows(ReplayOf(atDb)[et.epoch])
    BY DEF ExecutionIsReplay, ExecutionSees, StoresAreApart
  <2>1. Settled(etStore) /\ Executing
    BY <1>3 DEF AccountedInv, ExecutingInv, Accounted
  <2>2. View(etStore) = etStore.db
    BY <2>1, SettledFacts
  <2> QED
    BY <2>1, <2>2 DEF Executing, HasEt, CursorShows, ExecutionShows
<1> QED
  BY CourseHolds, FirstQuorumHolds, AccountedStarts, ExecutingStarts,
     <1>1, <1>2, <1>3, PTL DEF RotationSpec

-----------------------------------------------------------------------------
(* The approvement thread *)

\* The handler h has what is in the context r of a replay, and its leaders are
\* drawn from that.
HandlerShows(h, r) ==
    /\ h.params = r.params /\ h.version = r.version
    /\ h.registry = r.registry /\ ToSet(h.quorum) = r.quorum
    /\ h.leaders = GetLeadersSequence(r.store.db, r.registry,
                                      world.draw[h.epoch])

\* The approvement thread is where the batches take the genesis to.
Approving ==
    HasAt => /\ atStore.db = ReplayOf(atDb)[at.epoch].store.db
             /\ HandlerShows(at, ReplayOf(atDb)[at.epoch])

\* The inductive invariant for the approvement thread.
ApprovingInv == ApprovementSees => Approving

\* The approvement thread is where the replay is at first.
LEMMA ApprovingStarts == RotationInit => ApprovingInv
BY DEF RotationInit, ApprovingInv, Approving, HasAt

\* The approvement thread is where the replay is when the genesis is made.
LEMMA ApprovingFounded ==
    ASSUME Course, ApprovementSees, Faithful, NEW h, Founds(h)
    PROVE  Approving'
<1>1. /\ ~atWritten /\ world \in Worlds /\ at' = h /\ world' = world
      /\ h = GenesisHandler(GenesisStore(atStore.db))
      /\ atStore' = [ReadAllWithoutLock(GenesisStore(atStore.db),
                                        GenesisRegistry \o GenesisRegistry)
                         EXCEPT !.db = GenesisDb]
      /\ atDb' = [atDb EXCEPT !.snapshots =
                     With(atDb.snapshots, 0, Snapshot(h, h.params))]
  BY DEF Founds, Course, Lifecycle
<1>2. atStore.db \in {NoDb, GenesisDb}
  BY <1>1 DEF Faithful
<1>3. atStore'.db = GenesisDb
  BY <1>1, <1>2, GenesisSettles
<1>4. View(GenesisStore(atStore.db)) = GenesisDb
  BY <1>1, <1>2, GenesisStoreFacts DEF ApprovementSees, CacheHoldsAll
<1>5. /\ h.epoch = 0 /\ h.params = Genesis.params
      /\ h.version = Genesis.version /\ h.registry = GenesisRegistry
      /\ h.leaders = GetLeadersSequence(GenesisDb, GenesisRegistry, world.draw[0])
  BY <1>1, <1>4 DEF GenesisHandler
<1>6. atDb'.snapshots = With(atDb.snapshots, 0, Snapshot(h, h.params))
  BY <1>1 DEF Course, Epochs
<1>7. atDb'.snapshots[0].quorum = h.quorum
  BY <1>6 DEF With, Snapshot
<1> DEFINE new == atDb'
           r == ReplayOf(new)[0]
<1> HIDE DEF new, r
<1>8. r = GenesisContext(h.quorum)
  BY <1>7, ReplayGoes DEF new, r
<1>9. /\ r.quorum = ToSet(h.quorum) /\ r.params = Genesis.params
      /\ r.version = Genesis.version /\ r.registry = GenesisRegistry
      /\ r.store.db = GenesisDb
  BY <1>8, GenesisReplayable
<1>12. /\ atStore'.db = ReplayOf(atDb')[at'.epoch].store.db
       /\ at'.params = ReplayOf(atDb')[at'.epoch].params
       /\ at'.version = ReplayOf(atDb')[at'.epoch].version
       /\ at'.registry = ReplayOf(atDb')[at'.epoch].registry
       /\ ToSet(at'.quorum) = ReplayOf(atDb')[at'.epoch].quorum
       /\ at'.leaders = GetLeadersSequence(
                            ReplayOf(atDb')[at'.epoch].store.db,
                            ReplayOf(atDb')[at'.epoch].registry,
                            world'.draw[at'.epoch])
  BY <1>1, <1>3, <1>5, <1>9 DEF r, new
<1> QED
  BY <1>12 DEF Approving, HandlerShows

\* The approvement thread is where the replay is when the approvement thread
\* rotates.
LEMMA ApprovingRotated ==
    ASSUME Course, FirstQuorum, ApprovementSees, Faithful, Approving,
           NEW txs, NEW x, NEW n, Rotates(txs, x, n)
    PROVE  Approving'
<1> DEFINE y == ApprovementContext(at, atStore)
           e == at.epoch
           r == ReplayOf(atDb)[e]
           q == ExecuteBatch(r, txs)
           d == NextEpochDataHandler(n, txs)
           s == ReplayOf(atDb')[e + 1]
<1>1. /\ phase = "up" /\ world' = world
      /\ txs \in Seq(DelayedTransaction) /\ x = ExecuteBatch(y, txs)
      /\ n = NextHandler(at, x) /\ at' = n
  BY DEF Rotates
<1>2. /\ e \in 0 .. e /\ e \in Epoch /\ Batched(atDb, e)
  BY <1>1, RotationAssumption DEF Course, Epochs, Epoch, Batched
<1>3. Replayable(r, e) /\ s = ReplayedInto(e + 1, r, d)
  BY <1>2, ReplaysReplayable, ReplayKept
<1>4. Ready(y, txs)
  BY RotationReady
<1>5. atStore.db = r.store.db /\ HandlerShows(at, r)
  BY <1>1 DEF Approving, HasAt
<1>6. /\ y.store = atStore /\ y.params = at.params /\ y.version = at.version
      /\ y.epoch = e /\ y.quorum = ToSet(at.quorum) /\ y.registry = at.registry
  BY DEF ApprovementContext
<1>7. d.delayed = txs /\ d.quorum = n.quorum
  BY DEF NextEpochDataHandler
<1>8. /\ n.epoch = e + 1 /\ n.params = x.params /\ n.version = x.version
      /\ n.registry = x.registry
      /\ n.leaders = GetLeadersSequence(View(x.store), x.registry,
                                        world.draw[e + 1])
  BY <1>1 DEF NextHandler, e
<1>9. atStore'.db = x.store.db
  BY FaithfulRotated
<1> HIDE DEF y, e, r, s, d
<1>10. Ready(r, txs) /\ r.epoch = e
  BY <1>1, <1>3, ReplayableReady DEF Replayable
<1>11. AlikeRegistry(y, r)
  BY <1>5, <1>6 DEF AlikeRegistry, HandlerShows
<1>12. /\ y.epoch = r.epoch /\ y.quorum = r.quorum /\ y.params = r.params
       /\ y.version = r.version /\ y.store.db = r.store.db
  BY <1>5, <1>6, <1>10 DEF HandlerShows
<1>13. /\ x.params = q.params /\ x.version = q.version
       /\ x.store.db = q.store.db /\ AlikeRegistry(x, q)
  <2> HIDE DEF q
  <2>1. q = ExecuteBatch(r, txs)
    BY DEF q
  <2> QED
    BY <1>1, <1>4, <1>10, <1>11, <1>12, <2>1, AlikeBatch
<1>14. /\ s.quorum = ToSet(d.quorum) /\ s.store.db = q.store.db
       /\ s.params = q.params /\ s.version = q.version
       /\ s.registry = q.registry
  BY <1>1, <1>3, <1>7, ReplayedFacts
<1>15. View(x.store) = x.store.db
  BY <1>1, <1>4, BatchStore, SettledFacts
<1> HIDE DEF q
<1>16. /\ atStore'.db = s.store.db /\ n.params = s.params
       /\ n.version = s.version /\ n.registry = s.registry
       /\ ToSet(n.quorum) = s.quorum
       /\ n.leaders = GetLeadersSequence(s.store.db, s.registry,
                                         world.draw[n.epoch])
  BY <1>7, <1>8, <1>9, <1>13, <1>14, <1>15 DEF AlikeRegistry
<1>17. ReplayOf(atDb')[at'.epoch] = s
  BY <1>1, <1>8 DEF s
<1> QED
  BY <1>1, <1>16, <1>17 DEF Approving, HandlerShows

\* The approvement thread is where the replay is when it does not move.
LEMMA ApprovingKept ==
    ASSUME UNCHANGED <<world, at, atDb>>, atStore'.db = atStore.db,
           HasAt' => HasAt, Approving
    PROVE  Approving'
BY DEF Approving, HandlerShows

\* The approvement thread is where the replay is after every step.
LEMMA ApprovingStep ==
    ASSUME Course, FirstQuorum, [RotationNext]_rotationVars,
           FaithfulInv, ApprovingInv
    PROVE  ApprovingInv'
<1> SUFFICES ASSUME ApprovementSees' PROVE Approving'
  BY DEF ApprovingInv
<1>1. ApprovementSees /\ Faithful /\ Approving
  BY ApprovementSeesBefore DEF FaithfulInv, ApprovingInv
<1>2. ASSUME NEW d, NEW x, NEW c, Enters(d, x, c) PROVE Approving'
  <2>1. UNCHANGED <<world, at, atDb, atStore>> /\ phase = "up"
    BY <1>2 DEF Enters, ApprovementSees
  <2> QED
    BY <1>1, <2>1, ApprovingKept DEF HasAt
<1>3. CASE \/ WriteGenesisOfState \/ WriteHandler \/ StartNode
           \/ FinishEpoch \/ FindFirstBlock \/ StartFetch
  <2>1. UNCHANGED <<world, at, atDb, atStore>> /\ HasAt
    BY <1>3 DEF WriteGenesisOfState, WriteHandler, StartNode, FinishEpoch,
                FindFirstBlock, StartFetch, atVars, HasAt
  <2> QED
    BY <1>1, <2>1, ApprovingKept
<1>4. CASE EndFetch
  <2>1. UNCHANGED <<world, at, atDb>> /\ phase = "up"
    BY <1>4 DEF EndFetch
  <2>2. atStore'.db = atStore.db
    BY <1>1, <1>4, FaithfulFetched
  <2> QED
    BY <1>1, <2>1, <2>2, ApprovingKept DEF HasAt
<1>5. CASE UNCHANGED rotationVars
  <2>1. UNCHANGED <<world, at, atDb, atStore, atWritten, phase>>
    BY <1>5 DEF rotationVars
  <2> QED
    BY <1>1, <2>1, ApprovingKept DEF HasAt
<1>6. CASE Loses
  <2>1. /\ phase # "down" /\ phase' = "down"
        /\ UNCHANGED <<world, atDb, atWritten>>
        /\ atStore' = OpenStore(atStore.db, world.cap)
        /\ at' = IF atWritten THEN at ELSE NothingYet
    BY <1>6 DEF Loses, LoseCaches
  <2>2. atStore'.db = atStore.db
    BY <2>1 DEF OpenStore
  <2>3. CASE atWritten
    BY <1>1, <2>1, <2>2, <2>3, ApprovingKept DEF HasAt
  <2>4. CASE ~atWritten
    BY <2>1, <2>4 DEF Approving, HasAt
  <2> QED
    BY <2>3, <2>4
<1> QED
  BY <1>1, <1>2, <1>3, <1>4, <1>5, <1>6, StepGroups, ApprovingFounded,
     ApprovingRotated

\* What the approvement thread sees after any rotations, reads and stops is
\* what the batches make of the genesis, when its cache holds all; its quorum
\* and its leaders are those of the replay.
THEOREM ApprovementReplays == RotationSpec => []ApprovementIsReplay
<1>1. Course /\ FirstQuorum /\ FaithfulInv /\ ApprovingInv
        /\ [RotationNext]_rotationVars => ApprovingInv'
  BY ApprovingStep
<1>2. ASSUME FaithfulInv, ApprovingInv PROVE ApprovementIsReplay
  <2> SUFFICES ASSUME phase \in {"up", "old"}, ApprovementSees
               PROVE  ApprovementShows(ReplayOf(atDb)[at.epoch])
    BY DEF ApprovementIsReplay, ApprovementSees, StoresAreApart
  <2>1. Settled(atStore) /\ Approving
    BY <1>2 DEF FaithfulInv, ApprovingInv, Faithful
  <2>2. View(atStore) = atStore.db
    BY <2>1, SettledFacts
  <2> QED
    BY <2>1, <2>2 DEF Approving, HasAt, HandlerShows, ApprovementShows
<1> QED
  BY FaithfulHolds, FirstQuorumHolds, ApprovingStarts, <1>1, <1>2, PTL
     DEF RotationSpec

-----------------------------------------------------------------------------
(* Recursive functions, powers of two and lowest bits *)

\* Induction over the naturals with everything below.
LEMMA CountingBelow ==
    ASSUME NEW G, \A n \in Nat : (\A m \in Nat : m < n => m \in G) => n \in G
    PROVE  \A n \in Nat : n \in G
<1> DEFINE H == {n \in Nat : \A m \in Nat : m <= n => m \in G}
<1>1. 0 \in H
  OBVIOUS
<1>2. ASSUME NEW n \in Nat, n \in H PROVE n + 1 \in H
  <2>1. n + 1 \in G
    BY <1>2
  <2> QED
    BY <1>2, <2>1
<1>3. \A n \in Nat : n \in H
  <2> HIDE DEF H
  <2> QED
    BY <1>1, <1>2, Counting
<1> QED
  BY <1>3

\* d goes down, and F has values in V.
Descends(d) == \A n \in Nat \ {0} : d[n] \in Nat /\ d[n] < n

\* The equation for the values up to n.
Upwards(g, n, V, base, d, F) ==
    /\ g \in [0 .. n -> V] /\ g[0] = base
    /\ \A m \in 1 .. n : g[m] = F[m][g[d[m]]]

\* A function on the naturals, defined by recursion.
LEMMA RecursionBelow ==
    ASSUME NEW V, NEW base \in V, NEW d, Descends(d),
           NEW F, StepsIn(F, Nat, V)
    PROVE  \E h \in [Nat -> V] :
              /\ h[0] = base
              /\ \A n \in Nat \ {0} : h[n] = F[n][h[d[n]]]
<1> USE DEF Descends, StepsIn
<1> DEFINE Up(g, n) == Upwards(g, n, V, base, d, F)
           G == {n \in Nat : \E g : Up(g, n)}
<1>1. 0 \in G
  <2> DEFINE g == [m \in 0 .. 0 |-> base]
  <2>1. Up(g, 0)
    BY DEF Upwards
  <2> QED
    BY <2>1
<1>2. ASSUME NEW n \in Nat, n \in G PROVE n + 1 \in G
  <2>1. PICK g : Up(g, n)
    BY <1>2
  <2> DEFINE v == F[n + 1][g[d[n + 1]]]
             k == [m \in 0 .. n + 1 |-> IF m = n + 1 THEN v ELSE g[m]]
  <2>2. d[n + 1] \in 0 .. n /\ n + 1 \in Nat
    OBVIOUS
  <2>3. v \in V
    BY <2>1, <2>2 DEF Upwards
  <2> HIDE DEF v
  <2>4. k \in [0 .. n + 1 -> V] /\ k[0] = base
    BY <2>1, <2>3 DEF Upwards
  <2>5. ASSUME NEW m \in 1 .. n + 1 PROVE k[m] = F[m][k[d[m]]]
    <3>1. d[m] \in 0 .. n /\ k[d[m]] = g[d[m]]
      OBVIOUS
    <3>2. CASE m = n + 1
      <4>1. k[m] = v
        BY <3>2
      <4> HIDE DEF k
      <4> QED
        BY <3>1, <3>2, <4>1 DEF v
    <3>3. CASE m # n + 1
      <4>1. m \in 1 .. n /\ k[m] = g[m]
        BY <3>3
      <4> HIDE DEF k
      <4> QED
        BY <2>1, <3>1, <4>1 DEF Upwards
    <3> QED
      BY <3>2, <3>3
  <2>6. Up(k, n + 1)
    <3> HIDE DEF k
    <3> QED
      BY <2>4, <2>5 DEF Upwards
  <2> QED
    BY <2>6
<1>3. \A n \in Nat : \E g : Up(g, n)
  <2>1. \A n \in Nat : n \in G
    <3> HIDE DEF G
    <3> QED
      BY <1>1, <1>2, Counting
  <2> QED
    BY <2>1
<1> DEFINE a == [n \in Nat |-> CHOOSE g : Up(g, n)]
           h == [n \in Nat |-> a[n][n]]
<1>4. \A n \in Nat : Up(a[n], n)
  <2> HIDE DEF Up
  <2> QED
    BY <1>3
<1> HIDE DEF a
<1>5. ASSUME NEW n \in Nat PROVE \A m \in Nat : m <= n => a[n][m] = h[m]
  <2>1. ASSUME NEW m \in Nat,
               \A l \in Nat : l < m => \A j \in Nat : j >= l => a[j][l] = a[l][l]
        PROVE  \A j \in Nat : j >= m => a[j][m] = a[m][m]
    <3> SUFFICES ASSUME NEW j \in Nat, j >= m PROVE a[j][m] = a[m][m]
      OBVIOUS
    <3>1. Up(a[j], j) /\ Up(a[m], m)
      BY <1>4
    <3>2. CASE m = 0
      BY <3>1, <3>2 DEF Upwards
    <3>3. CASE m # 0
      <4>1. d[m] \in Nat /\ d[m] < m /\ m \in 1 .. j /\ m \in 1 .. m
        BY <3>3
      <4>2. a[j][d[m]] = a[d[m]][d[m]] /\ a[m][d[m]] = a[d[m]][d[m]]
        BY <2>1, <4>1
      <4> QED
        BY <3>1, <4>1, <4>2 DEF Upwards
    <3> QED
      BY <3>2, <3>3
  <2> DEFINE T == {m \in Nat : \A j \in Nat : j >= m => a[j][m] = a[m][m]}
  <2>2. \A m \in Nat : m \in T
    <3>1. ASSUME NEW m \in Nat, \A l \in Nat : l < m => l \in T PROVE m \in T
      BY <2>1, <3>1
    <3> HIDE DEF T
    <3> QED
      BY <3>1, CountingBelow
  <2> QED
    BY <2>2
<1>6. h \in [Nat -> V]
  <2>1. \A n \in Nat : a[n][n] \in V
    BY <1>4 DEF Upwards
  <2> QED
    BY <2>1
<1>7. h[0] = base
  BY <1>4 DEF Upwards
<1>8. ASSUME NEW n \in Nat \ {0} PROVE h[n] = F[n][h[d[n]]]
  <2>1. h[n] = a[n][n] /\ Up(a[n], n) /\ n \in 1 .. n
    BY <1>4
  <2>2. d[n] \in Nat /\ d[n] <= n
    OBVIOUS
  <2>3. a[n][d[n]] = h[d[n]]
    <3> HIDE DEF h
    <3> QED
      BY <1>5, <2>2
  <2> HIDE DEF h
  <2> QED
    BY <2>1, <2>3 DEF Upwards
<1> HIDE DEF h
<1> QED
  BY <1>6, <1>7, <1>8

\* The positions of the tree.
Positive == Nat \ {0}

\* Twice as much for each power of two.
LEMMA Powers ==
    /\ PowerOfTwo[0] = 1
    /\ \A k \in Nat : /\ PowerOfTwo[k] \in Positive
                      /\ PowerOfTwo[k + 1] = 2 * PowerOfTwo[k]
<1> DEFINE F == [n \in Nat |-> [v \in Positive |-> 2 * v]]
           d == [n \in Nat |-> n - 1]
           Def(p) == [k \in Nat |-> IF k = 0 THEN 1 ELSE 2 * p[k - 1]]
<1>1. PICK h \in [Nat -> Positive] :
         h[0] = 1 /\ \A n \in Nat \ {0} : h[n] = F[n][h[d[n]]]
  <2>1. StepsIn(F, Nat, Positive)
    BY DEF StepsIn, Positive
  <2>2. Descends(d)
    BY DEF Descends
  <2>3. 1 \in Positive
    BY DEF Positive
  <2> HIDE DEF F, d
  <2> QED
    BY <2>1, <2>2, <2>3, RecursionBelow
<1>2. h = Def(h)
  <2>1. \A k \in Nat : h[k] = IF k = 0 THEN 1 ELSE 2 * h[k - 1]
    <3> SUFFICES ASSUME NEW k \in Nat, k # 0 PROVE h[k] = 2 * h[k - 1]
      BY <1>1
    <3>1. h[k] = F[k][h[k - 1]] /\ h[k - 1] \in Positive
      BY <1>1
    <3> QED
      BY <3>1
  <2> QED
    BY <1>1, <2>1
<1>3. PowerOfTwo = Def(PowerOfTwo)
  <2>1. \E p : p = Def(p)
    BY <1>2
  <2> QED
    BY <2>1 DEF PowerOfTwo
<1> HIDE DEF F, d
<1>4. \A k \in Nat : PowerOfTwo[k] = IF k = 0 THEN 1 ELSE 2 * PowerOfTwo[k - 1]
  BY <1>3
<1> DEFINE G == {k \in Nat : PowerOfTwo[k] \in Positive}
<1>5. 0 \in G
  BY <1>4 DEF Positive
<1>6. ASSUME NEW k \in Nat, k \in G PROVE k + 1 \in G
  BY <1>4, <1>6 DEF Positive
<1>7. \A k \in Nat : k \in G
  <2> HIDE DEF G
  <2> QED
    BY <1>5, <1>6, Counting
<1>8. \A k \in Nat : PowerOfTwo[k + 1] = 2 * PowerOfTwo[k]
  BY <1>4
<1> QED
  BY <1>4, <1>7, <1>8

\* The lowest bit of odd and of even numbers.
LEMMA LowBits ==
    /\ \A n \in Positive : LowBit[n] \in 1 .. n
    /\ \A m \in Nat : LowBit[2 * m + 1] = 1
    /\ \A m \in Positive : LowBit[2 * m] = 2 * LowBit[m]
<1> DEFINE F == [n \in Nat |-> [v \in Positive |->
                    IF n % 2 = 1 THEN 1 ELSE 2 * v]]
           d == [n \in Nat |-> n \div 2]
           Def(l) == [n \in Positive |->
                         IF n % 2 = 1 THEN 1 ELSE 2 * l[n \div 2]]
<1>1. PICK h \in [Nat -> Positive] :
         h[0] = 1 /\ \A n \in Nat \ {0} : h[n] = F[n][h[d[n]]]
  <2>1. StepsIn(F, Nat, Positive)
    BY DEF StepsIn, Positive
  <2>2. Descends(d)
    BY DEF Descends
  <2>3. 1 \in Positive
    BY DEF Positive
  <2> HIDE DEF F, d
  <2> QED
    BY <2>1, <2>2, <2>3, RecursionBelow
<1> DEFINE k == [n \in Positive |-> h[n]]
<1>2. k = Def(k)
  <2>1. \A n \in Positive : k[n] = IF n % 2 = 1 THEN 1 ELSE 2 * k[n \div 2]
    <3> SUFFICES ASSUME NEW n \in Positive
                 PROVE  k[n] = IF n % 2 = 1 THEN 1 ELSE 2 * k[n \div 2]
      OBVIOUS
    <3>1. h[n] = F[n][h[n \div 2]] /\ h[n \div 2] \in Positive
      BY <1>1 DEF Positive
    <3>2. n % 2 # 1 => n \div 2 \in Positive
      BY DEF Positive
    <3> QED
      BY <3>1, <3>2 DEF Positive
  <2> HIDE DEF F, d
  <2> QED
    BY <2>1
<1>3. LowBit = Def(LowBit)
  <2>1. \E l : l = Def(l)
    <3> HIDE DEF k
    <3> QED
      BY <1>2
  <2> QED
    BY <2>1 DEF LowBit, Positive
<1> HIDE DEF F, d, k
<1>4. \A n \in Positive : LowBit[n] = IF n % 2 = 1 THEN 1 ELSE 2 * LowBit[n \div 2]
  BY <1>3
<1>5. \A m \in Nat : LowBit[2 * m + 1] = 1
  <2> SUFFICES ASSUME NEW m \in Nat PROVE LowBit[2 * m + 1] = 1
    OBVIOUS
  <2>1. 2 * m + 1 \in Positive /\ (2 * m + 1) % 2 = 1
    BY DEF Positive
  <2> QED
    BY <1>4, <2>1
<1>6. \A m \in Positive : LowBit[2 * m] = 2 * LowBit[m]
  <2> SUFFICES ASSUME NEW m \in Positive PROVE LowBit[2 * m] = 2 * LowBit[m]
    OBVIOUS
  <2>1. 2 * m \in Positive /\ (2 * m) % 2 = 0 /\ (2 * m) \div 2 = m
    BY DEF Positive
  <2> QED
    BY <1>4, <2>1
<1> DEFINE G == {n \in Nat : n # 0 => LowBit[n] \in 1 .. n}
<1>7. ASSUME NEW n \in Nat, \A m \in Nat : m < n => m \in G PROVE n \in G
  <2> SUFFICES ASSUME n # 0 PROVE LowBit[n] \in 1 .. n
    OBVIOUS
  <2>1. PICK m \in Nat : n = 2 * m + 1 \/ (n = 2 * m /\ m # 0)
    <3>1. n = 2 * (n \div 2) + 1 \/ (n = 2 * (n \div 2) /\ n \div 2 # 0)
      OBVIOUS
    <3>2. n \div 2 \in Nat
      OBVIOUS
    <3> QED
      BY <3>1, <3>2
  <2>2. CASE n = 2 * m + 1
    BY <1>5, <2>1, <2>2
  <2>3. CASE n = 2 * m /\ m # 0
    <3>1. LowBit[m] \in 1 .. m
      BY <1>7, <2>1, <2>3
    <3>2. LowBit[n] = 2 * LowBit[m]
      BY <1>6, <2>3 DEF Positive
    <3> QED
      BY <2>3, <3>1, <3>2
  <2> QED
    BY <2>1, <2>2, <2>3
<1>8. \A n \in Nat : n \in G
  <2> HIDE DEF G
  <2> QED
    BY <1>7, CountingBelow
<1> QED
  BY <1>5, <1>6, <1>8 DEF Positive

-----------------------------------------------------------------------------
(* The nodes of a Fenwick tree *)

\* A node has the stakes from behind NodeStart(i) up to i; its parent is next.
NodeStart(i) == i - LowBit[i]
Parent(i) == i + LowBit[i]

\* Where a node starts and what its parent is, by halves.
LEMMA Nodes ==
    /\ \A i \in Positive : /\ NodeStart(i) \in 0 .. i - 1
                           /\ Parent(i) \in i + 1 .. 2 * i
    /\ \A m \in Nat : NodeStart(2 * m + 1) = 2 * m /\ Parent(2 * m + 1) = 2 * m + 2
    /\ \A m \in Positive : /\ NodeStart(2 * m) = 2 * NodeStart(m)
                           /\ Parent(2 * m) = 2 * Parent(m)
<1>1. \A i \in Positive : LowBit[i] \in 1 .. i /\ i \in Int
  BY LowBits DEF Positive
<1>2. \A m \in Nat : NodeStart(2 * m + 1) = 2 * m /\ Parent(2 * m + 1) = 2 * m + 2
  BY LowBits DEF NodeStart, Parent
<1>3. ASSUME NEW m \in Positive
      PROVE  NodeStart(2 * m) = 2 * NodeStart(m) /\ Parent(2 * m) = 2 * Parent(m)
  BY LowBits, <1>1 DEF NodeStart, Parent
<1>4. ASSUME NEW i \in Positive
      PROVE  NodeStart(i) \in 0 .. i - 1 /\ Parent(i) \in i + 1 .. 2 * i
  BY <1>1 DEF NodeStart, Parent
<1> QED
  BY <1>2, <1>3, <1>4

\* Odd and even numbers.
LEMMA Halves ==
    ASSUME NEW n \in Positive
    PROVE  \E m \in Nat : /\ m < n
                          /\ n = 2 * m + 1 \/ (n = 2 * m /\ m \in Positive)
<1>1. /\ n \div 2 \in Nat /\ n \div 2 < n
      /\ n = 2 * (n \div 2) + 1 \/ (n = 2 * (n \div 2) /\ n \div 2 # 0)
  BY DEF Positive
<1> QED
  BY <1>1 DEF Positive

\* A node that starts within another one ends there.
LEMMA Nested ==
    \A i, a \in Positive : (a < i /\ NodeStart(i) < a) => Parent(a) <= i
<1> DEFINE G == {i \in Nat : \A a \in Positive :
                    (i # 0 /\ a < i /\ NodeStart(i) < a) => Parent(a) <= i}
<1>1. ASSUME NEW i \in Nat, \A j \in Nat : j < i => j \in G PROVE i \in G
  <2> SUFFICES ASSUME NEW a \in Positive, i # 0, a < i, NodeStart(i) < a
               PROVE  Parent(a) <= i
    OBVIOUS
  <2>1. PICK m \in Nat : m < i /\ (i = 2 * m + 1 \/ (i = 2 * m /\ m \in Positive))
    BY Halves DEF Positive
  <2>2. CASE i = 2 * m + 1
    BY <2>2, Nodes DEF Positive
  <2>3. CASE i = 2 * m /\ m \in Positive
    <3>1. PICK b \in Nat : a = 2 * b + 1 \/ (a = 2 * b /\ b \in Positive)
      BY Halves
    <3>2. CASE a = 2 * b + 1
      BY <2>3, <3>2, Nodes
    <3>3. CASE a = 2 * b /\ b \in Positive
      <4>1. NodeStart(i) = 2 * NodeStart(m) /\ Parent(a) = 2 * Parent(b)
            /\ NodeStart(m) \in Int /\ Parent(b) \in Int
        BY <2>3, <3>3, Nodes
      <4>2. b < m /\ NodeStart(m) < b
        BY <2>3, <3>3, <4>1
      <4>3. Parent(b) <= m
        BY <1>1, <2>1, <2>3, <3>3, <4>2 DEF Positive
      <4> QED
        BY <2>3, <4>1, <4>3
    <3> QED
      BY <3>1, <3>2, <3>3
  <2> QED
    BY <2>1, <2>2, <2>3
<1>2. \A i \in Nat : i \in G
  <2> HIDE DEF G
  <2> QED
    BY <1>1, CountingBelow
<1> QED
  BY <1>2 DEF Positive

\* A node that has the parent of a has a.
LEMMA Covering ==
    \A i, a \in Positive :
        (Parent(a) <= i /\ NodeStart(i) < Parent(a)) => NodeStart(i) < a
<1> DEFINE G == {i \in Nat : \A a \in Positive :
              (i # 0 /\ Parent(a) <= i /\ NodeStart(i) < Parent(a)) =>
                 NodeStart(i) < a}
<1>1. ASSUME NEW i \in Nat, \A j \in Nat : j < i => j \in G PROVE i \in G
  <2> SUFFICES ASSUME NEW a \in Positive, i # 0, Parent(a) <= i,
                      NodeStart(i) < Parent(a)
               PROVE  NodeStart(i) < a
    OBVIOUS
  <2>1. PICK m \in Nat : m < i /\ (i = 2 * m + 1 \/ (i = 2 * m /\ m \in Positive))
    BY Halves DEF Positive
  <2>2. PICK b \in Nat : a = 2 * b + 1 \/ (a = 2 * b /\ b \in Positive)
    BY Halves
  <2>3. \A k \in Positive : NodeStart(k) \in Int /\ Parent(k) \in Int
    BY Nodes
  <2>4. CASE i = 2 * m + 1 /\ a = 2 * b + 1
    BY <2>4, Nodes
  <2>5. CASE i = 2 * m + 1 /\ a = 2 * b /\ b \in Positive
    <3>1. NodeStart(i) = 2 * m /\ Parent(a) = 2 * Parent(b) /\ Parent(b) \in Int
      BY <2>3, <2>5, Nodes
    <3> QED
      BY <2>5, <3>1
  <2>6. CASE i = 2 * m /\ m \in Positive /\ a = 2 * b + 1
    <3>1. /\ NodeStart(i) = 2 * NodeStart(m) /\ NodeStart(m) \in Int
          /\ Parent(a) = 2 * b + 2
      BY <2>3, <2>6, Nodes
    <3> QED
      BY <2>6, <3>1
  <2>7. CASE i = 2 * m /\ m \in Positive /\ a = 2 * b /\ b \in Positive
    <3>1. NodeStart(i) = 2 * NodeStart(m) /\ Parent(a) = 2 * Parent(b)
          /\ NodeStart(m) \in Int /\ Parent(b) \in Int
      BY <2>3, <2>7, Nodes
    <3>2. Parent(b) <= m /\ NodeStart(m) < Parent(b)
      BY <2>7, <3>1
    <3>3. NodeStart(m) < b
      BY <1>1, <2>1, <2>7, <3>2 DEF Positive
    <3> QED
      BY <2>7, <3>1, <3>3
  <2> QED
    BY <2>1, <2>2, <2>4, <2>5, <2>6, <2>7
<1>2. \A i \in Nat : i \in G
  <2> HIDE DEF G
  <2> QED
    BY <1>1, CountingBelow
<1> QED
  BY <1>2 DEF Positive

\* The child before the child c of i, if c does not start where i starts.
LEMMA Siblings ==
    \A c \in Positive :
        \/ NodeStart(c) = NodeStart(Parent(c))
        \/ NodeStart(c) \in Positive /\ Parent(NodeStart(c)) = Parent(c)
<1> DEFINE Ok(c) == \/ NodeStart(c) = NodeStart(Parent(c))
                    \/ NodeStart(c) \in Positive /\ Parent(NodeStart(c)) = Parent(c)
           G == {c \in Nat : c # 0 => Ok(c)}
<1>1. ASSUME NEW c \in Nat, \A j \in Nat : j < c => j \in G PROVE c \in G
  <2> SUFFICES ASSUME c # 0 PROVE Ok(c)
    OBVIOUS
  <2>1. PICK m \in Nat : m < c /\ (c = 2 * m + 1 \/ (c = 2 * m /\ m \in Positive))
    BY Halves DEF Positive
  <2>2. CASE c = 2 * m + 1
    <3>1. NodeStart(c) = 2 * m /\ Parent(c) = 2 * (m + 1) /\ m + 1 \in Positive
      BY <2>2, Nodes DEF Positive
    <3>2. NodeStart(Parent(c)) = 2 * NodeStart(m + 1)
      BY <3>1, Nodes
    <3>3. PICK b \in Nat : m = 2 * b \/ m = 2 * b + 1
      <4>1. m = 0 \/ m \in Positive
        BY DEF Positive
      <4> QED
        BY <4>1, Halves
    <3>4. CASE m = 2 * b
      BY <3>1, <3>2, <3>4, Nodes
    <3>5. CASE m = 2 * b + 1
      <4>1. m \in Positive /\ Parent(m) = m + 1
        BY <3>5, Nodes DEF Positive
      <4>2. 2 * m \in Positive /\ Parent(2 * m) = 2 * (m + 1)
        BY <4>1, Nodes DEF Positive
      <4> QED
        BY <3>1, <4>2
    <3> QED
      BY <3>3, <3>4, <3>5
  <2>3. CASE c = 2 * m /\ m \in Positive
    <3>1. NodeStart(c) = 2 * NodeStart(m) /\ Parent(c) = 2 * Parent(m)
          /\ NodeStart(m) \in Nat /\ Parent(m) \in Positive
      BY <2>3, Nodes DEF Positive
    <3>2. NodeStart(Parent(c)) = 2 * NodeStart(Parent(m))
      BY <3>1, Nodes
    <3>3. Ok(m)
      BY <1>1, <2>1, <2>3 DEF Positive
    <3>4. CASE NodeStart(m) = NodeStart(Parent(m))
      BY <3>1, <3>2, <3>4
    <3>5. CASE NodeStart(m) \in Positive /\ Parent(NodeStart(m)) = Parent(m)
      <4>1. /\ NodeStart(c) \in Positive
            /\ Parent(NodeStart(c)) = 2 * Parent(NodeStart(m))
        <5>1. NodeStart(c) = 2 * NodeStart(m)
          BY <3>1
        <5>2. 2 * NodeStart(m) \in Positive
          BY <3>5 DEF Positive
        <5>3. Parent(2 * NodeStart(m)) = 2 * Parent(NodeStart(m))
          BY <3>5, Nodes
        <5> QED
          BY <5>1, <5>2, <5>3
      <4> QED
        BY <3>1, <3>5, <4>1
    <3> QED
      BY <3>3, <3>4, <3>5
  <2> QED
    BY <2>1, <2>2, <2>3
<1>2. \A c \in Nat : c \in G
  <2> HIDE DEF G
  <2> QED
    BY <1>1, CountingBelow
<1> QED
  BY <1>2 DEF Positive

\* Below a power of two whose multiples start at pos.
LEMMA LowBitOfSum ==
    \A k \in Nat : \A pos \in Nat :
        (pos = 0 \/ LowBit[pos] >= PowerOfTwo[k + 1]) =>
            LowBit[pos + PowerOfTwo[k]] = PowerOfTwo[k]
<1> DEFINE G == {k \in Nat : \A pos \in Nat :
                    (pos = 0 \/ LowBit[pos] >= PowerOfTwo[k + 1]) =>
                        LowBit[pos + PowerOfTwo[k]] = PowerOfTwo[k]}
<1>1. \A k \in Nat : PowerOfTwo[k] \in Positive /\ PowerOfTwo[k + 1] = 2 * PowerOfTwo[k]
  BY Powers
<1>2. ASSUME NEW k \in Nat, NEW pos \in Nat,
             pos = 0 \/ LowBit[pos] >= PowerOfTwo[k + 1]
      PROVE  \E m \in Nat : /\ m = 0 \/ LowBit[m] >= PowerOfTwo[k]
                            /\ pos = 2 * m
  <2>1. CASE pos = 0
    BY <2>1
  <2>2. CASE pos # 0
    <3>1. PICK m \in Nat : pos = 2 * m + 1 \/ (pos = 2 * m /\ m \in Positive)
      BY <2>2, Halves DEF Positive
    <3>2. pos # 2 * m + 1
      <4>1. PowerOfTwo[k + 1] \in Int /\ PowerOfTwo[k + 1] > 1
        <5>1. PowerOfTwo[k] \in Positive /\ PowerOfTwo[k + 1] = 2 * PowerOfTwo[k]
          BY <1>1
        <5> QED
          BY <5>1 DEF Positive
      <4>2. LowBit[2 * m + 1] = 1
        BY LowBits
      <4>3. LowBit[pos] >= PowerOfTwo[k + 1]
        BY <1>2, <2>2
      <4> QED
        BY <4>1, <4>2, <4>3
    <3>3. LowBit[pos] = 2 * LowBit[m] /\ LowBit[m] \in Int
      BY <3>1, <3>2, LowBits
    <3>4. LowBit[m] >= PowerOfTwo[k]
      BY <1>1, <1>2, <2>2, <3>3 DEF Positive
    <3> QED
      BY <3>1, <3>2, <3>4
  <2> QED
    BY <2>1, <2>2
<1>3. 0 \in G
  <2> SUFFICES ASSUME NEW pos \in Nat, pos = 0 \/ LowBit[pos] >= PowerOfTwo[0 + 1]
               PROVE  LowBit[pos + PowerOfTwo[0]] = PowerOfTwo[0]
    OBVIOUS
  <2>1. PICK m \in Nat : pos = 2 * m
    BY <1>2
  <2>2. LowBit[2 * m + 1] = 1
    BY LowBits
  <2> QED
    BY <2>1, <2>2, Powers
<1>4. ASSUME NEW k \in Nat, k \in G PROVE k + 1 \in G
  <2> SUFFICES ASSUME NEW pos \in Nat,
                      pos = 0 \/ LowBit[pos] >= PowerOfTwo[(k + 1) + 1]
               PROVE  LowBit[pos + PowerOfTwo[k + 1]] = PowerOfTwo[k + 1]
    OBVIOUS
  <2>1. PICK m \in Nat : /\ pos = 2 * m
                         /\ m = 0 \/ LowBit[m] >= PowerOfTwo[k + 1]
    BY <1>2
  <2>2. LowBit[m + PowerOfTwo[k]] = PowerOfTwo[k]
    BY <1>4, <2>1
  <2>3. m + PowerOfTwo[k] \in Positive
        /\ pos + PowerOfTwo[k + 1] = 2 * (m + PowerOfTwo[k])
    BY <1>1, <2>1 DEF Positive
  <2> QED
    BY <1>1, <2>2, <2>3, LowBits
<1>5. \A k \in Nat : k \in G
  <2> HIDE DEF G
  <2> QED
    BY <1>3, <1>4, Counting
<1> QED
  BY <1>5

-----------------------------------------------------------------------------
(* Prefix sums *)

\* FoldLeft over numbers.
LEMMA SumFold ==
    ASSUME NEW base, NEW q, NEW n, List(q, n)
    PROVE  Runs(<<"sum">>, base, q, n, FoldLeft(LAMBDA a, b : a + b, base, q))
<1> DEFINE Fold(g) == [t \in SUBSET DOMAIN q |->
                          IF t = {} THEN base ELSE g[t \ {Max(t)}] + q[Max(t)]]
           v == FoldLeft(LAMBDA a, b : a + b, base, q)
<1>1. \A s, x : Do(<<"sum">>, s, x) = s + x
  BY DEF Do
<1>2. \A g : DoFold(<<"sum">>, base, q, g) = Fold(g)
  BY <1>1 DEF DoFold
<1>3. PICK h : h = DoFold(<<"sum">>, base, q, h)
  BY FoldExists
<1>4. h = Fold(h)
  BY <1>2, <1>3
<1>5. PICK g : g = Fold(g) /\ v = g[DOMAIN q]
  BY <1>4 DEF FoldLeft, MapThenFoldSet
<1>6. g = DoFold(<<"sum">>, base, q, g)
  BY <1>2, <1>5
<1>7. Runs(<<"sum">>, base, q, n, g[DOMAIN q])
  BY <1>6, FoldRun
<1> QED
  BY <1>5, <1>7

\* f counts the stakes up.
CountsUp(f, q) ==
    /\ f[0] = 0
    /\ \A m \in Nat : m + 1 <= Len(q) => f[m + 1] = f[m] + q[m + 1]

\* There is one way to count up.
LEMMA SumRun ==
    ASSUME NEW q \in Seq(Nat)
    PROVE  /\ \E f : CountsUp(f, q)
           /\ \A f : CountsUp(f, q) => StakeSum(q) = f[Len(q)]
<1> DEFINE n == Len(q)
<1>1. List(q, n) /\ n \in Nat
  BY DEF List
<1>2. Runs(<<"sum">>, 0, q, n, StakeSum(q))
  BY <1>1, SumFold DEF StakeSum
<1>3. \A a, x : Do(<<"sum">>, a, x) = a + x
  BY DEF Do
<1>4. PICK run : Goes(run, <<"sum">>, 0, q, n, StakeSum(q))
  BY <1>1, <1>2, RunFacts
<1>5. CountsUp(run, q)
  BY <1>3, <1>4 DEF Goes, CountsUp
<1>6. ASSUME NEW f, CountsUp(f, q) PROVE StakeSum(q) = f[n]
  <2> DEFINE G == {m \in Nat : m <= n => run[m] = f[m]}
  <2>1. 0 \in G
    BY <1>5, <1>6 DEF CountsUp
  <2>2. ASSUME NEW m \in Nat, m \in G PROVE m + 1 \in G
    <3>1. SUFFICES ASSUME m + 1 <= n PROVE run[m + 1] = f[m + 1]
      OBVIOUS
    <3>2. run[m] = f[m]
      BY <1>1, <2>2, <3>1
    <3> QED
      BY <1>5, <1>6, <3>1, <3>2 DEF CountsUp
  <2>3. \A m \in Nat : m \in G
    <3> HIDE DEF G
    <3> QED
      BY <2>1, <2>2, Counting
  <2>4. run[n] = f[n]
    BY <1>1, <2>3
  <2> QED
    BY <1>4, <2>4 DEF Goes
<1> QED
  BY <1>5, <1>6

\* The stakes of the first i.
Prefix(stakes, i) == StakeSum(SubSeq(stakes, 1, i))

\* Prefix sums by steps.
LEMMA PrefixSums ==
    ASSUME NEW stakes \in Seq(Nat)
    PROVE  /\ Prefix(stakes, 0) = 0
           /\ \A i \in 0 .. Len(stakes) : Prefix(stakes, i) \in Nat
           /\ \A i \in 1 .. Len(stakes) :
                 Prefix(stakes, i) = Prefix(stakes, i - 1) + stakes[i]
           /\ Prefix(stakes, Len(stakes)) = StakeSum(stakes)
           /\ \A i, j \in 0 .. Len(stakes) :
                 i <= j => Prefix(stakes, i) <= Prefix(stakes, j)
<1> DEFINE n == Len(stakes)
<1>1. PICK f : CountsUp(f, stakes)
  BY SumRun
<1>2. ASSUME NEW i \in 0 .. n PROVE Prefix(stakes, i) = f[i]
  <2> DEFINE q == SubSeq(stakes, 1, i)
  <2>1. /\ q \in Seq(Nat) /\ Len(q) = i
        /\ \A m \in 1 .. i : q[m] = stakes[m]
    OBVIOUS
  <2> HIDE DEF q
  <2>2. CountsUp(f, q)
    <3>1. /\ f[0] = 0
          /\ \A m \in Nat : m + 1 <= Len(stakes) => f[m + 1] = f[m] + stakes[m + 1]
      BY <1>1 DEF CountsUp
    <3>2. ASSUME NEW m \in Nat, m + 1 <= Len(q) PROVE f[m + 1] = f[m] + q[m + 1]
      <4>1. m + 1 \in 1 .. i /\ m + 1 <= Len(stakes)
        BY <2>1, <3>2
      <4> QED
        BY <2>1, <3>1, <4>1
    <3> QED
      BY <3>1, <3>2 DEF CountsUp
  <2> QED
    BY <2>1, <2>2, SumRun DEF Prefix, q
<1>3. n \in Nat /\ \A i \in 1 .. n : stakes[i] \in Nat
  OBVIOUS
<1>4. \A i \in 1 .. n : f[i] = f[i - 1] + stakes[i]
  <2> SUFFICES ASSUME NEW i \in 1 .. n PROVE f[i] = f[i - 1] + stakes[i]
    OBVIOUS
  <2>1. i - 1 \in Nat /\ (i - 1) + 1 = i /\ (i - 1) + 1 <= Len(stakes)
    OBVIOUS
  <2>2. f[(i - 1) + 1] = f[i - 1] + stakes[(i - 1) + 1]
    BY <1>1, <2>1 DEF CountsUp
  <2> QED
    BY <2>1, <2>2
<1>8. \A i \in 0 .. n : f[i] \in Nat /\ \A j \in 0 .. i : f[j] <= f[i]
  <2> DEFINE G == {i \in Nat : i <= n => /\ f[i] \in Nat
                                         /\ \A j \in 0 .. i : f[j] <= f[i]}
  <2>5. 0 \in G
    BY <1>1 DEF CountsUp
  <2>6. ASSUME NEW i \in Nat, i \in G PROVE i + 1 \in G
    <3> SUFFICES ASSUME i + 1 <= n
                 PROVE  f[i + 1] \in Nat /\ \A j \in 0 .. i + 1 : f[j] <= f[i + 1]
      OBVIOUS
    <3>1. f[i] \in Nat /\ \A j \in 0 .. i : f[j] \in Int /\ f[j] <= f[i]
      <4>1. \A j \in 0 .. i : f[j] \in Int
        <5> DEFINE H == {j \in Nat : j <= n => f[j] \in Int}
        <5>1. 0 \in H
          BY <1>1 DEF CountsUp
        <5>2. ASSUME NEW j \in Nat, j \in H PROVE j + 1 \in H
          <6> SUFFICES ASSUME j + 1 <= n PROVE f[j + 1] \in Int
            OBVIOUS
          <6>1. j \in 0 .. n /\ j + 1 \in 1 .. n
            BY <1>3
          <6>2. f[j + 1] = f[(j + 1) - 1] + stakes[j + 1]
            BY <1>4, <6>1
          <6>3. f[j] \in Int /\ stakes[j + 1] \in Nat /\ (j + 1) - 1 = j
            BY <1>3, <5>2, <6>1
          <6> QED
            BY <6>2, <6>3
        <5>3. \A j \in Nat : j \in H
          <6> HIDE DEF H
          <6> QED
            BY <5>1, <5>2, Counting
        <5> QED
          BY <1>3, <5>3
      <4> QED
        BY <1>3, <2>6, <4>1
    <3>2. i + 1 \in 1 .. n /\ f[i + 1] = f[i] + stakes[i + 1] /\ stakes[i + 1] \in Nat
      BY <1>3, <1>4
    <3> QED
      BY <3>1, <3>2
  <2>7. \A i \in Nat : i \in G
    <3> HIDE DEF G
    <3> QED
      BY <2>5, <2>6, Counting
  <2> QED
    BY <1>3, <2>7
<1>9. Prefix(stakes, 0) = 0
  BY <1>1, <1>2, <1>3 DEF CountsUp
<1>10. StakeSum(stakes) = f[n] /\ n \in 0 .. n
  BY <1>1, <1>3, SumRun
<1>11. \A i \in 1 .. n : Prefix(stakes, i) = Prefix(stakes, i - 1) + stakes[i]
  <2>1. \A i \in 1 .. n : i \in 0 .. n /\ i - 1 \in 0 .. n
    OBVIOUS
  <2> QED
    BY <1>2, <1>4, <2>1
<1>12. \A i, j \in 0 .. n : i <= j => Prefix(stakes, i) <= Prefix(stakes, j)
  BY <1>2, <1>8
<1>13. \A i \in 0 .. n : Prefix(stakes, i) \in Nat
  BY <1>2, <1>8
<1>14. Prefix(stakes, n) = StakeSum(stakes)
  BY <1>2, <1>10
<1>15. n = Len(stakes)
  OBVIOUS
<1> HIDE DEF n
<1> QED
  BY <1>9, <1>11, <1>12, <1>13, <1>14, <1>15

-----------------------------------------------------------------------------
(* NewStakeFenwickTree *)

\* FoldLeft over the positions of a new tree.
LEMMA ParentFold ==
    ASSUME NEW base, NEW q, NEW n, List(q, n)
    PROVE  Runs(<<"parent">>, base, q, n, FoldLeft(AddToParent, base, q))
<1> DEFINE Fold(g) == [t \in SUBSET DOMAIN q |->
                          IF t = {} THEN base
                          ELSE AddToParent(g[t \ {Max(t)}], q[Max(t)])]
           v == FoldLeft(AddToParent, base, q)
<1>1. \A s, x : Do(<<"parent">>, s, x) = AddToParent(s, x)
  BY DEF Do
<1>2. \A g : DoFold(<<"parent">>, base, q, g) = Fold(g)
  BY <1>1 DEF DoFold
<1>3. PICK h : h = DoFold(<<"parent">>, base, q, h)
  BY FoldExists
<1>4. h = Fold(h)
  BY <1>2, <1>3
<1>5. PICK g : g = Fold(g) /\ v = g[DOMAIN q]
  BY <1>4 DEF FoldLeft, MapThenFoldSet
<1>6. g = DoFold(<<"parent">>, base, q, g)
  BY <1>2, <1>5
<1>7. Runs(<<"parent">>, base, q, n, g[DOMAIN q])
  BY <1>6, FoldRun
<1> QED
  BY <1>5, <1>7

\* The tree has the sums of the stakes that its nodes have.
Sums(tree, stakes) ==
    /\ tree \in Seq(Int) /\ Len(tree) = Len(stakes)
    /\ \A i \in 1 .. Len(stakes) :
          tree[i] = Prefix(stakes, i) - Prefix(stakes, NodeStart(i))

\* Before step j + 1, c is where the sum of node i has come to.
ComeTo(i, c, j) ==
    /\ c = NodeStart(i) \/ (c \in Positive /\ Parent(c) = i /\ c <= j)
    /\ \A b \in Positive : (Parent(b) = i /\ b <= j) => b <= c

\* A new tree before step j + 1.
Building(tree, stakes, j) ==
    /\ tree \in Seq(Int) /\ Len(tree) = Len(stakes)
    /\ \A i \in 1 .. Len(stakes) : \A c \in Nat :
          ComeTo(i, c, j) =>
              tree[i] = stakes[i] + Prefix(stakes, c) - Prefix(stakes, NodeStart(i))

\* The bounds of nodes.
LEMMA Bounds ==
    /\ \A i \in Positive :
          /\ i \in Int /\ 0 < i
          /\ NodeStart(i) \in Nat /\ NodeStart(i) < i
          /\ Parent(i) \in Positive /\ Parent(i) \in Int /\ i < Parent(i)
    /\ \A i \in Int : 0 < i => i \in Positive
<1>1. ASSUME NEW i \in Positive
      PROVE  /\ i \in Int /\ 0 < i
             /\ NodeStart(i) \in Nat /\ NodeStart(i) < i
             /\ Parent(i) \in Positive /\ Parent(i) \in Int /\ i < Parent(i)
  <2>1. i \in Int /\ 0 < i /\ NodeStart(i) \in 0 .. i - 1 /\ Parent(i) \in i + 1 .. 2 * i
    BY Nodes DEF Positive
  <2> QED
    BY <2>1 DEF Positive
<1> QED
  BY <1>1 DEF Positive

\* A node is ready when its step comes.
LEMMA NodeReady ==
    ASSUME NEW i \in Positive, NEW j \in Nat, i - 1 <= j
    PROVE  ComeTo(i, i - 1, j) /\ i - 1 \in Nat
<1>1. i - 1 = NodeStart(i) \/ (i - 1 \in Positive /\ Parent(i - 1) = i)
  <2>1. CASE NodeStart(i) < i - 1
    <3>1. NodeStart(i) \in Nat /\ i - 1 \in Positive /\ i - 1 < i
      BY <2>1, Bounds
    <3>2. Parent(i - 1) <= i /\ i - 1 < Parent(i - 1) /\ Parent(i - 1) \in Int
      BY <2>1, <3>1, Nested, Bounds
    <3> QED
      BY <3>1, <3>2, Bounds
  <2> QED
    BY <2>1, Bounds
<1>2. \A b \in Positive : Parent(b) = i => b <= i - 1
  BY Bounds
<1> QED
  BY <1>1, <1>2 DEF ComeTo, Positive

\* The stakes of a node that is ready.
LEMMA ReadySum ==
    ASSUME NEW stakes \in Seq(Nat), NEW tree, NEW j \in Nat,
           Building(tree, stakes, j),
           NEW i \in 1 .. Len(stakes), i - 1 <= j
    PROVE  tree[i] = Prefix(stakes, i) - Prefix(stakes, NodeStart(i))
<1>1. i \in Positive
  BY DEF Positive
<1>2. ComeTo(i, i - 1, j) /\ i - 1 \in Nat
  BY <1>1, NodeReady
<1>3. tree[i] = stakes[i] + Prefix(stakes, i - 1) - Prefix(stakes, NodeStart(i))
  BY <1>2 DEF Building
<1>4. Prefix(stakes, i) = Prefix(stakes, i - 1) + stakes[i]
  BY PrefixSums
<1>5. /\ i - 1 \in 0 .. Len(stakes) /\ NodeStart(i) \in 0 .. Len(stakes)
      /\ stakes[i] \in Nat
  <2>1. NodeStart(i) \in 0 .. i - 1
    BY <1>1, Nodes
  <2> QED
    BY <2>1
<1>6. Prefix(stakes, i - 1) \in Nat /\ Prefix(stakes, NodeStart(i)) \in Nat
  BY <1>5, PrefixSums
<1> QED
  BY <1>3, <1>4, <1>5, <1>6

\* One step of a new tree.
LEMMA BuildStep ==
    ASSUME NEW stakes \in Seq(Nat), NEW tree, NEW j \in Nat,
           j + 1 <= Len(stakes), Building(tree, stakes, j)
    PROVE  Building(AddToParent(tree, j + 1), stakes, j + 1)
<1> DEFINE n == Len(stakes)
           a == j + 1
           p == Parent(a)
           next == AddToParent(tree, a)
<1>1. a \in Positive /\ a \in 1 .. n /\ n \in Nat /\ Len(tree) = n
  BY DEF Building, Positive
<1>2. p \in Positive /\ a < p /\ NodeStart(a) \in Nat /\ NodeStart(a) < a
  BY <1>1, Bounds
<1>3. next = IF p <= n THEN [tree EXCEPT ![p] = @ + tree[a]] ELSE tree
  BY <1>1 DEF AddToParent, Parent
<1>4. tree \in Seq(Int)
  BY DEF Building
<1>5. next \in Seq(Int) /\ Len(next) = n
      /\ \A i \in 1 .. n : next[i] = IF i = p THEN tree[p] + tree[a] ELSE tree[i]
  <2>1. DOMAIN tree = 1 .. n /\ \A i \in 1 .. n : tree[i] \in Int
    BY <1>1, <1>4
  <2>2. CASE p <= n
    <3>1. p \in 1 .. n /\ tree[p] + tree[a] \in Int
      BY <1>1, <1>2, <2>1, <2>2 DEF Positive
    <3>2. next = [tree EXCEPT ![p] = tree[p] + tree[a]]
      BY <1>3, <2>2
    <3> HIDE DEF next, a, p, n
    <3> QED
      BY <1>1, <1>4, <2>1, <3>1, <3>2
  <2>3. CASE ~(p <= n)
    <3>1. next = tree /\ p \notin 1 .. n
      BY <1>2, <1>3, <2>3 DEF Positive
    <3> QED
      BY <1>1, <1>4, <3>1
  <2> QED
    BY <2>2, <2>3
<1>6. ASSUME NEW i \in 1 .. n, NEW c \in Nat, ComeTo(i, c, a)
      PROVE  next[i] = stakes[i] + Prefix(stakes, c) - Prefix(stakes, NodeStart(i))
  <2>1. CASE i # p
    <3>1. ComeTo(i, c, j)
      <4>1. c = NodeStart(i) \/ (c \in Positive /\ Parent(c) = i /\ c <= a /\ c # a)
        BY <1>6, <2>1 DEF ComeTo
      <4>2. c = NodeStart(i) \/ (c \in Positive /\ Parent(c) = i /\ c <= j)
        BY <4>1
      <4>3. \A b \in Positive : (Parent(b) = i /\ b <= j) => b <= c
        <5>1. \A b \in Positive : b <= j => b <= a
          BY DEF Positive
        <5> QED
          BY <1>6, <5>1 DEF ComeTo
      <4> QED
        BY <4>2, <4>3 DEF ComeTo
    <3>2. tree[i] = stakes[i] + Prefix(stakes, c) - Prefix(stakes, NodeStart(i))
      BY <3>1 DEF Building
    <3> QED
      BY <1>5, <2>1, <3>2
  <2>2. CASE i = p
    <3>1. c = a
      <4>1. a <= c
        BY <1>1, <1>6, <2>2 DEF ComeTo
      <4>2. NodeStart(p) < a
        BY <1>1, <1>2, Covering, Bounds
      <4>3. c # NodeStart(p)
        BY <1>2, <4>1, <4>2, Bounds
      <4>4. c <= a
        BY <1>6, <2>2, <4>3 DEF ComeTo
      <4> QED
        BY <4>1, <4>4
    <3>2. ComeTo(p, NodeStart(a), j)
      <4>1. \/ NodeStart(a) = NodeStart(p)
            \/ NodeStart(a) \in Positive /\ Parent(NodeStart(a)) = p
        BY <1>1, Siblings
      <4>2. ASSUME NEW b \in Positive, Parent(b) = p, b <= j PROVE b <= NodeStart(a)
        <5>1. SUFFICES ASSUME NodeStart(a) < b PROVE FALSE
          BY <1>2 DEF Positive
        <5>2. b < a
          BY <4>2 DEF Positive
        <5>3. Parent(b) <= a
          BY <1>1, <5>1, <5>2, Nested
        <5> QED
          BY <1>2, <4>2, <5>3 DEF Positive
      <4>3. NodeStart(a) <= j
        BY <1>2
      <4> QED
        BY <4>1, <4>2, <4>3 DEF ComeTo
    <3>3. tree[p] = stakes[p] + Prefix(stakes, NodeStart(a))
                       - Prefix(stakes, NodeStart(p))
      BY <1>2, <2>2, <3>2 DEF Building
    <3>4. tree[a] = Prefix(stakes, a) - Prefix(stakes, NodeStart(a))
      <4>1. a - 1 <= j
        OBVIOUS
      <4> QED
        BY <1>1, <4>1, ReadySum
    <3>5. next[p] = tree[p] + tree[a]
      BY <1>5, <2>2
    <3>6. /\ stakes[p] \in Nat /\ a \in 0 .. n /\ NodeStart(a) \in 0 .. n
          /\ NodeStart(p) \in 0 .. n
      <4>1. NodeStart(p) \in 0 .. p - 1
        BY <1>2, Nodes
      <4> QED
        BY <1>1, <1>2, <2>2, <4>1
    <3>7. /\ Prefix(stakes, a) \in Nat /\ Prefix(stakes, NodeStart(a)) \in Nat
          /\ Prefix(stakes, NodeStart(p)) \in Nat
      BY <3>6, PrefixSums
    <3>8. next[p] = stakes[p] + Prefix(stakes, a) - Prefix(stakes, NodeStart(p))
      <4> DEFINE u == stakes[p]
                 v == Prefix(stakes, NodeStart(a))
                 w == Prefix(stakes, NodeStart(p))
                 x == Prefix(stakes, a)
      <4>1. u \in Int /\ v \in Int /\ w \in Int /\ x \in Int
        BY <3>6, <3>7
      <4>2. next[p] = (u + v - w) + (x - v)
        <5> HIDE DEF next, a, p
        <5> QED
          BY <3>3, <3>4, <3>5
      <4> HIDE DEF next, a, p, u, v, w, x
      <4>3. next[p] = u + x - w
        BY <4>1, <4>2
      <4> QED
        BY <4>3 DEF u, w, x
    <3> HIDE DEF next, a, p
    <3> QED
      BY <2>2, <3>1, <3>8
  <2> QED
    BY <2>1, <2>2
<1> QED
  BY <1>5, <1>6 DEF Building

\* A new tree has the sums.
LEMMA Built ==
    ASSUME NEW stakes \in Seq(Nat)
    PROVE  Sums(NewStakeFenwickTree(stakes), stakes)
<1> DEFINE n == Len(stakes)
           q == [i \in 1 .. n |-> i]
           tree == NewStakeFenwickTree(stakes)
<1>1. n \in Nat /\ List(q, n)
  BY DEF List
<1>2. tree = FoldLeft(AddToParent, stakes, q)
  BY DEF NewStakeFenwickTree
<1>3. Runs(<<"parent">>, stakes, q, n, tree)
  <2> HIDE DEF q, n, tree
  <2> QED
    BY <1>1, <1>2, ParentFold
<1>4. \A s, x : Do(<<"parent">>, s, x) = AddToParent(s, x)
  BY DEF Do
<1>5. PICK run : Goes(run, <<"parent">>, stakes, q, n, tree)
  <2> HIDE DEF q, n, tree
  <2> QED
    BY <1>1, <1>3, RunFacts
<1> HIDE DEF tree
<1> DEFINE G == {m \in Nat : m <= n => Building(run[m], stakes, m)}
<1>6. 0 \in G
  <2>1. run[0] = stakes /\ stakes \in Seq(Int)
    BY <1>5 DEF Goes
  <2>2. ASSUME NEW i \in 1 .. n, NEW c \in Nat, ComeTo(i, c, 0)
        PROVE  stakes[i] = stakes[i] + Prefix(stakes, c) - Prefix(stakes, NodeStart(i))
    <3>1. i \in Positive /\ c = NodeStart(i) /\ c \in 0 .. n
      <4>1. i \in Positive
        BY DEF Positive
      <4>2. c = NodeStart(i)
        BY <2>2, <4>1, Bounds DEF ComeTo
      <4> QED
        BY <1>1, <4>1, <4>2, Bounds
    <3>2. Prefix(stakes, c) \in Nat /\ stakes[i] \in Nat
      BY <3>1, PrefixSums
    <3> QED
      BY <3>1, <3>2
  <2>3. Building(stakes, stakes, 0)
    BY <2>1, <2>2 DEF Building
  <2> QED
    BY <2>1, <2>3
<1>7. ASSUME NEW m \in Nat, m \in G PROVE m + 1 \in G
  <2> SUFFICES ASSUME m + 1 <= n PROVE Building(run[m + 1], stakes, m + 1)
    OBVIOUS
  <2>1. Building(run[m], stakes, m)
    BY <1>1, <1>7
  <2>2. run[m + 1] = Do(<<"parent">>, run[m], q[m + 1]) /\ q[m + 1] = m + 1
    BY <1>5 DEF Goes
  <2>3. run[m + 1] = AddToParent(run[m], m + 1)
    BY <1>4, <2>2
  <2> QED
    BY <2>1, <2>3, BuildStep
<1>8. \A m \in Nat : m \in G
  <2> HIDE DEF G
  <2> QED
    BY <1>6, <1>7, Counting
<1>9. Building(tree, stakes, n)
  <2>1. Building(run[n], stakes, n)
    BY <1>1, <1>8
  <2> QED
    BY <1>5, <2>1 DEF Goes
<1>10. ASSUME NEW i \in 1 .. n
       PROVE  tree[i] = Prefix(stakes, i) - Prefix(stakes, NodeStart(i))
  <2>1. i - 1 <= n
    BY <1>1
  <2> QED
    BY <1>1, <1>9, <2>1, ReadySum
<1> HIDE DEF G, q
<1> QED
  BY <1>9, <1>10 DEF Sums, Building, tree

-----------------------------------------------------------------------------
(* UpdatePath and RemoveStake *)

\* The nodes of n that have position a.
NodesWith(n, a) == {i \in 1 .. n : NodeStart(i) < a /\ a <= i}

\* UpdatePath by its definition.
PathOf(n, p) ==
    [i \in 1 .. 2 * n |-> IF i > n THEN {} ELSE {i} \cup p[i + LowBit[i]]]

\* The path goes over the nodes that have a position.
LEMMA PathStep ==
    ASSUME NEW n \in Nat, NEW a \in 1 .. n
    PROVE  /\ NodesWith(n, a) = {a} \cup NodesWith(n, Parent(a))
           /\ Parent(a) \in a + 1 .. 2 * n
<1>1. a \in Positive /\ a \in Int /\ a <= n /\ \A i \in 1 .. n : i \in Positive
  BY Bounds
<1>2. Parent(a) \in a + 1 .. 2 * a
  BY <1>1, Nodes
<1>3. ASSUME NEW i \in 1 .. n, NodeStart(i) < a, a <= i
      PROVE  i = a \/ (NodeStart(i) < Parent(a) /\ Parent(a) <= i)
  <2>1. a < i => Parent(a) <= i
    BY <1>1, <1>3, Nested
  <2>2. NodeStart(i) < Parent(a)
    BY <1>1, <1>3, Bounds
  <2> QED
    BY <1>1, <1>3, <2>1, <2>2
<1>4. NodeStart(a) < a
  BY <1>1, Bounds
<1>5. ASSUME NEW i \in 1 .. n, NodeStart(i) < Parent(a), Parent(a) <= i
      PROVE  NodeStart(i) < a /\ a <= i
  <2>1. NodeStart(i) < a
    BY <1>1, <1>5, Covering
  <2> QED
    BY <1>1, <1>5, <2>1, Bounds
<1>6. NodesWith(n, a) = {a} \cup NodesWith(n, Parent(a))
  BY <1>1, <1>3, <1>4, <1>5 DEF NodesWith
<1> QED
  BY <1>1, <1>2, <1>6

\* The definition of the paths has one solution.
LEMMA PathIs ==
    ASSUME NEW n \in Nat, NEW p, p = PathOf(n, p)
    PROVE  \A a \in 1 .. 2 * n : p[a] = NodesWith(n, a)
<1> DEFINE G == {m \in Nat : m < 2 * n => p[2 * n - m] = NodesWith(n, 2 * n - m)}
<1>0. \A a \in 1 .. 2 * n : p[a] = IF a > n THEN {} ELSE {a} \cup p[Parent(a)]
  BY DEF PathOf, Parent
<1>1. ASSUME NEW m \in Nat, \A j \in Nat : j < m => j \in G PROVE m \in G
  <2> SUFFICES ASSUME m < 2 * n PROVE p[2 * n - m] = NodesWith(n, 2 * n - m)
    OBVIOUS
  <2> DEFINE a == 2 * n - m
  <2>0. a \in 1 .. 2 * n
    OBVIOUS
  <2>1. a \in 1 .. 2 * n /\ p[a] = IF a > n THEN {} ELSE {a} \cup p[Parent(a)]
    <3> HIDE DEF a
    <3> QED
      BY <1>0, <2>0
  <2>2. CASE a > n
    <3>1. NodesWith(n, a) = {}
      BY <2>1, <2>2 DEF NodesWith
    <3> QED
      BY <2>1, <2>2, <3>1
  <2>3. CASE ~(a > n)
    <3>1. a \in 1 .. n
      BY <2>1, <2>3
    <3>2. /\ NodesWith(n, a) = {a} \cup NodesWith(n, Parent(a))
          /\ Parent(a) \in a + 1 .. 2 * n
      BY <3>1, PathStep
    <3> DEFINE j == 2 * n - Parent(a)
    <3>3. j \in Nat /\ j < m /\ j < 2 * n /\ 2 * n - j = Parent(a)
      BY <3>1, <3>2
    <3>4. p[Parent(a)] = NodesWith(n, Parent(a))
      BY <1>1, <3>3
    <3>5. p[a] = {a} \cup p[Parent(a)]
      BY <2>1, <2>3
    <3> HIDE DEF j
    <3> QED
      BY <3>2, <3>4, <3>5
  <2> QED
    BY <2>2, <2>3
<1>2. \A m \in Nat : m \in G
  <2> HIDE DEF G
  <2> QED
    BY <1>1, CountingBelow
<1>3. ASSUME NEW a \in 1 .. 2 * n PROVE p[a] = NodesWith(n, a)
  <2>1. 2 * n - a \in Nat /\ 2 * n - a < 2 * n /\ 2 * n - (2 * n - a) = a
    OBVIOUS
  <2>2. 2 * n - a \in G
    BY <1>2, <2>1
  <2> QED
    BY <2>1, <2>2
<1> QED
  BY <1>3

\* The positions that RemoveStake changes are the nodes that have the stake.
LEMMA Paths ==
    ASSUME NEW n \in Nat, NEW a \in 1 .. n
    PROVE  UpdatePath(n)[a] = NodesWith(n, a)
<1> DEFINE W == [i \in 1 .. 2 * n |-> NodesWith(n, i)]
           path == UpdatePath(n)
<1>1. W = PathOf(n, W)
  <2>1. ASSUME NEW i \in 1 .. 2 * n
        PROVE  NodesWith(n, i) = IF i > n THEN {} ELSE {i} \cup W[i + LowBit[i]]
    <3>1. CASE i > n
      BY <3>1 DEF NodesWith
    <3>2. CASE ~(i > n)
      <4>1. i \in 1 .. n
        BY <3>2
      <4>2. NodesWith(n, i) = {i} \cup NodesWith(n, Parent(i))
            /\ Parent(i) \in i + 1 .. 2 * n
        BY <4>1, PathStep
      <4>3. W[i + LowBit[i]] = NodesWith(n, Parent(i))
        BY <4>1, <4>2 DEF Parent
      <4> HIDE DEF W
      <4> QED
        BY <3>2, <4>2, <4>3
    <3> QED
      BY <3>1, <3>2
  <2> QED
    BY <2>1 DEF PathOf
<1>2. path = PathOf(n, path)
  <2>1. \E p : p = PathOf(n, p)
    <3> HIDE DEF W
    <3> QED
      BY <1>1
  <2> QED
    BY <2>1 DEF UpdatePath, PathOf
<1>3. a \in 1 .. 2 * n
  OBVIOUS
<1> HIDE DEF path
<1> QED
  BY <1>2, <1>3, PathIs DEF path

\* The stakes without the one at a place.
Without(stakes, a) == [stakes EXCEPT ![a] = 0]

\* How the prefix sums lose a stake.
LEMMA PrefixWithout ==
    ASSUME NEW stakes \in Seq(Nat), NEW a \in 1 .. Len(stakes)
    PROVE  /\ Without(stakes, a) \in Seq(Nat)
           /\ Len(Without(stakes, a)) = Len(stakes)
           /\ \A i \in 0 .. Len(stakes) :
                 Prefix(Without(stakes, a), i) =
                     Prefix(stakes, i) - (IF a <= i THEN stakes[a] ELSE 0)
<1> DEFINE n == Len(stakes)
           rest == Without(stakes, a)
           Lost(i) == IF a <= i THEN stakes[a] ELSE 0
           G == {i \in Nat : i <= n => Prefix(rest, i) = Prefix(stakes, i) - Lost(i)}
<1>1. /\ rest \in Seq(Nat) /\ Len(rest) = n /\ n \in Nat /\ stakes[a] \in Nat
      /\ \A i \in 1 .. n : rest[i] = IF i = a THEN 0 ELSE stakes[i]
  BY DEF Without
<1> HIDE DEF rest
<1>2. 0 \in G
  BY <1>1, PrefixSums
<1>3. ASSUME NEW i \in Nat, i \in G PROVE i + 1 \in G
  <2> SUFFICES ASSUME i + 1 <= n
               PROVE  Prefix(rest, i + 1) = Prefix(stakes, i + 1) - Lost(i + 1)
    OBVIOUS
  <2>1. i \in 0 .. n /\ i + 1 \in 1 .. n /\ (i + 1) - 1 = i
    BY <1>1
  <2>2. /\ Prefix(rest, i + 1) = Prefix(rest, i) + rest[i + 1]
        /\ Prefix(stakes, i + 1) = Prefix(stakes, i) + stakes[i + 1]
        /\ Prefix(stakes, i) \in Nat /\ stakes[i + 1] \in Nat
    <3>1. \A j \in 1 .. n : Prefix(rest, j) = Prefix(rest, j - 1) + rest[j]
      BY <1>1, PrefixSums
    <3>2. \A j \in 1 .. n : Prefix(stakes, j) = Prefix(stakes, j - 1) + stakes[j]
      BY PrefixSums
    <3>3. Prefix(stakes, i) \in Nat
      BY <2>1, PrefixSums
    <3> QED
      BY <2>1, <3>1, <3>2, <3>3
  <2>3. Prefix(rest, i) = Prefix(stakes, i) - Lost(i)
    BY <1>3, <2>1
  <2>4. rest[i + 1] = IF i + 1 = a THEN 0 ELSE stakes[i + 1]
    BY <1>1, <2>1
  <2>5. CASE a <= i
    <3>1. Lost(i) = stakes[a] /\ Lost(i + 1) = stakes[a] /\ i + 1 # a
      BY <2>1, <2>5
    <3>2. rest[i + 1] = stakes[i + 1]
      BY <2>4, <3>1
    <3> DEFINE u == Prefix(stakes, i)
               v == stakes[i + 1]
               w == stakes[a]
    <3>3. u \in Nat /\ v \in Nat /\ w \in Nat
      BY <1>1, <2>2
    <3>4. /\ Prefix(rest, i + 1) = (u - w) + v
          /\ Prefix(stakes, i + 1) - Lost(i + 1) = (u + v) - w
      <4> HIDE DEF Lost
      <4> QED
        BY <2>2, <2>3, <3>1, <3>2
    <3> HIDE DEF Lost, u, v, w
    <3> QED
      BY <3>3, <3>4
  <2>6. CASE a = i + 1
    <3>1. Lost(i) = 0 /\ Lost(i + 1) = stakes[i + 1] /\ rest[i + 1] = 0
      BY <2>1, <2>4, <2>6
    <3> QED
      BY <2>2, <2>3, <3>1
  <2>7. CASE a > i + 1
    <3>1. Lost(i) = 0 /\ Lost(i + 1) = 0 /\ i + 1 # a
      BY <2>1, <2>7
    <3> QED
      BY <2>2, <2>3, <2>4, <3>1
  <2> QED
    BY <2>5, <2>6, <2>7
<1>4. \A i \in Nat : i \in G
  <2> HIDE DEF G
  <2> QED
    BY <1>2, <1>3, Counting
<1> QED
  BY <1>1, <1>4 DEF rest

\* RemoveStake takes the stake out of the sums.
LEMMA TreeRemoved ==
    ASSUME NEW stakes \in Seq(Nat), NEW tree, Sums(tree, stakes),
           NEW idx \in 0 .. Len(stakes) - 1
    PROVE  Sums(RemoveStake(tree, idx, stakes[idx + 1]), Without(stakes, idx + 1))
<1> DEFINE n == Len(stakes)
           a == idx + 1
           next == RemoveStake(tree, idx, stakes[a])
           rest == Without(stakes, a)
<1>1. a \in 1 .. n /\ n \in Nat /\ stakes[a] \in Nat
  OBVIOUS
<1>2. tree \in Seq(Int) /\ Len(tree) = n
      /\ \A i \in 1 .. n : tree[i] = Prefix(stakes, i) - Prefix(stakes, NodeStart(i))
  BY DEF Sums
<1>3. UpdatePath(n)[a] = NodesWith(n, a)
  BY <1>1, Paths
<1>4. next = [i \in 1 .. n |-> IF i \in NodesWith(n, a) THEN tree[i] - stakes[a]
                                                        ELSE tree[i]]
  BY <1>2, <1>3 DEF RemoveStake
<1>5. next \in Seq(Int) /\ Len(next) = n
  <2>1. \A i \in 1 .. n : tree[i] \in Int
    BY <1>1, <1>2
  <2> HIDE DEF a, n, next
  <2> QED
    BY <1>1, <1>4, <2>1
<1>6. /\ rest \in Seq(Nat) /\ Len(rest) = n
      /\ \A i \in 0 .. n : Prefix(rest, i) =
            Prefix(stakes, i) - (IF a <= i THEN stakes[a] ELSE 0)
  BY <1>1, PrefixWithout
<1>7. ASSUME NEW i \in 1 .. n
      PROVE  next[i] = Prefix(rest, i) - Prefix(rest, NodeStart(i))
  <2>1. i \in 0 .. n /\ NodeStart(i) \in 0 .. n /\ NodeStart(i) < i
    <3>1. i \in Positive
      BY Bounds
    <3> QED
      BY <1>1, <3>1, Bounds
  <2>2. Prefix(stakes, i) \in Nat /\ Prefix(stakes, NodeStart(i)) \in Nat
    BY <2>1, PrefixSums
  <2>3. tree[i] = Prefix(stakes, i) - Prefix(stakes, NodeStart(i))
    BY <1>2
  <2>4. /\ Prefix(rest, i) = Prefix(stakes, i) - (IF a <= i THEN stakes[a] ELSE 0)
        /\ Prefix(rest, NodeStart(i)) =
              Prefix(stakes, NodeStart(i))
                 - (IF a <= NodeStart(i) THEN stakes[a] ELSE 0)
    BY <1>6, <2>1
  <2>5. next[i] = IF NodeStart(i) < a /\ a <= i THEN tree[i] - stakes[a] ELSE tree[i]
    BY <1>4 DEF NodesWith
  <2> HIDE DEF a, n, next, rest
  <2>6. CASE ~(a <= i)
    <3>1. ~(a <= NodeStart(i))
      BY <1>1, <2>1, <2>6
    <3>2. next[i] = tree[i]
      BY <2>5, <2>6
    <3> QED
      BY <2>2, <2>3, <2>4, <2>6, <3>1, <3>2
  <2>7. CASE a <= NodeStart(i)
    <3>1. a <= i /\ ~(NodeStart(i) < a)
      BY <1>1, <2>1, <2>7
    <3>2. next[i] = tree[i]
      BY <2>5, <3>1
    <3> QED
      BY <1>1, <2>2, <2>3, <2>4, <2>7, <3>1, <3>2
  <2>8. CASE NodeStart(i) < a /\ a <= i
    <3>1. ~(a <= NodeStart(i))
      BY <1>1, <2>1, <2>8
    <3>2. next[i] = tree[i] - stakes[a]
      BY <2>5, <2>8
    <3> QED
      BY <1>1, <2>2, <2>3, <2>4, <2>8, <3>1, <3>2
  <2> QED
    BY <1>1, <2>1, <2>6, <2>7, <2>8
<1> HIDE DEF n, next, rest
<1> QED
  BY <1>5, <1>6, <1>7 DEF Sums, next, rest

-----------------------------------------------------------------------------
(* FindByWeight *)

\* The descent over the bit masks q, from the state base on.
FoldDescend(tree, base, q) ==
    FoldLeft(LAMBDA walk, mask : Descend(tree, walk, mask), base, q)

\* FoldLeft over the bit masks.
LEMMA DescendFold ==
    ASSUME NEW tree, NEW base, NEW q, NEW n, List(q, n)
    PROVE  Runs(<<"descend", tree>>, base, q, n, FoldDescend(tree, base, q))
<1> DEFINE k == <<"descend", tree>>
           Fold(g) == [t \in SUBSET DOMAIN q |->
                          IF t = {} THEN base
                          ELSE Descend(tree, g[t \ {Max(t)}], q[Max(t)])]
           v == FoldDescend(tree, base, q)
<1>0. k[1] = "descend" /\ k[2] = tree
  OBVIOUS
<1> HIDE DEF k
<1>1. \A s, x : Do(k, s, x) = Descend(tree, s, x)
  BY <1>0 DEF Do
<1>2. \A g : DoFold(k, base, q, g) = Fold(g)
  BY <1>1 DEF DoFold
<1>3. PICK h : h = DoFold(k, base, q, h)
  BY FoldExists
<1>4. h = Fold(h)
  BY <1>2, <1>3
<1>5. PICK g : g = Fold(g) /\ v = g[DOMAIN q]
  BY <1>4 DEF FoldDescend, FoldLeft, MapThenFoldSet
<1>6. g = DoFold(k, base, q, g)
  BY <1>2, <1>5
<1>7. Runs(k, base, q, n, g[DOMAIN q])
  BY <1>6, FoldRun
<1> QED
  BY <1>5, <1>7 DEF k

\* Powers of two grow beyond every number.
LEMMA PowersGrow ==
    /\ \A k \in Nat : PowerOfTwo[k] \in Nat /\ k < PowerOfTwo[k]
    /\ \A j, k \in Nat : j <= k => PowerOfTwo[j] <= PowerOfTwo[k]
<1> DEFINE G == {k \in Nat : /\ PowerOfTwo[k] \in Nat /\ k < PowerOfTwo[k]
                             /\ \A j \in 0 .. k : PowerOfTwo[j] <= PowerOfTwo[k]}
<1>1. 0 \in G
  BY Powers
<1>2. ASSUME NEW k \in Nat, k \in G PROVE k + 1 \in G
  <2>1. PowerOfTwo[k + 1] = 2 * PowerOfTwo[k] /\ PowerOfTwo[k] \in Nat
        /\ k < PowerOfTwo[k]
    BY <1>2, Powers
  <2>2. ASSUME NEW j \in 0 .. k + 1 PROVE PowerOfTwo[j] <= PowerOfTwo[k + 1]
    <3>1. CASE j = k + 1
      BY <2>1, <3>1
    <3>2. CASE j # k + 1
      <4>1. j \in 0 .. k /\ j \in Nat
        BY <3>2
      <4>2. PowerOfTwo[j] <= PowerOfTwo[k] /\ PowerOfTwo[j] \in Int
        BY <1>2, <4>1, Powers DEF Positive
      <4> QED
        BY <2>1, <4>2
    <3> QED
      BY <3>1, <3>2
  <2>3. PowerOfTwo[k + 1] \in Nat /\ k + 1 < PowerOfTwo[k + 1]
    BY <2>1
  <2> QED
    BY <2>2, <2>3
<1>3. \A k \in Nat : k \in G
  <2> HIDE DEF G
  <2> QED
    BY <1>1, <1>2, Counting
<1> QED
  BY <1>3

\* The masks are the powers of two up to n, downwards.
LEMMA Masks ==
    ASSUME NEW n \in Nat
    PROVE  \E k \in Nat : /\ n < PowerOfTwo[k]
                          /\ BitMasks(n) = [i \in 1 .. k |-> PowerOfTwo[k - i]]
<1> DEFINE Small(k) == PowerOfTwo[k] <= n
           Least(k) == ~Small(k) /\ \A j \in Nat : j < k => Small(j)
           G == {m \in Nat : (\A j \in 0 .. m : Small(j)) \/ \E k \in 0 .. m : Least(k)}
<1>1. \A k \in Nat : PowerOfTwo[k] \in Nat /\ k < PowerOfTwo[k]
  BY PowersGrow
<1>2. 0 \in G
  OBVIOUS
<1>3. ASSUME NEW m \in Nat, m \in G PROVE m + 1 \in G
  <2>1. CASE \E k \in 0 .. m : Least(k)
    BY <2>1
  <2>2. CASE \A j \in 0 .. m : Small(j)
    <3>1. CASE Small(m + 1)
      BY <2>2, <3>1
    <3>2. CASE ~Small(m + 1)
      <4>1. Least(m + 1)
        BY <2>2, <3>2
      <4> QED
        BY <4>1
    <3> QED
      BY <3>1, <3>2
  <2> QED
    BY <1>3, <2>1, <2>2
<1>4. n \in G
  <2> HIDE DEF G
  <2> QED
    BY <1>2, <1>3, Counting
<1>5. ~Small(n)
  BY <1>1
<1>6. PICK k \in 0 .. n : Least(k)
  BY <1>4, <1>5
<1>7. {j \in 0 .. n : PowerOfTwo[j] <= n} = 0 .. k - 1
  <2>1. ASSUME NEW j \in Nat, Small(j) PROVE j < k
    <3>1. k <= j => PowerOfTwo[k] <= PowerOfTwo[j]
      BY PowersGrow
    <3> QED
      BY <1>1, <1>6, <2>1, <3>1
  <2> QED
    BY <1>6, <2>1
<1>8. Cardinality(0 .. k - 1) = k
  <2>1. Cardinality(0 .. k - 1) = IF 0 > k - 1 THEN 0 ELSE (k - 1) - 0 + 1
    BY FS_Interval
  <2> QED
    BY <2>1
<1>9. BitMasks(n) = [i \in 1 .. k |-> PowerOfTwo[k - i]]
  BY <1>7, <1>8 DEF BitMasks
<1>10. n < PowerOfTwo[k]
  BY <1>1, <1>6
<1> QED
  BY <1>9, <1>10

\* The prefix sums at position j say that number r falls to it.
FallsTo(stakes, r, j) ==
    /\ j \in 0 .. Len(stakes) - 1
    /\ Prefix(stakes, j) <= r /\ r < Prefix(stakes, j + 1)

\* The descent to number r, when masks below the k-th power of two remain.
Descending(walk, stakes, r, k) ==
    /\ walk.pos \in 0 .. Len(stakes)
    /\ walk.r = r - Prefix(stakes, walk.pos) /\ walk.r >= 0
    /\ walk.pos = 0 \/ LowBit[walk.pos] >= PowerOfTwo[k]
    /\ walk.pos + PowerOfTwo[k] <= Len(stakes) =>
          r < Prefix(stakes, walk.pos + PowerOfTwo[k])

\* One mask.
LEMMA DescendStep ==
    ASSUME NEW stakes \in Seq(Nat), NEW tree, Sums(tree, stakes), NEW r \in Nat,
           NEW k \in Nat, NEW walk, Descending(walk, stakes, r, k + 1)
    PROVE  Descending(Descend(tree, walk, PowerOfTwo[k]), stakes, r, k)
<1> DEFINE n == Len(stakes)
           pos == walk.pos
           mask == PowerOfTwo[k]
           next == pos + mask
<1>1. n \in Nat /\ pos \in 0 .. n /\ walk.r = r - Prefix(stakes, pos) /\ walk.r >= 0
  BY DEF Descending
<1>2. mask \in Nat /\ 0 < mask /\ PowerOfTwo[k + 1] = 2 * mask
  <2>1. PowerOfTwo[k] \in Positive /\ PowerOfTwo[k + 1] = 2 * PowerOfTwo[k]
    BY Powers
  <2> QED
    BY <2>1 DEF Positive
<1>3. pos = 0 \/ LowBit[pos] >= 2 * mask
  BY <1>2 DEF Descending
<1>4. pos + 2 * mask <= n => r < Prefix(stakes, pos + 2 * mask)
  BY <1>2 DEF Descending
<1>5. LowBit[next] = mask
  <2>1. pos \in Nat /\ (pos = 0 \/ LowBit[pos] >= PowerOfTwo[k + 1])
    BY <1>1, <1>2, <1>3
  <2> QED
    BY <2>1, LowBitOfSum
<1>6. NodeStart(next) = pos
  <2> HIDE DEF mask
  <2> QED
    BY <1>1, <1>2, <1>5 DEF NodeStart
<1>7. Prefix(stakes, pos) \in Nat
  BY <1>1, PrefixSums
<1>8. ASSUME next <= n
      PROVE  tree[next] = Prefix(stakes, next) - Prefix(stakes, pos)
             /\ Prefix(stakes, next) \in Nat /\ next \in 1 .. n
  <2>1. next \in 1 .. n
    <3> HIDE DEF mask
    <3> QED
      BY <1>1, <1>2, <1>8
  <2>2. Prefix(stakes, next) \in Nat
    BY <2>1, PrefixSums
  <2> QED
    BY <1>6, <2>1, <2>2 DEF Sums
<1>9. Len(tree) = n
  BY DEF Sums
<1>10. CASE next <= n /\ tree[next] <= walk.r
  <2> DEFINE b == [pos |-> next, r |-> walk.r - tree[next]]
  <2>1. Descend(tree, walk, mask) = b
    BY <1>9, <1>10 DEF Descend
  <2>2. b.pos = next /\ b.r = walk.r - tree[next]
    OBVIOUS
  <2>3. b.r = r - Prefix(stakes, next) /\ b.r >= 0 /\ next \in 0 .. n
    <3> HIDE DEF b, next
    <3> QED
      BY <1>1, <1>7, <1>8, <1>10, <2>2
  <2>4. next + mask = pos + 2 * mask /\ LowBit[next] >= mask
    <3> HIDE DEF mask
    <3> QED
      BY <1>1, <1>2, <1>5
  <2> HIDE DEF b, mask, next
  <2>5. Descending(b, stakes, r, k)
    BY <1>4, <2>2, <2>3, <2>4 DEF Descending, mask
  <2> QED
    BY <2>1, <2>5 DEF mask
<1>11. CASE ~(next <= n /\ tree[next] <= walk.r)
  <2>1. Descend(tree, walk, mask) = walk
    BY <1>9, <1>11 DEF Descend
  <2>2. next <= n => r < Prefix(stakes, next)
    <3> HIDE DEF next
    <3> QED
      BY <1>1, <1>7, <1>8, <1>11
  <2>3. pos = 0 \/ LowBit[pos] >= mask
    <3>1. pos # 0 => LowBit[pos] \in Int
      <4>1. pos # 0 => pos \in Positive
        BY <1>1 DEF Positive
      <4> QED
        BY <4>1, LowBits
    <3> HIDE DEF mask, pos
    <3> QED
      BY <1>2, <1>3, <3>1
  <2> QED
    BY <1>1, <2>1, <2>2, <2>3 DEF Descending
<1> QED
  BY <1>10, <1>11

\* The tree finds the position to which a number falls.
LEMMA Finds ==
    ASSUME NEW stakes \in Seq(Nat), NEW tree, Sums(tree, stakes),
           NEW r \in Nat, r < StakeSum(stakes)
    PROVE  FallsTo(stakes, r, FindByWeight(tree, r))
<1> DEFINE n == Len(stakes)
           q == BitMasks(n)
           base == [pos |-> 0, r |-> r]
           v == FoldDescend(tree, base, q)
<1>0. n \in Nat
  OBVIOUS
<1>1. PICK k \in Nat : n < PowerOfTwo[k] /\ q = [i \in 1 .. k |-> PowerOfTwo[k - i]]
  <2> HIDE DEF n
  <2> QED
    BY <1>0, Masks
<1>2. List(q, k)
  BY <1>1 DEF List
<1>3. FindByWeight(tree, r) = v.pos
  BY DEF FindByWeight, FoldDescend, Sums
<1>4. Runs(<<"descend", tree>>, base, q, k, v)
  BY <1>2, DescendFold
<1>5. \A s, x : Do(<<"descend", tree>>, s, x) = Descend(tree, s, x)
  <2> DEFINE kk == <<"descend", tree>>
  <2>1. kk[1] = "descend" /\ kk[2] = tree
    OBVIOUS
  <2> HIDE DEF kk
  <2>2. \A s, x : Do(kk, s, x) = Descend(tree, s, x)
    BY <2>1 DEF Do
  <2> QED
    BY <2>2 DEF kk
<1> HIDE DEF v
<1>6. PICK run : Goes(run, <<"descend", tree>>, base, q, k, v)
  <2> HIDE DEF q, base
  <2> QED
    BY <1>2, <1>4, RunFacts
<1> DEFINE G == {m \in Nat : m <= k => Descending(run[m], stakes, r, k - m)}
<1>7. 0 \in G
  <2>1. run[0] = base /\ base.pos = 0 /\ base.r = r
    BY <1>6 DEF Goes
  <2>2. Prefix(stakes, 0) = 0 /\ n \in Nat /\ 0 \in 0 .. n
    BY PrefixSums
  <2>3. PowerOfTwo[k] \in Nat /\ k - 0 = k /\ ~(0 + PowerOfTwo[k] <= n)
    BY <1>1, <2>2, PowersGrow
  <2>4. r - Prefix(stakes, 0) = r /\ r >= 0
    BY <2>2
  <2> HIDE DEF base, n
  <2>5. Descending(run[0], stakes, r, k)
    BY <2>1, <2>2, <2>3, <2>4 DEF Descending, n
  <2> QED
    BY <2>3, <2>5
<1>8. ASSUME NEW m \in Nat, m \in G PROVE m + 1 \in G
  <2> SUFFICES ASSUME m + 1 <= k
               PROVE  Descending(run[m + 1], stakes, r, k - (m + 1))
    OBVIOUS
  <2> DEFINE j == k - (m + 1)
  <2>1. j \in Nat /\ j + 1 = k - m /\ m <= k /\ m + 1 \in 1 .. k
    OBVIOUS
  <2>2. Descending(run[m], stakes, r, j + 1)
    BY <1>8, <2>1
  <2>3. q[m + 1] = PowerOfTwo[j]
    BY <1>1, <2>1
  <2>4. run[m + 1] = Do(<<"descend", tree>>, run[m], q[m + 1])
    BY <1>6 DEF Goes
  <2>5. run[m + 1] = Descend(tree, run[m], PowerOfTwo[j])
    BY <1>5, <2>3, <2>4
  <2> HIDE DEF j
  <2>6. Descending(run[m + 1], stakes, r, j)
    BY <2>1, <2>2, <2>5, DescendStep
  <2> QED
    BY <2>6 DEF j
<1>9. \A m \in Nat : m \in G
  <2> HIDE DEF G
  <2> QED
    BY <1>7, <1>8, Counting
<1>10. Descending(v, stakes, r, 0)
  <2>1. Descending(run[k], stakes, r, k - k) /\ k - k = 0
    BY <1>9
  <2>2. run[k] = v
    BY <1>6 DEF Goes
  <2> QED
    BY <2>1, <2>2
<1> DEFINE pos == v.pos
<1>11. /\ pos \in 0 .. n /\ v.r = r - Prefix(stakes, pos) /\ v.r >= 0
       /\ pos + 1 <= n => r < Prefix(stakes, pos + 1)
  BY <1>10, Powers DEF Descending
<1>12. Prefix(stakes, pos) \in Nat /\ Prefix(stakes, n) = StakeSum(stakes) /\ n \in Nat
  BY <1>11, PrefixSums
<1>13. Prefix(stakes, pos) <= r
  BY <1>11, <1>12
<1>14. pos # n
  BY <1>12, <1>13
<1> HIDE DEF pos, n, G
<1>15. FallsTo(stakes, r, pos)
  BY <1>11, <1>12, <1>13, <1>14 DEF FallsTo, n
<1> QED
  BY <1>3, <1>15 DEF pos

\* A scan finds it as well.
LEMMA Scans ==
    ASSUME NEW stakes \in Seq(Nat), NEW r \in Nat, NEW j, FallsTo(stakes, r, j)
    PROVE  LinearScan(stakes, r) = j
<1> DEFINE n == Len(stakes)
           Is(idx) == /\ Prefix(stakes, idx + 1) > r
                      /\ \A i \in 0 .. idx - 1 : Prefix(stakes, i + 1) <= r
<1>1. /\ j \in 0 .. n - 1 /\ n \in Nat
      /\ Prefix(stakes, j) <= r /\ r < Prefix(stakes, j + 1)
  BY DEF FallsTo
<1>2. \A i \in 0 .. n : Prefix(stakes, i) \in Nat
  BY PrefixSums
<1>3. \A i \in 0 .. j - 1 : Prefix(stakes, i + 1) <= r
  <2> SUFFICES ASSUME NEW i \in 0 .. j - 1 PROVE Prefix(stakes, i + 1) <= r
    OBVIOUS
  <2>1. i + 1 \in 0 .. n /\ j \in 0 .. n /\ i + 1 <= j
    BY <1>1
  <2>2. Prefix(stakes, i + 1) <= Prefix(stakes, j)
    BY <2>1, PrefixSums
  <2> QED
    BY <1>1, <1>2, <2>1, <2>2
<1>4. Is(j)
  <2>1. Prefix(stakes, j + 1) \in Nat
    BY <1>1, <1>2
  <2> QED
    BY <1>1, <1>3, <2>1
<1>5. ASSUME NEW idx \in 0 .. n - 1, Is(idx) PROVE idx = j
  <2>1. CASE idx < j
    <3>1. idx + 1 \in 0 .. n /\ idx \in 0 .. j - 1
      BY <1>1, <2>1
    <3>2. Prefix(stakes, idx + 1) <= r /\ Prefix(stakes, idx + 1) \in Nat
      BY <1>2, <1>3, <3>1
    <3> QED
      BY <1>5, <3>2
  <2>2. CASE j < idx
    <3>1. j \in 0 .. idx - 1 /\ j + 1 \in 0 .. n
      BY <1>1, <2>2
    <3>2. Prefix(stakes, j + 1) <= r /\ Prefix(stakes, j + 1) \in Nat
      BY <1>2, <1>5, <3>1
    <3> QED
      BY <1>1, <3>2
  <2> QED
    BY <1>1, <2>1, <2>2
<1>6. LinearScan(stakes, r) = CHOOSE idx \in 0 .. n - 1 : Is(idx)
  BY DEF LinearScan, Prefix
<1> HIDE DEF Is
<1> QED
  BY <1>1, <1>4, <1>5, <1>6

-----------------------------------------------------------------------------
(* Finding after removals *)

\* The removals of the positions q, from the tree base on.
FoldRemove(stakes, base, q) ==
    FoldLeft(LAMBDA t, idx : RemoveStake(t, idx, stakes[idx + 1]), base, q)

\* FoldLeft over the positions that are removed.
LEMMA RemoveFold ==
    ASSUME NEW stakes, NEW base, NEW q, NEW n, List(q, n)
    PROVE  Runs(<<"remove", stakes>>, base, q, n, FoldRemove(stakes, base, q))
<1> DEFINE k == <<"remove", stakes>>
           Fold(g) == [t \in SUBSET DOMAIN q |->
                          IF t = {} THEN base
                          ELSE RemoveStake(g[t \ {Max(t)}], q[Max(t)],
                                           stakes[q[Max(t)] + 1])]
           v == FoldRemove(stakes, base, q)
<1>0. k[1] = "remove" /\ k[2] = stakes
  OBVIOUS
<1> HIDE DEF k
<1>1. \A s, x : Do(k, s, x) = RemoveStake(s, x, stakes[x + 1])
  BY <1>0 DEF Do
<1>2. \A g : DoFold(k, base, q, g) = Fold(g)
  BY <1>1 DEF DoFold
<1>3. PICK h : h = DoFold(k, base, q, h)
  BY FoldExists
<1>4. h = Fold(h)
  BY <1>2, <1>3
<1>5. PICK g : g = Fold(g) /\ v = g[DOMAIN q]
  BY <1>4 DEF FoldRemove, FoldLeft, MapThenFoldSet
<1>6. g = DoFold(k, base, q, g)
  BY <1>2, <1>5
<1>7. Runs(k, base, q, n, g[DOMAIN q])
  BY <1>6, FoldRun
<1> QED
  BY <1>5, <1>7 DEF k

\* A finite set as a list.
LEMMA SetAsList ==
    ASSUME NEW S, IsFiniteSet(S)
    PROVE  /\ List(SetToSeq(S), Cardinality(S))
           /\ IsInjective(SetToSeq(S))
           /\ S = {SetToSeq(S)[i] : i \in 1 .. Cardinality(S)}
<1> DEFINE n == Cardinality(S)
           D == 1 .. n
           q == SetToSeq(S)
<1>1. n \in Nat /\ ExistsBijection(D, S)
  BY FS_CardinalityType
<1>2. PICK f : f \in [D -> S] /\ IsInjective(f)
  BY <1>1 DEF ExistsBijection, Bijection, Injection
<1>3. q \in [D -> S] /\ IsInjective(q)
  BY <1>2 DEF SetToSeq
<1>4. q \in Injection(D, S)
  BY <1>3 DEF Injection
<1>5. Cardinality(D) = n
  <2>1. Cardinality(D) = IF 1 > n THEN 0 ELSE n - 1 + 1
    BY <1>1, FS_Interval
  <2> QED
    BY <1>1, <2>1
<1>6. q \in Surjection(D, S)
  <2> HIDE DEF q, D, n
  <2>1. Cardinality(D) = Cardinality(S)
    BY <1>5 DEF n
  <2> QED
    BY <1>4, <2>1, FS_Injection
<1>7. S = {q[i] : i \in D}
  BY <1>3, <1>6 DEF Surjection
<1>8. List(q, n)
  BY <1>1, <1>3 DEF List
<1> HIDE DEF q, D, n
<1> QED
  BY <1>3, <1>7, <1>8 DEF q, D, n

\* The stakes that remain.
LEMMA Remaining ==
    ASSUME NEW stakes \in Seq(Nat), NEW S
    PROVE  /\ RemainingStakes(stakes, S) \in Seq(Nat)
           /\ Len(RemainingStakes(stakes, S)) = Len(stakes)
           /\ RemainingStakes(stakes, {}) = stakes
           /\ \A idx \in 0 .. Len(stakes) - 1 :
                 /\ idx \notin S =>
                       RemainingStakes(stakes, S)[idx + 1] = stakes[idx + 1]
                 /\ Without(RemainingStakes(stakes, S), idx + 1) =
                       RemainingStakes(stakes, S \cup {idx})
<1> DEFINE n == Len(stakes)
<1>0. n \in Nat /\ stakes \in [1 .. n -> Nat]
  OBVIOUS
<1>1. RemainingStakes(stakes, S) \in Seq(Nat) /\ Len(RemainingStakes(stakes, S)) = n
  BY <1>0 DEF RemainingStakes
<1>2. RemainingStakes(stakes, {}) = stakes
  BY <1>0 DEF RemainingStakes
<1>3. ASSUME NEW idx \in 0 .. n - 1
      PROVE  /\ idx \notin S =>
                   RemainingStakes(stakes, S)[idx + 1] = stakes[idx + 1]
             /\ Without(RemainingStakes(stakes, S), idx + 1) =
                   RemainingStakes(stakes, S \cup {idx})
  <2>1. idx + 1 \in 1 .. n /\ \A i \in 1 .. n : i = idx + 1 <=> i - 1 = idx
    BY <1>0
  <2> QED
    BY <1>0, <2>1 DEF RemainingStakes, Without
<1> QED
  BY <1>1, <1>2, <1>3

\* Removals keep the sums.
LEMMA AfterRemovals ==
    ASSUME NEW stakes \in Seq(Nat), NEW removed \in SUBSET (0 .. Len(stakes) - 1)
    PROVE  Sums(TreeAfter(stakes, removed), RemainingStakes(stakes, removed))
<1> DEFINE q == SetToSeq(removed)
           n == Cardinality(removed)
           base == NewStakeFenwickTree(stakes)
           v == FoldRemove(stakes, base, q)
           First(m) == {q[i] : i \in 1 .. m}
<1>1. IsFiniteSet(removed)
  <2>1. IsFiniteSet(0 .. Len(stakes) - 1)
    BY FS_Interval
  <2> QED
    BY <2>1, FS_Subset
<1>2. List(q, n) /\ IsInjective(q) /\ removed = First(n)
  BY <1>1, SetAsList
<1>3. TreeAfter(stakes, removed) = v
  BY DEF TreeAfter, FoldRemove
<1>4. Runs(<<"remove", stakes>>, base, q, n, v)
  <2> HIDE DEF q, base, n
  <2> QED
    BY <1>2, RemoveFold
<1>5. \A s, x : Do(<<"remove", stakes>>, s, x) = RemoveStake(s, x, stakes[x + 1])
  <2> DEFINE kk == <<"remove", stakes>>
  <2>1. kk[1] = "remove" /\ kk[2] = stakes
    OBVIOUS
  <2> HIDE DEF kk
  <2>2. \A s, x : Do(kk, s, x) = RemoveStake(s, x, stakes[x + 1])
    BY <2>1 DEF Do
  <2> QED
    BY <2>2 DEF kk
<1> HIDE DEF v, q, n
<1>6. PICK run : Goes(run, <<"remove", stakes>>, base, q, n, v)
  <2> HIDE DEF base
  <2> QED
    BY <1>2, <1>4, RunFacts
<1>7. n \in Nat /\ DOMAIN q = 1 .. n
  BY <1>2 DEF List
<1> DEFINE Ok(m) == Sums(run[m], RemainingStakes(stakes, First(m)))
           G == {m \in Nat : m <= n => Ok(m)}
<1>8. 0 \in G
  <2>1. First(0) = {}
    OBVIOUS
  <2>2. RemainingStakes(stakes, First(0)) = stakes
    BY <2>1, Remaining
  <2>3. run[0] = base
    BY <1>6 DEF Goes
  <2>4. Ok(0)
    BY <2>2, <2>3, Built
  <2> QED
    BY <2>4
<1>9. ASSUME NEW m \in Nat, m \in G PROVE m + 1 \in G
  <2> SUFFICES ASSUME m + 1 <= n PROVE Ok(m + 1)
    OBVIOUS
  <2> DEFINE idx == q[m + 1]
             rest == RemainingStakes(stakes, First(m))
  <2>1. Ok(m)
    BY <1>7, <1>9
  <2>2. m + 1 \in 1 .. n
    BY <1>7
  <2>3. idx \in removed /\ idx \in 0 .. Len(stakes) - 1
    BY <1>2, <2>2
  <2>4. idx \notin First(m)
    <3>1. \A i \in 1 .. m : i \in DOMAIN q /\ m + 1 \in DOMAIN q /\ i # m + 1
      BY <1>7, <2>2
    <3> QED
      BY <1>2, <3>1 DEF IsInjective
  <2>5. First(m + 1) = First(m) \cup {idx}
    <3>1. 1 .. m + 1 = (1 .. m) \cup {m + 1}
      OBVIOUS
    <3> QED
      BY <3>1
  <2>6. run[m + 1] = Do(<<"remove", stakes>>, run[m], idx)
    BY <1>6 DEF Goes
  <2>7. run[m + 1] = RemoveStake(run[m], idx, stakes[idx + 1])
    <3> HIDE DEF idx
    <3> QED
      BY <1>5, <2>6
  <2> HIDE DEF idx, First
  <2>8. /\ rest \in Seq(Nat) /\ Len(rest) = Len(stakes)
        /\ rest[idx + 1] = stakes[idx + 1]
        /\ Without(rest, idx + 1) = RemainingStakes(stakes, First(m + 1))
    <3> DEFINE S == First(m)
    <3>1. S = First(m) /\ idx \notin S /\ First(m + 1) = S \cup {idx}
      BY <2>4, <2>5
    <3> HIDE DEF S
    <3>2. /\ RemainingStakes(stakes, S) \in Seq(Nat)
          /\ Len(RemainingStakes(stakes, S)) = Len(stakes)
          /\ RemainingStakes(stakes, S)[idx + 1] = stakes[idx + 1]
          /\ Without(RemainingStakes(stakes, S), idx + 1) =
                RemainingStakes(stakes, S \cup {idx})
      <4>1. /\ RemainingStakes(stakes, S) \in Seq(Nat)
            /\ Len(RemainingStakes(stakes, S)) = Len(stakes)
        BY Remaining
      <4>2. \A i \in 0 .. Len(stakes) - 1 :
               /\ i \notin S =>
                     RemainingStakes(stakes, S)[i + 1] = stakes[i + 1]
               /\ Without(RemainingStakes(stakes, S), i + 1) =
                     RemainingStakes(stakes, S \cup {i})
        BY Remaining
      <4>3. idx \in 0 .. Len(stakes) - 1 /\ idx \notin S
        BY <2>3, <3>1
      <4> HIDE DEF base, G, rest
      <4> QED
        BY <4>1, <4>2, <4>3
    <3> QED
      BY <3>1, <3>2
  <2> HIDE DEF rest
  <2>9. Sums(run[m], rest)
    BY <2>1 DEF rest
  <2>10. Sums(RemoveStake(run[m], idx, rest[idx + 1]), Without(rest, idx + 1))
    BY <2>3, <2>8, <2>9, TreeRemoved
  <2> QED
    BY <2>7, <2>8, <2>10
<1>10. \A m \in Nat : m \in G
  <2> HIDE DEF G
  <2> QED
    BY <1>8, <1>9, Counting
<1>11. Ok(n)
  BY <1>7, <1>10
<1>12. run[n] = v
  BY <1>6 DEF Goes
<1> HIDE DEF First, G
<1> QED
  BY <1>2, <1>3, <1>11, <1>12

\* The tree finds what the scan finds, however far the selection has come.
LEMMA FindsAsScanned ==
    ASSUME NEW stakes \in Seq(Nat), NEW removed \in SUBSET (0 .. Len(stakes) - 1)
    PROVE  FindsWhatScanFinds(stakes, removed)
<1> DEFINE tree == TreeAfter(stakes, removed)
           rest == RemainingStakes(stakes, removed)
<1>1. Sums(tree, rest)
  BY AfterRemovals
<1>2. rest \in Seq(Nat)
  BY Remaining
<1> HIDE DEF tree, rest
<1>3. StakeSum(rest) \in Nat
  <2>1. Len(rest) \in 0 .. Len(rest) /\ Prefix(rest, Len(rest)) = StakeSum(rest)
    BY <1>2, PrefixSums
  <2>2. Prefix(rest, Len(rest)) \in Nat
    BY <1>2, <2>1, PrefixSums
  <2> QED
    BY <2>1, <2>2
<1>4. ASSUME NEW r \in 0 .. StakeSum(rest) - 1
      PROVE  FindByWeight(tree, r) = LinearScan(rest, r)
  <2>1. r \in Nat /\ r < StakeSum(rest)
    BY <1>3
  <2>2. FallsTo(rest, r, FindByWeight(tree, r))
    BY <1>1, <1>2, <2>1, Finds
  <2> QED
    BY <1>2, <2>1, <2>2, Scans
<1> QED
  BY <1>4 DEF FindsWhatScanFinds, FindsTheSame, tree, rest

-----------------------------------------------------------------------------
(* The known validators and their stakes *)

\* Those of q that have a storage, behind base.
FoldKnown(storages, base, q) ==
    FoldLeft(LAMBDA l, v : AppendKnown(storages, l, v), base, q)

\* FoldLeft over a registry.
LEMMA KnownFold ==
    ASSUME NEW storages, NEW base, NEW q, NEW n, List(q, n)
    PROVE  Runs(<<"known", storages>>, base, q, n, FoldKnown(storages, base, q))
<1> DEFINE k == <<"known", storages>>
           Fold(g) == [t \in SUBSET DOMAIN q |->
                          IF t = {} THEN base
                          ELSE AppendKnown(storages, g[t \ {Max(t)}], q[Max(t)])]
           v == FoldKnown(storages, base, q)
<1>0. k[1] = "known" /\ k[2] = storages
  OBVIOUS
<1> HIDE DEF k
<1>1. \A s, x : Do(k, s, x) = AppendKnown(storages, s, x)
  BY <1>0 DEF Do
<1>2. \A g : DoFold(k, base, q, g) = Fold(g)
  BY <1>1 DEF DoFold
<1>3. PICK h : h = DoFold(k, base, q, h)
  BY FoldExists
<1>4. h = Fold(h)
  BY <1>2, <1>3
<1>5. PICK g : g = Fold(g) /\ v = g[DOMAIN q]
  BY <1>4 DEF FoldKnown, FoldLeft, MapThenFoldSet
<1>6. g = DoFold(k, base, q, g)
  BY <1>2, <1>5
<1>7. Runs(k, base, q, n, g[DOMAIN q])
  BY <1>6, FoldRun
<1> QED
  BY <1>5, <1>7 DEF k

\* What is known of the first m of a registry.
KnownOf(storages, reg, m, q) ==
    /\ q \in Seq(Validator) /\ Len(q) <= m /\ IsInjective(q)
    /\ \A x \in ToSet(q) : x \in DOMAIN storages /\ \E j \in 1 .. m : reg[j] = x
    /\ \A j \in 1 .. m : reg[j] \in DOMAIN storages => reg[j] \in ToSet(q)

\* The known validators are those of the registry that have a storage.
LEMMA KnownFacts ==
    ASSUME NEW storages, NEW reg \in Seq(Validator), IsInjective(reg)
    PROVE  LET q == Known(storages, reg)
           IN  /\ q \in Seq(Validator) /\ IsInjective(q) /\ Len(q) <= Len(reg)
               /\ ToSet(q) = ToSet(reg) \cap DOMAIN storages
<1> DEFINE n == Len(reg)
           v == FoldKnown(storages, <<>>, reg)
           k == <<"known", storages>>
<1>1. Known(storages, reg) = v
  BY DEF Known, FoldKnown
<1>2. List(reg, n) /\ n \in Nat /\ \A i \in 1 .. n : reg[i] \in Validator
  BY DEF List
<1>3. Runs(k, <<>>, reg, n, v)
  BY <1>2, KnownFold
<1>4. \A s, x : Do(k, s, x) = AppendKnown(storages, s, x)
  <2>1. k[1] = "known" /\ k[2] = storages
    OBVIOUS
  <2> HIDE DEF k
  <2> QED
    BY <2>1 DEF Do
<1> HIDE DEF v, k
<1>5. PICK run : Goes(run, k, <<>>, reg, n, v)
  BY <1>2, <1>3, RunFacts
<1> DEFINE Ok(m) == KnownOf(storages, reg, m, run[m])
           G == {m \in Nat : m <= n => Ok(m)}
<1>6. 0 \in G
  <2>1. run[0] = <<>>
    BY <1>5 DEF Goes
  <2>2. /\ <<>> \in Seq(Validator) /\ Len(<<>>) = 0
        /\ IsInjective(<<>>) /\ ToSet(<<>>) = {}
    BY DEF IsInjective, ToSet
  <2>3. Ok(0)
    BY <2>1, <2>2 DEF KnownOf
  <2> QED
    BY <2>3
<1>7. ASSUME NEW m \in Nat, m \in G PROVE m + 1 \in G
  <2> SUFFICES ASSUME m + 1 <= n PROVE Ok(m + 1)
    OBVIOUS
  <2> DEFINE q == run[m]
             e == reg[m + 1]
  <2>1. KnownOf(storages, reg, m, q)
    BY <1>2, <1>7
  <2>2. run[m + 1] = AppendKnown(storages, q, e) /\ m + 1 \in DOMAIN reg
    BY <1>4, <1>5 DEF Goes
  <2>3. e \in Validator /\ DOMAIN reg = 1 .. n
    BY <1>2
  <2>4. e \notin ToSet(q)
    <3>1. SUFFICES ASSUME NEW j \in 1 .. m, reg[j] = e PROVE FALSE
      BY <2>1 DEF KnownOf
    <3>2. j \in DOMAIN reg /\ j # m + 1
      BY <1>2, <2>3
    <3> QED
      BY <2>2, <3>1, <3>2 DEF IsInjective
  <2> HIDE DEF q
  <2>5. CASE e \in DOMAIN storages
    <3> DEFINE r == Append(q, e)
    <3>1. run[m + 1] = r
      BY <2>2, <2>5 DEF AppendKnown
    <3>2. q \in Seq(Validator) /\ Len(q) <= m /\ IsInjective(q)
      BY <2>1 DEF KnownOf
    <3>3. Len(r) <= m + 1
      BY <3>2
    <3>4. r \in Seq(Validator) /\ IsInjective(r) /\ ToSet(r) = ToSet(q) \cup {e}
      BY <2>3, <2>4, <3>2, Joins
    <3>5. \A x \in ToSet(r) : x \in DOMAIN storages /\ \E j \in 1 .. m + 1 : reg[j] = x
      <4>1. \A j \in 1 .. m : j \in 1 .. m + 1
        OBVIOUS
      <4>2. m + 1 \in 1 .. m + 1
        OBVIOUS
      <4> HIDE DEF r
      <4> QED
        BY <2>1, <2>5, <3>4, <4>1, <4>2 DEF KnownOf
    <3>6. \A j \in 1 .. m + 1 : reg[j] \in DOMAIN storages => reg[j] \in ToSet(r)
      <4>1. \A j \in 1 .. m + 1 : j \in 1 .. m \/ reg[j] = e
        OBVIOUS
      <4> HIDE DEF r, e
      <4> QED
        BY <2>1, <3>4, <4>1 DEF KnownOf
    <3> HIDE DEF r
    <3> QED
      BY <3>1, <3>3, <3>4, <3>5, <3>6 DEF KnownOf
  <2>6. CASE e \notin DOMAIN storages
    <3>1. run[m + 1] = q
      BY <2>2, <2>6 DEF AppendKnown
    <3>2. KnownOf(storages, reg, m + 1, q)
      <4>1. \A j \in 1 .. m : j \in 1 .. m + 1
        OBVIOUS
      <4>2. Len(q) <= m + 1
        BY <2>1 DEF KnownOf
      <4>3. \A j \in 1 .. m + 1 : j \in 1 .. m \/ reg[j] = e
        OBVIOUS
      <4> HIDE DEF e
      <4>4. \A j \in 1 .. m + 1 : reg[j] \in DOMAIN storages => reg[j] \in ToSet(q)
        BY <2>1, <2>6, <4>3 DEF KnownOf
      <4> QED
        BY <2>1, <4>1, <4>2, <4>4 DEF KnownOf
    <3> QED
      BY <3>1, <3>2
  <2> QED
    BY <2>5, <2>6
<1>8. \A m \in Nat : m \in G
  <2> HIDE DEF G
  <2> QED
    BY <1>6, <1>7, Counting
<1>9. KnownOf(storages, reg, n, v)
  <2>1. Ok(n) /\ run[n] = v
    BY <1>2, <1>5, <1>8 DEF Goes
  <2> QED
    BY <2>1
<1>10. DOMAIN reg = 1 .. n
  BY <1>2 DEF List
<1> HIDE DEF n, G
<1>11. ToSet(v) = ToSet(reg) \cap DOMAIN storages
  BY <1>9, <1>10 DEF KnownOf, ToSet
<1> QED
  BY <1>1, <1>9, <1>11 DEF KnownOf, n

\* The stakes that a selection is made from.
LEMMA StakesFacts ==
    ASSUME NEW storages, GoodView(storages), NEW q \in Seq(Validator),
           ToSet(q) \subseteq DOMAIN storages
    PROVE  Stakes(storages, q) \in Seq(Nat) /\ Len(Stakes(storages, q)) = Len(q)
<1> DEFINE n == Len(q)
<1>1. n \in Nat /\ \A i \in 1 .. n : q[i] \in DOMAIN storages
  BY DEF ToSet
<1>2. \A i \in 1 .. n : storages[q[i]].total \in Nat
  BY <1>1 DEF GoodView, Funded, Storage
<1>3. Stakes(storages, q) = [i \in 1 .. n |-> storages[q[i]].total]
  BY DEF Stakes
<1> HIDE DEF n
<1> QED
  BY <1>1, <1>2, <1>3 DEF n

-----------------------------------------------------------------------------
(* Stores, whatever the caches hold: all storages add up *)

\* A store as it is at every moment, with caches of any size and with objects
\* that the other thread has changed.
Stocked(s) ==
    /\ StoreShape(s)
    /\ s.cached \cup s.touched \subseteq DOMAIN s.mem
    /\ s.shared \subseteq DOMAIN s.mem
    /\ GoodView(s.db) /\ GoodView(s.mem) /\ InOrder(s)

\* What such a store shows adds up.
LEMMA StockedView ==
    ASSUME NEW s, Stocked(s)
    PROVE  /\ GoodView(View(s))
           /\ \A v : Exists(s, v) => v \in Validator /\ Funded(StorageOf(s, v))
<1>1. \A v \in DOMAIN s.db \cup DOMAIN s.mem :
          v \in Validator /\ Funded(StorageOf(s, v))
  BY DEF Stocked, GoodView, StorageOf
<1>2. /\ DOMAIN View(s) = DOMAIN s.db \cup DOMAIN s.mem
      /\ \A v \in DOMAIN View(s) : View(s)[v] = StorageOf(s, v)
  BY DEF View
<1>3. GoodView(View(s))
  BY <1>1, <1>2 DEF GoodView
<1>4. \A v : Exists(s, v) => v \in DOMAIN s.db \cup DOMAIN s.mem
  BY DEF Stocked, Exists, InMemory
<1> QED
  BY <1>1, <1>3, <1>4

\* An eviction leaves it one.
LEMMA EvictedStocked ==
    ASSUME NEW s, Stocked(s), NEW t, Evicted(s, t)
    PROVE  Stocked(t) /\ t.mem = s.mem /\ t.touched = s.touched
BY DEF Stocked, Evicted

\* So does the collection of garbage.
LEMMA CollectStocked ==
    ASSUME NEW s, Stocked(s), NEW t, t = Collect(s)
    PROVE  Stocked(t) /\ t.touched = s.touched
<1>1. /\ StoreShape(t) /\ t.db = s.db
      /\ t.cached = s.cached /\ t.touched = s.touched
      /\ t.mem = [v \in s.cached \cup s.touched |-> s.mem[v]]
  BY CollectFacts DEF Stocked
<1>2. t.shared = s.shared \cap (s.cached \cup s.touched) /\ t.lru = s.lru
  BY DEF Collect, Stocked, StoreShape
<1>3. GoodView(t.mem)
  BY <1>1 DEF Stocked, GoodView
<1>4. InOrder(t)
  BY <1>1, <1>2 DEF Stocked, InOrder
<1> QED
  BY <1>1, <1>2, <1>3, <1>4 DEF Stocked

\* And a mark on what is in memory.
LEMMA MarkStocked ==
    ASSUME NEW s, Stocked(s), NEW v \in DOMAIN s.mem,
           NEW t, t = MarkTouched(s, v)
    PROVE  Stocked(t) /\ t.touched = s.touched \cup {v} /\ t.mem = s.mem
<1>1. /\ DOMAIN t = DOMAIN s /\ t.db = s.db /\ t.cap = s.cap /\ t.mem = s.mem
      /\ t.cached = s.cached /\ t.touched = s.touched \cup {v}
      /\ t.lru = s.lru /\ t.shared = s.shared
  BY DEF MarkTouched, Stocked, StoreShape
<1>2. InOrder(t)
  BY <1>1 DEF Stocked, InOrder
<1> QED
  BY <1>1, <1>2 DEF Stocked, StoreShape

\* A storage that adds up is put into the cache.
LEMMA PutStocked ==
    ASSUME NEW s, Stocked(s), NEW v \in Validator, NEW x, Funded(x),
           NEW t, t = PutCache(s, v, x)
    PROVE  Stocked(t) /\ v \in DOMAIN t.mem /\ t.touched = s.touched
<1> DEFINE mem == [w \in DOMAIN s.mem \cup {v} |-> IF w = v THEN x ELSE s.mem[w]]
           r == [s EXCEPT !.mem = mem, !.cached = s.cached \cup {v}]
<1>1. t = TouchCache(r, v)
  BY DEF PutCache
<1>2. /\ DOMAIN r = DOMAIN s /\ r.db = s.db /\ r.cap = s.cap /\ r.mem = mem
      /\ r.cached = s.cached \cup {v} /\ r.touched = s.touched
      /\ r.lru = s.lru /\ r.shared = s.shared
  BY DEF Stocked, StoreShape
<1> HIDE DEF r
<1>3. GoodView(mem) /\ DOMAIN mem = DOMAIN s.mem \cup {v}
  BY DEF Stocked, GoodView
<1> HIDE DEF mem
<1>4. StoreShape(r)
  BY <1>2 DEF Stocked, StoreShape
<1>5. IsInjective(r.lru) /\ r.cached \subseteq ToSet(r.lru) \cup {v}
  BY <1>2 DEF Stocked, InOrder
<1>6. Evicted(r, t) /\ InOrder(t)
  BY <1>1, <1>4, <1>5, TouchEvicts
<1>7. s.cached \cup {v} \cup s.touched \subseteq DOMAIN mem
  BY <1>3 DEF Stocked
<1> QED
  BY <1>2, <1>3, <1>6, <1>7 DEF Stocked, Evicted

\* A read under the lock.
LEMMA GetStocked ==
    ASSUME NEW s, Stocked(s), NEW v \in Validator,
           NEW t, t = GetValidator(s, v)
    PROVE  Stocked(t) /\ (Exists(s, v) => v \in t.touched)
<1>1. CASE v \in s.touched
  <2> DEFINE u == TouchCache(s, v)
  <2>1. Stocked(u) /\ u.touched = s.touched
    BY TouchEvicts, EvictedStocked DEF Stocked
  <2>2. t = Collect(u)
    BY <1>1 DEF GetValidator
  <2> HIDE DEF u
  <2> QED
    BY <1>1, <2>1, <2>2, CollectStocked
<1>2. CASE v \notin s.touched /\ v \in s.cached
  <2> DEFINE u == TouchCache(s, v)
             m == MarkTouched(u, v)
  <2>1. Stocked(u) /\ u.mem = s.mem
    BY TouchEvicts, EvictedStocked DEF Stocked
  <2>2. t = Collect(m)
    BY <1>2 DEF GetValidator
  <2>3. v \in DOMAIN u.mem
    BY <1>2, <2>1 DEF Stocked
  <2> HIDE DEF u
  <2>4. Stocked(m) /\ v \in m.touched
    BY <2>1, <2>3, MarkStocked
  <2> HIDE DEF m
  <2> QED
    BY <2>2, <2>4, CollectStocked
<1>3. CASE v \notin s.touched /\ v \notin s.cached /\ v \in DOMAIN s.db
  <2> DEFINE u == PutCache(s, v, s.db[v])
             m == MarkTouched(u, v)
  <2>1. Funded(s.db[v])
    BY <1>3 DEF Stocked, GoodView
  <2>2. Stocked(u) /\ v \in DOMAIN u.mem
    BY <2>1, PutStocked
  <2>3. t = Collect(m)
    BY <1>3 DEF GetValidator
  <2> HIDE DEF u
  <2>4. Stocked(m) /\ v \in m.touched
    BY <2>2, MarkStocked
  <2> HIDE DEF m
  <2> QED
    BY <2>3, <2>4, CollectStocked
<1>4. CASE v \notin s.touched /\ v \notin s.cached /\ v \notin DOMAIN s.db
  BY <1>4 DEF GetValidator, Exists, InMemory
<1> QED
  BY <1>1, <1>2, <1>3, <1>4

\* A write to what is in memory.
LEMMA SetStocked ==
    ASSUME NEW s, Stocked(s), NEW v \in DOMAIN s.mem, NEW x, Funded(x),
           NEW t, t = SetStorage(s, v, x)
    PROVE  Stocked(t)
<1>1. /\ DOMAIN t = DOMAIN s /\ t.db = s.db /\ t.cap = s.cap
      /\ t.cached = s.cached /\ t.touched = s.touched /\ t.lru = s.lru
      /\ t.mem = [s.mem EXCEPT ![v] = x] /\ t.shared = s.shared
  BY DEF SetStorage, Stocked, StoreShape
<1>2. DOMAIN t.mem = DOMAIN s.mem /\ GoodView(t.mem)
  BY <1>1 DEF Stocked, GoodView
<1> QED
  BY <1>1, <1>2 DEF Stocked, StoreShape, InOrder

\* The end of a read without the lock.
LEMMA FillStocked ==
    ASSUME NEW s, Stocked(s), NEW v \in Validator, NEW x, Funded(x),
           NEW t, t = FillCache(s, v, x)
    PROVE  Stocked(t)
<1> DEFINE u == PutCache(s, v, x)
<1>1. Stocked(u)
  BY PutStocked
<1>2. t = s \/ t = Collect(u)
  BY DEF FillCache
<1> HIDE DEF u
<1> QED
  BY <1>1, <1>2, CollectStocked

\* What the other thread's batch does to objects that both have.
LEMMA MirrorStocked ==
    ASSUME NEW o, Stocked(o), NEW s, Stocked(s), NEW t, t = Mirror(o, s)
    PROVE  Stocked(t)
<1> DEFINE mem == [v \in DOMAIN o.mem |->
                      IF v \in o.shared \cap s.shared THEN s.mem[v] ELSE o.mem[v]]
<1>1. /\ DOMAIN t = DOMAIN o /\ t.db = o.db /\ t.cap = o.cap
      /\ t.cached = o.cached /\ t.touched = o.touched /\ t.lru = o.lru
      /\ t.mem = mem /\ t.shared = o.shared
  BY DEF Mirror, Stocked, StoreShape
<1>2. DOMAIN mem = DOMAIN o.mem /\ GoodView(mem)
  BY DEF Stocked, GoodView
<1> HIDE DEF mem
<1> QED
  BY <1>1, <1>2 DEF Stocked, StoreShape, InOrder

\* The write at the end of a batch.
LEMMA WriteStocked ==
    ASSUME NEW s, Stocked(s), NEW t, t = WriteTouched(s)
    PROVE  Stocked(t)
<1> DEFINE db == [v \in DOMAIN s.db \cup s.touched |->
                     IF v \in s.touched THEN s.mem[v] ELSE s.db[v]]
<1>1. /\ DOMAIN t = DOMAIN s /\ t.db = db /\ t.cap = s.cap
      /\ t.cached = s.cached /\ t.touched = s.touched /\ t.lru = s.lru
      /\ t.mem = s.mem /\ t.shared = s.shared
  BY DEF WriteTouched, Stocked, StoreShape
<1>2. GoodView(db)
  BY DEF Stocked, GoodView
<1> HIDE DEF db
<1> QED
  BY <1>1, <1>2 DEF Stocked, StoreShape, InOrder

\* The touched set is emptied.
LEMMA ResetStocked ==
    ASSUME NEW s, Stocked(s), NEW t, t = ResetTouched(s)
    PROVE  Stocked(t)
<1> DEFINE u == [s EXCEPT !.touched = {}]
<1>1. /\ DOMAIN u = DOMAIN s /\ u.db = s.db /\ u.cap = s.cap
      /\ u.cached = s.cached /\ u.touched = {} /\ u.lru = s.lru
      /\ u.mem = s.mem /\ u.shared = s.shared
  BY DEF Stocked, StoreShape
<1>2. t = Collect(u)
  BY DEF ResetTouched
<1> HIDE DEF u
<1>3. Stocked(u)
  BY <1>1 DEF Stocked, StoreShape, InOrder
<1> QED
  BY <1>2, <1>3, CollectStocked

\* A store with nothing in memory.
LEMMA OpenStocked ==
    ASSUME NEW db, GoodView(db), NEW cap \in Nat, NEW t, t = OpenStore(db, cap)
    PROVE  Stocked(t)
<1>1. /\ DOMAIN t = {"db", "cap", "mem", "cached", "touched", "lru", "shared"}
      /\ t.db = db /\ t.cap = cap /\ t.mem = [v \in {} |-> 0]
      /\ t.cached = {} /\ t.touched = {} /\ t.lru = <<>> /\ t.shared = {}
  BY DEF OpenStore
<1>2. GoodView(t.mem) /\ t.lru \in Seq(Validator) /\ IsInjective(t.lru)
  BY <1>1 DEF GoodView, IsInjective
<1> QED
  BY <1>1, <1>2 DEF Stocked, StoreShape, InOrder

\* The database of a store is another one.
LEMMA DbStocked ==
    ASSUME NEW s, Stocked(s), NEW db, GoodView(db),
           NEW t, t = [s EXCEPT !.db = db]
    PROVE  Stocked(t)
<1>1. /\ DOMAIN t = DOMAIN s /\ t.db = db /\ t.cap = s.cap
      /\ t.cached = s.cached /\ t.touched = s.touched /\ t.lru = s.lru
      /\ t.mem = s.mem /\ t.shared = s.shared
  BY DEF Stocked, StoreShape
<1> QED
  BY <1>1 DEF Stocked, StoreShape, InOrder

-----------------------------------------------------------------------------
(* Contexts, whatever the caches hold: the registry has everyone once *)

\* A list of validators without repetitions.
Listed(q) == q \in Seq(Validator) /\ IsInjective(q)

\* What a context counts.
Counted(x) ==
    /\ x.params \in NetworkParameters /\ x.version \in Nat
    /\ x.stakingDelta \in Int /\ x.balances \in [Staker -> Nat]

\* A context as it is at every moment.
Sound(x) ==
    /\ ContextShape(x) /\ Stocked(x.store) /\ Listed(x.registry)
    /\ Counted(x)

\* A validator joins or leaves the registry.
LEMMA ListedAfter ==
    ASSUME NEW x, Listed(x.registry), NEW v \in Validator, NEW total
    PROVE  Listed(JoinRegistry(x, v, total)) /\ Listed(LeaveRegistry(x, v, total))
<1> DEFINE reg == x.registry
<1>1. Contains(reg, v) \/ v \notin ToSet(reg)
  BY DEF Contains, ToSet, Listed
<1>2. v \notin ToSet(reg) => Listed(Append(reg, v))
  BY Joins DEF Listed
<1>3. Listed(RemoveFirst(reg, v))
  BY Removed DEF Listed
<1>4. JoinRegistry(x, v, total) = reg \/
      (~Contains(reg, v) /\ JoinRegistry(x, v, total) = Append(reg, v))
  BY DEF JoinRegistry
<1>5. LeaveRegistry(x, v, total) \in {reg, RemoveFirst(reg, v)}
  BY DEF LeaveRegistry
<1> QED
  BY <1>1, <1>2, <1>3, <1>4, <1>5

\* A context with another store.
LEMMA SoundStore ==
    ASSUME NEW x, Sound(x), NEW t, Stocked(t), NEW y, y = [x EXCEPT !.store = t]
    PROVE  Sound(y)
<1>1. /\ ContextShape(y) /\ y.store = t /\ y.registry = x.registry
      /\ y.params = x.params /\ y.version = x.version
      /\ y.stakingDelta = x.stakingDelta /\ y.balances = x.balances
  BY DEF Sound, ContextShape
<1> QED
  BY <1>1 DEF Sound, Counted

\* CREATE_VALIDATOR on any store.
LEMMA CreateSound ==
    ASSUME NEW x, Sound(x), NEW tx \in DelayedTransaction,
           tx.type = "createValidator"
    PROVE  Sound(CreateValidator(x, tx))
<1> DEFINE v == tx.creator
           new == [details |-> tx.details, total |-> 0,
                   stakers |-> [a \in {v} |-> 0]]
           p == PutCache(x.store, v, new)
           m == MarkTouched(p, v)
           t == Collect(m)
<1>1. CASE tx.details \notin ValidDetails \/ ~IsNew(x.store, v)
  BY <1>1 DEF CreateValidator
<1>2. CASE ~(tx.details \notin ValidDetails \/ ~IsNew(x.store, v))
  <2>1. CreateValidator(x, tx) = [x EXCEPT !.store = t]
    BY <1>2 DEF CreateValidator
  <2>2. v \in Validator
    BY TransactionFacts
  <2>3. Funded(new)
    <3>1. tx.details \in ValidDetails
      BY <1>2
    <3> HIDE DEF v
    <3> QED
      BY <2>2, <3>1, NewFunded
  <2>4. Stocked(x.store)
    BY DEF Sound
  <2> HIDE DEF new, v
  <2>5. Stocked(p) /\ v \in DOMAIN p.mem
    BY <2>2, <2>3, <2>4, PutStocked
  <2> HIDE DEF p
  <2>6. Stocked(m)
    BY <2>5, MarkStocked
  <2> HIDE DEF m
  <2>7. Stocked(t)
    BY <2>6, CollectStocked
  <2> HIDE DEF t
  <2> QED
    BY <2>1, <2>7, SoundStore
<1> QED
  BY <1>1, <1>2

\* UPDATE_VALIDATOR on any store.
LEMMA UpdateSound ==
    ASSUME NEW x, Sound(x), NEW tx \in DelayedTransaction,
           tx.type = "updateValidator"
    PROVE  Sound(UpdateValidator(x, tx))
<1> DEFINE v == tx.creator
           o == StorageOf(x.store, v)
           n == [o EXCEPT !.details = tx.details]
           g == GetValidator(x.store, v)
           w == SetStorage(g, v, n)
           t == TouchCache(w, v)
<1>1. CASE tx.details \notin ValidDetails \/ ~Exists(x.store, v)
  BY <1>1 DEF UpdateValidator
<1>2. CASE ~(tx.details \notin ValidDetails \/ ~Exists(x.store, v))
  <2>1. UpdateValidator(x, tx) = [x EXCEPT !.store = t]
    BY <1>2 DEF UpdateValidator
  <2>2. v \in Validator
    BY TransactionFacts
  <2>3. Stocked(x.store)
    BY DEF Sound
  <2>4. Funded(o)
    BY <1>2, <2>3, StockedView
  <2>5. Funded(n)
    <3> HIDE DEF o
    <3>1. tx.details \in Details
      BY <1>2, DetailsAssumption
    <3>2. /\ DOMAIN n = DOMAIN o /\ n.details = tx.details
          /\ n.total = o.total /\ n.stakers = o.stakers
      BY <2>4 DEF Funded, Storage
    <3> HIDE DEF n
    <3> QED
      BY <2>4, <3>1, <3>2 DEF Funded, Storage, AddsUp
  <2>6. Stocked(g) /\ v \in DOMAIN g.mem
    <3>1. Stocked(g) /\ v \in g.touched
      BY <1>2, <2>2, <2>3, GetStocked
    <3> QED
      BY <3>1 DEF Stocked
  <2> HIDE DEF g, n, o
  <2>7. Stocked(w)
    BY <2>5, <2>6, SetStocked
  <2> HIDE DEF w
  <2>8. Stocked(t)
    BY <2>2, <2>7, TouchEvicts, EvictedStocked DEF Stocked
  <2> HIDE DEF t
  <2> QED
    BY <2>1, <2>8, SoundStore
<1> QED
  BY <1>1, <1>2

\* STAKE on any store.
LEMMA StakeSound ==
    ASSUME NEW x, Sound(x), NEW tx \in DelayedTransaction, tx.type = "stake"
    PROVE  Sound(Stake(x, tx))
<1> DEFINE v == tx.validator
           o == StorageOf(x.store, v)
           total == o.total + tx.amount
           n == WithStake([o EXCEPT !.total = total], tx.staker,
                          StakeOf(o, tx.staker) + tx.amount)
           g == GetValidator(x.store, v)
           t == SetStorage(g, v, n)
           r == JoinRegistry(x, v, total)
           d == StakeDelta(x, tx.amount)
<1>1. Stocked(x.store) /\ v \in Validator /\ tx.staker \in Staker /\ tx.amount \in Nat
  BY TransactionFacts DEF Sound
<1>2. CASE ~Exists(x.store, v)
  BY <1>2 DEF Stake
<1>3. CASE Exists(x.store, v)
  <2>1. Stocked(g) /\ v \in DOMAIN g.mem
    <3>1. Stocked(g) /\ v \in g.touched
      BY <1>1, <1>3, GetStocked
    <3> QED
      BY <3>1 DEF Stocked
  <2>2. CASE tx.amount < x.params["MINIMAL_STAKE_PER_STAKER"]
    <3>1. Stake(x, tx) = [x EXCEPT !.store = g]
      BY <1>3, <2>2 DEF Stake
    <3> HIDE DEF g
    <3> QED
      BY <2>1, <3>1, SoundStore
  <2>3. CASE ~(tx.amount < x.params["MINIMAL_STAKE_PER_STAKER"])
    <3>1. Stake(x, tx) = [x EXCEPT !.store = t, !.stakingDelta = d, !.registry = r]
      BY <1>3, <2>3 DEF Stake
    <3>2. Funded(o)
      BY <1>1, <1>3, StockedView
    <3>3. Funded(n)
      <4> HIDE DEF o
      <4> QED
        BY <1>1, <3>2, StakeFunds
    <3>4. Listed(r)
      <4> HIDE DEF total, v
      <4> QED
        BY <1>1, ListedAfter DEF Sound
    <3>5. d \in Int
      BY <1>1 DEF StakeDelta, Sound, Counted
    <3> HIDE DEF n, g, r, d
    <3>6. Stocked(t)
      BY <2>1, <3>3, SetStocked
    <3> HIDE DEF t
    <3> DEFINE y == [x EXCEPT !.store = t, !.stakingDelta = d, !.registry = r]
    <3>7. /\ ContextShape(y) /\ y.store = t /\ y.registry = r
          /\ y.params = x.params /\ y.version = x.version
          /\ y.stakingDelta = d /\ y.balances = x.balances
      BY DEF Sound, ContextShape
    <3> HIDE DEF y
    <3>8. Sound(y)
      BY <3>4, <3>5, <3>6, <3>7 DEF Sound, Counted
    <3> QED
      BY <3>1, <3>8 DEF y
  <2> QED
    BY <2>2, <2>3
<1> QED
  BY <1>2, <1>3

\* UNSTAKE on any store.
LEMMA UnstakeSound ==
    ASSUME NEW x, Sound(x), NEW tx \in DelayedTransaction, tx.type = "unstake"
    PROVE  Sound(Unstake(x, tx))
<1> DEFINE v == tx.validator
           o == StorageOf(x.store, v)
           total == o.total - tx.amount
           n == [StakersAfterUnstake(o, tx) EXCEPT !.total = total]
           g == GetValidator(x.store, v)
           t == SetStorage(g, v, n)
           r == LeaveRegistry(x, v, total)
           d == StakeDelta(x, -tx.amount)
           b == RefundUnstaked(x, tx)
           No == tx.staker \notin DOMAIN o.stakers
                     \/ o.stakers[tx.staker] < tx.amount
<1>1. Stocked(x.store) /\ v \in Validator /\ tx.staker \in Staker /\ tx.amount \in Nat
  BY TransactionFacts DEF Sound
<1>2. CASE ~Exists(x.store, v)
  BY <1>2 DEF Unstake
<1>3. CASE Exists(x.store, v)
  <2>1. Stocked(g) /\ v \in DOMAIN g.mem
    <3>1. Stocked(g) /\ v \in g.touched
      BY <1>1, <1>3, GetStocked
    <3> QED
      BY <3>1 DEF Stocked
  <2>2. CASE No
    <3>1. Unstake(x, tx) = [x EXCEPT !.store = g]
      BY <1>3, <2>2 DEF Unstake
    <3> HIDE DEF g
    <3> QED
      BY <2>1, <3>1, SoundStore
  <2>3. CASE ~No
    <3>1. Unstake(x, tx) = [x EXCEPT !.store = t, !.stakingDelta = d,
                                     !.balances = b, !.registry = r]
      BY <1>3, <2>3 DEF Unstake
    <3>2. Funded(o)
      BY <1>1, <1>3, StockedView
    <3>3. Funded(n)
      <4>1. tx.staker \in DOMAIN o.stakers /\ ~(o.stakers[tx.staker] < tx.amount)
        BY <2>3
      <4> HIDE DEF o
      <4> QED
        BY <1>1, <3>2, <4>1, UnstakeFunds
    <3>4. Listed(r)
      <4> HIDE DEF total, v
      <4> QED
        BY <1>1, ListedAfter DEF Sound
    <3>5. d \in Int /\ b \in [Staker -> Nat]
      BY <1>1 DEF StakeDelta, RefundUnstaked, Sound, Counted
    <3> HIDE DEF n, g, r, d, b
    <3>6. Stocked(t)
      BY <2>1, <3>3, SetStocked
    <3> HIDE DEF t
    <3> DEFINE y == [x EXCEPT !.store = t, !.stakingDelta = d,
                              !.balances = b, !.registry = r]
    <3>7. /\ ContextShape(y) /\ y.store = t /\ y.registry = r
          /\ y.params = x.params /\ y.version = x.version
          /\ y.stakingDelta = d /\ y.balances = b
      BY DEF Sound, ContextShape
    <3> HIDE DEF y
    <3>8. Sound(y)
      BY <3>4, <3>5, <3>6, <3>7 DEF Sound, Counted
    <3> QED
      BY <3>1, <3>8 DEF y
  <2> QED
    BY <2>2, <2>3
<1> QED
  BY <1>2, <1>3

\* VOTING_ACCEPT does not go near the storages.
LEMMA VoteSound ==
    ASSUME NEW x, Sound(x), NEW tx \in DelayedTransaction,
           tx.type = "votingAccept"
    PROVE  Sound(VotingAccept(x, tx))
<1> DEFINE u == [x EXCEPT !.version = tx.newMajorVersion]
           p == [x.params EXCEPT ![tx.updateField] = tx.newValue]
           w == [x EXCEPT !.params = p]
<1>1. \/ VotingAccept(x, tx) = x
      \/ VotingAccept(x, tx) = u /\ tx.votingType = "version"
      \/ /\ VotingAccept(x, tx) = w
         /\ tx.votingType = "parameters" /\ tx.updateField \in Field
  BY DEF VotingAccept
<1>2. ASSUME tx.votingType = "version" PROVE Sound(u)
  <2>1. tx.newMajorVersion \in Nat
    BY <1>2, TransactionFacts
  <2>2. /\ ContextShape(u) /\ u.store = x.store /\ u.registry = x.registry
        /\ u.params = x.params /\ u.version = tx.newMajorVersion
        /\ u.stakingDelta = x.stakingDelta /\ u.balances = x.balances
    BY DEF Sound, ContextShape
  <2> HIDE DEF u
  <2> QED
    BY <2>1, <2>2 DEF Sound, Counted
<1>3. ASSUME tx.votingType = "parameters", tx.updateField \in Field
      PROVE  Sound(w)
  <2>1. tx.newValue \in Nat
    BY <1>3, TransactionFacts
  <2>2. p \in NetworkParameters
    BY <1>3, <2>1 DEF Sound, Counted, NetworkParameters
  <2>3. /\ ContextShape(w) /\ w.store = x.store /\ w.registry = x.registry
        /\ w.params = p /\ w.version = x.version
        /\ w.stakingDelta = x.stakingDelta /\ w.balances = x.balances
    BY DEF Sound, ContextShape
  <2> HIDE DEF w, p
  <2> QED
    BY <2>2, <2>3 DEF Sound, Counted
<1> QED
  BY <1>1, <1>2, <1>3

\* Every delayed transaction leaves a context sound.
LEMMA TransactionSound ==
    ASSUME NEW x, Sound(x), NEW tx \in DelayedTransaction
    PROVE  Sound(ExecuteDelayedTransaction(x, tx))
<1>1. CASE tx.type = "createValidator"
  BY <1>1, CreateSound DEF ExecuteDelayedTransaction
<1>2. CASE tx.type = "updateValidator"
  BY <1>2, UpdateSound DEF ExecuteDelayedTransaction
<1>3. CASE tx.type = "stake"
  BY <1>3, StakeSound DEF ExecuteDelayedTransaction
<1>4. CASE tx.type = "unstake"
  BY <1>4, UnstakeSound DEF ExecuteDelayedTransaction
<1>5. CASE tx.type = "votingAccept"
  BY <1>5, VoteSound DEF ExecuteDelayedTransaction
<1>6. CASE tx.type \notin {"createValidator", "updateValidator", "stake",
                           "unstake", "votingAccept"}
  BY <1>6 DEF ExecuteDelayedTransaction
<1> QED
  BY <1>1, <1>2, <1>3, <1>4, <1>5, <1>6

\* So does a batch.
LEMMA BatchSound ==
    ASSUME NEW x, Sound(x), NEW txs \in Seq(DelayedTransaction),
           NEW y, y = ExecuteBatch(x, txs)
    PROVE  Sound(y)
<1> DEFINE n == Len(txs)
           o == Opened(x)
           v == FoldLeft(ExecuteDelayedTransaction, o, txs)
<1>1. List(txs, n) /\ \A i \in DOMAIN txs : txs[i] \in DelayedTransaction
  BY DEF List
<1>2. Runs(<<"delayed">>, o, txs, n, v)
  BY <1>1, DelayedFold
<1>3. y = Closed(v)
  BY DEF ExecuteBatch, Closed, Opened
<1>4. \A u, tx : Do(<<"delayed">>, u, tx) = ExecuteDelayedTransaction(u, tx)
  BY DEF Do
<1>5. Sound(o)
  <2> DEFINE t == ResetTouched(x.store)
  <2>1. Stocked(t)
    BY ResetStocked DEF Sound
  <2>2. o = [x EXCEPT !.store = t]
    BY DEF Opened
  <2> HIDE DEF t, o
  <2> QED
    BY <2>1, <2>2, SoundStore
<1> HIDE DEF v, n, o
<1>6. PICK run : Goes(run, <<"delayed">>, o, txs, n, v)
  BY <1>1, <1>2, RunFacts
<1>7. n \in Nat
  BY <1>1 DEF List
<1> DEFINE G == {m \in Nat : m <= n => Sound(run[m])}
<1>8. 0 \in G
  BY <1>5, <1>6 DEF Goes
<1>9. ASSUME NEW m \in Nat, m \in G PROVE m + 1 \in G
  BY <1>1, <1>4, <1>6, <1>7, <1>9, TransactionSound DEF Goes
<1>10. \A m \in Nat : m \in G
  <2> HIDE DEF G
  <2> QED
    BY <1>8, <1>9, Counting
<1>11. Sound(v)
  BY <1>6, <1>7, <1>10 DEF Goes
<1>12. Stocked(WriteTouched(v.store))
  BY <1>11, WriteStocked DEF Sound
<1> QED
  BY <1>3, <1>11, <1>12, SoundStore DEF Closed

-----------------------------------------------------------------------------
(* Reads of many validators *)

\* Reads under the lock, for a quorum or for the leaders.
LEMMA ReadStocked ==
    ASSUME NEW s, Stocked(s), NEW q \in Seq(Validator), NEW t, t = ReadAll(s, q)
    PROVE  Stocked(t)
<1> DEFINE n == Len(q)
<1>1. List(q, n) /\ \A i \in DOMAIN q : q[i] \in Validator
  BY DEF List
<1>2. Runs(<<"get">>, s, q, n, t)
  BY <1>1, GetFold DEF ReadAll
<1>3. \A u, v : Do(<<"get">>, u, v) = GetValidator(u, v)
  BY DEF Do
<1> HIDE DEF n
<1>4. PICK run : Goes(run, <<"get">>, s, q, n, t)
  BY <1>1, <1>2, RunFacts
<1>5. n \in Nat
  BY <1>1 DEF List
<1> DEFINE G == {m \in Nat : m <= n => Stocked(run[m])}
<1>6. 0 \in G
  BY <1>4 DEF Goes
<1>7. ASSUME NEW m \in Nat, m \in G PROVE m + 1 \in G
  BY <1>1, <1>3, <1>4, <1>5, <1>7, GetStocked DEF Goes
<1>8. \A m \in Nat : m \in G
  <2> HIDE DEF G
  <2> QED
    BY <1>6, <1>7, Counting
<1> QED
  BY <1>4, <1>5, <1>8 DEF Goes

\* Reads without it.
LEMMA ReadWithoutLockStocked ==
    ASSUME NEW s, Stocked(s), NEW q \in Seq(Validator),
           NEW t, t = ReadAllWithoutLock(s, q)
    PROVE  Stocked(t)
<1> DEFINE n == Len(q)
<1>1. List(q, n) /\ \A i \in DOMAIN q : q[i] \in Validator
  BY DEF List
<1>2. Runs(<<"read">>, s, q, n, t)
  BY <1>1, ReadFold DEF ReadAllWithoutLock
<1>3. \A u, v : Do(<<"read">>, u, v) =
                   IF v \in DOMAIN u.db THEN FillCache(u, v, u.db[v]) ELSE u
  BY DEF Do, ReadWithoutLock
<1> HIDE DEF n
<1>4. PICK run : Goes(run, <<"read">>, s, q, n, t)
  BY <1>1, <1>2, RunFacts
<1>5. n \in Nat
  BY <1>1 DEF List
<1>6. ASSUME NEW u, Stocked(u), NEW v \in Validator
      PROVE  Stocked(Do(<<"read">>, u, v))
  <2>1. v \in DOMAIN u.db => Funded(u.db[v])
    BY <1>6 DEF Stocked, GoodView
  <2>2. v \in DOMAIN u.db => Stocked(FillCache(u, v, u.db[v]))
    BY <1>6, <2>1, FillStocked
  <2> QED
    BY <1>3, <1>6, <2>2
<1> DEFINE G == {m \in Nat : m <= n => Stocked(run[m])}
<1>7. 0 \in G
  BY <1>4 DEF Goes
<1>8. ASSUME NEW m \in Nat, m \in G PROVE m + 1 \in G
  BY <1>1, <1>4, <1>5, <1>6, <1>8 DEF Goes
<1>9. \A m \in Nat : m \in G
  <2> HIDE DEF G
  <2> QED
    BY <1>7, <1>8, Counting
<1> QED
  BY <1>4, <1>5, <1>9 DEF Goes

\* The store after quorum and leaders have been chosen.
LEMMA SelectionStocked ==
    ASSUME NEW s, Stocked(s), NEW q \in Seq(Validator), NEW size,
           NEW t, t = ResetTouched(AfterSelection(s, q, size))
    PROVE  Stocked(t)
<1> DEFINE r == ReadAll(s, q)
           p == ReadAll(r, q)
           u == AfterSelection(s, q, size)
<1>1. Stocked(r)
  BY ReadStocked
<1>2. Stocked(p)
  <2> HIDE DEF r
  <2> QED
    BY <1>1, ReadStocked
<1>3. u = r \/ u = p
  BY DEF AfterSelection
<1> HIDE DEF u, r, p
<1>4. Stocked(u)
  BY <1>1, <1>2, <1>3
<1> QED
  BY <1>4, ResetStocked DEF u

\* The store that the genesis fills.
LEMMA GenesisFills ==
    ASSUME world \in Worlds, NEW db, db \in {NoDb, GenesisDb}, NEW t,
           t = GenesisStore(db)
    PROVE  Stocked(t)
<1> DEFINE q == Genesis.validators
           n == Len(q)
           cap == world.cap
           base == OpenStore(db, cap)
           u == FoldLeft(PutGenesisValidator, base, q)
<1>1. GoodView(db) /\ GoodView(GenesisDb) /\ cap \in Nat
  BY GenesisFacts, WorldFacts DEF NoDb, GoodView
<1>2. Runs(<<"genesis">>, base, q, n, u) /\ List(q, n)
  BY GenesisFacts, GenesisFold
<1>3. Stocked(base)
  <2> HIDE DEF cap
  <2> QED
    BY <1>1, OpenStocked
<1>4. t = [u EXCEPT !.shared = u.cached]
  BY DEF GenesisStore
<1>5. \A s, g : Do(<<"genesis">>, s, g) = Collect(PutCache(s, g.pubkey, g.storage))
  BY DEF Do, PutGenesisValidator
<1>6. \A i \in DOMAIN q : q[i].pubkey \in Validator /\ Funded(q[i].storage)
  BY <1>1, GenesisFacts DEF GoodView
<1> HIDE DEF u, base, n, q, cap
<1>7. PICK run : Goes(run, <<"genesis">>, base, q, n, u)
  BY <1>2, RunFacts
<1>8. n \in Nat /\ DOMAIN q = 1 .. n
  BY <1>2 DEF List
<1> DEFINE G == {m \in Nat : m <= n => Stocked(run[m])}
<1>9. 0 \in G
  BY <1>3, <1>7 DEF Goes
<1>10. ASSUME NEW m \in Nat, m \in G PROVE m + 1 \in G
  <2> SUFFICES ASSUME m + 1 <= n PROVE Stocked(run[m + 1])
    OBVIOUS
  <2> DEFINE s == run[m]
             v == q[m + 1].pubkey
             x == q[m + 1].storage
             p == PutCache(s, v, x)
  <2>1. m + 1 \in DOMAIN q /\ run[m + 1] = Collect(p)
    BY <1>5, <1>7, <1>8 DEF Goes
  <2>2. Stocked(s) /\ v \in Validator /\ Funded(x)
    BY <1>6, <1>8, <1>10, <2>1
  <2> HIDE DEF s, v, x
  <2>3. Stocked(p)
    BY <2>2, PutStocked
  <2> HIDE DEF p
  <2> QED
    BY <2>1, <2>3, CollectStocked
<1>11. \A m \in Nat : m \in G
  <2> HIDE DEF G
  <2> QED
    BY <1>9, <1>10, Counting
<1>12. Stocked(u)
  BY <1>7, <1>8, <1>11 DEF Goes
<1>13. /\ DOMAIN t = DOMAIN u /\ t.db = u.db /\ t.cap = u.cap /\ t.mem = u.mem
       /\ t.cached = u.cached /\ t.touched = u.touched /\ t.lru = u.lru
       /\ t.shared = u.cached
  BY <1>4, <1>12 DEF Stocked, StoreShape
<1> QED
  BY <1>12, <1>13 DEF Stocked, StoreShape, InOrder

\* The stores of both threads after the genesis.
LEMMA GenesisStocked ==
    ASSUME world \in Worlds, NEW db, db \in {NoDb, GenesisDb}
    PROVE  /\ Stocked(GenesisStore(db))
           /\ Stocked([ReadAllWithoutLock(GenesisStore(db),
                           GenesisRegistry \o GenesisRegistry)
                           EXCEPT !.db = GenesisDb])
<1> DEFINE s == GenesisStore(db)
           q == GenesisRegistry \o GenesisRegistry
           u == ReadAllWithoutLock(s, q)
<1>1. GoodView(GenesisDb)
  BY GenesisFacts
<1>2. Stocked(s)
  BY GenesisFills
<1> HIDE DEF s
<1>3. q \in Seq(Validator)
  <2>1. GenesisRegistry \in Seq(Validator)
    BY GenesisFacts DEF RegistryOf
  <2> QED
    BY <2>1
<1> HIDE DEF q
<1>4. Stocked(u)
  BY <1>2, <1>3, ReadWithoutLockStocked
<1> HIDE DEF u
<1>5. Stocked([u EXCEPT !.db = GenesisDb])
  BY <1>1, <1>4, DbStocked
<1> QED
  BY <1>2, <1>5 DEF s, u, q

-----------------------------------------------------------------------------
(* Draws without replacement *)

\* The draws in the order of the places q, from the state base on.
FoldDraw(pubkeys, stakes, draw, base, q) ==
    FoldLeft(LAMBDA d, i : DrawNext(pubkeys, stakes, draw, d, i), base, q)

\* FoldLeft over the draws.
LEMMA DrawFold ==
    ASSUME NEW pubkeys, NEW stakes, NEW draw, NEW base, NEW q, NEW n, List(q, n)
    PROVE  Runs(<<"draw", pubkeys, stakes, draw>>, base, q, n,
                FoldDraw(pubkeys, stakes, draw, base, q))
<1> DEFINE k == <<"draw", pubkeys, stakes, draw>>
           Fold(g) == [t \in SUBSET DOMAIN q |->
                          IF t = {} THEN base
                          ELSE DrawNext(pubkeys, stakes, draw, g[t \ {Max(t)}],
                                        q[Max(t)])]
           v == FoldDraw(pubkeys, stakes, draw, base, q)
<1>0. k[1] = "draw" /\ k[2] = pubkeys /\ k[3] = stakes /\ k[4] = draw
  OBVIOUS
<1> HIDE DEF k
<1>1. \A s, x : Do(k, s, x) = DrawNext(pubkeys, stakes, draw, s, x)
  BY <1>0 DEF Do
<1>2. \A g : DoFold(k, base, q, g) = Fold(g)
  BY <1>1 DEF DoFold
<1>3. PICK h : h = DoFold(k, base, q, h)
  BY FoldExists
<1>4. h = Fold(h)
  BY <1>2, <1>3
<1>5. PICK g : g = Fold(g) /\ v = g[DOMAIN q]
  BY <1>4 DEF FoldDraw, FoldLeft, MapThenFoldSet
<1>6. g = DoFold(k, base, q, g)
  BY <1>2, <1>5
<1>7. Runs(k, base, q, n, g[DOMAIN q])
  BY <1>6, FoldRun
<1> QED
  BY <1>5, <1>7 DEF k

\* Where the sum is zero there is no stake, and the other way round.
LEMMA NothingLeft ==
    ASSUME NEW stakes \in Seq(Nat)
    PROVE  /\ StakeSum(stakes) \in Nat
           /\ StakeSum(stakes) = 0 <=> \A i \in 1 .. Len(stakes) : stakes[i] = 0
<1> DEFINE n == Len(stakes)
           P(i) == Prefix(stakes, i)
<1>1. /\ P(0) = 0 /\ P(n) = StakeSum(stakes) /\ n \in Nat
      /\ \A i \in 0 .. n : P(i) \in Nat
      /\ \A i \in 1 .. n : P(i) = P(i - 1) + stakes[i]
      /\ \A i, j \in 0 .. n : i <= j => P(i) <= P(j)
  BY PrefixSums
<1> HIDE DEF P
<1>2. P(n) \in Nat
  BY <1>1
<1>3. ASSUME P(n) = 0, NEW i \in 1 .. n PROVE stakes[i] = 0
  <2>1. i \in 0 .. n /\ i - 1 \in 0 .. n /\ n \in 0 .. n /\ i <= n /\ i - 1 <= n
    BY <1>1
  <2>2. P(i) <= P(n) /\ P(i - 1) <= P(n) /\ P(i) \in Nat /\ P(i - 1) \in Nat
    BY <1>1, <2>1
  <2>3. P(i) = P(i - 1) + stakes[i] /\ stakes[i] \in Nat
    BY <1>1
  <2> QED
    BY <1>3, <2>2, <2>3
<1>4. ASSUME \A i \in 1 .. n : stakes[i] = 0 PROVE P(n) = 0
  <2> DEFINE G == {i \in Nat : i <= n => P(i) = 0}
  <2>1. 0 \in G
    BY <1>1
  <2>2. ASSUME NEW i \in Nat, i \in G PROVE i + 1 \in G
    <3> SUFFICES ASSUME i + 1 <= n PROVE P(i + 1) = 0
      OBVIOUS
    <3>1. i + 1 \in 1 .. n /\ (i + 1) - 1 = i /\ i <= n
      BY <1>1
    <3>2. P(i + 1) = P((i + 1) - 1) + stakes[i + 1]
      BY <1>1, <3>1
    <3>3. stakes[i + 1] = 0 /\ P(i) = 0
      BY <1>4, <2>2, <3>1
    <3> QED
      BY <3>1, <3>2, <3>3
  <2>3. \A i \in Nat : i \in G
    <3> HIDE DEF G
    <3> QED
      BY <2>1, <2>2, Counting
  <2> QED
    BY <1>1, <2>3
<1> HIDE DEF n
<1> QED
  BY <1>1, <1>2, <1>3, <1>4 DEF n

\* What remains of the stakes when d has been drawn by m turns: "rest", with
\* nothing at the places that have been chosen.
Drawing(d, pubkeys, stakes, m, rest) ==
    /\ rest \in Seq(Nat) /\ Len(rest) = Len(stakes)
    /\ \A i \in 1 .. Len(stakes) :
          /\ rest[i] \in {0, stakes[i]}
          /\ pubkeys[i] \in ToSet(d.chosen) <=> rest[i] # stakes[i]
    /\ d.left = StakeSum(rest) /\ Sums(d.tree, rest)
    /\ Listed(d.chosen) /\ ToSet(d.chosen) \subseteq ToSet(pubkeys)
    /\ Len(d.chosen) <= m
    /\ d.left = 0 \/ Len(d.chosen) = m

\* One more turn.
LEMMA DrawStep ==
    ASSUME NEW pubkeys, Listed(pubkeys),
           NEW stakes \in Seq(Nat), Len(stakes) = Len(pubkeys),
           NEW draw, NEW m \in Nat, draw[m + 1] \in Nat,
           NEW d, NEW rest, Drawing(d, pubkeys, stakes, m, rest)
    PROVE  \E r : Drawing(DrawNext(pubkeys, stakes, draw, d, m + 1),
                          pubkeys, stakes, m + 1, r)
<1> DEFINE n == Len(stakes)
<1>0. n \in Nat /\ pubkeys \in Seq(Validator) /\ DOMAIN pubkeys = 1 .. n
  BY DEF Listed
<1>1. CASE d.left = 0
  <2>1. DrawNext(pubkeys, stakes, draw, d, m + 1) = d
    BY <1>1 DEF DrawNext
  <2>2. Len(d.chosen) <= m + 1
    BY DEF Drawing, Listed
  <2>3. Drawing(d, pubkeys, stakes, m + 1, rest)
    BY <1>1, <2>2 DEF Drawing
  <2> QED
    BY <2>1, <2>3
<1>2. CASE d.left # 0
  <2> DEFINE r == draw[m + 1] % d.left
             idx == FindByWeight(d.tree, r)
             a == idx + 1
             next == Without(rest, a)
             tree == RemoveStake(d.tree, idx, stakes[a])
             chosen == Append(d.chosen, pubkeys[a])
             e == [chosen |-> chosen, left |-> d.left - stakes[a], tree |-> tree]
  <2>1. DrawNext(pubkeys, stakes, draw, d, m + 1) = e
    BY <1>2 DEF DrawNext
  <2>2. /\ rest \in Seq(Nat) /\ Len(rest) = n /\ d.left = StakeSum(rest)
        /\ Sums(d.tree, rest) /\ d.left \in Nat
    BY NothingLeft DEF Drawing
  <2>3. r \in Nat /\ r < StakeSum(rest)
    BY <1>2, <2>2
  <2>4. FallsTo(rest, r, idx)
    <3> HIDE DEF r
    <3> QED
      BY <2>2, <2>3, Finds
  <2> HIDE DEF r, idx
  <2>5. idx \in 0 .. n - 1 /\ a \in 1 .. n /\ a - 1 = idx
    BY <1>0, <2>2, <2>4 DEF FallsTo
  <2>6. rest[a] = stakes[a] /\ rest[a] # 0 /\ stakes[a] \in Nat
    <3>1. Prefix(rest, idx) < Prefix(rest, a)
      <4>1. idx \in 0 .. n /\ a \in 0 .. n
        BY <1>0, <2>5
      <4>2. Prefix(rest, idx) \in Nat /\ Prefix(rest, a) \in Nat
        BY <2>2, <4>1, PrefixSums
      <4> QED
        BY <2>3, <2>4, <4>2 DEF FallsTo
    <3>2. Prefix(rest, a) = Prefix(rest, idx) + rest[a]
      <4>1. \A i \in 1 .. n : Prefix(rest, i) = Prefix(rest, i - 1) + rest[i]
        BY <2>2, PrefixSums
      <4> HIDE DEF a
      <4> QED
        BY <2>5, <4>1
    <3>3. rest[a] \in {0, stakes[a]} /\ stakes[a] \in Nat
      <4>1. \A i \in 1 .. n : rest[i] \in {0, stakes[i]} /\ stakes[i] \in Nat
        BY DEF Drawing
      <4> HIDE DEF a, n
      <4> QED
        BY <2>5, <4>1
    <3>4. Prefix(rest, idx) \in Nat
      <4>1. \A i \in 0 .. n : Prefix(rest, i) \in Nat
        BY <2>2, PrefixSums
      <4>2. idx \in 0 .. n
        BY <1>0, <2>5
      <4> QED
        BY <4>1, <4>2
    <3> HIDE DEF a
    <3> QED
      BY <3>1, <3>2, <3>3, <3>4
  <2>7. Sums(tree, next)
    <3>1. Sums(RemoveStake(d.tree, idx, rest[idx + 1]), Without(rest, idx + 1))
      BY <2>2, <2>5, TreeRemoved
    <3> QED
      BY <2>6, <3>1
  <2> HIDE DEF a, tree
  <2>8. /\ next \in Seq(Nat) /\ Len(next) = n
        /\ StakeSum(next) = StakeSum(rest) - rest[a]
    <3>1. /\ next \in Seq(Nat) /\ Len(next) = n
          /\ \A i \in 0 .. n : Prefix(next, i) =
                Prefix(rest, i) - (IF a <= i THEN rest[a] ELSE 0)
      BY <2>2, <2>5, PrefixWithout
    <3>2. Prefix(next, n) = Prefix(rest, n) - rest[a]
      BY <1>0, <2>5, <3>1
    <3> HIDE DEF next
    <3>3. Prefix(next, n) = StakeSum(next) /\ Prefix(rest, n) = StakeSum(rest)
      BY <2>2, <3>1, PrefixSums
    <3> QED
      BY <3>1, <3>2, <3>3
  <2>9. \A i \in 1 .. n : next[i] = IF i = a THEN 0 ELSE rest[i]
    <3>1. next = [rest EXCEPT ![a] = 0]
      BY DEF Without
    <3>2. DOMAIN rest = 1 .. n
      BY <2>2
    <3> HIDE DEF next, n
    <3> QED
      BY <3>1, <3>2
  <2> HIDE DEF next
  <2>10. pubkeys[a] \notin ToSet(d.chosen) /\ pubkeys[a] \in Validator
    BY <1>0, <2>5, <2>6 DEF Drawing
  <2>11. /\ Listed(chosen) /\ ToSet(chosen) = ToSet(d.chosen) \cup {pubkeys[a]}
         /\ Len(chosen) = Len(d.chosen) + 1
    <3> DEFINE b == pubkeys[a]
    <3>1. b \notin ToSet(d.chosen) /\ b \in Validator
      BY <2>10
    <3>2. d.chosen \in Seq(Validator) /\ IsInjective(d.chosen)
      BY DEF Drawing, Listed
    <3> HIDE DEF b
    <3>3. PICK c : c = Append(d.chosen, b)
      OBVIOUS
    <3>4. c \in Seq(Validator) /\ IsInjective(c) /\ ToSet(c) = ToSet(d.chosen) \cup {b}
      BY <3>1, <3>2, <3>3, Joins
    <3>5. Len(c) = Len(d.chosen) + 1
      BY <3>2, <3>3
    <3>6. chosen = c
      BY <3>3 DEF b
    <3> HIDE DEF chosen
    <3>7. {pubkeys[a]} = {b}
      BY DEF b
    <3> QED
      BY <3>4, <3>5, <3>6, <3>7 DEF Listed
  <2> HIDE DEF chosen
  <2>12. e.chosen = chosen /\ e.left = d.left - stakes[a] /\ e.tree = tree
    OBVIOUS
  <2> HIDE DEF e
  <2>13. \A i \in 1 .. n : /\ next[i] \in {0, stakes[i]}
                           /\ pubkeys[i] \in ToSet(e.chosen) <=> next[i] # stakes[i]
    <3> SUFFICES ASSUME NEW i \in 1 .. n
                 PROVE  /\ next[i] \in {0, stakes[i]}
                        /\ pubkeys[i] \in ToSet(e.chosen) <=> next[i] # stakes[i]
      OBVIOUS
    <3>1. CASE i = a
      BY <2>5, <2>6, <2>9, <2>11, <2>12, <3>1
    <3>2. CASE i # a
      <4>1. pubkeys[i] # pubkeys[a]
        BY <1>0, <2>5, <3>2 DEF Listed, IsInjective
      <4>2. next[i] = rest[i]
        BY <2>9, <3>2
      <4>3. /\ rest[i] \in {0, stakes[i]}
            /\ pubkeys[i] \in ToSet(d.chosen) <=> rest[i] # stakes[i]
        BY DEF Drawing
      <4> QED
        BY <2>11, <2>12, <4>1, <4>2, <4>3
    <3> QED
      BY <3>1, <3>2
  <2>14. e.left = StakeSum(next)
    BY <2>2, <2>6, <2>8, <2>12
  <2>15. ToSet(e.chosen) \subseteq ToSet(pubkeys)
    <3>1. pubkeys[a] \in ToSet(pubkeys)
      BY <1>0, <2>5 DEF ToSet
    <3>2. ToSet(d.chosen) \subseteq ToSet(pubkeys)
      BY DEF Drawing
    <3> QED
      BY <2>11, <2>12, <3>1, <3>2
  <2>16. Len(e.chosen) = m + 1
    BY <1>2, <2>11, <2>12 DEF Drawing
  <2>17. Drawing(e, pubkeys, stakes, m + 1, next)
    <3>1. next \in Seq(Nat) /\ Len(next) = Len(stakes)
      BY <2>2, <2>8
    <3>2. Sums(e.tree, next) /\ Listed(e.chosen)
      BY <2>7, <2>11, <2>12
    <3>3. Len(e.chosen) <= m + 1
      BY <2>16
    <3> HIDE DEF n
    <3>4. \A i \in 1 .. Len(stakes) :
             /\ next[i] \in {0, stakes[i]}
             /\ pubkeys[i] \in ToSet(e.chosen) <=> next[i] # stakes[i]
      BY <2>13 DEF n
    <3> QED
      BY <2>14, <2>15, <2>16, <3>1, <3>2, <3>3, <3>4 DEF Drawing
  <2> QED
    BY <2>1, <2>17
<1> QED
  BY <1>1, <1>2

\* Those of the pubkeys that have a stake.
Staked(pubkeys, stakes) ==
    {pubkeys[i] : i \in {j \in 1 .. Len(pubkeys) : stakes[j] > 0}}

\* A selection draws without replacement, only those with a stake, and no fewer
\* than it is asked for unless it has drawn all of them.
LEMMA DrawnFacts ==
    ASSUME NEW pubkeys, Listed(pubkeys),
           NEW stakes \in Seq(Nat), Len(stakes) = Len(pubkeys),
           NEW draw, NEW count \in Nat, \A i \in 1 .. count : draw[i] \in Nat,
           NEW q, q = DrawByStake(pubkeys, stakes, count, draw)
    PROVE  /\ Listed(q) /\ Len(q) <= count
           /\ ToSet(q) \subseteq Staked(pubkeys, stakes)
           /\ Len(q) = count \/ ToSet(q) = Staked(pubkeys, stakes)
<1> DEFINE n == Len(stakes)
           base == [chosen |-> <<>>, left |-> StakeSum(stakes),
                    tree |-> NewStakeFenwickTree(stakes)]
           l == [i \in 1 .. count |-> i]
           v == FoldDraw(pubkeys, stakes, draw, base, l)
           k == <<"draw", pubkeys, stakes, draw>>
<1>1. q = v.chosen
  BY DEF DrawByStake, FoldDraw
<1>2. List(l, count)
  BY DEF List
<1>3. Runs(k, base, l, count, v)
  <2> HIDE DEF l, base
  <2> QED
    BY <1>2, DrawFold
<1>4. \A s, x : Do(k, s, x) = DrawNext(pubkeys, stakes, draw, s, x)
  <2>1. k[1] = "draw" /\ k[2] = pubkeys /\ k[3] = stakes /\ k[4] = draw
    OBVIOUS
  <2> HIDE DEF k
  <2> QED
    BY <2>1 DEF Do
<1> HIDE DEF v, k
<1>5. PICK run : Goes(run, k, base, l, count, v)
  <2> HIDE DEF l, base
  <2> QED
    BY <1>2, <1>3, RunFacts
<1> DEFINE Ok(m) == \E rest : Drawing(run[m], pubkeys, stakes, m, rest)
           G == {m \in Nat : m <= count => Ok(m)}
<1>6. 0 \in G
  <2>1. run[0] = base
    BY <1>5 DEF Goes
  <2>2. /\ base.chosen = <<>> /\ base.left = StakeSum(stakes)
        /\ base.tree = NewStakeFenwickTree(stakes)
    OBVIOUS
  <2>3. Sums(NewStakeFenwickTree(stakes), stakes)
    BY Built
  <2>4. Listed(<<>>) /\ ToSet(<<>>) = {} /\ Len(<<>>) = 0
    BY DEF Listed, IsInjective, ToSet
  <2> HIDE DEF base
  <2>5. Drawing(base, pubkeys, stakes, 0, stakes)
    BY <2>2, <2>3, <2>4 DEF Drawing
  <2> QED
    BY <2>1, <2>5
<1>7. ASSUME NEW m \in Nat, m \in G PROVE m + 1 \in G
  <2> SUFFICES ASSUME m + 1 <= count PROVE Ok(m + 1)
    OBVIOUS
  <2>1. m + 1 \in 1 .. count /\ m <= count /\ l[m + 1] = m + 1
    OBVIOUS
  <2>2. PICK rest : Drawing(run[m], pubkeys, stakes, m, rest)
    BY <1>7, <2>1
  <2>3. run[m + 1] = Do(k, run[m], l[m + 1])
    BY <1>5 DEF Goes
  <2>4. run[m + 1] = DrawNext(pubkeys, stakes, draw, run[m], m + 1)
    BY <1>4, <2>1, <2>3
  <2>5. draw[m + 1] \in Nat
    BY <2>1
  <2> HIDE DEF l, G
  <2>6. \E rest1 : Drawing(DrawNext(pubkeys, stakes, draw, run[m], m + 1),
                           pubkeys, stakes, m + 1, rest1)
    BY <2>2, <2>5, DrawStep
  <2> QED
    BY <2>4, <2>6
<1>8. \A m \in Nat : m \in G
  <2> HIDE DEF G
  <2> QED
    BY <1>6, <1>7, Counting
<1>9. run[count] = v /\ Ok(count)
  BY <1>5, <1>8 DEF Goes
<1> HIDE DEF Ok, G
<1>10. PICK rest : Drawing(v, pubkeys, stakes, count, rest)
  BY <1>9 DEF Ok
<1>11. /\ Listed(q) /\ Len(q) <= count /\ ToSet(q) \subseteq ToSet(pubkeys)
       /\ v.left = 0 \/ Len(q) = count
       /\ \A i \in 1 .. n : /\ rest[i] \in {0, stakes[i]}
                            /\ pubkeys[i] \in ToSet(q) <=> rest[i] # stakes[i]
  BY <1>1, <1>10 DEF Drawing
<1>12. \A i \in 1 .. n : stakes[i] \in Nat
  OBVIOUS
<1>13. ToSet(q) \subseteq Staked(pubkeys, stakes)
  <2> SUFFICES ASSUME NEW p \in ToSet(q) PROVE p \in Staked(pubkeys, stakes)
    OBVIOUS
  <2>0. p \in ToSet(pubkeys) /\ DOMAIN pubkeys = 1 .. n
    BY <1>11 DEF Listed
  <2>1. PICK i \in 1 .. n : p = pubkeys[i]
    BY <2>0 DEF ToSet
  <2>2. rest[i] = 0 /\ stakes[i] > 0
    BY <1>11, <1>12, <2>1
  <2> QED
    BY <2>1, <2>2 DEF Staked
<1>14. ASSUME v.left = 0 PROVE Staked(pubkeys, stakes) \subseteq ToSet(q)
  <2> SUFFICES ASSUME NEW i \in 1 .. n, stakes[i] > 0
               PROVE  pubkeys[i] \in ToSet(q)
    BY DEF Staked
  <2>1. rest \in Seq(Nat) /\ Len(rest) = n /\ StakeSum(rest) = 0
    BY <1>10, <1>14 DEF Drawing
  <2>2. rest[i] = 0
    BY <2>1, NothingLeft
  <2> QED
    BY <1>11, <1>12, <2>2
<1> QED
  BY <1>11, <1>13, <1>14

\* When as many draws are made as there are validators, all with a stake are
\* drawn.
LEMMA AllDrawn ==
    ASSUME NEW pubkeys, Listed(pubkeys),
           NEW stakes \in Seq(Nat), Len(stakes) = Len(pubkeys),
           NEW draw, \A i \in 1 .. Len(pubkeys) : draw[i] \in Nat,
           NEW q, q = DrawByStake(pubkeys, stakes, Len(pubkeys), draw)
    PROVE  Listed(q) /\ ToSet(q) = Staked(pubkeys, stakes)
<1> DEFINE n == Len(pubkeys)
           D == 1 .. n
           T == ToSet(pubkeys)
<1>1. n \in Nat /\ pubkeys \in [D -> T] /\ T = {pubkeys[i] : i \in D}
  BY DEF Listed, ToSet
<1>2. /\ Listed(q) /\ Len(q) <= n /\ ToSet(q) \subseteq Staked(pubkeys, stakes)
      /\ Len(q) = n \/ ToSet(q) = Staked(pubkeys, stakes)
  BY <1>1, DrawnFacts
<1>3. ASSUME Len(q) = n PROVE Staked(pubkeys, stakes) \subseteq ToSet(q)
  <2>1. Staked(pubkeys, stakes) \subseteq T
    BY <1>1 DEF Staked
  <2>2. q \in [D -> T] /\ IsInjective(q)
    <3>1. q \in Seq(Validator) /\ DOMAIN q = D /\ \A i \in D : q[i] \in ToSet(q)
      BY <1>2, <1>3 DEF Listed, ToSet
    <3> QED
      BY <1>2, <2>1, <3>1 DEF Listed
  <2>3. q \in Injection(D, T) /\ pubkeys \in Injection(D, T)
    BY <1>1, <2>2 DEF Injection, Listed
  <2>4. pubkeys \in Surjection(D, T)
    BY <1>1 DEF Surjection
  <2>5. IsFiniteSet(D)
    <3>1. n \in Int /\ 1 \in Int
      BY <1>1
    <3> HIDE DEF n
    <3> QED
      BY <3>1, FS_Interval
  <2> HIDE DEF D, T
  <2>6. IsFiniteSet(T)
    BY <2>4, <2>5, FS_Surjection
  <2>7. Cardinality(D) = Cardinality(T)
    BY <2>3, <2>4, <2>6, FS_Injection
  <2>8. q \in Surjection(D, T)
    BY <2>3, <2>6, <2>7, FS_Injection
  <2>9. T \subseteq ToSet(q)
    BY <1>3, <2>2, <2>8 DEF Surjection, ToSet
  <2> QED
    BY <2>1, <2>9
<1> HIDE DEF n
<1> QED
  BY <1>2, <1>3

-----------------------------------------------------------------------------
(* Quorum and leaders *)

\* Nobody is twice in the quorum of h or among its leaders, and all of them are
\* registered.
Chosen(h) ==
    /\ Listed(h.registry) /\ Listed(h.quorum) /\ Listed(h.leaders)
    /\ ToSet(h.quorum) \subseteq ToSet(h.registry)
    /\ ToSet(h.leaders) \subseteq ToSet(h.registry)

\* The quorum of h is no larger than size, and smaller only with all who lead.
Sized(h, size) ==
    /\ Len(h.quorum) <= size
    /\ Len(h.quorum) = size \/ ToSet(h.leaders) \subseteq ToSet(h.quorum)

\* Those of the registry who have a stake in V.
HaveStake(V, reg) == {v \in ToSet(reg) \cap DOMAIN V : V[v].total > 0}

\* A registry is no longer than there are validators.
LEMMA ListedFits ==
    ASSUME NEW q, Listed(q)
    PROVE  Len(q) \in Nat /\ Len(q) <= Cardinality(Validator)
<1> DEFINE n == Len(q)
           D == 1 .. n
<1>1. n \in Nat /\ q \in [D -> Validator]
  BY DEF Listed
<1>2. q \in Injection(D, Validator)
  BY <1>1 DEF Injection, Listed
<1>3. IsFiniteSet(Validator)
  BY FinitelyMany
<1> HIDE DEF D
<1>4. Cardinality(D) <= Cardinality(Validator)
  BY <1>2, <1>3, FS_Injection
<1>5. Cardinality(D) = n
  <2>1. n \in Int /\ 1 \in Int /\ (1 > n => n = 0)
    BY <1>1
  <2> HIDE DEF n
  <2>2. Cardinality(1 .. n) = IF 1 > n THEN 0 ELSE n - 1 + 1
    BY <2>1, FS_Interval
  <2> QED
    BY <2>1, <2>2 DEF D
<1> QED
  BY <1>1, <1>4, <1>5

\* What a selection from a registry comes to.
LEMMA SelectionFacts ==
    ASSUME NEW V, GoodView(V), NEW reg, Listed(reg), NEW size \in Nat,
           NEW draw, \A i \in 1 .. Cardinality(Validator) : draw[i] \in Nat,
           NEW h, h.registry = reg,
           h.quorum = GetCurrentEpochQuorum(V, reg, size, draw),
           h.leaders = GetLeadersSequence(V, reg, draw)
    PROVE  Chosen(h) /\ Sized(h, size) /\ ToSet(h.leaders) = HaveStake(V, reg)
<1> DEFINE known == Known(V, reg)
           stakes == Stakes(V, known)
           S == Staked(known, stakes)
           quorum == DrawByStake(known, stakes, size, draw)
<1>1. /\ Listed(known) /\ Len(known) <= Len(reg)
      /\ ToSet(known) = ToSet(reg) \cap DOMAIN V
  BY KnownFacts DEF Listed
<1>2. Len(reg) \in Nat /\ Len(reg) <= Cardinality(Validator)
  BY ListedFits
<1>3. Cardinality(Validator) \in Nat
  BY FinitelyMany, FS_CardinalityType
<1>4. h.leaders = DrawByStake(known, stakes, Len(known), draw)
  BY DEF GetLeadersSequence
<1>5. h.quorum = IF Len(reg) <= size THEN reg ELSE quorum
  BY DEF GetCurrentEpochQuorum
<1>6. \A i \in 1 .. Len(known) : stakes[i] = V[known[i]].total
  BY DEF Stakes
<1> HIDE DEF known
<1>7. stakes \in Seq(Nat) /\ Len(stakes) = Len(known)
  <2>1. known \in Seq(Validator) /\ ToSet(known) \subseteq DOMAIN V
    BY <1>1 DEF Listed
  <2> QED
    BY <2>1, StakesFacts
<1> HIDE DEF stakes
<1>8. Len(known) \in Nat
  BY <1>1 DEF Listed
<1>9. \A i \in 1 .. Len(known) : draw[i] \in Nat
  BY <1>1, <1>2, <1>3, <1>8
<1>10. Listed(h.leaders) /\ ToSet(h.leaders) = S
  BY <1>1, <1>4, <1>7, <1>9, AllDrawn
<1>11. S = HaveStake(V, reg)
  <2>1. S = {known[i] : i \in {j \in 1 .. Len(known) : V[known[j]].total > 0}}
    BY <1>6 DEF Staked
  <2>2. ToSet(known) = {known[i] : i \in 1 .. Len(known)}
    BY <1>1 DEF ToSet, Listed
  <2> HIDE DEF S
  <2> QED
    BY <1>1, <2>1, <2>2 DEF HaveStake
<1>12. CASE Len(reg) <= size
  <2>1. h.quorum = reg
    BY <1>5, <1>12
  <2> QED
    BY <1>10, <1>11, <1>12, <2>1 DEF Chosen, Sized, HaveStake
<1>13. CASE ~(Len(reg) <= size)
  <2>1. h.quorum = quorum
    BY <1>5, <1>13
  <2>2. \A i \in 1 .. size : draw[i] \in Nat
    BY <1>2, <1>3, <1>13
  <2>3. /\ Listed(quorum) /\ Len(quorum) <= size
        /\ ToSet(quorum) \subseteq S
        /\ Len(quorum) = size \/ ToSet(quorum) = S
    <3> DEFINE q == quorum
    <3>1. q = DrawByStake(known, stakes, size, draw)
      OBVIOUS
    <3> HIDE DEF q
    <3> QED
      BY <1>1, <1>7, <2>2, <3>1, DrawnFacts DEF q
  <2> HIDE DEF quorum, S
  <2> QED
    BY <1>10, <1>11, <2>1, <2>3 DEF Chosen, Sized, HaveStake
<1> QED
  BY <1>10, <1>11, <1>12, <1>13

-----------------------------------------------------------------------------
(* The storages of both threads, whatever the caches hold *)

\* What either thread has of the epoch it is in.
Begun(h) ==
    /\ Chosen(h) /\ h.params \in NetworkParameters
    /\ h.version \in Nat /\ h.start \in Nat

\* What is read without the lock is a validator's storage.
FetchesOf(reads) ==
    \A f \in reads : f.validator \in Validator /\ Funded(f.storage)

\* All that the threads have of validators, with caches of any size, and with
\* objects that both threads change.
Stores ==
    /\ Stocked(atStore) /\ Stocked(etStore)
    /\ ~atWritten => atStore.db \in {NoDb, GenesisDb}
    /\ ~etWritten => etStore.db \in {NoDb, GenesisDb}
    /\ HasAt => Begun(at) /\ Sized(at, at.params["QUORUM_SIZE"])
    /\ HasEt => Begun(et) /\ Counted(et)
    /\ FetchesOf(fetch)
    /\ \A e \in DOMAIN atDb.epochData : Chosen(atDb.epochData[e])

\* The databases before and after the genesis.
LEMMA GenesisDbs ==
    ASSUME NEW db, db \in {NoDb, GenesisDb}
    PROVE  GoodView(db)
BY GenesisFacts DEF NoDb, GoodView

\* The stores hold at first.
LEMMA StoresStart == RotationInit => Stores
<1> SUFFICES ASSUME RotationInit PROVE Stores
  OBVIOUS
<1>1. /\ world \in Worlds /\ phase = "down" /\ atWritten = FALSE
      /\ etWritten = FALSE /\ fetch = {}
      /\ atStore = OpenStore(NoDb, world.cap) /\ etStore = OpenStore(NoDb, world.cap)
      /\ atDb = [snapshots |-> <<>>, epochData |-> <<>>, latestBatchIndex |-> 0]
  BY DEF RotationInit, NoDb
<1>2. \A t : t = OpenStore(NoDb, world.cap) => Stocked(t) /\ t.db = NoDb
  <2>1. GoodView(NoDb) /\ world.cap \in Nat
    BY <1>1, GenesisDbs, WorldFacts
  <2> QED
    BY <2>1, OpenStocked DEF OpenStore
<1>3. DOMAIN atDb.epochData = {}
  BY <1>1
<1> QED
  BY <1>1, <1>2, <1>3 DEF Stores, HasAt, HasEt, FetchesOf

\* They hold when the genesis is made.
LEMMA StoresFounded ==
    ASSUME Course, NEW h, Founds(h), Stores
    PROVE  Stores'
<1>1. /\ ~atWritten /\ ~etWritten /\ phase' = "approvement" /\ world \in Worlds
      /\ UNCHANGED <<atWritten, etWritten, fetch>> /\ at' = h
      /\ h = GenesisHandler(GenesisStore(atStore.db))
      /\ atStore' = [ReadAllWithoutLock(GenesisStore(atStore.db),
                                        GenesisRegistry \o GenesisRegistry)
                         EXCEPT !.db = GenesisDb]
      /\ etStore' = GenesisStore(etStore.db)
      /\ et' = Cursor(h, TotalStaked(GenesisDb), [a \in Staker |-> 0])
      /\ atDb' = [atDb EXCEPT !.snapshots =
                   With(atDb.snapshots, 0, Snapshot(h, h.params))]
  BY DEF Founds, Course, Lifecycle
<1>2. atStore.db \in {NoDb, GenesisDb} /\ etStore.db \in {NoDb, GenesisDb}
  BY <1>1 DEF Stores
<1>3. Stocked(atStore')
  BY <1>1, <1>2, GenesisStocked
<1>4. Stocked(etStore') /\ etStore'.db = etStore.db
  BY <1>1, <1>2, GenesisStocked, GenesisStoreFacts
<1>5. atStore'.db = GenesisDb
  <2> DEFINE u == ReadAllWithoutLock(GenesisStore(atStore.db),
                                     GenesisRegistry \o GenesisRegistry)
  <2>1. atStore' = [u EXCEPT !.db = GenesisDb]
    BY <1>1
  <2> HIDE DEF u
  <2>2. "db" \in DOMAIN atStore'
    BY <1>3 DEF Stocked, StoreShape
  <2> QED
    BY <2>1, <2>2
<1>6. /\ et'.registry = h.registry /\ et'.quorum = h.quorum
      /\ et'.leaders = h.leaders /\ et'.params = h.params
      /\ et'.version = h.version /\ et'.start = h.start
      /\ et'.stakingDelta = TotalStaked(GenesisDb)
      /\ et'.balances = [a \in Staker |-> 0]
  BY <1>1 DEF Cursor
<1>7. Begun(h) /\ Sized(h, h.params["QUORUM_SIZE"])
  <2> DEFINE V == View(GenesisStore(atStore.db))
             size == Genesis.params["QUORUM_SIZE"]
             draw == world.draw[0]
  <2>1. /\ h.registry = GenesisRegistry /\ h.params = Genesis.params
        /\ h.version = Genesis.version /\ h.start = Genesis.start
        /\ h.quorum = GetCurrentEpochQuorum(V, GenesisRegistry, size, draw)
        /\ h.leaders = GetLeadersSequence(V, GenesisRegistry, draw)
    BY <1>1 DEF GenesisHandler
  <2>2. Listed(GenesisRegistry)
    BY GenesisFacts DEF RegistryOf, Listed
  <2>3. GoodView(V)
    BY <1>1, <1>2, GenesisStocked, StockedView
  <2>4. Genesis.params \in NetworkParameters
    BY GenesisFacts
  <2>5. size \in Nat
    BY <2>4 DEF NetworkParameters, Field
  <2>6. \A i \in 1 .. Cardinality(Validator) : draw[i] \in Nat
    BY <1>1, RotationAssumption DEF WorldOk, Epoch
  <2> HIDE DEF V, size, draw
  <2>7. Chosen(h) /\ Sized(h, size)
    BY <2>1, <2>2, <2>3, <2>5, <2>6, SelectionFacts
  <2> QED
    BY <2>1, <2>4, <2>7, RotationAssumption DEF size, Begun
<1>8. atDb'.epochData = atDb.epochData
  BY <1>1 DEF Course, Epochs
<1>9. Begun(et') /\ Counted(et')
  <2>1. TotalStaked(GenesisDb) \in Int
    BY GenesisDbs, TotalIsInt
  <2> QED
    BY <1>6, <1>7, <2>1 DEF Begun, Chosen, Counted
<1> QED
  BY <1>1, <1>2, <1>3, <1>4, <1>5, <1>6, <1>7, <1>8, <1>9 DEF Stores

\* They hold when STATE has the genesis.
LEMMA StoresWritten ==
    ASSUME Course, WriteGenesisOfState, Stores
    PROVE  Stores'
<1>1. /\ phase = "approvement" /\ phase' = "state" /\ etWritten' = TRUE
      /\ etStore' = [etStore EXCEPT !.db = GenesisDb]
      /\ UNCHANGED <<at, atWritten, atStore, atDb, fetch, et>>
  BY DEF WriteGenesisOfState, atVars
<1>2. Stocked(etStore')
  BY <1>1, GenesisDbs, DbStocked DEF Stores
<1> QED
  BY <1>1, <1>2 DEF Stores, HasAt, HasEt

\* They hold when memory is lost.
LEMMA StoresLost ==
    ASSUME Course, Loses, Stores
    PROVE  Stores'
<1>1. /\ phase # "down" /\ phase' = "down"
      /\ UNCHANGED <<world, atWritten, etWritten, atDb>> /\ world \in Worlds
      /\ atStore' = OpenStore(atStore.db, world.cap) /\ fetch' = {}
      /\ etStore' = OpenStore(etStore.db, world.cap)
      /\ at' = IF atWritten THEN at ELSE NothingYet
      /\ et' = IF etWritten THEN et ELSE NothingYet
  BY DEF Loses, LoseCaches, Course, Lifecycle
<1>2. GoodView(atStore.db) /\ GoodView(etStore.db) /\ world.cap \in Nat
  BY <1>1, WorldFacts DEF Stores, Stocked
<1>3. Stocked(atStore') /\ Stocked(etStore')
  BY <1>1, <1>2, OpenStocked
<1>4. atStore'.db = atStore.db /\ etStore'.db = etStore.db
  BY <1>1 DEF OpenStore
<1> QED
  BY <1>1, <1>3, <1>4 DEF Stores, HasAt, HasEt, FetchesOf

\* They hold when the approvement thread rotates.
LEMMA StoresRotated ==
    ASSUME Course, NEW txs, NEW x, NEW n, Rotates(txs, x, n), Stores
    PROVE  Stores'
<1> DEFINE y == ApprovementContext(at, atStore)
           size == x.params["QUORUM_SIZE"]
<1>1. /\ phase = "up" /\ phase' \in {"up", "old"} /\ at' = n
      /\ txs \in Seq(DelayedTransaction)
      /\ x = ExecuteBatch(y, txs) /\ n = NextHandler(at, x)
      /\ atStore' = ResetTouched(AfterSelection(x.store, x.registry, size))
      /\ etStore' = Mirror(etStore, x.store)
      /\ UNCHANGED <<atWritten, etWritten, fetch, et>>
      /\ at.epoch \in finished /\ world \in Worlds
      /\ atDb'.epochData = With(atDb.epochData, at.epoch + 1,
                                NextEpochDataHandler(n, txs))
  BY DEF Rotates, Course, Lifecycle
<1>2. atWritten /\ etWritten
  BY <1>1 DEF Course, Lifecycle
<1>3. /\ ContextShape(y) /\ y.store = atStore /\ y.registry = at.registry
      /\ y.params = at.params /\ y.version = at.version
      /\ y.stakingDelta = 0 /\ y.balances = [a \in Staker |-> 0]
  BY DEF ApprovementContext, ContextShape
<1>4. Sound(y) /\ Begun(at)
  BY <1>1, <1>3 DEF Sound, Counted, Stores, HasAt, Begun, Chosen
<1> HIDE DEF y
<1>5. Sound(x)
  BY <1>1, <1>4, BatchSound
<1>6. /\ Stocked(x.store) /\ Listed(x.registry) /\ x.params \in NetworkParameters
      /\ size \in Nat /\ x.params["EPOCH_DURATION"] \in Nat /\ x.version \in Nat
  BY <1>5 DEF Sound, Counted, NetworkParameters, Field
<1> HIDE DEF size
<1>7. Stocked(atStore')
  BY <1>1, <1>6, SelectionStocked DEF Listed
<1>8. Stocked(etStore')
  BY <1>1, <1>6, MirrorStocked DEF Stores
<1>9. Begun(n) /\ Sized(n, n.params["QUORUM_SIZE"])
  <2> DEFINE V == View(x.store)
             draw == world.draw[at.epoch + 1]
  <2>1. /\ n.registry = x.registry /\ n.params = x.params
        /\ n.version = x.version /\ n.start = at.start + x.params["EPOCH_DURATION"]
        /\ n.quorum = GetCurrentEpochQuorum(V, x.registry, size, draw)
        /\ n.leaders = GetLeadersSequence(V, x.registry, draw)
    BY <1>1 DEF NextHandler, size
  <2>2. GoodView(V)
    BY <1>6, StockedView
  <2>3. \A i \in 1 .. Cardinality(Validator) : draw[i] \in Nat
    <3>1. at.epoch + 1 \in Epoch
      BY <1>1, RotationAssumption DEF Course, Epochs, Epoch
    <3> QED
      BY <1>1, <3>1, RotationAssumption DEF WorldOk
  <2> HIDE DEF V, draw
  <2>4. Chosen(n) /\ Sized(n, size)
    BY <1>6, <2>1, <2>2, <2>3, SelectionFacts
  <2>5. n.start \in Nat
    BY <1>4, <1>6, <2>1 DEF Begun
  <2> QED
    BY <1>6, <2>1, <2>4, <2>5 DEF size, Begun
<1>10. \A e \in DOMAIN atDb'.epochData : Chosen(atDb'.epochData[e])
  <2> DEFINE d == NextEpochDataHandler(n, txs)
  <2>1. /\ d.registry = n.registry /\ d.quorum = n.quorum
        /\ d.leaders = n.leaders
    BY DEF NextEpochDataHandler
  <2> HIDE DEF d
  <2>2. /\ DOMAIN atDb'.epochData = DOMAIN atDb.epochData \cup {at.epoch + 1}
        /\ \A e \in DOMAIN atDb'.epochData :
              atDb'.epochData[e] = IF e = at.epoch + 1 THEN d ELSE atDb.epochData[e]
    BY <1>1 DEF With, d
  <2>3. Chosen(d)
    BY <1>9, <2>1 DEF Begun, Chosen
  <2> QED
    BY <2>2, <2>3 DEF Stores
<1> QED
  BY <1>1, <1>2, <1>6, <1>7, <1>8, <1>9, <1>10 DEF Stores, HasEt

\* They hold when the execution thread enters an epoch.
LEMMA StoresEntered ==
    ASSUME Course, NEW d, NEW x, NEW c, Enters(d, x, c), Stores
    PROVE  Stores'
<1> DEFINE y == ExecutionContext(et, etStore)
<1>1. /\ phase = "up" /\ phase' \in {"up", "old"}
      /\ et.epoch + 1 \in DOMAIN atDb.epochData
      /\ d = atDb.epochData[et.epoch + 1]
      /\ x = ExecuteBatch(y, d.delayed) /\ c = NextCursor(et, d, x) /\ et' = c
      /\ etStore' = x.store /\ atStore' = Mirror(atStore, x.store)
      /\ UNCHANGED <<at, atWritten, atDb, fetch, etWritten>>
  BY DEF Enters
<1>2. atWritten /\ etWritten
  BY <1>1 DEF Course, Lifecycle
<1>3. d.delayed \in Seq(DelayedTransaction) /\ Chosen(d)
  BY <1>1 DEF Course, Epochs, Stores
<1>4. /\ ContextShape(y) /\ y.store = etStore /\ y.registry = et.registry
      /\ y.params = et.params /\ y.version = et.version
      /\ y.stakingDelta = et.stakingDelta /\ y.balances = et.balances
  BY DEF ExecutionContext, ContextShape
<1>5. Sound(y) /\ Begun(et)
  BY <1>1, <1>4 DEF Sound, Counted, Stores, HasEt, Begun, Chosen
<1> HIDE DEF y
<1>6. Sound(x)
  BY <1>1, <1>3, <1>5, BatchSound
<1>7. Stocked(etStore')
  BY <1>1, <1>6 DEF Sound
<1>8. Stocked(atStore')
  BY <1>1, <1>6, MirrorStocked DEF Sound, Stores
<1>9. /\ et'.registry = d.registry /\ et'.quorum = d.quorum
      /\ et'.leaders = d.leaders /\ et'.params = x.params
      /\ et'.version = x.version /\ et'.stakingDelta = x.stakingDelta
      /\ et'.balances = x.balances
      /\ et'.start = et.start + et.params["EPOCH_DURATION"]
  BY <1>1 DEF NextCursor
<1>10. Begun(et') /\ Counted(et')
  <2>1. et.start \in Nat /\ et.params["EPOCH_DURATION"] \in Nat
    BY <1>5 DEF Begun, NetworkParameters, Field
  <2>2. et'.start \in Nat
    BY <1>9, <2>1
  <2> QED
    BY <1>3, <1>6, <1>9, <2>2 DEF Begun, Chosen, Sound, Counted
<1> QED
  BY <1>1, <1>2, <1>7, <1>8, <1>10 DEF Stores, HasAt

\* They hold at a start.
LEMMA StoresStarted ==
    ASSUME Course, StartNode, Stores
    PROVE  Stores'
<1>1. /\ phase = "down" /\ etWritten /\ atWritten
      /\ et' = Backfilled(et, etStore.db)
      /\ UNCHANGED <<at, atWritten, atStore, atDb, fetch, etWritten, etStore>>
  BY DEF StartNode, atVars
<1>2. DOMAIN et = CursorFields
  BY <1>1 DEF Course, Epochs, HasEt
<1>3. /\ et'.registry = et.registry /\ et'.quorum = et.quorum
      /\ et'.leaders = et.leaders /\ et'.params = et.params
      /\ et'.version = et.version /\ et'.start = et.start
      /\ et'.balances = et.balances
      /\ et'.stakingDelta \in {et.stakingDelta, TotalStaked(etStore.db)}
  BY <1>1, <1>2 DEF Backfilled, CursorFields
<1>4. Begun(et) /\ Counted(et)
  BY <1>1 DEF Stores, HasEt
<1>5. TotalStaked(etStore.db) \in Int
  BY TotalIsInt DEF Stores, Stocked
<1>6. Begun(et') /\ Counted(et')
  BY <1>3, <1>4, <1>5 DEF Begun, Chosen, Counted
<1> QED
  BY <1>1, <1>6 DEF Stores, HasAt, HasEt

\* They hold when a read without the lock begins and ends.
LEMMA StoresFetched ==
    ASSUME Course, StartFetch \/ EndFetch, Stores
    PROVE  Stores'
<1>1. CASE StartFetch
  <2>1. PICK v \in DOMAIN atStore.db :
           fetch' = {[validator |-> v, storage |-> atStore.db[v]]}
    BY <1>1 DEF StartFetch
  <2>2. UNCHANGED <<phase, at, atWritten, atStore, atDb, et, etWritten, etStore>>
    BY <1>1 DEF StartFetch, etVars
  <2>3. v \in Validator /\ Funded(atStore.db[v])
    BY DEF Stores, Stocked, GoodView
  <2>4. FetchesOf(fetch')
    BY <2>1, <2>3 DEF FetchesOf
  <2> QED
    BY <2>2, <2>4 DEF Stores, HasAt, HasEt
<1>2. CASE EndFetch
  <2>1. PICK f \in fetch : atStore' = FillCache(atStore, f.validator, f.storage)
    BY <1>2 DEF EndFetch
  <2>2. /\ UNCHANGED <<phase, at, atWritten, atDb, et, etWritten, etStore>>
        /\ fetch' = {} /\ phase = "up" /\ atWritten
    BY <1>2 DEF EndFetch, etVars, Course, Lifecycle
  <2>3. f.validator \in Validator /\ Funded(f.storage)
    BY DEF Stores, FetchesOf
  <2> DEFINE v == f.validator
             o == f.storage
  <2>4. atStore' = FillCache(atStore, v, o) /\ v \in Validator /\ Funded(o)
    BY <2>1, <2>3
  <2> HIDE DEF v, o
  <2>5. Stocked(atStore')
    BY <2>4, FillStocked DEF Stores
  <2> QED
    BY <2>2, <2>5 DEF Stores, HasAt, HasEt, FetchesOf
<1> QED
  BY <1>1, <1>2

\* They hold when none of it changes.
LEMMA StoresKept ==
    ASSUME Course, Stores,
           \/ WriteHandler \/ FinishEpoch \/ FindFirstBlock
           \/ UNCHANGED rotationVars
    PROVE  Stores'
<1>1. UNCHANGED <<at, atStore, atDb, fetch, et, etWritten, etStore>>
  BY DEF WriteHandler, FinishEpoch, FindFirstBlock, rotationVars, etVars
<1>2. /\ atWritten => atWritten'
      /\ HasAt' => HasAt
      /\ HasEt' => HasEt
  BY DEF WriteHandler, FinishEpoch, FindFirstBlock, rotationVars, etVars, HasAt,
         HasEt
<1> QED
  BY <1>1, <1>2 DEF Stores

\* They hold after every step.
LEMMA StoresStep ==
    ASSUME Course, [RotationNext]_rotationVars, Stores
    PROVE  Stores'
BY StepGroups, StoresFounded, StoresWritten, StoresLost, StoresStarted,
   StoresRotated, StoresFetched, StoresEntered, StoresKept

\* They always hold.
LEMMA StoresHold == RotationSpec => [](Course /\ Stores)
<1>1. Course /\ Stores /\ [RotationNext]_rotationVars => Stores'
  BY StoresStep
<1> QED
  BY CourseHolds, StoresStart, <1>1, PTL DEF RotationSpec

-----------------------------------------------------------------------------
(* The selection *)

\* However far a selection has come, and whichever number is drawn next, the
\* tree finds the validator that a scan of the remaining stakes finds: for
\* FindByWeight and RemoveStake of WeightedSelection, over the registry and the
\* storages that the approvement thread has at any moment.
THEOREM SelectionFits == RotationSpec => []SelectionFindsByStake
<1>1. Course /\ Stores => SelectionFindsByStake
  <2> SUFFICES ASSUME Course, Stores, phase = "up"
               PROVE  LET known == Known(View(atStore), at.registry)
                      IN  \A removed \in SUBSET (0 .. Len(known) - 1) :
                             FindsWhatScanFinds(Stakes(View(atStore), known), removed)
    BY DEF SelectionFindsByStake
  <2> DEFINE V == View(atStore)
             known == Known(V, at.registry)
             stakes == Stakes(V, known)
  <2>1. Listed(at.registry)
    BY DEF Stores, HasAt, Begun, Chosen
  <2>2. GoodView(V)
    BY StockedView DEF Stores
  <2> HIDE DEF V
  <2>3. known \in Seq(Validator) /\ ToSet(known) \subseteq DOMAIN V
    BY <2>1, KnownFacts DEF Listed
  <2> HIDE DEF known
  <2>4. stakes \in Seq(Nat) /\ Len(stakes) = Len(known)
    BY <2>2, <2>3, StakesFacts
  <2> HIDE DEF stakes
  <2>5. \A removed \in SUBSET (0 .. Len(known) - 1) :
           FindsWhatScanFinds(stakes, removed)
    BY <2>4, FindsAsScanned
  <2> QED
    BY <2>5 DEF V, known, stakes
<1> QED
  BY StoresHold, <1>1, PTL

\* Draws are without replacement, in the epoch of either thread and whatever
\* the caches have thrown out: nobody is twice in a quorum or among the leaders
\* that GetCurrentEpochQuorum and GetLeadersSequence have drawn.
THEOREM NobodyTwice == RotationSpec => []NobodyIsDrawnTwice
<1>1. Course /\ Stores => NobodyIsDrawnTwice
  BY DEF Stores, HasAt, HasEt, Begun, Chosen, Listed, NobodyIsDrawnTwice, DrawnOnce
<1> QED
  BY StoresHold, <1>1, PTL

\* A quorum is as large as the parameters of its epoch say unless all who lead
\* are in it; and those who lead are all of the registry with a stake, where
\* the threads see what the batches have made of the genesis.
THEOREM NobodyLeftOut == RotationSpec => []SelectionIsComplete
<1>1. Course /\ Stores /\ ApprovementIsReplay => SelectionIsComplete
  <2> SUFFICES ASSUME Course, Stores, ApprovementIsReplay, phase = "up"
               PROVE  /\ Sized(at, at.params["QUORUM_SIZE"])
                      /\ (CacheHoldsAll /\ StoresAreApart) =>
                            ToSet(at.leaders) = HaveStake(View(atStore), at.registry)
    BY DEF SelectionIsComplete, Sized, HaveStake
  <2>1. Sized(at, at.params["QUORUM_SIZE"])
    BY DEF Stores, HasAt
  <2>2. ASSUME CacheHoldsAll, StoresAreApart
        PROVE  ToSet(at.leaders) = HaveStake(View(atStore), at.registry)
    <3> DEFINE r == ReplayOf(atDb)[at.epoch]
               V == View(atStore)
               draw == world.draw[at.epoch]
               q == GetLeadersSequence(V, at.registry, draw)
               h == [registry |-> at.registry, leaders |-> q,
                     quorum |-> GetCurrentEpochQuorum(V, at.registry, 0, draw)]
    <3>1. ApprovementShows(r)
      BY <2>2 DEF ApprovementIsReplay
    <3> HIDE DEF r
    <3>2. at.leaders = q
      BY <3>1 DEF ApprovementShows
    <3>3. GoodView(V) /\ Listed(at.registry)
      BY StockedView DEF Stores, HasAt, Begun, Chosen
    <3>4. \A i \in 1 .. Cardinality(Validator) : draw[i] \in Nat
      BY RotationAssumption DEF Course, Lifecycle, Epochs, WorldOk
    <3>5. /\ h.registry = at.registry /\ h.leaders = q
          /\ h.quorum = GetCurrentEpochQuorum(V, at.registry, 0, draw)
      OBVIOUS
    <3> HIDE DEF h, V, draw
    <3>6. ToSet(h.leaders) = HaveStake(V, at.registry)
      BY <3>3, <3>4, <3>5, SelectionFacts
    <3> QED
      BY <3>2, <3>5, <3>6 DEF V
  <2> QED
    BY <2>1, <2>2
<1> QED
  BY StoresHold, ApprovementReplays, <1>1, PTL

\* The three together: every draw falls where the stakes say, nobody is drawn
\* twice, and nobody with a stake is left out while there is room.
THEOREM SelectionSound == RotationSpec => []SelectionIsSound
<1>1. SelectionFindsByStake /\ NobodyIsDrawnTwice /\ SelectionIsComplete =>
         SelectionIsSound
  BY DEF SelectionIsSound
<1> QED
  BY SelectionFits, NobodyTwice, NobodyLeftOut, <1>1, PTL

\* Whatever is in a cache is in its LRU list, in which nobody is twice: for the
\* map and the list that TouchCache, PutCache and EvictIfNeeded of
\* ValidatorStore keep side by side, in caches of any size.
THEOREM CacheIsListed == RotationSpec => []CachedAreListed
<1>1. Course /\ Stores => CachedAreListed
  BY DEF Stores, Stocked, InOrder, CachedAreListed
<1> QED
  BY StoresHold, <1>1, PTL

-----------------------------------------------------------------------------
(* The types of the node's state *)

\* What is counted and noted beside the handlers and the stores.
Noted ==
    /\ atDb.latestBatchIndex \in Epoch
    /\ DOMAIN firstBlock \subseteq Epoch
    /\ \E f : fetch \subseteq {f}
    /\ software \in Nat
    /\ restarts \in 0 .. MaxRestarts

\* Nothing is noted at first.
LEMMA NotedStart == RotationInit => Noted
<1> SUFFICES ASSUME RotationInit PROVE Noted
  OBVIOUS
<1>1. /\ atDb = [snapshots |-> <<>>, epochData |-> <<>>, latestBatchIndex |-> 0]
      /\ firstBlock = <<>> /\ fetch = {} /\ software = Genesis.version
      /\ restarts = 0
  BY DEF RotationInit
<1>2. DOMAIN firstBlock = {} /\ 0 \in Epoch
  BY <1>1, RotationAssumption DEF Epoch
<1> QED
  BY <1>1, <1>2, RotationAssumption DEF Noted

\* A rotation notes its epoch.
LEMMA NotedRotated ==
    ASSUME Course, RotateEpoch, Noted
    PROVE  Noted'
<1> DEFINE txs == OrderByPriority(TransactionsToExecute(at, atDb.latestBatchIndex))
           x == ExecuteBatch(ApprovementContext(at, atStore), txs)
           n == NextHandler(at, x)
<1>1. /\ BeginEpoch(txs, x, n)
      /\ UNCHANGED <<firstBlock, fetch, software, restarts>>
  BY DEF RotateEpoch, RotateWith
<1> HIDE DEF txs, x, n
<1>2. atDb'.latestBatchIndex \in {at.epoch, atDb.latestBatchIndex}
  BY <1>1 DEF BeginEpoch
<1> QED
  BY <1>1, <1>2 DEF Noted, Course, Epochs

\* Every step notes what it should.
LEMMA NotedStep ==
    ASSUME Course, Stores, [RotationNext]_rotationVars, Noted
    PROVE  Noted'
<1>1. CASE WriteGenesisOfApprovement
  BY <1>1 DEF WriteGenesisOfApprovement, GenesisWith, GenesisInMemory, Noted,
              Course, Epochs
<1>2. CASE WriteGenesisOfState
  BY <1>2 DEF WriteGenesisOfState, atVars, Noted
<1>3. CASE WriteHandler
  BY <1>3 DEF WriteHandler, Noted
<1>4. CASE StopNode
  BY <1>4, RotationAssumption DEF StopNode, LoseCaches, Noted
<1>5. CASE StartNode
  <2>1. at.version \in Nat
    BY <1>5 DEF StartNode, Stores, HasAt, Begun
  <2> QED
    BY <1>5, <2>1 DEF StartNode, atVars, Noted
<1>6. CASE FinishEpoch
  BY <1>6 DEF FinishEpoch, Noted
<1>7. CASE FindFirstBlock
  <2>1. PICK b : firstBlock' = With(firstBlock, at.epoch, b)
    BY <1>7 DEF FindFirstBlock
  <2>2. UNCHANGED <<atDb, fetch, software, restarts>> /\ at.epoch \in Epoch
    BY <1>7 DEF FindFirstBlock, Course, Epochs
  <2> QED
    BY <2>1, <2>2 DEF With, Noted
<1>8. CASE RotateEpoch
  BY <1>8, NotedRotated
<1>9. CASE ShutDownWhenOld
  BY <1>9 DEF ShutDownWhenOld, LoseCaches, Noted
<1>10. CASE StartFetch
  BY <1>10 DEF StartFetch, Noted
<1>11. CASE EndFetch
  BY <1>11 DEF EndFetch, Noted
<1>12. CASE SetupNextEpochFromRotationProof
  BY <1>12 DEF SetupNextEpochFromRotationProof, Noted
<1>13. CASE UNCHANGED rotationVars
  BY <1>13 DEF rotationVars, Noted
<1> QED
  BY <1>1, <1>2, <1>3, <1>4, <1>5, <1>6, <1>7, <1>8, <1>9, <1>10, <1>11, <1>12,
     <1>13 DEF RotationNext

\* A stocked store has its type.
LEMMA StockedType ==
    ASSUME NEW s, Stocked(s)
    PROVE  StoreTypeOK(s)
BY DEF Stocked, StoreShape, GoodView, Funded, InOrder, StoreTypeOK

\* The variables of EpochRotation have their types: no quorum or list of leaders
\* has anyone twice, storages and handlers are whole, and no statistic, refund
\* or parameter leaves its range, whatever the caches throw out, the two
\* threads share and the crashes lose.
THEOREM RotationTypeCorrect == RotationSpec => []RotationTypeOK
<1>1. Course /\ Stores /\ Noted /\ [RotationNext]_rotationVars => Noted'
  BY NotedStep
<1>2. Course /\ Stores /\ Noted => RotationTypeOK
  <2> SUFFICES ASSUME Course, Stores, Noted PROVE RotationTypeOK
    OBVIOUS
  <2>1. /\ world \in Worlds /\ phase \in Phase
        /\ atWritten \in BOOLEAN /\ etWritten \in BOOLEAN /\ mixed \in BOOLEAN
    BY DEF Course, Lifecycle
  <2>2. StoreTypeOK(atStore) /\ StoreTypeOK(etStore)
    BY StockedType DEF Stores
  <2>3. /\ at.epoch \in Epoch /\ et.epoch \in Epoch
        /\ finished \in SUBSET Epoch
    BY RotationAssumption DEF Course, Epochs, Epoch
  <2>4. atWritten => EpochData(at) /\ at.params \in NetworkParameters
    BY <2>3 DEF Stores, HasAt, Begun, Chosen, Listed, EpochData
  <2>5. etWritten => /\ EpochData(et) /\ et.params \in NetworkParameters
                     /\ et.stakingDelta \in Int /\ et.balances \in [Staker -> Nat]
    BY <2>3 DEF Stores, HasEt, Begun, Chosen, Listed, Counted, EpochData
  <2>6. Cardinality(fetch) <= 1
    <3>1. PICK f : fetch \subseteq {f}
      BY DEF Noted
    <3>2. fetch = {} \/ fetch = {f}
      BY <3>1
    <3>3. Cardinality({}) = 0 /\ Cardinality({f}) = 1
      BY FS_EmptySet, FS_Singleton
    <3> QED
      BY <3>2, <3>3
  <2> QED
    BY <2>1, <2>2, <2>3, <2>4, <2>5, <2>6 DEF Noted, RotationTypeOK
<1> QED
  BY StoresHold, NotedStart, <1>1, <1>2, PTL DEF RotationSpec
=============================================================================
