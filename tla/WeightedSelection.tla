------------------------- MODULE WeightedSelection -------------------------
(***************************************************************************)
(* The choice of quorums and leaders: validators are drawn in proportion   *)
(* to their stakes, without replacement, over a Fenwick tree.              *)
(*                                                                         *)
(* A tree is the sequence tree[1 .. n] of the code.  Sums are small enough *)
(* not to overflow 64 bits.                                                *)
(***************************************************************************)
EXTENDS Integers, SequencesExt

PowerOfTwo[k \in Nat] == IF k = 0 THEN 1 ELSE 2 * PowerOfTwo[k - 1]

\* i & (-i)
LowBit[i \in Nat \ {0}] == IF i % 2 = 1 THEN 1 ELSE 2 * LowBit[i \div 2]

AddToParent(tree, i) ==
    LET parent == i + LowBit[i]
    IN  IF parent <= Len(tree)
        THEN [tree EXCEPT ![parent] = @ + tree[i]] ELSE tree

NewStakeFenwickTree(stakes) ==
    FoldLeft(AddToParent, stakes, [i \in 1 .. Len(stakes) |-> i])

\* The positions that RemoveStake changes from position i on.
UpdatePath(n) ==
    LET path[i \in 1 .. 2 * n] ==
            IF i > n THEN {} ELSE {i} \cup path[i + LowBit[i]]
    IN  path

\* Positions are counted from 0.
RemoveStake(tree, idx, stake) ==
    LET path == UpdatePath(Len(tree))[idx + 1]
    IN  [i \in 1 .. Len(tree) |->
            IF i \in path THEN tree[i] - stake ELSE tree[i]]

\* The bit masks, from the greatest power of two that is no more than n.
BitMasks(n) ==
    LET count == Cardinality({k \in 0 .. n : PowerOfTwo[k] <= n})
    IN  [i \in 1 .. count |-> PowerOfTwo[count - i]]

\* Mutation: a sum that is exactly r is not passed.
DescendOnSmaller(tree, at, mask) ==
    LET next == at.pos + mask
    IN  IF next <= Len(tree) /\ tree[next] < at.r
        THEN [pos |-> next, r |-> at.r - tree[next]] ELSE at

Descend(tree, at, mask) ==
    LET next == at.pos + mask
    IN  IF next <= Len(tree) /\ tree[next] <= at.r
        THEN [pos |-> next, r |-> at.r - tree[next]] ELSE at

FindByWeight(tree, r) ==
    FoldLeft(LAMBDA at, mask : Descend(tree, at, mask), [pos |-> 0, r |-> r],
             BitMasks(Len(tree))).pos

StakeSum(stakes) == FoldLeft(LAMBDA a, b : a + b, 0, stakes)

\* One draw, the i-th: the loop ends where nothing is left to draw.
DrawNext(pubkeys, stakes, draw, d, i) ==
    IF d.left = 0 THEN d
    ELSE LET idx == FindByWeight(d.tree, draw[i] % d.left)
         IN  [chosen |-> Append(d.chosen, pubkeys[idx + 1]),
              left   |-> d.left - stakes[idx + 1],
              tree   |-> RemoveStake(d.tree, idx, stakes[idx + 1])]

\* At most "count" of the pubkeys, in the order in which they are drawn.
DrawByStake(pubkeys, stakes, count, draw) ==
    FoldLeft(LAMBDA d, i : DrawNext(pubkeys, stakes, draw, d, i),
             [chosen |-> <<>>, left |-> StakeSum(stakes),
              tree |-> NewStakeFenwickTree(stakes)],
             [i \in 1 .. count |-> i]).chosen

-----------------------------------------------------------------------------
(* What the comment on FindByWeight promises: the first position whose       *)
(* prefix sum exceeds r, the removed positions being without stake.          *)

RemainingStakes(stakes, removed) ==
    [i \in 1 .. Len(stakes) |-> IF i - 1 \in removed THEN 0 ELSE stakes[i]]

LinearScan(stakes, r) ==
    CHOOSE idx \in 0 .. Len(stakes) - 1 :
        /\ StakeSum(SubSeq(stakes, 1, idx + 1)) > r
        /\ \A j \in 0 .. idx - 1 : StakeSum(SubSeq(stakes, 1, j + 1)) <= r

TreeAfter(stakes, removed) ==
    FoldLeft(LAMBDA t, idx : RemoveStake(t, idx, stakes[idx + 1]),
             NewStakeFenwickTree(stakes), SetToSeq(removed))

FindsTheSame(tree, rest) ==
    \A r \in 0 .. StakeSum(rest) - 1 : FindByWeight(tree, r) = LinearScan(rest, r)

FindsWhatScanFinds(stakes, removed) ==
    FindsTheSame(TreeAfter(stakes, removed), RemainingStakes(stakes, removed))
=============================================================================
