--------------------------- MODULE FinalizedChain ---------------------------
(***************************************************************************)
(* What a quorum promises about the blocks of one epoch, without saying    *)
(* how: each leader has a chain of finalized blocks that only grows at its *)
(* end, and a seal of a leader never cuts off a confirmed block, one that  *)
(* has a finalized successor.                                              *)
(***************************************************************************)
EXTENDS Integers

CONSTANTS Leader,    \* positions of the leaders
          Sealable,  \* the leaders whose seals are binding
          Index,     \* indexes of blocks
          Hash, ZeroHash

VARIABLES finalized, \* the finalized blocks, each with the hash before it
          sealed     \* the seals: a leader, its last index and hash

Block == [leader : Leader, index : Index, hash : Hash]
Vote  == [block : Block, prev : Hash \cup {ZeroHash}]
Seal  == [leader : Leader, index : Index \cup {-1}, hash : Hash \cup {ZeroHash}]

Init == finalized = {} /\ sealed = {}

\* The block comes right after a finalized one, or is the first of its leader.
ExtendsChain(x) ==
    IF x.block.index = 0 THEN x.prev = ZeroHash
    ELSE \E y \in finalized : /\ y.block.leader = x.block.leader
                              /\ y.block.index = x.block.index - 1
                              /\ y.block.hash = x.prev

\* The seal keeps the block that the finalized block x confirms.
Keeps(s, x) ==
    s.leader = x.block.leader /\ s.leader \in Sealable
        => x.block.index - 1 <= s.index

Finalize(x) ==
    /\ \A y \in finalized : y.block.leader = x.block.leader
                              => y.block.index # x.block.index
    /\ ExtendsChain(x)
    /\ \A s \in sealed : Keeps(s, x)
    /\ finalized' = finalized \cup {x}
    /\ UNCHANGED sealed

SealLeader(s) ==
    /\ \A x \in finalized : Keeps(s, x)
    /\ sealed' = sealed \cup {s}
    /\ UNCHANGED finalized

\* (A step is told by what it adds, to be found without a search.)
Next == \/ \E x \in Vote \cap (finalized' \ finalized) : Finalize(x)
        \/ \E s \in Seal \cap (sealed' \ sealed) : SealLeader(s)

Spec == Init /\ [][Next]_<<finalized, sealed>>
=============================================================================
