\* Two validators that must agree, two leaders, conflicting proposals for each
\* block, the whole epoch.
CONSTANTS
    Honest = {v1, v2}
    Faulty = {}
    NumLeaders = 2
    MaxIndex = 1
    Hash = {h1, h2}
    ZeroHash = zero
SPECIFICATION Spec
CONSTRAINTS OneCallAtATime OneSealOfSupersededLeader
SYMMETRY Symmetry
CHECK_DEADLOCK FALSE
INVARIANTS
    AfpIsUnique
    SignedBlocksAreStored
    AlfpKeepsConfirmedBlocks
PROPERTIES
    ImplementsFinalizedChain
    ImplementsLeaderVotes
