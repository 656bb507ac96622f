\* Two validators, a leader with two blocks, one failure, fair threads.
CONSTANTS
    Honest = {v1, v2}
    Faulty = {}
    NumLeaders = 2
    MaxIndex = 1
    Hash = {h1, h2}
    ZeroHash = zero
    Me = 0
    MaxFailures = 1
SPECIFICATION FairLeaderSpec
CHECK_DEADLOCK FALSE
INVARIANTS
    HuntedBlockIsAcceptable
    AfpLinksLikeTheBlock
    AcceptedBlocksHaveAfps
PROPERTY GeneratedBlocksAreFinalized
