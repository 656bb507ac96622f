CONSTANTS
    v1 = v1
    v2 = v2
    a1 = a1
    Honest <- MCHonest
    Faulty <- MCFaulty
    MaxEpoch = 2
    FirstEpoch = 1
    Finalizers <- MCFinalizers
    HonestAnchor <- MCHonestAnchor
    FaultyAnchor <- MCFaultyAnchor
SPECIFICATION FairSpec
INVARIANTS
    ExecutionFollowsHandover
    HeightsFollowAcks
    CursorPassesNothing
PROPERTY EveryEpochIsEntered
CHECK_DEADLOCK FALSE
