CONSTANTS
    v1 = v1
    n1 = n1
    Honest <- MCHonest
    Faulty <- MCFaulty
    Follower <- MCFollower
    NumLeaders = 2
    MaxIndex = 1
    MaxEpoch = 1
    Networks <- LongEpoch
SPECIFICATION Spec
CONSTRAINT FollowerOnly
INVARIANT HeightMapSurvivesRestart
CHECK_DEADLOCK FALSE
