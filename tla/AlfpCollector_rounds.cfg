\* Three validators that must all agree, and know of different last blocks.
CONSTANTS
    Honest = {v1, v2, v3}
    Faulty = {}
    MaxIndex = 2
    Collector = {v1}
    MaxFailures = 1
SPECIFICATION FairSpec
CHECK_DEADLOCK FALSE
INVARIANT SealsAreClose
PROPERTY LeaderGetsSealed
