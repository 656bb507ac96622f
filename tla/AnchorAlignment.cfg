\* Two epochs, two anchors with two blocks each, two ALFPs of one leader.
CONSTANTS
    NumAnchors = 2
    MaxIndex = 1
    MaxEpoch = 1
    Leader = {l1}
    Stat = {s1, s2}
    MaxInclusions = 2
SPECIFICATION FairSpec
CONSTRAINT OneEpoch
INVARIANTS
    RecordsAreFinal
PROPERTIES
    RecordsAreStable
    ReachesTheEnd
