\* Two epochs, two anchors with two blocks each, ALFPs of two leaders.
CONSTANTS
    NumAnchors = 2
    MaxIndex = 1
    MaxEpoch = 1
    Leader = {l1, l2}
    Stat = {s1}
    MaxInclusions = 2
SPECIFICATION FairWatcherSpec
CONSTRAINT OneBlock
INVARIANTS
    MarkersAreReal
    NothingPassedOver
PROPERTY ReachableAlfpsAreMarked
