\* Four peers, one of them faulty or away, and two heights.
CONSTANTS
    v1 = v1
    v2 = v2
    v3 = v3
    f1 = f1
    Honest <- MCHonest
    Faulty <- MCFaulty
    Topic <- MCTopic
    MaxConnections = 3
    MaxTrouble = 1
    Self = node
    LastHeight = 2
SPECIFICATION FairProofsSpec
CONSTRAINTS OneKindOfTrouble SendsBetweenRounds
ACTION_CONSTRAINT AnswersAreTaken
INVARIANTS
    ProofsAreSigned
    FinishedProofsAreSent
PROPERTIES
    OutboxDelivers
    ProofsGetDelivered
CHECK_DEADLOCK FALSE
