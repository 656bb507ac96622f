CONSTANTS
    v1 = v1
    v2 = v2
    v3 = v3
    s1 = s1
    Validator <- MCValidator
    Staker <- MCStaker
    Details <- MCDetails
    ValidDetails <- MCValidDetails
    Genesis <- MCGenesis
    Worlds <- MCWorlds
    MaxEpoch = 3
    MaxRestarts = 1
SPECIFICATION RotationSpec
CHECK_DEADLOCK FALSE
INVARIANTS
    ApprovementIsReplay
    ExecutionIsReplay
    RegistryFollowsStakes
    StakedCoinsAreAccounted
    SelectionIsSound
    SnapshotsAgree
