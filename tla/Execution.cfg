\* Two networks with three blocks each, 144 chains.
CONSTANTS
    alice = alice
    bob = bob
    carol = carol
    Account <- MCAccount
    NonceCheckBypassFromAddresses <- MCBypass
    NoStaker = NoStaker
    Modulus <- MCModulus
    LastEra = 1
    Chains <- MCChains
    MaxStops = 2
SPECIFICATION FairSpec
INVARIANTS
    CommittedStateIsReplay
    HistoryIsLinear
    CoinsAreConserved
    RestartIsNeverRefused
PROPERTIES
    EndIsReached
CHECK_DEADLOCK FALSE
