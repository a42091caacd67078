CONSTANTS
    Balance = 32
    Profiles <- OneOrTwo
    FailSets <- Failures
    Base = 15
    GiveUp = 3
    PeakStep = 8
SPECIFICATION FairSpec
INVARIANTS
    IInv
    NoPanic
    StakesWithinBalance
    FindsPeak
PROPERTIES
    SearchEnds
