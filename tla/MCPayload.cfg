SPECIFICATION Spec
CONSTANTS
    Cases <- Everything
    Distances = {0, 1, 255, 256}
    MaxParts = 3
    Shifts <- MCShifts
    Returned <- MCReturned
INVARIANTS
    TypeOK
    AlikeAllOrNothing
    NeverHalf
    OnlyInItsBlock
    OthersAskWhatIsMeant
