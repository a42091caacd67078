SPECIFICATION Spec
CONSTANTS
    Cases <- BotBackruns
    Distances = {0, 1, 255, 256}
    MaxParts = 3
    Shifts <- MCShifts
    Returned <- MCReturned
INVARIANTS
    AsksWhatIsMeant
