SPECIFICATION TextSpec
CONSTANTS
    Bytes <- MCBytes
    RuneInputs <- MCRunes
    Subs <- MCSubs
    Counts <- MCCounts
    MaxRaw = 3
INVARIANTS
    TextTypeOK
