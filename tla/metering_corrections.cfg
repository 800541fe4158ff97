CONSTANTS
    NumFiles = 2
    Slots <- MCSlots
    Covers <- MCCovers
    Workers = {w1}
    Operators = {}
    Keys = {}
    MaxAttempts = 2
    MaxFaults = 1
    MaxExpiries = 0
    Nobody = Nobody
    NoKey = NoKey
SPECIFICATION Spec
INVARIANTS
    LaterFilesCorrectEarlier
