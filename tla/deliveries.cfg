CONSTANTS
    NumFiles = 2
    Slots <- MCSlots
    Covers <- MCCovers
    Workers = {w1, w2}
    Operators = {}
    Keys = {k}
    MaxAttempts = 1
    MaxFaults = 2
    MaxExpiries = 1
    Nobody = Nobody
    NoKey = NoKey
    MAX_QUEUE = 2
    MAX_BATCH = 1
    MAX_ATTEMPTS = 2
    MAX_AGE = 1
    Readings = {"undated", "interval"}
    KindOf <- MCKindOf
    MaxNow = 2
    MaxNumber = 2
    MaxPosts = 2
    MaxCredentials = 2
    MaxTroubles = 1
    Nothing = Nothing
    Listings = {l1, l2}
    Submitters = {s1, s2}
    Crons = {j1, j2}
    Confirmers = {v1}
    MaxRequests = 2
    NoListing = NoListing
SPECIFICATION MCSpec
INVARIANTS
    RecordsOK
    OrderedImportKeepsNewest
PROPERTIES
    AnswerIsDurable
    EveryDeliveryIsImported
    CountsOnceInOrder
    EverySampleSettles
