CONSTANTS
    NumFiles = 2
    Slots <- MCSlots
    Covers <- MCCovers
    Workers = {w1, w2}
    Operators = {m}
    Keys = {}
    MaxAttempts = 2
    MaxFaults = 1
    MaxExpiries = 0
    Nobody = Nobody
    NoKey = NoKey
    NumVillages = 3
    Owners = {o1}
    Visitors = {t1, t2}
    Reaper = reaper
    MaxVillages = 2
    MaxCleanups = 1
    MaxMishaps = 1
    Free = Free
    Missing = Missing
    Channels = {f}
    FaultChannel = f
    Ages = {"fresh", "stale"}
    MaxDeliveries = 3
    MaxEpisode = 3
    NoReading = NoReading
    NoNotice = NoNotice
    c1 = c1
    c2 = c2
    Releases = {"night", "morning", "contradiction"}
    ReleasedAt <- MCReleasedAt
    Rows <- MCRows
    PlacesFiles = {"one", "two"}
    Points <- MCPoints
    Refreshers = {c1, c2}
    Viewers = {x1}
    MaxFar = 2
    MaxAge = 1
    CacheHours = 2
    Horizon = 2
    Ahead = 2
    MaxHour = 2
    maker = maker
    inverter = inverter
    u1 = u1
    Advisories = {a1}
    Contents <- MCContents
    Contexts <- MCContexts
    Policies <- MCPolicies
    Tabs = {g1}
    MaxRevisions = 2
    MaxPolicies = 2
    MaxReviews = 2
    MaxDay = 1
    Unknown = Unknown
    NoEquipment = NoEquipment
    Clients = {d1, d2}
    Inboxes = {i1}
    Browsers = {b1, b2}
    MaxTokens = 2
    MaxApiKeys = 1
    NoClient = NoClient
SYMMETRY BackgroundSymmetry
SPECIFICATION MCSpec
INVARIANTS
    RecordsOK
    ImportsAreWhole
    AcknowledgedIsCurrent
    VillagesServe
    ForecastStands

