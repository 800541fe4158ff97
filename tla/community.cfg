CONSTANTS
    e1 = e1
    e2 = e2
    e3 = e3
    e4 = e4
    p1 = p1
    p2 = p2
    Metered = {p1, p2}
    PointOrder <- MCPointOrder
    Owners = {"x", "y"}
    Sources = {e1, e2, e3, e4}
    IdOf <- MCIdOf
    StatusOf <- MCStatusOf
    BlocksOf <- MCBlocksOf
    Bindings <- MCBindings
    Jobs = {j1, j2}
    MaxJobs = 4
    Undated = Undated
    i1 = i1
    i2 = i2
    h1 = h1
    s1 = s1
    s2 = s2
    s3 = s3
    q1 = q1
    q2 = q2
    r1 = r1
    r2 = r2
    m1 = m1
    m2 = m2
    b1 = b1
    j1 = j1
    j2 = j2
    NoInvoice = NoInvoice
    NoReference = NoReference
    BookingKeys <- MCBookingKeys
    Invoices = {i1, i2}
    Participant <- MCParticipant
    Method <- MCMethod
    Procs = {p1}
    Gross <- MCGross
    Number <- MCNumber
    Statements = {s1, s2, s3}
    Content <- MCContent
    OperatorKeys = {k1, k2}
    Households = {h1, h2}
    Managers = {h1}
    Facts = {1, 2}
    Adapters = {manual, net}
    Manual = manual
    Submitters = {q1, q2}
    MinSize = 2
    MaxBundles = 2
    MaxChanges = 1
    None = None
    Mutations = {m1, m2}
    Participants = {p1}
    Requests = {r1, r2}
    Automated = {"change"}
    MaxDeaths = 1
    NoCase = NoCase
    Neighbours = {n1, n2}
    MaxSaves = 3
    NoRow = NoRow
    NoProfile = NoProfile
    Profiles = {f1}
    CoverageIds = {v1}
    Mailboxes = {b1, b2}
    Administrators = {}
    Browsers = {x1}
    MaxLinks = 3
    Absent = Absent
    SignedOut = SignedOut
    Communities = {c1, c2}
    Ours = c1
    Sessions = {w1}
    Restorers = {j1, j2}
    MaxId = 2
    NoArchive = NoArchive
    Credentials = {o1}
    Readers = {g1, g2}
    RateLimit = 2
    MaxTokens = 2
    MaxItems = 3
    PageSizes = {1, 2}
    MaxHour = 1
    Unlimited = Unlimited
    Nobody = Nobody
    Nothing = Nothing
SYMMETRY KeySymmetry
SPECIFICATION MCSpec
INVARIANTS
    RecordsOK
    MatchesStand
    VerifiedByItsMailbox
    BundlesHold
    EvidenceIsBound
    ShownUnderUnbrokenConsent
    StartIsEarned
PROPERTIES
    RestoreIsWhole
CHECK_DEADLOCK FALSE
