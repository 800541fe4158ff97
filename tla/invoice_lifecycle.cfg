CONSTANTS
    i1 = i1
    i2 = i2
    h1 = h1
    NoInvoice = NoInvoice
    BookingKeys = {}
    Invoices = {i1, i2}
    Participant <- MCParticipant
    Method <- MCMethod
    Procs = {p1, p2}
    Buildings = {b1}
    Templates <- MCTemplates
    Confirmers = {r1}
    Senders = {s1, s2}
    MailAttempts = 2
    Batch = 1
    MaxMails = 2
    MailCrashes = 1
    NoBuilding = NoBuilding
    Homes = {g1, g2, g3}
    Founder = g1
    RoleSets <- MCRoleSets
    Askers = {q1, q2}
    NoAsk = NoAsk
SPECIFICATION MCSpec
INVARIANTS
    RecordsOK
    AtMostOneMail
    SentJobIsAudited
    PaidOnceAfterDelivery
    TakingsBounded
PROPERTIES
    EveryRequestEnds
    EveryMailSettles
