CONSTANTS
    inv = inv
    Disputed = {inv}
    Cases = {q1}
    InvoiceOf <- MCInvoiceOf
    AnswerKeys = {k1, k2}
    Crons = {p1, p2}
    MaxMessages = 2
    MaxAborts = 1
    e1 = e1
    e2 = e2
    c1 = c1
    c2 = c2
    Nobody = Nobody
    HookEvents = {e1, e2}
    Clients = {c1, c2}
    Subscribed <- MCSubscribed
    Workers = {w1, w2}
    HookAttempts = 2
    BatchSize = 1
    HookCrashes = 1
    MaxReissues = 1
    MaxOverruns = 1
    Profiles = {b1}
    CoverageIds = {r1}
    Mailboxes = {m1, m2}
    Administrators = {}
    Browsers = {x1}
    MaxLinks = 2
    Absent = Absent
    SignedOut = SignedOut
SPECIFICATION MCSpec
INVARIANTS
    RecordsOK
PROPERTIES
    OverdueIsReminded
    DeliveredIsFinal
    EveryDeliverySettles
    InterestIsForgotten
