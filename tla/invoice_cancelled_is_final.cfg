CONSTANTS
    i1 = i1
    i2 = i2
    h1 = h1
    NoInvoice = NoInvoice
    BookingKeys = {}
    Invoices = {i1, i2}
    Participant <- MCParticipant
    Method <- MCMethod
    Procs = {p1, p2}
SPECIFICATION FairSpec
PROPERTIES
    CancelledIsFinal
