SPECIFICATION MCMoneySpec
CONSTANTS
    pa = pa
    pb = pb
    pc = pc
    hx = hx
    hy = hy
    MeterIds = {pa, pb, pc}
    Houses = {hx, hy}
    Grid = {1, 2}
    Documents = {"first", "prosumer", "defective", "corrected"}
    RowsOf <- MCRowsOf
    LegOf <- MCLegOf
    Lists = {"members", "newcomer", "series"}
    EntriesOf <- MCEntriesOf
    Calculated <- MCCalculated
    Runs = {r1}
    Unset = Unset
    january = january
    january_corrected = january_corrected
    february = february
    straddling = straddling
    Files = {january, january_corrected, straddling, february}
    Window <- MCWindow
    Months <- MCMonths
    Keys = {k1}
    Admins = {a1, a2}
    Procs = {p1, p2}
    Nobody = Nobody
    NoFile = NoFile
    Billed = 2
    Prefix <- TwoPrefixes
    Finds <- MCFinds
    MaxInputs = 1
    MaxRegistration = 1
    MaxPeriods = 2
    Members = {1, 2, 3}
    Quarters = {1, 2}
    Readings <- MCReadings
    Grain = 12
    Step = 6
    Prices = {3}
    Fee = 2
    PriceUnit = 4
    Cent = 10
    VatPct = 8
    AnnualShare = 7
    Batteries <- MCBatteries
    Quantum = 4
    MaxSteps = 6
    Consumers = {1, 2}
    Producers = {3, 4}
    Loads = {0, 1, 3, 6}
INVARIANT BatteryDraftsAreApprovable
CHECK_DEADLOCK FALSE
