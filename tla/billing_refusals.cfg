SPECIFICATION Spec
CONSTANTS
  january = january
  january_corrected = january_corrected
  february = february
  straddling = straddling
  Files = {january, january_corrected}
  Window <- MCWindow
  Months <- FirstMonth
  Keys = {k1}
  Admins = {a1}
  Procs = {p1, p2}
  Nobody = Nobody
  NoFile = NoFile
  Billed = 1
  Prefix <- OnePrefix
  Finds <- MCFinds
  MaxInputs = 0
  MaxRegistration = 0
  MaxPeriods = 1
INVARIANT RefusalKeepsIdentity
