SPECIFICATION MutSpec
CONSTANTS
    Mutations = {m1, m2}
    Participants = {p1}
    Requests = {r1, r2}
    Automated = {"join"}
    MaxDeaths = 1
    NoCase = NoCase
INVARIANT OneOpenMutation
CHECK_DEADLOCK FALSE
