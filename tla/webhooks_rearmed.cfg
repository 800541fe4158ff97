CONSTANTS
    e1 = e1
    e2 = e2
    c1 = c1
    c2 = c2
    Nobody = Nobody
    HookEvents = {e1}
    Clients = {c1}
    Subscribed <- MCSubscribed
    Workers = {w1, w2}
    HookAttempts = 2
    BatchSize = 1
    HookCrashes = 0
    MaxReissues = 1
    MaxOverruns = 1
SPECIFICATION HookFairSpec
PROPERTIES
    RetriedIsDispatched
