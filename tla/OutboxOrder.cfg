SPECIFICATION Spec
CONSTANTS
    Tenants = {t1}
    Drainers = {d1}
    Sweepers = {s1}
    MaxMessages = 2
    MaxSessions = 2
    MaxFaults = 2
    BatchSize = 2
    KeyLoss = TRUE
INVARIANTS SendExclusive OncePerSession
PROPERTIES PromiseSpec
