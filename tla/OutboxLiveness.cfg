SPECIFICATION FairSpec
CONSTANTS
    Tenants = {t1, t2}
    Drainers = {}
    Sweepers = {s1}
    MaxMessages = 2
    MaxSessions = 1
    MaxFaults = 1
    BatchSize = 1
    KeyLoss = FALSE
PROPERTIES EveryMessageSettles
