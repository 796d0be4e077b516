SPECIFICATION FairSpec
CONSTANTS
    Tenants = {t1}
    Drainers = {}
    Sweepers = {s1}
    MaxMessages = 1
    MaxSessions = 1
    MaxFaults = 0
    BatchSize = 1
    KeyLoss = TRUE
PROPERTY PoisonSettles
