SPECIFICATION FairSpec
CONSTANTS
    Requests = {r1, r2, r3}
    MaxCrashes = 2
INVARIANTS AuditedOnce LapsedIsStopped CompletedIsTrue
PROPERTIES OneEffectSpec CommandSettles
