SPECIFICATION Spec
CONSTANTS
    Requests = {r1, r2}
    MaxCrashes = 1
INVARIANT ReplayShowsOutcome
