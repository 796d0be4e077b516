SPECIFICATION Spec
CONSTANTS
    u1 = u1  u2 = u2
    s1 = s1  s2 = s2  s3 = s3
    t1 = t1  t2 = t2  t3 = t3
    Sessions = {s1, s2, s3}
    UserOf <- MCUserOf
    Subjects = {g1}
    MaxStarts = 2
    Callbacks = {c1, c2}
    Repositories = {r1, r2}
    Reads = {q1, q2}
    MaxTokens = 2
    MaxKeys = 2
    Ids = {1, 2, 3, 4}
    LastTick = 3
    Limits = {1, 2}
    Targets = {t1, t2, t3}
    Unlinked = unlinked
    Size <- MCSize
    MaxPages = 2
    Loads = {l1, l2, l3}
    Accounts = {u1, u2}
    Workspaces = {w1, w2}
    MaxLogins = 2
    MaxRequests = 3
INVARIANTS LinkIsEarned TokenHasItsExpiry AnswersAreAllowed ListingIsComplete ShowsItsTarget EmptyStoreIsNoticed
CHECK_DEADLOCK FALSE
