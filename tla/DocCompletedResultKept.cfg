SPECIFICATION FairSpec
CONSTANTS
    N = 1
    Execs = {e1}
    StaleExecs = {}
    MaxAttempts = 1
    Retries = 1
    Modes = {"parallel"}
    Policies = {"fail_run"}
    Injections = {"none"}
PROPERTY CompletedResultKept
