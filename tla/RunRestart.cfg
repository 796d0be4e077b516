SPECIFICATION FairSpec
CONSTANTS
    N = 2
    Execs = {e1}
    StaleExecs = {}
    MaxAttempts = 2
    Retries = 1
    Modes = {"parallel", "sequential"}
    Policies = {"fail_run", "partial"}
    Injections = {"none", "fail_run"}
INVARIANTS EndIsJustified OneOutcomeEvent SummaryMatchesCheckpoints SequentialInput
PROPERTIES NoCallAfterCheckpoint QuietAfterEnd EveryRunEnds
