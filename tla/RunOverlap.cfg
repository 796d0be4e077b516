SPECIFICATION Spec
CONSTANTS
    N = 1
    Execs = {e1, e2, e3}
    StaleExecs = {e3}
    MaxAttempts = 1
    Retries = 0
    Modes = {"parallel"}
    Policies = {"fail_run", "partial"}
    Injections = {"none", "exclude_span", "fail_run"}
INVARIANTS TerminalEventOnce AnnouncedOnce IInv
PROPERTIES RunNeverReopens CheckpointsAreFinal LifecycleSpec
