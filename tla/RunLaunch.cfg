SPECIFICATION FairSpec
CONSTANTS
    Contents = {a, b}
    Nothing = Nothing
    MaxSubmissions = 3
    MaxFaults = 2
INVARIANTS OneRunPerIntent StartIsPrepared
PROPERTIES LaunchedAsSubmitted CreatedRunsEnd
CHECK_DEADLOCK FALSE
