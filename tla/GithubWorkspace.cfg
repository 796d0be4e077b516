SPECIFICATION FairSpec
CONSTANTS
    Contents = {a, b}
    Nothing = Nothing
    MaxAttempts = 3
    MaxFaults = 1
    MaxChanges = 1
INVARIANTS OneEffectPerIntent ReportIsTrue
PROPERTIES ConfirmIsAnswered
