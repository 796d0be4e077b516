SPECIFICATION FairSpec
CONSTANTS
    Writers = {w1, w2}
    MaxEvents = 4
    PageLimit = 2
    MaxDisturbances = 2
INVARIANTS NoHoles ClosedAfterTerminal ReportsKept
PROPERTIES FeedSpec ReaderLearnsEnd
