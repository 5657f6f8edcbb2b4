SPECIFICATION FairSpec
CONSTANTS
    Requests = {1, 2, 3, 4}
    NoRow = NoRow
    Calls <- MCCalls
    MaxCrashes = 1
INVARIANTS NoOrphanedOrder CompletedMeansDone ReturnsAreUnique
PROPERTIES StatusOnlyAdvances LateCallerIsRefused AcceptedIsCompleted
CHECK_DEADLOCK FALSE
