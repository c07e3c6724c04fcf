\* One turn whose deadline passes: it does not end.
CONSTANTS
    Signals <- MCSignals
    Iterations <- MCIterations
    Retries = 1
    Verify = TRUE
    RequireApproval = FALSE
    Datasets <- MCDatasets
    Turns = 1

SPECIFICATION FairSpec

PROPERTY
    TurnEnds
CHECK_DEADLOCK FALSE
