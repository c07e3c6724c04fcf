\* Two turns of the agent: what runs, what is kept, what is answered.
CONSTANTS
    Signals <- MCSignals
    Iterations <- MCIterations
    Retries = 1
    Verify = TRUE
    RequireApproval = FALSE
    Datasets <- MCDatasets
    Turns = 2

SPECIFICATION FairSpec

PROPERTY
    EndsUnlessLate
INVARIANTS
    PlanSeenBeforeRun
    OnlyWhatRan
    RollsBackToVerified
CHECK_DEADLOCK FALSE
