\* Two cells, one of which may print for ever, and one change of the datasets.
SPECIFICATION DaemonFairSpec
CONSTANTS
    NoRequest = NoRequest
    Cells = {c1, c2}
    Reloads = {r1}
    Chatty = {c2}
    Backlog = 1
    MaxSignals = 1
    MaxLives = 2
INVARIANTS
    AnswersAreOwn
    CellsSeeTheirData
PROPERTIES
    DaemonCallsReturn
CHECK_DEADLOCK FALSE
