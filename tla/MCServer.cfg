\* Two windows, a REST call and two uploads; two turns with two fan-outs each and four calls of a
\* model; two changes of a choice, a mode or a key; three turns, uploads or imports of two
\* sessions, with one write that fails;
\* two executions of one session over two starts of the server, with one change of the backend and one failure;
\* two connections and a key with three changes and one failure;
\* one table that is marked and one that is not, two steps of which one is shown in full, and one change of policy, provider or table;
\* one turn, and one change of what is installed, chosen or listed, over three models;
\* machines around every threshold of the limits, and budgets on both sides of every ceiling.
SPECIFICATION MCSpec
CONSTANTS
    s1 = s1
    s2 = s2
    p1 = p1
    u1 = u1
    u2 = u2
    Sockets = {s1, s2}
    Streams = {}
    Posts = {p1}
    Uploads = {u1, u2}
    Cleanings = {}
    Edits = {}
    Imports = {}
    Disconnects = {}
    MaxSpent = 4
    MaxIterations = 2
    MaxBills = 2
    MaxMoves = 2
    MaxWork = 3
    MaxFaults = 1
    Looked = 2
    Users = {s1}
    Cells = {u1, u2}
    MaxStarts = 2
    MaxBoots = 2
    MaxPatches = 1
    MaxUpsets = 1
    Links = {p1, s1}
    Secretives = {u1, u2}
    MaxEdits = 3
    MaxMishaps = 1
    Tables = {"payroll", "rates"}
    RecentInFull = 1
    MaxSteps = 2
    MaxSwitches = 1
    MaxAsks = 2
    Weights <- MCWeights
    Allowance = 3
    MaxRuns = 1
    MaxShifts = 1
    Machines = {0, 6, 12, 16, 60, 64, 100, 124, 128, 240, 255, 256, 500, 512, 1024}
    Limits = {4, 16, 40, 200}
    Sessions = {4}
    Ceilings = {32, 64, 1000, 2048, 8192}
    Budgets = {40, 512, 1400, 2048, 4096, 9000}
    Scaled = {"plan", "code", "answer"}
INVARIANTS
    ServerTypesHold
    TurnUnderItsLock
    OneTerminalFrame
    NoQuestionOutlivesItsTurn
    PlanIsForCurrentData
    CallsHold
    RecordsHold
    IsolationHolds
PROPERTIES
    DataStableUnderTurn
CHECK_DEADLOCK FALSE
