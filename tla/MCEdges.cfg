\* Three messages, one lost connection, another window; one call at a time, four sessions of which
\* the server forgets one; two supervisors with one restart and one kill; three releases; two threads
\* that encode beside the warm-up, and two changes of providers and settings; four sockets of three
\* session ids at an address, of which one is lost; three addresses with three ids, two remembered
\* keys and three requests in three seconds; three questions of two sessions, with three turns and one
\* change; three turns of a session with two tables, two programs run and two changes of the tables.
SPECIFICATION MCSpec
CONSTANTS
    MaxTexts = 3
    OtherWindow = TRUE
    MaxDrops = 1
    Calls = {"call"}
    MaxIds = 4
    MaxForgets = 1
    MaxStarts = 2
    MaxRestarts = 1
    MaxKills = 1
    MaxVersion = 3
    MaxUpdates = 3
    q1 = q1
    q2 = q2
    Queries = {q1, q2}
    MaxChanges = 2
    s1 = s1
    w1 = w1
    n2 = n2
    Conns = {c1, c2, c3, c4}
    Callers = {s1, s2, s3}
    PerKey = 1
    Burst = 2
    MaxLost = 1
    Hosts = {h1, h2, h3}
    Tokens = {s1, s2, s3}
    PerToken = 1
    IpBurst = 2
    Window = 1
    MaxKeys = 2
    MaxClock = 2
    MaxRequests = 3
    Tabs = {s1, s2}
    Wordings = {n1, n2, n3}
    Near <- Nearness
    Worlds = {w1, w2}
    HotRoom = 2
    RowRoom = 2
    MaxTurns = 3
    MaxSwaps = 1
    MaxUnsaved = 1
    t1 = t1
    t2 = t2
    col1 = col1
    col2 = col2
    d1 = d1
    d2 = d2
    own = own
    join = join
    Sheets = {t1, t2}
    Contents = {d1, d2}
    HasColumn <- ColumnsOf
    TimeOf <- NoTimes
    Programs <- TablesRead
    CacheRoom = 2
    MaxLookTurns = 3
    MaxWorked = 2
    MaxReplaced = 2
INVARIANTS
    EdgeTypesHold
    WayInHolds
    LookupsHold
PROPERTIES
    CommandLineHolds
CHECK_DEADLOCK FALSE
