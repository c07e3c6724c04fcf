SPECIFICATION FairSpec
CONSTANTS
    s1 = s1
    r1 = r1
    e1 = e1
    k1 = k1
    x1 = x1
    NoClient = NoClient
    Sockets = {s1}
    Streams = {r1}
    Posts = {}
    Uploads = {}
    Cleanings = {k1}
    Edits = {e1}
    Imports = {}
    Disconnects = {x1}
PROPERTIES
    LockIsReleased
    ImplementsTurnLock
CHECK_DEADLOCK FALSE
