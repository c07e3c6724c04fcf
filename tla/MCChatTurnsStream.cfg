SPECIFICATION Spec
CONSTANTS
    s1 = s1
    r1 = r1
    NoClient = NoClient
    Sockets = {s1}
    Streams = {r1}
    Posts = {}
    Uploads = {}
    Cleanings = {}
    Edits = {}
    Imports = {}
    Disconnects = {}
INVARIANTS
    StreamTurnUnderItsLock
CHECK_DEADLOCK FALSE
