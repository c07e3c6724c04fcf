\* The child of one session: an interrupt with no cell running.
SPECIFICATION DaemonSpec
CONSTANTS
    NoRequest = NoRequest
    Cells = {c1, c2}
    Reloads = {r1}
    Chatty = {c2}
    Backlog = 1
    MaxSignals = 1
    MaxLives = 2
PROPERTIES
    StopKeepsTheRuntime
CHECK_DEADLOCK FALSE
