SPECIFICATION PoolFairSpec
CONSTANTS
    i1 = i1
    i2 = i2
    a = a
    b = b
    c = c
    d = d
    k1 = k1
    k2 = k2
    k3 = k3
    NoChild = NoChild
    Sessions = {i1, i2}
    Children = {k1, k2, k3}
    Runners = {a, b, c}
    SessionOf <- MCSessionOf
    Removers = {d}
    Scope <- MCScope
    Fragile = {i2}
INVARIANTS
    ChildrenHold
PROPERTIES
    PoolCallsReturn
CHECK_DEADLOCK FALSE
