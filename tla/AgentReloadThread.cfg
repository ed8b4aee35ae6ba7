SPECIFICATION MCSpec
CONSTANTS
    Crews = {"removed"}
    c1 = c1  c2 = c2  r1 = r1  r2 = r2  d1 = d1  x1 = x1
    t1 = t1  t2 = t2  i1 = i1  i2 = i2  k1 = k1  None = None
    Creations = {c1, c2}
    Rebuilds = {r1, r2}
    Removals = {d1}
    Shutdowns = {x1}
    ThreadOps = {d1}
    Turns = {t1, t2}
    Ids = {i1, i2}
    IdOf <- MCIdOf
    Keys = {k1}
    KeyOf <- MCKeyOf
    Users <- Agents
    Pins <- MCPins
    Failing = {}
    Location <- MCLocation
CHECK_DEADLOCK FALSE
INVARIANT TurnKeepsMemory
