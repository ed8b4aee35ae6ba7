SPECIFICATION MCSpec
CONSTANTS
    Crews = {"calm", "stops"}
    m1 = m1  m2 = m2  m3 = m3  m4 = m4
    a1 = a1  a2 = a2  s1 = s1  s2 = s2  c1 = c1
    Nothing = Nothing  Poison = Poison
    Msgs = {m1, m2, m3, m4}
    JobIds = {m1, m2, m3, m4}
    Callees = {a1, a2}
    Threads = {s1, s2}
    JobIdOf <- MCJobIdOf
    TargetOf <- MCTargetOf
    SourceOf <- MCSourceOf
    Slots = 2
    Closers = {c1}
    MaxStops = 1
    AlienErrors = {m4}
CHECK_DEADLOCK FALSE
INVARIANTS NoResidue CalleeSerial DrainedAtShutdown
PROPERTIES CalmJobsAnswered DeliverySpec ShutdownReturns
