SPECIFICATION MCSpec
CONSTANTS
    Parts = {"invocations", "store", "workers", "capture", "triggers"}
    u1 = u1  u2 = u2  u3 = u3  u4 = u4  r1 = r1  r2 = r2  l1 = l1  l2 = l2
    j1 = j1  j2 = j2  k1 = k1  k2 = k2  p1 = p1  p2 = p2
    s1 = s1  s2 = s2  s3 = s3  h1 = h1  h2 = h2  NoInv = NoInv
    c1 = c1  c2 = c2  w1 = w1  e1 = e1  None = None  Nobody = Nobody
    Streams = {s1, s2, s3}
    Resumes = {r1, r2}
    Threads = {h1, h2}
    ThreadOf <- MCThreadOf
    HostWaits = TRUE
    StopThreads = {h2}
    MaxCancels = 1
    MaxStops = 1
    Users = {u1, u2, u3, u4}
    Pins = {r1, r2}
    Keys = {l1, l2}
    KeyOf <- MCKeyOf
    Failing = {u4}
    Jobs = {j1, j2}
    Kicks = {k1, k2}
    HostOf <- MCHostOf
    Pausers = {p1, p2}
    Stops = {s1}
    Chats = {c1, c2}
    Workers = {w1}
    WorkerOf <- MCWorkerOf
    MaxTurns = 2
    MaxCalls = 1
    Sessions = {e1}
    MaxSaid = 2
    MaxExtracts = 2
CHECK_DEADLOCK FALSE
INVARIANTS MCTypeOK
INVARIANTS AskedIsSignalled ResumeKeepsScope ScopeIsPaused
INVARIANTS NoneLeaks PauseIsQuiet CallbackOnce
INVARIANTS ConversationsKept NothingForgotten NoTimerEscapes
PROPERTIES CancelPreempts LeaseSpec ShutdownCompletes RequestSettled
