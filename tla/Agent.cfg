SPECIFICATION MCSpec
CONSTANTS
    d1 = d1 d2 = d2 t1 = t1 t2 = t2 t3 = t3 w1 = w1 g1 = g1 g2 = g2 g3 = g3
    g4 = g4 g5 = g5 x1 = x1 x2 = x2 x3 = x3 m1 = m1 m2 = m2 c1 = c1 c2 = c2
    c3 = c3 c4 = c4 a1 = a1 a2 = a2 z1 = z1 b1 = b1 k1 = k1 k2 = k2 p1 = p1
    p2 = p2 n1 = n1 n2 = n2 n3 = n3 q1 = q1 i1 = i1 i2 = i2 y1 = y1 bx1 = bx1
    bx2 = bx2 bx3 = bx3 o1 = o1 o2 = o2 o3 = o3 o4 = o4 cl1 = cl1 cl2 = cl2
    ds1 = ds1 ds3 = ds3 v1 = v1 v2 = v2 f1 = f1 f2 = f2 rv1 = rv1 e1 = e1
    e2 = e2 u1 = u1 u2 = u2
    NoOne = NoOne
    Absent = Absent
    Nothing = Nothing
    Nobody = Nobody
    Convs = {d1, d2}
    Turns = {t1, t2, t3, w1}
    Runs = {g1, g2, g3, g4, g5}
    ConvOf <- MCConvOf
    TurnOf <- MCTurnOf
    Followups = {w1}
    Named <- MCNamed
    Finished <- MCFinished
    Tools <- MCTools
    Wordless = {t3}
    Matching <- MCMatching
    CatalogLimit = 2
    Members <- MCMembers
    Questions = 3
    MaxSelected = 1
    TurnCap = 2
    RunCap = 2
    Overlapping = {}
    MaxWant = 8
    Budget = 12
    MaxLines = 3
    MaxLength = 6
    TextLimit = 8
    HeadFloor = 3
    MaxItems = 4
    MaxLevel = 3
    Threshold = 2
    Slack = 1
    MaxKept = 2
    Calls = {c1, c2, c3, c4}
    Starts = {c1, c3, c4}
    Answers = {a1, a2}
    Closers = {z1}
    Resets = {b1}
    AcpKeys = {k1, k2}
    AcpKeyOf <- MCAcpKeyOf
    Asks = {p1, p2}
    News = {n1, n2, n3}
    Setters = {q1}
    Names = {i1, i2}
    NameOf <- MCNameOf
    Chats = {y1}
    MaxTracers = 1
    Boxes = {bx1, bx2, bx3}
    NamedBoxes = {bx1, bx2}
    Tasks = {o1, o2, o3, o4}
    Closings = {cl1, cl2}
    Destroys = {ds1, ds3}
    BoxOf <- MCBoxOf
    Containers = {1, 2, 3, 4}
    MaxUpsets = 1
    Flaky = TRUE
    Waits = {v1, v2}
    Polls = {f1, f2}
    Revokes = {rv1}
    Sessions = {e1, e2}
    DeferredTools = {u1, u2}
    MaxCatalogs = 1
    MaxMatches = 1
    MaxRequests = 3
    Threads = {"t1", "t2"}
    Forced = {"f1", "f2", "f3"}
    Autos = {"a1"}
    ThreadOf <- MCThreadOf
    AutoPolicy = "auto"
    ForceKeep = 1
    AutoKeep = 2
    MinSummarize = 2
    FirstLength <- MCFirstLength
    MaxMessages = 5
    ModelKeys = {"plain", "retry"}
    Chatters = {"c1"}
    Helpers = {"h1", "h2", "h3"}
    KeyOf <- MCKeyOf
    Updates = {"u1"}
    Drops = {"d1"}
    PoolClosers = {"z1"}
    PoolAclosers = {"y1"}
    OffLoop = {"d1"}
    NoModel = NoModel
    HistoryTurns = {"t1", "t2"}
    Appends = {"h1", "h2"}
    WithIds = {"h1"}
    Batch = 2
    Limit = 2
    MaxAttempts = 2
    MaxModelCalls = 2
    Blocks = {"m1", "m2", "m3"}
    SmallOnes = {"m3"}
    ShaOf <- MCShaOf
    MaxTurns = 2
    MaxRounds = 2
    PeerIds <- MCPeerIds
    AddedFirst <- MCAddedFirst
    RootId <- MCPeerA
    PeerAsks = {"q1", "q2", "q3"}
    Wanted <- MCWanted
    Background = {"q1"}
    AliasesOf <- MCAliasesOf
    AllowOf <- MCAllowOf
    ModeOf <- MCModeOf
    OwnerOf <- MCOwnerOf
    TurnList = NoList
    NoList = NoList
    TurnMode = "none"
    MaxChanges = 1
    Bots <- MCBots
    Providers = {"openai", "kimi"}
    ModelsOf <- MCModelsOf
    Presets <- MCPresets
    Setups <- MCSetups
    Environs <- MCEnvirons
    FirstShared <- MCFirstShared
    NoRef = NoRef
    NoFactory = NoFactory
    NoBot = NoBot
    MaxProviderEdits = 1
    SettingsDrawn <- MCSettingsDrawn
    EditsDrawn <- MCEditsDrawn
    LimitsDrawn = {0, 1, 2, 4}
    MediaDrawn <- MCMediaDrawn
    Unmade = Unmade
    Unsaved = Unsaved
    HalfSaved = HalfSaved
    ServersDrawn <- MCServersDrawn
    Everything = Everything
    LegalSigns <- MCLegalSigns
    OwnTools <- MCOwnTools
    RequestsDrawn <- MCRequestsDrawn
    DefaultServers <- MCDefaultServers
    Unasked = Unasked
    GivenDrawn <- MCGivenDrawn
    AliasesDrawn <- MCAliasesDrawn
    NullArg = NullArg
    EmptyArg = EmptyArg
    ErrorsDrawn <- MCErrorsDrawn
    Configs <- MCConfigs
    Callers <- MCCallers
    CallerAsks <- MCCallerAsks
    Onboarders = {"t1", "t2"}
    TurnProtocol <- MCTurnProtocol
    ProtocolNames = {"langgraph", "openai"}
    WarmProtocol = "langgraph"
    FirstMcpTools <- MCFirstMcpTools
    ParentTools = {"web_fetch", "browser_use"}
    NoGraph = NoGraph
    MaxToggles = 1
    MaxFailures = 1
    PathsDrawn <- MCPathsDrawn
    OctopFolder = ".octop"
    MountsDrawn <- MCMountsDrawn
    NoRoot = NoRoot
    ManifestsDrawn <- MCManifestsDrawn
    ConfiguredDrawn <- MCConfiguredDrawn
    AutoLoads = {TRUE, FALSE}
    InheritTools = InheritTools
    McpNamesDrawn = {"m1"}
    GenRequests <- MCGenRequests
    RepliesDrawn <- MCReplies
    NoMedia = NoMedia
    NoReply = NoReply
CHECK_DEADLOCK FALSE
INVARIANTS MCTypeOK
INVARIANTS SettingsFollow CallsArrive DecisionsHold ModelsServe
INVARIANTS ConversationsSettle ManagerKeepsUp ContainersInHand CompactionKeeps
PROPERTIES JobsSettle
