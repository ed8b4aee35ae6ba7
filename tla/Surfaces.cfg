SPECIFICATION MCSpec
CONSTANTS
    w1 = w1
    FileOps = {"w1", "w2", "mv", "mk", "rm", "fo", "up", "ed"}
    KindOf <- MCKindOf
    Tops = {"p", "q"}
    Inner = {"r"}
    Readers = {"r1", "r2"}
    FileWrites = 1
    StreamMessages = {"m1", "m2"}
    Pieces <- MCPieces
    MaxPieces = 4
    OpenTags <- MCOpenTags
    CloseTags <- MCCloseTags
    CellEdits = {"ra", "mb", "ib", "da", "ca"}
    CellRuns = {"r1"}
    RunAlls = {"al"}
    Cells <- MCCells
    EditOf <- MCEditOf
    Ticks = {"k1", "k2", "k3"}
    Items = 3
    PageSize = 3
    MaxSeen = 2
    EmitMax = 1
    Browsings = {"b1", "b2", "b3", "bc", "bl"}
    ActionOf <- MCActionOf
    PageOf <- MCPageOf
    Pages = {"root", "login", "far"}
    RootPages = {"root"}
    SiteOf <- MCSiteOf
    LandsOn <- MCLandsOn
    MaxTabs = 3
    HistoryMax = 2
    MaxTouches = 1
    Inits = {"s1", "s2", "s3"}
    Overwriting = {"s3"}
    VersionOf <- MCVersionOf
    LanguageOf <- MCLanguageOf
    FilesOf <- MCFilesOf
    Templates = {"t", "m"}
    AgentFiles = {"m"}
    SkillFiles = {"b", "n"}
    Translated = {"b"}
    EnvKeys = {"a", "b", "c"}
    Protected = {"c"}
    MapsPaths = TRUE
    Executions = {"x1", "x2"}
    EnvWrites = {"w1", "w2"}
    Exported = {"b"}
    MergeOf <- MCMergeOf
    UpdateOf <- MCUpdateOf
    ValueOf <- MCValueOf
    EnvTexts = {"a", "b", "c", "w1", "w2"}
    RemoveOf <- MCRemoveOf
    FirstFile <- MCFirstFile
    Terminals = {"cl1", "cl2"}
    Wizards = {"cl2"}
    ProfileNames = {"main", "x"}
    FirstConfig <- MCFirstConfig
    Override = "o"
    MaxThreads = 2
    NoneSet = NoneSet
    ShownTools = {"u1", "u2"}
    MaxEvents = 5
    Nests = FALSE
    DeckParts <- MCDeckParts
    FirstDeck <- MCFirstDeck
    PresTargets <- MCPresTargets
    FirstId = 256
    NoRels = NoRels
    MaxAdded = 2
    RunsDrawn <- MCRunsDrawn
    ChangesDrawn <- MCChangesDrawn
    MaxChildren = 3
    DefaultAuthor = "claude"
    Unclear = Unclear
    KernelTasks = {"tk1", "tk2", "tk3", "tk4", "tk5"}
    TaskOf <- MCTaskOf
    Hosts <- MCHosts
    KernelIds = {"k1", "k2", "k3"}
    InPython = {"k1", "k2"}
    FirstSessions <- MCFirstSessions
    InTabs = {"p", "q"}
    Unset = Unset
    MaxMoves = 2
    KeyOrder <- MCKeyOrder
    FirstKeys <- MCFirstKeys
    BodiesDrawn <- MCBodies
    ListPageSize = 1
    StoresDrawn <- MCStoresDrawn
    MaxStrangers = 1
    Slugs = {"a", "b"}
    SkillNames = {"a", "x"}
    SkillPlaces = 2
    Manifests <- MCSkillsDrawn
    Bans = {{}, {"a"}, {"x"}}
    UseRequests <- MCUseRequests
    ToolCalls <- MCToolCalls
    BaseOf <- MCBaseOf
    AskReadTools = {"read_file", "grep"}
    TalkMax = 5
    NoSkill = NoSkill
    NoAllowList = NoAllowList
    NoThread = NoThread
    ToolCallsDrawn <- MCToolCallsDrawn
    GuardsDrawn <- MCGuardsDrawn
    SystemFolder = ".octop"
    SystemNames = {"skills"}
    ManualDocuments = {"MEMORY.md"}
    SameName <- MCSameName
    LinkedFolder <- MCLinkedFolder
    LinkTarget <- MCLinkTarget
    FilesThere <- MCFilesThere
    ProcessDir <- MCProcessDir
    HomeDir <- MCHomeDir
    ContainerRoot <- MCContainerRoot
CHECK_DEADLOCK FALSE
INVARIANTS MCTypeOK
INVARIANTS FilesServe SurfacesServe ShellHolds WatchKeeps
PROPERTIES StoreKeepsFiles
