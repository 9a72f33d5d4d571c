SPECIFICATION Spec
CONSTANTS
    Ids = {s1}
    Names = {"n"}
    Projects = {p}
    Calls = {c1, c2}
    Browsers = {b}
    Origins = {"o"}
    MaxToken = 2
    MaxState = 2
    Workers = {w1}
    Spawns = {i1}
    Requests = {r1}
    Looks = {l1}
    Planes = {"agent", "exec"}
    HasDinD = FALSE
    MaxBoxes = 2
    MaxBuilds = 1
    Services = {s1}
    Slugs = {"a", "b"}
    Starts = {p1, p2}
    Asks = {q1}
    Glances = {g1}
    MaxUnits = 2
    Keys = {"k1", "k2"}
    Encrypted = {"k1"}
    Legible = {"k1"}
    Unlocks = {u1, u2}
    Locks = {l1}
    MaxAgents = 2
    Tabs = {t1, t2}
    Sessions = {"s", "t"}
    MaxConns = 2
    WorkerIds = {"k"}
    Digits = {"15", "8080"}
    Visits = {v1}
    Apps = {"claude", "codex"}
    Models = {"m"}
    Ports = {80, 70000}
    Commands = {"x"}
    Boxes = {"w"}
    Forms = {t1}
    MaxVersion = 3
    Replies = {"r1"}
    MaxFileUnits = 2
    MaxTurnUnits = 3
    MaxTurnFiles = 2
    Orders = {c1}
    Readers = {r1}
    Killers = {k1}
    MaxCrates = 2
    Machines = {"w"}
    Daemons = {"s"}
    Owning = {"p"}
    Views = {"q"}
    Sampled = {"w"}
    Ranges = {1, 2}
    Retention = 2
    PruneEvery = 1
    MaxClock = 4
    TailPage = 1
    PollPage = 1
    MaxLog = 3
    MaxMounts = 2
    Efforts = {"high"}
    Delegations = {"t1"}
    Answers = {a1, a2}
    MaxSessions = 3
    DeclaredIds = {"s1", "s2"}
    Globals = {"S"}
    MaxTyped = 2
    MaxRows = 2
    Wellformed = {"p.known", "p.unknown"}
    Known = {"p.known"}
    SecretNames = {"S"}
    MaxChanges = 2
    MaxSaves = 2
INVARIANTS
    TypesOK DisconnectIsEffective AgentIsKnown DeletedIsGone RunsItsSpec KeysAreGuarded
    UsableIsOffered AttachedIsTrue RouteIsOwn ImageIsItsVersion ModelsAreAllowed
    SavesWhatItShows DiffIsFaithful HandedFilesAreWhole RowIsTrue NothingHidden
    DialectIsItsOwn ScreenIsTrue
PROPERTIES ReauthIsDeserved CallsAnswered StoppedUntilStarted PipelinesSettle
CHECK_DEADLOCK FALSE
