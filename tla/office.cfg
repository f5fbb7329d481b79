SPECIFICATION SideBySide
SYMMETRY Symmetry
CONSTRAINT Focus
CHECK_DEADLOCK FALSE
CONSTANTS
    Parts = {"oauth", "access", "imports", "sheets", "templates", "meetings"}
    None = None
    Process = {p, q}
    Installation = {"i"}
    Account = {"a"}
    Body = {"b"}
    HasKey = TRUE
    Person = {"ann", "cli"}
    OrgRole <- Roles
    WorkspaceRole = {"admin"}
    Lifetime = 1
    MaxCredentials = 3
    MaxInvites = 1
    Books = {"one", "two"}
    Id = {"id"}
    Fate <- Fates
    PageSize = 2
    MaxFeed = 2
    MaxPulls = 2
    north = north
    south = south
    ClientKey = {x, y}
    Workspace = {north, south}
    Contested = {south}
    Files <- Sheets
    MaxBatches = 2
    MaxCommits = 3
    Principal = {"ann", "bob"}
    Stage = {1, 2, 3}
    Role = {"lead", "executive"}
    Offered <- Forms
    Assignments <- Staffed
    MaxRosters = 2
    MaxRuns = 2
    MaxChanges = 1
    Event = {"e", "f", "g", "h"}
    BadEvent = {"g"}
    Anonymous = {"f", "h"}
    MaxMeetings = 2
    MaxNotes = 2
    MaxItems = 2
    MaxTime = 1
    TTL = 1
    MaxStates = 2
    MaxCrashes = 1
INVARIANTS
    ExchangedOnce
    InviteGivesOneSession
    PassedIsAccounted
    ReceiptIsTrue
    RunsFollowTheirVersion
    NotesReachTheMeeting
