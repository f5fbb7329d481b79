SPECIFICATION SideBySide
SYMMETRY Symmetry
CONSTRAINT Focus
CHECK_DEADLOCK FALSE
CONSTANTS
    Parts = {"retention", "recovery", "migrations", "projection", "routes", "sync", "evidence"}
    doc1 = doc1
    doc2 = doc2
    doc3 = doc3
    here = here
    there = there
    NoSession = NoSession
    Evidence = {doc1, doc2, doc3}
    Workspace = {here, there}
    Of <- Places
    MaxDeletions = 2
    MaxCrashes = 1
    Row = {1}
    MaxFiles = 3
    MaxRestores = 1
    MaxDamage = 1
    MaxSessions = 1
    KeepDaily = 1
    KeepWeekly = 1
    Process = {p, q}
    Documents = 3
    MaxRebuilds = 2
    MaxDeletes = 1
    Stream = {p, q}
    Session = {p, q}
    Event = {1, 2}
    Pages = 2
    EventsOf <- TwoPages
    Backlog = FALSE
    Routed = TRUE
    MaxAttempts = 2
    MaxPulls = 3
    MaxJobs = 2
    MaxTakeovers = 1
    MaxRotations = 1
    Key = {doc1}
    Contents = {doc2, doc3}
    Private = {doc2}
    Reader = {here, there}
    Admin = here
    Dates <- Held
    NeedsAll = TRUE
    PresentOnly = FALSE
    MaxTime = 2
    MaxSources = 2
    MaxIntervals = 3
    Shared = {doc2}
    PageOf <- LastPage
    MaxEdits = 2
    MaxMoves = 2
    MaxExpiries = 1
INVARIANTS
    ErasureIsWhole
    FinishedIsWhole
    NothingLostBySwitch
    RoutesFollowRoots
    SyncSkipsNothing
    OneVersionAtATime
PROPERTIES
    RecoveryIsSafe
    NothingGoesBack
