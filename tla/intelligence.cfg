SPECIFICATION SideBySide
SYMMETRY Symmetry
CONSTRAINT Focus
CHECK_DEADLOCK FALSE
CONSTANTS
    Parts = {"learning", "facts", "entities", "alerts", "attention"}
    x = x
    y = y
    NoKey = NoKey
    NoOne = NoOne
    Process = {p, q}
    Person = {ann, bob}
    Author = ann
    Key = {k}
    Object = {x, y}
    Proposal = {k}
    Says <- Claims
    FirstStates = {"inferred"}
    Entity = {acme, apex, k}
    Name = {m, n}
    Ranking <- Urgency
    Shown = 1
    Workspaces = 2
    MaxTime = 1
    MaxAge = 1
    MaxFacts = 2
    MaxRecords = 1
    MaxTasks = 2
    MaxProposals = 2
    MaxRefreshes = 3
    MaxUpdates = 1
    MaxRequests = 3
    MaxChanges = 1
    MaxCrashes = 1
INVARIANTS
    AppendedTogether
    PromotedOnce
    MergesEnd
    AlertsHold
PROPERTIES
    NamesStayKnown
