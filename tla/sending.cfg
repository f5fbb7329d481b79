SPECIFICATION SideBySide
SYMMETRY Symmetry
CONSTRAINT Focus
CHECK_DEADLOCK FALSE
CONSTANTS
    Parts = {"send", "outbox", "action", "profiles"}
    k1 = k1
    e1 = e1
    e2 = e2
    NoIntent = NoIntent
    NoKey = NoKey
    NoApproval = NoApproval
    NoAction = NoAction
    Intent = {i1}
    Key = {k1}
    Approval = {a1}
    Caller = {c1, c2}
    Dispatcher = {d1, d2}
    Approver = {r1, r2}
    LeaseTime = 1
    MaxCrashes = 1
    MaxBackups = 1
    Event = {e1, e2}
    MaxAttempts = 2
    Limit = 2
    MaxWait = 1
    Action = {e1, e2}
    MaxCalls = 2
    Run = {k1}
    Asked <- Runbook
    Visible = {e1}
    Replies <- Answers
    Local <- Bounded
    MaxTokens = 2
    Runtime = 1
    Window = 3
    OpenFor = 1
    Thresholds = {1, 2}
    MaxTime = 2
    MaxChanges = 2
INVARIANTS
    DeliveriesWithinBudget
    ActionsAreApproved
    RunsAreAccounted
PROPERTIES
    SendsKeepContract
    NoCallInRecovery
    HolderDecides
