SPECIFICATION SideBySide
SYMMETRY Symmetry
CONSTRAINT Focus
CHECK_DEADLOCK FALSE
CONSTANTS
    Parts = {"workflow", "agent"}
    brief = brief
    creative = creative
    launch = launch
    NoStage = NoStage
    NoTask = NoTask
    NoRun = NoRun
    Stage = {brief, creative, launch}
    Needs <- Follows
    HandsOff = {brief}
    Evidenced = {creative}
    Gated = {creative, launch}
    RejectTo <- Rework
    Caller = {p, q}
    Task = {t1, t2}
    Run = {r1, r2}
    Key = {k1}
    KeyOf <- OneKey
    Session = {p, q}
    MaxExpiries = 1
    MaxCrashes = 1
INVARIANTS
    EndedRunIsSettled
    GateApproved
    OrderKept
    ClosedJobEndsRun
PROPERTIES
    ActionsKeepContract
