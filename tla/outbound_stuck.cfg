SPECIFICATION FairSpec
CHECK_DEADLOCK FALSE
CONSTANTS
    NoIntent = NoIntent
    NoKey = NoKey
    NoApproval = NoApproval
    Intent = {i1}
    Key = {k1}
    Approval = {a1}
    Caller = {c1}
    Dispatcher = {d1, d2}
    Approver = {r1}
    LeaseTime = 1
    MaxCrashes = 1
    MaxBackups = 0
PROPERTIES
    EveryIntentSettles
