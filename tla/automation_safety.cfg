SPECIFICATION Spec
SYMMETRY Symmetry
CONSTRAINT Focus
CHECK_DEADLOCK FALSE
CONSTANTS
    c1 = c1
    c2 = c2
    k1 = k1
    k2 = k2
    a1 = a1
    a2 = a2
    s1 = s1
    s2 = s2
    NoChange = NoChange
    Change = {c1, c2}
    Key = {k1, k2}
    Hash = {"h1", "h2", "h3"}
    Actions <- SharedKey
    AutoPolicy = TRUE
    Caller = {a1, a2}
    Session = {s1, s2}
    MaxExpiries = 1
    MaxCrashes = 1
INVARIANTS
    OneRunIsApplied
    AppliedAfterApproval
PROPERTIES
    ActionsKeepContract
