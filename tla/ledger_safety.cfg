SPECIFICATION Spec
SYMMETRY Symmetry
CONSTRAINT Focus
CONSTANTS
    j1 = j1
    j2 = j2
    s1 = s1
    s2 = s2
    s3 = s3
    w1 = w1
    w2 = w2
    k1 = k1
    p1 = p1
    p2 = p2
    p3 = p3
    st1 = st1
    c1 = c1
    c2 = c2
    NoJob = NoJob
    NoWorker = NoWorker
    NoKey = NoKey
    NoPayload = NoPayload
    NoStream = NoStream
    Worker = {w1, w2}
    Stream = {st1}
    Key = {k1}
    OwnerOf <- MCOwnerOf
    StreamOf <- MCStreamOf
    Job = {j1, j2}
    Client = {c1, c2}
    Session = {s1, s2, s3}
    Payload = {p1, p3}
    Priority = {0}
    AttemptLimit = {2}
    StartDelay = {0}
    LeaseTime = {1, 2}
    RetryAfter = {}
    BackoffUnit = 1
    MaxVersion = 5
    MaxSlips = 2
    MaxCrashes = 1
INVARIANTS
    LatestHolderDecides
    OneJobPerKey
    StreamLockedWhileLive
PROPERTIES
    ImplementsContract
