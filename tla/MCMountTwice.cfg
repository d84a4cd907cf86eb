SPECIFICATION Spec
CONSTANTS
    SegmentNames = {s1}
    Unmounted = Unmounted
    Capacity = 1
    Sizes = {1}
    MaxMounts = 2
    Callers = {c1}
    NoCaller = NoCaller
    Keys = {k1, k2}
    NoObject = NoObject
    Identities = {i1}
    ReplicaNums = {1}
    Pins = {"none"}
    Clients = {}
    NoClient = NoClient
    Ops = {"mount", "put_start", "put_end"}
    LeaseTtl = 1
    SegmentTtl = 0
    Logging = FALSE
    DuplicateMounts = TRUE
    MaxBatch = 1
    MaxClock = 1
    MaxLog = 0
INVARIANTS BuffersDisjoint
