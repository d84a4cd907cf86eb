SPECIFICATION Spec
CONSTANTS
    SegmentNames = {s1, s2}
    Unmounted = Unmounted
    Capacity = 2
    Sizes = {1, 2}
    MaxMounts = 2
    Callers = {c1}
    NoCaller = NoCaller
    Keys = {k1, k2}
    NoObject = NoObject
    Identities = {i1}
    ReplicaNums = {1}
    Pins = {"none", "hard"}
    Clients = {}
    NoClient = NoClient
    Ops = {"mount", "unmount", "put_start", "put_end_own", "put_revoke_own", "get", "remove", "evict"}
    LeaseTtl = 1
    SegmentTtl = 0
    Logging = TRUE
    DuplicateMounts = FALSE
    MaxBatch = 1
    MaxClock = 0
    MaxLog = 5
SYMMETRY Symmetric
INVARIANTS RecoversSame
