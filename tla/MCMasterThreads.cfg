SPECIFICATION FairSpec
CONSTANTS
    SegmentNames = {s1}
    Unmounted = Unmounted
    Capacity = 2
    Sizes = {1}
    MaxMounts = 1
    Callers = {c1, c2}
    NoCaller = NoCaller
    Keys = {k1, k2}
    NoObject = NoObject
    Identities = {i1}
    ReplicaNums = {1}
    Pins = {"none", "hard"}
    Clients = {}
    NoClient = NoClient
    Ops = {"mount", "unmount", "put_start", "put_end", "put_revoke", "get", "evict"}
    LeaseTtl = 1
    SegmentTtl = 0
    Logging = FALSE
    DuplicateMounts = FALSE
    MaxBatch = 1
    MaxClock = 1
    MaxLog = 0
INVARIANTS BuffersDisjoint
PROPERTIES HardPinShields LeasesKept LockReleased
