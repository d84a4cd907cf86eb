SPECIFICATION Spec
CONSTANTS
    SegmentNames = {s1}
    Unmounted = Unmounted
    Capacity = 3
    Sizes = {1, 2}
    MaxMounts = 1
    Callers = {c1}
    NoCaller = NoCaller
    Keys = {k1, k2, k3}
    NoObject = NoObject
    Identities = {i1}
    ReplicaNums = {1}
    Pins = {"none", "soft"}
    Clients = {}
    NoClient = NoClient
    Ops = {"mount", "unmount", "put_start", "put_end", "put_revoke", "get", "upsert", "remove"}
    LeaseTtl = 1
    SegmentTtl = 0
    Logging = FALSE
    DuplicateMounts = FALSE
    MaxBatch = 2
    MaxClock = 1
    MaxLog = 0
SYMMETRY Symmetric
PROPERTIES LeaseShields BatchRevoked ExhaustedOnlyIfHeld
