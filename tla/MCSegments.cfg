SPECIFICATION Spec
CONSTANTS
    SegmentNames = {s1, s2}
    Unmounted = Unmounted
    Capacity = 1
    Sizes = {1}
    MaxMounts = 3
    Callers = {c1}
    NoCaller = NoCaller
    Keys = {k1}
    NoObject = NoObject
    Identities = {i1, i2}
    ReplicaNums = {1, 2}
    Pins = {"none"}
    Clients = {w1, w2}
    NoClient = NoClient
    Ops = {"mount", "mount_for", "unmount", "unmount_for", "remount", "heartbeat", "client_heartbeat", "put_start", "put_end", "get"}
    LeaseTtl = 1
    SegmentTtl = 1
    Logging = FALSE
    DuplicateMounts = FALSE
    MaxBatch = 1
    MaxClock = 2
    MaxLog = 0
INVARIANTS Accounting SegmentMapsAgree
