SPECIFICATION ClusterSpec
CONSTANTS
    SegmentNames = {s1}
    Unmounted = Unmounted
    Capacity = 1
    Sizes = {1}
    MaxMounts = 1
    Callers = {server}
    NoCaller = NoCaller
    Keys = {k1, k2}
    NoObject = NoObject
    Identities = {i1, i2}
    ReplicaNums = {1}
    Pins = {"none"}
    Clients = {}
    NoClient = NoClient
    Ops = {"mount"}
    LeaseTtl = 1
    SegmentTtl = 0
    Logging = FALSE
    DuplicateMounts = FALSE
    MaxBatch = 1
    MaxClock = 0
    MaxLog = 0
    Server = server
    Workers = {w1, w2}
    Blank = Blank
    NoSnapshot = NoSnapshot
    Works = {"put", "get"}
    Careful = TRUE
    MaxRestarts = 0
INVARIANTS ReadsOwnBytes
