SPECIFICATION Spec
CONSTANTS
    Parts = {"layers", "rdma", "etcd", "engine", "election", "sketch", "oplog", "connector"}
    Jobs <- MCJobs
    PoolWorkers = {w1, w2}
    PoolKinds <- MCPoolKinds
    MaxCalls = 4
    MetaNodes = {n1, n2}
    Names = {s1}
    Descs = {d1, d2}
    Absent = Absent
    MaxChanges = 3
    MaxLost = 1
    SegNames = {seg}
    LocalData <- MCLocalData
    Buffers <- MCBuffers
    ReqLists <- MCReqLists
    ArenaBound = 4
    MaxEngines = 3
    MaxHandles = 2
    MaxBatchIds = 1
    MaxSubmits = 2
    Masters = {m1, m2}
    MaxTerms = 3
    MaxWrites = 2
    SketchKeys = {k1, k2, k3}
    Width = 2
    Depth = 3
    MaxCount = 3
    Hashes <- MCHashes
    MaxEntries = 4
    MaxTorn = 2
    Setups <- MCSetups
    BlockSize = 2
INVARIANTS
    NotifiedInOrder
    ReturnsWhole
    CachesConverge
    NeverUnderCounts
    ReplayExact
    
    AnsweredOrProvoked
PROPERTIES
    NothingAfterError
    ConnectionsSafe
    TransfersSound
    
    WaitsEnd
CHECK_DEADLOCK FALSE
