SPECIFICATION Spec
CONSTANTS
    None = None
    FALLBACK_MAX_BLOCKS = 2
    Hash <- MCHash
    Capacity <- MCCapacity
    Configs <- MCConfigs
    MaxRequests = 3
    MaxBatches = 2
    MaxCrashes = 1
    min_hot_prefix_hits = 2
    target_replicas = 2
    max_actions = 4
    HbmCapacity = 4
INVARIANTS
    IndexesAgree
    LoadIsInFlight
    SessionStaysPut
    AdviceSound
PROPERTIES
    PlanSound
    CascadeSound
    MirrorExact
    RemovalTakesEffect
CHECK_DEADLOCK FALSE
