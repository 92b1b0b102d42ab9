SPECIFICATION Spec
CONSTANTS
    o1 = o1
    o2 = o2
    s0 = s0
    s1 = s1
    NoShard = NoShard
    Object <- MCObject
    Shard <- MCShard
    KnownShards <- MCKnownShards
    Placement <- MCPlacement
    Cooldown = 2
    TerminationPeriod = 3
    MaxApplyBacklog = 6
    StartTime = 2
    MaxTime = 6
SYMMETRY Symmetry
INVARIANTS
    TypeOK
    BacklogBound
    CreationScheduled
    
PROPERTY CooldownKept
