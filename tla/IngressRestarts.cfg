SPECIFICATION Spec
CONSTANTS
    a = a
    b = b
    t1 = t1
    t2 = t2
    Class = {a, b}
    Template = {t1}
    AllShards = {TRUE, FALSE}
    Host = {}
    Name <- IngressName
    ShardLimit = 1
    Configs <- ConfigsAny
    Hash = 0
    NamedTmp = FALSE
    TerminationPeriod = 1
    DeletionTerminationPeriod = 3
    CreateDelays = {1}
    DeleteDelays = {0, 1}
    CachesLag = FALSE
    LagLimit = 0
    MaxEdits = 1
    MaxRestarts = 1
    MaxFailures = 0
INVARIANTS
    NoOrphans
PROPERTIES
    DrainedBeforeDeleted
