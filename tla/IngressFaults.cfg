SPECIFICATION Spec
CONSTANTS
    a = a
    b = b
    t1 = t1
    t2 = t2
    Class = {a, b}
    Template = {t1}
    AllShards = {FALSE}
    Host = {}
    Name <- IngressName
    ShardLimit = 1
    Configs <- ConfigsBare
    Hash = 0
    NamedTmp = FALSE
    TerminationPeriod = 1
    DeletionTerminationPeriod = 2
    CreateDelays = {1}
    DeleteDelays = {0, 1}
    CachesLag = TRUE
    LagLimit = 0
    MaxEdits = 2
    MaxRestarts = 0
    MaxFailures = 2
INVARIANTS
    TypeOK
    NoOrphans
PROPERTIES
    ServedOrReported
    DrainedBeforeDeleted
    WantedNotDrained
