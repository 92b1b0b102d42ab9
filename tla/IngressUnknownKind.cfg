SPECIFICATION FairSpec
CONSTANTS
    a = a
    b = b
    t1 = t1
    t2 = t2
    Class = {a, b}
    Template = {t1}
    AllShards = {TRUE, FALSE}
    Host = {}
    Name <- IngressName
    ShardLimit = 1
    Configs <- ConfigsSharded
    Hash = 0
    NamedTmp = FALSE
    TerminationPeriod = 1
    DeletionTerminationPeriod = 2
    CreateDelays = {1}
    DeleteDelays = {0, 1}
    CachesLag = FALSE
    LagLimit = 0
    MaxEdits = 1
    MaxRestarts = 0
    MaxFailures = 0
PROPERTIES
    DeletionCompletes
