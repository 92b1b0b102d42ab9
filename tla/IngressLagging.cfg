SPECIFICATION FairSpec
CONSTANTS
    a = a
    b = b
    t1 = t1
    t2 = t2
    Class = {a, b}
    Template = {t1}
    AllShards = {TRUE, FALSE}
    Host = {}
    Name <- IngressName
    ShardLimit = 1
    Configs <- ConfigsSharded
    Hash = 0
    NamedTmp = FALSE
    TerminationPeriod = 2
    DeletionTerminationPeriod = 3
    CreateDelays = {1}
    DeleteDelays = {0, 1}
    CachesLag = TRUE
    LagLimit = 1
    MaxEdits = 2
    MaxRestarts = 0
    MaxFailures = 0
PROPERTIES
    Converges
