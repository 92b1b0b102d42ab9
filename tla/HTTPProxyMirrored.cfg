SPECIFICATION Spec
CONSTANTS
    a = a
    b = b
    x = x
    y = y
    z = z
    tXY = tXY
    tY = tY
    tYZ = tYZ
    Class = {a, b}
    Template = {tXY}
    AllShards = {FALSE}
    Host = {x, y, z}
    HostsOf <- MCHostsOf
    ContentOf <- MCContentOf
    MaxVhosts = 3
    Name <- HTTPProxyName
    ShardLimit = 1
    Configs <- ConfigsSharded
    Hash = 0
    NamedTmp = FALSE
    TerminationPeriod = 1
    DeletionTerminationPeriod = 2
    CreateDelays = {1}
    DeleteDelays = {0, 1}
    CachesLag = FALSE
    LagLimit = 0
    MaxEdits = 1
    MaxRestarts = 0
    MaxFailures = 0
PROPERTIES
    MirroredHosts
