SPECIFICATION Spec
CONSTANTS
    a = a
    b = b
    k1 = k1
    Class = {a, b}
    Suffix = {0, 1, 2}
    Key = {k1}
    HashOf <- MCHashOf
    Shards <- MCShards
    MaxChanges = 1
    MaxStarts = 2
    MaxFailures = 1
INVARIANTS
    TypeOK
    NoMoreThanInstalled
PROPERTIES
    PlacedWhereInstalled
    StaysPut
CHECK_DEADLOCK FALSE
