SPECIFICATION Spec
CONSTANTS
    short = short
    long = long
    main = main
    other = other
    s1 = s1
    s2 = s2
    hooked = hooked
    r1 = r1
    r2 = r2
    Alias = {short, long}
    Within <- MCWithin
    TlsHost = {main, other}
    MainDomain = {main}
    Secret = {s1, s2}
    Hooked = hooked
    Rest = {r1, r2}
    MaxEdits = 2
INVARIANTS
    TypeOK
    WrittenOnce
PROPERTIES
    Follows
CHECK_DEADLOCK FALSE
