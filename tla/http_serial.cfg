SPECIFICATION FairSpec
CONSTANTS
    m1 = m1
    m2 = m2
    s1 = s1
    s2 = s2
    s3 = s3
    p1 = p1
    p2 = p2
    Mounts = {m1}
    Sessions = {s1, s2}
    Paths = {p1, p2}
    Present = {p1}
    MountOf <- OneMount
    Kinds = {"stat", "read", "write", "create", "truncate", "xattr"}
    Transport = "HTTP"
    Threaded = FALSE
    Exclusion = "none"
    Faults = {"evict", "remount"}
    FdLimit = 1
INVARIANTS
    WholeRead
PROPERTIES
    EveryRequestIsAnswered
