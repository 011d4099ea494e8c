SPECIFICATION FairSpec
CONSTANTS
    m1 = m1
    m2 = m2
    s1 = s1
    s2 = s2
    s3 = s3
    p1 = p1
    p2 = p2
    Mounts = {m1, m2}
    Sessions = {s1, s2, s3}
    Paths = {p1}
    Present = {p1}
    MountOf <- SharedMounts
    Kinds = {"read", "write"}
    Transport = "SCP"
    Threaded = FALSE
    Exclusion = "writers"
    Faults = {"evict"}
    FdLimit = 1
INVARIANTS
    IInv
    WholeRead
    OwnUpdatesVisible
PROPERTIES
    OpenFilesNeverGoBack
    EveryRequestIsAnswered
