SPECIFICATION FairSpec
CONSTANTS
    m1 = m1
    m2 = m2
    s1 = s1
    s2 = s2
    s3 = s3
    p1 = p1
    p2 = p2
    Mounts = {m1, m2}
    Sessions = {s1, s3}
    Paths = {p1}
    Present = {p1}
    MountOf <- SharedMounts
    Kinds = {"write"}
    Transport = "SCP"
    Threaded = TRUE
    Exclusion = "opens"
    Faults = {}
    FdLimit = 2
PROPERTIES
    ClosedIsStored
