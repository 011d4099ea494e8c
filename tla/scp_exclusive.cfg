SPECIFICATION Spec
CONSTANTS
    m1 = m1
    m2 = m2
    s1 = s1
    s2 = s2
    s3 = s3
    p1 = p1
    p2 = p2
    Mounts = {m1, m2}
    Sessions = {s1, s2, s3}
    Paths = {p1}
    Present = {}
    MountOf <- SharedMounts
    Kinds = {"stat", "write", "create"}
    Transport = "SCP"
    Threaded = FALSE
    Exclusion = "writers"
    Faults = {"partial", "remount"}
    FdLimit = 2
INVARIANTS
    TypeOK
    IInv
    NoLostUpdate
    WriterHasRemote
PROPERTIES
    RemoteNeverShrinks
    CreatesOnlyWhereNoneIs
    OnlyMknodInvents
    ImplementsStore
SYMMETRY SessionSymmetry
