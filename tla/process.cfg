SPECIFICATION Spec
CONSTANTS
    MaxArguments = 6
    Paths = {"/", "/a", "/b"}
    Root = "/"
    Errnos = {2, 13}
    Entries = 3
INVARIANTS
    TypeOK
    ErrnoIsTheCalls
PROPERTIES
    ServesAsUsed
