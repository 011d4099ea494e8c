SPECIFICATION FairSpec
CONSTANTS
    Clients = {"c1", "c2"}
    Names = {"f", "ro"}
    Writable = {"f"}
    Present = {"ro"}
    Contents <- SomeContents
    Forms = {"typed", "untyped", "raw"}
    Cuts = TRUE
INVARIANTS
    TypeOK
    IInv
    FilesAreWhole
    GetsSendWholeFiles
    RemainIsLeft
PROPERTIES
    AnsweredUnlessCut
    ImplementsFileServer
