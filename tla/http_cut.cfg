SPECIFICATION FairSpec
CONSTANTS
    Clients = {"c1", "c2"}
    Names = {"f"}
    Writable = {"f"}
    Present = {"f"}
    Contents <- SomeContents
    Forms = {"typed"}
    Cuts = TRUE
PROPERTIES
    EveryRequestIsAnswered
