\* One PUT and one read-through GET from the start to the end of the process.
CONSTANTS
    Puts = {p1}
    Gets = {g1}
    Blobs = {"b1"}
    Hashes = {"h1"}
    ShareCommitment <- MCShareCommitment
    MaxHeight = 1
    Configs <- MCConfigs
    ForeignKeys <- NoKeys
    MaxCrashes = 1
    NoData = NoData
    NoComm = NoComm
SPECIFICATION ServerSpec
INVARIANTS CleanStopStored StoreInv
PROPERTIES ImplementsLifecycle EveryRequestEnds WritersDrain
\* the process ends
CHECK_DEADLOCK FALSE
