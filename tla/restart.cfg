\* A crash between any two steps, a restart in either configuration, and
\* another program that writes the bucket all along.
CONSTANTS
    Puts = {p1}
    Gets = {g1}
    Blobs = {"b1", "b2"}
    Hashes = {"h1", "h2"}
    ShareCommitment <- MCShareCommitment
    MaxHeight = 2
    Configs <- RestartConfigs
    ForeignKeys <- SharedKeys
    MaxCrashes = 1
    NoData = NoData
    NoComm = NoComm
SPECIFICATION Spec
INVARIANTS TypeOK IInv CountInv AckedPutPublished
           MetricsAccount GetIntegrity BucketOnlyPublished ReadOnlyNeverWrites
PROPERTY ImplementsService
\* every request may have been handled: then nothing is left to do
CHECK_DEADLOCK FALSE
