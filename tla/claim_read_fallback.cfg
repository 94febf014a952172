\* README.md:253 against getBlob.
CONSTANTS
    Puts = {p1}
    Gets = {g1}
    Blobs = {"b1", "b2"}
    Hashes = {"h1", "h2"}
    ShareCommitment <- MCShareCommitment
    MaxHeight = 1
    Configs <- WritingConfigs
    ForeignKeys <- NoKeys
    MaxCrashes = 0
    NoData = NoData
    NoComm = NoComm
SPECIFICATION Spec
PROPERTY ReadFallbackOnNotFound
\* every request may have been handled: then nothing is left to do
CHECK_DEADLOCK FALSE
