\* API.md:94-99 against parseBlobIDFromCommitment.
CONSTANTS
    Radix = 2
    HeightSize = 2
    CommitmentSize = 2
    ShareOffsetSize = 1
    ShareSizeSize = 2
    GenericByte = 0
    VersionByte = 1
    PutUint <- MCPutUint
    Uint <- MCUint
    MaxEdits = 0
SPECIFICATION Spec
INVARIANT AcceptsDocumentedFormats
CHECK_DEADLOCK FALSE
