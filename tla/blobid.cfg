\* Bytes of one bit, heights and share commitments of two bytes.
CONSTANTS
    Radix = 2
    HeightSize = 2
    CommitmentSize = 2
    ShareOffsetSize = 1
    ShareSizeSize = 2
    GenericByte = 0
    VersionByte = 1
    PutUint <- MCPutUint
    Uint <- MCUint
    MaxEdits = 5
SPECIFICATION Spec
INVARIANTS RoundTrip AliasOfSameBlob BareRefused RangePublishedOrAdded IInv
\* one commitment is parsed once
CHECK_DEADLOCK FALSE
