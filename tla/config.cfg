\* Every configuration of the instance, from the inputs to the server.
CONSTANTS
    Texts <- MCTexts
    Namespaces <- MCNamespaces
    Files <- MCFiles
    Lines <- MCLines
    NoFile = NoFile
    NoTx = NoTx
    Refused = Refused
    NoServer = NoServer
SPECIFICATION Spec
INVARIANTS TypeOK ValidSignerAccepted WritesAreSigned NamespaceKept
           SignerFlagsWin FallbackAsAsked
\* the server has started or not
CHECK_DEADLOCK FALSE
