\* config.go:272 against buildSignerConfig.
CONSTANTS
    Texts <- MCTexts
    Namespaces <- MCNamespaces
    Files <- MCFiles
    Lines <- MCLines
    NoFile = NoFile
    NoTx = NoTx
    Refused = Refused
    NoServer = NoServer
SPECIFICATION Spec
INVARIANT LegacyOnlyIfSet
\* the server has started or not
CHECK_DEADLOCK FALSE
