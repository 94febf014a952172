\* config.toml.example:202-203 against NewS3Provider.
CONSTANTS
    Texts <- MCTexts
    Namespaces <- MCNamespaces
    Files <- MCFiles
    Lines <- MCLines
    NoFile = NoFile
    NoTx = NoTx
    Refused = Refused
    NoServer = NoServer
SPECIFICATION Spec
INVARIANT CredentialsAsDocumented
\* the server has started or not
CHECK_DEADLOCK FALSE
