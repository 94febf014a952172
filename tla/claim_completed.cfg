\* celestia_server.go:521 against Stop.
CONSTANT Handlers = {h1, h2}
SPECIFICATION Spec
PROPERTY AllCompleted
\* the process exits
CHECK_DEADLOCK FALSE
