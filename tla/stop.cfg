\* Start and Stop with three requests in flight, of which nothing is assumed.
CONSTANT Handlers = {h1, h2, h3}
SPECIFICATION FairSpec
INVARIANTS TypeOK CleanStop PanicOnlyAfterTimeout IInv
PROPERTIES AddsBeforeWait StopTerminates
\* the process exits
CHECK_DEADLOCK FALSE
