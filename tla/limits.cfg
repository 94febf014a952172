\* One request and Stop under every kind of limit an operator may write.
\* Word and Kilo scale down 2^63 and 1024: 8GB already wraps.
CONSTANTS
    Settings <- MCSettings
    Bodies = {0, 32, 33}
    Word = 512
    Kilo = 4
    MaxTime = 140
SPECIFICATION Spec
INVARIANTS SizeAsWritten AnswersInTime StopSparesTheQuick IInv
PROPERTY CallsHaveTime
\* the process ends
CHECK_DEADLOCK FALSE
