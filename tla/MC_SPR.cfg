\* Three child pages, a seven-record log with two chained splits, one
\* corruption.
CONSTANTS
    Pages = {"a", "b", "c"}
    Keys = {1, 2, 3, 4}
    Log <- MCLog
    MaxCorrupt = 1
SPECIFICATION Spec
INVARIANT TypeOK
INVARIANT NoLostUpdate
