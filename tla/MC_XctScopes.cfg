\* Two transactions, logs of two records, three nested scopes; the attached
\* transaction changes only outside the helpers.
CONSTANTS
    Xcts = {x1, x2}
    NoXct = NoXct
    MaxLsn = 2
    MaxDepth = 3
    SwitchInScope = FALSE
SPECIFICATION Spec
INVARIANT TypeOK
INVARIANT AnchorsWithinLog
INVARIANT CommittingIsOwned
INVARIANT XlistMutexOwned
PROPERTY ScopesRestoreState
