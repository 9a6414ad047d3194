\* Callers that begin, commit, attach or detach a transaction inside a
\* helper's scope; otherwise the bounds of the passing run.
CONSTANTS
    Xcts = {x1, x2}
    NoXct = NoXct
    MaxLsn = 2
    MaxDepth = 3
    SwitchInScope = TRUE
SPECIFICATION Spec
PROPERTY ScopesRestoreState
