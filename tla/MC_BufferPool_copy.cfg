\* Callers that copy a pin_for_refix_holder: the bounds of the safety run.
CONSTANTS
    Threads = {t1, t2}
    i = i
    a = a
    Children = {i, a}
    ParentOf <- MCParentOf
    RootPage = root
    NFrames = 3
    Swizzling = TRUE
    ForceQ = 0
    NoPage = NoPage
    NoThread = NoThread
SYMMETRY ThreadSymmetry
SPECIFICATION SpecWithHolderCopy
INVARIANT PinAccounting
