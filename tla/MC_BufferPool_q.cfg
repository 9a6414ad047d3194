\* Q-mode fixes: the bounds of the safety run; a Q fix of the root and of a
\* child takes no latch and no pin, and the ticket is never checked.
CONSTANTS
    Threads = {t1, t2}
    i = i
    a = a
    Children = {i, a}
    ParentOf <- MCParentOf
    RootPage = root
    NFrames = 3
    Swizzling = TRUE
    ForceQ = 0
    NoPage = NoPage
    NoThread = NoThread
SYMMETRY ThreadSymmetry
SPECIFICATION Spec
PROPERTY QFixReturnsRequestedPage
