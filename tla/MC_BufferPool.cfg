\* Two threads; the root, an inner page i and a leaf a below it; two frames
\* for the two pages; swizzling on, no forced Q.
CONSTANTS
    Threads = {t1, t2}
    i = i
    a = a
    Children = {i, a}
    ParentOf <- MCParentOf
    RootPage = root
    NFrames = 3
    Swizzling = TRUE
    ForceQ = 0
    NoPage = NoPage
    NoThread = NoThread
SYMMETRY ThreadSymmetry
SPECIFICATION Spec
INVARIANT TypeOK
INVARIANT FrameAccounting
INVARIANT SwizzleConsistent
INVARIANT PinAccounting
INVARIANT FixedPageIdentity
