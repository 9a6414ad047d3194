\* Log analysis, REDO and a concurrent user, cleaner and evictor over two
\* frames and three pages (see MC_Recovery).  A restart that fails in log
\* analysis stops the system: deadlock is not checked, RecoveryCompletes
\* says every other behaviour reaches the end of REDO.
SPECIFICATION Spec
CONSTANTS
    Frames = {f1, f2}
    Pages = {"p1", "p2", "p3"}
    NoPage = NoPage
    Recs <- MCRecs
    Disk0 <- MCDisk0
    Deallocated <- MCDeallocated
    MaxCrash = 2
INVARIANTS TypeOK FrameAccounting NoLostUpdate UserSeesRedone DurableStateCoversLog OutOfFramesOnlyWhenPoolTooSmall
PROPERTIES RecoveryCompletes
CHECK_DEADLOCK FALSE
