\* Safety: two threads, one active slot, a pool of three slots.
CONSTANTS
    Threads = {t1, t2}
    ActiveCount = 1
    SlotCount = 3
    LogSizes = {1, 2}
    ThreadIncrement <- MCThreadIncrement
    ThreadMask <- MCThreadMask
    LogCapacity = 4

SYMMETRY ThreadSymmetry
SPECIFICATION Spec

INVARIANT TypeOK
INVARIANT StatusAccounting
INVARIANT RecordsDisjoint
INVARIANT ExposedIsWritten

PROPERTY ExposeContiguous
PROPERTY ImplementsLogAbstract
