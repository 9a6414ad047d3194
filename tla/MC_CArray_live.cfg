\* Liveness: two threads, one active slot, a pool of three slots, one record size, a small log.
\* No symmetry: it is unsound for temporal properties.
CONSTANTS
    Threads = {t1, t2}
    ActiveCount = 1
    SlotCount = 3
    LogSizes = {1}
    ThreadIncrement <- MCThreadIncrement
    ThreadMask <- MCThreadMask
    LogCapacity = 3
SPECIFICATION Spec
PROPERTY GroupCompletes
PROPERTY ExposeCatchesUp
