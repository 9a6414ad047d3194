\* extract_carray_log_size with THREAD_MASK = 0xFFFF: three threads insert
\* the largest log record (3 pages of 8 KiB) into one group.
CONSTANTS
    Threads = {t1, t2, t3}
    ActiveCount = 1
    SlotCount = 3
    LogSizes = {24576}
    ThreadIncrement <- MCThreadIncrement
    ThreadMask <- MCThreadMask
    LogCapacity = 147456
SYMMETRY ThreadSymmetry
SPECIFICATION Spec
INVARIANT RecordsDisjoint
