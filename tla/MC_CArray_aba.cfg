\* Two active slots: a joiner's idx can be stale by the time its CAS on a
\* recycled slot makes it leader.
CONSTANTS
    Threads = {t1, t2}
    ActiveCount = 2
    SlotCount = 3
    LogSizes = {1}
    ThreadIncrement <- MCThreadIncrement
    ThreadMask <- MCThreadMask
    LogCapacity = 4
SYMMETRY ThreadSymmetry
SPECIFICATION Spec
INVARIANT ReplaceTargetsOwnSlot
