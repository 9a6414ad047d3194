\* Dirty tracking, rec_lsn and write-order dependencies: three pages, a log
\* of three records, a cycle walk of one step (so chains of two are rejected).
\* The model stops when the log bound is reached and pages are deleted.
SPECIFICATION Spec
CONSTANTS
    Pages = {p1, p2, p3}
    NoPage = NoPage
    MaxLsn = 3
    MaxWalk = 1
INVARIANTS TypeOK DirtyRecLsn CleanMatchesDisk NoDependencyCycle
PROPERTIES WodRespected EventuallyClean
CHECK_DEADLOCK FALSE
