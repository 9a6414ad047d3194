------------------------------- MODULE Recovery -------------------------------
(***************************************************************************)
(* Recovery-phase coordination in the buffer pool (bf_tree.h, spec 4.8).   *)
(* Log analysis registers every page the log touches as an in-doubt        *)
(* control block (register_and_mark: a free frame, no eviction, no image). *)
(* REDO then loads each in-doubt page under recovery_access                *)
(* (load_for_redo, in_doubt_to_dirty), replays the page's records one by   *)
(* one and releases it, or drops a page that is no longer needed           *)
(* (clear_in_doubt).  While REDO runs, a user transaction may fix pages    *)
(* (concurrent restart), the cleaner writes dirty pages and the evictor    *)
(* evicts pages, dirty ones included: eviction writes the page's LSN into *)
(* its parent as the EMLSN, and a later read through the parent that      *)
(* finds an older image on disk rebuilds it by Single-Page Recovery.      *)
(* A crash (at most MaxCrash of them) loses the buffer *)
(* pool; restart then analyses the log from the redo LSN of the master     *)
(* record, which a checkpoint taken during REDO may have moved.  Log      *)
(* analysis takes frames without evicting: when the log names more pages *)
(* than the pool has frames, register_and_mark returns an error and the   *)
(* restart fails.  A page's image is its page LSN.                        *)
(***************************************************************************)
EXTENDS Naturals, FiniteSets, FiniteSetsExt

CONSTANTS
    Frames,     \* buffer pool frames
    Pages,      \* pages of the volume
    NoPage,     \* an unused control block / a user holding nothing
    Recs,       \* Recs[p]: LSNs of the log records of page p
    Disk0,      \* Disk0[p]: page LSN of p's image on disk at the crash
    Deallocated,\* pages the log shows as freed: REDO drops them
    MaxCrash    \* crashes in a behaviour

ASSUME /\ Recs \in [Pages -> SUBSET Nat] /\ Disk0 \in [Pages -> Nat]
       /\ Deallocated \subseteq Pages /\ NoPage \notin Pages
       /\ MaxCrash \in Nat

\* The pages with records anywhere in the log.
LogPages == {p \in Pages : Recs[p] /= {}}

\* The LSN of the last update the log holds for p (0: none).
Latest(p) == IF Recs[p] = {} THEN 0 ELSE Max(Recs[p])

VARIABLES
    phase,       \* "analysis", "redo", "done" or "failed"
    pid,         \* the page of each control block (NoPage: unused)
    inDoubt,     \* _in_doubt
    recAccess,   \* _recovery_access
    dirty,       \* _dirty
    loaded,      \* the frame holds an image
    pageLsn,     \* page LSN of the image in the frame
    recLsn,      \* _rec_lsn
    lastLsn,     \* the last-update LSN recorded by register_and_mark
    inDoubtCount,\* the in_doubt page counter
    freelist,    \* frames on the free list
    diskLsn,     \* page LSN of each page's image on disk
    userHold,    \* page the user transaction has fixed
    userLsn,     \* page LSN of the image the user read
    chkpt,       \* a checkpoint under way: frames get_rec_lsn has scanned
                 \* and the least rec_lsn found
    master,      \* redo LSN of the last completed checkpoint (1: none)
    scanFrom,    \* the LSN log analysis of this restart started from
    emlsn,       \* the EMLSN of each page, held in its parent page
    crashes      \* crashes so far

vars == <<phase, pid, inDoubt, recAccess, dirty, loaded, pageLsn, recLsn,
          lastLsn, inDoubtCount, freelist, diskLsn, userHold, userLsn,
          chkpt, master, scanFrom, emlsn, crashes>>

\* The records of p that this restart's log analysis sees, the pages it
\* finds, and the first and last LSN it records for a page.
ScanRecs(p) == {r \in Recs[p] : r >= scanFrom}
Logged == {p \in Pages : ScanRecs(p) /= {}}
FirstLsn(p) == Min(ScanRecs(p))
LastLsn(p) == Max(ScanRecs(p))

\* The end of the log: the LSN the next record would take.
EndLsn == Max({Latest(p) : p \in Pages}) + 1

NoChkpt == [on |-> FALSE, scanned |-> {}, minRec |-> EndLsn]

\* The EMLSNs the parents can hold at the crash: none, or the page's last
\* update when it was evicted after it.
EmlsnsAtCrash == {e \in [Pages -> 0..EndLsn] : \A p \in Pages : e[p] \in {0, Latest(p)}}

\* The redo LSNs the master record can hold at the crash, given the
\* EMLSNs: that of some completed checkpoint (1: none), no later than the
\* last update of a page whose disk image lacks it, unless the page was
\* evicted after that update.
MasterLsns(e) ==
    {m \in 1..EndLsn : \A p \in Pages :
        Disk0[p] < Latest(p) => m <= Latest(p) \/ e[p] >= Latest(p)}

Init ==
    /\ phase = "analysis"
    /\ pid = [f \in Frames |-> NoPage]
    /\ inDoubt = [f \in Frames |-> FALSE]
    /\ recAccess = [f \in Frames |-> FALSE]
    /\ dirty = [f \in Frames |-> FALSE]
    /\ loaded = [f \in Frames |-> FALSE]
    /\ pageLsn = [f \in Frames |-> 0]
    /\ recLsn = [f \in Frames |-> 0]
    /\ lastLsn = [f \in Frames |-> 0]
    /\ inDoubtCount = 0
    /\ freelist = Frames
    /\ diskLsn = Disk0
    /\ userHold = NoPage
    /\ userLsn = 0
    /\ chkpt = NoChkpt
    /\ emlsn \in EmlsnsAtCrash
    /\ master \in MasterLsns(emlsn)
    /\ scanFrom = master
    /\ crashes = 0

-----------------------------------------------------------------------------
(* Helpers                                                                 *)

\* The hash table: the frame holding page p, if any.
Resident(p) == {f \in Frames : pid[f] = p}

\* lookup_in_doubt(key): the in-doubt frame of page p.
lookup_in_doubt(p) == {f \in Resident(p) : inDoubt[f]}

\* The next record of p that an image at LSN l lacks, on the page's log
\* chain: REDO of a page loaded for redo follows the chain from the
\* image's page LSN up to the last LSN log analysis found (the page_emlsn
\* of _check_read_page and _try_recover_page).
NextRec(p, l) == Min({r \in Recs[p] : r > l})

\* _check_read_page on an image read through the parent: an image older
\* than the EMLSN is rebuilt by Single-Page Recovery up to the EMLSN.
check_read_page(p) == Max({diskLsn[p], emlsn[p]})

\* Bug variant: the wiped frame is not put back on the free list.
FreeFrame_leak(f) ==
    /\ pid' = [pid EXCEPT ![f] = NoPage]
    /\ loaded' = [loaded EXCEPT ![f] = FALSE]
    /\ dirty' = [dirty EXCEPT ![f] = FALSE]
    /\ freelist' = freelist

\* A frame's control block wiped and the frame back on the free list.
FreeFrame(f) ==
    /\ pid' = [pid EXCEPT ![f] = NoPage]
    /\ loaded' = [loaded EXCEPT ![f] = FALSE]
    /\ dirty' = [dirty EXCEPT ![f] = FALSE]
    /\ freelist' = freelist \cup {f}

-----------------------------------------------------------------------------
(* Log analysis                                                            *)

\* set_in_doubt(idx, first_lsn, last_lsn): the control block is in doubt
\* and holds the page's first and last LSN from the log.
set_in_doubt(f, first, last) ==
    /\ inDoubt' = [inDoubt EXCEPT ![f] = TRUE]
    /\ recLsn' = [recLsn EXCEPT ![f] = first]
    /\ lastLsn' = [lastLsn EXCEPT ![f] = last]

\* Bug variant: no lookup first; a page the log names again takes another
\* frame.
register_and_mark_twice(p) ==
    /\ phase = "analysis" /\ p \in Logged
    /\ \E f \in freelist :
        /\ freelist' = freelist \ {f}
        /\ pid' = [pid EXCEPT ![f] = p]
        /\ set_in_doubt(f, FirstLsn(p), LastLsn(p))
        /\ inDoubtCount' = inDoubtCount + 1
    /\ UNCHANGED <<phase, recAccess, dirty, loaded, pageLsn, diskLsn,
                   userHold, userLsn,
                   chkpt, master, scanFrom, emlsn, crashes>>

\* register_and_mark(page, first_lsn, last_lsn): a page not yet registered
\* takes a free frame without eviction; its control block is used and in
\* doubt, holds the LSNs, and the in-doubt counter goes up.
register_and_mark(p) ==
    /\ phase = "analysis" /\ p \in Logged /\ Resident(p) = {}
    /\ \E f \in freelist :
        /\ freelist' = freelist \ {f}
        /\ pid' = [pid EXCEPT ![f] = p]
        /\ set_in_doubt(f, FirstLsn(p), LastLsn(p))
        /\ inDoubtCount' = inDoubtCount + 1
    /\ UNCHANGED <<phase, recAccess, dirty, loaded, pageLsn, diskLsn,
                   userHold, userLsn,
                   chkpt, master, scanFrom, emlsn, crashes>>

\* register_and_mark with the free list empty: "return error if the
\* freelist is empty"; log analysis, and with it the restart, fails.
RegisterOutOfFrames(p) ==
    /\ phase = "analysis" /\ p \in Logged /\ Resident(p) = {}
    /\ freelist = {}
    /\ phase' = "failed"
    /\ UNCHANGED <<pid, inDoubt, recAccess, dirty, loaded, pageLsn, recLsn,
                   lastLsn, inDoubtCount, freelist, diskLsn, userHold, userLsn,
                   chkpt, master, scanFrom, emlsn, crashes>>

\* The end of log analysis; the system opens for user transactions.
AnalysisDone ==
    /\ phase = "analysis"
    /\ \A p \in Logged : Resident(p) /= {}
    /\ phase' = "redo"
    /\ UNCHANGED <<pid, inDoubt, recAccess, dirty, loaded, pageLsn, recLsn,
                   lastLsn, inDoubtCount, freelist, diskLsn, userHold, userLsn,
                   chkpt, master, scanFrom, emlsn, crashes>>

-----------------------------------------------------------------------------
(* REDO, by the restart thread                                             *)

\* in_doubt_to_dirty(idx): the image is in the frame, which is now dirty.
in_doubt_to_dirty(f) ==
    /\ inDoubt' = [inDoubt EXCEPT ![f] = FALSE]
    /\ dirty' = [dirty EXCEPT ![f] = TRUE]

\* Bug variant: REDO loads a frame again that is no longer in doubt.
load_for_redo_reload(f) ==
    /\ phase = "redo" /\ pid[f] \in Logged \ Deallocated
    /\ recAccess' = [recAccess EXCEPT ![f] = TRUE]
    /\ loaded' = [loaded EXCEPT ![f] = TRUE]
    /\ pageLsn' = [pageLsn EXCEPT ![f] = diskLsn[pid[f]]]
    /\ in_doubt_to_dirty(f)
    /\ inDoubtCount' = inDoubtCount - 1
    /\ UNCHANGED <<phase, pid, recLsn, lastLsn, freelist, diskLsn,
                   userHold, userLsn,
                   chkpt, master, scanFrom, emlsn, crashes>>

\* set_recovery_access, load_for_redo and in_doubt_to_dirty: the image is
\* read into the in-doubt frame, which leaves doubt and becomes dirty;
\* the frame stays marked as accessed by recovery while it is replayed.
load_for_redo(f) ==
    /\ phase = "redo" /\ inDoubt[f] /\ pid[f] \notin Deallocated
    /\ recAccess' = [recAccess EXCEPT ![f] = TRUE]
    /\ loaded' = [loaded EXCEPT ![f] = TRUE]
    /\ pageLsn' = [pageLsn EXCEPT ![f] = diskLsn[pid[f]]]
    /\ in_doubt_to_dirty(f)
    /\ inDoubtCount' = inDoubtCount - 1
    /\ UNCHANGED <<phase, pid, recLsn, lastLsn, freelist, diskLsn,
                   userHold, userLsn,
                   chkpt, master, scanFrom, emlsn, crashes>>

\* Replay of the next log record of the page the image lacks.
RedoRecord(f) ==
    /\ phase = "redo" /\ recAccess[f] /\ pageLsn[f] < lastLsn[f]
    /\ pageLsn' = [pageLsn EXCEPT ![f] = NextRec(pid[f], @)]
    /\ UNCHANGED <<phase, pid, inDoubt, recAccess, dirty, loaded, recLsn,
                   lastLsn, inDoubtCount, freelist, diskLsn, userHold, userLsn,
                   chkpt, master, scanFrom, emlsn, crashes>>

\* clear_recovery_access once the image has every record up to the last.
clear_recovery_access(f) ==
    /\ phase = "redo" /\ recAccess[f] /\ pageLsn[f] >= lastLsn[f]
    /\ recAccess' = [recAccess EXCEPT ![f] = FALSE]
    /\ UNCHANGED <<phase, pid, inDoubt, dirty, loaded, pageLsn, recLsn,
                   lastLsn, inDoubtCount, freelist, diskLsn, userHold, userLsn,
                   chkpt, master, scanFrom, emlsn, crashes>>

\* Bug variant: clear_in_doubt leaves the in-doubt counter as it was.
clear_in_doubt_keep_count(f) ==
    /\ phase = "redo" /\ inDoubt[f] /\ pid[f] \in Deallocated
    /\ inDoubt' = [inDoubt EXCEPT ![f] = FALSE]
    /\ FreeFrame(f)
    /\ UNCHANGED <<phase, recAccess, pageLsn, recLsn, lastLsn, diskLsn,
                   userHold, userLsn, inDoubtCount,
                   chkpt, master, scanFrom, emlsn, crashes>>

\* clear_in_doubt(idx, still_used = false, key): a page the log shows as
\* freed is not needed; the control block is wiped, the hash table entry
\* removed and the frame returned to the free list.
clear_in_doubt(f) ==
    /\ phase = "redo" /\ inDoubt[f] /\ pid[f] \in Deallocated
    /\ inDoubt' = [inDoubt EXCEPT ![f] = FALSE]
    /\ FreeFrame(f)
    /\ inDoubtCount' = inDoubtCount - 1
    /\ UNCHANGED <<phase, recAccess, pageLsn, recLsn, lastLsn, diskLsn,
                   userHold, userLsn,
                   chkpt, master, scanFrom, emlsn, crashes>>

\* REDO ends when the in-doubt counter reaches zero and no frame is
\* still being replayed.
RedoDone ==
    /\ phase = "redo" /\ inDoubtCount = 0
    /\ \A f \in Frames : ~recAccess[f]
    /\ phase' = "done"
    /\ UNCHANGED <<pid, inDoubt, recAccess, dirty, loaded, pageLsn, recLsn,
                   lastLsn, inDoubtCount, freelist, diskLsn, userHold, userLsn,
                   chkpt, master, scanFrom, emlsn, crashes>>

-----------------------------------------------------------------------------
(* Concurrent with REDO: a user transaction, the cleaner, the evictor      *)

\* Bug variant: the user fix checks only the in-doubt flag.
UserFixHit_no_recovery_access(p) ==
    /\ phase \in {"redo", "done"} /\ userHold = NoPage
    /\ lookup_in_doubt(p) = {}
    /\ \E f \in Resident(p) :
        /\ userHold' = p
        /\ userLsn' = pageLsn[f]
    /\ UNCHANGED <<phase, pid, inDoubt, recAccess, dirty, loaded, pageLsn,
                   recLsn, lastLsn, inDoubtCount, freelist, diskLsn,
                   chkpt, master, scanFrom, emlsn, crashes>>

\* A user fix of a resident page: refused while the page is in doubt or
\* being replayed (the access conflict of concurrent restart).
UserFixHit(p) ==
    /\ phase \in {"redo", "done"} /\ userHold = NoPage
    /\ lookup_in_doubt(p) = {}
    /\ \E f \in Resident(p) :
        /\ ~recAccess[f]
        /\ userHold' = p
        /\ userLsn' = pageLsn[f]
    /\ UNCHANGED <<phase, pid, inDoubt, recAccess, dirty, loaded, pageLsn,
                   recLsn, lastLsn, inDoubtCount, freelist, diskLsn,
                   chkpt, master, scanFrom, emlsn, crashes>>

\* A user fix of a page not in the pool reads it from disk into a free
\* frame through its parent, and _check_read_page brings an image older
\* than the EMLSN up to it by Single-Page Recovery (installed not dirty).
UserFixMiss(p) ==
    /\ phase \in {"redo", "done"} /\ userHold = NoPage /\ Resident(p) = {}
    /\ p \notin Deallocated
    /\ \E f \in freelist :
        /\ freelist' = freelist \ {f}
        /\ pid' = [pid EXCEPT ![f] = p]
        /\ loaded' = [loaded EXCEPT ![f] = TRUE]
        /\ pageLsn' = [pageLsn EXCEPT ![f] = check_read_page(p)]
        /\ userHold' = p
        /\ userLsn' = check_read_page(p)
    /\ UNCHANGED <<phase, inDoubt, recAccess, dirty, recLsn, lastLsn,
                   inDoubtCount, diskLsn,
                   chkpt, master, scanFrom, emlsn, crashes>>

UserUnfix ==
    /\ userHold /= NoPage
    /\ userHold' = NoPage
    /\ userLsn' = 0
    /\ UNCHANGED <<phase, pid, inDoubt, recAccess, dirty, loaded, pageLsn,
                   recLsn, lastLsn, inDoubtCount, freelist, diskLsn,
                   chkpt, master, scanFrom, emlsn, crashes>>

\* The cleaner writes a loaded dirty page that recovery is not replaying.
CleanerWrite(f) ==
    /\ dirty[f] /\ loaded[f] /\ ~inDoubt[f] /\ ~recAccess[f]
    /\ diskLsn' = [diskLsn EXCEPT ![pid[f]] = pageLsn[f]]
    /\ dirty' = [dirty EXCEPT ![f] = FALSE]
    /\ UNCHANGED <<phase, pid, inDoubt, recAccess, loaded, pageLsn, recLsn,
                   lastLsn, inDoubtCount, freelist, userHold, userLsn,
                   chkpt, master, scanFrom, emlsn, crashes>>

\* Bug variant: the evictor takes in-doubt frames.
EvictFrame_in_doubt(f) ==
    /\ pid[f] /= NoPage /\ ~recAccess[f] /\ userHold /= pid[f]
    /\ emlsn' = [emlsn EXCEPT ![pid[f]] = pageLsn[f]]
    /\ FreeFrame(f)
    /\ UNCHANGED <<phase, inDoubt, recAccess, pageLsn, recLsn, lastLsn,
                   inDoubtCount, diskLsn, userHold, userLsn,
                   chkpt, master, scanFrom, crashes>>

\* Bug variant: the parent's EMLSN slot is not updated.
EvictFrame_no_emlsn(f) ==
    /\ pid[f] /= NoPage /\ ~inDoubt[f] /\ ~recAccess[f] /\ userHold /= pid[f]
    /\ FreeFrame(f)
    /\ UNCHANGED <<phase, inDoubt, recAccess, pageLsn, recLsn, lastLsn,
                   inDoubtCount, diskLsn, userHold, userLsn,
                   chkpt, master, scanFrom, emlsn, crashes>>

\* Eviction rule 1: the frame is used, not in doubt, not accessed by
\* recovery, and its pin count is zero (nobody holds it); dirty or not.
\* The parent's EMLSN slot for the page gets the page LSN, then the
\* control block is wiped and the frame freed.
EvictFrame(f) ==
    /\ pid[f] /= NoPage /\ ~inDoubt[f] /\ ~recAccess[f] /\ userHold /= pid[f]
    /\ emlsn' = [emlsn EXCEPT ![pid[f]] = pageLsn[f]]
    /\ FreeFrame(f)
    /\ UNCHANGED <<phase, inDoubt, recAccess, pageLsn, recLsn, lastLsn,
                   inDoubtCount, diskLsn, userHold, userLsn,
                   chkpt, master, scanFrom, crashes>>

-----------------------------------------------------------------------------
(* A checkpoint taken after log analysis, while REDO and users run        *)

ChkptBegin ==
    /\ phase \in {"redo", "done"} /\ ~chkpt.on
    /\ chkpt' = [NoChkpt EXCEPT !.on = TRUE]
    /\ UNCHANGED <<phase, pid, inDoubt, recAccess, dirty, loaded, pageLsn,
                   recLsn, lastLsn, inDoubtCount, freelist, diskLsn, userHold,
                   userLsn, master, scanFrom, emlsn, crashes>>

\* get_rec_lsn over one frame: a dirty frame contributes its _rec_lsn to
\* min_rec_lsn; an in-doubt frame, whose page is not loaded, contributes
\* the master LSN passed in ("'master' and 'current_lsn' are used only for
\* 'in_doubt' pages which are not loaded").
ChkptScan(f) ==
    LET rec == IF inDoubt[f] THEN master ELSE recLsn[f] IN
    /\ chkpt.on /\ f \notin chkpt.scanned
    /\ chkpt' = [chkpt EXCEPT
                    !.scanned = @ \cup {f},
                    !.minRec = IF (dirty[f] \/ inDoubt[f]) /\ rec < @
                               THEN rec ELSE @]
    /\ UNCHANGED <<phase, pid, inDoubt, recAccess, dirty, loaded, pageLsn,
                   recLsn, lastLsn, inDoubtCount, freelist, diskLsn, userHold,
                   userLsn, master, scanFrom, emlsn, crashes>>

\* Every frame scanned: the redo LSN is the least rec_lsn found, or the
\* end of the log when no frame needs redo.
ChkptEnd ==
    /\ chkpt.on /\ chkpt.scanned = Frames
    /\ master' = chkpt.minRec
    /\ chkpt' = NoChkpt
    /\ UNCHANGED <<phase, pid, inDoubt, recAccess, dirty, loaded, pageLsn,
                   recLsn, lastLsn, inDoubtCount, freelist, diskLsn, userHold,
                   userLsn, scanFrom, emlsn, crashes>>

-----------------------------------------------------------------------------
(* A crash and the next restart                                            *)

\* The buffer pool, the restart thread's progress, the user and a
\* checkpoint under way are lost; the disk images, the master record and
\* the EMLSNs survive (a parent's EMLSN update is a logged page update,
\* recovered with the parent before the child is reached through it), and the next restart's log analysis starts at the master
\* record's redo LSN.
Crash ==
    /\ crashes < MaxCrash
    /\ crashes' = crashes + 1
    /\ scanFrom' = master
    /\ phase' = "analysis"
    /\ pid' = [f \in Frames |-> NoPage]
    /\ inDoubt' = [f \in Frames |-> FALSE]
    /\ recAccess' = [f \in Frames |-> FALSE]
    /\ dirty' = [f \in Frames |-> FALSE]
    /\ loaded' = [f \in Frames |-> FALSE]
    /\ pageLsn' = [f \in Frames |-> 0]
    /\ recLsn' = [f \in Frames |-> 0]
    /\ lastLsn' = [f \in Frames |-> 0]
    /\ inDoubtCount' = 0
    /\ freelist' = Frames
    /\ userHold' = NoPage
    /\ userLsn' = 0
    /\ chkpt' = NoChkpt
    /\ UNCHANGED <<diskLsn, master, emlsn>>

Next ==
    \/ Crash
    \/ ChkptBegin \/ ChkptEnd
    \/ \E p \in Pages : register_and_mark(p) \/ RegisterOutOfFrames(p)
    \/ \E p \in Pages : UserFixHit(p) \/ UserFixMiss(p)
    \/ AnalysisDone \/ RedoDone \/ UserUnfix
    \/ \E f \in Frames :
        \/ load_for_redo(f) \/ RedoRecord(f) \/ clear_recovery_access(f)
        \/ clear_in_doubt(f) \/ CleanerWrite(f) \/ EvictFrame(f)
        \/ ChkptScan(f)

\* The restart thread runs to completion; the cleaner is woken
\* periodically.  The user and the evictor are not fair.
Fairness ==
    /\ WF_vars(AnalysisDone) /\ WF_vars(RedoDone)
    /\ \A p \in Pages : WF_vars(register_and_mark(p))
    /\ \A p \in Pages : WF_vars(RegisterOutOfFrames(p))
    /\ \A f \in Frames :
        /\ WF_vars(load_for_redo(f)) /\ WF_vars(RedoRecord(f))
        /\ WF_vars(clear_recovery_access(f)) /\ WF_vars(clear_in_doubt(f))
        /\ WF_vars(CleanerWrite(f))

Spec == Init /\ [][Next]_vars /\ Fairness

-----------------------------------------------------------------------------
(* Properties                                                              *)

TypeOK ==
    /\ phase \in {"analysis", "redo", "done", "failed"}
    /\ pid \in [Frames -> Pages \cup {NoPage}]
    /\ inDoubt \in [Frames -> BOOLEAN] /\ recAccess \in [Frames -> BOOLEAN]
    /\ dirty \in [Frames -> BOOLEAN] /\ loaded \in [Frames -> BOOLEAN]
    /\ pageLsn \in [Frames -> Nat] /\ recLsn \in [Frames -> Nat]
    /\ lastLsn \in [Frames -> Nat] /\ inDoubtCount \in Nat
    /\ freelist \subseteq Frames /\ diskLsn \in [Pages -> Nat]
    /\ userHold \in Pages \cup {NoPage} /\ userLsn \in Nat
    /\ chkpt \in [on : BOOLEAN, scanned : SUBSET Frames, minRec : 1..EndLsn]
    /\ master \in 1..EndLsn /\ scanFrom \in 1..EndLsn
    /\ emlsn \in [Pages -> 0..EndLsn]
    /\ crashes \in 0..MaxCrash

\* Frames and the in-doubt counter: a frame is free exactly when its
\* control block is unused, a page has at most one frame, an in-doubt
\* frame is used and holds no image, and the counter that ends REDO
\* counts exactly the in-doubt frames.
FrameAccounting ==
    /\ freelist = {f \in Frames : pid[f] = NoPage}
    /\ \A p \in Pages : Cardinality(Resident(p)) <= 1
    /\ \A f \in Frames : inDoubt[f] => pid[f] /= NoPage /\ ~loaded[f]
    /\ inDoubtCount = Cardinality({f \in Frames : inDoubt[f]})

\* The version of p a reader would get: the frame's image if p is
\* resident with an image, else the disk image as _check_read_page
\* leaves it.
CurrentLsn(p) ==
    IF \E f \in Resident(p) : loaded[f]
    THEN pageLsn[CHOOSE f \in Resident(p) : loaded[f]]
    ELSE check_read_page(p)

\* REDO loses no update, whatever the cleaner and the evictor do
\* meanwhile and after a crash in the middle of it: a page with records
\* in the log that is still live is either still owned by recovery (in
\* doubt or being replayed) or its current version holds its last logged
\* update, although the restart after the crash scanned the log only from
\* the checkpoint's redo LSN.
NoLostUpdate ==
    phase \in {"redo", "done"} =>
        \A p \in LogPages \ Deallocated :
            \/ \E f \in Resident(p) : inDoubt[f] \/ recAccess[f]
            \/ CurrentLsn(p) >= Latest(p)

\* A user transaction running during REDO never reads an image that
\* lacks an update in the log (the conflict concurrent restart raises).
UserSeesRedone ==
    userHold /= NoPage => userLsn >= Latest(userHold)

\* What survives a crash is enough to recover every update, in every
\* state: a live page whose disk image lacks its last logged update is
\* either found by the next restart's log analysis (the checkpoint's redo
\* LSN, from get_rec_lsn's scan, is no later than that update) or rebuilt
\* by Single-Page Recovery on its next read (its parent's EMLSN holds the
\* update).  get_rec_lsn sees only frames: a dirty page evicted during the
\* scan is covered by the EMLSN eviction wrote, an in-doubt frame (not
\* dirty) by the master LSN it reports.
DurableStateCoversLog ==
    \A p \in LogPages \ Deallocated :
        diskLsn[p] < Latest(p) => master <= Latest(p) \/ emlsn[p] >= Latest(p)

\* Log analysis fails for want of frames only when the pages this
\* restart's log analysis finds outnumber the frames: the crash left every
\* frame free and each page took exactly one.  A page registered twice, or
\* a frame not given back, fails restarts that fit in the pool.
OutOfFramesOnlyWhenPoolTooSmall ==
    phase = "failed" => Cardinality(Logged) > Cardinality(Frames)

\* The restart after the last crash finishes and the system stays up:
\* REDO reaches its end however the user, cleaner and evictor interleave
\* with it, or log analysis fails with the error of register_and_mark;
\* no restart waits forever.
RecoveryCompletes == <>[](phase \in {"done", "failed"})

=============================================================================
