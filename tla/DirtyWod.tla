------------------------------- MODULE DirtyWod -------------------------------
(***************************************************************************)
(* Dirty tracking, rec_lsn, write-order dependencies (WOD) and the         *)
(* cleaner's write or delete of a page, for a fixed set of resident pages. *)
(* Each action is one latched operation: a logged update with set_dirty,   *)
(* set_to_be_deleted / unset_to_be_deleted (fixable_page_h.cpp),           *)
(* register_write_order_dependency with its bounded cycle walk, and the    *)
(* cleaner, which writes a dirty page whose dependency is no longer        *)
(* active or deletes it (_delete_block) if it is marked to be deleted.     *)
(* The log is a counter of LSNs; a page image is its page LSN.             *)
(***************************************************************************)
EXTENDS Naturals, FiniteSets

LOCAL R == INSTANCE Relation

CONSTANTS
    Pages,      \* resident pages (frames that keep their page)
    NoPage,     \* _dependency_idx == 0
    MaxLsn,     \* bound on the log
    MaxWalk     \* steps _check_dependency_cycle follows before giving up

ASSUME MaxLsn \in Nat /\ MaxWalk \in Nat \ {0} /\ NoPage \notin Pages

VARIABLES
    tail,       \* the last LSN the log handed out
    pageLsn,    \* page LSN of the image in the frame
    diskLsn,    \* page LSN of the image on disk
    dirty,      \* bf_tree_cb_t::_dirty
    recLsn,     \* bf_tree_cb_t::_rec_lsn (0: none)
    dep,        \* bf_tree_cb_t::_dependency_idx
    depLsn,     \* bf_tree_cb_t::_dependency_lsn
    tbd,        \* the page's t_to_be_deleted flag in the frame
    diskTbd,    \* the t_to_be_deleted flag of the image on disk
    used,       \* bf_tree_cb_t::_used
    updates,    \* history: the LSNs of the updates of each page
    owed        \* history: owed[p][q], the highest page LSN of q that a
                \* registration of p on q required on disk first

vars == <<tail, pageLsn, diskLsn, dirty, recLsn, dep, depLsn, tbd, diskTbd,
          used, updates, owed>>

Init ==
    /\ tail = 0
    /\ pageLsn = [p \in Pages |-> 0]
    /\ diskLsn = [p \in Pages |-> 0]
    /\ dirty = [p \in Pages |-> FALSE]
    /\ recLsn = [p \in Pages |-> 0]
    /\ dep = [p \in Pages |-> NoPage]
    /\ depLsn = [p \in Pages |-> 0]
    /\ tbd = [p \in Pages |-> FALSE]
    /\ diskTbd = [p \in Pages |-> FALSE]
    /\ used = [p \in Pages |-> TRUE]
    /\ updates = [p \in Pages |-> {}]
    /\ owed = [p \in Pages |-> [q \in Pages |-> 0]]

-----------------------------------------------------------------------------
(* Helpers                                                                 *)

\* Bug variant: a dependency on a page that left the pool stays active.
ActiveDep_ignore_used(p) ==
    /\ dep[p] /= NoPage
    /\ diskLsn[dep[p]] < depLsn[p]

\* _check_dependency_still_active: the dependency's frame still holds a
\* live page and its disk image has not yet reached the LSN recorded.
ActiveDep(p) ==
    /\ dep[p] /= NoPage
    /\ used[dep[p]]
    /\ diskLsn[dep[p]] < depLsn[p]

\* Bug variant: a walk that runs out of steps accepts the registration.
RECURSIVE ChainReaches_accept_long(_, _, _)
ChainReaches_accept_long(source, p, n) ==
    IF p = source THEN TRUE
    ELSE IF ~ActiveDep(p) THEN FALSE
    ELSE IF n = 0 THEN FALSE
    ELSE ChainReaches_accept_long(source, dep[p], n - 1)

\* _check_dependency_cycle(source, start): follow the single outgoing live
\* dependency from start; TRUE when it reaches source, or when the chain is
\* longer than the walk allows (a registration that cannot be cheaply
\* proven acyclic is rejected).
RECURSIVE ChainReaches(_, _, _)
ChainReaches(source, p, n) ==
    IF p = source THEN TRUE
    ELSE IF ~ActiveDep(p) THEN FALSE
    ELSE IF n = 0 THEN TRUE
    ELSE ChainReaches(source, dep[p], n - 1)

\* Bug variant: set_dirty moves rec_lsn on every dirtying.
LoggedUpdate_overwrite_rec_lsn(p, l) ==
    /\ pageLsn' = [pageLsn EXCEPT ![p] = l]
    /\ updates' = [updates EXCEPT ![p] = @ \cup {l}]
    /\ dirty' = [dirty EXCEPT ![p] = TRUE]
    /\ recLsn' = [recLsn EXCEPT ![p] = l]

\* A logged update of p at LSN l, then set_dirty: the first dirtying sets
\* rec_lsn, later ones keep it.
LoggedUpdate(p, l) ==
    /\ pageLsn' = [pageLsn EXCEPT ![p] = l]
    /\ updates' = [updates EXCEPT ![p] = @ \cup {l}]
    /\ dirty' = [dirty EXCEPT ![p] = TRUE]
    /\ recLsn' = [recLsn EXCEPT ![p] = IF dirty[p] THEN @ ELSE l]

-----------------------------------------------------------------------------
(* Operations                                                              *)

\* Bug variant: the page is stamped with the LSN before its record's.
Update_stale_lsn(p) ==
    /\ used[p] /\ tail < MaxLsn
    /\ tail' = tail + 1
    /\ LoggedUpdate(p, tail)
    /\ UNCHANGED <<diskLsn, dep, depLsn, tbd, diskTbd, used, owed>>

\* An EX-latched update: a log record, the page LSN, set_dirty.
Update(p) ==
    /\ used[p] /\ tail < MaxLsn
    /\ tail' = tail + 1
    /\ LoggedUpdate(p, tail + 1)
    /\ UNCHANGED <<diskLsn, dep, depLsn, tbd, diskTbd, used, owed>>

\* set_to_be_deleted(true): if the flag is clear, log it, flip it, set_dirty.
set_to_be_deleted(p) ==
    /\ used[p] /\ ~tbd[p] /\ tail < MaxLsn
    /\ tail' = tail + 1
    /\ LoggedUpdate(p, tail + 1)
    /\ tbd' = [tbd EXCEPT ![p] = TRUE]
    /\ UNCHANGED <<diskLsn, dep, depLsn, diskTbd, used, owed>>

\* unset_to_be_deleted: if the flag is set, flip it; no set_dirty ("it's
\* always dirty if this is ever called").
unset_to_be_deleted(p) ==
    /\ used[p] /\ tbd[p]
    /\ tbd' = [tbd EXCEPT ![p] = FALSE]
    /\ UNCHANGED <<tail, pageLsn, diskLsn, dirty, recLsn, dep, depLsn, diskTbd,
                   used, updates, owed>>

\* Bug variant: a new registration overwrites a live dependency.
register_write_order_dependency_overwrite(p, q) ==
    /\ p /= q /\ used[p] /\ used[q]
    /\ ~ChainReaches(p, q, MaxWalk)
    /\ dep' = [dep EXCEPT ![p] = q]
    /\ depLsn' = [depLsn EXCEPT ![p] = pageLsn[q]]
    /\ owed' = [owed EXCEPT ![p][q] = IF @ < pageLsn[q] THEN pageLsn[q] ELSE @]
    /\ UNCHANGED <<tail, pageLsn, diskLsn, dirty, recLsn, tbd, diskTbd, used,
                   updates>>

\* register_write_order_dependency(page, dependency), both latched: taken
\* when page has no live dependency and the walk from dependency does not
\* come back to page.  A rejection changes nothing and is not a step.
register_write_order_dependency(p, q) ==
    /\ p /= q /\ used[p] /\ used[q]
    /\ ~ActiveDep(p)
    /\ ~ChainReaches(p, q, MaxWalk)
    /\ dep' = [dep EXCEPT ![p] = q]
    /\ depLsn' = [depLsn EXCEPT ![p] = pageLsn[q]]
    /\ owed' = [owed EXCEPT ![p][q] = IF @ < pageLsn[q] THEN pageLsn[q] ELSE @]
    /\ UNCHANGED <<tail, pageLsn, diskLsn, dirty, recLsn, tbd, diskTbd, used,
                   updates>>

\* Bug variant: the cleaner writes a page marked to be deleted.
CleanerWrite_tbd(p) ==
    /\ used[p] /\ dirty[p] /\ ~ActiveDep(p)
    /\ diskLsn' = [diskLsn EXCEPT ![p] = pageLsn[p]]
    /\ dirty' = [dirty EXCEPT ![p] = FALSE]
    /\ recLsn' = [recLsn EXCEPT ![p] = 0]
    /\ diskTbd' = [diskTbd EXCEPT ![p] = tbd[p]]
    /\ dep' = [dep EXCEPT ![p] = NoPage]
    /\ UNCHANGED <<tail, pageLsn, depLsn, tbd, used, updates, owed>>

\* The cleaner writes a dirty page whose dependency is not active; the
\* image goes to disk and the frame is clean.
CleanerWrite(p) ==
    /\ used[p] /\ dirty[p] /\ ~tbd[p] /\ ~ActiveDep(p)
    /\ diskLsn' = [diskLsn EXCEPT ![p] = pageLsn[p]]
    /\ dirty' = [dirty EXCEPT ![p] = FALSE]
    /\ recLsn' = [recLsn EXCEPT ![p] = 0]
    /\ diskTbd' = [diskTbd EXCEPT ![p] = tbd[p]]
    /\ dep' = [dep EXCEPT ![p] = NoPage]
    /\ UNCHANGED <<tail, pageLsn, depLsn, tbd, used, updates, owed>>

\* _delete_block: a dirty page marked to be deleted leaves the pool
\* unwritten (used and dirty cleared, back to the free list).
CleanerDelete(p) ==
    /\ used[p] /\ dirty[p] /\ tbd[p] /\ ~ActiveDep(p)
    /\ used' = [used EXCEPT ![p] = FALSE]
    /\ dirty' = [dirty EXCEPT ![p] = FALSE]
    /\ recLsn' = [recLsn EXCEPT ![p] = 0]
    /\ dep' = [dep EXCEPT ![p] = NoPage]
    /\ UNCHANGED <<tail, pageLsn, diskLsn, depLsn, tbd, diskTbd, updates, owed>>

Next ==
    \E p \in Pages :
        \/ Update(p) \/ set_to_be_deleted(p) \/ unset_to_be_deleted(p)
        \/ \E q \in Pages : register_write_order_dependency(p, q)
        \/ CleanerWrite(p) \/ CleanerDelete(p)

\* The cleaner is woken periodically and considers every dirty page.
Fairness == \A p \in Pages : WF_vars(CleanerWrite(p)) /\ WF_vars(CleanerDelete(p))

Spec == Init /\ [][Next]_vars /\ Fairness

-----------------------------------------------------------------------------
(* Properties                                                              *)

TypeOK ==
    /\ tail \in 0..MaxLsn
    /\ pageLsn \in [Pages -> 0..MaxLsn] /\ diskLsn \in [Pages -> 0..MaxLsn]
    /\ recLsn \in [Pages -> 0..MaxLsn] /\ depLsn \in [Pages -> 0..MaxLsn]
    /\ dirty \in [Pages -> BOOLEAN] /\ tbd \in [Pages -> BOOLEAN]
    /\ diskTbd \in [Pages -> BOOLEAN] /\ used \in [Pages -> BOOLEAN]
    /\ dep \in [Pages -> Pages \cup {NoPage}]
    /\ updates \in [Pages -> SUBSET (1..MaxLsn)]
    /\ owed \in [Pages -> [Pages -> 0..MaxLsn]]

\* set_dirty keeps the rec_lsn of the first dirtying and the cleaner
\* clears it on write: every logged update of a live page that its disk
\* image lacks is covered by a dirty frame whose rec_lsn is no later than
\* that update (so redo from rec_lsn replays it), and rec_lsn <= page_lsn.
DirtyRecLsn ==
    \A p \in Pages : used[p] =>
        /\ \A u \in updates[p] :
               u > diskLsn[p] => dirty[p] /\ 0 < recLsn[p] /\ recLsn[p] <= u
        /\ dirty[p] => 0 < recLsn[p] /\ recLsn[p] <= pageLsn[p]

\* unset_to_be_deleted does not call set_dirty because "it's always dirty
\* if this is ever called": a clean live frame equals its disk image, its
\* to-be-deleted flag included.
CleanMatchesDisk ==
    \A p \in Pages : used[p] /\ ~dirty[p] =>
        diskLsn[p] = pageLsn[p] /\ diskTbd[p] = tbd[p]

\* The live dependency edges, as a relation on pages.
LiveEdge == [x, y \in Pages |-> dep[x] = y /\ ActiveDep(x)]

\* register_write_order_dependency rejects cycles with its bounded walk:
\* the live dependencies never form a cycle.
NoDependencyCycle == R!IsIrreflexive(R!TransitiveClosure(LiveEdge, Pages), Pages)

\* The cleaner never writes a page before every page it was made to
\* depend on (and that is still in the pool) has reached, on disk, the
\* page LSN it had at registration; overwriting or dropping a live
\* dependency breaks this.
WodRespected ==
    [][\A p \in Pages :
         diskLsn'[p] /= diskLsn[p] =>
             \A q \in Pages : ~used[q] \/ diskLsn[q] >= owed[p][q]]_vars

\* Dependency chains end and the cleaner is woken: every dirty live page
\* is eventually written or deleted.
EventuallyClean ==
    \A p \in Pages : (used[p] /\ dirty[p]) ~> (~used[p] \/ ~dirty[p])

=============================================================================
