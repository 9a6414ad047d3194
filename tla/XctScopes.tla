------------------------------ MODULE XctScopes ------------------------------
(***************************************************************************)
(* The scoped helpers of xct.h on one thread: xct_log_switch_t,            *)
(* no_lock_section_t, auto_rollback_t, the X_DO error path with its        *)
(* anchor, auto_release_anchor_t, xct_auto_abort_t and                     *)
(* update_read_watermark, and the xct_i iterator.  Scopes are C++ objects on the thread's stack:   *)
(* constructed in order, destroyed in reverse order, so the open scopes    *)
(* are a stack.  xct() is the transaction attached to the thread; it can   *)
(* change between a scope's constructor and its destructor when the code   *)
(* in the scope begins, commits, attaches or detaches a transaction.       *)
(* A log record is one LSN step; a rollback to a savepoint or anchor sets  *)
(* the transaction's last LSN back to it (the compensation records are     *)
(* left out).                                                              *)
(***************************************************************************)
EXTENDS Naturals, Sequences

CONSTANTS
    Xcts,           \* transaction objects
    NoXct,          \* xct() == NULL
    MaxLsn,         \* bound on the log records of one transaction
    MaxDepth,       \* bound on nested scopes
    SwitchInScope   \* may xct() change while a scope is open?

ASSUME MaxLsn \in Nat /\ MaxDepth \in Nat \ {0} /\ SwitchInScope \in BOOLEAN

\* smlevel_0::concurrency_t, the values the helpers use.
CCs == {"t_cc_keyrange", "t_cc_none"}

\* xct_t::state_t, the states xct_auto_abort_t's destructor tells apart.
States == {"xct_unborn", "xct_active", "xct_committing", "xct_ended"}

VARIABLES
    cur,        \* xct(): the transaction attached to this thread
    logOff,     \* me()->xct_log()->_xct_log_off
    cc,         \* xct_t::_query_concurrency
    lsn,        \* xct_t::_last_lsn
    xstate,     \* xct_t::state()
    watermark,  \* xct_t::_read_watermark
    scopes,     \* the helper objects alive on the stack, innermost last
    xlistMine   \* this thread holds the transaction-list mutex

vars == <<cur, logOff, cc, lsn, xstate, watermark, scopes, xlistMine>>

\* A scope record: its kind, the xct it saw, what it saved, its _roll flag
\* and, as history, the state it found (entry) for the properties.
Scope(kind, xd, saved, roll, entry) ==
    [kind |-> kind, xd |-> xd, saved |-> saved, roll |-> roll, entry |-> entry]

Init ==
    /\ cur = NoXct
    /\ logOff = FALSE
    /\ cc = [x \in Xcts |-> "t_cc_keyrange"]
    /\ lsn = [x \in Xcts |-> 0]
    /\ xstate = [x \in Xcts |-> "xct_unborn"]
    /\ watermark = [x \in Xcts |-> 0]
    /\ scopes = <<>>
    /\ xlistMine = FALSE

Top == scopes[Len(scopes)]
Push(s) == /\ Len(scopes) < MaxDepth
           /\ scopes' = Append(scopes, s)
Pop == /\ scopes /= <<>>
       /\ scopes' = SubSeq(scopes, 1, Len(scopes) - 1)

\* xct_t::last_lsn() and xct_t::set_last_lsn(l).
last_lsn(x) == lsn[x]
set_last_lsn(x, l) == lsn' = [lsn EXCEPT ![x] = l]

\* xct_t::rollback(save_pt) undoes the records after save_pt, if any.
RolledBack(x, pt) == [lsn EXCEPT ![x] = IF @ > pt THEN pt ELSE @]

\* The open compensated operations of x (positions on the stack).
Anchors(x) == {i \in 1..Len(scopes) : scopes[i].kind = "anchor"
                                     /\ scopes[i].xd = x}

\* The code in a scope may switch the attached transaction only when the
\* configuration lets it.
MaySwitch == SwitchInScope \/ scopes = <<>>

-----------------------------------------------------------------------------
(* The transaction around the helpers (xct.cpp, smthread.cpp)              *)

\* begin_xct: a new transaction, attached to the thread.
BeginXct(x) ==
    /\ MaySwitch /\ cur = NoXct /\ xstate[x] = "xct_unborn"
    /\ cur' = x
    /\ xstate' = [xstate EXCEPT ![x] = "xct_active"]
    /\ UNCHANGED <<xlistMine, logOff, cc, lsn, watermark, scopes>>

\* smthread_t::detach_xct / attach_xct.
DetachXct ==
    /\ MaySwitch /\ cur /= NoXct
    /\ cur' = NoXct
    /\ UNCHANGED <<xlistMine, logOff, cc, lsn, xstate, watermark, scopes>>

AttachXct(x) ==
    /\ MaySwitch /\ cur = NoXct /\ xstate[x] = "xct_active"
    /\ cur' = x
    /\ UNCHANGED <<xlistMine, logOff, cc, lsn, xstate, watermark, scopes>>

\* An update logs one record unless the thread's log is off.
LogUpdate ==
    /\ cur /= NoXct /\ xstate[cur] = "xct_active"
    /\ ~logOff /\ lsn[cur] < MaxLsn
    /\ set_last_lsn(cur, last_lsn(cur) + 1)
    /\ UNCHANGED <<xlistMine, cur, logOff, cc, xstate, watermark, scopes>>

\* Bug variant: the watermark is advanced by the tag instead of raised to it.
update_read_watermark_add(tag) ==
    /\ cur /= NoXct
    /\ watermark' = [watermark EXCEPT ![cur] = @ + tag]
    /\ UNCHANGED <<xlistMine, cur, logOff, cc, lsn, xstate, scopes>>

\* xct_t::update_read_watermark(tag): keep the larger.
update_read_watermark(tag) ==
    /\ cur /= NoXct
    /\ watermark' = [watermark EXCEPT ![cur] =
                       IF watermark[cur] < tag THEN tag ELSE @]
    /\ UNCHANGED <<xlistMine, cur, logOff, cc, lsn, xstate, scopes>>

-----------------------------------------------------------------------------
(* xct_log_switch_t and no_lock_section_t                                  *)

\* Bug variant: old_state keeps the new state s rather than the returned one.
LogSwitchEnter_save_new(s) ==
    /\ Push(Scope("log_switch", cur, IF cur /= NoXct THEN s ELSE TRUE,
                  FALSE, logOff))
    /\ logOff' = IF cur /= NoXct THEN s ELSE logOff
    /\ UNCHANGED <<xlistMine, cur, cc, lsn, xstate, watermark>>

\* old_state(OFF); if xct(): old_state = set_log_state(s).
LogSwitchEnter(s) ==
    /\ Push(Scope("log_switch", cur,
                  IF cur /= NoXct THEN logOff ELSE TRUE, FALSE, logOff))
    /\ logOff' = IF cur /= NoXct THEN s ELSE logOff
    /\ UNCHANGED <<xlistMine, cur, cc, lsn, xstate, watermark>>

\* if xct(): restore_log_state(old_state).
LogSwitchLeave ==
    /\ scopes /= <<>> /\ Top.kind = "log_switch"
    /\ logOff' = IF cur /= NoXct THEN Top.saved ELSE logOff
    /\ Pop
    /\ UNCHANGED <<xlistMine, cur, cc, lsn, xstate, watermark>>

\* org_cc = x->get_query_concurrency(), set t_cc_none; t_cc_none if no xct.
NoLockEnter ==
    /\ Push(Scope("no_lock", cur,
                  IF cur /= NoXct THEN cc[cur] ELSE "t_cc_none", FALSE,
                  IF cur /= NoXct THEN cc[cur] ELSE "t_cc_none"))
    /\ cc' = IF cur /= NoXct THEN [cc EXCEPT ![cur] = "t_cc_none"] ELSE cc
    /\ UNCHANGED <<xlistMine, cur, logOff, lsn, xstate, watermark>>

\* if xct(): x->set_query_concurrency(org_cc).
NoLockLeave ==
    /\ scopes /= <<>> /\ Top.kind = "no_lock"
    /\ cc' = IF cur /= NoXct THEN [cc EXCEPT ![cur] = Top.saved] ELSE cc
    /\ Pop
    /\ UNCHANGED <<xlistMine, cur, logOff, lsn, xstate, watermark>>

\* ss_m::commit_xct outside the helpers: the transaction ends and is
\* detached from the thread.
CommitXct ==
    /\ MaySwitch /\ cur /= NoXct /\ xstate[cur] = "xct_active"
    /\ xstate' = [xstate EXCEPT ![cur] = "xct_ended"]
    /\ cur' = NoXct
    /\ UNCHANGED <<xlistMine, logOff, cc, lsn, watermark, scopes>>

-----------------------------------------------------------------------------
(* auto_rollback_t                                                         *)

\* _xd(xct()), _roll(true); if (_xd) _xd->save_point(_save_pt).
AutoRollbackEnter ==
    /\ Push(Scope("auto_rollback", cur,
                  IF cur /= NoXct THEN last_lsn(cur) ELSE 0, TRUE, 0))
    /\ UNCHANGED <<xlistMine, cur, logOff, cc, lsn, xstate, watermark>>

\* work.ok(): the named object keeps what was done.
AutoRollbackOk ==
    \E i \in 1..Len(scopes) :
        /\ scopes[i].kind = "auto_rollback" /\ scopes[i].roll
        /\ scopes' = [scopes EXCEPT ![i].roll = FALSE]
        /\ UNCHANGED <<xlistMine, cur, logOff, cc, lsn, xstate, watermark>>

\* ~auto_rollback_t: if (_roll && _xd) _xd->rollback(_save_pt).
AutoRollbackLeave ==
    /\ scopes /= <<>> /\ Top.kind = "auto_rollback"
    /\ lsn' = IF Top.roll /\ Top.xd /= NoXct
              THEN RolledBack(Top.xd, Top.saved) ELSE lsn
    /\ Pop
    /\ UNCHANGED <<xlistMine, cur, logOff, cc, xstate, watermark>>

-----------------------------------------------------------------------------
(* Compensated operations: anchor, X_DO, release_anchor                    *)

\* lsn_t anchor = xct()->anchor(): _anchor, which is the last LSN when the
\* outermost compensated operation began (a nested one gets the same).
AnchorEnter ==
    /\ cur /= NoXct /\ xstate[cur] = "xct_active"
    /\ Push(Scope("anchor", cur,
                  IF Anchors(cur) = {} THEN last_lsn(cur)
                  ELSE scopes[CHOOSE i \in Anchors(cur) :
                                  \A j \in Anchors(cur) : i <= j].saved,
                  FALSE, 0))
    /\ UNCHANGED <<xlistMine, cur, logOff, cc, lsn, xstate, watermark>>

\* Bug variant: the error path rolls back to a default-constructed anchor.
XDoFail_to_null ==
    /\ scopes /= <<>> /\ Top.kind = "anchor"
    /\ cur /= NoXct
    /\ lsn' = [lsn EXCEPT ![cur] = 0]
    /\ Pop
    /\ UNCHANGED <<xlistMine, cur, logOff, cc, xstate, watermark>>

\* X_DO(x, anchor) with x failing: xct()->rollback(anchor),
\* xct()->release_anchor(true), return the error.  It acts on xct() now,
\* not on the transaction that took the anchor.
XDoFail ==
    /\ scopes /= <<>> /\ Top.kind = "anchor"
    /\ cur /= NoXct                                 \* w_assert3(xct())
    /\ lsn' = RolledBack(cur, Top.saved)
    /\ Pop
    /\ UNCHANGED <<xlistMine, cur, logOff, cc, xstate, watermark>>

\* Every X_DO succeeded: release_anchor (by hand or by
\* ~auto_release_anchor_t) ends the compensated operation.
ReleaseAnchor ==
    /\ scopes /= <<>> /\ Top.kind = "anchor"
    /\ Pop
    /\ UNCHANGED <<xlistMine, cur, logOff, cc, lsn, xstate, watermark>>

-----------------------------------------------------------------------------
(* xct_auto_abort_t                                                        *)

\* _xct(xct_t::new_xct()): a new transaction attached to the thread.
AutoAbortEnter(x) ==
    /\ MaySwitch /\ cur = NoXct /\ xstate[x] = "xct_unborn"
    /\ Push(Scope("auto_abort", x, 0, FALSE, 0))
    /\ cur' = x
    /\ xstate' = [xstate EXCEPT ![x] = "xct_active"]
    /\ UNCHANGED <<xlistMine, logOff, cc, lsn, watermark>>

\* commit(): W_DO(_xct->commit()).  A commit that succeeds ends and
\* detaches the transaction; one that fails leaves it xct_committing.
AutoAbortCommit ==
    /\ scopes /= <<>> /\ Top.kind = "auto_abort"
    /\ xstate[Top.xd] = "xct_active" /\ cur = Top.xd
    /\ \/ /\ xstate' = [xstate EXCEPT ![Top.xd] = "xct_ended"]
          /\ cur' = NoXct
       \/ /\ xstate' = [xstate EXCEPT ![Top.xd] = "xct_committing"]
          /\ UNCHANGED cur
    /\ UNCHANGED <<xlistMine, logOff, cc, lsn, watermark, scopes>>

\* Bug variant: the destructor aborts only an xct_active transaction.
AutoAbortLeave_active_only ==
    /\ scopes /= <<>> /\ Top.kind = "auto_abort"
    /\ xstate[Top.xd] \in {"xct_ended", "xct_active", "xct_committing"}
    /\ xstate' = [xstate EXCEPT ![Top.xd] =
                    IF @ = "xct_active" THEN "xct_ended" ELSE @]
    /\ cur' = IF cur = Top.xd THEN NoXct ELSE cur
    /\ Pop
    /\ UNCHANGED <<xlistMine, logOff, cc, lsn, watermark>>

\* ~xct_auto_abort_t: xct_ended: nothing; xct_active or xct_committing:
\* abort, which ends and detaches it; then destroy_xct.
AutoAbortLeave ==
    /\ scopes /= <<>> /\ Top.kind = "auto_abort"
    /\ xstate[Top.xd] \in {"xct_ended", "xct_active", "xct_committing"}
    /\ xstate' = [xstate EXCEPT ![Top.xd] = "xct_ended"]
    /\ cur' = IF cur = Top.xd THEN NoXct ELSE cur
    /\ Pop
    /\ UNCHANGED <<xlistMine, logOff, cc, lsn, watermark>>

-----------------------------------------------------------------------------
(* The transaction-list mutex: xct_i and code that locks the list itself   *)

\* acquire_xlist_mutex ... release_xlist_mutex around a block of code.  The
\* mutex is a queue lock, not recursive: acquiring it again would block.
XlistLockEnter ==
    /\ ~xlistMine
    /\ Push(Scope("xlist_lock", cur, TRUE, FALSE, xlistMine))
    /\ xlistMine' = TRUE
    /\ UNCHANGED <<cur, logOff, cc, lsn, xstate, watermark>>

XlistLockLeave ==
    /\ scopes /= <<>> /\ Top.kind = "xlist_lock"
    /\ xlistMine' = FALSE
    /\ Pop
    /\ UNCHANGED <<cur, logOff, cc, lsn, xstate, watermark>>

\* xct_i(locked_accesses): _locked(init_locked(locked_accesses)) acquires
\* the mutex when asked to (blocking if this thread already holds it);
\* saved is _locked.
XctIterEnter(lockit) ==
    /\ lockit => ~xlistMine
    /\ Push(Scope("xct_i", cur, lockit, FALSE, xlistMine))
    /\ xlistMine' = (xlistMine \/ lockit)
    /\ UNCHANGED <<cur, logOff, cc, lsn, xstate, watermark>>

\* never_mind(): if (_locked && locked_by_me()) { _locked = false;
\* release_xlist_mutex(); }, on the innermost live iterator.
XctIterNeverMind ==
    /\ scopes /= <<>> /\ Top.kind = "xct_i"
    /\ Top.saved /\ xlistMine
    /\ xlistMine' = FALSE
    /\ scopes' = [scopes EXCEPT ![Len(scopes)].saved = FALSE]
    /\ UNCHANGED <<cur, logOff, cc, lsn, xstate, watermark>>

\* Bug variant: the destructor releases the mutex whenever it holds it.
XctIterLeave_release_unlocked ==
    /\ scopes /= <<>> /\ Top.kind = "xct_i"
    /\ xlistMine' = FALSE
    /\ Pop
    /\ UNCHANGED <<cur, logOff, cc, lsn, xstate, watermark>>

\* ~xct_i: if (locked_by_me()) never_mind(): the mutex is released only if
\* this iterator took it and still has it.
XctIterLeave ==
    /\ scopes /= <<>> /\ Top.kind = "xct_i"
    /\ xlistMine' = (xlistMine /\ ~Top.saved)
    /\ Pop
    /\ UNCHANGED <<cur, logOff, cc, lsn, xstate, watermark>>

-----------------------------------------------------------------------------

Next ==
    \/ \E x \in Xcts : BeginXct(x) \/ AttachXct(x) \/ AutoAbortEnter(x)
    \/ DetachXct \/ CommitXct \/ LogUpdate
    \/ \E tag \in 0..MaxLsn : update_read_watermark(tag)
    \/ \E s \in BOOLEAN : LogSwitchEnter(s)
    \/ LogSwitchLeave \/ NoLockEnter \/ NoLockLeave
    \/ AutoRollbackEnter \/ AutoRollbackOk \/ AutoRollbackLeave
    \/ AnchorEnter \/ XDoFail \/ ReleaseAnchor
    \/ AutoAbortCommit \/ AutoAbortLeave
    \/ XlistLockEnter \/ XlistLockLeave \/ XctIterNeverMind \/ XctIterLeave
    \/ \E lockit \in BOOLEAN : XctIterEnter(lockit)

Spec == Init /\ [][Next]_vars

-----------------------------------------------------------------------------
(* Properties                                                              *)

TypeOK ==
    /\ cur \in Xcts \cup {NoXct}
    /\ logOff \in BOOLEAN
    /\ cc \in [Xcts -> CCs]
    /\ lsn \in [Xcts -> 0..MaxLsn]
    /\ xstate \in [Xcts -> States]
    /\ watermark \in [Xcts -> 0..MaxLsn]
    /\ Len(scopes) <= MaxDepth
    /\ xlistMine \in BOOLEAN

\* Leaving an xct_log_switch_t puts the thread's log state back to what it
\* was when the object was constructed, and leaving a no_lock_section_t
\* puts the transaction's query concurrency back: both helpers exist to make
\* their change local to the scope, whatever scopes nest inside.  Likewise
\* an xct_i "must leave [the mutex] in the state it was when we constructed
\* this", and so must code that locks the list itself.
ScopesRestoreState ==
    [][ Len(scopes') < Len(scopes) =>
          /\ Top.kind = "log_switch" => logOff' = Top.entry
          /\ (Top.kind = "no_lock" /\ Top.xd /= NoXct)
                 => cc'[Top.xd] = Top.entry
          /\ Top.kind \in {"xct_i", "xlist_lock"} => xlistMine' = Top.entry ]_vars

\* Every open compensated operation of a transaction carries the anchor of
\* the outermost one, and that anchor lies within the transaction's log:
\* an X_DO failure in a nested operation, auto_rollback_t rollbacks and
\* further updates never leave an outer X_DO an anchor beyond the log, so
\* its rollback undoes exactly the compensated operation.
AnchorsWithinLog ==
    \A x \in Xcts : \A i, j \in Anchors(x) :
        /\ scopes[i].saved = scopes[j].saved
        /\ scopes[i].saved <= lsn[x]

\* A transaction whose commit failed stays in xct_committing only while the
\* xct_auto_abort_t that made it is alive: its destructor aborts it.
CommittingIsOwned ==
    \A x \in Xcts : xstate[x] = "xct_committing" =>
        \E i \in 1..Len(scopes) :
            scopes[i].kind = "auto_abort" /\ scopes[i].xd = x

\* The transaction-list mutex is held exactly while some live scope owns
\* it: a code block that locked the list, or an xct_i that locked it and
\* has not let it go (never_mind).  An iterator built with
\* locked_accesses = false under a locked list must not release it.
XlistMutexOwned ==
    xlistMine <=> \E i \in 1..Len(scopes) :
                     \/ scopes[i].kind = "xlist_lock"
                     \/ scopes[i].kind = "xct_i" /\ scopes[i].saved

=============================================================================
