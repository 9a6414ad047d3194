# TLA+ models of the Zero storage manager core

This directory holds TLA+ models of the core of the Zero storage manager
(`src/src/sm`) and the TLC configurations that check them. `PROJECT.json`
lists the components, the runs, the map from every TLA+ definition to the
source lines it models, the findings and the hazards.

## 1. The system

The sources under `src/` are a small part of the engine: the consolidation
array header, the buffer pool header, the page handle, the store-node page,
the transaction header and two test drivers. Most bodies (`bf_tree.cpp`,
`log_core.cpp`, `log_carray.cpp`, `xct.cpp`) are not here. The models follow
the code that is here: status encodings, inline functions, declared
contracts (`@pre`, the comments on fields and constants) and the page
handle's real bodies. Where a step exists only in a missing body, it is
modelled from `spec.md` and marked `spec_modelled` in the map.

### Components, their state and their operations

| Component | Source | State | Operations |
|---|---|---|---|
| Consolidation array (C-Array) | `log_carray.h` | slots with a 64-bit status word (`count`), `start_pos`/`new_end`/`error`, the active-slot array, the clockhand `_slot_mark`, the insert lock and expose lock (MCS queues) | `join_slot`, `replace_active_slot`, close (SLOT_PENDING), reserve, publish (SLOT_FINISHED - bytes), `wait_for_leader`, leave, `join_expose`, `wait_for_expose`, `grab_delegated_expose` |
| Buffer pool | `bf_tree.h` | control blocks (`used`, `pin_cnt` with -1 for eviction, latch, `pid`, `parent`, `swizzled`), the hash table, the free list (`_freelist`, `FREELIST_HEAD`, `_freelist_lock`), the eviction clockhand and mutex | `fix_root`, `fix_nonroot`, `fix_direct`, `pin_for_refix`/`refix_direct`/`unpin_for_refix`, `unfix`, `upgrade_latch_conditional`, `downgrade_latch`, `swizzle_child`, `evict_blocks`, `_grab_free_block`, `_add_free_block` |
| Page handle | `fixable_page_h.cpp` | the handle's `_pp`, `_mode`, `_Q_ticket` | `fix_nonroot` (Q and SH/EX paths), `fix_root`, `fix_direct`, `refix_direct`, `unfix`, `set_dirty`, `set_to_be_deleted`, `upgrade_latch_conditional` |
| Dirty tracking and WOD | `bf_tree.h` | `dirty`, `rec_lsn`, page LSN, the one outgoing write-order dependency per frame | `set_dirty`, `update_initial_dirty_lsn`, `repair_rec_lsn`, `register_write_order_dependency`, the cleaner's write, `_delete_block` |
| Recovery coordination | `bf_tree.h` | `in_doubt`, `recovery_access`, first/last LSN of in-doubt frames | `register_and_mark`, `load_for_redo`, `in_doubt_to_dirty`, `clear_in_doubt`, `lookup_in_doubt`, `get_rec_lsn` |
| Single-Page Recovery | `bf_tree.h` | the page image, its page LSN, the parent's EMLSN for the child | `_check_read_page`, `_try_recover_page`, `_sx_update_child_emlsn` |
| Store-node cache | `stnode_page.h` | `stnode_t` per store (root, flags, deleting) under `_spin_lock` | `store_operation`, `get_root_pid`, `get_min_unused_store_ID` |
| Transaction helpers | `xct.h` | per-transaction log state, read watermark, savepoints | `xct_log_switch_t`, `auto_rollback_t`, `sys_xct_section_t`, `update_read_watermark` |

How they interact: every page update logs through the C-Array, which gives
the record its LSN; the buffer pool stamps that LSN as the page LSN and the
`rec_lsn` of a newly dirtied frame; eviction writes the evicted child's page
LSN into the parent as its EMLSN; SPR replays a page up to that EMLSN; and
recovery registers in-doubt frames in the same control blocks and free list
that fixes use.

### What makes it hard

- C-Array: lock-free joins by CAS on a status word that packs a thread count
  and a byte count; a slot recycled while a slow thread still holds a pointer
  to it; last-out detection by exact equality; a release delegated to a
  slower predecessor; leaders spinning for a free slot under the insert lock;
  the out-of-log-space path.
- Buffer pool: a fix racing the evictor's CAS of `pin_cnt` from 0 to -1;
  swizzled pointers written under a shared latch; Q-mode optimistic fixes
  whose ticket is never validated (`fixable_page_h.cpp:37`, `:108`);
  `pin_for_refix_holder`'s copy constructor reading its own uninitialized
  `_idx` (`bf_tree.h:871-888`).
- Dirty tracking, WOD and recovery: rec_lsn repair, dependency cycles, the
  in-doubt state machine across a crash.

## 2. Modules

| Module | Models | Status |
|---|---|---|
| `CArray` | the consolidation array: join, lead, close, reserve, publish, copy, leave, release, delegated expose, out-of-space | done |
| `MC_CArray` | model values and constant definitions for the CArray runs; thread symmetry | done |
| `BufferPool` | frames, hash table with parent frames, free list, pins, latches, a page tree walked by latch coupling, the fix paths of `fixable_page_h` (Q included), swizzling and unswizzling, clock-sweep eviction of leaf and inner pages, `pin_for_refix_holder` | done |
| `MC_BufferPool` | the page tree and thread symmetry of the BufferPool runs | done |
| `DirtyWod` | logged updates with `set_dirty` and rec_lsn, `set_to_be_deleted`/`unset_to_be_deleted`, WOD registration with the bounded cycle walk, the cleaner's write and `_delete_block` | done |
| `Recovery` | log analysis (`register_and_mark`), REDO (`load_for_redo`, replay, `clear_recovery_access`, `clear_in_doubt`), a user fix, the cleaner, the evictor and a checkpoint (`get_rec_lsn`) during REDO | done |
| `MC_Recovery` | the crashed log and disk of the Recovery run | done |
| `SPR` | the EMLSN written at eviction, `_check_read_page` and `_try_recover_page`: page replay as RECURSIVE operators, whose result is compared with a reference fold over the log | done |
| `MC_SPR` | the log of the SPR run: inserts into two pages and a split between them | done |
| `LogAbstract` | abstract log: reserve ranges in order, write records, expose a written prefix; `CArray` is checked to implement it through `INSTANCE ... WITH` | done |
| `XctScopes` | the scoped helpers of `xct.h` on one thread: log switch, no-lock section, auto rollback, anchors and `X_DO`, auto abort, read watermark, `xct_i` | done |

### CArray in detail

State. `count[s]` is `CArraySlot::count` with its real encoding: a joiner
adds `THREAD_INCREMENT + size` (`join_carray_status`), the leader stores
`SLOT_PENDING` then `SLOT_FINISHED - combined`, members add their size back.
`active` is `_active_slots`; `start`, `new_end`, `error` are the slot
fields; `insertQueue` and `exposeQueue` are the MCS queues of
`log_core::_insert_lock` and `_expose_lock`; `delegated` holds slots whose
release was handed to a predecessor; `logEnd` is the reservation end and
`exposedEnd` the released end. Per thread: `pc`, `size`, `slot` (the slot
pointer it holds), `idx` (the active index join_slot reported), `offset`
(its position in the group), `combined` (a leader's group size). `records`
is a history of the log ranges records were copied into.

Actions. `Probe` reads an active slot at an unprotected clockhand;
`JoinSlot`/`JoinSlotRetry` are the CAS and its failure; the leader runs
`AcquireInsertLock`, `ReplaceActiveSlot`, `CloseSlot`, `ReserveOk` or
`ReserveOutOfSpace` (both release the insert lock), `PublishSlot`; a follower
runs `WaitForLeader`; every member runs `CopyToBuffer` and `LeaveSlot` or
`LeaveSlotLast`; the last out runs `ReleaseFailedSlot`, or
`WaitForExposeOwn`/`WaitForExposeDelegate`, `ExposeBuffer` and
`GrabDelegatedExpose`, which follows delegated successors.

Encoding. `THREAD_INCREMENT` is `1 << 32` in the code and `2^20` in the
runs: a smaller increment is equivalent as long as the byte field cannot
carry into the thread count, which an ASSUME checks for every run
(`|Threads| * (LogCapacity + 1) < ThreadIncrement`). `THREAD_MASK` keeps its
real value 0xFFFF.

### LogAbstract and the refinement

`LogAbstract` says what the log manager's insert promises (spec 4.6:
amortised reservation that keeps the total order): `reserved` grows by a
`Reserve(n)`; `Write(r)` copies a record into reserved space at or after
`exposed` that no written record overlaps; `Expose(e)` moves the released
end forward over bytes that written records cover. `CArray` defines
`AbsLog == INSTANCE LogAbstract WITH reserved <- logEnd, exposed <-
exposedEnd, written <- records`, and `carray_safety` checks
`ImplementsLogAbstract == AbsLog!Spec` as a PROPERTY. A leader's reserve
is one `Reserve` for its whole group, each member's copy a `Write`, and
each `ExposeBuffer` (own or delegated) an `Expose`; every other C-Array
step leaves the three mapped variables alone and is a stuttering step of
the abstract log. `log_core`, where the abstract operations live, is not
in `src/`, so the module is marked as modelled from the spec.

### BufferPool in detail

State. Frame 1 holds the root, preloaded and swizzled as `_preload_root_page`
leaves it; frames `2..NFrames` are the pool for the pages below it
(`Children`). The tree is the constant `ParentOf` (each page's parent); a
page some page has as parent is inner. Per frame: `used`, `pid` (the page
it holds), `pin` (`pin_cnt`), `swizzled`, `parentHint` (the parent frame
the hash table entry records, spec 3.2), and the latch as
`shHolders`/`exHolder`. `ptr[c]` is page `c`'s pointer in its parent page:
0 for a page id, a frame for a swizzled pointer. `hashtable[c]` is the hash
index, `freelist` the singly linked list from `FREELIST_HEAD` as a
sequence, `hand` `_eviction_current_frame`. Per thread: `hp` and `hc`, its
parent and child handles (mode, frame, and the page asked for), `op` (the
phase of a fix in progress and the pointer or frame it works on),
`holder`/`holderPage` (its `pin_for_refix_holder`).

Actions. `FixRoot`/`UnfixParent` are `fixable_page_h::fix_root` (Q when
`force_Q_fixing > 0` turns SH into Q) and `unfix` of the parent handle
(`ReleaseFrame` is `bf_tree_m::unfix`: latch and pin, none for Q, no pin
for the root, which the volume descriptor keeps). `Descend` is latch
coupling: with an inner child fixed, the caller unfixes the parent and the
child becomes the parent of the next fix. `FixNonroot` is the
caller reading a child pointer from the latched parent and entering
`fix_nonroot`; the Q branch
then ends in `FixNonrootQFail` (pointer not swizzled), `FixNonrootParentQFail`
(SH/EX asked under a Q parent) or `FixNonrootQ` (success, no latch, no pin:
the ticket test is `if (false)`). The SH/EX branch ends in
`FixLatchSwizzled` (latch and pin a swizzled frame), `FixLatchHit` (hash hit,
recheck the page id after latching, pin, swizzle) or `FixLatchHitStale`
(the frame was evicted meanwhile: look again), or, on a miss, `FixGrab`
(pop the free list, EX-latch), `FixOutOfBuffer`, then `FixInstall` (enter
the hash table, pin, swizzle, downgrade) or `FixInstallLost` (another
thread installed the page first: give the frame back, look again).
`FixDirect` is `fix_direct` (`bf_fix_direct`): the caller gives a page
id (never a swizzled pointer, and never Q) with no parent fixed, so the
hash-table path is taken and nothing is swizzled
(`fixable_page_h.cpp:62-75`); it shares the miss, install and stale-hit
steps above, which swizzle only when the fix came through a parent.
Every fix of a handle begins with `unfix()` (`fixable_page_h.cpp:29`,
`:67`): `FixNonroot` and `FixDirect` run `ReleaseChild` first, so a handle
that still holds a page (a cursor moving to the next page) drops its latch
and pin in the same step, and a fix that then fails leaves the handle
empty. `FixLatchBusy` is a conditional fix (`conditional = true`) that
finds the latch taken in a conflicting mode and returns at once without a
latch, pin or swizzle; an unconditional fix waits instead.
`UnfixChild`, `UpgradeLatchConditional`, `PinForRefix`, `RefixDirect` and
`HolderRelease` are the rest of the handle. A fix through a parent
records the parent's frame with the entry (`RecordParent`). A thread does
not fix, with one handle, the page it holds in the other: the latch is not
recursive. The evictor runs `EvictBlock`, `EvictSkip` and `UnswizzleFrame`
at its clockhand. `EvictOK` is the acceptance rule of `evict_blocks`
(`bf_tree.h:592-603`, spec 4.5): the frame unlatched and unpinned, its
recorded parent frame still holding its parent (`ParentValid`) and not
EX-latched, and, for an inner page, no swizzled child
(`has_swizzled_child`). An evicted inner page leaves with its child
pointers as page ids (`_convert_to_disk_page`), so its children's `ptr`
read back unswizzled. `UnswizzleFrame` reverts a pointer under a
conditional EX latch on the frame that holds the parent. `HolderCopy` is the copy
constructor of `pin_for_refix_holder`; it is only in `SpecWithHolderCopy`.

A swizzled pointer holds one pin of its frame (`_delete_block`'s contract,
`bf_tree.h:750`, says pin 0 means not swizzled), so eviction, which needs
pin 0, first needs the frame unswizzled. Latches and the free-list spin
lock are taken inside one action each.

### XctScopes in detail

The helpers are C++ objects on a thread's stack, so the model keeps the
live ones as a stack `scopes`: each record holds the kind, the `xct()` the
constructor saw (`_xd`, `_xct`), what it saved (`old_state`, `org_cc`,
`_save_pt`, the anchor) and `_roll`. The rest of the state is `cur`
(`xct()`), `logOff` (the thread's `xct_log_t::_xct_log_off`), and per
transaction `cc` (`_query_concurrency`), `lsn` (`_last_lsn`), `xstate` and
`watermark`. Every helper is a pair of actions, constructor and destructor
(`LogSwitchEnter`/`LogSwitchLeave`, `NoLockEnter`/`NoLockLeave`,
`AutoRollbackEnter`/`AutoRollbackOk`/`AutoRollbackLeave`,
`AnchorEnter`/`XDoFail`/`ReleaseAnchor`,
`AutoAbortEnter`/`AutoAbortCommit`/`AutoAbortLeave`), translated from their
bodies in `xct.h`; `BeginXct`, `CommitXct`, `AttachXct`, `DetachXct` and
`LogUpdate` stand for the callers and `xct.cpp`. A nested `anchor()`
returns the outermost compensated operation's anchor (`_anchor`,
`xct.h:842`); a rollback undoes the records after its target and nothing
else. `SwitchInScope` says whether the attached transaction may change
while a helper is alive.

The transaction-list iterator `xct_i` is a scope of the same kind.
`xlistMine` says whether this thread holds the transaction-list mutex.
`XlistLockEnter`/`XlistLockLeave` stand for a caller that takes the mutex
itself (`acquire_xlist_mutex`, `xct.h:486`). `XctIterEnter(lockit)` is
the constructor with `init_locked` (`xct.h:1054-1076`): it takes the mutex
only when asked to and records whether it did (`_locked`).
`XctIterNeverMind` is `never_mind` (`xct.h:1039`), and `XctIterLeave` is
the destructor. The model does not enable `XctIterEnter(TRUE)` while the
thread already holds the mutex: the header asks such callers to pass
`false`, because the mutex is not recursive.

### DirtyWod in detail

The frames of DirtyWod are resident pages that keep their page (frame
reuse is BufferPool's subject). Per page the state is the control block's
`_dirty`, `_rec_lsn`, `_used`, `_dependency_idx` and `_dependency_lsn`,
the page's `t_to_be_deleted` flag and page LSN, and the disk image's page
LSN and flag. The log is a counter `tail`. Two history variables are kept
only for the properties: `updates` (the LSNs of each page's logged
updates) and `owed[p][q]` (the highest page LSN of `q` a registration
of `p` on `q` recorded).

- `Update` is an EX-latched logged update; `LoggedUpdate` is the part
  shared with `set_to_be_deleted`: the record's LSN becomes the page LSN,
  then `set_dirty`, which sets `_rec_lsn` only on the first dirtying.
- `set_to_be_deleted` and `unset_to_be_deleted` follow
  `fixable_page_h.cpp:138-157`: the set logs, flips and dirties when the
  flag is clear; the unset only flips it, with no `set_dirty`.
- `register_write_order_dependency` is taken only if the page has no live
  dependency (`ActiveDep`, from `_check_dependency_still_active`: the
  dependency's frame is used and its disk image is older than the LSN
  recorded) and `ChainReaches`, the recursive walk of
  `_check_dependency_cycle`, does not come back to the page within
  `MaxWalk` steps. A walk that runs out of steps rejects (spec 9 allows
  rejecting what cannot be cheaply proven acyclic). A rejected call
  changes nothing.
- `CleanerWrite` writes a dirty, not to-be-deleted page with no live
  dependency; `CleanerDelete` is `_delete_block` of a dirty to-be-deleted
  page. The cleaner lives in `bf_tree_cleaner.cpp` (absent), so both are
  modelled from spec 4.3 and 4.5.

`NoDependencyCycle` uses `TransitiveClosure` of the community module
`Relation` as the reference against which the bounded walk is checked.

### Recovery in detail

Recovery has its own frames, free list and hash table (`pid`, `freelist`,
`Resident`): it is about what restart does to control blocks, and the
latch, pin and swizzle detail of BufferPool would only multiply states.
The log and the disk at the crash are constants: `Recs[p]` is the set of
LSNs of page `p`'s records and `Disk0[p]` the page LSN of its disk image.
`emlsn[p]` is the EMLSN the parent holds for `p`; at the crash it is
none or the page's last update (`EmlsnsAtCrash`: the page was evicted
after it). The master record at the crash holds any redo LSN a completed
checkpoint could have left given those EMLSNs (`MasterLsns`: none, or one
no later than the last update of a page whose disk image lacks it and
whose EMLSN does not hold it). `phase` is the restart thread's position (analysis, REDO,
done, or failed).

- `register_and_mark(p)`: a logged page not yet registered takes a free
  frame without eviction; its control block is used and in doubt, holds
  the first and last LSN, and `inDoubtCount` goes up.
  `RegisterOutOfFrames(p)` is its error: with the free list empty
  ("return error if the freelist is empty", `bf_tree.h:614`) log analysis
  fails and with it the restart.
- `load_for_redo(f)` stands for `set_recovery_access`, `load_for_redo`
  and `in_doubt_to_dirty` as spec 4.8 orders them: the image is read, the
  frame leaves doubt and is dirty, and it stays marked as accessed by
  recovery. `RedoRecord(f)` replays the next record the image lacks, one
  per step, along the page's log chain (`NextRec`) up to the last LSN log
  analysis found: `_check_read_page` and `_try_recover_page` take that LSN
  as `page_emlsn` (`bf_tree.h:649-675`), so a page is recovered from its
  own chain and not only from the records after the scan's start; `clear_recovery_access(f)` releases the frame once its image
  holds the last record.
- `clear_in_doubt(f)` drops a page the log shows as freed
  (`still_used = false`): the control block is wiped and the frame freed.
- `RedoDone` ends REDO when the in-doubt counter is zero and no frame is
  being replayed.
- During REDO and after it, `UserFixHit`/`UserFixMiss`/`UserUnfix` are a
  user transaction's fix (refused on an in-doubt or recovery-accessed
  page, the conflict of `test_concurrent_restart.cpp`'s
  `restart_concurrent_conflict`), `CleanerWrite` writes dirty pages that
  are not being replayed, and `EvictFrame` frees frames under eviction
  rule 1 (used, not in doubt, not recovery-accessed) with pin count zero,
  dirty or not: neither `bf_tree.h:590-608` nor spec 4.5 asks for a clean
  page. Eviction writes the page LSN into the parent's EMLSN slot.
  `UserFixMiss` reads the disk image through the parent, and
  `check_read_page` rebuilds an image older than the EMLSN up to it (SPR,
  whose replay `SPR` models in detail).

- A checkpoint runs during REDO: `ChkptBegin` starts it after analysis,
  `ChkptScan(f)` is `get_rec_lsn` over one frame at a time (a dirty frame,
  or an in-doubt frame not yet loaded, gives its `_rec_lsn`, which
  `register_and_mark` set to the first LSN of the page), and `ChkptEnd`
  stores the least value found as the redo LSN of the master record. The
  frames are scanned one by one while REDO, users, cleaner and evictor
  move, as the real scan does without a global latch. An in-doubt frame
  reports `master` rather than its `_rec_lsn`: `bf_tree.h:555` says
  `master` and `current_lsn` are used only for in-doubt pages that are not
  loaded yet.
- `Crash` is a second crash at any point of restart, at most `MaxCrash`
  times: the buffer pool is lost (every frame is freed, the user's fix and
  an unfinished checkpoint vanish), the disk images, the master record
  and the EMLSNs stay (a parent's EMLSN update is a logged page update,
  recovered with the parent before the child is read through it), and
  restart begins again with analysis. `scanFrom` is where the
  log scan starts: the redo LSN of the last completed checkpoint. Analysis
  finds only the pages with records from there (`ScanRecs`). A dirty page
  evicted before the checkpoint scans its frame is seen by no scan, so the
  redo LSN can pass its updates; the EMLSN written at eviction is then
  what recovers them.

The restart code (`restart.cpp`) and the bodies of these `bf_tree_m`
methods are not in `src/`: the actions follow the declarations' contracts
in `bf_tree.h` and spec 4.5 and 4.8, and the log-analysis and REDO
drivers are marked as modelled from the spec.

### SPR in detail

The children of one parent page, updated through a fixed log `Log` of
"ins" records (add a key to a page) and "split" records (move keys from
`src` to `dest`). `tail` is how much of the log has been applied; per
page, `cached`, `image` (page LSN and keys), `dirty`, the `disk` image
with a `corrupt` flag, and `emlsn`, the EMLSN the parent holds for it.

- `Apply` is the btree operation that logs record `tail + 1` on pages it
  has fixed: the record's pages change and become dirty.
- `Evict(p)` is eviction with `_try_evict_block_update_emlsn`: the
  parent's slot for the child gets the child's page LSN through
  `sx_update_child_emlsn`, then the frame is freed. It does not ask for a
  clean page: the acceptance rules of `evict_blocks` do not.
- `FixMiss(p)` reads the disk image and runs `check_read_page`: if the
  checksum fails or the page LSN is older than the EMLSN, it runs
  `try_recover_page`, which starts from the backup (the virgin page) when
  the image is corrupt and replays the page's records up to the EMLSN.
- `Redo` and `RedoRecord` are RECURSIVE: a split record into a page needs
  the source page as it was just before the split, so the source is
  recovered to that point first (multi-page REDO).
- `CleanerWrite(p)` writes a dirty page; `Corrupt(p)` is a media failure
  that breaks a disk image's checksum, at most `MaxCorrupt` times.

`NoLostUpdate` compares with `RefState(n)`: the record step folded over the
first `n` records with `FoldLeft` of `SequencesExt`. The bodies of
`_check_read_page` and `_try_recover_page` are in `bf_tree.cpp` (absent);
the actions follow the declarations and comments of `bf_tree.h` and
spec 4.7.

## 3. Runs

| Run | Config | Bounds | Checks |
|---|---|---|---|
| `carray_safety` | `MC_CArray.cfg` | 2 threads, 1 active slot, 3 slots, sizes {1,2}, log of 4 bytes, thread symmetry | `TypeOK`, `StatusAccounting`, `RecordsDisjoint`, `ExposedIsWritten`, `ExposeContiguous`, `ImplementsLogAbstract` |
| `carray_live` | `MC_CArray_live.cfg` | 2 threads, 1 active slot, 3 slots, size {1}, log of 3 bytes, no symmetry | `GroupCompletes`, `ExposeCatchesUp` |
| `carray_mask` | `MC_CArray_mask.cfg` | 3 threads, size {24576}, log of 147456 bytes | `RecordsDisjoint` (expected violated) |
| `carray_aba` | `MC_CArray_aba.cfg` | 2 threads, 2 active slots, 3 slots | `ReplaceTargetsOwnSlot` (expected violated) |
| `xct_scopes` | `MC_XctScopes.cfg` | 2 transactions, 2 log records each, 3 nested helpers, no switch inside a scope | `TypeOK`, `ScopesRestoreState`, `AnchorsWithinLog`, `CommittingIsOwned`, `XlistMutexOwned` |
| `xct_scope_switch` | `MC_XctScopes_switch.cfg` | as `xct_scopes`, with switches inside scopes | `ScopesRestoreState` (expected violated) |
| `bp_safety` | `MC_BufferPool.cfg` | 2 threads, root, inner page `i`, leaf `a` below `i`, 2 child frames, swizzling on, thread symmetry | `TypeOK`, `FrameAccounting`, `SwizzleConsistent`, `PinAccounting`, `FixedPageIdentity` |
| `bp_qfix` | `MC_BufferPool_q.cfg` | as `bp_safety` | `QFixReturnsRequestedPage` (expected violated) |
| `bp_holder_copy` | `MC_BufferPool_copy.cfg` | as `bp_safety`, with `SpecWithHolderCopy` | `PinAccounting` (expected violated) |
| `rc_safety` | `MC_Recovery.cfg` | 2 frames, 3 pages: one flushed after its first of two records, one never flushed and later freed, one flushed before the others were updated; a master record with no checkpoint or one after the first flush; one user, two crashes during restart | `TypeOK`, `FrameAccounting`, `NoLostUpdate`, `UserSeesRedone`, `DurableStateCoversLog`, `OutOfFramesOnlyWhenPoolTooSmall`, `RecoveryCompletes` |
| `spr_safety` | `MC_SPR.cfg` | 3 pages, 4 keys, 7 records (inserts on every page, a split from `a` to `b` and one from `b` to `c`), 1 corruption | `TypeOK`, `NoLostUpdate` |
| `dw_safety` | `MC_DirtyWod.cfg` | 3 pages, 3 log records, cycle walk of 1 step, no symmetry | `TypeOK`, `DirtyRecLsn`, `CleanMatchesDisk`, `NoDependencyCycle`, `WodRespected`, `EventuallyClean` |

Why the bounds are enough. Two threads give two-member groups (leader and
follower), two groups in flight at once (one copying while the next
reserves), delegation of a release to a slower predecessor, and a thread
that read a slot pointer before the slot was retired. Three slots with one
active let a second group form while the first is still unreleased, so the
expose queue holds two slots. A log of 4 bytes with sizes {1, 2} is filled
after a few groups, so the out-of-space path and the cycle of failing
groups after it are reached. The liveness run uses one size to keep the
state graph small enough for the temporal check; it still reaches
delegation (the mutant that drops delegated releases is caught there).

For the buffer pool, two threads and two pages give two fixes racing on
one miss (one install wins, the other frame goes back), a fix racing the
evictor between lookup and latch, and a refix pin held across an unfix.
Two child frames for two pages let every page be resident at once and
also let a frame be reused for the other page after eviction, which is
what makes a stale frame dangerous. Three levels (root, inner page, leaf)
are the least in which an inner page is both a child (evicted under its
parent's latch) and a parent (holding a swizzled pointer), and in which a
child outlives its parent in the pool, so the recorded parent frame goes
stale. A second leaf (under the root) multiplies the states by four
(8.6 million, six minutes) without a new interaction.

For the helpers, three nested scopes give every pair of helpers nested
either way and an anchor nested in an anchor with a savepoint between;
two records per transaction let a rollback undo something and an outer
anchor lie below an inner savepoint; two transactions let a helper see
one transaction and be destroyed under another.

For dirty tracking, three pages and three records allow a cycle of three
dependencies (each needs a dirty target), which a walk of one step cannot
prove acyclic, so the bound of the walk is what decides; they also allow a
page to be dirtied twice before a write (for rec_lsn), a dependency on a
page that is then deleted, and a second registration over a live one.
For recovery, the three pages are the three cases REDO distinguishes: a
page whose disk image has some of its records (REDO starts in the middle,
and there is a moment when the frame is out of doubt but not yet
replayed), a page that is freed later in the log (`clear_in_doubt`), and a
page that the log names only before a checkpoint (a miss that reads from
disk during REDO). Two frames are one fewer than the pages: a restart
whose scan starts at the beginning of the log names all three and runs
out of frames, one that starts at a checkpoint names two and fits, and
during REDO the user fills the frame `clear_in_doubt` frees, after the
evictor freed another. Two crashes let a restart that took a checkpoint
in REDO be followed by one that scans from it and takes another.

For SPR, a split is what needs multi-page REDO, and two chained splits
(`a` to `b`, then `b` to `c`) make it recurse: recovering `c` needs `b`
as it was before the second split, whose own chain starts with the first
split and needs `a` before it. Inserts before and after each split make
the source page's image at the split differ from both its first and last
images, so recovering a source to the wrong point shows, and a REDO that
recovered a source from its own inserts only would miss the key the
first split brought into `b`. Eviction at any point of the log, the
cleaner writing or not before it, and one corruption give every start
point `try_recover_page` can have: a current image, a stale one, and the
backup.

`dw_safety` sets `CHECK_DEADLOCK FALSE`: once the log bound is reached
and every page is deleted nothing is enabled, which is the end of the
bounded log, not a deadlock of the code.

### Fairness

Each thread is weakly fair on every step after it has started an insert
(`WF_vars(Step(t))`): threads are preemptive OS threads and every wait in
the protocol is a spin that re-reads shared state. Starting an insert is up
to the caller and is not fair. Weak fairness is enough because the spins
(`wait_for_leader`, the head of an MCS queue, an UNUSED slot) stay enabled
once enabled: nothing takes a published status, a queue head or a free
slot away from the waiting thread.

`dw_safety` assumes weak fairness of `CleanerWrite(p)` and
`CleanerDelete(p)` for each page: the cleaner is woken periodically
(`wakeup_cleaners`) and visits every dirty frame. Nothing else is fair.

`rc_safety` assumes weak fairness of the restart thread's steps and of
the cleaner; the user, the evictor, the checkpoint and the crash are not
fair (a user may hold a page forever, and a crash need not happen).
Because crashes are bounded, restart still has a last run to complete.
The error of `register_and_mark` is a step of the restart thread and is
fair like the others. A failed restart stops the system, so `rc_safety`
does not check deadlock; `RecoveryCompletes` still rules out a restart
that stops anywhere else. It is `<>[]`: a crash may follow a finished
restart, so only the phase after the last crash settles.

`spr_safety`, `bp_safety`, `xct_scopes` and `carray_safety` check only
invariants and assume no fairness.

### Results

- `carray_safety` passes (2,358,463 distinct states, about a minute),
  refinement of `LogAbstract` included; `carray_live` passes.
- `carray_mask` finds a code bug: `extract_carray_log_size` masks with
  `0xFFFF` although the status keeps bytes in its low 32 bits. Three
  24 KiB records in one group make the leader reserve 8 KiB; the next
  group's first record lands inside the first group's records, and the
  status of the first slot never reaches SLOT_FINISHED.
- `carray_aba` shows that the precondition of `replace_active_slot`
  (`_active_slots[active_index]` is the leader's slot) is not guaranteed
  when there is more than one active slot: the index join_slot reports is
  read before the CAS and the slot can be recycled into another index in
  between. The passing runs use one active slot, where the precondition
  holds.

- `bp_safety` passes (1,910,140 distinct states, 80 seconds). An evictor
  that took an inner page with a swizzled child would leave the child
  swizzled with no pointer to it (`SwizzleConsistent`).
- `bp_qfix`: the Q fix is not validated. A thread Q-fixes the root (no
  latch), reads the swizzled pointer of a child, the evictor unswizzles and
  evicts it, and `fix_nonroot` in Q mode then succeeds on a frame that no
  longer holds the page. Spec 4.1 requires the ticket to detect this and
  the call to fail with `LatchQFail`.
- `bp_holder_copy`: `pin_for_refix_holder`'s copy constructor calls
  `steal_ownership` before `_idx` is set; when the uninitialized value is a
  frame index, that frame loses a pin it never gave, and `PinAccounting`
  fails after a single copy.

- `xct_scopes` passes (722,950 distinct states). `XlistMutexOwned`: the
  transaction-list mutex is held exactly while an open list-lock scope or an
  `xct_i` that locked it (and was not told `never_mind`) is alive.
- `xct_scope_switch`: `xct_log_switch_t` constructed with no transaction
  keeps `old_state = OFF`; if the code in its scope begins a transaction,
  the destructor restores OFF onto it, and that transaction's updates are
  no longer logged. `no_lock_section_t` has the same shape.

- `rc_safety` passes (179,596 distinct states with the checkpoint, dirty
  eviction and two crashes). A restart runs out of frames only when its log names more
  pages than there are frames (`OutOfFramesOnlyWhenPoolTooSmall`); a
  `register_and_mark` that took a frame for a page already registered
  would fail restarts that fit.
  The checkpoint's redo LSN alone does not cover the disk: a page
  replayed, released and evicted dirty before its frame is scanned
  leaves the scan, and the redo LSN passes its last update (TLC shows
  this in 10 steps once the EMLSN is left out of the invariant).
  `DurableStateCoversLog` holds because eviction writes the EMLSN first;
  an eviction that skipped it, or a scan that ignored in-doubt frames,
  leaves an update that neither the next log analysis nor SPR would
  recover.
- `spr_safety` passes (75,599 distinct states, about a minute): every page in a frame, and
  every page fixed from disk after eviction, stale or corrupt images
  included, has the image the log gives it.
- `dw_safety` passes (160,884 distinct states, about a minute with the
  temporal check).

## 4. Not modelled, and why

- Log partitions (`new_base`, `old_end`), LSN formatting and the memcpy
  itself: the properties are about byte ranges; a record is a range.
- The MCS lock implementation: each queue is a FIFO sequence whose head
  holds the lock.
- I/O, checksums, page formats and B-tree record layout: outside the core.
- Buffer pool: `fix_virgin_root` (the root of a new store; the model has
  one store whose root exists at mount), `downgrade_latch` (declared in
  `bf_tree.h`, never called by the handle in `src/`), conditional
  `fix_root` and `refix_direct` that give up (they change nothing, the
  handle being already empty), foster children, adoption
  (`switch_parent`) and splits that change the tree, and the urgency
  modes, batches and rounds of `evict_blocks` (the sweep takes one frame
  per step). The root is never evicted (it is pinned by its volume
  descriptor).
- Dirty tracking: `repair_rec_lsn`, `update_initial_dirty_lsn` and
  `set_initial_rec_lsn` (their bodies are in `bf_tree.cpp`), the unlogged
  `set_to_be_deleted(false)` of redo, a frame reused under a stale
  dependency (`_dependency_shpid`), and `_delete_block`'s latch and pin
  preconditions, which are BufferPool's.
- Recovery: `register_and_mark` on a page that is already resident (the
  model registers each page once with its first and last LSN, as the
  analysis pass has them), `clear_in_doubt` with
  `still_used`, `set_initial_rec_lsn`, and the lock-based access
  validation of the later restart modes. The parent pages that hold the
  EMLSNs are not pages of the model: their EMLSN is taken to survive a
  crash, and the SPR replay is one step (its detail is in `SPR`).
- Transactions: `sys_xct_section_t`, `ssx_defer_section_t` and the
  transaction state machine live in `xct.cpp`, which is not in `src/`;
  `auto_rollback_t::test` is a fault-injection hook for tests.
- SPR: the lazy EMLSN update of a parent that is not latched (the model
  writes it at every eviction), backups taken later than the virgin page,
  and an SPR that fails for lack of a backup.
- Store-node cache (`stnode_page.h`): the header holds only the
  `stnode_t` layout and the `get` accessors. The bodies of `store_operation`,
  `get_root_pid` and `get_min_unused_store_ID` are in `stnode_page.cpp`,
  which is not in `src/`, and the spec leaves store metadata out of its
  scope. Every operation runs whole under the one `_spin_lock`, so a model
  would be a sequence of atomic updates of a table, restating declarations
  with no interleaving to check.
- The test drivers: they drive the engine end to end and have no state of
  their own.
