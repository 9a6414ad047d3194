----------------------------- MODULE BufferPool -----------------------------
(***************************************************************************)
(* The buffer pool of src/src/sm/bf_tree.h and the page handle of          *)
(* src/src/sm/fixable_page_h.cpp.                                          *)
(*                                                                         *)
(* One B-tree: a root page, pre-loaded in RootFrame at volume mount, and  *)
(* the pages below it (ParentOf gives each page's parent).  Threads fix    *)
(* the root, then a child through its latched parent, and descend (latch   *)
(* coupling), in SH, EX or Q mode; a child fix hits a swizzled pointer,    *)
(* hits the hash table, or misses and loads the page into a frame taken    *)
(* from the free list.  A latched child can be pinned for a later          *)
(* refix_direct through a pin_for_refix_holder.  The eviction thread       *)
(* sweeps the frames with a clockhand, evicting an unlatched, unpinned     *)
(* page with no swizzled child whose recorded parent frame still holds     *)
(* its parent and can be latched, and unswizzles a page under an EX latch  *)
(* on its parent.                                                          *)
(*                                                                         *)
(* A swizzled pointer holds a pin on its child (so pin_cnt 0 implies "not  *)
(* swizzled", bf_tree.h:750).                                              *)
(***************************************************************************)
EXTENDS Integers, Sequences, FiniteSets, Functions

CONSTANTS
    Threads,        \* worker threads holding page handles
    Children,       \* page ids of the pages below the root
    RootPage,       \* page id of the root
    ParentOf,       \* the parent page of each page below the root
    NFrames,        \* _block_cnt - 1: frames 1..NFrames (0 means NULL)
    Swizzling,      \* _enable_swizzling
    ForceQ,         \* force_Q_fixing: >0 turns SH root fixes into Q, >1 child fixes too
    NoPage,         \* _pid_shpid of a frame that holds no page
    NoThread        \* no EX holder

Frames == 1..NFrames
\* install_volume pre-loads the root in the first frame it takes.
RootFrame == 1
ChildFrames == Frames \ {RootFrame}
Modes == {"NL", "SH", "EX", "Q"}

ASSUME NFrames >= 2 /\ ForceQ \in 0..2 /\ Swizzling \in BOOLEAN
ASSUME /\ ParentOf \in [Children -> Children \cup {RootPage}]
       /\ \A c \in Children : ParentOf[c] /= c

\* A page some other page has as parent: an inner page of the B-tree.
IsInner(p) == \E c \in Children : ParentOf[c] = p

\* is_swizzled_pointer: the pointer in the parent holds a frame index.
is_swizzled_pointer(p) == p /= 0

VARIABLES
    used,         \* bf_tree_cb_t::_used
    pid,          \* bf_tree_cb_t::_pid_shpid
    pin,          \* bf_tree_cb_t::_pin_cnt
    swizzled,     \* bf_tree_cb_t::_swizzled
    shHolders,    \* latch: threads holding it in SH
    exHolder,     \* latch: thread holding it in EX
    ptr,          \* each page's pointer in its parent: 0 (page id) or a frame
    hashtable,    \* _hashtable: page id -> frame (0 = absent)
    freelist,     \* _freelist from FREELIST_HEAD, as a sequence
    hand,         \* _eviction_current_frame
    parentHint,   \* the parent frame index recorded for a frame (a hint)
    hp,           \* each thread's parent handle: [mode, frame, page]
    hc,           \* each thread's child handle: [mode, frame, page]
    op,           \* a child fix in progress: [phase, page, mode, frame]
    holder,       \* each thread's pin_for_refix_holder: _idx
    holderPage    \* the page its pin was taken on (history)

vars == <<used, pid, pin, swizzled, shHolders, exHolder, ptr, hashtable,
          freelist, hand, parentHint, hp, hc, op, holder, holderPage>>

frameVars == <<used, pid, pin, swizzled, ptr, hashtable, freelist,
               parentHint>>

NoHandle == [mode |-> "NL", frame |-> 0, page |-> NoPage]
NoOp == [phase |-> "idle", page |-> NoPage, mode |-> "NL", frame |-> 0,
         parent |-> TRUE]

Init ==
    /\ used = [f \in Frames |-> f = RootFrame]
    /\ pid = [f \in Frames |-> IF f = RootFrame THEN RootPage ELSE NoPage]
    /\ pin = [f \in Frames |-> IF f = RootFrame THEN 1 ELSE 0]
    /\ swizzled = [f \in Frames |-> f = RootFrame]
    /\ shHolders = [f \in Frames |-> {}]
    /\ exHolder = [f \in Frames |-> NoThread]
    /\ ptr = [c \in Children |-> 0]
    /\ hashtable = [p \in Children |-> 0]
    /\ freelist = [i \in 1..NFrames - 1 |-> i + 1]
    /\ hand = 2
    /\ parentHint = [f \in Frames |-> 0]
    /\ hp = [t \in Threads |-> NoHandle]
    /\ hc = [t \in Threads |-> NoHandle]
    /\ op = [t \in Threads |-> NoOp]
    /\ holder = [t \in Threads |-> 0]
    /\ holderPage = [t \in Threads |-> NoPage]

-----------------------------------------------------------------------------
(* Latches                                                                 *)

CanLatch(f, m) ==
    /\ exHolder[f] = NoThread
    /\ m = "EX" => shHolders[f] = {}

Latch(t, f, m) ==
    IF m = "SH"
    THEN /\ shHolders' = [shHolders EXCEPT ![f] = @ \cup {t}]
         /\ UNCHANGED exHolder
    ELSE /\ exHolder' = [exHolder EXCEPT ![f] = t]
         /\ UNCHANGED shHolders

Unlatch(t, f) ==
    /\ shHolders' = [shHolders EXCEPT ![f] = @ \ {t}]
    /\ exHolder' = [exHolder EXCEPT ![f] = IF @ = t THEN NoThread ELSE @]

\* Nobody holds the latch: a conditional EX acquire succeeds.
Unlatched(f) == exHolder[f] = NoThread /\ shHolders[f] = {}

\* The frame holding page p, 0 if none: the root is in RootFrame for good.
FrameOf(p) == IF p = RootPage THEN RootFrame ELSE hashtable[p]

\* has_swizzled_child: a slot of the page in frame f holds a frame index.
has_swizzled_child(f) ==
    \E c \in Children : ParentOf[c] = pid[f] /\ is_swizzled_pointer(ptr[c])

\* bf_tree_m::unfix on what handle h holds: latch and pin, except for a Q
\* handle (neither) and the root, whose pin the volume descriptor owns.
ReleaseFrame(t, h) ==
    IF h.mode \in {"SH", "EX"}
    THEN /\ Unlatch(t, h.frame)
         /\ pin' = IF h.frame = RootFrame THEN pin
                   ELSE [pin EXCEPT ![h.frame] = @ - 1]
    ELSE UNCHANGED <<pin, shHolders, exHolder>>

\* The pointer swizzling that ends a successful fix through the parent
\* (par): the parent's pointer is CASed from the page id to the frame, and
\* the swizzled pointer takes a pin.  fix_direct has no parent to swizzle.
SwizzlePin(par, c) == IF Swizzling /\ par /\ ptr[c] = 0 THEN 1 ELSE 0

SwizzleChild(par, c, f) ==
    IF Swizzling /\ par /\ ptr[c] = 0
    THEN /\ ptr' = [ptr EXCEPT ![c] = f]
         /\ swizzled' = [swizzled EXCEPT ![f] = TRUE]
    ELSE UNCHANGED <<ptr, swizzled>>

\* Where a non-Q fix_nonroot goes after reading the parent's pointer and
\* the hash table (bf_tree_m::fix_nonroot, _fix_nonswizzled); fix_direct
\* (par FALSE) is given the page id and goes to the hash table.
Route(c, m, par) ==
    IF par /\ is_swizzled_pointer(ptr[c])
    THEN [phase |-> "latch_swz", page |-> c, mode |-> m, frame |-> ptr[c],
          parent |-> par]
    ELSE IF hashtable[c] /= 0
         THEN [phase |-> "latch_hit", page |-> c, mode |-> m,
               frame |-> hashtable[c], parent |-> par]
         ELSE [phase |-> "grab", page |-> c, mode |-> m, frame |-> 0,
               parent |-> par]

\* A fix through a parent records the parent's frame with the child's hash
\* table entry (spec 3.2: the entry is a frame and a parent frame).
RecordParent(t, f) ==
    IF op[t].parent
    THEN parentHint' = [parentHint EXCEPT ![f] = hp[t].frame]
    ELSE UNCHANGED parentHint

-----------------------------------------------------------------------------
(* The parent handle: fixable_page_h::fix_root, unfix, and the descent    *)

FixRoot(t) ==
    /\ hp[t].mode = "NL" /\ hc[t].mode = "NL" /\ op[t].phase = "idle"
    /\ \E m \in {"SH", "EX", "Q"} :
         LET mode == IF ForceQ > 0 /\ m = "SH" THEN "Q" ELSE m IN
         /\ hp' = [hp EXCEPT ![t] = [mode |-> mode, frame |-> RootFrame,
                                     page |-> RootPage]]
         /\ IF mode = "Q"
            THEN UNCHANGED <<shHolders, exHolder>>    \* fix_with_Q_root
            ELSE CanLatch(RootFrame, mode) /\ Latch(t, RootFrame, mode)
    /\ UNCHANGED <<frameVars, hand, hc, op, holder, holderPage>>

\* The parent handle is an argument of fix_nonroot: it is not unfixed while
\* a fix of a child is under way.
UnfixParent(t) ==
    /\ hp[t].mode /= "NL" /\ op[t].phase = "idle"
    /\ ReleaseFrame(t, hp[t])
    /\ hp' = [hp EXCEPT ![t] = NoHandle]
    /\ UNCHANGED <<used, pid, swizzled, ptr, hashtable, freelist, parentHint,
                   hand, hc, op, holder, holderPage>>

\* Latch coupling one level down: with the child fixed, the caller unfixes
\* the parent and goes on with the child as the parent of the next fix.
Descend(t) ==
    /\ hp[t].mode /= "NL" /\ hc[t].mode /= "NL" /\ op[t].phase = "idle"
    /\ IsInner(hc[t].page)
    /\ ReleaseFrame(t, hp[t])
    /\ hp' = [hp EXCEPT ![t] = hc[t]]
    /\ hc' = [hc EXCEPT ![t] = NoHandle]
    /\ UNCHANGED <<used, pid, swizzled, ptr, hashtable, freelist, parentHint,
                   hand, op, holder, holderPage>>

-----------------------------------------------------------------------------
(* The child handle: fixable_page_h::fix_nonroot                           *)

\* fixable_page_h::unfix, which every fix of the handle calls first: a
\* handle still holding a page (a cursor moving on) lets it go, latch and
\* pin, before the new fix starts; a Q handle holds neither.
ReleaseChild(t) ==
    /\ ReleaseFrame(t, hc[t])
    /\ hc' = [hc EXCEPT ![t] = NoHandle]

\* The caller has read a child pointer from the parent page and calls
\* fix_nonroot with it.  A Q request, or a Q parent, takes the Q path with
\* the pointer as read; otherwise bf_tree_m::fix_nonroot routes on it.
FixNonroot(t) ==
    /\ hp[t].mode /= "NL" /\ op[t].phase = "idle"
    /\ ReleaseChild(t)
    /\ \E c \in Children, m \in {"SH", "EX", "Q"} :
         LET mode == IF ForceQ > 1 /\ m = "SH" THEN "Q" ELSE m IN
         /\ ParentOf[c] = hp[t].page
         /\ op' = [op EXCEPT ![t] =
                      IF mode = "Q" \/ hp[t].mode = "Q"
                      THEN [phase |-> "fix_q", page |-> c, mode |-> mode,
                            frame |-> ptr[c], parent |-> TRUE]
                      ELSE Route(c, mode, TRUE)]
    /\ UNCHANGED <<used, pid, swizzled, ptr, hashtable, freelist, parentHint,
                   hand, hp, holder, holderPage>>

\* Q path with a pointer that is not swizzled: eLATCHQFAIL.
FixNonrootQFail(t) ==
    /\ op[t].phase = "fix_q"
    /\ ~is_swizzled_pointer(op[t].frame)
    /\ op' = [op EXCEPT ![t] = NoOp]
    /\ UNCHANGED <<frameVars, hand, shHolders, exHolder, hp, hc, holder,
                   holderPage>>

\* fix_with_Q_nonroot succeeded but SH/EX was asked under a Q parent:
\* ePARENTLATCHQFAIL, the handle stays empty.
FixNonrootParentQFail(t) ==
    /\ op[t].phase = "fix_q"
    /\ is_swizzled_pointer(op[t].frame)
    /\ op[t].mode /= "Q"
    /\ op' = [op EXCEPT ![t] = NoOp]
    /\ UNCHANGED <<frameVars, hand, shHolders, exHolder, hp, hc, holder,
                   holderPage>>

\* fix_with_Q_nonroot on the swizzled pointer: no latch, no pin.  The
\* ticket test is "if (false)", and change_possible_after_fix() is false.
FixNonrootQ(t) ==
    /\ op[t].phase = "fix_q"
    /\ is_swizzled_pointer(op[t].frame)
    /\ op[t].mode = "Q"
    /\ hc' = [hc EXCEPT ![t] = [mode |-> "Q", frame |-> op[t].frame,
                                page |-> op[t].page]]
    /\ op' = [op EXCEPT ![t] = NoOp]
    /\ UNCHANGED <<frameVars, hand, shHolders, exHolder, hp, holder,
                   holderPage>>

\* fixable_page_h::fix_direct with a page id read elsewhere (not a swizzled
\* pointer, which bf_tree_m::fix_direct rejects): no parent is latched and
\* the hash table is the only way to the frame.  A Q request returns
\* eLATCHQFAIL before anything changes.
bf_fix_direct(c, m) == Route(c, m, FALSE)

\* A thread does not fix again a page it holds in its other handle (the
\* latch is not recursive: in EX it would wait for itself).
FixDirect(t) ==
    /\ op[t].phase = "idle"
    /\ ReleaseChild(t)
    /\ \E c \in Children \ {hp[t].page}, m \in {"SH", "EX"} :
         op' = [op EXCEPT ![t] = bf_fix_direct(c, m)]
    /\ UNCHANGED <<used, pid, swizzled, ptr, hashtable, freelist, parentHint,
                   hand, hp, holder, holderPage>>

\* Bug variant: the swizzled fix latches without taking its pin.
FixLatchSwizzled_no_pin(t) ==
    LET f == op[t].frame IN
    /\ op[t].phase = "latch_swz"
    /\ CanLatch(f, op[t].mode) /\ Latch(t, f, op[t].mode)
    /\ hc' = [hc EXCEPT ![t] = [mode |-> op[t].mode, frame |-> f,
                                page |-> op[t].page]]
    /\ op' = [op EXCEPT ![t] = NoOp]
    /\ UNCHANGED <<used, pid, pin, swizzled, ptr, hashtable, freelist, parentHint, hand,
                   hp, holder, holderPage>>

\* A swizzled pointer is a frame the swizzle pin keeps: latch it and pin.
FixLatchSwizzled(t) ==
    LET f == op[t].frame IN
    /\ op[t].phase = "latch_swz"
    /\ CanLatch(f, op[t].mode) /\ Latch(t, f, op[t].mode)
    /\ pin' = [pin EXCEPT ![f] = @ + 1]
    /\ hc' = [hc EXCEPT ![t] = [mode |-> op[t].mode, frame |-> f,
                                page |-> op[t].page]]
    /\ op' = [op EXCEPT ![t] = NoOp]
    /\ UNCHANGED <<used, pid, swizzled, ptr, hashtable, freelist, parentHint, hand, hp,
                   holder, holderPage>>

\* Bug variant: the hit path trusts the lookup and does not recheck pid.
FixLatchHit_no_recheck(t) ==
    LET f == op[t].frame
        c == op[t].page
    IN /\ op[t].phase = "latch_hit"
       /\ CanLatch(f, op[t].mode) /\ Latch(t, f, op[t].mode)
       /\ pin' = [pin EXCEPT ![f] = @ + 1]
       /\ hc' = [hc EXCEPT ![t] = [mode |-> op[t].mode, frame |-> f, page |-> c]]
       /\ op' = [op EXCEPT ![t] = NoOp]
       /\ UNCHANGED <<used, pid, swizzled, ptr, hashtable, freelist, parentHint, hand, hp,
                      holder, holderPage>>

\* A conditional fix (conditional = true) whose latch is held in a
\* conflicting mode returns at once with an error: no latch, no pin, no
\* swizzle, and the handle stays empty (its unfix already ran).
FixLatchBusy(t) ==
    /\ op[t].phase \in {"latch_swz", "latch_hit"}
    /\ ~CanLatch(op[t].frame, op[t].mode)
    /\ op' = [op EXCEPT ![t] = NoOp]
    /\ UNCHANGED <<frameVars, hand, shHolders, exHolder, hp, hc, holder,
                   holderPage>>

\* Hash table hit: latch the frame, find it still holds the page, pin it
\* and swizzle the parent's pointer.
FixLatchHit(t) ==
    LET f == op[t].frame
        c == op[t].page
    IN /\ op[t].phase = "latch_hit"
       /\ CanLatch(f, op[t].mode) /\ Latch(t, f, op[t].mode)
       /\ pid[f] = c
       /\ pin' = [pin EXCEPT ![f] = @ + 1 + SwizzlePin(op[t].parent, c)]
       /\ SwizzleChild(op[t].parent, c, f)
       /\ RecordParent(t, f)
       /\ hc' = [hc EXCEPT ![t] = [mode |-> op[t].mode, frame |-> f, page |-> c]]
       /\ op' = [op EXCEPT ![t] = NoOp]
       /\ UNCHANGED <<used, pid, hashtable, freelist, hand, hp, holder,
                      holderPage>>

\* The frame was evicted (and maybe reused) between the lookup and the
\* latch: let it go and look again.
FixLatchHitStale(t) ==
    LET f == op[t].frame IN
    /\ op[t].phase = "latch_hit"
    /\ CanLatch(f, op[t].mode)
    /\ pid[f] /= op[t].page
    /\ op' = [op EXCEPT ![t] = Route(op[t].page, op[t].mode, op[t].parent)]
    /\ UNCHANGED <<frameVars, hand, shHolders, exHolder, hp, hc, holder,
                   holderPage>>

\* Miss: _grab_free_block pops FREELIST_HEAD under _freelist_lock; the new
\* frame is used and EX-latched while the page is read.
FixGrab(t) ==
    LET f == Head(freelist) IN
    /\ op[t].phase = "grab"
    /\ freelist /= <<>>
    /\ freelist' = Tail(freelist)
    /\ used' = [used EXCEPT ![f] = TRUE]
    /\ Latch(t, f, "EX")
    /\ op' = [op EXCEPT ![t].phase = "install", ![t].frame = f]
    /\ UNCHANGED <<pid, pin, swizzled, ptr, hashtable, parentHint, hand, hp, hc, holder,
                   holderPage>>

\* No free frame and nothing evictable in time: eBF_OUTOFBUFFER.
FixOutOfBuffer(t) ==
    /\ op[t].phase = "grab"
    /\ freelist = <<>>
    /\ op' = [op EXCEPT ![t] = NoOp]
    /\ UNCHANGED <<frameVars, hand, shHolders, exHolder, hp, hc, holder,
                   holderPage>>

\* The page is read; the frame enters the hash table with one pin, the
\* latch is downgraded to the mode asked, the parent's pointer swizzled.
FixInstall(t) ==
    LET f == op[t].frame
        c == op[t].page
    IN /\ op[t].phase = "install"
       /\ hashtable[c] = 0
       /\ hashtable' = [hashtable EXCEPT ![c] = f]
       /\ pid' = [pid EXCEPT ![f] = c]
       /\ pin' = [pin EXCEPT ![f] = 1 + SwizzlePin(op[t].parent, c)]
       /\ SwizzleChild(op[t].parent, c, f)
       /\ IF op[t].mode = "SH"
          THEN /\ shHolders' = [shHolders EXCEPT ![f] = {t}]
               /\ exHolder' = [exHolder EXCEPT ![f] = NoThread]
          ELSE UNCHANGED <<shHolders, exHolder>>
       /\ hc' = [hc EXCEPT ![t] = [mode |-> op[t].mode, frame |-> f, page |-> c]]
       /\ RecordParent(t, f)
       /\ op' = [op EXCEPT ![t] = NoOp]
       /\ UNCHANGED <<used, freelist, hand, hp, holder, holderPage>>

\* Bug variant: the losing frame is never given back to the free list.
FixInstallLost_leak(t) ==
    LET f == op[t].frame IN
    /\ op[t].phase = "install"
    /\ hashtable[op[t].page] /= 0
    /\ Unlatch(t, f)
    /\ op' = [op EXCEPT ![t] = Route(op[t].page, op[t].mode, op[t].parent)]
    /\ UNCHANGED <<used, pid, pin, swizzled, ptr, hashtable, freelist, parentHint, hand,
                   hp, hc, holder, holderPage>>

\* Another thread installed the page first: _add_free_block returns the
\* frame to the head of the free list, and the fix looks again.
FixInstallLost(t) ==
    LET f == op[t].frame IN
    /\ op[t].phase = "install"
    /\ hashtable[op[t].page] /= 0
    /\ Unlatch(t, f)
    /\ used' = [used EXCEPT ![f] = FALSE]
    /\ freelist' = <<f>> \o freelist
    /\ op' = [op EXCEPT ![t] = Route(op[t].page, op[t].mode, op[t].parent)]
    /\ UNCHANGED <<pid, pin, swizzled, ptr, hashtable, parentHint, hand, hp, hc, holder,
                   holderPage>>

-----------------------------------------------------------------------------
(* The rest of the handle: unfix, upgrade, pin_for_refix, refix_direct     *)

\* Bug variant: unfix calls bf->unfix for a Q handle too.
UnfixChild_unpin_q(t) ==
    LET f == hc[t].frame IN
    /\ hc[t].mode /= "NL"
    /\ IF hc[t].mode = "Q"
       THEN /\ pin' = [pin EXCEPT ![f] = @ - 1]
            /\ UNCHANGED <<shHolders, exHolder>>
       ELSE /\ Unlatch(t, f)
            /\ pin' = [pin EXCEPT ![f] = @ - 1]
    /\ hc' = [hc EXCEPT ![t] = NoHandle]
    /\ UNCHANGED <<used, pid, swizzled, ptr, hashtable, freelist, parentHint, hand, hp, op,
                   holder, holderPage>>

\* fixable_page_h::unfix: bf->unfix (latch and pin) except in Q mode.
UnfixChild(t) ==
    LET f == hc[t].frame IN
    /\ hc[t].mode /= "NL"
    /\ IF hc[t].mode = "Q"
       THEN UNCHANGED <<pin, shHolders, exHolder>>
       ELSE /\ Unlatch(t, f)
            /\ pin' = [pin EXCEPT ![f] = @ - 1]
    /\ hc' = [hc EXCEPT ![t] = NoHandle]
    /\ UNCHANGED <<used, pid, swizzled, ptr, hashtable, freelist, parentHint, hand, hp, op,
                   holder, holderPage>>

\* upgrade_latch_conditional: SH -> EX only if no one else holds the latch
\* (a refused upgrade changes nothing).
UpgradeLatchConditional(t) ==
    LET f == hc[t].frame IN
    /\ hc[t].mode = "SH"
    /\ shHolders[f] = {t}
    /\ shHolders' = [shHolders EXCEPT ![f] = {}]
    /\ exHolder' = [exHolder EXCEPT ![f] = t]
    /\ hc' = [hc EXCEPT ![t].mode = "EX"]
    /\ UNCHANGED <<frameVars, hand, hp, op, holder, holderPage>>

\* holder.set(page.pin_for_refix()): one more pin on the latched page; a
\* pin the holder already had is released.
PinForRefix(t) ==
    LET f == hc[t].frame
        old == holder[t]
        pinned == [pin EXCEPT ![f] = @ + 1]
    IN /\ hc[t].mode \in {"SH", "EX"}
       /\ pin' = IF old /= 0 THEN [pinned EXCEPT ![old] = @ - 1] ELSE pinned
       /\ holder' = [holder EXCEPT ![t] = f]
       /\ holderPage' = [holderPage EXCEPT ![t] = hc[t].page]
       /\ UNCHANGED <<used, pid, swizzled, ptr, hashtable, freelist, parentHint, hand,
                      shHolders, exHolder, hp, hc, op>>

\* refix_direct(holder.idx(), mode): latch the pinned frame without a
\* parent and take a pin for the handle.
RefixDirect(t) ==
    LET f == holder[t] IN
    /\ f /= 0 /\ hc[t].mode = "NL" /\ op[t].phase = "idle"
    /\ f /= hp[t].frame
    /\ \E m \in {"SH", "EX"} :
         /\ CanLatch(f, m) /\ Latch(t, f, m)
         /\ hc' = [hc EXCEPT ![t] = [mode |-> m, frame |-> f, page |-> pid[f]]]
    /\ pin' = [pin EXCEPT ![f] = @ + 1]
    /\ UNCHANGED <<used, pid, swizzled, ptr, hashtable, freelist, parentHint, hand, hp, op,
                   holder, holderPage>>

\* ~pin_for_refix_holder / release(): unpin_for_refix(_idx).
HolderRelease(t) ==
    LET f == holder[t] IN
    /\ f /= 0
    /\ pin' = [pin EXCEPT ![f] = @ - 1]
    /\ holder' = [holder EXCEPT ![t] = 0]
    /\ holderPage' = [holderPage EXCEPT ![t] = NoPage]
    /\ UNCHANGED <<used, pid, swizzled, ptr, hashtable, freelist, parentHint, hand,
                   shHolders, exHolder, hp, hc, op>>

\* pin_for_refix_holder(pin_for_refix_holder &h): steal_ownership(h) on a
\* fresh object whose _idx was never initialized.  Reading it is undefined;
\* the build reads whatever the storage held: 0, or some frame index, which
\* release() then unpins.  The pin moves to the copy.
HolderCopy(t) ==
    /\ holder[t] /= 0
    /\ \E g \in {0} \cup ChildFrames :
         pin' = IF g /= 0 THEN [pin EXCEPT ![g] = @ - 1] ELSE pin
    /\ UNCHANGED <<used, pid, swizzled, ptr, hashtable, freelist, parentHint, hand,
                   shHolders, exHolder, hp, hc, op, holder, holderPage>>

-----------------------------------------------------------------------------
(* The eviction thread: evict_blocks, one clockhand, one evictor           *)

NextHand(f) == IF f = NFrames THEN 2 ELSE f + 1

\* The recorded parent frame is set and still holds the page's parent.
ParentValid(f) ==
    /\ parentHint[f] /= 0
    /\ pid[parentHint[f]] = ParentOf[pid[f]]

\* Bug variant: an inner page is evicted although it has swizzled children.
EvictOK_swizzled_child(f) ==
    /\ used[f] /\ pid[f] /= NoPage
    /\ Unlatched(f)
    /\ pin[f] = 0
    /\ ParentValid(f) /\ CanLatch(parentHint[f], "SH")

\* The acceptance rules of evict_blocks: an EX latch conditionally, a
\* parent frame recorded and up to date, the parent's SH latch
\* conditionally, pin_cnt CASed from 0 to -1 (so not swizzled), and, for an
\* inner page, no swizzled child (spec 4.5, rule 5).
EvictOK(f) ==
    /\ used[f] /\ pid[f] /= NoPage
    /\ Unlatched(f)
    /\ pin[f] = 0
    /\ ParentValid(f) /\ CanLatch(parentHint[f], "SH")
    /\ ~has_swizzled_child(f)

\* Evict the frame at the clockhand: out of the hash table, control block
\* cleared, onto the free list.  The page image goes with its child
\* pointers as page ids (_convert_to_disk_page): a later load of the page
\* reads them unswizzled.
EvictBlock ==
    LET f == hand IN
    /\ EvictOK(f)
    /\ hashtable' = [hashtable EXCEPT ![pid[f]] = 0]
    /\ pid' = [pid EXCEPT ![f] = NoPage]
    /\ used' = [used EXCEPT ![f] = FALSE]
    /\ parentHint' = [parentHint EXCEPT ![f] = 0]
    /\ ptr' = [c \in Children |-> IF ParentOf[c] = pid[f] THEN 0 ELSE ptr[c]]
    /\ freelist' = <<f>> \o freelist
    /\ hand' = NextHand(f)
    /\ UNCHANGED <<pin, swizzled, shHolders, exHolder, hp, hc, op, holder,
                   holderPage>>

\* The frame at the clockhand does not qualify: move on.
EvictSkip ==
    /\ ~EvictOK(hand)
    /\ hand' = NextHand(hand)
    /\ UNCHANGED <<frameVars, shHolders, exHolder, hp, hc, op, holder,
                   holderPage>>

\* _unswizzle_a_frame: under a conditional EX latch on the parent, revert
\* the parent's pointer of an unlatched child held only by its swizzle pin.
UnswizzleFrame ==
    LET f == hand
        pf == FrameOf(ParentOf[pid[f]])
    IN
    /\ f /= RootFrame /\ swizzled[f]
    /\ pf /= 0
    /\ Unlatched(pf) /\ Unlatched(f)
    /\ pin[f] = 1
    /\ ptr' = [ptr EXCEPT ![pid[f]] = 0]
    /\ swizzled' = [swizzled EXCEPT ![f] = FALSE]
    /\ pin' = [pin EXCEPT ![f] = 0]
    /\ UNCHANGED <<used, pid, hashtable, freelist, parentHint, hand, shHolders, exHolder,
                   hp, hc, op, holder, holderPage>>

-----------------------------------------------------------------------------

ThreadStep(t) ==
    \/ FixRoot(t) \/ UnfixParent(t) \/ Descend(t)
    \/ FixNonroot(t) \/ FixNonrootQFail(t) \/ FixNonrootParentQFail(t)
    \/ FixNonrootQ(t) \/ FixDirect(t)
    \/ FixLatchSwizzled(t) \/ FixLatchHit(t) \/ FixLatchHitStale(t)
    \/ FixLatchBusy(t)
    \/ FixGrab(t) \/ FixOutOfBuffer(t) \/ FixInstall(t) \/ FixInstallLost(t)
    \/ UnfixChild(t) \/ UpgradeLatchConditional(t)
    \/ PinForRefix(t) \/ RefixDirect(t) \/ HolderRelease(t)

EvictorStep == EvictBlock \/ EvictSkip \/ UnswizzleFrame

Next == (\E t \in Threads : ThreadStep(t)) \/ EvictorStep

Spec == Init /\ [][Next]_vars

\* Callers that also copy-construct their pin_for_refix_holder.
NextWithHolderCopy == Next \/ \E t \in Threads : HolderCopy(t)

SpecWithHolderCopy == Init /\ [][NextWithHolderCopy]_vars

-----------------------------------------------------------------------------
(* Properties                                                              *)

TypeOK ==
    /\ used \in [Frames -> BOOLEAN]
    /\ pid \in [Frames -> Children \cup {RootPage, NoPage}]
    /\ pin \in [Frames -> Nat]
    /\ swizzled \in [Frames -> BOOLEAN]
    /\ shHolders \in [Frames -> SUBSET Threads]
    /\ exHolder \in [Frames -> Threads \cup {NoThread}]
    /\ ptr \in [Children -> {0} \cup ChildFrames]
    /\ hashtable \in [Children -> {0} \cup ChildFrames]
    /\ freelist \in Seq(ChildFrames)
    /\ hand \in ChildFrames
    /\ parentHint \in [Frames -> {0} \cup Frames]
    /\ hp \in [Threads -> [mode : Modes, frame : {0} \cup Frames,
                           page : Children \cup {RootPage, NoPage}]]
    /\ hc \in [Threads -> [mode : Modes, frame : {0} \cup ChildFrames,
                           page : Children \cup {NoPage}]]
    /\ holder \in [Threads -> {0} \cup ChildFrames]

\* Thread t holds frame f, grabbed from the free list, while it reads the page.
Installing(t, f) == op[t].phase = "install" /\ op[t].frame = f

\* Every child frame is either on the free list (exactly once) or used, and
\* the hash table and the control blocks agree on which page a frame holds
\* (spec 3: "every frame is either on the free list, or referenced by the
\* hash index -- never both"), and a used frame that is in neither is being
\* installed by a fix (no frame leaks), across fix misses that race on one page,
\* a lost install returning its frame, and eviction.
FrameAccounting ==
    /\ IsInjective(freelist)
    /\ \A f \in ChildFrames : used[f] = (f \notin Range(freelist))
    /\ \A c \in Children : hashtable[c] /= 0 =>
          used[hashtable[c]] /\ pid[hashtable[c]] = c
    /\ \A f \in ChildFrames : pid[f] /= NoPage => hashtable[pid[f]] = f
    /\ \A f \in ChildFrames : used[f] =>
          pid[f] /= NoPage \/ \E t \in Threads : Installing(t, f)

\* A swizzled pointer lives in a parent page that is in the pool and names
\* a frame that is swizzled, in the hash table and holds that child; a
\* frame marked swizzled is pointed to (spec 3, 4.4), through swizzling on
\* fix, unswizzling, and eviction of leaves and of inner pages, whose
\* image leaves the pool with page ids only.
SwizzleConsistent ==
    /\ \A c \in Children : is_swizzled_pointer(ptr[c]) =>
          /\ FrameOf(ParentOf[c]) /= 0
          /\ swizzled[ptr[c]] /\ pid[ptr[c]] = c /\ hashtable[c] = ptr[c]
    /\ \A f \in ChildFrames : swizzled[f] => ptr[pid[f]] = f

\* Handle h holds frame f with a latch (and so a pin).
LatchedBy(h, f) == h.mode \in {"SH", "EX"} /\ h.frame = f

\* pin_cnt counts exactly its holders: the SH/EX handles on the frame (as
\* child or, after a descent, as parent), the pin_for_refix_holders that
\* own a pin on it, and the swizzled pointer (every fix matched by one
\* unfix, every pin_for_refix by one unpin_for_refix, bf_tree.h:302-314).
PinAccounting ==
    \A f \in ChildFrames :
        pin[f] = Cardinality({t \in Threads : LatchedBy(hc[t], f)})
                 + Cardinality({t \in Threads : LatchedBy(hp[t], f)})
                 + Cardinality({t \in Threads : holder[t] = f})
                 + (IF swizzled[f] THEN 1 ELSE 0)

\* A latched handle and a pin_for_refix pin keep their page in its frame:
\* no eviction or reload replaces it (the point of pin_cnt and the -1
\* eviction sentinel), so refix_direct fixes the page that was pinned.
FixedPageIdentity ==
    \A t \in Threads :
        /\ hc[t].mode \in {"SH", "EX"} => pid[hc[t].frame] = hc[t].page
        /\ hp[t].mode \in {"SH", "EX"} => pid[hp[t].frame] = hp[t].page
        /\ holder[t] /= 0 => pid[holder[t]] = holderPage[t]

\* fix_nonroot in Q mode returns success only on a frame that holds the
\* requested page: a pointer read from a Q-latched parent may be stale,
\* and the Q ticket is what must catch it (spec 4.1, 9).
QFixReturnsRequestedPage ==
    [][\A t \in Threads :
         (op[t].phase = "fix_q" /\ hc'[t].mode = "Q")
             => pid[hc'[t].frame] = hc'[t].page]_vars

=============================================================================
