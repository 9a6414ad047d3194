------------------------------- MODULE CArray -------------------------------
(***************************************************************************)
(* The consolidation array of the log manager (src/src/sm/log_carray.h).   *)
(*                                                                         *)
(* Threads that insert a log record join one of the active slots with a    *)
(* single CAS on the slot's status word.  The first joiner of a slot is    *)
(* its leader: it takes the insert lock (an MCS queue), swaps the slot out *)
(* of the active set, closes it, reserves log space for the whole group,   *)
(* joins the expose queue and publishes SLOT_FINISHED minus the group      *)
(* size.  Every member copies its record and adds its size back; the one   *)
(* that brings the status to exactly SLOT_FINISHED is the last out and     *)
(* releases (exposes) the group's range, or delegates that release to its  *)
(* predecessor in the expose queue.                                        *)
(*                                                                         *)
(* The status word keeps its encoding: THREAD_INCREMENT per joiner plus    *)
(* the bytes, negative sentinels otherwise.                                *)
(***************************************************************************)
EXTENDS Integers, Sequences, FiniteSets, Functions

CONSTANTS
    Threads,          \* threads inserting log records
    ActiveCount,      \* ACTIVE_SLOT_COUNT
    SlotCount,        \* ALL_SLOT_COUNT
    LogSizes,         \* sizes in bytes of the records a thread may insert
    ThreadIncrement,  \* THREAD_INCREMENT of join_carray_status (1 << 32)
    ThreadMask,       \* THREAD_MASK of extract_carray_log_size
    LogCapacity       \* log bytes; a reservation beyond it is eOUTOFLOGSPACE

ASSUME ActiveCount \in Nat \ {0} /\ SlotCount > ActiveCount
ASSUME LogSizes \subseteq Nat \ {0}
ASSUME \E k \in 1..31 : ThreadMask + 1 = 2^k
\* the byte field never carries into the thread count
ASSUME Cardinality(Threads) * (LogCapacity + 1) < ThreadIncrement

Slots == 1..SlotCount

SLOT_AVAILABLE == 0
SLOT_UNUSED    == -1
SLOT_PENDING   == -2
SLOT_FINISHED  == -4

\* Bug variant: the joiner's bytes are not added to the status.
join_carray_status_no_bytes(current_status, log_size) ==
    current_status + ThreadIncrement

\* ConsolidationArray::join_carray_status
join_carray_status(current_status, log_size) ==
    current_status + log_size + ThreadIncrement

\* ConsolidationArray::extract_carray_log_size: current_status & THREAD_MASK
extract_carray_log_size(current_status) ==
    current_status % (ThreadMask + 1)

VARIABLES
    count,        \* CArraySlot::count, the status word of every slot
    active,       \* _active_slots: active index -> slot
    start,        \* CArraySlot::start_pos of the group's reservation
    new_end,      \* CArraySlot::new_end
    error,        \* CArraySlot::error (eOUTOFLOGSPACE)
    insertQueue,  \* MCS queue of log_core::_insert_lock (leaders)
    exposeQueue,  \* MCS queue of _expose_lock (the me2 qnodes of slots)
    delegated,    \* slots whose release was delegated to a predecessor
    logEnd,       \* end of the reserved log (next start_pos)
    exposedEnd,   \* end of the released log (what flushing may see)
    pc,           \* where each thread is in log insert
    size,         \* the size of the record each thread inserts
    slot,         \* the slot a thread holds (info)
    idx,          \* the active index join_slot reported (idx)
    offset,       \* the thread's position in its group (pos)
    combined,     \* a leader's combined group size
    records       \* history: the log ranges records were copied into

vars == <<count, active, start, new_end, error, insertQueue, exposeQueue,
          delegated, logEnd, exposedEnd, pc, size, slot, idx, offset,
          combined, records>>

\* Phases in which a thread is a member of its slot's group.
JoinedPhases == {"lead", "insert_wait", "close", "reserve", "publish",
                 "follow", "copy", "leave"}

Phases == JoinedPhases \cup {"idle", "probe", "join", "release", "expose",
                             "grab"}

Members(s) == {t \in Threads : pc[t] \in JoinedPhases /\ slot[t] = s}

Bytes(S) == SumFunctionOnSet(size, S)

InExposeQueue(s) == s \in Range(exposeQueue)

Init ==
    /\ count = [s \in Slots |-> IF s <= ActiveCount THEN SLOT_AVAILABLE
                                                  ELSE SLOT_UNUSED]
    /\ active = [i \in 1..ActiveCount |-> i]
    /\ start = [s \in Slots |-> 0]
    /\ new_end = [s \in Slots |-> 0]
    /\ error = [s \in Slots |-> FALSE]
    /\ insertQueue = <<>>
    /\ exposeQueue = <<>>
    /\ delegated = {}
    /\ logEnd = 0
    /\ exposedEnd = 0
    /\ pc = [t \in Threads |-> "idle"]
    /\ size = [t \in Threads |-> CHOOSE sz \in LogSizes : TRUE]
    /\ slot = [t \in Threads |-> 1]
    /\ idx = [t \in Threads |-> 1]
    /\ offset = [t \in Threads |-> 0]
    /\ combined = [t \in Threads |-> 0]
    /\ records = {}

Goto(t, p) == pc' = [pc EXCEPT ![t] = p]

Locals == <<size, slot, idx, offset, combined>>

\* Return from log insert; the locals of the call are dead from here on.
Return(t) ==
    /\ Goto(t, "idle")
    /\ size' = [size EXCEPT ![t] = CHOOSE sz \in LogSizes : TRUE]
    /\ slot' = [slot EXCEPT ![t] = 1]
    /\ idx' = [idx EXCEPT ![t] = 1]
    /\ offset' = [offset EXCEPT ![t] = 0]
    /\ combined' = [combined EXCEPT ![t] = 0]

-----------------------------------------------------------------------------
(* join_slot                                                               *)

\* A thread starts inserting a record of some size.
Start(t) ==
    /\ pc[t] = "idle"
    /\ \E sz \in LogSizes : size' = [size EXCEPT ![t] = sz]
    /\ Goto(t, "probe")
    /\ UNCHANGED <<count, active, start, new_end, error, insertQueue,
                   exposeQueue, delegated, logEnd, exposedEnd, slot, idx,
                   offset, combined, records>>

\* Read an active slot pointer at the (unprotected) clockhand.
Probe(t) ==
    /\ pc[t] = "probe"
    /\ \E i \in 1..ActiveCount :
         /\ idx' = [idx EXCEPT ![t] = i]
         /\ slot' = [slot EXCEPT ![t] = active[i]]
    /\ Goto(t, "join")
    /\ UNCHANGED <<count, active, start, new_end, error, insertQueue,
                   exposeQueue, delegated, logEnd, exposedEnd, size, offset,
                   combined, records>>

\* Bug variant: the joiner's position is read from the status after its CAS.
JoinSlot_offset_after(t) ==
    LET s == slot[t]
        old == count[s]
        new == join_carray_status(old, size[t])
    IN /\ pc[t] = "join"
       /\ old >= SLOT_AVAILABLE
       /\ count' = [count EXCEPT ![s] = new]
       /\ offset' = [offset EXCEPT ![t] = extract_carray_log_size(new)]
       /\ Goto(t, IF old = SLOT_AVAILABLE THEN "lead" ELSE "follow")
       /\ UNCHANGED <<active, start, new_end, error, insertQueue, exposeQueue,
                      delegated, logEnd, exposedEnd, size, slot, idx,
                      combined, records>>

\* CAS on the slot read by Probe: succeeds on any status >= SLOT_AVAILABLE.
\* The joiner that saw SLOT_AVAILABLE is the leader.
JoinSlot(t) ==
    LET s == slot[t]
        old == count[s]
    IN /\ pc[t] = "join"
       /\ old >= SLOT_AVAILABLE
       /\ count' = [count EXCEPT ![s] = join_carray_status(old, size[t])]
       /\ offset' = [offset EXCEPT ![t] = extract_carray_log_size(old)]
       /\ Goto(t, IF old = SLOT_AVAILABLE THEN "lead" ELSE "follow")
       /\ UNCHANGED <<active, start, new_end, error, insertQueue, exposeQueue,
                      delegated, logEnd, exposedEnd, size, slot, idx,
                      combined, records>>

\* The slot is closed (or retired): probe the next active slot.
JoinSlotRetry(t) ==
    /\ pc[t] = "join"
    /\ count[slot[t]] < SLOT_AVAILABLE
    /\ Goto(t, "probe")
    /\ UNCHANGED <<count, active, start, new_end, error, insertQueue,
                   exposeQueue, delegated, logEnd, exposedEnd, size, slot,
                   idx, offset, combined, records>>

-----------------------------------------------------------------------------
(* The leader: insert lock, replace_active_slot, close, reserve, publish   *)

AcquireInsertLock(t) ==
    /\ pc[t] = "lead"
    /\ insertQueue' = Append(insertQueue, t)
    /\ Goto(t, "insert_wait")
    /\ UNCHANGED <<count, active, start, new_end, error, exposeQueue,
                   delegated, logEnd, exposedEnd, size, slot, idx, offset,
                   combined, records>>

\* Holding the insert lock, put an UNUSED slot at the index join_slot
\* reported; spins while the pool has none.
ReplaceActiveSlot(t) ==
    /\ pc[t] = "insert_wait"
    /\ insertQueue /= <<>> /\ Head(insertQueue) = t
    /\ \E u \in Slots :
         /\ count[u] = SLOT_UNUSED
         /\ active' = [active EXCEPT ![idx[t]] = u]
         /\ count' = [count EXCEPT ![u] = SLOT_AVAILABLE]
    /\ Goto(t, "close")
    /\ UNCHANGED <<start, new_end, error, insertQueue, exposeQueue,
                   delegated, logEnd, exposedEnd, size, slot, idx, offset,
                   combined, records>>

\* Atomic exchange with SLOT_PENDING: no one joins any more.
CloseSlot(t) ==
    LET s == slot[t] IN
    /\ pc[t] = "close"
    /\ combined' = [combined EXCEPT ![t] = extract_carray_log_size(count[s])]
    /\ count' = [count EXCEPT ![s] = SLOT_PENDING]
    /\ Goto(t, "reserve")
    /\ UNCHANGED <<active, start, new_end, error, insertQueue, exposeQueue,
                   delegated, logEnd, exposedEnd, size, slot, idx, offset,
                   records>>

\* join_expose(slot): the slot's me2 qnode joins the memcpy-complete queue
\* of _expose_lock behind its predecessor (pred2), without spinning yet.
join_expose(s) == exposeQueue' = Append(exposeQueue, s)

\* Bug variant: the reservation does not check the log's capacity.
ReserveOk_unchecked(t) ==
    LET s == slot[t] IN
    /\ pc[t] = "reserve"
    /\ start' = [start EXCEPT ![s] = logEnd]
    /\ new_end' = [new_end EXCEPT ![s] = logEnd + combined[t]]
    /\ error' = [error EXCEPT ![s] = FALSE]
    /\ logEnd' = logEnd + combined[t]
    /\ join_expose(s)
    /\ insertQueue' = Tail(insertQueue)
    /\ Goto(t, "publish")
    /\ UNCHANGED <<count, active, delegated, exposedEnd, size, slot, idx,
                   offset, combined, records>>

\* Reserve the group's space, join the expose queue (join_expose) and
\* release the insert lock.
ReserveOk(t) ==
    LET s == slot[t] IN
    /\ pc[t] = "reserve"
    /\ logEnd + combined[t] <= LogCapacity
    /\ start' = [start EXCEPT ![s] = logEnd]
    /\ new_end' = [new_end EXCEPT ![s] = logEnd + combined[t]]
    /\ error' = [error EXCEPT ![s] = FALSE]
    /\ logEnd' = logEnd + combined[t]
    /\ join_expose(s)
    /\ insertQueue' = Tail(insertQueue)
    /\ Goto(t, "publish")
    /\ UNCHANGED <<count, active, delegated, exposedEnd, size, slot, idx,
                   offset, combined, records>>

\* Out of log space: the error is recorded on the slot for every member.
ReserveOutOfSpace(t) ==
    LET s == slot[t] IN
    /\ pc[t] = "reserve"
    /\ logEnd + combined[t] > LogCapacity
    /\ error' = [error EXCEPT ![s] = TRUE]
    /\ insertQueue' = Tail(insertQueue)
    /\ Goto(t, "publish")
    /\ UNCHANGED <<count, active, start, new_end, exposeQueue, delegated,
                   logEnd, exposedEnd, size, slot, idx, offset, combined,
                   records>>

PublishSlot(t) ==
    LET s == slot[t] IN
    /\ pc[t] = "publish"
    /\ count' = [count EXCEPT ![s] = SLOT_FINISHED - combined[t]]
    /\ Goto(t, "copy")
    /\ UNCHANGED <<active, start, new_end, error, insertQueue, exposeQueue,
                   delegated, logEnd, exposedEnd, size, slot, idx, offset,
                   combined, records>>

\* wait_for_leader: a follower spins until the leader has published.
WaitForLeader(t) ==
    /\ pc[t] = "follow"
    /\ count[slot[t]] < SLOT_PENDING
    /\ Goto(t, "copy")
    /\ UNCHANGED <<count, active, start, new_end, error, insertQueue,
                   exposeQueue, delegated, logEnd, exposedEnd, size, slot,
                   idx, offset, combined, records>>

-----------------------------------------------------------------------------
(* Every member: copy, leave; the last out releases the group              *)

CopyToBuffer(t) ==
    LET s == slot[t] IN
    /\ pc[t] = "copy"
    /\ records' = IF error[s] THEN records
                  ELSE records \cup {[lsn |-> start[s] + offset[t],
                                      len |-> size[t]]}
    /\ Goto(t, "leave")
    /\ UNCHANGED <<count, active, start, new_end, error, insertQueue,
                   exposeQueue, delegated, logEnd, exposedEnd, size, slot,
                   idx, offset, combined>>

\* Atomic add of the record size; exactly SLOT_FINISHED means last out.
LeaveSlot(t) ==
    LET s == slot[t]
        new == count[s] + size[t]
    IN /\ pc[t] = "leave"
       /\ new /= SLOT_FINISHED
       /\ count' = [count EXCEPT ![s] = new]
       /\ Return(t)
       /\ UNCHANGED <<active, start, new_end, error, insertQueue, exposeQueue,
                      delegated, logEnd, exposedEnd, records>>

LeaveSlotLast(t) ==
    LET s == slot[t]
        new == count[s] + size[t]
    IN /\ pc[t] = "leave"
       /\ new = SLOT_FINISHED
       /\ count' = [count EXCEPT ![s] = new]
       /\ Goto(t, "release")
       /\ UNCHANGED <<active, start, new_end, error, insertQueue, exposeQueue,
                      delegated, logEnd, exposedEnd, size, slot, idx, offset,
                      combined, records>>

\* A failed group reserved nothing: the last out only returns the slot.
ReleaseFailedSlot(t) ==
    /\ pc[t] = "release"
    /\ error[slot[t]]
    /\ count' = [count EXCEPT ![slot[t]] = SLOT_UNUSED]
    /\ Return(t)
    /\ UNCHANGED <<active, start, new_end, error, insertQueue, exposeQueue,
                   delegated, logEnd, exposedEnd, records>>

\* Bug variant: the last out releases without waiting for its turn.
WaitForExposeOwn_no_wait(t) ==
    /\ pc[t] = "release"
    /\ ~error[slot[t]]
    /\ Goto(t, "expose")
    /\ UNCHANGED <<count, active, start, new_end, error, insertQueue,
                   exposeQueue, delegated, logEnd, exposedEnd, size, slot,
                   idx, offset, combined, records>>

\* wait_for_expose: with no predecessor in the expose queue, the thread
\* holds the expose lock.
WaitForExposeOwn(t) ==
    /\ pc[t] = "release"
    /\ ~error[slot[t]]
    /\ Head(exposeQueue) = slot[t]
    /\ Goto(t, "expose")
    /\ UNCHANGED <<count, active, start, new_end, error, insertQueue,
                   exposeQueue, delegated, logEnd, exposedEnd, size, slot,
                   idx, offset, combined, records>>

\* wait_for_expose: a predecessor is still queued; the release is handed to
\* it and the thread returns.
WaitForExposeDelegate(t) ==
    /\ pc[t] = "release"
    /\ ~error[slot[t]]
    /\ Head(exposeQueue) /= slot[t]
    /\ delegated' = delegated \cup {slot[t]}
    /\ Return(t)
    /\ UNCHANGED <<count, active, start, new_end, error, insertQueue,
                   exposeQueue, logEnd, exposedEnd, records>>

\* Bug variant: the release publishes the whole reserved log.
ExposeBuffer_to_reserved(t) ==
    /\ pc[t] = "expose"
    /\ exposedEnd' = logEnd
    /\ Goto(t, "grab")
    /\ UNCHANGED <<count, active, start, new_end, error, insertQueue,
                   exposeQueue, delegated, logEnd, size, slot, idx, offset,
                   combined, records>>

\* Release the group's range: the released end moves to new_end.
ExposeBuffer(t) ==
    /\ pc[t] = "expose"
    /\ exposedEnd' = new_end[slot[t]]
    /\ Goto(t, "grab")
    /\ UNCHANGED <<count, active, start, new_end, error, insertQueue,
                   exposeQueue, delegated, logEnd, size, slot, idx, offset,
                   combined, records>>

\* Bug variant: the released slot is not returned to the pool.
GrabDelegatedExpose_no_recycle(t) ==
    LET rest == Tail(exposeQueue)
        next == Head(rest)
    IN /\ pc[t] = "grab"
       /\ exposeQueue' = rest
       /\ IF rest /= <<>> /\ next \in delegated
            THEN /\ slot' = [slot EXCEPT ![t] = next]
                 /\ delegated' = delegated \ {next}
                 /\ Goto(t, "expose")
                 /\ UNCHANGED <<size, idx, offset, combined>>
            ELSE /\ Return(t)
                 /\ UNCHANGED delegated
       /\ UNCHANGED <<count, active, start, new_end, error, insertQueue, logEnd,
                      exposedEnd, records>>

\* Bug variant: a release delegated by a successor is dropped.
GrabDelegatedExpose_drop(t) ==
    /\ pc[t] = "grab"
    /\ exposeQueue' = Tail(exposeQueue)
    /\ count' = [count EXCEPT ![slot[t]] = SLOT_UNUSED]
    /\ Return(t)
    /\ UNCHANGED <<active, start, new_end, error, insertQueue, delegated,
                   logEnd, exposedEnd, records>>

\* Bug variant: the successor's release is taken over whether or not the
\* successor has delegated it (finished copying).
GrabDelegatedExpose_undelegated(t) ==
    LET rest == Tail(exposeQueue)
        next == Head(rest)
    IN /\ pc[t] = "grab"
       /\ exposeQueue' = rest
       /\ count' = [count EXCEPT ![slot[t]] = SLOT_UNUSED]
       /\ IF rest /= <<>>
            THEN /\ slot' = [slot EXCEPT ![t] = next]
                 /\ delegated' = delegated \ {next}
                 /\ Goto(t, "expose")
                 /\ UNCHANGED <<size, idx, offset, combined>>
            ELSE /\ Return(t)
                 /\ UNCHANGED delegated
       /\ UNCHANGED <<active, start, new_end, error, insertQueue, logEnd,
                      exposedEnd, records>>

\* grab_delegated_expose: leave the expose queue, return the slot to the
\* pool, and continue with a successor that delegated to this slot.
GrabDelegatedExpose(t) ==
    LET rest == Tail(exposeQueue)
        next == Head(rest)
    IN /\ pc[t] = "grab"
       /\ exposeQueue' = rest
       /\ count' = [count EXCEPT ![slot[t]] = SLOT_UNUSED]
       /\ IF rest /= <<>> /\ next \in delegated
            THEN /\ slot' = [slot EXCEPT ![t] = next]
                 /\ delegated' = delegated \ {next}
                 /\ Goto(t, "expose")
                 /\ UNCHANGED <<size, idx, offset, combined>>
            ELSE /\ Return(t)
                 /\ UNCHANGED delegated
       /\ UNCHANGED <<active, start, new_end, error, insertQueue, logEnd,
                      exposedEnd, records>>

-----------------------------------------------------------------------------

\* Every step of a thread once it has started an insert.
Step(t) ==
    \/ Probe(t) \/ JoinSlot(t) \/ JoinSlotRetry(t)
    \/ AcquireInsertLock(t) \/ ReplaceActiveSlot(t) \/ CloseSlot(t)
    \/ ReserveOk(t) \/ ReserveOutOfSpace(t) \/ PublishSlot(t)
    \/ WaitForLeader(t) \/ CopyToBuffer(t) \/ LeaveSlot(t) \/ LeaveSlotLast(t)
    \/ ReleaseFailedSlot(t) \/ WaitForExposeOwn(t) \/ WaitForExposeDelegate(t)
    \/ ExposeBuffer(t) \/ GrabDelegatedExpose(t)

Next == \E t \in Threads : Start(t) \/ Step(t)

\* Threads are preemptive OS threads: a thread that can step eventually
\* does.  Starting an insert is up to the caller and is not fair.
Fairness == \A t \in Threads : WF_vars(Step(t))

Spec == Init /\ [][Next]_vars /\ Fairness

-----------------------------------------------------------------------------
(* Properties                                                              *)

TypeOK ==
    /\ count \in [Slots -> Int]
    /\ active \in [1..ActiveCount -> Slots]
    /\ start \in [Slots -> 0..LogCapacity]
    /\ new_end \in [Slots -> 0..LogCapacity]
    /\ error \in [Slots -> BOOLEAN]
    /\ insertQueue \in Seq(Threads)
    /\ exposeQueue \in Seq(Slots)
    /\ delegated \subseteq Slots
    /\ logEnd \in 0..LogCapacity /\ exposedEnd \in 0..logEnd
    /\ pc \in [Threads -> Phases]
    /\ size \in [Threads -> LogSizes]
    /\ slot \in [Threads -> Slots]
    /\ idx \in [Threads -> 1..ActiveCount]
    /\ offset \in [Threads -> Nat]
    /\ combined \in [Threads -> Nat]

\* The status word accounts for its group (the comment on SLOT_FINISHED and
\* join_carray_status): while the slot is open it holds THREAD_INCREMENT per
\* member plus their bytes; once published it is SLOT_FINISHED minus the
\* bytes of the members that have not left; a retired slot has no member.
StatusAccounting ==
    \A s \in Slots :
      LET M == Members(s) IN
      /\ count[s] >= SLOT_AVAILABLE =>
            count[s] = Cardinality(M) * ThreadIncrement + Bytes(M)
      /\ count[s] <= SLOT_FINISHED => count[s] = SLOT_FINISHED - Bytes(M)
      /\ count[s] = SLOT_UNUSED => M = {} /\ ~InExposeQueue(s)

\* No two log records are copied into overlapping log ranges: the offsets
\* handed out by join_slot and the space the leader reserves tile the log.
RecordsDisjoint ==
    \A r1, r2 \in records :
        r1 /= r2 => \/ r1.lsn + r1.len <= r2.lsn
                    \/ r2.lsn + r2.len <= r1.lsn

\* The released end never passes a record that is reserved but not copied
\* yet: expose happens only after the last member of a group has left and
\* in the order the groups reserved their space.
ExposedIsWritten ==
    \A t \in Threads :
        /\ pc[t] \in {"publish", "follow", "copy"}
        /\ InExposeQueue(slot[t])
        => start[slot[t]] + offset[t] >= exposedEnd

\* The precondition of replace_active_slot: the active index the leader
\* replaces holds the leader's own slot (the header: "the slot is already
\* owned and no other thread can disturb this change").
ReplaceTargetsOwnSlot ==
    \A t \in Threads :
        pc[t] = "insert_wait" /\ insertQueue /= <<>> /\ Head(insertQueue) = t
            => active[idx[t]] = slot[t]

\* Each step that moves the released end moves it over exactly one
\* reserved group, from where that group starts to its new_end.
ExposeContiguous ==
    [][exposedEnd' /= exposedEnd =>
         \E s \in Slots : start[s] = exposedEnd /\ new_end[s] = exposedEnd']_exposedEnd

\* The refinement mapping: the reservation end, the released end and the
\* records copied are the abstract log's; the slots, queues and statuses
\* are the implementation's own.
AbsLog == INSTANCE LogAbstract
              WITH reserved <- logEnd, exposed <- exposedEnd, written <- records

\* The consolidation array implements the log manager's promise: a group
\* reservation is a reservation at the end of the log, every copy lands in
\* reserved, unreleased space disjoint from the other records, and every
\* release (delegated ones included) covers only bytes already copied.
ImplementsLogAbstract == AbsLog!Spec

\* A thread that has joined a group eventually returns from log insert:
\* no member waits forever on its leader, the insert lock, a free slot or
\* the expose queue.
GroupCompletes ==
    \A t \in Threads : pc[t] \in JoinedPhases ~> pc[t] = "idle"

\* Every reserved byte is eventually released: no delegated release is
\* lost.
ExposeCatchesUp ==
    \A n \in 1..LogCapacity : logEnd >= n ~> exposedEnd >= n

=============================================================================
