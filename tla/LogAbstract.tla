----------------------------- MODULE LogAbstract -----------------------------
(***************************************************************************)
(* What the log manager's insert promises, without the consolidation       *)
(* array (spec 4.6: "amortize the cost of log-buffer reservation ... while *)
(* preserving total order").  Space is reserved at the end of the log; a   *)
(* record is written only into space that is reserved and not yet          *)
(* released, never over another record; and the released end (what a      *)
(* flush may read) moves forward only over bytes that records cover.       *)
(* log_core, which implements this, is not in src/.                        *)
(***************************************************************************)
EXTENDS Naturals

CONSTANT LogCapacity   \* log bytes

VARIABLES
    reserved,   \* end of the reserved log
    exposed,    \* end of the released log
    written     \* records written: [lsn, len] byte ranges

vars == <<reserved, exposed, written>>

Record == [lsn : 0..LogCapacity, len : 1..LogCapacity]

Disjoint(r1, r2) == r1.lsn + r1.len <= r2.lsn \/ r2.lsn + r2.len <= r1.lsn

\* Every byte of [from, to) lies in some record of R.
Covered(R, from, to) ==
    \A b \in from..(to - 1) : \E r \in R : r.lsn <= b /\ b < r.lsn + r.len

Init ==
    /\ reserved = 0
    /\ exposed = 0
    /\ written = {}

\* Reserve n bytes at the end of the log for one or more records.
Reserve(n) ==
    /\ reserved + n <= LogCapacity
    /\ reserved' = reserved + n
    /\ UNCHANGED <<exposed, written>>

\* Copy a record into reserved, unreleased space no other record uses.
Write(r) ==
    /\ exposed <= r.lsn /\ r.lsn + r.len <= reserved
    /\ \A w \in written : Disjoint(r, w)
    /\ written' = written \cup {r}
    /\ UNCHANGED <<reserved, exposed>>

\* Release the log up to e: every byte before e is written.
Expose(e) ==
    /\ exposed < e /\ e <= reserved
    /\ Covered(written, exposed, e)
    /\ exposed' = e
    /\ UNCHANGED <<reserved, written>>

Next ==
    \/ \E n \in 1..LogCapacity : Reserve(n)
    \/ \E r \in Record : Write(r)
    \/ \E e \in 1..LogCapacity : Expose(e)

Spec == Init /\ [][Next]_vars

=============================================================================
