-------------------------------- MODULE SPR --------------------------------
(***************************************************************************)
(* Single-page recovery (SPR) of src/src/sm/bf_tree.h: _check_read_page,   *)
(* _try_recover_page and the EMLSN that eviction stores in the parent      *)
(* (_try_evict_block_update_emlsn, _sx_update_child_emlsn).                *)
(*                                                                         *)
(* The children of one parent page are updated through a fixed log Log:   *)
(* an "ins" record adds a key to a page, a "split" record moves the keys  *)
(* "moved" from page src to page dest.  A child may be written by the     *)
(* cleaner, evicted (dirty or not: the acceptance rules of evict_blocks    *)
(* do not ask for a clean page) and fixed again from disk, and its disk   *)
(* image may be corrupted.  On a miss the image read is checked against   *)
(* the EMLSN the parent holds for the child; a corrupt image is replaced  *)
(* by the backup (the virgin page), and a stale or replaced image is      *)
(* brought up to the EMLSN by replaying the page's log chain, recovering  *)
(* the source page of a split record first.  The parent stays pinned.     *)
(***************************************************************************)
EXTENDS Naturals, Sequences, SequencesExt

CONSTANTS
    Pages,       \* the child pages of the parent
    Keys,        \* the keys records insert and move
    Log,         \* the log: a sequence of "ins" and "split" records
    MaxCorrupt   \* how many disk images may be corrupted in a behaviour

Image == [lsn : 0..Len(Log), keys : SUBSET Keys]

\* The backup image SPR starts from when the disk image is corrupt: the
\* page as formatted, before any record of Log.
Virgin == [lsn |-> 0, keys |-> {}]

\* The pages a record changes.
Touches(r) == IF r.op = "ins" THEN {r.page} ELSE {r.src, r.dest}

ASSUME /\ \A i \in 1..Len(Log) :
            \/ Log[i].op = "ins" /\ Log[i].page \in Pages /\ Log[i].key \in Keys
            \/ /\ Log[i].op = "split" /\ Log[i].src \in Pages
               /\ Log[i].dest \in Pages \ {Log[i].src}
               /\ Log[i].moved \subseteq Keys
       /\ MaxCorrupt \in Nat

VARIABLES
    tail,      \* records 1..tail have been logged and applied
    cached,    \* the page is in a frame (in the hash table)
    image,     \* the frame's page image: its page LSN and keys
    dirty,     \* bf_tree_cb_t::_dirty
    disk,      \* the image on the volume, with "corrupt" for a bad checksum
    emlsn,     \* the EMLSN the parent page holds for the child
    corrupted  \* disk images corrupted so far

vars == <<tail, cached, image, dirty, disk, emlsn, corrupted>>

-----------------------------------------------------------------------------
(* What a record does to the pages it touches, given the images of all     *)
(* pages just before it.  The btree operation applies it in the buffer     *)
(* pool; the reference history of the pages is this step folded over Log. *)

Step(imgs, i) ==
    LET r == Log[i] IN
    [p \in Pages |->
        IF p \notin Touches(r) THEN imgs[p]
        ELSE [lsn |-> i,
              keys |-> CASE r.op = "ins" -> imgs[p].keys \cup {r.key}
                         [] p = r.src -> imgs[p].keys \ r.moved
                         [] OTHER -> imgs[p].keys \cup
                                     (imgs[r.src].keys \cap r.moved)]]

\* The pages after records 1..n.
RefState(n) == FoldLeft(Step, [p \in Pages |-> Virgin], [i \in 1..n |-> i])

-----------------------------------------------------------------------------
(* SPR: the REDO of one page's chain.  A split record into the page needs *)
(* the source page as it was just before the record: SPR recovers the     *)
(* source to that point first (multi-page REDO).                           *)

RECURSIVE Redo(_, _, _, _), RedoRecord(_, _, _)

\* Apply the records i..upto that touch page p to the image img of p.
Redo(p, img, i, upto) ==
    IF i > upto THEN img
    ELSE Redo(p, IF p \in Touches(Log[i]) THEN RedoRecord(p, img, i) ELSE img,
              i + 1, upto)

RedoRecord(p, img, i) ==
    LET r == Log[i] IN
    [lsn |-> i,
     keys |-> CASE r.op = "ins" -> img.keys \cup {r.key}
                [] p = r.src -> img.keys \ r.moved
                [] OTHER -> img.keys \cup
                            (Redo(r.src, Virgin, 1, i - 1).keys \cap r.moved)]

\* _try_recover_page: from the backup if the image is corrupt, else from
\* the image read, replay the chain in (page_lsn, EMLSN].
try_recover_page(p, d, corrupt) ==
    LET start == IF corrupt THEN Virgin ELSE d
    IN Redo(p, start, start.lsn + 1, emlsn[p])

\* Bug variant: only a bad checksum triggers SPR; a stale image is taken.
check_read_page_checksum_only(p) ==
    LET d == [lsn |-> disk[p].lsn, keys |-> disk[p].keys] IN
    IF disk[p].corrupt THEN try_recover_page(p, d, TRUE) ELSE d

\* _check_read_page: the image read from disk, recovered when its checksum
\* fails or its page LSN is older than the parent's EMLSN for the page.
check_read_page(p) ==
    LET d == [lsn |-> disk[p].lsn, keys |-> disk[p].keys] IN
    IF disk[p].corrupt \/ d.lsn < emlsn[p]
    THEN try_recover_page(p, d, disk[p].corrupt)
    ELSE d

-----------------------------------------------------------------------------

Init ==
    /\ tail = 0
    /\ cached = [p \in Pages |-> FALSE]
    /\ image = [p \in Pages |-> Virgin]
    /\ dirty = [p \in Pages |-> FALSE]
    /\ disk = [p \in Pages |-> [lsn |-> 0, keys |-> {}, corrupt |-> FALSE]]
    /\ emlsn = [p \in Pages |-> 0]
    /\ corrupted = 0

\* The operation that logs record tail + 1 has its pages fixed and applies
\* the record to them; the pages become dirty.
Apply ==
    /\ tail < Len(Log)
    /\ \A p \in Touches(Log[tail + 1]) : cached[p]
    /\ image' = Step(image, tail + 1)
    /\ dirty' = [p \in Pages |-> dirty[p] \/ p \in Touches(Log[tail + 1])]
    /\ tail' = tail + 1
    /\ UNCHANGED <<cached, disk, emlsn, corrupted>>

\* A miss: read the page, check it (and recover it), install it clean.
FixMiss(p) ==
    /\ ~cached[p]
    /\ image' = [image EXCEPT ![p] = check_read_page(p)]
    /\ cached' = [cached EXCEPT ![p] = TRUE]
    /\ dirty' = [dirty EXCEPT ![p] = FALSE]
    /\ UNCHANGED <<tail, disk, emlsn, corrupted>>

\* The cleaner writes a dirty page.
CleanerWrite(p) ==
    /\ cached[p] /\ dirty[p]
    /\ disk' = [disk EXCEPT ![p] = [lsn |-> image[p].lsn, keys |-> image[p].keys,
                                    corrupt |-> FALSE]]
    /\ dirty' = [dirty EXCEPT ![p] = FALSE]
    /\ UNCHANGED <<tail, cached, image, emlsn, corrupted>>

\* Bug variant: the frame is freed without updating the parent's EMLSN.
Evict_no_emlsn(p) ==
    /\ cached[p]
    /\ cached' = [cached EXCEPT ![p] = FALSE]
    /\ dirty' = [dirty EXCEPT ![p] = FALSE]
    /\ image' = [image EXCEPT ![p] = Virgin]
    /\ UNCHANGED <<tail, disk, emlsn, corrupted>>

\* Bug variant: the EMLSN stored is the LSN after the child's page LSN.
Evict_emlsn_next(p) ==
    /\ cached[p]
    /\ emlsn' = [emlsn EXCEPT ![p] = image[p].lsn + 1]
    /\ cached' = [cached EXCEPT ![p] = FALSE]
    /\ dirty' = [dirty EXCEPT ![p] = FALSE]
    /\ image' = [image EXCEPT ![p] = Virgin]
    /\ UNCHANGED <<tail, disk, corrupted>>

\* The system transaction that writes the child's EMLSN into the parent.
sx_update_child_emlsn(p, lsn) == emlsn' = [emlsn EXCEPT ![p] = lsn]

\* Eviction: the parent's EMLSN slot for the child gets the child's page
\* LSN, then the frame is freed.
Evict(p) ==
    /\ cached[p]
    /\ sx_update_child_emlsn(p, image[p].lsn)
    /\ cached' = [cached EXCEPT ![p] = FALSE]
    /\ dirty' = [dirty EXCEPT ![p] = FALSE]
    /\ image' = [image EXCEPT ![p] = Virgin]
    /\ UNCHANGED <<tail, disk, corrupted>>

\* A media failure: the disk image of a page no longer passes its checksum.
Corrupt(p) ==
    /\ corrupted < MaxCorrupt /\ ~disk[p].corrupt
    /\ disk' = [disk EXCEPT ![p].corrupt = TRUE]
    /\ corrupted' = corrupted + 1
    /\ UNCHANGED <<tail, cached, image, dirty, emlsn>>

Next ==
    \/ Apply
    \/ \E p \in Pages : FixMiss(p) \/ CleanerWrite(p) \/ Evict(p) \/ Corrupt(p)

Spec == Init /\ [][Next]_vars

-----------------------------------------------------------------------------
(* Properties                                                              *)

TypeOK ==
    /\ tail \in 0..Len(Log)
    /\ cached \in [Pages -> BOOLEAN]
    /\ image \in [Pages -> Image]
    /\ dirty \in [Pages -> BOOLEAN]
    /\ disk \in [Pages -> [lsn : 0..Len(Log), keys : SUBSET Keys,
                           corrupt : BOOLEAN]]
    /\ emlsn \in [Pages -> 0..Len(Log)]
    /\ corrupted \in 0..MaxCorrupt

\* No update is lost across eviction, stale or corrupt disk images and
\* SPR: a page in a frame holds, and a page fixed now from disk would be
\* installed with, exactly the image the log up to tail gives it (evict
\* sets the EMLSN, _check_read_page detects staleness, SPR replays).
NoLostUpdate ==
    \A p \in Pages :
        (IF cached[p] THEN image[p] ELSE check_read_page(p)) = RefState(tail)[p]

=============================================================================
