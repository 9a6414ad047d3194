----------------------------- MODULE MC_Recovery -----------------------------
(* A volume of three pages after a crash, two frames.  p3 was updated and *)
(* flushed first; p1 was flushed after its first record and has a later  *)
(* one; p2 was never flushed and is later freed.  The master record may   *)
(* hold no checkpoint (the log then names three pages, more than the      *)
(* frames) or one taken after p3's flush (two pages).                     *)
EXTENDS Recovery

MCRecs == [p \in Pages |-> IF p = "p1" THEN {2, 4}
                           ELSE IF p = "p2" THEN {3} ELSE {1}]

MCDisk0 == [p \in Pages |-> IF p = "p1" THEN 2 ELSE IF p = "p3" THEN 1 ELSE 0]

MCDeallocated == {"p2"}
=============================================================================
