------------------------------- MODULE MC_SPR -------------------------------
EXTENDS SPR

\* Two inserts into a, a split moving key 2 from a to b, an insert into b,
\* a split moving key 3 from b to c, then an insert into c and one into a.
\* c's chain starts with a split whose source b itself starts with a
\* split: recovering c needs b before record 5, which needs a before
\* record 3 (multi-page REDO two levels deep).
MCLog ==
    << [op |-> "ins", page |-> "a", key |-> 1],
       [op |-> "ins", page |-> "a", key |-> 2],
       [op |-> "split", src |-> "a", dest |-> "b", moved |-> {2}],
       [op |-> "ins", page |-> "b", key |-> 3],
       [op |-> "split", src |-> "b", dest |-> "c", moved |-> {3}],
       [op |-> "ins", page |-> "c", key |-> 4],
       [op |-> "ins", page |-> "a", key |-> 4] >>
=============================================================================
