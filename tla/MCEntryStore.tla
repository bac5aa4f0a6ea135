---------------------------- MODULE MCEntryStore ----------------------------
(* Small instance of EntryStore for TLC: two ids, so that the id of a      *)
(* deleted row is given again; two texts, so that A-B-A is possible.       *)
EXTENDS EntryStore

CONSTANTS a, b, k1

MCIds == {1, 2}
MCTexts == {a, b}
MCDerived == {0, 1}
MCKeys == {k1}

MCLegacy == {[text |-> a, derived |-> 0, bot |-> FALSE, rev |-> 1]}
=============================================================================
