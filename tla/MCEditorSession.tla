-------------------------- MODULE MCEditorSession --------------------------
(* One browser, two records, two keys.  In the first three worlds it only  *)
(* creates: two records of one text or of two, or one with late requests;  *)
(* in the fourth others write the one record, too.                         *)
EXTENDS EditorSession

CONSTANTS a, b, k1, k2

MCIds == {1, 2}
MCTexts == {a, b}
MCDerived == {0}
MCKeys == {k1, k2}
MCLegacy == {[text |-> a, derived |-> 0, bot |-> FALSE, rev |-> 1]}

Creating == [ids |-> MCIds, stored |-> {}, texts |-> MCTexts, ends |-> TRUE,
             others |-> FALSE, intents |-> 1, late |-> 1]

MCWorlds == {[Creating EXCEPT !.intents = 2, !.texts = {a}],
             [Creating EXCEPT !.intents = 2, !.late = 0],
             Creating,
             [ids |-> {1}, stored |-> {1}, texts |-> MCTexts, ends |-> FALSE,
              others |-> TRUE, intents |-> 0, late |-> 1]}

Plain == {[Creating EXCEPT !.late = 0]}
=============================================================================
