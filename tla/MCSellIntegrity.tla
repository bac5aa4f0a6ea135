--------------------------- MODULE MCSellIntegrity ---------------------------
(* Three trades: enough for a buy, the sell that uses it, and a third that *)
(* gets between them.  One world moves trades in time within one position; *)
(* the other between two positions, and its bots cancel and fill them.     *)
EXTENDS SellIntegrity

CONSTANTS posA, posB

MCIds == 1..3
MCQuantities == {1, 2}
MCWorlds == {[days |-> {1, 2}, positions |-> {posA}, statuses |-> {TRUE}],
             [days |-> {1}, positions |-> {posA, posB}, statuses |-> BOOLEAN]}
=============================================================================
