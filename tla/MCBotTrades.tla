------------------------------ MODULE MCBotTrades ------------------------------
(* Three worlds of one system, each small: in one the bots have nothing to *)
(* record and two commands are asked for, in time; in another there is one *)
(* command, no bot stops and no time passes, but two executions are        *)
(* recorded, deleted and brought back, or listed; in the third there are   *)
(* three, two of one bot, and nothing is asked for, deleted or listed.     *)
EXTENDS BotTrades

CONSTANTS b1, b2

MCBots == {b1, b2}
MCReported == {"running", "stopped"}
MCExecutions == 1..3
MCOwnerOf == <<b1, b2, b1>>
MCRowIds == 1..4

CommandsWorld == clock = 0 /\ page = NoPage

Calm ==
    /\ \A b \in Known : bots[b] = [status |-> "running", age |-> 0]
    /\ \A b \in Bots : machine[b].status = "running"
    /\ \A i \in Asked : commands[i].age = 0

RecordsWorld == Calm /\ clock <= 2 /\ (IF page = NoPage THEN lastId <= 1 ELSE lastId = 0)

OffWorld == Calm /\ lastId = 0 /\ page = NoPage /\ Records(rows) = stored

BotsNext == Next /\ (CommandsWorld \/ RecordsWorld \/ OffWorld)'
=============================================================================
