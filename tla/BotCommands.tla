------------------------------ MODULE BotCommands ------------------------------
(***************************************************************************)
(* The two directions between the server and a user's trading bots         *)
(* (trading_api/bots.py, the heartbeat in trading_api/routes.py and the    *)
(* resync routes in app/routes/api.py): bots report with heartbeats, and   *)
(* what the user asks of a bot is a row that the answer to a heartbeat     *)
(* takes along.  Heartbeats, requests and removals hold the lock of the    *)
(* account (ownership.py) while they are handled, so each is one step.     *)
(*                                                                         *)
(* The bots are not part of the repository: they keep the commands they    *)
(* took and the acknowledgements they owe in memory, lose them when they   *)
(* restart, and may miss an answer.                                        *)
(*                                                                         *)
(* Times are ages that stop growing once nothing depends on them.          *)
(***************************************************************************)
EXTENDS Naturals, FiniteSets

CONSTANTS
    Bots,           \* bot ids that ever report
    NoBot,          \* bot_id IS NULL
    NoRow,          \* no row with this key
    Reported,       \* what bots report: running, stopped or error
    MaxCommands,    \* bound on the ids of commands
    Offline,        \* BOT_OFFLINE_AFTER_SECONDS, in ticks
    TTL             \* BOT_COMMAND_TTL_SECONDS, in ticks

ASSUME BotAssumption ==
    /\ {MaxCommands, Offline, TTL} \subseteq Nat
    /\ NoBot \notin Bots
    /\ Reported \subseteq {"running", "stopped", "error"}

VARIABLES
    bots,       \* the bots table of the user
    cell,       \* users.bot_status and bot_last_seen
    commands,   \* bot_commands by id
    lastId,     \* the AUTOINCREMENT sequence of bot_commands
    machine,    \* what each bot has in memory
    ran,        \* history: commands that some bot started
    finished    \* history: commands that some bot finished

comVars == <<bots, cell, commands, lastId, machine, ran, finished>>

Ids == 1..MaxCommands
Report == [status : Reported \cup {"running"}, age : 0..Offline+1]
Command == [target : Bots \cup {NoBot}, age : 0..TTL+1,
            delivered : BOOLEAN, acked : BOOLEAN]
Machine == [status : Reported \cup {"running"}, doing : SUBSET Ids, owed : SUBSET Ids]

ASSUME RowAssumption == NoRow \notin Report /\ NoRow \notin Command

Known == {b \in Bots : bots[b] # NoRow}
Asked == {i \in Ids : commands[i] # NoRow}

-----------------------------------------------------------------------------
(* What the screen shows.                                                  *)

(* evaluate_bot_state: a reported end is more exact than a lost contact.   *)
BotState(report) ==
    IF report = NoRow THEN "never"
    ELSE IF report.status # "running" THEN report.status
    ELSE IF report.age > Offline THEN "offline" ELSE "running"

(* _BOT_STATE_SEVERITY, worst first. *)
Severities == <<"error", "offline", "stopped", "running", "never">>

(* get_me, summarize_bot_states: the worst bot is shown; the cell only     *)
(* serves users none of whose bots is in the table.                        *)
Shown(table, single) ==
    LET states == {BotState(table[b]) : b \in {x \in Bots : table[x] # NoRow}}
        worst == CHOOSE k \in 1..5 : /\ Severities[k] \in states
                                     /\ \A j \in 1..(k-1) : Severities[j] \notin states
    IN  IF states = {} THEN BotState(single) ELSE Severities[worst]

(* latest_bot_command: state. *)
CommandState(command) ==
    IF command.acked THEN "done"
    ELSE IF command.age > TTL THEN "expired"
    ELSE IF command.delivered THEN "running" ELSE "pending"

-----------------------------------------------------------------------------
(* The heartbeat: POST /api/v1/bot/status. *)

(* Mutant: any command of the id is finished, whoever reports it.          *)
AckAnyone(table, b, id) ==
    IF id \in Ids /\ table[id] # NoRow THEN [table EXCEPT ![id].acked = TRUE] ELSE table

(* _apply_command_ack: a malformed one, or one for a command that is gone, *)
(* finished or another bot's, is ignored.  id 0 stands for none.           *)
Ack(table, b, id) ==
    IF /\ id \in Ids
       /\ table[id] # NoRow
       /\ table[id].target \in {b, NoBot}
       /\ ~table[id].acked
      THEN [table EXCEPT ![id].acked = TRUE] ELSE table

(* Mutant: a command goes out until it is acknowledged.                    *)
OpenUntilAcked(table, b, solo) ==
    {i \in Ids : /\ table[i] # NoRow
                 /\ table[i].target = b \/ (solo /\ table[i].target = NoBot)
                 /\ ~table[i].acked
                 /\ table[i].age <= TTL}

(* _take_pending_command: what may go out to b.  Commands for no bot in    *)
(* particular go out only while there is one bot.                          *)
Open(table, b, solo) ==
    {i \in Ids : /\ table[i] # NoRow
                 /\ table[i].target = b \/ (solo /\ table[i].target = NoBot)
                 /\ ~table[i].acked
                 /\ ~table[i].delivered
                 /\ table[i].age <= TTL}

Oldest(S) == {i \in S : \A j \in S : i <= j}

(* bot_status: the report is stored, the acknowledgement applied and one   *)
(* command taken along, unless the bot is about to stop, in one            *)
(* transaction.  `heard' is whether the answer reaches the bot, which      *)
(* reports its acknowledgement again until one does.                       *)
Heartbeat(b, ack, heard) ==
    LET report == [status |-> machine[b].status, age |-> 0]
        known == Known \cup {b}
        acked == Ack(commands, b, ack)
        taken == IF report.status = "running"
                   THEN Oldest(Open(acked, b, Cardinality(known) <= 1)) ELSE {}
    IN  /\ ack \in machine[b].owed \cup {0}
        /\ bots' = [bots EXCEPT ![b] = report]
        /\ cell' = report
        /\ commands' = [i \in Ids |-> IF i \in taken THEN [acked[i] EXCEPT !.delivered = TRUE]
                                                     ELSE acked[i]]
        /\ IF heard
             THEN /\ machine' = [machine EXCEPT ![b].doing = @ \cup taken,
                                                ![b].owed = @ \ {ack}]
                  /\ ran' = ran \cup taken
             ELSE UNCHANGED <<machine, ran>>
        /\ UNCHANGED <<lastId, finished>>

-----------------------------------------------------------------------------
(* The user. *)

(* Mutant: without AUTOINCREMENT, the id after the last one there is.      *)
NextIdReused(table, last) ==
    CHOOSE n \in 1..MaxCommands+1 : /\ \A i \in Ids : table[i] # NoRow => i < n
                                    /\ n > 1 => table[n-1] # NoRow

(* bot_commands.id: AUTOINCREMENT never gives an id twice.                 *)
NextId(table, last) == last + 1

(* request_bot_resync: the only bot is the one that is meant, also if a    *)
(* second one arrives before the command goes out.                         *)
Target(wanted, known) ==
    IF wanted = NoBot /\ known # {} THEN CHOOSE b \in known : TRUE ELSE wanted

(* POST /api/me/bot/resync, request_bot_command: an unknown bot is         *)
(* refused, and so is no bot among several.  What already waits is not     *)
(* asked for again.                                                        *)
RequestResync(wanted) ==
    LET target == Target(wanted, Known)
        id == NextId(commands, lastId)
        waiting == {i \in Asked : /\ commands[i].target = target
                                  /\ ~commands[i].acked
                                  /\ commands[i].age <= TTL}
    IN  /\ wanted \in Known \cup {NoBot}
        /\ wanted = NoBot => Cardinality(Known) <= 1
        /\ waiting = {}
        /\ id \in Ids
        /\ commands' = [commands EXCEPT ![id] =
                           [target |-> target, age |-> 0, delivered |-> FALSE, acked |-> FALSE]]
        /\ lastId' = id
        /\ ran' = ran \ {id}
        /\ finished' = finished \ {id}
        /\ UNCHANGED <<bots, cell, machine>>

(* delete_bot: what the bot was asked and did not acknowledge goes too.    *)
DeleteBot(b) ==
    /\ b \in Known
    /\ bots' = [bots EXCEPT ![b] = NoRow]
    /\ commands' = [i \in Ids |-> IF commands[i] # NoRow /\ commands[i].target = b /\ ~commands[i].acked
                                    THEN NoRow ELSE commands[i]]
    /\ UNCHANGED <<cell, lastId, machine, ran, finished>>

-----------------------------------------------------------------------------
(* The bots and the time. *)

(* A bot has done what it was told and owes the acknowledgement. *)
Finish(b, i) ==
    /\ i \in machine[b].doing
    /\ machine' = [machine EXCEPT ![b].doing = @ \ {i}, ![b].owed = @ \cup {i}]
    /\ finished' = finished \cup {i}
    /\ UNCHANGED <<bots, cell, commands, lastId, ran>>

(* A bot starts anew, or is about to stop, or reports an error.            *)
Restart(b, status) ==
    /\ machine' = [machine EXCEPT ![b] = [status |-> status, doing |-> {}, owed |-> {}]]
    /\ UNCHANGED <<bots, cell, commands, lastId, ran, finished>>

Older(report) ==
    IF report = NoRow THEN NoRow
    ELSE [report EXCEPT !.age = IF @ <= Offline THEN @ + 1 ELSE @]

OlderCommand(command) ==
    IF command = NoRow THEN NoRow
    ELSE [command EXCEPT !.age = IF @ <= TTL THEN @ + 1 ELSE @]

Tick ==
    /\ bots' = [b \in Bots |-> Older(bots[b])]
    /\ cell' = Older(cell)
    /\ commands' = [i \in Ids |-> OlderCommand(commands[i])]
    /\ UNCHANGED <<lastId, machine, ran, finished>>

-----------------------------------------------------------------------------
ComInit ==
    /\ bots = [b \in Bots |-> NoRow]
    /\ cell = NoRow
    /\ commands = [i \in Ids |-> NoRow]
    /\ lastId = 0
    /\ machine = [b \in Bots |-> [status |-> "running", doing |-> {}, owed |-> {}]]
    /\ ran = {}
    /\ finished = {}

ComNext ==
    \/ \E b \in Bots, ack \in Ids \cup {0}, heard \in BOOLEAN : Heartbeat(b, ack, heard)
    \/ \E wanted \in Bots \cup {NoBot} : RequestResync(wanted)
    \/ \E b \in Bots : DeleteBot(b)
    \/ \E b \in Bots, i \in Ids : Finish(b, i)
    \/ \E b \in Bots, status \in Reported : Restart(b, status)
    \/ Tick

ComSpec == ComInit /\ [][ComNext]_comVars

-----------------------------------------------------------------------------
ComTypeOK ==
    /\ bots \in [Bots -> Report \cup {NoRow}]
    /\ cell \in Report \cup {NoRow}
    /\ commands \in [Ids -> Command \cup {NoRow}]
    /\ lastId \in 0..MaxCommands
    /\ machine \in [Bots -> Machine]
    /\ ran \subseteq Ids /\ finished \subseteq Ids

(* A command is started at most once, by one bot, whatever answers are     *)
(* lost and whoever restarts (_take_pending_command: at-most-once).        *)
CommandsRunOnce ==
    [][\A b \in Bots : \A i \in machine'[b].doing \ machine[b].doing : i \notin ran]_comVars

(* What the screen calls done was done: no late, lost or repeated          *)
(* acknowledgement, of this or of another command, closes a command that   *)
(* no bot carried out (_apply_command_ack, the ids of bot_commands).       *)
DoneMeansDone ==
    \A i \in Asked : CommandState(commands[i]) = "done" => i \in finished

(* The indicator is green only while every registered bot said lately that *)
(* it runs: no bot's reports hide that another one is gone.                *)
GreenMeansAllRun ==
    Shown(bots, cell) = "running" =>
        \A b \in Known : bots[b].status = "running" /\ bots[b].age <= Offline
=============================================================================
