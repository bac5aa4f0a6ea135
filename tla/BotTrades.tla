------------------------------- MODULE BotTrades -------------------------------
(***************************************************************************)
(* What the bots record: executions sent once, again after a lost answer   *)
(* and again for a resync (trading_api/routes.py: create_trade,            *)
(* create_trades_batch; trading_api/entries.py: _insert_trade), the point  *)
(* from which a bot looks for what it missed (last_sync), and the pages in *)
(* which records are read back (list_trades).  The user deletes records;   *)
(* only a resync the user asked for may bring them back.                   *)
(*                                                                         *)
(* Executions are numbered by time.  A bot's local log and queue are       *)
(* durable, what it was told to do is not (BotCommands).                   *)
(***************************************************************************)
EXTENDS BotCommands, FiniteSetsExt

CONSTANTS
    Executions, \* brokerExecutionId, numbered by execution time from 1
    OwnerOf,    \* the bot each execution belongs to; bots narrow their queries
                \* to their own source and isSimulated
    RowIds,     \* entry ids, positive integers
    Limit,      \* rows on a page
    NoPage      \* no listing under way

ASSUME TradesAssumption ==
    /\ IsFiniteSet(Executions) /\ Executions = 1..Cardinality(Executions)
    /\ OwnerOf \in [Executions -> Bots]
    /\ NoRow \notin Executions
    /\ RowIds \subseteq Nat \ {0} /\ IsFiniteSet(RowIds)
    /\ Limit \in Nat \ {0}

VARIABLES
    rows,       \* entries of the account, by id
    clock,      \* the executions up to this one have happened
    asleep,     \* bots that were off and did not look back yet
    log,        \* executions the bots know of
    queue,      \* of those, the ones whose sending was not answered yet
    stored,     \* history: executions that were in the table at some time
    over,       \* history: for each execution the user deleted, the commands
                \* that were over by then
    page        \* a listing under way

tradeVars == <<rows, clock, asleep, log, queue, stored, over, page>>
vars == <<comVars, tradeVars>>

NoCursor == 0
Page == [cursor : RowIds \cup {NoCursor}, got : SUBSET RowIds, kept : SUBSET RowIds,
         last : BOOLEAN]

Used(table) == {i \in RowIds : table[i] # NoRow}
Records(table) == {table[i] : i \in Used(table)}
Own(b) == {x \in Executions : OwnerOf[x] = b}

-----------------------------------------------------------------------------
(* Recording. *)

(* _insert_trade, EXEC_ID_UNIQUE_INDEX: an execution the table has is a    *)
(* duplicate, any other one gets the id above all.                         *)
Insert(table, x) ==
    LET id == Max({0} \cup Used(table)) + 1
    IN  IF x \in Records(table) THEN table ELSE [table EXCEPT ![id] = x]

Fits(table, n) == \A m \in 1..n : Max({0} \cup Used(table)) + m \in RowIds

(* create_trades_batch with two items, create_trade with x = y: an item    *)
(* that fails does not keep the other one from being stored; what the      *)
(* answer calls created or duplicate leaves the bot's queue.               *)
Send(b, x, y, failed, heard) ==
    LET first == IF x \in failed THEN rows ELSE Insert(rows, x)
        both == IF y \in failed THEN first ELSE Insert(first, y)
    IN  /\ Fits(rows, 2)
        /\ rows' = both
        /\ stored' = stored \cup Records(both)
        /\ queue' = IF heard THEN [queue EXCEPT ![b] = @ \ ({x, y} \ failed)] ELSE queue
        /\ UNCHANGED <<clock, asleep, log, over, page, comVars>>

(* What a bot knows of and was not answered is sent until it is.           *)
Deliver(b, x, y, failed, heard) ==
    /\ {x, y} \subseteq queue[b]
    /\ failed \subseteq {x, y}
    /\ Send(b, x, y, failed, heard)

(* A resync sends again what the bot's log has, answered or not.           *)
Resync(b, i, x, heard) ==
    /\ i \in machine[b].doing
    /\ x \in log \cap Own(b)
    /\ Send(b, x, x, {}, heard)

-----------------------------------------------------------------------------
(* Noticing executions. *)

(* A trade is made; its bot notices it, or is off.                         *)
Execute(noticed) ==
    /\ clock + 1 \in Executions
    /\ LET x == clock + 1
           b == OwnerOf[x]
       IN  /\ noticed => b \notin asleep
           /\ clock' = x
           /\ asleep' = IF noticed THEN asleep ELSE asleep \cup {b}
           /\ log' = IF noticed THEN log \cup {x} ELSE log
           /\ queue' = IF noticed THEN [queue EXCEPT ![b] = @ \cup {x}] ELSE queue
    /\ UNCHANGED <<rows, stored, over, page, comVars>>

(* Mutant: the parameters that narrow the query are read and dropped.      *)
SinceLastSyncOfAll(b, x) == \A y \in Records(rows) : y < x

(* last_sync: x is later than the newest of the bot's own records, if any. *)
SinceLastSync(b, x) == \A y \in Records(rows) \cap Own(b) : y < x

(* A bot that comes back asks the broker for what happened since, before   *)
(* it notices anything new.                                                *)
Backfill(b) ==
    LET found == {x \in Own(b) : x <= clock /\ SinceLastSync(b, x)} \ log
    IN  /\ b \in asleep
        /\ asleep' = asleep \ {b}
        /\ log' = log \cup found
        /\ queue' = [queue EXCEPT ![b] = @ \cup found]
        /\ UNCHANGED <<rows, clock, stored, over, page, comVars>>

-----------------------------------------------------------------------------
(* The user, and reading. *)

(* entries.delete. *)
DeleteRecord(id) ==
    /\ id \in Used(rows)
    /\ LET x == rows[id] IN
          over' = [over EXCEPT ![x] = ran \ machine[OwnerOf[x]].doing]
    /\ rows' = [rows EXCEPT ![id] = NoRow]
    /\ page' = IF page = NoPage THEN NoPage ELSE [page EXCEPT !.kept = @ \ {id}]
    /\ UNCHANGED <<clock, asleep, log, queue, stored, comVars>>

StartListing ==
    /\ page = NoPage
    /\ page' = [cursor |-> NoCursor, got |-> {}, kept |-> Used(rows),
                last |-> FALSE]
    /\ UNCHANGED <<rows, clock, asleep, log, queue, stored, over, comVars>>

(* The greatest n of the ids S. *)
Newest(S, n) == {i \in S : Cardinality({j \in S : j > i}) < n}

(* list_trades: one row more than asked for tells whether there is more.   *)
Fetched(cursor) ==
    Newest({i \in Used(rows) : cursor # NoCursor => i < cursor}, Limit + 1)

(* Mutant: the cursor is the row that showed there is more.                *)
NextCursorBeyond(fetched) ==
    IF Cardinality(fetched) > Limit THEN Min(fetched) ELSE NoCursor

NextCursor(fetched) ==
    IF Cardinality(fetched) > Limit THEN Min(Newest(fetched, Limit)) ELSE NoCursor

(* A page without nextCursor is the last one.                              *)
NextPage ==
    /\ page # NoPage /\ ~page.last
    /\ LET fetched == Fetched(page.cursor)
           next == NextCursor(fetched)
       IN  page' = [page EXCEPT !.cursor = next, !.got = @ \cup Newest(fetched, Limit),
                                !.last = (next = NoCursor)]
    /\ UNCHANGED <<rows, clock, asleep, log, queue, stored, over, comVars>>

EndListing ==
    /\ page # NoPage /\ page.last
    /\ page' = NoPage
    /\ UNCHANGED <<rows, clock, asleep, log, queue, stored, over, comVars>>

-----------------------------------------------------------------------------
Init ==
    /\ ComInit
    /\ rows = [i \in RowIds |-> NoRow]
    /\ clock = 0
    /\ asleep = {}
    /\ log = {}
    /\ queue = [b \in Bots |-> {}]
    /\ stored = {}
    /\ over = [x \in Executions |-> {}]
    /\ page = NoPage

TradeNext ==
    \/ \E noticed \in BOOLEAN : Execute(noticed)
    \/ \E b \in Bots : Backfill(b)
    \/ \E b \in Bots, x, y \in Executions, failed \in SUBSET Executions, heard \in BOOLEAN :
          Deliver(b, x, y, failed, heard)
    \/ \E b \in Bots, i \in Ids, x \in Executions, heard \in BOOLEAN : Resync(b, i, x, heard)
    \/ \E id \in RowIds : DeleteRecord(id)
    \/ StartListing \/ NextPage \/ EndListing

Next == (ComNext /\ UNCHANGED tradeVars) \/ TradeNext

Spec == Init /\ [][Next]_vars

-----------------------------------------------------------------------------
(* Nothing that was executed falls between the queue and the backfill:     *)
(* what was never recorded is queued, or its bot is off and will look from *)
(* an earlier point on (last_sync).                                        *)
NothingSlipsThrough ==
    \A x \in 1..clock :
        \/ x \in stored
        \/ x \in queue[OwnerOf[x]]
        \/ OwnerOf[x] \in asleep /\ SinceLastSync(OwnerOf[x], x)

(* A record the user deleted comes back only from a bot that was never     *)
(* told it is stored, or for a command that was not yet over when the user *)
(* deleted it (README: restoring deleted records; common.py at-most-once). *)
RevivedOnlyIfAsked ==
    [][\A x \in stored :
          x \in Records(rows') \ Records(rows) =>
             \/ x \in queue[OwnerOf[x]]
             \/ \E i \in machine[OwnerOf[x]].doing : i \notin over[x]]_vars

(* Reading page by page misses no record that was there throughout,        *)
(* whatever is stored and deleted meanwhile (list_trades).                 *)
ListingIsComplete ==
    page # NoPage => (page.last => page.kept \subseteq page.got)
=============================================================================
