---------------------------- MODULE SellIntegrity ----------------------------
(***************************************************************************)
(* No sell without the shares: what app/database/entry_logic.py checks     *)
(* before services/entries.py and trading_api/entries.py let a row into    *)
(* the ledger.  The web blocks and asks, the bot API stores and marks the  *)
(* sell for review, because a refused execution would be lost.             *)
(*                                                                         *)
(* Every check looks at the whole history of a position - the settled      *)
(* trades of one security in one account and currency, by time - and must  *)
(* hold for rows inserted, moved or deleted anywhere in it.  A position    *)
(* may already be short: by a bot, by a confirmed change, by a restore.    *)
(*                                                                         *)
(* `pos' stands for position_key; how names are linked to codes and how    *)
(* splits scale quantities is not modelled here.  Quantities are integers  *)
(* and EPS is not modelled.                                                *)
(***************************************************************************)
EXTENDS Integers, FiniteSets, FiniteSetsExt

CONSTANTS
    Ids,        \* entry ids, positive integers
    Quantities, \* quantities of a trade, positive integers
    Worlds,     \* [days, positions, statuses]: trade times, position keys and
                \* is_settled_trade of the statuses bots report, in one behaviour
    NoRow       \* no entry with this id

ASSUME LedgerAssumption ==
    /\ Ids \subseteq Nat \ {0} /\ IsFiniteSet(Ids)
    /\ Quantities \subseteq Nat \ {0}
    /\ \A w \in Worlds : w.days \subseteq Nat /\ w.statuses \subseteq BOOLEAN

Days == UNION {w.days : w \in Worlds}
Positions == UNION {w.positions : w \in Worlds}

Row == [kind : {"buy", "sell"}, qty : Quantities, day : Days, pos : Positions,
        settled : BOOLEAN, bot : BOOLEAN, review : BOOLEAN]

ASSUME NoRowAssumption == NoRow \notin Row

VARIABLES
    ledger,     \* the trades in the entries table of the account
    world       \* never changes

vars == <<ledger, world>>

-----------------------------------------------------------------------------
(* The history of a position.  A table is a function from ids to rows.     *)

(* is_settled_trade: CANCELED and SUBMITTED rows move nothing.             *)
History(table, p) ==
    {i \in DOMAIN table : table[i] # NoRow /\ table[i].settled /\ table[i].pos = p}

(* entry_order: by time, then by id.                                       *)
Earlier(table, i, j) ==
    \/ table[i].day < table[j].day
    \/ table[i].day = table[j].day /\ i < j

(* _quantity_delta. *)
Delta(row) == IF row.kind = "buy" THEN row.qty ELSE -row.qty

(* Its sum over the trades S.                                              *)
Net(table, S) == MapThenSumSet(LAMBDA i : Delta(table[i]), S)

(* The balance after trade i of the history h.                             *)
Balance(table, h, i) == Net(table, {j \in h : j = i \/ Earlier(table, j, i)})

Sells(table, h) == {i \in h : table[i].kind = "sell"}

(* deficit_of: the greatest shortfall in the history, which is reached     *)
(* after a sell.                                                           *)
Deficit(table, p) ==
    LET h == History(table, p)
    IN  -Min({0} \cup {Balance(table, h, i) : i \in Sells(table, h)})

Without(table, i) == [table EXCEPT ![i] = NoRow]

(* Mutant: what later sells need is not looked at.                         *)
AvailableBefore(table, i) ==
    Net(table, {j \in History(table, table[i].pos) : Earlier(table, j, i)})

(* check_sell_integrity: a sell may use what is held before it and what no *)
(* later sell needs.  Row i itself does not count.                         *)
Available(table, i) ==
    LET rest == Without(table, i)
        h == History(rest, table[i].pos)
        before == {j \in h : Earlier(table, j, i)}
    IN  Min({Net(rest, before)} \cup {Balance(rest, h, j) : j \in h \ before})

SellFault(table, i) ==
    /\ table[i].kind = "sell"
    /\ table[i].settled
    /\ table[i].qty > Available(table, i)

LiveBuy(row) == row # NoRow /\ row.kind = "buy" /\ row.settled

(* oversell_after_change: what the old buy's position lacks once the buy   *)
(* is gone or, if the new row is a buy of the same position, changed.      *)
Conflict(i, new) ==
    /\ LiveBuy(ledger[i])
    /\ LET p == ledger[i].pos
           stays == LiveBuy(new) /\ new.pos = p
           after == IF stays THEN [ledger EXCEPT ![i] = new] ELSE Without(ledger, i)
       IN  Deficit(after, p) > Deficit(ledger, p)

(* flag_oversold_sells: review for the sells whose balance is negative.    *)
Flag(table, p) ==
    LET h == History(table, p) IN
    [i \in DOMAIN table |->
        IF i \in Sells(table, h) /\ Balance(table, h, i) < 0
          THEN [table[i] EXCEPT !.review = TRUE] ELSE table[i]]

FlagIf(conflict, table, p) == IF conflict THEN Flag(table, p) ELSE table

-----------------------------------------------------------------------------
Free == {i \in Ids : ledger[i] = NoRow}
Used == Ids \ Free

(* What the form holds: a web entry has no tradeStatus, so it is settled.  *)
Typed == [kind : {"buy", "sell"}, qty : Quantities, day : world.days, pos : world.positions]
AsRow(f, settled, bot, review) ==
    [kind |-> f.kind, qty |-> f.qty, day |-> f.day, pos |-> f.pos,
     settled |-> settled, bot |-> bot, review |-> review]

(* entries.create: InvalidEntry if the new sell exceeds what is available. *)
WebCreate(i, f) ==
    /\ ledger[i] = NoRow
    /\ LET after == [ledger EXCEPT ![i] = AsRow(f, TRUE, FALSE, FALSE)]
       IN  /\ ~SellFault(after, i)
           /\ ledger' = after

SameHolding(a, b) == /\ a.kind = b.kind /\ a.qty = b.qty
                     /\ a.day = b.day /\ a.pos = b.pos /\ a.settled = b.settled

(* Mutant: the flags go to the position the buy was moved to.              *)
WebUpdateFlagsNew(i, f, force) ==
    /\ ledger[i] # NoRow
    /\ LET old == ledger[i]
           new == AsRow(f, old.settled, old.bot, old.review)
           after == [ledger EXCEPT ![i] = new]
           conflict == Conflict(i, new)
       IN  /\ conflict = force
           /\ SameHolding(old, new) \/ ~SellFault(after, i)
           /\ ledger' = FlagIf(conflict, after, new.pos)

(* entries.update: the sell itself is measured if it changed in a column   *)
(* of _HOLDING_COLUMNS; a shortage of others needs force and is flagged.   *)
(* Without a conflict force=1 makes no difference, so it is left out then. *)
WebUpdate(i, f, force) ==
    /\ ledger[i] # NoRow
    /\ LET old == ledger[i]
           new == AsRow(f, old.settled, old.bot, old.review)
           after == [ledger EXCEPT ![i] = new]
           conflict == Conflict(i, new)
       IN  /\ conflict = force
           /\ SameHolding(old, new) \/ ~SellFault(after, i)
           /\ ledger' = FlagIf(conflict, after, old.pos)

(* entries.delete. *)
WebDelete(i, force) ==
    /\ ledger[i] # NoRow
    /\ LET conflict == Conflict(i, NoRow)
       IN  /\ conflict = force
           /\ ledger' = FlagIf(conflict, Without(ledger, i), ledger[i].pos)

(* resolve_review. *)
ResolveReview(i) ==
    /\ ledger[i] # NoRow
    /\ ledger' = [ledger EXCEPT ![i].review = FALSE]

(* _insert_trade: a new execution, with the id above every other.          *)
BotInsert(f, settled) ==
    LET i == Max({0} \cup Used) + 1
        after == [ledger EXCEPT ![i] = AsRow(f, settled, TRUE, FALSE)]
    IN  /\ i \in Ids
        /\ ledger' = [after EXCEPT ![i].review = SellFault(after, i)]

(* patch_bot_trade: the fields a bot may correct that are in               *)
(* _HOLDING_COLUMNS are volume, status and executedAt (the name does not   *)
(* move a trade that has a code).  The sell is measured if the request     *)
(* names one of them, even with the value it has.                          *)
BotPatch(i, qty, settled, day, measured) ==
    /\ ledger[i] # NoRow
    /\ ledger[i].bot
    /\ LET old == ledger[i]
           patched == [old EXCEPT !.qty = qty, !.settled = settled, !.day = day]
           fault == measured /\ SellFault([ledger EXCEPT ![i] = patched], i)
           after == [ledger EXCEPT ![i] = [patched EXCEPT !.review = @ \/ fault]]
       IN  /\ old # patched => measured
           /\ ledger' = FlagIf(Conflict(i, patched), after, old.pos)

(* delete_bot_trade. *)
BotDelete(i) ==
    /\ ledger[i] # NoRow
    /\ ledger[i].bot
    /\ ledger' = FlagIf(Conflict(i, NoRow), Without(ledger, i), ledger[i].pos)

-----------------------------------------------------------------------------
Init ==
    /\ ledger = [i \in Ids |-> NoRow]
    /\ world \in Worlds

(* The web's steps without force=1.                                        *)
WebStep ==
    \/ \E i \in Ids, f \in Typed : WebCreate(i, f) \/ WebUpdate(i, f, FALSE)
    \/ \E i \in Ids : WebDelete(i, FALSE) \/ ResolveReview(i)

ForcedStep ==
    \E i \in Ids : WebDelete(i, TRUE) \/ \E f \in Typed : WebUpdate(i, f, TRUE)

BotStep ==
    \/ \E f \in Typed, settled \in world.statuses : BotInsert(f, settled)
    \/ \E i \in Ids, qty \in Quantities, settled \in world.statuses, day \in world.days,
          measured \in BOOLEAN : BotPatch(i, qty, settled, day, measured)
    \/ \E i \in Ids : BotDelete(i)

Next == (WebStep \/ ForcedStep \/ BotStep) /\ UNCHANGED world

Spec == Init /\ [][Next]_vars

-----------------------------------------------------------------------------
TypeOK == ledger \in [Ids -> Row \cup {NoRow}] /\ world \in Worlds

(* What the web lets through without asking never makes any position       *)
(* shorter than it was at its worst: not by inserting a sell before others *)
(* that need the shares, not by moving a trade in time or to another       *)
(* account, not by shrinking, retyping or deleting a buy.                  *)
WebNeverDeepens ==
    [][(\E p \in Positions : Deficit(ledger', p) > Deficit(ledger, p)) => ~WebStep]_ledger

(* No shortage arises in silence: whoever makes a position shorter - a     *)
(* bot, or a user who confirmed - leaves a mark on one of its sells, and   *)
(* the mark leads to the shortage: it is on a sell the step itself wrote   *)
(* or on one at which the balance is now at its worst.                     *)
NoSilentShortage ==
    [][\A p \in Positions :
          Deficit(ledger', p) > Deficit(ledger, p) =>
             \E i \in Sells(ledger', History(ledger', p)) :
                /\ ledger'[i].review
                /\ \/ ledger'[i] # ledger[i]
                   \/ Balance(ledger', History(ledger', p), i) = -Deficit(ledger', p)]_ledger
=============================================================================
