------------------------------ MODULE TradeRules ------------------------------
(***************************************************************************)
(* The rules every view of the trades shares: app/domain/trades.py, the    *)
(* preparation of rows in services/ledger.py and the broker identities of  *)
(* services/accounts.py.                                                   *)
(*                                                                         *)
(* A table is a function from the ids of its entries to rows.  What else   *)
(* the rules read is `env': the broker names the user registered, the      *)
(* splits the vendor published and how the user wants each of them         *)
(* applied.                                                                *)
(*                                                                         *)
(* One account number and one currency.  Quantities are integers, prices   *)
(* multiples of a unit that makes every division here exact, EPS is 0.     *)
(***************************************************************************)
EXTENDS Integers, FiniteSets, FiniteSetsExt, Folds, Functions

CONSTANTS
    NoCode,     \* a trade without a stock code
    NoBroker,   \* no broker in a row, or no registered broker of the account
    NoPnl,      \* no stored profit
    NoSource,   \* realizedPnlSource IS NULL
    Everywhere, \* scope '' of a split rule
    Today       \* the last day a split may already apply

(* Two times a day in Seoul; New York's date changes half a day later.     *)
SeoulDay(at) == at \div 2
NewYorkDay(at) == (at - 1) \div 2

(* trade_day: the exchange's date of a bot's row, else the date of its time. *)
TradeDay(row) == IF row.abroad THEN NewYorkDay(row.at) ELSE SeoulDay(row.at)

Only(set) == CHOOSE x \in set : TRUE

Entries(table) == DOMAIN table
With(table, i, row) == [j \in Entries(table) \cup {i} |-> IF j = i THEN row ELSE table[j]]
Without(table, i) == [j \in Entries(table) \ {i} |-> table[j]]

(* entry_order: by time in Seoul, then by sequence number, which is the id. *)
Earlier(row, other) ==
    \/ row.at < other.at
    \/ row.at = other.at /\ row.id < other.id

Latest(rows) == CHOOSE row \in rows : \A other \in rows : ~Earlier(row, other)

-----------------------------------------------------------------------------
(* Brokers.                                                                *)

(* broker_aliases: pairs of code and name, of the brokers and the account. *)
Pairs(env) == env.links \cup (IF env.owner = NoBroker THEN {} ELSE {env.owner})
CodesFor(env, raw) == {p[1] : p \in {q \in Pairs(env) : raw \in {q[1], q[2]}}}

(* A name counts only if it stands for one code.                           *)
Alias(env, raw) ==
    IF Cardinality(CodesFor(env, raw)) = 1 THEN Only(CodesFor(env, raw)) ELSE raw

(* identify_entry: an identity found before is kept while no alias says    *)
(* otherwise.                                                              *)
Identity(env, row) ==
    LET known == Alias(env, row.broker)
    IN  IF known # row.broker \/ row.ident = NoBroker THEN known ELSE row.ident

(* position_scope and split_scope, of the one account.                     *)
Scope(row) == row.ident

-----------------------------------------------------------------------------
(* Stocks.                                                                 *)

Stock(row) == IF row.code # NoCode THEN row.code ELSE row.name
Position(row) == <<Scope(row), Stock(row)>>

CodesOf(table, scope, name) ==
    {table[i].code : i \in {j \in Entries(table) :
        Scope(table[j]) = scope /\ table[j].name = name /\ table[j].code # NoCode}}

(* resolve_trade_identities: a row without a code has the code its name    *)
(* has in the same account, if that is one code.                           *)
LinkedCode(table, i) ==
    LET codes == CodesOf(table, Scope(table[i]), table[i].name)
    IN  IF table[i].code = NoCode /\ Cardinality(codes) = 1 THEN Only(codes) ELSE table[i].code

-----------------------------------------------------------------------------
(* Splits.  env.splits[c] is a set of <<day, ratio>>, env.rules a set of   *)
(* <<code, day, scope, mode>> with one mode for a key.                     *)

ModeAt(env, c, day, scope) ==
    LET own == {r \in env.rules : r[1] = c /\ r[2] = day /\ r[3] = scope}
        all == {r \in env.rules : r[1] = c /\ r[2] = day /\ r[3] = Everywhere}
    IN  IF own # {} THEN Only(own)[4] ELSE IF all # {} THEN Only(all)[4] ELSE "apply"

(* The splits that apply to a position.                                    *)
SplitsOf(env, row) ==
    IF row.code \notin DOMAIN env.splits THEN {}
    ELSE {s \in env.splits[row.code] :
             s[1] <= Today /\ ModeAt(env, row.code, s[1], Scope(row)) # "recorded"}

(* A trade is in old shares if the split came on a later day.              *)
Ratio(splits) == FoldSet(LAMBDA s, f : s[2] * f, 1, splits)
Factor(env, row) == Ratio({s \in SplitsOf(env, row) : s[1] > TradeDay(row)})

Scaled(env, row) ==
    LET f == Factor(env, row) IN [row EXCEPT !.qty = @ * f, !.price = @ \div f]

(* prepare: what every calculation works on; the entries stay as they are. *)
Identified(env, table) ==
    [i \in Entries(table) |-> [table[i] EXCEPT !.ident = Identity(env, table[i])]]
Linked(table) ==
    [i \in Entries(table) |-> [table[i] EXCEPT !.code = LinkedCode(table, i)]]
InNewShares(env, table) == [i \in Entries(table) |-> Scaled(env, table[i])]

OldShares(env, table) == Linked(Identified(env, table))
Prepared(env, table) == InNewShares(env, OldShares(env, table))

-----------------------------------------------------------------------------
(* Holdings by moving average, row by row in the order of their times;     *)
(* `rows' is a table of prepared rows, a history a set of them.            *)

Nothing == [qty |-> 0, cost |-> 0, avg |-> 0]

Bought(h, row) ==
    LET q == h.qty + row.qty
        c == h.cost + row.price * row.qty
    IN  [qty |-> q, cost |-> c, avg |-> IF q > 0 THEN c \div q ELSE h.avg]

Sold(h, row) ==
    IF h.qty <= row.qty THEN Nothing
    ELSE [h EXCEPT !.qty = @ - row.qty, !.cost = @ - h.avg * row.qty]

(* apply_trade: the holding after a row.                                   *)
Apply(row, h) ==
    CASE row.kind = "buy" -> Bought(h, row)
      [] row.kind = "sell" -> Sold(h, row)
      [] OTHER -> h

(* The settled trades of a position.                                       *)
History(rows, p) ==
    {rows[i] : i \in {j \in Entries(rows) : rows[j].settled /\ Position(rows[j]) = p}}

PastOf(rows, row) == {other \in History(rows, Position(row)) : Earlier(other, row)}

HoldingAfter(history) ==
    MapThenFoldSet(Apply, Nothing, LAMBDA row : row, Latest, history)
Holding(rows, p) == HoldingAfter(History(rows, p))
HoldingBefore(rows, row) == HoldingAfter(PastOf(rows, row))

PositionsOf(rows) == {Position(rows[i]) : i \in {j \in Entries(rows) : rows[j].settled}}

(* integrity.positions. *)
Holdings(rows) == [p \in PositionsOf(rows) |-> Holding(rows, p)]

-----------------------------------------------------------------------------
(* Profits.                                                                *)

Computed(row, h) == (row.price - h.avg) * row.qty

(* Mutant: a stored zero is a missing one.                                 *)
ProvidedIfNonzero(row) ==
    /\ row.pnl \notin {NoPnl, 0}
    /\ row.source \notin {"reconstructed", "unavailable"}

(* A profit from outside, which nothing here may replace.                  *)
Provided(row) ==
    /\ row.pnl # NoPnl
    /\ row.source \notin {"reconstructed", "unavailable"}

(* apply_trade: what a sell earned, by its stored amount if it has one.    *)
Realized(row, h) ==
    CASE row.kind # "sell" -> 0
      [] row.kind = "sell" /\ row.pnl # NoPnl -> row.pnl
      [] row.kind = "sell" /\ row.pnl = NoPnl ->
            IF row.source = "unavailable" THEN 0 ELSE Computed(row, h)

Rebuilt(rows, row, h) ==
    IF HoldingBefore(rows, row).qty >= row.qty /\ row.qty > 0
      THEN <<Computed(row, h), "reconstructed">>
      ELSE <<NoPnl, "unavailable">>

(* Mutant: the average of the whole history, later buys included.          *)
ReconstructedByLast(rows, row) ==
    Rebuilt(rows, row, HoldingAfter({other \in History(rows, Position(row)) :
                                        other.kind = "buy" \/ Earlier(other, row)}))

(* refresh: from the prices up to the sell, if the shares were there.      *)
Reconstructed(rows, row) == Rebuilt(rows, row, HoldingBefore(rows, row))

(* What a row shows when its prices say `rebuilt'.                         *)
StoredProfit(row, rebuilt) ==
    CASE Provided(row) -> <<row.pnl, "recorded">>
      [] ~Provided(row) /\ row.kind = "sell" /\ row.settled -> rebuilt
      [] OTHER -> <<NoPnl, NoSource>>

(* The columns of a row the computation reads; no stored profit.           *)
Bare(row) ==
    [id |-> row.id, kind |-> row.kind, qty |-> row.qty, price |-> row.price, at |-> row.at,
     abroad |-> row.abroad, broker |-> row.broker, ident |-> row.ident, code |-> row.code,
     name |-> row.name, settled |-> row.settled]

BareTable(table) == [i \in Entries(table) |-> Bare(table[i])]

(* realized_pnl.refresh: identities and profits of all trades.             *)
Refresh(env, table) ==
    LET rows == Prepared(env, BareTable(table))
    IN  [i \in Entries(table) |->
            LET new == StoredProfit(table[i], Reconstructed(rows, rows[i]))
            IN  [table[i] EXCEPT !.ident = Identity(env, table[i]),
                                 !.pnl = new[1], !.source = new[2]]]

-----------------------------------------------------------------------------
(* The check of a sell, see SellIntegrity; here on prepared rows.          *)

Delta(row) == CASE row.kind = "buy" -> row.qty [] row.kind = "sell" -> -row.qty [] OTHER -> 0
Net(history) == MapThenSumSet(Delta, history)

Available(rows, row) ==
    LET past == PastOf(rows, row)
        others == History(rows, Position(row)) \ {row}
    IN  Min({Net(past)} \cup {Net({other \in others : ~Earlier(last, other)}) :
                                last \in others \ past})

(* check_sell_integrity of row i of a table.                               *)
SellFault(env, table, i) ==
    /\ table[i].kind = "sell"
    /\ table[i].settled
    /\ LET rows == Prepared(env, table)
       IN  rows[i].qty > Available(rows, rows[i])
=============================================================================
