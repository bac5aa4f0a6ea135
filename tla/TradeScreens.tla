------------------------------ MODULE TradeScreens ------------------------------
(***************************************************************************)
(* What the screens compute from the trades of TradeLedger, each in its    *)
(* own pass over them: the portfolio and chart of services/journal.py, the *)
(* historical valuation of services/valuation.py, the statistics of        *)
(* services/stats.py and the recovery of services/analysis.py.             *)
(*                                                                         *)
(* A query is a class of trades or AnyClass.  Accounts excluded from the   *)
(* amounts, other currencies, hidden stocks and periods are left out; they *)
(* only take whole positions or days away.                                 *)
(***************************************************************************)
EXTENDS TradeLedger, Sequences

CONSTANTS
    AnyClass,
    NoDay       \* no date to show

Matches(row, class) == class = AnyClass \/ row.class = class

-----------------------------------------------------------------------------
(* Lots: what is left of each buy.  A lot that is used up stays, empty.    *)

Shares(lots, numbers) == MapThenSumSet(LAMBDA n : lots[n].qty, numbers)
Before(lots, n) == Shares(lots, 1..(n - 1))

(* What a sell takes of each lot, the oldest first.                        *)
Taken(lots, qty, n) == Min({lots[n].qty, Max({0, qty - Before(lots, n)})})

(* Mutant: a sell ends with the first lot that has shares.                 *)
ConsumeFirst(lots, qty) ==
    [n \in DOMAIN lots |->
        IF Before(lots, n) = 0 THEN [lots[n] EXCEPT !.qty = @ - Min({@, qty})] ELSE lots[n]]

(* _consume_lots. *)
Consume(lots, qty) ==
    [n \in DOMAIN lots |-> [lots[n] EXCEPT !.qty = @ - Taken(lots, qty, n)]]

Flat == [h |-> Nothing, lots |-> <<>>]

(* One trade in portfolio, chart and valuation: sells of every class use   *)
(* up lots, and nothing is left of a closed position.                      *)
Trade(row, p) ==
    LET h == Apply(row, p.h)
        lots == CASE row.kind = "buy" -> Append(p.lots, [qty |-> row.qty, class |-> row.class])
                  [] row.kind = "sell" -> Consume(p.lots, row.qty)
                  [] OTHER -> p.lots
    IN  [h |-> h, lots |-> IF row.kind = "sell" /\ h.qty = 0 THEN <<>> ELSE lots]

(* The rest of a position in the lots of a query.                          *)
Selected(p, class) ==
    Shares(p.lots, {n \in DOMAIN p.lots : Matches(p.lots[n], class)})

(* portfolio: a position after its rows, in new shares and by time.        *)
After(history) == MapThenFoldSet(Trade, Flat, LAMBDA row : row, Latest, history)

-----------------------------------------------------------------------------
(* Historical valuation: in the shares of the day, by trading day.         *)

TradeEvents(history) == {[day |-> TradeDay(row), rank |-> 1, row |-> row] : row \in history}

SplitsOn(history) == UNION {SplitsOf(env, row) : row \in history}

(* Mutant: a split comes after the trades of its day.                      *)
SplitEventsLate(history) ==
    {[day |-> s[1], rank |-> 2, ratio |-> s[2]] : s \in SplitsOn(history)}

(* A split comes before the trades of its day.                             *)
SplitEvents(history) ==
    {[day |-> s[1], rank |-> 0, ratio |-> s[2]] : s \in SplitsOn(history)}

Sooner(e, f) ==
    \/ e.day < f.day
    \/ e.day = f.day /\ e.rank < f.rank
    \/ e.day = f.day /\ e.rank = 1 /\ f.rank = 1 /\ Earlier(e.row, f.row)

LastEvent(events) == CHOOSE e \in events : \A f \in events : ~Sooner(e, f)

Split(ratio, p) ==
    IF p.h.qty = 0 THEN p
    ELSE [h |-> [p.h EXCEPT !.qty = @ * ratio, !.avg = @ \div ratio],
          lots |-> [n \in DOMAIN p.lots |-> [p.lots[n] EXCEPT !.qty = @ * ratio]]]

Happen(e, p) == IF e.rank = 1 THEN Trade(e.row, p) ELSE Split(e.ratio, p)

(* report: what the days up to today leave of a position; rows in shares   *)
(* of their day.                                                           *)
Valued(history) ==
    MapThenFoldSet(Happen, Flat, LAMBDA e : e, LastEvent,
                   TradeEvents(history) \cup SplitEvents(history))

-----------------------------------------------------------------------------
(* Statistics: one pass over the trades of all positions.                  *)

(* compute_trade_stats and its trade_facts: what a trade earned, and how   *)
(* many shares of a sell the lots it uses up account for.  Bots send a     *)
(* date, forms a date and a time.                                          *)
Fact(rows, row) ==
    LET p == After(PastOf(rows, row))
        sold == row.kind = "sell"
    IN  [day |-> TradeDay(row), hour |-> IF row.bot THEN 0 ELSE row.at,
         at |-> row.at, id |-> row.id, kind |-> row.kind,
         earned |-> IF row.kind = "dividend" THEN row.price * row.qty ELSE Realized(row, p.h),
         counts |-> row.kind = "dividend" \/ (sold /\ row.source # "unavailable"),
         matched |-> IF sold THEN MapThenSumSet(LAMBDA n : Taken(p.lots, row.qty, n), DOMAIN p.lots)
                             ELSE 0,
         missing |-> IF sold THEN Max({0, row.qty - p.h.qty}) ELSE 0]

Facts(rows) == {Fact(rows, rows[i]) : i \in {j \in Entries(rows) : rows[j].settled}}

(* Sorted by date and time of day, as before where they are the same.      *)
Precedes(f, g) ==
    \/ f.day < g.day
    \/ f.day = g.day /\ f.hour < g.hour
    \/ f.day = g.day /\ f.hour = g.hour /\ Earlier(f, g)

LastFact(facts) == CHOOSE f \in facts : \A g \in facts : ~Precedes(f, g)

(* realized_events: what the cumulative curve is made of.                  *)
Events(rows) == {f \in Facts(rows) : f.counts}

(* maxDrawdown with the dates of peak and trough.                          *)
Deepen(e, s) ==
    LET sum == s.sum + e.earned
        up == sum > s.peak
        peak == IF up THEN sum ELSE s.peak
        peakDay == IF up THEN e.day ELSE s.peakDay
        deeper == peak - sum > s.max
    IN  [sum |-> sum, peak |-> peak, peakDay |-> peakDay,
         max |-> IF deeper THEN peak - sum ELSE s.max,
         from |-> IF deeper THEN peakDay ELSE s.from,
         to |-> IF deeper THEN e.day ELSE s.to]

NoFall == [sum |-> 0, peak |-> 0, peakDay |-> NoDay, max |-> 0, from |-> NoDay, to |-> NoDay]

Drawdown(events) == MapThenFoldSet(Deepen, NoFall, LAMBDA e : e, LastFact, events)

(* recovery: the events here have dates only and include profits that are  *)
(* not known, as 0.                                                        *)
Returns(rows) ==
    {[f EXCEPT !.hour = 0] : f \in {g \in Facts(rows) : g.kind \in {"sell", "dividend"}}}

(* Mutant: a recovery once found stays, also under a deeper fall.          *)
RecoverOnce(e, s) ==
    LET sum == s.sum + e.earned
        deeper == s.peak - sum > s.largest
    IN  IF sum >= s.peak
          THEN [s EXCEPT !.sum = sum, !.peak = sum, !.inLargest = FALSE, !.open = FALSE,
                    !.back = IF s.open /\ s.inLargest /\ @ = NoDay THEN e.day ELSE @]
          ELSE [s EXCEPT !.sum = sum, !.open = TRUE,
                    !.largest = IF deeper THEN s.peak - sum ELSE @,
                    !.trough = IF deeper THEN e.day ELSE @,
                    !.inLargest = deeper \/ @]

(* One event in recovery; `back' is maxRecoveryDate.                       *)
Recover(e, s) ==
    LET sum == s.sum + e.earned
        deeper == s.peak - sum > s.largest
    IN  IF sum >= s.peak
          THEN [s EXCEPT !.sum = sum, !.peak = sum, !.inLargest = FALSE, !.open = FALSE,
                    !.back = IF s.open /\ s.inLargest /\ @ = NoDay THEN e.day ELSE @]
          ELSE [s EXCEPT !.sum = sum, !.open = TRUE,
                    !.largest = IF deeper THEN s.peak - sum ELSE @,
                    !.trough = IF deeper THEN e.day ELSE @,
                    !.back = IF deeper THEN NoDay ELSE @,
                    !.inLargest = deeper \/ @]

NoEpisode == [sum |-> 0, peak |-> 0, largest |-> 0, trough |-> NoDay, back |-> NoDay,
              open |-> FALSE, inLargest |-> FALSE]

Recovery(events) == MapThenFoldSet(Recover, NoEpisode, LAMBDA e : e, LastFact, events)

-----------------------------------------------------------------------------
Old == OldShares(env, ledger)
New == Prepared(env, ledger)

Classes == {ledger[i].class : i \in Entries(ledger)} \cup {AnyClass}

(* Trading days follow the times of the trades of a position, and none is  *)
(* known by a name only that is the code of the others.                    *)
Comparable(history) ==
    \A row, other \in history :
        /\ Earlier(row, other) => TradeDay(row) <= TradeDay(other)
        /\ row.code = other.code

SameShares(shown, valued) ==
    /\ \A c \in Classes : Selected(shown, c) = Selected(valued, c)
    /\ shown.h.qty = valued.h.qty

(* The portfolio, which computes in new shares, and the valuation, which   *)
(* goes through the days in old ones, end at the same shares of each class *)
(* and the same average price (README.en.md:324), as long as the trades of *)
(* the position were not recorded in two time zones.                       *)
ScreensAgree ==
    \A p \in PositionsOf(New) : Comparable(History(Old, p)) =>
        LET shown == After(History(New, p))
            valued == Valued(History(Old, p))
        IN  SameShares(shown, valued) /\ shown.h.avg = valued.h.avg

(* The lots of the classes together are the holding by moving average, and *)
(* every share a sell finds was bought before it: what the screens show by *)
(* class adds up to what they show without one.                            *)
LotsAreHoldings ==
    LET rows == New IN
    \A p \in PositionsOf(rows) :
        LET past == History(rows, p) IN
        /\ Selected(After(past), AnyClass) = HoldingAfter(past).qty
        /\ \A row \in past : row.kind = "sell" =>
              LET fact == Fact(rows, row) IN fact.matched + fact.missing = row.qty

(* The definitions: how high the curve of profits came, the deepest fall   *)
(* below an earlier value, where it first was that deep, and the first     *)
(* event after that at which the value it fell from is reached again.      *)
Total(events) == MapThenSumSet(LAMBDA e : e.earned, events)
UpTo(events, e) == {f \in events : ~Precedes(e, f)}
High(events) == Max({0} \cup {Total(UpTo(events, e)) : e \in events})
Fall(events) == High(events) - Total(events)
DeepestFall(events) == Max({0} \cup {Fall(UpTo(events, e)) : e \in events})

FirstFact(facts) == CHOOSE f \in facts : \A g \in facts : ~Precedes(g, f)
Troughs(events) == {e \in events : Fall(UpTo(events, e)) = DeepestFall(events)}
Trough(events) == FirstFact(Troughs(events))
BackAt(events) ==
    {e \in events : /\ Precedes(Trough(events), e)
                    /\ Total(UpTo(events, e)) >= High(UpTo(events, Trough(events)))}

FirstDay(events, facts) ==
    IF DeepestFall(events) = 0 \/ facts = {} THEN NoDay ELSE FirstFact(facts).day

(* On no day some trades came with a time and others without.              *)
OneKindADay(facts) ==
    \A f, g \in facts : f.day = g.day => (f.hour = 0 <=> g.hour = 0)

(* Statistics and analysis go through the profits once each, in passes of  *)
(* their own, and show that fall and that day: an old high, reached again, *)
(* ends the fall it belongs to and no other (test_analysis.py:122).  They  *)
(* show the same fall, though only the analysis counts in profits that are *)
(* not known, unless forms and bots share a day: the order is not the same *)
(* then.                                                                   *)
RecoveryIsReal ==
    LET known == Events(New)
        fall == Drawdown(known)
        all == Returns(New)
        shown == Recovery(all)
    IN  /\ fall.max = DeepestFall(known) /\ fall.to = FirstDay(known, Troughs(known))
        /\ shown.largest = DeepestFall(all) /\ shown.trough = FirstDay(all, Troughs(all))
        /\ shown.back = FirstDay(all, BackAt(all))
        /\ OneKindADay(Facts(New)) => fall.max = shown.largest /\ fall.to = shown.trough
=============================================================================
