---------------------------- MODULE MCTradeLedger ----------------------------
(* Small worlds, each rich in one thing: orders and classes, splits, split *)
(* previews, another stock, names without codes, bots with profits of their*)
(* own, a curve of profits, openings of an account registered later.       *)
EXTENDS TradeScreens

CONSTANTS kis, kisName, c1, c2, n1, n2, A, B

MCIds == 1..4

Form(kinds, quantities, ats, codes, names, classes, brokers) ==
    {[kind |-> k, qty |-> q, price |-> 288 * a, at |-> a, code |-> c, name |-> n,
      class |-> l, broker |-> b, pnl |-> NoPnl] :
        k \in kinds, q \in quantities, a \in ats, c \in codes, n \in names,
        l \in classes, b \in brokers}

Fill(forms, pnls, abroads, statuses) ==
    {[form |-> [f EXCEPT !.pnl = p], abroad |-> a, settled |-> s] :
        f \in forms, p \in pnls, a \in abroads, s \in statuses}

NoSplits == [c \in {c1, c2} |-> {}]
Blank == [links |-> {}, owner |-> NoBroker, splits |-> NoSplits, rules |-> {}]
NoTable == <<>>

Quiet == [ids |-> 1..3, forms |-> {}, fills |-> {}, patches |-> {}, openings |-> {},
          mappings |-> {}, news |-> {}, rules |-> {}, starts |-> {Blank},
          tables |-> {NoTable}]

Both == {"buy", "sell"}

ClassesWorld ==
    [Quiet EXCEPT !.forms = Form(Both, {1, 2}, {2, 3}, {c1}, {n1}, {A, B}, {kis})]

SplitsWorld ==
    [Quiet EXCEPT !.forms = Form(Both, {1, 2}, {3, 4}, {c1}, {n1}, {A}, {kis}),
                  !.news = {<<c1, {<<2, 2>>}>>, <<c1, {<<2, 3>>, <<3, 2>>}>>}]

Row(i, kind, at, broker) ==
    [AsRow(i, CHOOSE f \in Form({kind}, {2}, {at}, {c1}, {n1}, {A}, {broker}) : TRUE)
        EXCEPT !.ident = broker]

Bought2 == <<Row(1, "buy", 3, kisName), Row(2, "sell", 4, kisName)>>
Other2 == <<[Row(3, "buy", 3, kisName) EXCEPT !.code = c2],
            [Row(4, "sell", 4, kisName) EXCEPT !.code = c2]>>

PreviewWorld ==
    [Quiet EXCEPT !.tables = {Bought2},
                  !.starts = {[Blank EXCEPT !.splits[c1] = {<<2, 2>>}]},
                  !.fills = Fill(Form({"buy"}, {1}, {3}, {c1}, {n1}, {A}, {kisName}),
                                 {NoPnl}, {FALSE}, {TRUE}),
                  !.mappings = {[links |-> {<<kis, kisName>>}, owner |-> NoBroker]},
                  !.news = {<<c1, {<<2, 4>>}>>},
                  !.rules = {<<c1, 2, Everywhere, "recorded">>, <<c1, 2, kisName, "recorded">>,
                             <<c1, 2, kisName, "apply">>}]

(* One rule for a stock, a split of another one in the same account.       *)
OtherStockWorld ==
    [PreviewWorld EXCEPT !.tables = {Bought2 \o Other2}, !.ids = {1, 3}, !.fills = {},
                         !.news = {<<c2, {<<2, 3>>}>>}, !.mappings = {}]

NamesWorld ==
    [Quiet EXCEPT !.forms = Form(Both, {1}, {2, 3}, {NoCode, c1, c2}, {n1}, {A}, {kis})]

BotsWorld ==
    [Quiet EXCEPT !.fills = Fill(Form(Both, {1}, {3, 4}, {c1}, {n1}, {A}, {kis}),
                                 {NoPnl, 0}, {FALSE}, {TRUE}),
                  !.patches = {[qty |-> 2], [settled |-> FALSE], [price |-> 576],
                               [pnl |-> 0], [pnl |-> NoPnl]},
                  !.forms = Form({"dividend"}, {1}, {4}, {NoCode}, {n1}, {A}, {kis}),
                  !.ids = 1..2]

ZonesWorld ==
    [Quiet EXCEPT !.fills = Fill(Form(Both, {1}, {3, 4}, {c1}, {n1}, {A}, {kis}),
                                 {NoPnl}, BOOLEAN, {TRUE}),
                  !.patches = {[at |-> 5], [name |-> n2]},
                  !.starts = {[Blank EXCEPT !.splits[c1] = {<<2, 2>>}]},
                  !.ids = 1..2]

CurveWorld ==
    [Quiet EXCEPT !.fills = Fill(Form({"sell"}, {1}, {2, 4}, {c1}, {n1}, {A}, {kis}),
                                 {-2, -1, 2}, {FALSE}, {TRUE}),
                  !.forms = {[f EXCEPT !.price = 1] :
                                f \in Form({"dividend"}, {1}, {3}, {c1}, {n1}, {A}, {kis})},
                  !.ids = 1..4]

OpeningsWorld ==
    [Quiet EXCEPT !.openings = Form({"buy"}, {1}, {2}, {c1}, {n1}, {A}, {NoBroker, kis}),
                  !.mappings = {[links |-> {}, owner |-> <<kis, kisName>>]},
                  !.tables = {NoTable, <<[Row(1, "buy", 2, NoBroker) EXCEPT !.bot = TRUE,
                                             !.key = [at |-> 2, code |-> c1, scope |-> OldKey]]>>}]

MCWorlds == <<ClassesWorld, SplitsWorld, PreviewWorld, OtherStockWorld, NamesWorld, BotsWorld,
              ZonesWorld, CurveWorld, OpeningsWorld>>
=============================================================================
