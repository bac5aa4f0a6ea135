------------------------------ MODULE TradeLedger ------------------------------
(***************************************************************************)
(* The trades of one account and the profits stored in them: every write   *)
(* of services/entries.py and trading_api/routes.py as far as it bears on  *)
(* positions and profits, the registered brokers, the published splits and *)
(* the user's split rules.  realized_pnl.refresh runs inside the           *)
(* transaction of each of them; the browser only ever sees stored profits. *)
(*                                                                         *)
(* Whether the web asks before a buy is taken away, and which sells are    *)
(* marked for review, is in SellIntegrity; a user may always confirm, so   *)
(* every such step is possible here.  Revisions, receipts and attachments  *)
(* are in EntryStore and RestoreRecovery.                                  *)
(***************************************************************************)
EXTENDS TradeRules

CONSTANTS
    Ids,        \* entry ids, positive integers
    Worlds,     \* what users, bots and the vendor send in one behaviour
    NoKey,      \* an entry that is no opening balance
    OldKey,     \* the scope of a key from before opening keys had one
    NoPreview   \* no split preview on the screen

ASSUME IdsAssumption == Ids \subseteq Nat \ {0} /\ IsFiniteSet(Ids)

Columns == {"id", "kind", "qty", "price", "at", "abroad", "broker", "ident", "code", "name",
            "class", "settled", "bot", "key", "pnl", "source"}

(* Rows have their columns; a bot can name neither the id of a row nor the *)
(* source of a profit (_PATCHABLE has no such field); splits and rules are *)
(* those of codes.                                                         *)
ASSUME WorldsAssumption ==
    \A w \in DOMAIN Worlds :
        /\ Worlds[w].ids \subseteq Ids
        /\ \A t \in Worlds[w].tables :
              /\ Entries(t) \subseteq Ids /\ t = [i \in Entries(t) |-> t[i]]
              /\ \A i \in Entries(t) : Columns \subseteq DOMAIN t[i]
        /\ \A changes \in Worlds[w].patches : {"id", "source"} \cap DOMAIN changes = {}
        /\ \A rule \in Worlds[w].rules : rule[1] # NoCode
        /\ \A e \in Worlds[w].starts :
              {"links", "owner", "splits", "rules"} \subseteq DOMAIN e /\ NoCode \notin DOMAIN e.splits

(* Quantities, prices, times and profits are numbers.                      *)
Numbers(f) ==
    f.qty \in Nat /\ f.price \in Int /\ f.at \in Int /\ (f.pnl = NoPnl \/ f.pnl \in Int)

Ratios(splits) == IsFiniteSet(splits) /\ splits \subseteq Int \X (Nat \ {0})

ASSUME NumbersAssumption ==
    \A w \in DOMAIN Worlds :
        /\ \A f \in Worlds[w].forms \cup Worlds[w].openings : Numbers(f)
        /\ \A fill \in Worlds[w].fills : Numbers(fill.form)
        /\ \A t \in Worlds[w].tables : \A i \in Entries(t) : t[i].id = i /\ Numbers(t[i])
        /\ \A changes \in Worlds[w].patches :
              /\ "qty" \in DOMAIN changes => changes.qty \in Nat
              /\ "price" \in DOMAIN changes => changes.price \in Int
              /\ "at" \in DOMAIN changes => changes.at \in Int
              /\ "pnl" \in DOMAIN changes => changes.pnl = NoPnl \/ changes.pnl \in Int
        /\ \A e \in Worlds[w].starts : \A c \in DOMAIN e.splits : Ratios(e.splits[c])
        /\ \A n \in Worlds[w].news : Ratios(n[2])

VARIABLES
    ledger,     \* the trades in the entries table
    env,        \* links, owner, splits and rules, see TradeRules
    given,      \* the profit last reported for an entry, for the properties only
    preview,    \* what the split dialog shows, with the token it holds
    world       \* never changes

vars == <<ledger, env, given, preview, world>>

-----------------------------------------------------------------------------
(* Rows from input.                                                        *)

(* A web entry; bot rows differ in what follows.                           *)
AsRow(i, f) ==
    [id |-> i, kind |-> f.kind, qty |-> f.qty, price |-> f.price, at |-> f.at, abroad |-> FALSE,
     broker |-> f.broker, ident |-> NoBroker, code |-> f.code, name |-> f.name,
     class |-> f.class, settled |-> TRUE, bot |-> FALSE, key |-> NoKey,
     pnl |-> f.pnl, source |-> IF f.pnl = NoPnl THEN NoSource ELSE "recorded"]

(* find_account_mapping: the owner is the account's broker unless the row  *)
(* names another one.                                                      *)
NameOf(e, raw) ==
    IF \E p \in e.links : p[1] = raw THEN (CHOOSE p \in e.links : p[1] = raw)[2] ELSE raw

(* _resolve_account: the broker a bot's row is stored with.                *)
ResolvedBroker(e, raw) ==
    LET name == NameOf(e, raw)
    IN  IF e.owner # NoBroker /\ name \in {NoBroker, e.owner[1], e.owner[2]}
          THEN e.owner[2] ELSE name

NextId == Max({0} \cup Entries(ledger)) + 1

(* build_entry: the trade of a bot, and identify_entry of what it stores.  *)
AsBotRow(e, fill) ==
    LET row == [AsRow(NextId, fill.form) EXCEPT !.broker = ResolvedBroker(e, @), !.bot = TRUE,
                                        !.abroad = fill.abroad, !.settled = fill.settled]
    IN  [row EXCEPT !.ident = Identity(e, row)]

(* What a change of the row must concern for the profits to be looked at.  *)
HoldingColumns(row) ==
    <<row.qty, row.settled, row.name, row.code, row.kind, row.broker, row.ident,
      row.at, row.abroad>>

(* Mutant: the price is not among them.                                    *)
PnlColumnsWithoutPrice(row) == <<HoldingColumns(row), row.pnl, row.source>>
PnlColumns(row) == <<HoldingColumns(row), row.price, row.pnl, row.source>>

(* _refresh_pnl_if_changed: nothing is computed for a new class or text.   *)
RefreshIfChanged(i, new) ==
    LET t == With(ledger, i, new)
    IN  IF PnlColumns(ledger[i]) # PnlColumns(new) THEN Refresh(env, t) ELSE t

-----------------------------------------------------------------------------
(* The web.                                                                *)

(* entries.create: a sell beyond the shares is refused.                    *)
WebCreate(i, f) ==
    /\ i \notin Entries(ledger)
    /\ LET t == With(ledger, i, AsRow(i, f))
       IN  /\ ~SellFault(env, t, i)
           /\ ledger' = Refresh(env, t)
    /\ given' = [given EXCEPT ![i] = f.pnl]
    /\ UNCHANGED <<env, preview, world>>

(* entries.update: the form's columns over the stored row.                 *)
Typed(old, f) ==
    LET new == [old EXCEPT !.kind = f.kind, !.qty = f.qty, !.price = f.price, !.at = f.at,
                           !.broker = f.broker, !.code = f.code, !.name = f.name,
                           !.class = f.class,
                           !.ident = IF f.broker = old.broker THEN @ ELSE NoBroker]
    IN  [new EXCEPT !.ident = Identity(env, new)]

WebUpdate(i, f) ==
    /\ i \in Entries(ledger)
    /\ LET new == Typed(ledger[i], f)
       IN  /\ HoldingColumns(new) # HoldingColumns(ledger[i]) =>
                 ~SellFault(env, With(ledger, i, new), i)
           /\ ledger' = RefreshIfChanged(i, new)
    /\ UNCHANGED <<env, given, preview, world>>

(* entries.delete and delete_bot_trade. *)
Delete(i) ==
    /\ i \in Entries(ledger)
    /\ ledger' = Refresh(env, Without(ledger, i))
    /\ given' = [given EXCEPT ![i] = NoPnl]
    /\ UNCHANGED <<env, preview, world>>

-----------------------------------------------------------------------------
(* Bots.                                                                   *)

Insert(row) ==
    /\ NextId \in Worlds[world].ids
    /\ ledger' = Refresh(env, With(ledger, NextId, row))
    /\ given' = [given EXCEPT ![NextId] = row.pnl]
    /\ UNCHANGED <<env, preview, world>>

(* create_trade: an execution not seen before; sent twice, see BotTrades.  *)
BotInsert(fill) == Insert(AsBotRow(env, fill))

(* patch_bot_trade: only the named columns change.  A profit named, even   *)
(* as null, decides about its source.                                      *)
Patched(old, changes) ==
    LET new == [c \in DOMAIN old |-> IF c \in DOMAIN changes THEN changes[c] ELSE old[c]]
    IN  IF "pnl" \in DOMAIN changes
          THEN [new EXCEPT !.source = IF new.pnl = NoPnl THEN NoSource ELSE "recorded"]
          ELSE new

BotPatch(i, changes) ==
    /\ i \in Entries(ledger)
    /\ ledger[i].bot
    /\ ledger' = RefreshIfChanged(i, Patched(ledger[i], changes))
    /\ given' = IF "pnl" \in DOMAIN changes THEN [given EXCEPT ![i] = changes.pnl] ELSE given
    /\ UNCHANGED <<env, preview, world>>

(* opening_execution_id: an older key is used again if its row is of the   *)
(* same account.                                                           *)
OpeningKey(row) ==
    LET old == [at |-> row.at, code |-> row.code, scope |-> OldKey]
    IN  IF \E i \in Entries(ledger) : ledger[i].key = old /\ Scope(ledger[i]) = Scope(row)
          THEN old ELSE [old EXCEPT !.scope = Scope(row)]

(* create_opening_positions: a key in use is skipped.                      *)
Opening(f) ==
    LET row == AsBotRow(env, [form |-> f, abroad |-> FALSE, settled |-> TRUE])
        keyed == [row EXCEPT !.key = OpeningKey(row)]
    IN  /\ \A i \in Entries(ledger) : ledger[i].key # keyed.key
        /\ Insert(keyed)

-----------------------------------------------------------------------------
(* What the calculations rest on.                                          *)

(* accounts.save. *)
SaveMappings(m) ==
    /\ env' = [env EXCEPT !.links = m.links, !.owner = m.owner]
    /\ env' # env
    /\ ledger' = Refresh(env', ledger)
    /\ UNCHANGED <<given, preview, world>>

(* run_one: new splits of a stock refresh all who recorded its code.       *)
PublishSplits(c, news) ==
    /\ env.splits[c] # news
    /\ env' = [env EXCEPT !.splits[c] = news]
    /\ ledger' = IF \E i \in Entries(ledger) : ledger[i].code = c
                   THEN Refresh(env', ledger) ELSE ledger
    /\ UNCHANGED <<given, preview, world>>

(* _split_change: the stock is in the account, the split is known.         *)
MayRule(rule) ==
    /\ \E i \in Entries(ledger) :
          LET row == OldShares(env, ledger)[i]
          IN  row.code = rule[1] /\ rule[3] \in {Everywhere, Scope(row)}
    /\ \E s \in env.splits[rule[1]] : s[1] = rule[2]

Ruled(e, rule) ==
    [e EXCEPT !.rules = {r \in @ : <<r[1], r[2], r[3]>> # <<rule[1], rule[2], rule[3]>>}
                          \cup {rule}]

(* Mutant: the token does not cover the other rules.                       *)
SignatureWithoutRules(rule) ==
    <<rule, env.links, env.owner, ledger, {}, env.splits[rule[1]]>>

(* _split_signature.  A row's id and revision stand for its content, see   *)
(* RevisionNamesOneContent of EntryStore.                                  *)
Signature(rule) == <<rule, env.links, env.owner, ledger, env.rules, env.splits[rule[1]]>>

SettledSells(table) == {i \in Entries(table) : table[i].settled /\ table[i].kind = "sell"}

(* preview_split_rule: realized; what the prepared rows give for a sell.   *)
(* One of no shares adds nothing, as its amount would be zero.             *)
Earned(table, rows, i) ==
    LET h == HoldingBefore(rows, rows[i])
    IN  CASE Provided(table[i]) -> table[i].pnl
          [] ~Provided(table[i]) /\ h.qty >= rows[i].qty /\ rows[i].qty > 0 ->
                Computed(rows[i], h)
          [] OTHER -> 0

Outcome(e, table) ==
    LET rows == Prepared(e, BareTable(table))
    IN  <<Holdings(rows), SumFunction([i \in SettledSells(table) |-> Earned(table, rows, i)])>>

Preview(rule) ==
    /\ MayRule(rule)
    /\ preview' = [rule |-> rule, token |-> Signature(rule),
                   shown |-> Outcome(Ruled(env, rule), ledger)]
    /\ UNCHANGED <<ledger, env, given, world>>

(* set_split_rule. *)
SetRule(rule) ==
    /\ MayRule(rule)
    /\ env' = Ruled(env, rule)
    /\ ledger' = Refresh(env', ledger)
    /\ UNCHANGED <<given, world>>

(* From the dialog, whose token must still fit; a rule may be set without. *)
ConfirmRule ==
    /\ preview # NoPreview
    /\ preview.token = Signature(preview.rule)
    /\ SetRule(preview.rule)
    /\ preview' = NoPreview

SetRuleDirectly(rule) == SetRule(rule) /\ UNCHANGED preview

-----------------------------------------------------------------------------
Init ==
    /\ world \in DOMAIN Worlds
    /\ env \in Worlds[world].starts
    /\ \E t \in Worlds[world].tables : ledger = Refresh(env, t)
    /\ given = [i \in Ids |-> IF i \in Entries(ledger) /\ ledger[i].source = "recorded"
                               THEN ledger[i].pnl ELSE NoPnl]
    /\ preview = NoPreview

Next ==
    LET in == Worlds[world] IN
    \/ \E i \in in.ids, f \in in.forms : WebCreate(i, f) \/ WebUpdate(i, f)
    \/ \E i \in in.ids : Delete(i)
    \/ \E fill \in in.fills : BotInsert(fill)
    \/ \E i \in in.ids, changes \in in.patches : BotPatch(i, changes)
    \/ \E f \in in.openings : Opening(f)
    \/ \E m \in in.mappings : SaveMappings(m)
    \/ \E n \in in.news : PublishSplits(n[1], n[2])
    \/ \E rule \in in.rules : Preview(rule) \/ SetRuleDirectly(rule)
    \/ ConfirmRule

Spec == Init /\ [][Next]_vars

-----------------------------------------------------------------------------
(* Stored profits are what the trades, brokers and splits of now give, as  *)
(* if they were computed at every look (services/realized_pnl.py:1): no    *)
(* change of any of them leaves a profit behind, though most changes look  *)
(* only at some columns and some users.                                    *)
ProfitIsCurrent == ledger = Refresh(env, ledger)

(* A profit reported from outside is kept to the last digit, zero          *)
(* included, whatever happens to other trades, splits or brokers           *)
(* (trades.py:129).                                                        *)
ReportedProfitStays ==
    \A i \in Entries(ledger) :
        given[i] # NoPnl => ledger[i].pnl = given[i] /\ ledger[i].source = "recorded"

(* A row was added, earlier than no other, and nothing else happened.      *)
Appended(i) ==
    /\ Entries(ledger') = Entries(ledger) \cup {i} /\ i \notin Entries(ledger)
    /\ env' = env
    /\ \A j \in Entries(ledger) : ~Earlier(ledger'[i], ledger'[j])

(* The names of trades without a code still mean the same stocks.          *)
LinksStay ==
    \A j \in Entries(ledger) : LinkedCode(ledger', j) = LinkedCode(ledger, j)

(* A later trade changes no profit of an earlier sell (realized_pnl.py:4), *)
(* as long as it brings no code to a name that had none or another.        *)
EarlierProfitsStay ==
    [][\A i \in Ids : Appended(i) /\ LinksStay =>
          \A j \in Entries(ledger) : ledger'[j].pnl = ledger[j].pnl]_vars

StoredTotal(t) ==
    SumFunction([i \in SettledSells(t) |-> IF t[i].source = "unavailable" THEN 0 ELSE t[i].pnl])

HoldingsIn(t) == Holdings(Prepared(env', BareTable(t)))
OfStock(holdings, c) == {<<p, holdings[p]>> : p \in {q \in DOMAIN holdings : q[2] = c}}

(* What the split dialog promised is what confirming it does (the dialog   *)
(* of 22-data-audit.js:84), to the holdings of the stock and to the profit *)
(* realized with all stocks, whatever happened since the preview was made. *)
(* The token does not cover the splits of other stocks; but those that     *)
(* matter change stored profits, and with them the rows it does cover.     *)
PreviewIsWhatHappens ==
    [][ConfirmRule =>
          /\ OfStock(preview.shown[1], preview.rule[1])
                = OfStock(HoldingsIn(ledger'), preview.rule[1])
          /\ preview.shown[2] = StoredTotal(ledger')]_vars

=============================================================================
