-------------------------- MODULE TradeLedgerProofs --------------------------
(***************************************************************************)
(* Facts about stored profits and about what the screens compute, for any  *)
(* trades, brokers, splits and rules, however long the history.            *)
(*                                                                         *)
(* A profit reported from outside is never replaced: Refresh leaves alone  *)
(* what is Provided, and a Provided profit becomes and stays "recorded";   *)
(* so it is enough that every write puts a profit and its source into a    *)
(* row together.                                                           *)
(*                                                                         *)
(* The stored profits are current: Refresh twice is Refresh once, as it    *)
(* changes nothing it computes from (RefreshAgain); a correction that      *)
(* leaves PnlColumns alone leaves the computation alone (RefreshUnread);   *)
(* and so do the splits of a code nobody recorded, names without a code    *)
(* included (RefreshElsewhere).                                            *)
(*                                                                         *)
(* A later trade leaves the past of every sell alone (PastStays).  What a  *)
(* split dialog shows is computed from rows of its own stock, which its    *)
(* token names (RowsOfStock), and of the others from rows whose stored     *)
(* profits say the same before and after (CurrentWorth).                   *)
(*                                                                         *)
(* The screens go through sets of trades in an order.  Each pass is an     *)
(* instance of FoldLemmas, and what is said of it is proved by taking away *)
(* the last element: the lots of a position are its holding (LotsFit), a   *)
(* drawdown or a recovery found on the way is the one of the whole curve   *)
(* (DrawdownIsFall, RecoveryIsReturn), and day by day the valuation holds  *)
(* as many old shares as the portfolio holds new ones, divided by the      *)
(* splits still to come (DayAgrees).  All of this needs numbers in the     *)
(* rows, which is an invariant of its own (TradesAreNumbers).              *)
(***************************************************************************)
EXTENDS TradeScreens, FiniteSetTheorems, SequenceTheorems, TLAPS

(* What the refresh relies on: a table is a function, rows have their      *)
(* columns and env its parts.                                              *)
IsRow(row) == Columns \subseteq DOMAIN row
IsEnv(e) ==
    {"links", "owner", "splits", "rules"} \subseteq DOMAIN e /\ NoCode \notin DOMAIN e.splits

Table(t) ==
    /\ Entries(t) \subseteq Ids
    /\ t = [i \in Entries(t) |-> t[i]]
    /\ \A i \in Entries(t) : IsRow(t[i])

(* Row `row' shows profit p, if one was reported.                          *)
Shows(row, p) == p # NoPnl => row.pnl = p /\ row.source = "recorded"

Kept(t, g) == \A i \in Entries(t) : Shows(t[i], g[i])

Current(e, t) == t = Refresh(e, t)

LedgerInv ==
    /\ Table(ledger)
    /\ IsEnv(env)
    /\ given = [i \in Ids |-> given[i]]
    /\ Kept(ledger, given)
    /\ Current(env, ledger)

-----------------------------------------------------------------------------
(* The refresh of a row.                                                   *)

LEMMA StoredProfitOfProvided ==
    ASSUME NEW row, NEW rebuilt, NEW p, p # NoPnl, row.pnl = p, row.source = "recorded"
    PROVE  StoredProfit(row, rebuilt) = <<p, "recorded">>
BY DEF StoredProfit, Provided

(* The profit of a row depends on no other columns than these.             *)
LEMMA StoredProfitReads ==
    ASSUME NEW row, NEW other, NEW rebuilt,
           other.kind = row.kind, other.settled = row.settled,
           other.pnl = row.pnl, other.source = row.source
    PROVE  StoredProfit(other, rebuilt) = StoredProfit(row, rebuilt)
BY DEF StoredProfit, Provided

(* A profit once stored is stored again.                                   *)
LEMMA StoredProfitAgain ==
    ASSUME NEW row, NEW again, NEW rebuilt, NEW amount,
           rebuilt \in {<<amount, "reconstructed">>, <<NoPnl, "unavailable">>},
           again.kind = row.kind, again.settled = row.settled,
           again.pnl = StoredProfit(row, rebuilt)[1], again.source = StoredProfit(row, rebuilt)[2]
    PROVE  StoredProfit(again, rebuilt) = StoredProfit(row, rebuilt)
<1>1. CASE Provided(row)
    BY <1>1 DEF StoredProfit, Provided
<1>2. CASE ~Provided(row) /\ row.kind = "sell" /\ row.settled
    <2>1. StoredProfit(row, rebuilt) = rebuilt
        BY <1>2 DEF StoredProfit
    <2>2. ~Provided(again)
        BY <2>1 DEF Provided
    <2> QED
        BY <1>2, <2>1, <2>2 DEF StoredProfit
<1>3. CASE ~Provided(row) /\ ~(row.kind = "sell" /\ row.settled)
    BY <1>3 DEF StoredProfit, Provided
<1> QED
    BY <1>1, <1>2, <1>3

(* An identity found once is found again.                                  *)
LEMMA IdentityAgain ==
    ASSUME NEW e, NEW row, NEW again,
           again.broker = row.broker, again.ident = Identity(e, row)
    PROVE  Identity(e, again) = Identity(e, row)
BY DEF Identity

LEMMA IdentityReads ==
    ASSUME NEW e, NEW row, NEW other, other.broker = row.broker, other.ident = row.ident
    PROVE  Identity(e, other) = Identity(e, row)
BY DEF Identity

(* What a refreshed row is.                                                *)
Rows(e, t) == Prepared(e, BareTable(t))
Rebuild(e, t, i) == Reconstructed(Rows(e, t), Rows(e, t)[i])
Profit(e, t, i) == StoredProfit(t[i], Rebuild(e, t, i))
Written(row, ident, p) == [row EXCEPT !.ident = ident, !.pnl = p[1], !.source = p[2]]

LEMMA RebuildIs ==
    ASSUME NEW e, NEW t, NEW i
    PROVE  \E amount : Rebuild(e, t, i) \in {<<amount, "reconstructed">>, <<NoPnl, "unavailable">>}
BY DEF Rebuild, Reconstructed, Rebuilt

LEMMA RefreshDomain ==
    ASSUME NEW e, NEW t
    PROVE  /\ Entries(Refresh(e, t)) = Entries(t)
           /\ Refresh(e, t) = [i \in Entries(t) |-> Refresh(e, t)[i]]
BY DEF Refresh, Entries

LEMMA RefreshAt ==
    ASSUME NEW e, NEW t, NEW i \in Entries(t)
    PROVE  Refresh(e, t)[i] = Written(t[i], Identity(e, t[i]), Profit(e, t, i))
BY DEF Refresh, Profit, Rebuild, Rows, Written

LEMMA WrittenRow ==
    ASSUME NEW row, NEW ident, NEW p
    PROVE  LET new == Written(row, ident, p)
           IN  /\ DOMAIN new = DOMAIN row
               /\ new = [c \in DOMAIN new |-> new[c]]
               /\ IsRow(row) =>
                     /\ IsRow(new) /\ new.ident = ident /\ new.pnl = p[1] /\ new.source = p[2]
                     /\ \A c \in Columns \ {"pnl", "source", "ident"} : new[c] = row[c]
BY DEF Written, IsRow, Columns

(* Nothing new is written.                                                 *)
LEMMA WrittenSame ==
    ASSUME NEW row, NEW ident, NEW p, IsRow(row), row = [c \in DOMAIN row |-> row[c]],
           row.ident = ident, row.pnl = p[1], row.source = p[2]
    PROVE  Written(row, ident, p) = row
BY DEF Written, IsRow, Columns

LEMMA RefreshRow ==
    ASSUME NEW e, NEW t, Table(t), NEW i \in Entries(t)
    PROVE  /\ IsRow(Refresh(e, t)[i])
           /\ Refresh(e, t)[i].pnl = Profit(e, t, i)[1]
           /\ Refresh(e, t)[i].source = Profit(e, t, i)[2]
           /\ Refresh(e, t)[i].ident = Identity(e, t[i])
           /\ \A c \in Columns \ {"pnl", "source", "ident"} : Refresh(e, t)[i][c] = t[i][c]
<1>1. IsRow(t[i])
    BY DEF Table
<1> QED
    BY <1>1, RefreshAt, WrittenRow

(* A table stays one, and what it showed of profits it shows.              *)
LEMMA RefreshKeeps ==
    ASSUME NEW e, NEW t, NEW g, Table(t), Kept(t, g)
    PROVE  Table(Refresh(e, t)) /\ Kept(Refresh(e, t), g)
<1>1. ASSUME NEW i \in Entries(t)
      PROVE  IsRow(Refresh(e, t)[i]) /\ Shows(Refresh(e, t)[i], g[i])
    <2>1. IsRow(Refresh(e, t)[i])
        BY RefreshRow
    <2>2. ASSUME g[i] # NoPnl
          PROVE  Refresh(e, t)[i].pnl = g[i] /\ Refresh(e, t)[i].source = "recorded"
        <3>1. t[i].pnl = g[i] /\ t[i].source = "recorded"
            BY <2>2 DEF Kept, Shows
        <3>2. Profit(e, t, i) = <<g[i], "recorded">>
            BY <2>2, <3>1, StoredProfitOfProvided DEF Profit
        <3> QED
            BY <3>2, RefreshRow
    <2> QED
        BY <2>1, <2>2 DEF Shows
<1> QED
    BY <1>1, RefreshDomain DEF Table, Kept

-----------------------------------------------------------------------------
(* The refresh of a table: what it computes from stays.                    *)

(* Tables of the same rows but for identities that come out the same.      *)
LEMMA PreparedReads ==
    ASSUME NEW e, NEW t, NEW s, Entries(s) = Entries(t),
           \A i \in Entries(t) :
              /\ \A c \in {"id", "kind", "qty", "price", "at", "abroad", "broker", "code",
                            "name", "settled"} : s[i][c] = t[i][c]
              /\ Identity(e, s[i]) = Identity(e, t[i])
    PROVE  Rows(e, s) = Rows(e, t)
<1>1. ASSUME NEW i \in Entries(t)
      PROVE  Identified(e, BareTable(s))[i] = Identified(e, BareTable(t))[i]
    <2> DEFINE b == Bare(s[i])
               a == Bare(t[i])
               ident == Identity(e, t[i])
    <2>1. Identity(e, b) = Identity(e, s[i]) /\ Identity(e, a) = Identity(e, t[i])
        BY IdentityReads DEF Bare
    <2>2. Identity(e, b) = ident /\ Identity(e, a) = ident
        BY <2>1
    <2>3. /\ Identified(e, BareTable(s))[i] = [b EXCEPT !.ident = Identity(e, b)]
          /\ Identified(e, BareTable(t))[i] = [a EXCEPT !.ident = Identity(e, a)]
        BY DEF Identified, BareTable, Entries
    <2> HIDE DEF ident
    <2>4. [b EXCEPT !.ident = ident] = [a EXCEPT !.ident = ident]
        BY DEF Bare
    <2> QED
        BY <2>2, <2>3, <2>4
<1>2. Identified(e, BareTable(s)) = Identified(e, BareTable(t))
    BY <1>1 DEF Identified, BareTable, Entries
<1> QED
    BY <1>2 DEF Rows, Prepared, OldShares

(* What a refresh computes from is the same after it.                      *)
LEMMA RowsAgain ==
    ASSUME NEW e, NEW t, Table(t)
    PROVE  Rows(e, Refresh(e, t)) = Rows(e, t)
<1> DEFINE r == Refresh(e, t)
<1>1. Entries(r) = Entries(t)
    BY RefreshDomain
<1>2. ASSUME NEW i \in Entries(t)
      PROVE  /\ \A c \in Columns \ {"pnl", "source", "ident"} : r[i][c] = t[i][c]
             /\ Identity(e, r[i]) = Identity(e, t[i])
    <2>1. /\ \A c \in Columns \ {"pnl", "source", "ident"} : r[i][c] = t[i][c]
          /\ r[i].ident = Identity(e, t[i])
        BY RefreshRow
    <2>2. r[i].broker = t[i].broker
        BY <2>1 DEF Columns
    <2> QED
        BY <2>1, <2>2, IdentityAgain
<1> HIDE DEF r
<1> QED
    BY <1>1, <1>2, PreparedReads DEF Columns, r

(* What is current is current at the next look.                            *)
LEMMA RefreshAgain ==
    ASSUME NEW e, NEW t, Table(t)
    PROVE  Current(e, Refresh(e, t))
<1> DEFINE r == Refresh(e, t)
<1>1. Entries(r) = Entries(t) /\ r = [i \in Entries(t) |-> r[i]]
    BY RefreshDomain
<1>2. Table(r)
    <2>1. \A i \in Entries(t) : IsRow(r[i])
        BY RefreshRow
    <2> QED
        BY <1>1, <2>1 DEF Table
<1>3. ASSUME NEW i \in Entries(t)
      PROVE  /\ \A c \in Columns \ {"pnl", "source", "ident"} : r[i][c] = t[i][c]
             /\ Identity(e, r[i]) = Identity(e, t[i])
             /\ r[i].ident = Identity(e, t[i])
    <2>1. /\ \A c \in Columns \ {"pnl", "source", "ident"} : r[i][c] = t[i][c]
          /\ r[i].ident = Identity(e, t[i])
        BY RefreshRow
    <2>2. r[i].broker = t[i].broker
        BY <2>1 DEF Columns
    <2> QED
        BY <2>1, <2>2, IdentityAgain
<1>4. Rows(e, r) = Rows(e, t)
    BY RowsAgain
<1>5. ASSUME NEW i \in Entries(t)
      PROVE  Refresh(e, r)[i] = r[i]
    <2>1. r[i].kind = t[i].kind /\ r[i].settled = t[i].settled
        BY <1>3 DEF Columns
    <2>2. r[i].pnl = Profit(e, t, i)[1] /\ r[i].source = Profit(e, t, i)[2]
        BY RefreshRow
    <2>3. Profit(e, r, i) = Profit(e, t, i)
        <3>1. Rebuild(e, r, i) = Rebuild(e, t, i)
            BY <1>4 DEF Rebuild
        <3> HIDE DEF r
        <3> QED
            BY <2>1, <2>2, <3>1, RebuildIs, StoredProfitAgain DEF Profit
    <2>4. r[i] = [c \in DOMAIN r[i] |-> r[i][c]] /\ IsRow(r[i])
        BY <1>1, <1>2, RefreshAt, WrittenRow DEF Table
    <2>5. Refresh(e, r)[i] = Written(r[i], r[i].ident, Profit(e, t, i))
        BY <1>1, <1>3, <2>3, RefreshAt
    <2> QED
        BY <2>2, <2>4, <2>5, WrittenSame
<1>6. Refresh(e, r) = r
    BY <1>1, <1>5, RefreshDomain
<1> QED
    BY <1>6 DEF Current

(* A row written anew, but not in the columns the profits depend on.       *)
LEMMA RefreshUnread ==
    ASSUME NEW e, NEW t, Table(t), Current(e, t), NEW i \in Entries(t), NEW new,
           IsRow(new), new = [c \in DOMAIN new |-> new[c]], new.id = t[i].id,
           PnlColumns(new) = PnlColumns(t[i])
    PROVE  Current(e, With(t, i, new))
<1> DEFINE s == With(t, i, new)
<1>1. Entries(s) = Entries(t) /\ s = [j \in Entries(t) |-> s[j]]
    BY DEF With, Entries
<1>2. s[i] = new /\ \A j \in Entries(t) : j # i => s[j] = t[j]
    BY DEF With, Entries
<1> HIDE DEF s
<1>3. \A c \in Columns \ {"class", "bot", "key"} : new[c] = t[i][c]
    BY DEF PnlColumns, HoldingColumns, Columns
<1>4. Rows(e, s) = Rows(e, t)
    <2>1. new.broker = t[i].broker /\ new.ident = t[i].ident
        BY <1>3 DEF Columns
    <2>2. ASSUME NEW j \in Entries(t)
          PROVE  /\ \A c \in Columns \ {"class", "bot", "key"} : s[j][c] = t[j][c]
                 /\ Identity(e, s[j]) = Identity(e, t[j])
        <3>1. CASE j = i
            BY <1>2, <1>3, <2>1, <3>1, IdentityReads
        <3>2. CASE j # i
            BY <1>2, <3>2
        <3> QED
            BY <3>1, <3>2
    <2> QED
        BY <1>1, <2>2, PreparedReads DEF Columns
<1>5. \A j \in Entries(t) : Refresh(e, t)[j] = t[j]
    BY DEF Current
<1>6. ASSUME NEW j \in Entries(t), j # i
      PROVE  Refresh(e, s)[j] = s[j]
    BY <1>1, <1>2, <1>4, <1>5, <1>6, RefreshAt DEF Profit, Rebuild
<1>7. Refresh(e, s)[i] = s[i]
    <2>1. /\ t[i].ident = Identity(e, t[i])
          /\ t[i].pnl = Profit(e, t, i)[1] /\ t[i].source = Profit(e, t, i)[2]
        BY <1>5, RefreshRow
    <2>2. /\ new.broker = t[i].broker /\ new.ident = t[i].ident /\ new.kind = t[i].kind
          /\ new.settled = t[i].settled /\ new.pnl = t[i].pnl /\ new.source = t[i].source
        BY <1>3 DEF Columns
    <2>3. Profit(e, s, i) = Profit(e, t, i)
        BY <1>2, <1>4, <2>2, StoredProfitReads DEF Profit, Rebuild
    <2>4. Identity(e, new) = Identity(e, t[i])
        BY <2>2, IdentityReads
    <2>5. Refresh(e, s)[i] = Written(new, Identity(e, new), Profit(e, s, i))
        BY <1>1, <1>2, RefreshAt
    <2> QED
        BY <1>2, <2>1, <2>2, <2>3, <2>4, <2>5, WrittenSame
<1>8. Refresh(e, s) = s
    BY <1>1, <1>6, <1>7, RefreshDomain
<1> QED
    BY <1>8 DEF Current, s

-----------------------------------------------------------------------------
(* Splits of a code nobody recorded.                                       *)

(* Brokers are about links and owner, and so are codes of names.           *)
LEMMA AliasesRead ==
    ASSUME NEW e, NEW f, f.links = e.links, f.owner = e.owner
    PROVE  \A row : Identity(f, row) = Identity(e, row)
<1>1. Pairs(f) = Pairs(e)
    BY DEF Pairs
<1>2. \A raw : CodesFor(f, raw) = CodesFor(e, raw)
    BY <1>1 DEF CodesFor
<1>3. \A raw : Alias(f, raw) = Alias(e, raw)
    BY <1>2 DEF Alias
<1> QED
    BY <1>3 DEF Identity

LEMMA OldSharesReads ==
    ASSUME NEW e, NEW f, f.links = e.links, f.owner = e.owner, NEW b
    PROVE  OldShares(f, b) = OldShares(e, b)
<1>1. Identified(f, b) = Identified(e, b)
    BY AliasesRead DEF Identified
<1> QED
    BY <1>1 DEF OldShares

(* Environments that differ at most in the splits and rules of others.     *)
SameSplits(e, f, c) ==
    /\ c \in DOMAIN f.splits <=> c \in DOMAIN e.splits
    /\ f.splits[c] = e.splits[c]
    /\ {r \in f.rules : r[1] = c} = {r \in e.rules : r[1] = c}

LEMMA ScaledSame ==
    ASSUME NEW e, NEW f, NEW row, SameSplits(e, f, row.code)
    PROVE  Scaled(f, row) = Scaled(e, row)
<1>1. ASSUME NEW day, NEW scope
      PROVE  {r \in f.rules : r[1] = row.code /\ r[2] = day /\ r[3] = scope}
                = {r \in e.rules : r[1] = row.code /\ r[2] = day /\ r[3] = scope}
    BY DEF SameSplits
<1>2. ASSUME NEW day
      PROVE  ModeAt(f, row.code, day, Scope(row)) = ModeAt(e, row.code, day, Scope(row))
    <2> DEFINE of(rules, scope) == {r \in rules : r[1] = row.code /\ r[2] = day /\ r[3] = scope}
    <2>1. /\ of(f.rules, Scope(row)) = of(e.rules, Scope(row))
          /\ of(f.rules, Everywhere) = of(e.rules, Everywhere)
        BY <1>1
    <2>2. \A g : ModeAt(g, row.code, day, Scope(row)) =
             IF of(g.rules, Scope(row)) # {} THEN Only(of(g.rules, Scope(row)))[4]
             ELSE IF of(g.rules, Everywhere) # {} THEN Only(of(g.rules, Everywhere))[4]
             ELSE "apply"
        BY DEF ModeAt
    <2> HIDE DEF of
    <2> QED
        BY <2>1, <2>2
<1>3. SplitsOf(f, row) = SplitsOf(e, row)
    BY <1>2 DEF SplitsOf, SameSplits
<1> QED
    BY <1>3 DEF Scaled, Factor

(* A name without a code takes one that was recorded.                      *)
LEMMA LinkedCodeIsRecorded ==
    ASSUME NEW t, NEW i \in Entries(t)
    PROVE  \E j \in Entries(t) : LinkedCode(t, i) = t[j].code
<1> DEFINE codes == CodesOf(t, Scope(t[i]), t[i].name)
<1>1. CASE t[i].code = NoCode /\ Cardinality(codes) = 1
    <2>1. codes # {}
        BY <1>1, FS_EmptySet
    <2>2. LinkedCode(t, i) = Only(codes)
        BY <1>1 DEF LinkedCode
    <2>3. LinkedCode(t, i) \in codes
        <3> HIDE DEF codes
        <3> QED
            BY <2>1, <2>2 DEF Only
    <2> QED
        BY <2>3 DEF CodesOf
<1>2. CASE ~(t[i].code = NoCode /\ Cardinality(codes) = 1)
    BY <1>2 DEF LinkedCode
<1> QED
    BY <1>1, <1>2

Published(e, c, news) == [e EXCEPT !.splits[c] = news]

LEMMA SplitsElsewhere ==
    ASSUME NEW e, IsEnv(e), NEW c, NEW news, NEW row, row.code # c
    PROVE  Scaled(Published(e, c, news), row) = Scaled(e, row)
<1> DEFINE e2 == Published(e, c, news)
<1>1. e2.splits = [e.splits EXCEPT ![c] = news] /\ e2.rules = e.rules
    BY DEF IsEnv, Published
<1> HIDE DEF e2
<1>2. SameSplits(e, e2, row.code)
    BY <1>1 DEF SameSplits
<1> QED
    BY <1>2, ScaledSame DEF e2

LEMMA RefreshElsewhere ==
    ASSUME NEW e, IsEnv(e), NEW t, Table(t), Current(e, t), NEW c, NEW news,
           \A i \in Entries(t) : t[i].code # c
    PROVE  Current(Published(e, c, news), t)
<1> DEFINE e2 == Published(e, c, news)
           b == BareTable(t)
<1>1. e2.links = e.links /\ e2.owner = e.owner
    BY DEF IsEnv, Published
<1>2. OldShares(e2, b) = OldShares(e, b)
    <2> HIDE DEF e2, b
    <2> QED
        BY <1>1, OldSharesReads
<1> DEFINE o == OldShares(e, b)
<1>3. \A i \in Entries(o) : o[i].code # c
    <2> DEFINE d == Identified(e, b)
    <2>1. Entries(d) = Entries(t) /\ \A i \in Entries(t) : d[i].code = t[i].code /\ "code" \in DOMAIN d[i]
        BY DEF Identified, BareTable, Bare, Entries
    <2> HIDE DEF d
    <2>2. ASSUME NEW i \in Entries(d)
          PROVE  Linked(d)[i].code # c
        <3>1. PICK j \in Entries(d) : LinkedCode(d, i) = d[j].code
            BY LinkedCodeIsRecorded
        <3>2. Linked(d)[i] = [d[i] EXCEPT !.code = LinkedCode(d, i)]
            BY DEF Linked
        <3>3. Linked(d)[i].code = LinkedCode(d, i)
            BY <2>1, <3>2
        <3> QED
            BY <2>1, <3>1, <3>3
    <2>3. Entries(Linked(d)) = Entries(d)
        BY DEF Linked, Entries
    <2> QED
        BY <2>2, <2>3 DEF OldShares, d
<1>4. InNewShares(e2, o) = InNewShares(e, o)
    <2> HIDE DEF o
    <2>1. \A i \in Entries(o) : Scaled(e2, o[i]) = Scaled(e, o[i])
        BY <1>3, SplitsElsewhere
    <2> HIDE DEF e2
    <2> QED
        BY <2>1 DEF InNewShares
<1>5. Rows(e2, t) = Rows(e, t)
    BY <1>2, <1>4 DEF Prepared, Rows
<1> HIDE DEF e2
<1>6. ASSUME NEW i \in Entries(t)
      PROVE  Refresh(e2, t)[i] = Refresh(e, t)[i]
    BY <1>1, <1>5, AliasesRead, RefreshAt DEF Profit, Rebuild
<1>7. Refresh(e2, t) = Refresh(e, t)
    BY <1>6, RefreshDomain
<1> QED
    BY <1>7 DEF Current, e2

-----------------------------------------------------------------------------
(* A later row changes no past.                                            *)

LEMMA LinkedCodeReads ==
    ASSUME NEW s, NEW t, Entries(s) = Entries(t),
           \A i \in Entries(t) :
              s[i].ident = t[i].ident /\ s[i].name = t[i].name /\ s[i].code = t[i].code
    PROVE  \A i \in Entries(t) : LinkedCode(s, i) = LinkedCode(t, i)
<1>1. \A scope, name : CodesOf(s, scope, name) = CodesOf(t, scope, name)
    BY DEF CodesOf, Scope
<1> QED
    BY <1>1 DEF LinkedCode, Scope

Coded(row, code) == [Bare(row) EXCEPT !.code = code]

LEMMA CodedRow ==
    ASSUME NEW row, NEW code
    PROVE  LET new == Coded(row, code)
           IN  /\ new.code = code /\ new.ident = row.ident /\ new.name = row.name
               /\ new.settled = row.settled /\ new.at = row.at /\ new.id = row.id
               /\ new.kind = row.kind
               /\ {"qty", "price", "code", "ident", "name", "settled", "at", "id", "kind"}
                     \subseteq DOMAIN new
BY DEF Coded, Bare

(* New shares are about quantity and price only.                           *)
LEMMA ScaledRow ==
    ASSUME NEW e, NEW row
    PROVE  LET new == Scaled(e, row)
           IN  /\ new.code = row.code /\ new.ident = row.ident /\ new.name = row.name
               /\ new.settled = row.settled /\ new.at = row.at /\ new.id = row.id
               /\ new.kind = row.kind
<1> DEFINE f == Factor(e, row)
<1> HIDE DEF f
<1>1. Scaled(e, row) = [row EXCEPT !.qty = @ * f, !.price = @ \div f]
    BY DEF Scaled, f
<1> QED
    BY <1>1

(* The prepared rows of any table.                                         *)
LEMMA RowsAt ==
    ASSUME NEW e, NEW t
    PROVE  /\ Entries(Rows(e, t)) = Entries(t)
           /\ \A i \in Entries(t) :
                 Rows(e, t)[i] = Scaled(e, OldShares(e, BareTable(t))[i])
BY DEF Rows, Prepared, InNewShares, OldShares, Linked, Identified, BareTable, Entries

(* In a current table identities are found already.                        *)
LEMMA CurrentRowsAt ==
    ASSUME NEW e, NEW t, Table(t), Current(e, t), NEW i \in Entries(t)
    PROVE  Rows(e, t)[i] = Scaled(e, Coded(t[i], LinkedCode(t, i)))
<1> DEFINE b == BareTable(t)
           d == Identified(e, b)
<1>1. Entries(d) = Entries(t)
    BY DEF Identified, BareTable, Entries
<1>2. ASSUME NEW j \in Entries(t)
      PROVE  d[j] = Bare(t[j])
    <2>1. Refresh(e, t)[j] = t[j]
        BY DEF Current
    <2>2. t[j].ident = Identity(e, t[j])
        BY <2>1, RefreshRow
    <2>3. d[j] = [Bare(t[j]) EXCEPT !.ident = Identity(e, Bare(t[j]))]
        BY DEF Identified, BareTable, Entries
    <2>4. Identity(e, Bare(t[j])) = Identity(e, t[j])
        BY IdentityReads DEF Bare
    <2> DEFINE row == t[j]
               ident == row.ident
    <2>5. d[j] = [Bare(row) EXCEPT !.ident = ident]
        BY <2>2, <2>3, <2>4
    <2> HIDE DEF row, d
    <2>6. [Bare(row) EXCEPT !.ident = ident] = Bare(row)
        BY DEF Bare
    <2> QED
        BY <2>5, <2>6 DEF row
<1> HIDE DEF d
<1>3. LinkedCode(d, i) = LinkedCode(t, i)
    <2>1. ASSUME NEW j \in Entries(t)
          PROVE  d[j].ident = t[j].ident /\ d[j].name = t[j].name /\ d[j].code = t[j].code
        <3>1. d[j] = Bare(t[j])
            BY <1>2
        <3> HIDE DEF d
        <3> QED
            BY <3>1 DEF Bare
    <2> QED
        BY <1>1, <2>1, LinkedCodeReads
<1>4. OldShares(e, b)[i] = [d[i] EXCEPT !.code = LinkedCode(d, i)]
    BY <1>1 DEF OldShares, Linked, d, Entries
<1> QED
    BY <1>2, <1>3, <1>4, RowsAt DEF Coded

(* A profit is rebuilt from the row and the rows before it.                *)
LEMMA RebuiltFromPast ==
    ASSUME NEW rows, NEW more, NEW i, more[i] = rows[i],
           PastOf(more, more[i]) = PastOf(rows, rows[i])
    PROVE  Reconstructed(more, more[i]) = Reconstructed(rows, rows[i])
BY DEF Reconstructed, Rebuilt, HoldingBefore

(* A row that is not earlier than row j is not of its past.                *)
LEMMA PastStays ==
    ASSUME NEW rows, NEW more, NEW i, Entries(more) = Entries(rows) \cup {i},
           \A k \in Entries(rows) : more[k] = rows[k],
           NEW j \in Entries(rows), ~Earlier(more[i], more[j])
    PROVE  PastOf(more, more[j]) = PastOf(rows, rows[j])
<1> DEFINE p == Position(rows[j])
<1>1. more[j] = rows[j]
    OBVIOUS
<1>2. ASSUME NEW other
      PROVE  other \in PastOf(more, more[j]) <=> other \in PastOf(rows, rows[j])
    <2>1. other \in PastOf(more, more[j]) <=>
             \E k \in Entries(more) : /\ more[k].settled /\ Position(more[k]) = p
                                      /\ other = more[k] /\ Earlier(more[k], more[j])
        BY <1>1 DEF PastOf, History
    <2>2. other \in PastOf(rows, rows[j]) <=>
             \E k \in Entries(rows) : /\ rows[k].settled /\ Position(rows[k]) = p
                                      /\ other = rows[k] /\ Earlier(rows[k], rows[j])
        BY DEF PastOf, History
    <2> QED
        BY <1>1, <2>1, <2>2
<1>3. PastOf(more, more[j]) \subseteq PastOf(rows, rows[j])
    BY <1>2
<1>4. PastOf(rows, rows[j]) \subseteq PastOf(more, more[j])
    BY <1>2
<1> QED
    BY <1>3, <1>4

(* The table with a row more, and what stays of the other rows.            *)
LEMMA AddedRow ==
    ASSUME LedgerInv, LedgerInv', env' = env, NEW i \in Ids, NEW row, IsRow(row),
           ledger' = Refresh(env, With(ledger, i, row)), Appended(i), LinksStay,
           NEW j \in Entries(ledger)
    PROVE  ledger'[j].pnl = ledger[j].pnl
<1> DEFINE t == With(ledger, i, row)
           rows == Rows(env, ledger)
           more == Rows(env, ledger')
<1>1. /\ Entries(t) = Entries(ledger) \cup {i} /\ t = [k \in Entries(t) |-> t[k]]
      /\ t[i] = row /\ i \notin Entries(ledger)
      /\ \A k \in Entries(ledger) : t[k] = ledger[k]
    BY DEF With, Entries, Appended
<1>2. Table(t)
    <2>1. ASSUME NEW k \in Entries(t)
          PROVE  IsRow(t[k])
        BY <1>1 DEF LedgerInv, Table
    <2> QED
        BY <1>1, <2>1 DEF LedgerInv, Table
<1>3. ledger' = Refresh(env, t) /\ Entries(ledger') = Entries(ledger) \cup {i}
    BY DEF Appended
<1>4. Table(ledger) /\ Current(env, ledger) /\ Table(ledger') /\ Current(env, ledger')
    BY DEF LedgerInv
<1> HIDE DEF t
<1>5. ASSUME NEW k \in Entries(ledger)
      PROVE  Bare(ledger'[k]) = Bare(ledger[k])
    <2>1. Refresh(env, ledger)[k] = ledger[k]
        BY <1>4 DEF Current
    <2>2. ledger[k].ident = Identity(env, ledger[k])
        BY <1>4, <2>1, RefreshRow
    <2>3. /\ ledger'[k].ident = ledger[k].ident
          /\ \A c \in Columns \ {"pnl", "source", "ident"} : ledger'[k][c] = ledger[k][c]
        BY <1>1, <1>2, <1>3, <2>2, RefreshRow
    <2> QED
        BY <2>3 DEF Bare, Columns
<1>6. ASSUME NEW k \in Entries(ledger)
      PROVE  more[k] = rows[k]
    <2>1. LinkedCode(ledger', k) = LinkedCode(ledger, k)
        BY DEF LinksStay
    <2>2. rows[k] = Scaled(env, Coded(ledger[k], LinkedCode(ledger, k)))
        BY <1>4, CurrentRowsAt
    <2>3. more[k] = Scaled(env, Coded(ledger'[k], LinkedCode(ledger', k)))
        BY <1>3, <1>4, CurrentRowsAt
    <2>4. Coded(ledger'[k], LinkedCode(ledger', k)) = Coded(ledger[k], LinkedCode(ledger, k))
        BY <1>5, <2>1 DEF Coded
    <2> QED
        BY <2>2, <2>3, <2>4
<1>7. ASSUME NEW k \in Entries(ledger')
      PROVE  more[k].at = ledger'[k].at /\ more[k].id = ledger'[k].id
    BY <1>4, CurrentRowsAt, CodedRow, ScaledRow
<1>8. Entries(rows) = Entries(ledger) /\ Entries(more) = Entries(ledger) \cup {i}
    BY <1>3, RowsAt
<1>9. ~Earlier(more[i], more[j])
    <2>1. ~Earlier(ledger'[i], ledger'[j])
        BY DEF Appended
    <2> QED
        BY <1>3, <1>7, <2>1 DEF Earlier
<1>10. more = Rows(env, t)
    BY <1>2, <1>3, RowsAgain
<1> HIDE DEF rows, more
<1>11. Reconstructed(more, more[j]) = Reconstructed(rows, rows[j])
    <2>1. Entries(more) = Entries(rows) \cup {i} /\ \A k \in Entries(rows) : more[k] = rows[k]
        BY <1>6, <1>8
    <2>2. j \in Entries(rows)
        BY <1>8
    <2>3. PastOf(more, more[j]) = PastOf(rows, rows[j])
        BY <1>9, <2>1, <2>2, PastStays
    <2> QED
        BY <2>1, <2>2, <2>3, RebuiltFromPast
<1>12. Rebuild(env, t, j) = Rebuild(env, ledger, j)
    BY <1>10, <1>11 DEF Rebuild, rows
<1>13. Profit(env, t, j) = Profit(env, ledger, j)
    BY <1>1, <1>12 DEF Profit
<1>14. ledger'[j].pnl = Profit(env, t, j)[1]
    BY <1>1, <1>2, <1>3, RefreshRow
<1>15. ledger[j].pnl = Profit(env, ledger, j)[1]
    <2>1. Refresh(env, ledger)[j] = ledger[j]
        BY <1>4 DEF Current
    <2> QED
        BY <1>4, <2>1, RefreshRow
<1> QED
    BY <1>13, <1>14, <1>15

-----------------------------------------------------------------------------
(* One row of a table is written, with what is reported of its profit.     *)

LEMMA WriteKeeps ==
    ASSUME LedgerInv, NEW i \in Ids, NEW row, NEW p, IsRow(row), Shows(row, p)
    PROVE  /\ Table(With(ledger, i, row))
           /\ Kept(With(ledger, i, row), [given EXCEPT ![i] = p])
           /\ [given EXCEPT ![i] = p] = [j \in Ids |-> [given EXCEPT ![i] = p][j]]
<1> DEFINE t == With(ledger, i, row)
           g == [given EXCEPT ![i] = p]
<1>1. DOMAIN given = Ids /\ Entries(ledger) \subseteq Ids
    BY DEF LedgerInv, Table
<1>2. Entries(t) = Entries(ledger) \cup {i} /\ t = [j \in Entries(t) |-> t[j]]
    BY DEF With, Entries
<1>3. g = [j \in Ids |-> g[j]]
    BY <1>1
<1>4. t[i] = row /\ g[i] = p
    BY <1>1 DEF With, Entries
<1>5. \A j \in Entries(t) \ {i} : t[j] = ledger[j] /\ g[j] = given[j]
    BY <1>1 DEF With, Entries
<1> HIDE DEF t, g
<1>6. ASSUME NEW j \in Entries(t)
      PROVE  IsRow(t[j]) /\ Shows(t[j], g[j])
    <2>1. CASE j = i
        BY <1>4, <2>1
    <2>2. CASE j # i
        BY <1>2, <1>5, <2>2 DEF LedgerInv, Table, Kept
    <2> QED
        BY <2>1, <2>2
<1>7. Table(t) /\ Kept(t, g)
    BY <1>1, <1>2, <1>6 DEF Table, Kept
<1> QED
    BY <1>3, <1>7 DEF t, g

(* What an action leaves behind, if the last it does to the table is a     *)
(* refresh, or the table was current without one.                          *)
LEMMA StepKeeps ==
    ASSUME NEW t, NEW g, NEW e, Table(t), Kept(t, g), g = [j \in Ids |-> g[j]], IsEnv(e),
           ledger' = Refresh(e, t) \/ (ledger' = t /\ Current(e, t)),
           given' = g, env' = e
    PROVE  LedgerInv'
<1>1. Table(ledger') /\ Kept(ledger', given')
    BY RefreshKeeps
<1>2. Current(env', ledger')
    BY RefreshAgain
<1> QED
    BY <1>1, <1>2 DEF LedgerInv

(* A new row.                                                              *)
LEMMA RowKeeps ==
    ASSUME LedgerInv, NEW i \in Ids, NEW row, IsRow(row), NEW p, Shows(row, p),
           ledger' = Refresh(env, With(ledger, i, row)),
           given' = [given EXCEPT ![i] = p], env' = env
    PROVE  LedgerInv'
<1> DEFINE t == With(ledger, i, row)
           g == [given EXCEPT ![i] = p]
<1>1. Table(t) /\ Kept(t, g) /\ g = [j \in Ids |-> g[j]]
    BY WriteKeeps
<1>2. IsEnv(env) /\ ledger' = Refresh(env, t) /\ given' = g
    BY DEF LedgerInv
<1> HIDE DEF t, g
<1> QED
    BY <1>1, <1>2, StepKeeps

(* A row of the table again, refreshed if it changed in what the profits   *)
(* depend on.                                                              *)
LEMMA ChangeKeeps ==
    ASSUME LedgerInv, NEW i \in Entries(ledger), NEW new, IsRow(new),
           new = [c \in DOMAIN new |-> new[c]], new.id = ledger[i].id,
           NEW p, Shows(new, p), ledger' = RefreshIfChanged(i, new),
           given' = [given EXCEPT ![i] = p], env' = env
    PROVE  LedgerInv'
<1> DEFINE t == With(ledger, i, new)
           g == [given EXCEPT ![i] = p]
<1>1. Table(t) /\ Kept(t, g) /\ g = [j \in Ids |-> g[j]]
    BY WriteKeeps DEF LedgerInv, Table
<1>2. IsEnv(env) /\ given' = g
    BY DEF LedgerInv
<1>3. CASE PnlColumns(ledger[i]) # PnlColumns(new)
    <2>1. ledger' = Refresh(env, t)
        BY <1>3 DEF RefreshIfChanged
    <2> HIDE DEF t, g
    <2> QED
        BY <1>1, <1>2, <2>1, StepKeeps
<1>4. CASE PnlColumns(ledger[i]) = PnlColumns(new)
    <2>1. ledger' = t
        BY <1>4 DEF RefreshIfChanged
    <2>2. Current(env, t)
        BY <1>4, RefreshUnread DEF LedgerInv
    <2> HIDE DEF t, g
    <2> QED
        BY <1>1, <1>2, <2>1, <2>2, StepKeeps
<1> QED
    BY <1>3, <1>4

(* The rows stay; brokers, splits or rules change.                         *)
LEMMA EnvKeeps ==
    ASSUME LedgerInv, NEW e, IsEnv(e),
           ledger' = Refresh(e, ledger) \/ (ledger' = ledger /\ Current(e, ledger)),
           given' = given, env' = e
    PROVE  LedgerInv'
BY StepKeeps DEF LedgerInv

-----------------------------------------------------------------------------
(* What is written.                                                        *)

LEMMA NewRow ==
    ASSUME NEW i, NEW f
    PROVE  IsRow(AsRow(i, f)) /\ Shows(AsRow(i, f), f.pnl) /\ AsRow(i, f).pnl = f.pnl
BY DEF IsRow, Columns, AsRow, Shows

LEMMA NewBotRow ==
    ASSUME NEW e, NEW fill
    PROVE  LET row == AsBotRow(e, fill) IN IsRow(row) /\ Shows(row, row.pnl)
<1> DEFINE first == AsRow(NextId, fill.form)
           broker == ResolvedBroker(e, first.broker)
           row == [first EXCEPT !.broker = broker, !.bot = TRUE,
                                !.abroad = fill.abroad, !.settled = fill.settled]
           ident == Identity(e, row)
<1>1. IsRow(first) /\ Shows(first, first.pnl)
    BY NewRow
<1> HIDE DEF first, broker
<1>2. IsRow(row) /\ row.pnl = first.pnl /\ row.source = first.source
    BY <1>1 DEF IsRow, Columns
<1> HIDE DEF row, ident
<1>3. LET r == [row EXCEPT !.ident = ident]
      IN  IsRow(r) /\ r.pnl = first.pnl /\ r.source = first.source
    BY <1>2 DEF IsRow, Columns
<1>4. AsBotRow(e, fill) = [row EXCEPT !.ident = ident]
    BY DEF AsBotRow, row, ident, first, broker
<1> QED
    BY <1>1, <1>3, <1>4 DEF Shows

(* The form has no column for the profit.                                  *)
LEMMA TypedKeeps ==
    ASSUME NEW old, NEW f, IsRow(old)
    PROVE  LET new == Typed(old, f)
           IN  /\ IsRow(new) /\ new = [c \in DOMAIN new |-> new[c]] /\ new.id = old.id
               /\ new.pnl = old.pnl /\ new.source = old.source
<1> DEFINE kept == IF f.broker = old.broker THEN old.ident ELSE NoBroker
           new == [old EXCEPT !.kind = f.kind, !.qty = f.qty, !.price = f.price, !.at = f.at,
                              !.broker = f.broker, !.code = f.code, !.name = f.name,
                              !.class = f.class, !.ident = kept]
           ident == Identity(env, new)
<1> HIDE DEF kept
<1>1. IsRow(new) /\ new.id = old.id /\ new.pnl = old.pnl /\ new.source = old.source
    BY DEF IsRow, Columns
<1> HIDE DEF new, ident
<1>2. LET r == [new EXCEPT !.ident = ident]
      IN  /\ IsRow(r) /\ r = [c \in DOMAIN r |-> r[c]] /\ r.id = old.id
          /\ r.pnl = old.pnl /\ r.source = old.source
    BY <1>1 DEF IsRow, Columns
<1>3. Typed(old, f) = [new EXCEPT !.ident = ident]
    BY DEF Typed, new, kept, ident
<1> QED
    BY <1>2, <1>3

(* A correction that names a profit decides about its source, one that     *)
(* does not leaves both.                                                   *)
LEMMA PatchedShows ==
    ASSUME NEW old, NEW changes, IsRow(old), {"id", "source"} \cap DOMAIN changes = {}
    PROVE  LET new == Patched(old, changes)
           IN  /\ IsRow(new) /\ new = [c \in DOMAIN new |-> new[c]] /\ new.id = old.id
               /\ "pnl" \in DOMAIN changes => Shows(new, changes.pnl)
               /\ "pnl" \notin DOMAIN changes => new.pnl = old.pnl /\ new.source = old.source
<1> DEFINE new == [c \in DOMAIN old |-> IF c \in DOMAIN changes THEN changes[c] ELSE old[c]]
<1>1. /\ IsRow(new) /\ new = [c \in DOMAIN new |-> new[c]] /\ new.id = old.id
      /\ "pnl" \in DOMAIN changes => new.pnl = changes.pnl
      /\ "pnl" \notin DOMAIN changes => new.pnl = old.pnl
      /\ new.source = old.source
    BY DEF IsRow, Columns
<1> HIDE DEF new
<1> DEFINE source == IF new.pnl = NoPnl THEN NoSource ELSE "recorded"
<1>2. LET r == [new EXCEPT !.source = source]
      IN  /\ IsRow(r) /\ r = [c \in DOMAIN r |-> r[c]] /\ r.id = old.id
          /\ r.pnl = new.pnl /\ r.source = source
    BY <1>1 DEF IsRow, Columns
<1>3. Patched(old, changes) = IF "pnl" \in DOMAIN changes THEN [new EXCEPT !.source = source]
                                                          ELSE new
    BY DEF Patched, new
<1>4. CASE "pnl" \in DOMAIN changes
    BY <1>1, <1>2, <1>3, <1>4 DEF Shows
<1>5. CASE "pnl" \notin DOMAIN changes
    BY <1>1, <1>3, <1>5
<1> QED
    BY <1>4, <1>5

-----------------------------------------------------------------------------
(* The invariant.                                                          *)

LEMMA InitHolds == Init => LedgerInv
<1> SUFFICES ASSUME Init PROVE LedgerInv
    OBVIOUS
<1>1. PICK t \in Worlds[world].tables : ledger = Refresh(env, t)
    BY DEF Init
<1> DEFINE none == [i \in Ids |-> NoPnl]
<1>2. Table(t) /\ IsEnv(env)
    BY <1>1, WorldsAssumption DEF Init, Table, IsRow, IsEnv
<1>3. Kept(t, none)
    BY <1>2 DEF Kept, Shows, Table
<1> HIDE DEF none
<1>4. Table(ledger) /\ Current(env, ledger)
    BY <1>1, <1>2, <1>3, RefreshKeeps, RefreshAgain
<1>5. given = [i \in Ids |-> IF i \in Entries(ledger) /\ ledger[i].source = "recorded"
                               THEN ledger[i].pnl ELSE NoPnl]
    BY DEF Init
<1>6. given = [i \in Ids |-> given[i]] /\ Kept(ledger, given)
    BY <1>4, <1>5 DEF Kept, Shows, Table
<1> QED
    BY <1>2, <1>4, <1>6 DEF LedgerInv

LEMMA WebCreateKeeps ==
    ASSUME LedgerInv, NEW i \in Ids, NEW f, WebCreate(i, f)
    PROVE  LedgerInv'
BY NewRow, RowKeeps DEF WebCreate

LEMMA WebUpdateKeeps ==
    ASSUME LedgerInv, NEW i \in Ids, NEW f, WebUpdate(i, f)
    PROVE  LedgerInv'
<1> DEFINE new == Typed(ledger[i], f)
<1>1. /\ i \in Entries(ledger) /\ given' = given /\ env' = env
      /\ ledger' = RefreshIfChanged(i, new)
    BY DEF WebUpdate
<1>2. IsRow(ledger[i]) /\ Shows(ledger[i], given[i])
    BY <1>1 DEF LedgerInv, Table, Kept
<1>3. /\ IsRow(new) /\ new = [c \in DOMAIN new |-> new[c]] /\ new.id = ledger[i].id
      /\ new.pnl = ledger[i].pnl /\ new.source = ledger[i].source
    BY <1>2, TypedKeeps
<1> HIDE DEF new
<1>4. Shows(new, given[i])
    BY <1>2, <1>3 DEF Shows
<1>5. given' = [given EXCEPT ![i] = given[i]]
    BY <1>1 DEF LedgerInv
<1> QED
    BY <1>1, <1>3, <1>4, <1>5, ChangeKeeps

LEMMA DeleteKeeps ==
    ASSUME LedgerInv, NEW i \in Ids, Delete(i)
    PROVE  LedgerInv'
<1> DEFINE t == Without(ledger, i)
           g == [given EXCEPT ![i] = NoPnl]
<1>1. ledger' = Refresh(env, t) /\ given' = g /\ env' = env
    BY DEF Delete
<1>2. Entries(t) = Entries(ledger) \ {i} /\ t = [j \in Entries(t) |-> t[j]]
    BY DEF Without, Entries
<1>3. \A j \in Entries(t) : t[j] = ledger[j] /\ j # i
    BY DEF Without, Entries
<1>4. g = [j \in Ids |-> g[j]] /\ \A j \in Ids : j # i => g[j] = given[j]
    BY DEF LedgerInv
<1> HIDE DEF t, g
<1>5. Table(t) /\ Kept(t, g) /\ IsEnv(env)
    BY <1>2, <1>3, <1>4 DEF LedgerInv, Table, Kept
<1> QED
    BY <1>1, <1>4, <1>5, StepKeeps

LEMMA InsertKeeps ==
    ASSUME LedgerInv, world \in DOMAIN Worlds, NEW row, Insert(row),
           IsRow(row), Shows(row, row.pnl)
    PROVE  LedgerInv'
<1>1. NextId \in Ids
    BY WorldsAssumption DEF Insert
<1> QED
    BY <1>1, RowKeeps DEF Insert

LEMMA OpeningKeeps ==
    ASSUME LedgerInv, world \in DOMAIN Worlds, NEW f, Opening(f)
    PROVE  LedgerInv'
<1> DEFINE row == AsBotRow(env, [form |-> f, abroad |-> FALSE, settled |-> TRUE])
           key == OpeningKey(row)
           keyed == [row EXCEPT !.key = key]
<1>1. IsRow(row) /\ Shows(row, row.pnl)
    BY NewBotRow
<1>2. Insert(keyed)
    BY DEF Opening
<1> HIDE DEF row, key
<1>3. IsRow(keyed) /\ keyed.pnl = row.pnl /\ keyed.source = row.source
    BY <1>1 DEF IsRow, Columns
<1> HIDE DEF keyed
<1>4. Shows(keyed, keyed.pnl)
    BY <1>1, <1>3 DEF Shows
<1> QED
    BY <1>2, <1>3, <1>4, InsertKeeps

LEMMA BotPatchKeeps ==
    ASSUME LedgerInv, NEW i \in Ids, NEW changes, {"id", "source"} \cap DOMAIN changes = {},
           BotPatch(i, changes)
    PROVE  LedgerInv'
<1> DEFINE new == Patched(ledger[i], changes)
           p == IF "pnl" \in DOMAIN changes THEN changes.pnl ELSE given[i]
<1>1. /\ i \in Entries(ledger) /\ env' = env
      /\ ledger' = RefreshIfChanged(i, new)
      /\ given' = IF "pnl" \in DOMAIN changes THEN [given EXCEPT ![i] = changes.pnl] ELSE given
    BY DEF BotPatch
<1>2. IsRow(ledger[i]) /\ Shows(ledger[i], given[i])
    BY <1>1 DEF LedgerInv, Table, Kept
<1>3. /\ IsRow(new) /\ new = [c \in DOMAIN new |-> new[c]] /\ new.id = ledger[i].id
      /\ "pnl" \in DOMAIN changes => Shows(new, changes.pnl)
      /\ "pnl" \notin DOMAIN changes => new.pnl = ledger[i].pnl /\ new.source = ledger[i].source
    BY <1>2, PatchedShows
<1> HIDE DEF new
<1>4. Shows(new, p)
    BY <1>2, <1>3 DEF Shows
<1>5. given' = [given EXCEPT ![i] = p]
    BY <1>1 DEF LedgerInv
<1> HIDE DEF p
<1> QED
    BY <1>1, <1>3, <1>4, <1>5, ChangeKeeps

LEMMA SaveMappingsKeeps ==
    ASSUME LedgerInv, NEW m, SaveMappings(m)
    PROVE  LedgerInv'
<1> DEFINE e == [env EXCEPT !.links = m.links, !.owner = m.owner]
<1>1. IsEnv(e) /\ env' = e
    BY DEF SaveMappings, LedgerInv, IsEnv
<1>2. ledger' = Refresh(e, ledger) /\ given' = given
    BY <1>1 DEF SaveMappings
<1> HIDE DEF e
<1> QED
    BY <1>1, <1>2, EnvKeeps

LEMMA PublishSplitsKeeps ==
    ASSUME LedgerInv, NEW c, NEW news, PublishSplits(c, news)
    PROVE  LedgerInv'
<1> DEFINE e == Published(env, c, news)
<1>1. env' = e /\ given' = given
    BY DEF PublishSplits, Published
<1>2. IsEnv(e)
    BY DEF LedgerInv, IsEnv, Published
<1>3. CASE \E i \in Entries(ledger) : ledger[i].code = c
    <2>1. ledger' = Refresh(e, ledger)
        BY <1>1, <1>3 DEF PublishSplits
    <2> HIDE DEF e
    <2> QED
        BY <1>1, <1>2, <2>1, EnvKeeps
<1>4. CASE ~\E i \in Entries(ledger) : ledger[i].code = c
    <2>1. ledger' = ledger
        BY <1>4 DEF PublishSplits
    <2>2. Current(e, ledger)
        BY <1>4, RefreshElsewhere DEF LedgerInv
    <2> HIDE DEF e
    <2> QED
        BY <1>1, <1>2, <2>1, <2>2, EnvKeeps
<1> QED
    BY <1>3, <1>4

LEMMA SetRuleKeeps ==
    ASSUME LedgerInv, NEW rule, SetRule(rule)
    PROVE  LedgerInv'
<1> DEFINE e == Ruled(env, rule)
<1>1. env' = e /\ ledger' = Refresh(e, ledger) /\ given' = given
    BY DEF SetRule
<1>2. IsEnv(e)
    BY DEF Ruled, LedgerInv, IsEnv
<1> HIDE DEF e
<1> QED
    BY <1>1, <1>2, EnvKeeps

LEMMA NextKeeps ==
    ASSUME LedgerInv, world \in DOMAIN Worlds, [Next]_vars
    PROVE  LedgerInv'
<1>1. Worlds[world].ids \subseteq Ids
    BY WorldsAssumption
<1>2. ASSUME NEW i \in Worlds[world].ids, NEW f, WebCreate(i, f) \/ WebUpdate(i, f)
      PROVE  LedgerInv'
    BY <1>1, <1>2, WebCreateKeeps, WebUpdateKeeps
<1>3. ASSUME NEW i \in Worlds[world].ids, Delete(i)
      PROVE  LedgerInv'
    BY <1>1, <1>3, DeleteKeeps
<1>4. ASSUME NEW fill, BotInsert(fill)
      PROVE  LedgerInv'
    BY <1>4, NewBotRow, InsertKeeps DEF BotInsert
<1>5. ASSUME NEW i \in Worlds[world].ids, NEW changes \in Worlds[world].patches,
             BotPatch(i, changes)
      PROVE  LedgerInv'
    BY <1>1, <1>5, BotPatchKeeps, WorldsAssumption
<1>6. ASSUME NEW f, Opening(f)
      PROVE  LedgerInv'
    BY <1>6, OpeningKeeps
<1>7. ASSUME NEW m, SaveMappings(m)
      PROVE  LedgerInv'
    BY <1>7, SaveMappingsKeeps
<1>8. ASSUME NEW c, NEW news, PublishSplits(c, news)
      PROVE  LedgerInv'
    BY <1>8, PublishSplitsKeeps
<1>9. ASSUME UNCHANGED <<ledger, env, given>>
      PROVE  LedgerInv'
    BY <1>9 DEF LedgerInv
<1>10. ASSUME NEW rule, Preview(rule) \/ SetRuleDirectly(rule)
       PROVE  LedgerInv'
    BY <1>9, <1>10, SetRuleKeeps DEF Preview, SetRuleDirectly
<1>11. ASSUME ConfirmRule
       PROVE  LedgerInv'
    BY <1>11, SetRuleKeeps DEF ConfirmRule
<1>12. ASSUME UNCHANGED vars
       PROVE  LedgerInv'
    BY <1>9, <1>12 DEF vars
<1> QED
    BY <1>2, <1>3, <1>4, <1>5, <1>6, <1>7, <1>8, <1>10, <1>11, <1>12 DEF Next

-----------------------------------------------------------------------------
LEMMA WorldStays == Spec => [](world \in DOMAIN Worlds)
<1>1. Init => world \in DOMAIN Worlds
    BY DEF Init
<1>2. world \in DOMAIN Worlds /\ [Next]_vars => (world \in DOMAIN Worlds)'
    BY DEF Next, vars, WebCreate, WebUpdate, Delete, BotInsert, Insert, BotPatch, Opening,
           SaveMappings, PublishSplits, Preview, SetRuleDirectly, SetRule, ConfirmRule
<1> QED
    BY <1>1, <1>2, PTL DEF Spec

LEMMA LedgerInvariant == Spec => []LedgerInv
<1>1. Init => LedgerInv
    BY InitHolds
<1>2. LedgerInv /\ world \in DOMAIN Worlds /\ [Next]_vars => LedgerInv'
    BY NextKeeps
<1> QED
    BY <1>1, <1>2, WorldStays, PTL DEF Spec

(* No history of trades, corrections, deletions, registered brokers,       *)
(* published splits and split rules replaces a profit that was reported    *)
(* with a trade (trades.py:129, realized_pnl.py:30).                       *)
THEOREM ReportedProfitsStay == Spec => []ReportedProfitStays
<1>1. LedgerInv => ReportedProfitStays
    BY DEF LedgerInv, Kept, Shows, ReportedProfitStays
<1> QED
    BY <1>1, LedgerInvariant, PTL

(* Whatever the history, the profits in the table are those its trades     *)
(* give under the brokers, splits and rules of now, though corrections of  *)
(* other columns and splits of other stocks compute nothing                *)
(* (entries.py:57, historical_prices.py:201).                              *)
THEOREM ProfitsAreCurrent == Spec => []ProfitIsCurrent
<1>1. LedgerInv => ProfitIsCurrent
    BY DEF LedgerInv, Current, ProfitIsCurrent
<1> QED
    BY <1>1, LedgerInvariant, PTL

-----------------------------------------------------------------------------
(* Only a new entry adds a row, and it is refreshed with the others.       *)
LEMMA InsertIsAdded ==
    ASSUME NEW row, Insert(row), NEW i \in Ids, Appended(i)
    PROVE  ledger' = Refresh(env, With(ledger, i, row))
<1>1. ledger' = Refresh(env, With(ledger, NextId, row))
    BY DEF Insert
<1>2. Entries(ledger') = Entries(ledger) \cup {NextId}
    BY <1>1, RefreshDomain DEF With, Entries
<1>3. NextId = i
    BY <1>2 DEF Appended
<1> QED
    BY <1>1, <1>3

LEMMA NothingAdded ==
    ASSUME Entries(ledger') \subseteq Entries(ledger), NEW i \in Ids
    PROVE  ~Appended(i)
BY DEF Appended

LEMMA ChangeAddsNothing ==
    ASSUME NEW k \in Entries(ledger), NEW new, ledger' = RefreshIfChanged(k, new)
    PROVE  Entries(ledger') \subseteq Entries(ledger)
<1> DEFINE t == With(ledger, k, new)
<1>1. Entries(t) = Entries(ledger)
    BY DEF With, Entries
<1> HIDE DEF t
<1>2. ledger' = Refresh(env, t) \/ ledger' = t
    BY DEF RefreshIfChanged, t
<1> QED
    BY <1>1, <1>2, RefreshDomain

LEMMA OneRowIsAdded ==
    ASSUME [Next]_vars, NEW i \in Ids, Appended(i)
    PROVE  \E row : IsRow(row) /\ ledger' = Refresh(env, With(ledger, i, row))
<1> DEFINE Goal == \E row : IsRow(row) /\ ledger' = Refresh(env, With(ledger, i, row))
<1>1. ASSUME NEW k, NEW f, WebCreate(k, f)
      PROVE  Goal
    <2>1. ledger' = Refresh(env, With(ledger, k, AsRow(k, f)))
        BY <1>1 DEF WebCreate
    <2>2. Entries(ledger') = Entries(ledger) \cup {k}
        BY <2>1, RefreshDomain DEF With, Entries
    <2>3. k = i
        BY <2>2 DEF Appended
    <2> QED
        BY <2>1, <2>3, NewRow
<1>2. ASSUME NEW k, NEW f, WebUpdate(k, f)
      PROVE  Goal
    <2>1. k \in Entries(ledger) /\ ledger' = RefreshIfChanged(k, Typed(ledger[k], f))
        BY <1>2 DEF WebUpdate
    <2> QED
        BY <2>1, ChangeAddsNothing, NothingAdded
<1>3. ASSUME NEW k, Delete(k)
      PROVE  Goal
    <2>1. Entries(ledger') \subseteq Entries(ledger)
        BY <1>3, RefreshDomain DEF Delete, Without, Entries
    <2> QED
        BY <2>1, NothingAdded
<1>4. ASSUME NEW fill, BotInsert(fill)
      PROVE  Goal
    <2>1. Insert(AsBotRow(env, fill)) /\ IsRow(AsBotRow(env, fill))
        BY <1>4, NewBotRow DEF BotInsert
    <2> QED
        BY <2>1, InsertIsAdded
<1>5. ASSUME NEW k, NEW changes, BotPatch(k, changes)
      PROVE  Goal
    <2>1. k \in Entries(ledger) /\ ledger' = RefreshIfChanged(k, Patched(ledger[k], changes))
        BY <1>5 DEF BotPatch
    <2> QED
        BY <2>1, ChangeAddsNothing, NothingAdded
<1>6. ASSUME NEW f, Opening(f)
      PROVE  Goal
    <2> DEFINE row == AsBotRow(env, [form |-> f, abroad |-> FALSE, settled |-> TRUE])
               key == OpeningKey(row)
               keyed == [row EXCEPT !.key = key]
    <2>1. Insert(keyed)
        BY <1>6 DEF Opening
    <2>2. IsRow(row)
        BY NewBotRow
    <2> HIDE DEF row, key
    <2>3. IsRow(keyed)
        BY <2>2 DEF IsRow
    <2> HIDE DEF keyed
    <2> QED
        BY <2>1, <2>3, InsertIsAdded
<1>7. ASSUME NEW e, ledger' = Refresh(e, ledger) \/ ledger' = ledger
      PROVE  Goal
    BY <1>7, RefreshDomain, NothingAdded
<1>8. ASSUME NEW m, SaveMappings(m)
      PROVE  Goal
    BY <1>7, <1>8 DEF SaveMappings
<1>9. ASSUME NEW c, NEW news, PublishSplits(c, news)
      PROVE  Goal
    BY <1>7, <1>9 DEF PublishSplits
<1>10. ASSUME NEW rule, Preview(rule) \/ SetRuleDirectly(rule)
       PROVE  Goal
    BY <1>7, <1>10 DEF Preview, SetRuleDirectly, SetRule
<1>11. ASSUME ConfirmRule
       PROVE  Goal
    BY <1>7, <1>11 DEF ConfirmRule, SetRule
<1>12. ASSUME UNCHANGED vars
       PROVE  Goal
    BY <1>7, <1>12 DEF vars
<1> HIDE DEF Goal
<1>13. Goal
    BY <1>1, <1>2, <1>3, <1>4, <1>5, <1>6, <1>8, <1>9, <1>10, <1>11, <1>12 DEF Next
<1> QED
    BY <1>13 DEF Goal

(* A trade that is added, by the web, a bot or an opening, and is earlier  *)
(* than no other changes no profit of those before it, as long as it gives *)
(* no code to a name (realized_pnl.py:4): a profit is rebuilt from the     *)
(* trades before the sell, whose shares and prices stay.                   *)
THEOREM LaterTradesLeaveProfits == Spec => EarlierProfitsStay
<1> DEFINE Kind == \A i \in Ids : Appended(i) /\ LinksStay =>
                      \A j \in Entries(ledger) : ledger'[j].pnl = ledger[j].pnl
<1>1. LedgerInv /\ LedgerInv' /\ [Next]_vars => [Kind]_vars
    <2> SUFFICES ASSUME LedgerInv, LedgerInv', [Next]_vars,
                        NEW i \in Ids, Appended(i), LinksStay, NEW j \in Entries(ledger)
                 PROVE  ledger'[j].pnl = ledger[j].pnl
        OBVIOUS
    <2>1. PICK row : IsRow(row) /\ ledger' = Refresh(env, With(ledger, i, row))
        BY OneRowIsAdded
    <2>2. env' = env
        BY DEF Appended
    <2> QED
        BY <2>1, <2>2, AddedRow
<1> HIDE DEF Kind
<1>2. Spec => [][Kind]_vars
    BY <1>1, LedgerInvariant, PTL DEF Spec
<1> QED
    BY <1>2 DEF EarlierProfitsStay, Kind

-----------------------------------------------------------------------------
(* The rows of one stock are prepared without those of the others.         *)

(* Rows `more' differ from `rows' only in the shares and prices of stocks  *)
(* other than c.                                                           *)
AgreeOn(rows, more, c) ==
    /\ Entries(more) = Entries(rows)
    /\ \A i \in Entries(rows) :
          /\ more[i].settled = rows[i].settled /\ Position(more[i]) = Position(rows[i])
          /\ Stock(rows[i]) = c => more[i] = rows[i]

LEMMA HistoryOfStock ==
    ASSUME NEW rows, NEW more, NEW c, AgreeOn(rows, more, c), NEW p, p[2] = c
    PROVE  History(more, p) = History(rows, p)
<1>1. ASSUME NEW i \in Entries(rows), Position(rows[i]) = p
      PROVE  more[i] = rows[i]
    BY <1>1 DEF Position, AgreeOn
<1>2. \A row : row \in History(more, p) <=>
         \E i \in Entries(rows) : more[i].settled /\ Position(more[i]) = p /\ row = more[i]
    BY DEF History, AgreeOn
<1>3. \A row : row \in History(rows, p) <=>
         \E i \in Entries(rows) : rows[i].settled /\ Position(rows[i]) = p /\ row = rows[i]
    BY DEF History
<1>4. \A row : row \in History(more, p) <=> row \in History(rows, p)
    BY <1>1, <1>2, <1>3 DEF AgreeOn
<1>5. History(more, p) \subseteq History(rows, p) /\ History(rows, p) \subseteq History(more, p)
    BY <1>4
<1> QED
    BY <1>5

LEMMA HoldingsOfStock ==
    ASSUME NEW rows, NEW more, NEW c, AgreeOn(rows, more, c)
    PROVE  OfStock(Holdings(more), c) = OfStock(Holdings(rows), c)
<1>1. PositionsOf(more) = PositionsOf(rows)
    BY DEF PositionsOf, AgreeOn
<1>2. \A p : p[2] = c => Holding(more, p) = Holding(rows, p)
    BY HistoryOfStock DEF Holding
<1>3. \A p \in PositionsOf(rows) : p[2] = c => Holdings(more)[p] = Holdings(rows)[p]
    BY <1>1, <1>2 DEF Holdings
<1>4. DOMAIN Holdings(more) = PositionsOf(rows) /\ DOMAIN Holdings(rows) = PositionsOf(rows)
    BY <1>1 DEF Holdings
<1> QED
    BY <1>3, <1>4 DEF OfStock

LEMMA EarnedOfStock ==
    ASSUME NEW t, NEW rows, NEW more, NEW i \in Entries(rows),
           AgreeOn(rows, more, Stock(rows[i]))
    PROVE  Earned(t, more, i) = Earned(t, rows, i)
<1>1. more[i] = rows[i]
    BY DEF AgreeOn
<1>2. History(more, Position(rows[i])) = History(rows, Position(rows[i]))
    BY HistoryOfStock DEF Position
<1>3. HoldingBefore(more, more[i]) = HoldingBefore(rows, rows[i])
    BY <1>1, <1>2 DEF HoldingBefore, PastOf
<1> QED
    BY <1>1, <1>3 DEF Earned

LEMMA NoCodeIsNotSplit ==
    ASSUME NEW e, IsEnv(e), NEW f, IsEnv(f), NEW row, row.code = NoCode
    PROVE  Scaled(f, row) = Scaled(e, row)
<1>1. SplitsOf(f, row) = SplitsOf(e, row)
    BY DEF SplitsOf, IsEnv
<1> QED
    BY <1>1 DEF Scaled, Factor

LEMMA StockOfRow ==
    ASSUME NEW e, NEW t, NEW i \in Entries(t)
    PROVE  Stock(Rows(e, t)[i]) = Stock(OldShares(e, BareTable(t))[i])
BY RowsAt, ScaledRow DEF Stock

LEMMA RowsOfStock ==
    ASSUME NEW e, IsEnv(e), NEW f, IsEnv(f), f.links = e.links, f.owner = e.owner,
           NEW c, SameSplits(e, f, c), NEW t
    PROVE  AgreeOn(Rows(e, t), Rows(f, t), c)
<1> DEFINE b == BareTable(t)
           o == OldShares(e, b)
<1>1. OldShares(f, b) = o
    BY OldSharesReads
<1> HIDE DEF o
<1>2. \A i \in Entries(t) : Rows(e, t)[i] = Scaled(e, o[i]) /\ Rows(f, t)[i] = Scaled(f, o[i])
    BY <1>1, RowsAt DEF o
<1>3. ASSUME NEW i \in Entries(t)
      PROVE  LET row == Rows(e, t)[i]
                 other == Rows(f, t)[i]
             IN  /\ other.settled = row.settled /\ Position(other) = Position(row)
                 /\ Stock(row) = c => other = row
    <2>1. \A g : LET row == Scaled(g, o[i])
                 IN  /\ row.settled = o[i].settled /\ Position(row) = Position(o[i])
                     /\ Stock(row) = Stock(o[i])
        BY ScaledRow DEF Position, Stock, Scope
    <2>2. ASSUME Stock(o[i]) = c
          PROVE  Scaled(f, o[i]) = Scaled(e, o[i])
        <3>1. o[i].code = c \/ o[i].code = NoCode
            BY <2>2 DEF Stock
        <3> QED
            BY <3>1, ScaledSame, NoCodeIsNotSplit
    <2> QED
        BY <1>2, <2>1, <2>2
<1>4. Entries(Rows(e, t)) = Entries(t) /\ Entries(Rows(f, t)) = Entries(t)
    BY RowsAt
<1> QED
    BY <1>3, <1>4 DEF AgreeOn

(* The rows of a stock have its code, or none.                             *)
LEMMA EarnedSame ==
    ASSUME NEW e, IsEnv(e), NEW f, IsEnv(f), f.links = e.links, f.owner = e.owner,
           NEW t, NEW i \in Entries(t), SameSplits(e, f, Stock(Rows(e, t)[i]))
    PROVE  Earned(t, Rows(f, t), i) = Earned(t, Rows(e, t), i)
<1>1. AgreeOn(Rows(e, t), Rows(f, t), Stock(Rows(e, t)[i])) /\ i \in Entries(Rows(e, t))
    BY RowsOfStock, RowsAt
<1> QED
    BY <1>1, EarnedOfStock

-----------------------------------------------------------------------------
(* What a refresh stores is what the dialog adds up.                       *)

Worth(row) == IF row.source = "unavailable" THEN 0 ELSE row.pnl

LEMMA WorthIsEarned ==
    ASSUME NEW e, NEW t, Table(t), NEW i \in SettledSells(t)
    PROVE  Worth(Refresh(e, t)[i]) = Earned(t, Rows(e, t), i)
<1> DEFINE rows == Rows(e, t)
           row == rows[i]
           h == HoldingBefore(rows, row)
           amount == Computed(row, h)
           enough == h.qty >= row.qty /\ row.qty > 0
<1>1. i \in Entries(t) /\ t[i].kind = "sell" /\ t[i].settled
    BY DEF SettledSells
<1>2. /\ Refresh(e, t)[i].pnl = Profit(e, t, i)[1]
      /\ Refresh(e, t)[i].source = Profit(e, t, i)[2]
    BY <1>1, RefreshRow
<1>3. CASE Provided(t[i])
    <2>1. Profit(e, t, i) = <<t[i].pnl, "recorded">>
        BY <1>3 DEF Profit, StoredProfit
    <2>2. Earned(t, rows, i) = t[i].pnl
        BY <1>3 DEF Earned
    <2> QED
        BY <1>2, <2>1, <2>2 DEF Worth
<1>4. CASE ~Provided(t[i])
    <2>1. Profit(e, t, i) = IF enough THEN <<amount, "reconstructed">>
                                      ELSE <<NoPnl, "unavailable">>
        BY <1>1, <1>4 DEF Profit, StoredProfit, Rebuild, Reconstructed, Rebuilt
    <2>2. Earned(t, rows, i) = IF enough THEN amount ELSE 0
        BY <1>4 DEF Earned
    <2> HIDE DEF enough, amount, h, row, rows
    <2>3. Worth(Refresh(e, t)[i]) = IF enough THEN amount ELSE 0
        BY <1>2, <2>1 DEF Worth
    <2> QED
        BY <2>2, <2>3 DEF rows
<1> QED
    BY <1>3, <1>4

LEMMA CurrentWorth ==
    ASSUME NEW e, NEW t, Table(t), Current(e, t), NEW i \in SettledSells(t)
    PROVE  Worth(t[i]) = Earned(t, Rows(e, t), i)
<1>1. Refresh(e, t)[i] = t[i]
    BY DEF Current
<1> QED
    BY <1>1, WorthIsEarned

(* A rule concerns its stock.                                              *)
LEMMA RuledElsewhere ==
    ASSUME NEW e, IsEnv(e), NEW rule, NEW c, c # rule[1]
    PROVE  SameSplits(e, Ruled(e, rule), c)
<1> DEFINE f == Ruled(e, rule)
           kept == {r \in e.rules : <<r[1], r[2], r[3]>> # <<rule[1], rule[2], rule[3]>>}
<1>1. f.splits = e.splits /\ f.rules = kept \cup {rule}
    BY DEF Ruled, IsEnv
<1> HIDE DEF f
<1>2. {r \in f.rules : r[1] = c} = {r \in e.rules : r[1] = c}
    BY <1>1
<1> QED
    BY <1>1, <1>2 DEF SameSplits, f

LEMMA RuledEnv ==
    ASSUME NEW e, IsEnv(e), NEW rule
    PROVE  LET f == Ruled(e, rule)
           IN  /\ IsEnv(f) /\ f.links = e.links /\ f.owner = e.owner /\ f.splits = e.splits
               /\ f.rules = {r \in e.rules :
                                <<r[1], r[2], r[3]>> # <<rule[1], rule[2], rule[3]>>} \cup {rule}
BY DEF Ruled, IsEnv

(* The dialog was computed from the table its token names, which was       *)
(* current, under what its token names and perhaps other splits of other   *)
(* stocks than now.                                                        *)
PreviewedUnder(e) ==
    /\ IsEnv(e) /\ DOMAIN e.splits = DOMAIN env.splits
    /\ Current(e, preview.token[4])
    /\ preview.token = <<preview.rule, e.links, e.owner, preview.token[4], e.rules,
                         e.splits[preview.rule[1]]>>
    /\ preview.rule[1] # NoCode
    /\ preview.shown = Outcome(Ruled(e, preview.rule), preview.token[4])

PreviewInv == preview # NoPreview => \E e : PreviewedUnder(e)

LEMMA PreviewMakesIt ==
    ASSUME LedgerInv, NEW rule, rule[1] # NoCode, Preview(rule)
    PROVE  PreviewInv'
<1> DEFINE sig == Signature(rule)
           shown == Outcome(Ruled(env, rule), ledger)
<1>1. sig = <<rule, env.links, env.owner, ledger, env.rules, env.splits[rule[1]]>>
    BY DEF Signature
<1> HIDE DEF shown
<1>2. preview' = [rule |-> rule, token |-> sig, shown |-> shown] /\ env' = env
    BY DEF Preview, shown
<1> HIDE DEF sig
<1>3. preview'.rule = rule /\ preview'.token = sig /\ preview'.shown = shown
    BY <1>2
<1>4. sig[4] = ledger
    BY <1>1
<1>5. PreviewedUnder(env)'
          <=> /\ IsEnv(env') /\ DOMAIN env'.splits = DOMAIN env'.splits
              /\ Current(env', preview'.token[4])
              /\ preview'.token = <<preview'.rule, env'.links, env'.owner, preview'.token[4],
                                    env'.rules, env'.splits[preview'.rule[1]]>>
              /\ preview'.rule[1] # NoCode
              /\ preview'.shown = Outcome(Ruled(env', preview'.rule), preview'.token[4])
    BY DEF PreviewedUnder
<1>6. PreviewedUnder(env)'
    BY <1>1, <1>2, <1>3, <1>4, <1>5 DEF LedgerInv, shown
<1> QED
    BY <1>6 DEF PreviewInv

LEMMA PreviewStays ==
    ASSUME PreviewInv, preview' = preview, DOMAIN env'.splits = DOMAIN env.splits
    PROVE  PreviewInv'
<1> SUFFICES ASSUME preview # NoPreview
             PROVE  PreviewInv'
    BY DEF PreviewInv
<1>1. PICK e : PreviewedUnder(e)
    BY DEF PreviewInv
<1>2. /\ IsEnv(e) /\ DOMAIN e.splits = DOMAIN env'.splits
      /\ Current(e, preview'.token[4])
      /\ preview'.token = <<preview'.rule, e.links, e.owner, preview'.token[4], e.rules,
                            e.splits[preview'.rule[1]]>>
      /\ preview'.rule[1] # NoCode
      /\ preview'.shown = Outcome(Ruled(e, preview'.rule), preview'.token[4])
    BY <1>1 DEF PreviewedUnder
<1> QED
    BY <1>2 DEF PreviewInv, PreviewedUnder

LEMMA PreviewKeeps ==
    ASSUME LedgerInv, PreviewInv, world \in DOMAIN Worlds, [Next]_vars
    PROVE  PreviewInv'
<1> DEFINE in == Worlds[world]
<1>1. ASSUME env' = env, preview' = preview
      PROVE  PreviewInv'
    BY <1>1, PreviewStays
<1>2. ASSUME NEW i, NEW f, WebCreate(i, f) \/ WebUpdate(i, f)
      PROVE  PreviewInv'
    BY <1>1, <1>2 DEF WebCreate, WebUpdate
<1>3. ASSUME NEW i, Delete(i)
      PROVE  PreviewInv'
    BY <1>1, <1>3 DEF Delete
<1>4. ASSUME NEW row, Insert(row)
      PROVE  PreviewInv'
    BY <1>1, <1>4 DEF Insert
<1>5. ASSUME NEW fill, BotInsert(fill)
      PROVE  PreviewInv'
    BY <1>4, <1>5 DEF BotInsert
<1>6. ASSUME NEW i, NEW changes, BotPatch(i, changes)
      PROVE  PreviewInv'
    BY <1>1, <1>6 DEF BotPatch
<1>7. ASSUME NEW f, Opening(f)
      PROVE  PreviewInv'
    BY <1>4, <1>7 DEF Opening
<1>8. ASSUME NEW m, SaveMappings(m)
      PROVE  PreviewInv'
    <2>1. env'.splits = env.splits /\ preview' = preview
        BY <1>8 DEF SaveMappings, LedgerInv, IsEnv
    <2> QED
        BY <2>1, PreviewStays
<1>9. ASSUME NEW c, NEW news, PublishSplits(c, news)
      PROVE  PreviewInv'
    <2>1. env' = Published(env, c, news) /\ preview' = preview
        BY <1>9 DEF PublishSplits, Published
    <2>2. DOMAIN env'.splits = DOMAIN env.splits
        BY <2>1 DEF Published, LedgerInv, IsEnv
    <2> QED
        BY <2>1, <2>2, PreviewStays
<1>10. ASSUME NEW rule \in in.rules, Preview(rule)
       PROVE  PreviewInv'
    BY <1>10, PreviewMakesIt, WorldsAssumption
<1>11. ASSUME NEW rule, SetRuleDirectly(rule)
       PROVE  PreviewInv'
    <2>1. env'.splits = env.splits /\ preview' = preview
        BY <1>11, RuledEnv DEF SetRuleDirectly, SetRule, LedgerInv
    <2> QED
        BY <2>1, PreviewStays
<1>12. ASSUME ConfirmRule
       PROVE  PreviewInv'
    BY <1>12 DEF ConfirmRule, PreviewInv
<1>13. ASSUME UNCHANGED vars
       PROVE  PreviewInv'
    BY <1>1, <1>13 DEF vars
<1> QED
    BY <1>2, <1>3, <1>5, <1>6, <1>7, <1>8, <1>9, <1>10, <1>11, <1>12, <1>13 DEF Next

(* Computed under e with the rule, done under g with the rule.             *)
LEMMA PromiseKept ==
    ASSUME NEW t, Table(t), NEW e, IsEnv(e), Current(e, t), NEW g, IsEnv(g), Current(g, t),
           g.links = e.links, g.owner = e.owner, g.rules = e.rules,
           DOMAIN g.splits = DOMAIN e.splits, NEW rule, rule[1] # NoCode,
           g.splits[rule[1]] = e.splits[rule[1]]
    PROVE  LET e1 == Ruled(e, rule)
               g1 == Ruled(g, rule)
               c == rule[1]
           IN  /\ OfStock(Holdings(Rows(e1, t)), c) = OfStock(Holdings(Rows(g1, t)), c)
               /\ \A i \in SettledSells(t) :
                     Earned(t, Rows(e1, t), i) = Worth(Refresh(g1, t)[i])
<1> DEFINE e1 == Ruled(e, rule)
           g1 == Ruled(g, rule)
           c == rule[1]
<1>1. /\ IsEnv(e1) /\ e1.links = e.links /\ e1.owner = e.owner /\ e1.splits = e.splits
      /\ IsEnv(g1) /\ g1.links = e.links /\ g1.owner = e.owner /\ g1.splits = g.splits
      /\ g1.rules = e1.rules
    <2>1. /\ IsEnv(e1) /\ e1.links = e.links /\ e1.owner = e.owner /\ e1.splits = e.splits
          /\ e1.rules = {r \in e.rules :
                            <<r[1], r[2], r[3]>> # <<rule[1], rule[2], rule[3]>>} \cup {rule}
        BY RuledEnv
    <2>2. /\ IsEnv(g1) /\ g1.links = g.links /\ g1.owner = g.owner /\ g1.splits = g.splits
          /\ g1.rules = {r \in g.rules :
                            <<r[1], r[2], r[3]>> # <<rule[1], rule[2], rule[3]>>} \cup {rule}
        BY RuledEnv
    <2> HIDE DEF e1, g1
    <2> QED
        BY <2>1, <2>2
<1>2. SameSplits(e1, g1, c)
    BY <1>1 DEF SameSplits
<1>3. \A d : d # c => SameSplits(e, e1, d) /\ SameSplits(g, g1, d)
    BY RuledElsewhere
<1> HIDE DEF e1, g1, c
<1>4. OfStock(Holdings(Rows(e1, t)), c) = OfStock(Holdings(Rows(g1, t)), c)
    BY <1>1, <1>2, RowsOfStock, HoldingsOfStock
<1>5. ASSUME NEW i \in SettledSells(t)
      PROVE  Earned(t, Rows(e1, t), i) = Worth(Refresh(g1, t)[i])
    <2> DEFINE d == Stock(OldShares(e, BareTable(t))[i])
    <2>1. i \in Entries(t)
        BY DEF SettledSells
    <2>2. /\ Stock(Rows(e, t)[i]) = d /\ Stock(Rows(g, t)[i]) = d
          /\ Stock(Rows(e1, t)[i]) = d /\ Stock(Rows(g1, t)[i]) = d
        BY <1>1, <2>1, StockOfRow, OldSharesReads
    <2> HIDE DEF d
    <2>3. ASSUME d = c
          PROVE  Earned(t, Rows(e1, t), i) = Earned(t, Rows(g1, t), i)
        <3>1. SameSplits(e1, g1, Stock(Rows(e1, t)[i]))
            BY <1>2, <2>2, <2>3
        <3> QED
            BY <1>1, <2>1, <3>1, EarnedSame
    <2>4. ASSUME d # c
          PROVE  Earned(t, Rows(e1, t), i) = Earned(t, Rows(g1, t), i)
        <3>1. Earned(t, Rows(e1, t), i) = Earned(t, Rows(e, t), i)
            BY <1>1, <1>3, <2>1, <2>2, <2>4, EarnedSame
        <3>2. Earned(t, Rows(g1, t), i) = Earned(t, Rows(g, t), i)
            BY <1>1, <1>3, <2>1, <2>2, <2>4, EarnedSame
        <3>3. Earned(t, Rows(e, t), i) = Earned(t, Rows(g, t), i)
            BY CurrentWorth
        <3> QED
            BY <3>1, <3>2, <3>3
    <2>5. Earned(t, Rows(e1, t), i) = Earned(t, Rows(g1, t), i)
        BY <2>3, <2>4
    <2> QED
        BY <2>5, WorthIsEarned
<1> QED
    BY <1>4, <1>5 DEF e1, g1, c

LEMMA SettledSellsStay ==
    ASSUME NEW e, NEW t, Table(t)
    PROVE  SettledSells(Refresh(e, t)) = SettledSells(t)
<1>1. \A i \in Entries(t) : /\ Refresh(e, t)[i].kind = t[i].kind
                            /\ Refresh(e, t)[i].settled = t[i].settled
    BY RefreshRow DEF Columns
<1> QED
    BY <1>1, RefreshDomain DEF SettledSells

LEMMA ConfirmKeepsPromise ==
    ASSUME LedgerInv, PreviewInv, ConfirmRule
    PROVE  /\ OfStock(preview.shown[1], preview.rule[1])
                 = OfStock(HoldingsIn(ledger'), preview.rule[1])
           /\ preview.shown[2] = StoredTotal(ledger')
<1> DEFINE rule == preview.rule
           e2 == Ruled(env, rule)
           c == rule[1]
<1>1. /\ preview # NoPreview /\ preview.token = Signature(rule)
      /\ env' = e2 /\ ledger' = Refresh(e2, ledger)
    BY DEF ConfirmRule, SetRule
<1>2. PICK e : PreviewedUnder(e)
    BY <1>1 DEF PreviewInv
<1>3. preview.token = <<rule, env.links, env.owner, ledger, env.rules, env.splits[c]>>
    BY <1>1 DEF Signature
<1>4. /\ IsEnv(e) /\ DOMAIN e.splits = DOMAIN env.splits /\ c # NoCode
      /\ Current(e, preview.token[4])
      /\ preview.token = <<rule, e.links, e.owner, preview.token[4], e.rules, e.splits[c]>>
      /\ preview.shown = Outcome(Ruled(e, rule), preview.token[4])
    BY <1>2 DEF PreviewedUnder
<1>5. /\ preview.token[4] = ledger /\ env.links = e.links /\ env.owner = e.owner
      /\ env.rules = e.rules /\ env.splits[c] = e.splits[c]
    BY <1>3, <1>4
<1> DEFINE e1 == Ruled(e, rule)
           shown == [i \in SettledSells(ledger) |-> Earned(ledger, Rows(e1, ledger), i)]
           done == [i \in SettledSells(ledger) |-> Worth(ledger'[i])]
<1>6. preview.shown = <<Holdings(Rows(e1, ledger)), SumFunction(shown)>>
    BY <1>4, <1>5 DEF Outcome, Rows
<1>7. /\ OfStock(Holdings(Rows(e1, ledger)), c) = OfStock(Holdings(Rows(e2, ledger)), c)
      /\ \A i \in SettledSells(ledger) :
            Earned(ledger, Rows(e1, ledger), i) = Worth(Refresh(e2, ledger)[i])
    BY <1>4, <1>5, PromiseKept DEF LedgerInv
<1>8. shown = done
    BY <1>1, <1>7
<1>9. StoredTotal(ledger') = SumFunction(done)
    <2>1. SettledSells(ledger') = SettledSells(ledger)
        BY <1>1, SettledSellsStay DEF LedgerInv
    <2> QED
        BY <2>1 DEF StoredTotal, Worth
<1>10. HoldingsIn(ledger') = Holdings(Rows(e2, ledger))
    <2>1. Rows(e2, Refresh(e2, ledger)) = Rows(e2, ledger)
        BY RowsAgain DEF LedgerInv
    <2>2. HoldingsIn(ledger') = Holdings(Rows(env', ledger'))
        BY DEF HoldingsIn, Rows
    <2> QED
        BY <1>1, <2>1, <2>2
<1> HIDE DEF shown, done, e1, e2
<1> QED
    BY <1>6, <1>7, <1>8, <1>9, <1>10

(* Whoever confirms a split dialog gets the holdings of its stock and the  *)
(* realized profit it showed, whatever happened since it was opened, or is *)
(* refused: the token does not name the splits of other stocks, but what   *)
(* they change of stored profits it would have named (integrity.py:93).    *)
THEOREM SplitPreviewsComeTrue == Spec => PreviewIsWhatHappens
<1> DEFINE Kind == ConfirmRule =>
          /\ OfStock(preview.shown[1], preview.rule[1])
                = OfStock(HoldingsIn(ledger'), preview.rule[1])
          /\ preview.shown[2] = StoredTotal(ledger')
<1>1. Init => PreviewInv
    BY DEF Init, PreviewInv
<1>2. LedgerInv /\ PreviewInv /\ [Next]_vars => [Kind]_vars
    BY ConfirmKeepsPromise
<1>3. LedgerInv /\ world \in DOMAIN Worlds /\ PreviewInv /\ [Next]_vars => PreviewInv'
    BY PreviewKeeps
<1> HIDE DEF Kind
<1>4. Spec => [][Kind]_vars
    BY <1>1, <1>2, <1>3, LedgerInvariant, WorldStays, PTL DEF Spec
<1> QED
    BY <1>4 DEF PreviewIsWhatHappens, Kind

-----------------------------------------------------------------------------
(* Lots: the folds of the models as instances of FoldLemmas.               *)

Plus(x, y) == x + y
Itself(data, x) == x
Some(S) == CHOOSE x \in S : TRUE
LotShares(lots, n) == lots[n].qty
TakenOf(sale, n) == Taken(sale[1], sale[2], n)

ByTime == INSTANCE FoldLemmas WITH Op <- Apply, Base <- Nothing, Map <- Itself, Pick <- Latest
InLots == INSTANCE FoldLemmas WITH Op <- Trade, Base <- Flat, Map <- Itself, Pick <- Latest
OfLots == INSTANCE FoldLemmas WITH Op <- Plus, Base <- 0, Map <- LotShares, Pick <- Some
Times(s, f) == s[2] * f
OfSplits == INSTANCE FoldLemmas WITH Op <- Times, Base <- 1, Map <- Itself, Pick <- Some
OfSale == INSTANCE FoldLemmas WITH Op <- Plus, Base <- 0, Map <- TakenOf, Pick <- Some

(* FiniteSets is the same module in each instance.                         *)
LEMMA SameFiniteSets ==
    /\ \A S : ByTime!IsFiniteSet(S) <=> IsFiniteSet(S)
    /\ \A S : InLots!IsFiniteSet(S) <=> IsFiniteSet(S)
    /\ \A S : OfLots!IsFiniteSet(S) <=> IsFiniteSet(S)
    /\ \A S : OfSale!IsFiniteSet(S) <=> IsFiniteSet(S)
    /\ \A S : OfSplits!IsFiniteSet(S) <=> IsFiniteSet(S)
BY DEF OfSplits!IsFiniteSet, ByTime!IsFiniteSet, InLots!IsFiniteSet, OfLots!IsFiniteSet, OfSale!IsFiniteSet, IsFiniteSet

LEMMA MinOfFinite ==
    ASSUME NEW S, S \subseteq Int, IsFiniteSet(S), S # {}
    PROVE  Min(S) \in S /\ \A y \in S : Min(S) <= y
BY SameFiniteSets, OfLots!MinOfFinite DEF Min, OfLots!Min

LEMMA MaxOfFinite ==
    ASSUME NEW S, S \subseteq Int, IsFiniteSet(S), S # {}
    PROVE  Max(S) \in S /\ \A y \in S : Max(S) >= y
BY SameFiniteSets, OfLots!MaxOfFinite DEF Max, OfLots!Max

LEMMA HoldingIsFold ==
    ASSUME NEW S PROVE HoldingAfter(S) = ByTime!Fold(0, S)
BY DEF HoldingAfter, ByTime!Fold, ByTime!MapThenFoldSet, MapThenFoldSet, Itself

LEMMA AfterIsFold ==
    ASSUME NEW S PROVE After(S) = InLots!Fold(0, S)
BY DEF After, InLots!Fold, InLots!MapThenFoldSet, MapThenFoldSet, Itself

LEMMA SharesIsFold ==
    ASSUME NEW lots, NEW N PROVE Shares(lots, N) = OfLots!Fold(lots, N)
BY DEF Shares, OfLots!Fold, MapThenSumSet, MapThenFoldSet, OfLots!MapThenFoldSet, Plus, Some, LotShares

TakenIn(lots, qty, N) == MapThenSumSet(LAMBDA n : Taken(lots, qty, n), N)

LEMMA SaleIsFold ==
    ASSUME NEW lots, NEW qty, NEW N
    PROVE  TakenIn(lots, qty, N) = OfSale!Fold(<<lots, qty>>, N)
BY DEF TakenIn, OfSale!Fold, MapThenSumSet, MapThenFoldSet, OfSale!MapThenFoldSet, Plus, Some, TakenOf

(* What holds of 0 and of the successor of a number holds up to n.         *)
LEMMA Counting ==
    ASSUME NEW n \in Nat, NEW Good, 0 \in Good,
           \A k \in 0..(n - 1) : k \in Good => k + 1 \in Good
    PROVE  n \in Good
<1> DEFINE Bad == (0..n) \ Good
<1>1. SUFFICES ASSUME Bad # {} PROVE FALSE
    OBVIOUS
<1>2. Bad \subseteq Int /\ IsFiniteSet(Bad)
    <2>1. Bad \subseteq 0..n
        OBVIOUS
    <2>2. IsFiniteSet(0..n)
        BY FS_Interval
    <2> HIDE DEF Bad
    <2>3. IsFiniteSet(Bad)
        BY <2>1, <2>2, FS_Subset
    <2> QED BY <2>1, <2>3
<1> DEFINE k == Min(Bad)
<1>3. k \in Bad /\ \A j \in Bad : k <= j
    <2> HIDE DEF Bad
    <2> QED BY <1>1, <1>2, MinOfFinite
<1>4. k \in 0..n /\ k \notin Good /\ \A j \in Bad : k <= j
    BY <1>3
<1> HIDE DEF k
<1>5. k # 0 /\ k - 1 \in 0..(n - 1) /\ (k - 1) + 1 = k
    BY <1>4
<1>6. k - 1 \notin Bad /\ k - 1 \in 0..n
    BY <1>4, <1>5
<1>7. k - 1 \in Good
    BY <1>6
<1> QED BY <1>4, <1>5, <1>7

(* The sums over lots add, in whatever order.                              *)
LEMMA LotsAdd ==
    /\ OfLots!Adds /\ \A S : OfLots!PicksFrom(S)
    /\ OfSale!Adds /\ \A S : OfSale!PicksFrom(S)
<1>1. \A S : \A T \in SUBSET S : T # {} => Some(T) \in T
    BY DEF Some
<1>2. (\A S : OfLots!PicksFrom(S)) /\ (\A S : OfSale!PicksFrom(S))
    BY <1>1 DEF OfLots!PicksFrom, OfSale!PicksFrom
<1> QED BY <1>2 DEF OfLots!Adds, OfSale!Adds, Plus

LEMMA PairIsFinite == \A a, b : IsFiniteSet({a, b})
<1>1. ASSUME NEW a, NEW b PROVE IsFiniteSet({a, b})
    <2>1. IsFiniteSet({a}) /\ {a, b} = {a} \cup {b}
        BY FS_Singleton
    <2> QED BY <2>1, FS_AddElement
<1> QED BY <1>1

LEMMA MinOfTwo ==
    ASSUME NEW a \in Int, NEW b \in Int
    PROVE  Min({a, b}) = IF a <= b THEN a ELSE b
<1>1. IsFiniteSet({a, b})
    BY PairIsFinite
<1> QED BY <1>1, MinOfFinite

LEMMA MaxOfTwo ==
    ASSUME NEW a \in Int, NEW b \in Int
    PROVE  Max({a, b}) = IF a >= b THEN a ELSE b
<1>1. IsFiniteSet({a, b})
    BY PairIsFinite
<1> QED BY <1>1, MaxOfFinite

-----------------------------------------------------------------------------
(* Lots.                                                                   *)

LotsOf(classes) == Seq([qty : Nat, class : classes])

LEMMA LotsType ==
    ASSUME NEW classes, NEW lots \in LotsOf(classes)
    PROVE  /\ Len(lots) \in Nat /\ DOMAIN lots = 1..Len(lots) /\ IsFiniteSet(DOMAIN lots)
           /\ \A n \in DOMAIN lots : lots[n] \in [qty : Nat, class : classes] /\ lots[n].qty \in Nat
<1> DEFINE X == [qty : Nat, class : classes]
<1> HIDE DEF X
<1>1. Len(lots) \in Nat /\ DOMAIN lots = 1..Len(lots) /\ \A n \in DOMAIN lots : lots[n] \in X
    <2>1. lots \in Seq(X)
        BY DEF LotsOf, X
    <2> QED BY <2>1
<1>2. IsFiniteSet(1..Len(lots))
    BY <1>1, FS_Interval
<1>3. \A n \in DOMAIN lots : lots[n] \in [qty : Nat, class : classes]
    BY <1>1 DEF X
<1> QED BY <1>1, <1>2, <1>3

LEMMA SharesOfNone ==
    ASSUME NEW lots PROVE Shares(lots, {}) = 0
BY SharesIsFold, OfLots!FoldOfNothing

LEMMA SharesType ==
    ASSUME NEW classes, NEW lots \in LotsOf(classes), NEW N, N \subseteq DOMAIN lots
    PROVE  Shares(lots, N) \in Nat
<1>1. IsFiniteSet(N)
    BY LotsType, FS_Subset
<1>2. \A n \in N : LotShares(lots, n) \in Nat
    BY LotsType DEF LotShares
<1>3. OfLots!Fold(lots, N) \in Nat
    BY <1>1, <1>2, LotsAdd, SameFiniteSets, OfLots!SumIsNat
<1> QED BY <1>3, SharesIsFold

LEMMA SharesUpTo ==
    ASSUME NEW classes, NEW lots \in LotsOf(classes), NEW k \in Nat, k + 1 \in DOMAIN lots
    PROVE  /\ Shares(lots, 1..k) \in Nat
           /\ Shares(lots, 1..(k + 1)) = Shares(lots, 1..k) + lots[k + 1].qty
<1> DEFINE N == 1..(k + 1)
           rest == 1..k
<1>1. N \subseteq DOMAIN lots /\ rest \subseteq DOMAIN lots /\ k + 1 \in N /\ N \ {k + 1} = rest
    BY LotsType
<1> HIDE DEF N, rest
<1>2. IsFiniteSet(N)
    BY <1>1, LotsType, FS_Subset
<1>3. \A n \in N : LotShares(lots, n) \in Int
    BY <1>1, LotsType DEF LotShares
<1>4. OfLots!Fold(lots, N) = LotShares(lots, k + 1) + OfLots!Fold(lots, rest)
    BY <1>1, <1>2, <1>3, LotsAdd, SameFiniteSets, OfLots!SumWith
<1>5. Shares(lots, N) = lots[k + 1].qty + Shares(lots, rest)
    BY <1>4, SharesIsFold DEF LotShares
<1>6. Shares(lots, rest) \in Nat /\ lots[k + 1].qty \in Nat
    BY <1>1, SharesType, LotsType
<1>7. Shares(lots, rest) \in Nat /\ Shares(lots, N) = Shares(lots, rest) + lots[k + 1].qty
    BY <1>5, <1>6
<1> QED BY <1>7 DEF N, rest

(* What a sell takes up to a lot is what is there, if it sells that much.  *)
LEMMA TakenRange ==
    ASSUME NEW classes, NEW lots \in LotsOf(classes), NEW qty \in Nat, NEW n \in DOMAIN lots
    PROVE  /\ Taken(lots, qty, n) \in 0..lots[n].qty
           /\ Before(lots, n) \in Nat
           /\ Taken(lots, qty, n) =
                 LET left == IF qty <= Before(lots, n) THEN 0 ELSE qty - Before(lots, n)
                 IN  IF lots[n].qty <= left THEN lots[n].qty ELSE left
<1> DEFINE before == Before(lots, n)
           own == lots[n].qty
           left == Max({0, qty - before})
<1>1. before \in Nat
    <2>1. 1..(n - 1) \subseteq DOMAIN lots
        BY LotsType
    <2> QED BY <2>1, SharesType DEF Before
<1>2. own \in Nat
    BY LotsType
<1> HIDE DEF before, own
<1>3. left = IF 0 >= qty - before THEN 0 ELSE qty - before
    BY <1>1, MaxOfTwo
<1>4. left \in Nat /\ left = IF qty <= before THEN 0 ELSE qty - before
    BY <1>1, <1>3
<1> HIDE DEF left
<1>5. Min({own, left}) = IF own <= left THEN own ELSE left
    BY <1>2, <1>4, MinOfTwo
<1>6. Taken(lots, qty, n) = Min({own, left})
    BY DEF Taken, own, left, before
<1>7. Taken(lots, qty, n) = IF own <= left THEN own ELSE left
    BY <1>5, <1>6
<1>8. Taken(lots, qty, n) \in 0..own
    BY <1>2, <1>4, <1>7
<1> QED BY <1>1, <1>4, <1>7, <1>8 DEF before, own

LEMMA TakenUpTo ==
    ASSUME NEW classes, NEW lots \in LotsOf(classes), NEW qty \in Nat,
           NEW k \in Nat, k + 1 \in DOMAIN lots
    PROVE  /\ TakenIn(lots, qty, 1..k) \in Nat
           /\ TakenIn(lots, qty, 1..(k + 1))
                 = TakenIn(lots, qty, 1..k) + Taken(lots, qty, k + 1)
<1> DEFINE N == 1..(k + 1)
           rest == 1..k
           sale == <<lots, qty>>
<1>1. N \subseteq DOMAIN lots /\ rest \subseteq N /\ k + 1 \in N /\ N \ {k + 1} = rest
    BY LotsType
<1>2. \A n \in N : TakenOf(sale, n) = Taken(lots, qty, n)
    BY DEF TakenOf
<1>3. /\ TakenIn(lots, qty, N) = OfSale!Fold(sale, N)
      /\ TakenIn(lots, qty, rest) = OfSale!Fold(sale, rest)
    BY SaleIsFold DEF sale
<1> HIDE DEF N, rest, sale
<1>4. IsFiniteSet(N) /\ IsFiniteSet(rest)
    BY <1>1, LotsType, FS_Subset
<1>5. \A n \in N : TakenOf(sale, n) \in Nat
    BY <1>1, <1>2, TakenRange, LotsType
<1>6. OfSale!Fold(sale, N) = TakenOf(sale, k + 1) + OfSale!Fold(sale, rest)
    BY <1>1, <1>4, <1>5, LotsAdd, SameFiniteSets, OfSale!SumWith
<1>7. OfSale!Fold(sale, rest) \in Nat
    BY <1>1, <1>4, <1>5, LotsAdd, SameFiniteSets, OfSale!SumIsNat
<1>8. Taken(lots, qty, k + 1) \in Nat /\ TakenOf(sale, k + 1) = Taken(lots, qty, k + 1)
    BY <1>1, <1>2, <1>5
<1>9. /\ TakenIn(lots, qty, rest) \in Nat
      /\ TakenIn(lots, qty, N) = TakenIn(lots, qty, rest) + Taken(lots, qty, k + 1)
    BY <1>3, <1>6, <1>7, <1>8
<1> QED BY <1>9 DEF N, rest

(* A sell takes its shares from the lots, or all there are.                *)
LEMMA TakenIsSold ==
    ASSUME NEW classes, NEW lots \in LotsOf(classes), NEW qty \in Nat,
           NEW k \in Nat, k <= Len(lots)
    PROVE  LET there == Shares(lots, 1..k)
           IN  TakenIn(lots, qty, 1..k) = IF qty <= there THEN qty ELSE there
<1> DEFINE There(n) == Shares(lots, 1..n)
           Holds(n) == TakenIn(lots, qty, 1..n) = IF qty <= There(n) THEN qty ELSE There(n)
           Good == {n \in Nat : Holds(n)}
<1>1. 0 \in Good
    <2>1. 1..0 = {}
        OBVIOUS
    <2>2. TakenIn(lots, qty, {}) = 0 /\ Shares(lots, {}) = 0
        BY SharesOfNone, SaleIsFold, OfSale!FoldOfNothing
    <2> QED BY <2>1, <2>2
<1>2. ASSUME NEW n \in 0..(k - 1), n \in Good PROVE n + 1 \in Good
    <2> DEFINE before == There(n)
               own == lots[n + 1].qty
               taken == Taken(lots, qty, n + 1)
    <2>1. n \in Nat /\ n + 1 \in DOMAIN lots /\ (n + 1) - 1 = n
        BY <1>2, LotsType
    <2>2. before \in Nat /\ There(n + 1) = before + own /\ own \in Nat
        BY <2>1, SharesUpTo, LotsType
    <2>3. TakenIn(lots, qty, 1..(n + 1)) = TakenIn(lots, qty, 1..n) + taken
        BY <2>1, TakenUpTo
    <2>4. taken = LET left == IF qty <= before THEN 0 ELSE qty - before
                  IN  IF own <= left THEN own ELSE left
        <3>1. Before(lots, n + 1) = before
            BY <2>1 DEF Before
        <3> QED BY <2>1, <3>1, TakenRange
    <2>5. TakenIn(lots, qty, 1..n) = IF qty <= before THEN qty ELSE before
        BY <1>2
    <2> DEFINE sold == TakenIn(lots, qty, 1..(n + 1))
               all == There(n + 1)
    <2> HIDE DEF before, own, taken, sold, all
    <2>6. sold = IF qty <= all THEN qty ELSE all
        BY <2>2, <2>3, <2>4, <2>5 DEF sold, all
    <2> QED BY <2>1, <2>6 DEF sold, all
<1>3. k \in Good
    <2> HIDE DEF Good
    <2> QED BY <1>1, <1>2, Counting
<1> QED BY <1>3

-----------------------------------------------------------------------------
(* Holdings and the lots they consist of.                                  *)

Holdable == [qty : Nat, cost : Int, avg : Int]

(* What a calculation needs to know of a row.                              *)
Sound(row) == row.id \in Int /\ row.at \in Int /\ row.qty \in Nat /\ row.price \in Int

LEMMA LatestIsIn ==
    ASSUME NEW S, IsFiniteSet(S), \A row \in S : Sound(row)
    PROVE  ByTime!PicksFrom(S) /\ InLots!PicksFrom(S)
<1>1. ASSUME NEW T \in SUBSET S, T # {} PROVE Latest(T) \in T
    <2> DEFINE R == {p \in T \X T : Earlier(p[2], p[1])}
    <2>1. \A x, y \in T : <<x, y>> \in R <=> Earlier(y, x)
        OBVIOUS
    <2> HIDE DEF R
    <2>2. \A row \in T : row.at \in Int /\ row.id \in Int
        BY DEF Sound
    <2>3. \A x, y, z \in T : <<x, y>> \in R /\ <<y, z>> \in R => <<x, z>> \in R
        <3>1. \A x, y, z \in T : Earlier(y, x) /\ Earlier(z, y) => Earlier(z, x)
            BY <2>2 DEF Earlier
        <3> QED BY <2>1, <3>1
    <2>4. \A x \in T : <<x, x>> \notin R
        <3>1. \A x \in T : ~Earlier(x, x)
            BY <2>2 DEF Earlier
        <3> QED BY <2>1, <3>1
    <2>5. OfLots!IsFiniteSet(T)
        BY FS_Subset, SameFiniteSets
    <2>6. PICK x \in T : \A y \in T : <<y, x>> \notin R
        BY <1>1, <2>3, <2>4, <2>5, OfLots!MinimalElement
    <2>7. \A other \in T : ~Earlier(x, other)
        BY <2>1, <2>6
    <2> QED BY <2>7, Zenon DEF Latest
<1> QED BY <1>1 DEF ByTime!PicksFrom, InLots!PicksFrom

LEMMA ApplyType ==
    ASSUME NEW h \in Holdable, NEW row, Sound(row)
    PROVE  /\ Apply(row, h) \in Holdable
           /\ row.kind = "buy" => Apply(row, h).qty = h.qty + row.qty
           /\ row.kind = "sell" =>
                 Apply(row, h).qty = IF h.qty <= row.qty THEN 0 ELSE h.qty - row.qty
           /\ row.kind \notin {"buy", "sell"} => Apply(row, h) = h
<1>1. CASE row.kind = "buy"
    <2> DEFINE q == h.qty + row.qty
               c == h.cost + row.price * row.qty
               a == IF q > 0 THEN c \div q ELSE h.avg
    <2>1. q \in Nat /\ c \in Int
        BY DEF Holdable, Sound
    <2>2. a \in Int
        BY <2>1 DEF Holdable
    <2>3. Apply(row, h) = [qty |-> q, cost |-> c, avg |-> a]
        BY <1>1 DEF Apply, Bought
    <2> HIDE DEF c, a
    <2> QED BY <1>1, <2>1, <2>2, <2>3 DEF Holdable
<1>2. CASE row.kind = "sell"
    <2>1. Apply(row, h) = Sold(h, row)
        BY <1>2 DEF Apply
    <2>2. CASE h.qty <= row.qty
        BY <1>2, <2>1, <2>2 DEF Sold, Nothing, Holdable
    <2>3. CASE ~(h.qty <= row.qty)
        <3> DEFINE q == h.qty - row.qty
                   c == h.cost - h.avg * row.qty
        <3>1. q \in Nat /\ c \in Int
            BY <2>3 DEF Holdable, Sound
        <3>2. Apply(row, h) = [h EXCEPT !.qty = q, !.cost = c]
            BY <2>1, <2>3 DEF Sold
        <3> HIDE DEF c
        <3> QED BY <1>2, <2>3, <3>1, <3>2 DEF Holdable
    <2> QED BY <2>2, <2>3
<1>3. CASE row.kind \notin {"buy", "sell"}
    BY <1>3 DEF Apply
<1> QED BY <1>1, <1>2, <1>3

LEMMA HoldingType ==
    ASSUME NEW S, IsFiniteSet(S), \A row \in S : Sound(row)
    PROVE  HoldingAfter(S) \in Holdable
<1>1. Nothing \in Holdable
    BY DEF Nothing, Holdable
<1>2. \A row \in S : \A h \in Holdable : Apply(Itself(0, row), h) \in Holdable
    BY ApplyType DEF Itself
<1>3. ByTime!Fold(0, S) \in Holdable
    BY <1>1, <1>2, LatestIsIn, SameFiniteSets, ByTime!FoldType
<1> QED BY <1>3, HoldingIsFold

LEMMA HoldingStep ==
    ASSUME NEW S, IsFiniteSet(S), S # {}, \A row \in S : Sound(row)
    PROVE  LET last == Latest(S)
           IN  /\ last \in S
               /\ HoldingAfter(S) = Apply(last, HoldingAfter(S \ {last}))
               /\ After(S) = Trade(last, After(S \ {last}))
<1>1. Latest(S) \in S
    BY LatestIsIn DEF ByTime!PicksFrom
<1>2. ByTime!Fold(0, S) = Apply(Itself(0, Latest(S)), ByTime!Fold(0, S \ {Latest(S)}))
    BY LatestIsIn, SameFiniteSets, ByTime!FoldStep
<1>3. InLots!Fold(0, S) = Trade(Itself(0, Latest(S)), InLots!Fold(0, S \ {Latest(S)}))
    BY LatestIsIn, SameFiniteSets, InLots!FoldStep
<1> QED BY <1>1, <1>2, <1>3, HoldingIsFold, AfterIsFold DEF Itself

(* A position in lots has the holding by moving average, and its lots are  *)
(* that holding.                                                           *)
Fits(p, h, classes) ==
    /\ p = [h |-> p.h, lots |-> p.lots] /\ p.h = h
    /\ p.lots \in LotsOf(classes)
    /\ Shares(p.lots, DOMAIN p.lots) = h.qty

LEMMA BuyAddsLot ==
    ASSUME NEW classes, NEW lots \in LotsOf(classes), NEW lot \in [qty : Nat, class : classes]
    PROVE  LET other == Append(lots, lot)
           IN  /\ other \in LotsOf(classes)
               /\ Shares(other, DOMAIN other) = Shares(lots, DOMAIN lots) + lot.qty
<1> DEFINE other == Append(lots, lot)
           X == [qty : Nat, class : classes]
           k == Len(lots)
<1>1. lots \in Seq(X) /\ lot \in X
    BY DEF LotsOf
<1> HIDE DEF X
<1>2. /\ other \in Seq(X) /\ Len(other) = k + 1 /\ other[k + 1] = lot
      /\ \A n \in 1..k : other[n] = lots[n]
    BY <1>1, AppendProperties
<1>3. other \in LotsOf(classes) /\ DOMAIN lots = 1..k /\ k \in Nat
    BY <1>1, <1>2, LotsType DEF X, LotsOf
<1>4. DOMAIN other = 1..(k + 1) /\ k + 1 \in DOMAIN other
    BY <1>2, <1>3, LotsType
<1> HIDE DEF other, k
<1>5. Shares(other, 1..(k + 1)) = Shares(other, 1..k) + lot.qty
    BY <1>2, <1>3, <1>4, SharesUpTo
<1>6. Shares(other, 1..k) = Shares(lots, 1..k)
    <2>1. IsFiniteSet(1..k)
        BY <1>3, FS_Interval
    <2>2. \A n \in 1..k : LotShares(other, n) = LotShares(lots, n)
        BY <1>2 DEF LotShares
    <2>3. OfLots!Fold(other, 1..k) = OfLots!Fold(lots, 1..k)
        BY <2>1, <2>2, LotsAdd, SameFiniteSets, OfLots!FoldOfSame
    <2> QED BY <2>3, SharesIsFold
<1> QED BY <1>3, <1>4, <1>5, <1>6 DEF other

(* A sell leaves of the lots what it does not take.                        *)
LEMMA SellTakesLots ==
    ASSUME NEW classes, NEW lots \in LotsOf(classes), NEW qty \in Nat
    PROVE  LET rest == Consume(lots, qty)
               all == Shares(lots, DOMAIN lots)
           IN  /\ rest \in LotsOf(classes)
               /\ Shares(rest, DOMAIN rest) = IF qty <= all THEN all - qty ELSE 0
               /\ TakenIn(lots, qty, DOMAIN lots) = IF qty <= all THEN qty ELSE all
               /\ all \in Nat
<1> DEFINE rest == Consume(lots, qty)
           X == [qty : Nat, class : classes]
           len == Len(lots)
<1>1. len \in Nat /\ DOMAIN lots = 1..len
    BY LotsType
<1>2. ASSUME NEW n \in 1..len
      PROVE  /\ rest[n] \in X
             /\ rest[n].qty = lots[n].qty - Taken(lots, qty, n)
    <2> DEFINE left == lots[n].qty - Taken(lots, qty, n)
    <2>1. lots[n] \in X /\ left \in Nat
        BY <1>1, LotsType, TakenRange
    <2>2. rest[n] = [lots[n] EXCEPT !.qty = left]
        BY <1>1 DEF Consume
    <2> HIDE DEF left
    <2>3. rest[n] \in X /\ rest[n].qty = left
        BY <2>1, <2>2
    <2> QED BY <2>3 DEF left
<1>3. rest \in Seq(X) /\ DOMAIN rest = 1..len
    <2>1. rest = [n \in 1..len |-> rest[n]]
        BY <1>1 DEF Consume
    <2> HIDE DEF rest, X
    <2>2. rest \in [1..len -> X]
        BY <1>2, <2>1
    <2> QED BY <1>1, <2>1, <2>2, SeqDef
<1>4. rest \in LotsOf(classes)
    BY <1>3 DEF LotsOf
<1>5. Len(rest) = len
    BY <1>1, <1>3, <1>4, LotsType
<1> DEFINE Holds(n) == Shares(rest, 1..n) = Shares(lots, 1..n) - TakenIn(lots, qty, 1..n)
           Good == {n \in Nat : Holds(n)}
<1> HIDE DEF rest, X
<1>6. 0 \in Good
    <2>1. 1..0 = {}
        OBVIOUS
    <2>2. TakenIn(lots, qty, {}) = 0 /\ Shares(lots, {}) = 0 /\ Shares(rest, {}) = 0
        BY SharesOfNone, SaleIsFold, OfSale!FoldOfNothing
    <2> QED BY <2>1, <2>2
<1>7. ASSUME NEW n \in 0..(len - 1), n \in Good PROVE n + 1 \in Good
    <2> DEFINE m == n + 1
               up == 1..m
               to == 1..n
    <2>1. n \in Nat /\ m \in 1..len /\ m \in Nat
        BY <1>1, <1>7
    <2>2. /\ Shares(rest, up) = Shares(rest, to) + rest[m].qty
          /\ Shares(rest, to) \in Nat
        BY <1>3, <1>4, <2>1, SharesUpTo
    <2>3. /\ Shares(lots, up) = Shares(lots, to) + lots[m].qty
          /\ Shares(lots, to) \in Nat
        BY <1>1, <2>1, SharesUpTo
    <2>4. /\ TakenIn(lots, qty, up) = TakenIn(lots, qty, to) + Taken(lots, qty, m)
          /\ TakenIn(lots, qty, to) \in Nat
        BY <1>1, <2>1, TakenUpTo
    <2>5. Shares(rest, to) = Shares(lots, to) - TakenIn(lots, qty, to)
        BY <1>7
    <2>6. rest[m].qty = lots[m].qty - Taken(lots, qty, m) /\ lots[m].qty \in Nat
        BY <1>1, <1>2, <2>1, LotsType
    <2>7. Taken(lots, qty, m) \in Nat
        BY <1>1, <2>1, <2>6, TakenRange
    <2> HIDE DEF m, up, to
    <2>8. Shares(rest, up) = Shares(lots, up) - TakenIn(lots, qty, up)
        BY <2>2, <2>3, <2>4, <2>5, <2>6, <2>7
    <2> QED BY <2>1, <2>8 DEF m, up
<1>8. len \in Good
    <2> HIDE DEF Good
    <2> QED BY <1>1, <1>6, <1>7, Counting
<1>9. TakenIn(lots, qty, 1..len) = IF qty <= Shares(lots, 1..len) THEN qty ELSE Shares(lots, 1..len)
    BY <1>1, TakenIsSold
<1>10. Shares(lots, 1..len) \in Nat
    BY <1>1, SharesType
<1> QED BY <1>1, <1>3, <1>4, <1>8, <1>9, <1>10 DEF rest

LEMMA FlatFits ==
    ASSUME NEW classes PROVE Fits(Flat, Nothing, classes)
<1>1. <<>> \in LotsOf(classes) /\ DOMAIN <<>> = {}
    BY DEF LotsOf
<1> QED BY <1>1, SharesOfNone DEF Fits, Flat, Nothing

(* One more trade changes lots and holding alike.                          *)
LEMMA TradeFits ==
    ASSUME NEW classes, NEW p, NEW h \in Holdable, Fits(p, h, classes),
           NEW row, Sound(row), row.class \in classes
    PROVE  Fits(Trade(row, p), Apply(row, h), classes)
<1> DEFINE new == Apply(row, h)
           lots == p.lots
<1>1. p.h = h /\ lots \in LotsOf(classes) /\ Shares(lots, DOMAIN lots) = h.qty
    BY DEF Fits
<1>2. row.qty \in Nat /\ h.qty \in Nat
    BY DEF Sound, Holdable
<1>3. CASE row.kind = "buy"
    <2> DEFINE lot == [qty |-> row.qty, class |-> row.class]
    <2>1. lot \in [qty : Nat, class : classes] /\ lot.qty = row.qty
        BY <1>2
    <2>2. Trade(row, p) = [h |-> new, lots |-> Append(lots, lot)]
        BY <1>1, <1>3, Zenon DEF Trade
    <2>3. new.qty = h.qty + row.qty
        BY <1>3, ApplyType
    <2> HIDE DEF lot, new, lots
    <2>4. /\ Append(lots, lot) \in LotsOf(classes)
          /\ Shares(Append(lots, lot), DOMAIN Append(lots, lot)) = new.qty
        BY <1>1, <2>1, <2>3, BuyAddsLot
    <2> QED BY <2>2, <2>4 DEF Fits, new
<1>4. CASE row.kind = "sell"
    <2> DEFINE rest == Consume(lots, row.qty)
               left == IF new.qty = 0 THEN <<>> ELSE rest
    <2>1. Trade(row, p) = [h |-> new, lots |-> left]
        BY <1>1, <1>4 DEF Trade
    <2>2. new.qty = IF h.qty <= row.qty THEN 0 ELSE h.qty - row.qty
        BY <1>4, ApplyType
    <2> HIDE DEF new, lots
    <2>3. /\ rest \in LotsOf(classes)
          /\ Shares(rest, DOMAIN rest) = IF row.qty <= h.qty THEN h.qty - row.qty ELSE 0
        BY <1>1, <1>2, SellTakesLots
    <2>4. <<>> \in LotsOf(classes) /\ DOMAIN <<>> = {} /\ Shares(<<>>, {}) = 0
        BY SharesOfNone DEF LotsOf
    <2> HIDE DEF rest
    <2>5. left \in LotsOf(classes) /\ Shares(left, DOMAIN left) = new.qty
        BY <1>2, <2>2, <2>3, <2>4
    <2> HIDE DEF left
    <2> QED BY <2>1, <2>5 DEF Fits, new
<1>5. CASE row.kind \notin {"buy", "sell"}
    <2>1. new = h
        BY <1>5, ApplyType
    <2>2. Trade(row, p) = [h |-> new, lots |-> lots]
        BY <1>1, <1>5 DEF Trade
    <2> QED BY <1>1, <2>1, <2>2 DEF Fits
<1> QED BY <1>3, <1>4, <1>5

(* The lots after any trades are the holding after them.                   *)
LEMMA LotsFit ==
    ASSUME NEW S, IsFiniteSet(S), \A row \in S : Sound(row)
    PROVE  Fits(After(S), HoldingAfter(S), {row.class : row \in S})
<1> DEFINE classes == {row.class : row \in S}
           Good == {T \in SUBSET S : Fits(After(T), HoldingAfter(T), classes)}
<1>1. {} \in Good
    <2>1. After({}) = Flat /\ HoldingAfter({}) = Nothing
        BY AfterIsFold, HoldingIsFold, ByTime!FoldOfNothing, InLots!FoldOfNothing
    <2> QED BY <2>1, FlatFits
<1>2. ASSUME NEW T \in SUBSET S, T # {} PROVE \E x \in T : T \ {x} \in Good => T \in Good
    <2> DEFINE last == Latest(T)
               rest == T \ {last}
    <2>1. IsFiniteSet(T) /\ IsFiniteSet(rest)
        BY FS_Subset
    <2>2. /\ last \in T /\ HoldingAfter(T) = Apply(last, HoldingAfter(rest))
          /\ After(T) = Trade(last, After(rest))
        BY <1>2, <2>1, HoldingStep
    <2>3. ASSUME rest \in Good PROVE T \in Good
        <3>1. Sound(last) /\ last.class \in classes
            BY <2>2
        <3>2. HoldingAfter(rest) \in Holdable
            BY <2>1, HoldingType
        <3>3. Fits(After(rest), HoldingAfter(rest), classes)
            BY <2>3
        <3> HIDE DEF last, rest, classes
        <3>4. Fits(After(T), HoldingAfter(T), classes)
            BY <2>2, <3>1, <3>2, <3>3, TradeFits
        <3> QED BY <3>4
    <2> QED BY <2>2, <2>3
<1> HIDE DEF Good
<1>3. OfLots!IsFiniteSet(S)
    BY SameFiniteSets
<1>4. S \in Good
    BY <1>1, <1>2, <1>3, OfLots!SetInduction
<1> QED BY <1>4 DEF Good

-----------------------------------------------------------------------------
(* Rows hold numbers, before and after every write and refresh.            *)

(* The splits of a code multiply shares, and so does each set of them.     *)
LEMMA RatioIsPositive ==
    ASSUME NEW S, Ratios(S)
    PROVE  Ratio(S) \in Nat \ {0}
<1>1. Ratio(S) = OfSplits!Fold(0, S)
    BY DEF Ratio, FoldSet, OfSplits!Fold, OfSplits!MapThenFoldSet, MapThenFoldSet, Itself, Times, Some
<1>2. PICK Type : Type = Nat \ {0}
    OBVIOUS
<1>3. OfSplits!PicksFrom(S)
    <2>1. \A T \in SUBSET S : T # {} => Some(T) \in T
        BY DEF Some
    <2> QED BY <2>1 DEF OfSplits!PicksFrom
<1>4. 1 \in Type /\ \A s \in S : \A f \in Type : Times(Itself(0, s), f) \in Type
    <2>1. ASSUME NEW s \in S, NEW f \in Type PROVE s[2] * f \in Type
        <3>1. s[2] \in Nat \ {0} /\ f \in Nat \ {0}
            BY <1>2 DEF Ratios
        <3> DEFINE n == s[2]
        <3> HIDE DEF n
        <3>2. n \in Nat /\ n # 0 /\ f \in Nat /\ f # 0 => n * f \in Nat /\ n * f # 0
            OBVIOUS
        <3> QED BY <1>2, <3>1, <3>2 DEF n
    <2> QED BY <1>2, <2>1 DEF Times, Itself
<1>5. OfSplits!IsFiniteSet(S)
    BY SameFiniteSets DEF Ratios
<1>6. OfSplits!Fold(0, S) \in Type
    BY <1>3, <1>4, <1>5, OfSplits!FoldType
<1> QED BY <1>1, <1>2, <1>6

TypedEnv(e) == \A c \in DOMAIN e.splits : Ratios(e.splits[c])
TypedTable(t) == \A i \in Entries(t) : t[i].id = i /\ Numbers(t[i])

LEMMA FactorIsPositive ==
    ASSUME NEW e, TypedEnv(e), NEW row
    PROVE  Factor(e, row) \in Nat \ {0}
<1> DEFINE S == {s \in SplitsOf(e, row) : s[1] > TradeDay(row)}
<1>1. Ratios(S)
    <2>1. CASE row.code \in DOMAIN e.splits
        <3>1. S \subseteq e.splits[row.code] /\ Ratios(e.splits[row.code])
            BY <2>1 DEF SplitsOf, TypedEnv
        <3> HIDE DEF S
        <3>2. IsFiniteSet(S)
            BY <3>1, FS_Subset DEF Ratios
        <3> QED BY <3>1, <3>2 DEF Ratios
    <2>2. CASE row.code \notin DOMAIN e.splits
        <3>1. S = {}
            BY <2>2 DEF SplitsOf
        <3> HIDE DEF S
        <3> QED BY <3>1, FS_EmptySet DEF Ratios
    <2> QED BY <2>1, <2>2
<1> HIDE DEF S
<1>2. Ratio(S) \in Nat \ {0}
    BY <1>1, RatioIsPositive
<1> QED BY <1>2 DEF Factor, S

LEMMA ScaledSound ==
    ASSUME NEW e, TypedEnv(e), NEW row, Sound(row), {"qty", "price"} \subseteq DOMAIN row
    PROVE  /\ Sound(Scaled(e, row))
           /\ Scaled(e, row).qty = row.qty * Factor(e, row)
           /\ DOMAIN Scaled(e, row) = DOMAIN row
           /\ \A c \in DOMAIN row \ {"qty", "price"} : Scaled(e, row)[c] = row[c]
<1> DEFINE f == Factor(e, row)
           q == row.qty * f
           v == row.price \div f
<1>1. f \in Nat /\ f > 0
    BY FactorIsPositive
<1>2. Scaled(e, row) = [row EXCEPT !.qty = q, !.price = v]
    BY DEF Scaled
<1> HIDE DEF f
<1>3. q \in Nat /\ v \in Int
    BY <1>1 DEF Sound
<1> HIDE DEF q, v
<1>4. Scaled(e, row).qty = q /\ Scaled(e, row).price = v
    BY <1>2
<1>5. Scaled(e, row).id = row.id /\ Scaled(e, row).at = row.at
    BY <1>2
<1> QED BY <1>2, <1>3, <1>4, <1>5 DEF Sound, f, q

Renamed == {"ident", "code", "qty", "price"}

(* What prepare changes of a row leaves it one of numbers.                 *)
LEMMA PreparedSound ==
    ASSUME NEW e, TypedEnv(e), NEW t, NEW i \in Entries(t), Sound(t[i]),
           Renamed \subseteq DOMAIN t[i]
    PROVE  /\ i \in Entries(Prepared(e, t)) /\ Sound(Prepared(e, t)[i])
           /\ DOMAIN Prepared(e, t)[i] = DOMAIN t[i]
           /\ \A c \in DOMAIN t[i] \ Renamed : Prepared(e, t)[i][c] = t[i][c]
<1> DEFINE row == t[i]
           ident == Identity(e, row)
           old == [row EXCEPT !.ident = ident]
           code == LinkedCode(Identified(e, t), i)
           linked == [old EXCEPT !.code = code]
<1>1. i \in Entries(Prepared(e, t)) /\ Prepared(e, t)[i] = Scaled(e, linked)
    BY DEF Prepared, InNewShares, OldShares, Linked, Identified, Entries
<1> HIDE DEF ident, code
<1>2. /\ Sound(linked) /\ DOMAIN linked = DOMAIN row
      /\ \A c \in DOMAIN row \ Renamed : linked[c] = row[c]
    <2>1. /\ Sound(old) /\ DOMAIN old = DOMAIN row
          /\ \A c \in DOMAIN row \ Renamed : old[c] = row[c]
        BY DEF Sound, Renamed
    <2> HIDE DEF old
    <2> QED BY <2>1 DEF Sound, Renamed
<1> HIDE DEF linked
<1>3. {"qty", "price"} \subseteq DOMAIN linked
    BY <1>2 DEF Renamed
<1>4. /\ Sound(Scaled(e, linked)) /\ DOMAIN Scaled(e, linked) = DOMAIN linked
      /\ \A c \in DOMAIN linked \ {"qty", "price"} : Scaled(e, linked)[c] = linked[c]
    BY <1>2, <1>3, ScaledSound
<1> QED BY <1>1, <1>2, <1>4 DEF Renamed

LEMMA PreparedEntries ==
    ASSUME NEW e, NEW t PROVE Entries(Prepared(e, t)) = Entries(t)
BY DEF Prepared, InNewShares, OldShares, Linked, Identified, Entries

(* The rows of finitely many entries.                                      *)
LEMMA ImageIsFinite ==
    ASSUME NEW f, NEW N, IsFiniteSet(N)
    PROVE  IsFiniteSet({f[i] : i \in N})
<1> DEFINE T == {f[i] : i \in N}
           g == [i \in N |-> f[i]]
<1>1. g \in Surjection(N, T)
    BY DEF Surjection
<1> HIDE DEF g, T
<1>2. IsFiniteSet(T)
    BY <1>1, FS_Surjection
<1> QED BY <1>2 DEF T

(* The trades of a position in a table of sound rows.                      *)
LEMMA HistorySound ==
    ASSUME NEW rows, IsFiniteSet(Entries(rows)), \A i \in Entries(rows) : Sound(rows[i]), NEW p
    PROVE  IsFiniteSet(History(rows, p)) /\ \A row \in History(rows, p) : Sound(row)
<1> DEFINE N == {j \in Entries(rows) : rows[j].settled /\ Position(rows[j]) = p}
<1>1. N \subseteq Entries(rows)
    OBVIOUS
<1>2. History(rows, p) = {rows[i] : i \in N}
    BY DEF History
<1> HIDE DEF N
<1>3. IsFiniteSet(N)
    BY <1>1, FS_Subset
<1>4. IsFiniteSet(History(rows, p))
    BY <1>2, <1>3, ImageIsFinite
<1> QED BY <1>1, <1>2, <1>4

LEMMA PastSound ==
    ASSUME NEW rows, IsFiniteSet(Entries(rows)), \A i \in Entries(rows) : Sound(rows[i]), NEW row
    PROVE  IsFiniteSet(PastOf(rows, row)) /\ \A other \in PastOf(rows, row) : Sound(other)
<1>1. PastOf(rows, row) \subseteq History(rows, Position(row))
    BY DEF PastOf
<1>2. /\ IsFiniteSet(History(rows, Position(row)))
      /\ \A other \in History(rows, Position(row)) : Sound(other)
    BY HistorySound
<1>3. IsFiniteSet(PastOf(rows, row))
    BY <1>1, <1>2, FS_Subset
<1> QED BY <1>1, <1>2, <1>3

LEMMA EntriesAreFinite ==
    ASSUME NEW t, Table(t) PROVE IsFiniteSet(Entries(t))
BY IdsAssumption, FS_Subset DEF Table

LEMMA TypedIsSound ==
    ASSUME NEW t, Table(t), TypedTable(t), NEW i \in Entries(t)
    PROVE  Sound(t[i]) /\ Sound(Bare(t[i]))
<1>1. i \in Int
    BY IdsAssumption DEF Table
<1> QED BY <1>1 DEF TypedTable, Numbers, Sound, Bare

LEMMA BareRowsSound ==
    ASSUME NEW e, TypedEnv(e), NEW t, Table(t), TypedTable(t)
    PROVE  /\ Entries(Rows(e, t)) = Entries(t)
           /\ \A i \in Entries(t) : Sound(Rows(e, t)[i])
<1> DEFINE b == BareTable(t)
<1>1. Entries(b) = Entries(t) /\ \A i \in Entries(t) : b[i] = Bare(t[i])
    BY DEF BareTable, Entries
<1> HIDE DEF b
<1>2. ASSUME NEW i \in Entries(t) PROVE Sound(Prepared(e, b)[i])
    <2>1. Renamed \subseteq DOMAIN Bare(t[i])
        BY DEF Renamed, Bare
    <2> QED BY <1>1, <2>1, TypedIsSound, PreparedSound
<1> QED BY <1>1, <1>2, PreparedEntries DEF Rows, b

LEMMA ComputedIsInt ==
    ASSUME NEW row, Sound(row), NEW h \in Holdable
    PROVE  Computed(row, h) \in Int
<1>1. row.price \in Int /\ h.avg \in Int /\ row.qty \in Int
    BY DEF Sound, Holdable
<1> QED BY <1>1 DEF Computed

(* A refresh of rows of numbers writes numbers.                            *)
LEMMA RefreshTyped ==
    ASSUME NEW e, TypedEnv(e), NEW t, Table(t), TypedTable(t)
    PROVE  TypedTable(Refresh(e, t))
<1> DEFINE rows == Rows(e, t)
<1>1. ASSUME NEW i \in Entries(t)
      PROVE  Refresh(e, t)[i].id = i /\ Numbers(Refresh(e, t)[i])
    <2> DEFINE new == Refresh(e, t)[i]
               pnl == Profit(e, t, i)[1]
               h == HoldingBefore(rows, rows[i])
               earned == Computed(rows[i], h)
    <2>1. /\ new.pnl = pnl
          /\ \A c \in Columns \ {"pnl", "source", "ident"} : new[c] = t[i][c]
        BY RefreshRow
    <2>2. new.id = i /\ new.qty \in Nat /\ new.price \in Int /\ new.at \in Int
        BY <2>1 DEF Columns, TypedTable, Numbers
    <2>3. h \in Holdable
        BY BareRowsSound, EntriesAreFinite, PastSound, HoldingType DEF HoldingBefore
    <2>4. earned \in Int
        BY <2>3, BareRowsSound, ComputedIsInt
    <2> HIDE DEF h, earned
    <2>5. Rebuild(e, t, i)[1] \in {earned, NoPnl}
        BY DEF Rebuild, Reconstructed, Rebuilt, earned, h
    <2>6. Profit(e, t, i)[1] \in {t[i].pnl, Rebuild(e, t, i)[1], NoPnl}
        BY DEF Profit, StoredProfit
    <2>7. t[i].pnl = NoPnl \/ t[i].pnl \in Int
        BY DEF TypedTable, Numbers
    <2>8. pnl = NoPnl \/ pnl \in Int
        BY <2>4, <2>5, <2>6, <2>7
    <2> HIDE DEF new, pnl
    <2>9. new.id = i /\ Numbers(new)
        BY <2>1, <2>2, <2>8 DEF Numbers
    <2> QED BY <2>9 DEF new
<1> QED BY <1>1, RefreshDomain DEF TypedTable

-----------------------------------------------------------------------------
NumbersInv == TypedTable(ledger) /\ TypedEnv(env)

LEMMA NumbersStep ==
    ASSUME NEW t, NEW e, Table(t), TypedTable(t), TypedEnv(e),
           ledger' = Refresh(e, t) \/ ledger' = t, env' = e
    PROVE  NumbersInv'
BY RefreshTyped DEF NumbersInv

LEMMA WriteTyped ==
    ASSUME NEW t, Table(t), TypedTable(t), NEW i \in Ids, NEW row, IsRow(row),
           row.id = i, Numbers(row)
    PROVE  Table(With(t, i, row)) /\ TypedTable(With(t, i, row))
<1> DEFINE u == With(t, i, row)
<1>1. /\ Entries(u) = Entries(t) \cup {i} /\ u = [j \in Entries(u) |-> u[j]]
      /\ u[i] = row /\ \A j \in Entries(t) \ {i} : u[j] = t[j]
    BY DEF With, Entries
<1> HIDE DEF u
<1>2. ASSUME NEW j \in Entries(u) PROVE IsRow(u[j]) /\ u[j].id = j /\ Numbers(u[j])
    BY <1>1 DEF Table, TypedTable
<1>3. Table(u) /\ TypedTable(u)
    BY <1>1, <1>2 DEF Table, TypedTable
<1> QED BY <1>3 DEF u

LEMMA RowTyped ==
    ASSUME LedgerInv, NumbersInv, NEW i \in Ids, NEW row, IsRow(row), row.id = i, Numbers(row),
           \/ ledger' = Refresh(env, With(ledger, i, row))
           \/ ledger' = RefreshIfChanged(i, row),
           env' = env
    PROVE  NumbersInv'
<1> DEFINE t == With(ledger, i, row)
<1>1. Table(t) /\ TypedTable(t)
    BY WriteTyped DEF LedgerInv, NumbersInv
<1>2. ledger' = Refresh(env, t) \/ ledger' = t
    BY DEF RefreshIfChanged
<1> HIDE DEF t
<1> QED BY <1>1, <1>2, NumbersStep DEF NumbersInv

LEMMA BotRowTyped ==
    ASSUME NEW e, NEW fill, Numbers(fill.form)
    PROVE  LET row == AsBotRow(e, fill) IN row.id = NextId /\ Numbers(row)
<1> DEFINE first == AsRow(NextId, fill.form)
           broker == ResolvedBroker(e, first.broker)
           row == [first EXCEPT !.broker = broker, !.bot = TRUE,
                                !.abroad = fill.abroad, !.settled = fill.settled]
           ident == Identity(e, row)
<1>1. first.id = NextId /\ Numbers(first)
    BY DEF AsRow, Numbers
<1> HIDE DEF first, broker
<1>2. row.id = NextId /\ Numbers(row)
    BY <1>1 DEF Numbers
<1> HIDE DEF row, ident
<1>3. LET r == [row EXCEPT !.ident = ident] IN r.id = NextId /\ Numbers(r)
    BY <1>2 DEF Numbers
<1>4. AsBotRow(e, fill) = [row EXCEPT !.ident = ident]
    BY DEF AsBotRow, row, ident, first, broker
<1> QED BY <1>3, <1>4

LEMMA FormRowTyped ==
    ASSUME NEW old, NEW f, IsRow(old), Numbers(f), Numbers(old)
    PROVE  Numbers(Typed(old, f))
<1> DEFINE kept == IF f.broker = old.broker THEN old.ident ELSE NoBroker
           new == [old EXCEPT !.kind = f.kind, !.qty = f.qty, !.price = f.price, !.at = f.at,
                              !.broker = f.broker, !.code = f.code, !.name = f.name,
                              !.class = f.class, !.ident = kept]
           ident == Identity(env, new)
<1> HIDE DEF kept
<1>1. Numbers(new)
    BY DEF IsRow, Columns, Numbers
<1> HIDE DEF new, ident
<1>2. Numbers([new EXCEPT !.ident = ident])
    BY <1>1 DEF Numbers
<1>3. Typed(old, f) = [new EXCEPT !.ident = ident]
    BY DEF Typed, new, kept, ident
<1> QED BY <1>2, <1>3

LEMMA PatchedTyped ==
    ASSUME NEW old, NEW changes, IsRow(old), Numbers(old),
           "qty" \in DOMAIN changes => changes.qty \in Nat,
           "price" \in DOMAIN changes => changes.price \in Int,
           "at" \in DOMAIN changes => changes.at \in Int,
           "pnl" \in DOMAIN changes => changes.pnl = NoPnl \/ changes.pnl \in Int
    PROVE  Numbers(Patched(old, changes))
<1> DEFINE new == [c \in DOMAIN old |-> IF c \in DOMAIN changes THEN changes[c] ELSE old[c]]
<1>1. Numbers(new)
    BY DEF IsRow, Columns, Numbers
<1> HIDE DEF new
<1> DEFINE source == IF new.pnl = NoPnl THEN NoSource ELSE "recorded"
<1>2. Numbers([new EXCEPT !.source = source])
    BY <1>1 DEF Numbers
<1>3. Patched(old, changes) = IF "pnl" \in DOMAIN changes THEN [new EXCEPT !.source = source]
                                                          ELSE new
    BY DEF Patched, new
<1> QED BY <1>1, <1>2, <1>3

LEMMA InsertTyped ==
    ASSUME LedgerInv, NumbersInv, world \in DOMAIN Worlds, NEW row, Insert(row),
           IsRow(row), row.id = NextId, Numbers(row)
    PROVE  NumbersInv'
<1>1. NextId \in Ids
    BY WorldsAssumption DEF Insert
<1> QED BY <1>1, RowTyped DEF Insert

LEMMA OpeningTyped ==
    ASSUME LedgerInv, NumbersInv, world \in DOMAIN Worlds, NEW f, Numbers(f), Opening(f)
    PROVE  NumbersInv'
<1> DEFINE row == AsBotRow(env, [form |-> f, abroad |-> FALSE, settled |-> TRUE])
           key == OpeningKey(row)
           keyed == [row EXCEPT !.key = key]
<1>1. IsRow(row) /\ row.id = NextId /\ Numbers(row)
    BY NewBotRow, BotRowTyped
<1>2. Insert(keyed)
    BY DEF Opening
<1> HIDE DEF row, key
<1>3. IsRow(keyed) /\ keyed.id = NextId /\ Numbers(keyed)
    BY <1>1 DEF IsRow, Columns, Numbers
<1> HIDE DEF keyed
<1> QED BY <1>2, <1>3, InsertTyped

LEMMA SplitsTyped ==
    ASSUME IsEnv(env), TypedEnv(env), NEW c, NEW news, Ratios(news)
    PROVE  TypedEnv(Published(env, c, news))
<1> DEFINE splits == [env.splits EXCEPT ![c] = news]
           e == [env EXCEPT !.splits = splits]
<1>1. \A d \in DOMAIN splits : d \in DOMAIN env.splits /\ splits[d] \in {news, env.splits[d]}
    OBVIOUS
<1>2. \A d \in DOMAIN splits : Ratios(splits[d])
    BY <1>1 DEF TypedEnv
<1>3. Published(env, c, news) = e
    BY DEF Published
<1> HIDE DEF splits
<1> QED BY <1>2, <1>3 DEF TypedEnv, IsEnv

LEMMA NumbersInit == Init => NumbersInv
<1> SUFFICES ASSUME Init PROVE NumbersInv
    OBVIOUS
<1>1. PICK t \in Worlds[world].tables : ledger = Refresh(env, t)
    BY DEF Init
<1>2. Table(t) /\ TypedTable(t) /\ TypedEnv(env)
    BY <1>1, WorldsAssumption, NumbersAssumption DEF Init, Table, IsRow, TypedTable, TypedEnv
<1> QED BY <1>1, <1>2, RefreshTyped DEF NumbersInv

(* Every write keeps the rows ones of numbers.                             *)
LEMMA NumbersNext ==
    ASSUME LedgerInv, NumbersInv, world \in DOMAIN Worlds, [Next]_vars
    PROVE  NumbersInv'
<1> DEFINE in == Worlds[world]
<1>1. in.ids \subseteq Ids
    BY WorldsAssumption
<1>2. Table(ledger) /\ TypedTable(ledger) /\ TypedEnv(env) /\ IsEnv(env)
    BY DEF LedgerInv, NumbersInv
<1>3. ASSUME NEW i \in in.ids, NEW f \in in.forms, WebCreate(i, f) \/ WebUpdate(i, f)
      PROVE  NumbersInv'
    <2>1. i \in Ids /\ Numbers(f)
        BY <1>1, NumbersAssumption
    <2>2. CASE WebCreate(i, f)
        <3>1. IsRow(AsRow(i, f)) /\ AsRow(i, f).id = i /\ Numbers(AsRow(i, f))
            BY <2>1, NewRow DEF AsRow, Numbers
        <3>2. ledger' = Refresh(env, With(ledger, i, AsRow(i, f))) /\ env' = env
            BY <2>2 DEF WebCreate
        <3> QED BY <2>1, <3>1, <3>2, RowTyped
    <2>3. CASE WebUpdate(i, f)
        <3> DEFINE new == Typed(ledger[i], f)
        <3>1. i \in Entries(ledger) /\ ledger' = RefreshIfChanged(i, new) /\ env' = env
            BY <2>3 DEF WebUpdate
        <3>2. IsRow(ledger[i]) /\ ledger[i].id = i /\ Numbers(ledger[i])
            BY <1>2, <3>1 DEF Table, TypedTable
        <3>3. IsRow(new) /\ new.id = i /\ Numbers(new)
            BY <2>1, <3>2, TypedKeeps, FormRowTyped
        <3> HIDE DEF new
        <3> QED BY <2>1, <3>1, <3>3, RowTyped
    <2> QED BY <1>3, <2>2, <2>3
<1>4. ASSUME NEW i \in in.ids, Delete(i) PROVE NumbersInv'
    <2> DEFINE t == Without(ledger, i)
    <2>1. ledger' = Refresh(env, t) /\ env' = env
        BY <1>4 DEF Delete
    <2>2. /\ Entries(t) = Entries(ledger) \ {i} /\ t = [j \in Entries(t) |-> t[j]]
          /\ \A j \in Entries(t) : t[j] = ledger[j]
        BY DEF Without, Entries
    <2> HIDE DEF t
    <2>3. Table(t) /\ TypedTable(t)
        BY <1>2, <2>2 DEF Table, TypedTable
    <2> QED BY <1>2, <2>1, <2>3, NumbersStep
<1>5. ASSUME NEW fill \in in.fills, BotInsert(fill) PROVE NumbersInv'
    <2>1. Numbers(fill.form)
        BY NumbersAssumption
    <2> QED BY <1>5, <2>1, NewBotRow, BotRowTyped, InsertTyped DEF BotInsert
<1>6. ASSUME NEW i \in in.ids, NEW changes \in in.patches, BotPatch(i, changes)
      PROVE  NumbersInv'
    <2> DEFINE new == Patched(ledger[i], changes)
    <2>1. i \in Entries(ledger) /\ ledger' = RefreshIfChanged(i, new) /\ env' = env
        BY <1>6 DEF BotPatch
    <2>2. IsRow(ledger[i]) /\ ledger[i].id = i /\ Numbers(ledger[i])
        BY <1>2, <2>1 DEF Table, TypedTable
    <2>3. IsRow(new) /\ new.id = i
        BY <2>2, PatchedShows, WorldsAssumption
    <2>4. Numbers(new)
        BY <2>2, PatchedTyped, NumbersAssumption
    <2> HIDE DEF new
    <2> QED BY <1>1, <2>1, <2>3, <2>4, RowTyped
<1>7. ASSUME NEW f \in in.openings, Opening(f) PROVE NumbersInv'
    <2>1. Numbers(f)
        BY NumbersAssumption
    <2> QED BY <1>7, <2>1, OpeningTyped
<1>8. ASSUME NEW m, SaveMappings(m) PROVE NumbersInv'
    <2> DEFINE e == [env EXCEPT !.links = m.links, !.owner = m.owner]
    <2>1. env' = e /\ ledger' = Refresh(e, ledger)
        BY <1>8 DEF SaveMappings
    <2>2. TypedEnv(e)
        BY <1>2 DEF TypedEnv, IsEnv
    <2> HIDE DEF e
    <2> QED BY <1>2, <2>1, <2>2, NumbersStep
<1>9. ASSUME NEW n \in in.news, PublishSplits(n[1], n[2]) PROVE NumbersInv'
    <2> DEFINE e == Published(env, n[1], n[2])
    <2>1. env' = e /\ (ledger' = Refresh(e, ledger) \/ ledger' = ledger)
        BY <1>9 DEF PublishSplits, Published
    <2>2. Ratios(n[2])
        BY NumbersAssumption
    <2>3. TypedEnv(e)
        BY <1>2, <2>2, SplitsTyped
    <2> HIDE DEF e
    <2> QED BY <1>2, <2>1, <2>3, NumbersStep
<1>10. ASSUME NEW rule, SetRule(rule) PROVE NumbersInv'
    <2> DEFINE e == Ruled(env, rule)
    <2>1. env' = e /\ ledger' = Refresh(e, ledger)
        BY <1>10 DEF SetRule
    <2>2. TypedEnv(e)
        BY <1>2 DEF TypedEnv, IsEnv, Ruled
    <2> HIDE DEF e
    <2> QED BY <1>2, <2>1, <2>2, NumbersStep
<1>11. ASSUME UNCHANGED <<ledger, env>> PROVE NumbersInv'
    BY <1>11 DEF NumbersInv
<1>12. ASSUME NEW rule, Preview(rule) \/ SetRuleDirectly(rule) PROVE NumbersInv'
    BY <1>10, <1>11, <1>12 DEF Preview, SetRuleDirectly
<1>13. ASSUME ConfirmRule PROVE NumbersInv'
    BY <1>10, <1>13 DEF ConfirmRule
<1>14. ASSUME UNCHANGED vars PROVE NumbersInv'
    BY <1>11, <1>14 DEF vars
<1> QED
    BY <1>3, <1>4, <1>5, <1>6, <1>7, <1>8, <1>9, <1>12, <1>13, <1>14 DEF Next

(* Tables hold numbers.                                                    *)
THEOREM TradesAreNumbers == Spec => []NumbersInv
<1>1. Init => NumbersInv
    BY NumbersInit
<1>2. LedgerInv /\ NumbersInv /\ world \in DOMAIN Worlds /\ [Next]_vars => NumbersInv'
    BY NumbersNext
<1> QED
    BY <1>1, <1>2, LedgerInvariant, WorldStays, PTL DEF Spec

-----------------------------------------------------------------------------
(* The lots of the screens and the holding.                                *)

(* The prepared rows of the table.                                         *)
LEMMA NewRows ==
    ASSUME LedgerInv, NumbersInv
    PROVE  /\ Entries(New) = Entries(ledger) /\ IsFiniteSet(Entries(New))
           /\ \A i \in Entries(New) :
                 /\ Sound(New[i]) /\ New[i].id = i
                 /\ \A c \in Columns \ Renamed : New[i][c] = ledger[i][c]
<1>1. Table(ledger) /\ TypedTable(ledger) /\ TypedEnv(env)
    BY DEF LedgerInv, NumbersInv
<1>2. Entries(New) = Entries(ledger) /\ IsFiniteSet(Entries(New))
    BY <1>1, PreparedEntries, EntriesAreFinite DEF New
<1>3. ASSUME NEW i \in Entries(ledger)
      PROVE  Sound(New[i]) /\ \A c \in Columns \ Renamed : New[i][c] = ledger[i][c]
    <2>1. Columns \subseteq DOMAIN ledger[i] /\ Renamed \subseteq Columns
        BY <1>1 DEF Table, IsRow, Renamed, Columns
    <2>2. Sound(ledger[i])
        BY <1>1, TypedIsSound
    <2> QED BY <1>1, <2>1, <2>2, PreparedSound DEF New
<1>4. \A i \in Entries(ledger) : New[i].id = i
    BY <1>1, <1>3 DEF TypedTable, Columns, Renamed
<1> QED BY <1>2, <1>3, <1>4

LEMMA AllSelected ==
    ASSUME NEW p PROVE Selected(p, AnyClass) = Shares(p.lots, DOMAIN p.lots)
<1>1. {n \in DOMAIN p.lots : Matches(p.lots[n], AnyClass)} = DOMAIN p.lots
    BY DEF Matches
<1> QED BY <1>1 DEF Selected

(* A sell takes from the lots what they have, and misses the rest.         *)
LEMMA SellIsMatched ==
    ASSUME NEW rows, NEW row, Sound(row), row.kind = "sell",
           IsFiniteSet(PastOf(rows, row)), \A other \in PastOf(rows, row) : Sound(other)
    PROVE  Fact(rows, row).matched + Fact(rows, row).missing = row.qty
<1> DEFINE S == PastOf(rows, row)
           p == After(S)
           h == HoldingAfter(S)
           classes == {other.class : other \in S}
           qty == row.qty
           lots == p.lots
           matched == TakenIn(lots, qty, DOMAIN lots)
           missing == Max({0, qty - p.h.qty})
<1>1. Fits(p, h, classes) /\ h \in Holdable
    BY LotsFit, HoldingType
<1> HIDE DEF classes
<1>2. Fact(rows, row).matched = matched
    BY DEF Fact, TakenIn
<1>3. Fact(rows, row).missing = missing
    BY DEF Fact
<1> HIDE DEF S, p, h
<1>4. lots \in LotsOf(classes) /\ Shares(lots, DOMAIN lots) = h.qty /\ p.h = h
    BY <1>1 DEF Fits
<1> HIDE DEF lots
<1>5. qty \in Nat /\ h.qty \in Nat
    BY <1>1 DEF Sound, Holdable
<1>6. matched = IF qty <= h.qty THEN qty ELSE h.qty
    BY <1>4, <1>5, SellTakesLots
<1>7. missing = IF 0 >= qty - h.qty THEN 0 ELSE qty - h.qty
    BY <1>4, <1>5, MaxOfTwo
<1> HIDE DEF matched, missing
<1> QED BY <1>2, <1>3, <1>5, <1>6, <1>7

(* journal.py computes a holding twice, by moving average and as lots the  *)
(* sells use up (_consume_lots): whatever the trades, the lots of all      *)
(* classes are the holding, also after a sell beyond it and a close, and   *)
(* what trade_facts finds and misses of a sell are its shares.             *)
THEOREM LotsAddUp == Spec => []LotsAreHoldings
<1>1. ASSUME LedgerInv, NumbersInv PROVE LotsAreHoldings
    <2> DEFINE rows == New
    <2>1. IsFiniteSet(Entries(rows)) /\ \A i \in Entries(rows) : Sound(rows[i])
        BY <1>1, NewRows
    <2> HIDE DEF rows
    <2>2. ASSUME NEW p
          PROVE  Selected(After(History(rows, p)), AnyClass) = HoldingAfter(History(rows, p)).qty
        <3> DEFINE S == History(rows, p)
                   classes == {row.class : row \in S}
        <3>1. IsFiniteSet(S) /\ \A row \in S : Sound(row)
            BY <2>1, HistorySound
        <3>2. Fits(After(S), HoldingAfter(S), classes)
            BY <3>1, LotsFit
        <3> QED BY <3>2, AllSelected DEF Fits
    <2>3. ASSUME NEW p, NEW row \in History(rows, p), row.kind = "sell"
          PROVE  Fact(rows, row).matched + Fact(rows, row).missing = row.qty
        <3>1. Sound(row)
            BY <2>1, HistorySound
        <3>2. IsFiniteSet(PastOf(rows, row)) /\ \A other \in PastOf(rows, row) : Sound(other)
            BY <2>1, PastSound
        <3> QED BY <2>3, <3>1, <3>2, SellIsMatched
    <2> QED BY <2>2, <2>3 DEF LotsAreHoldings, rows
<1> QED BY <1>1, LedgerInvariant, TradesAreNumbers, PTL

-----------------------------------------------------------------------------
(* The portfolio in new shares and the valuation in old ones.              *)

(* Position `new' is position `old' in shares of which k make an old one.  *)
Scales(new, old, k, classes) ==
    /\ Fits(new, new.h, classes) /\ new.h \in Holdable
    /\ Fits(old, old.h, classes) /\ old.h \in Holdable
    /\ new.h.qty = k * old.h.qty
    /\ Len(new.lots) = Len(old.lots)
    /\ \A n \in DOMAIN old.lots :
          new.lots[n].qty = k * old.lots[n].qty /\ new.lots[n].class = old.lots[n].class

(* Lots of k times the shares sum up to k times the sum.                   *)
LEMMA SharesScale ==
    ASSUME NEW classes, NEW old \in LotsOf(classes), NEW new \in LotsOf(classes), NEW k \in Nat,
           Len(new) = Len(old), \A n \in DOMAIN old : new[n].qty = k * old[n].qty,
           NEW m \in Nat, m <= Len(old)
    PROVE  Shares(new, 1..m) = k * Shares(old, 1..m)
<1> DEFINE Holds(n) == Shares(new, 1..n) = k * Shares(old, 1..n)
           Good == {n \in Nat : Holds(n)}
<1>1. 0 \in Good
    <2>1. 1..0 = {} /\ k * 0 = 0
        OBVIOUS
    <2> QED BY <2>1, SharesOfNone
<1>2. ASSUME NEW n \in 0..(m - 1), n \in Good PROVE n + 1 \in Good
    <2> DEFINE a == Shares(old, 1..n)
               b == old[n + 1].qty
               c == Shares(new, 1..n)
               d == new[n + 1].qty
    <2>1. n \in Nat /\ n + 1 \in DOMAIN old /\ n + 1 \in DOMAIN new
        BY <1>2, LotsType
    <2>2. a \in Nat /\ Shares(old, 1..(n + 1)) = a + b /\ b \in Nat
        BY <2>1, SharesUpTo, LotsType
    <2>3. c \in Nat /\ Shares(new, 1..(n + 1)) = c + d /\ d \in Nat
        BY <2>1, SharesUpTo, LotsType
    <2>4. c = k * a /\ d = k * b
        BY <1>2, <2>1
    <2> DEFINE e == Shares(old, 1..(n + 1))
               f == Shares(new, 1..(n + 1))
    <2> HIDE DEF a, b, c, d, e, f
    <2>5. f = k * e
        <3>1. k * (a + b) = k * a + k * b
            BY <2>2
        <3> QED BY <2>2, <2>3, <2>4, <3>1 DEF e, f
    <2> QED BY <2>1, <2>5 DEF e, f
<1>3. m \in Good
    <2> HIDE DEF Good
    <2> QED BY <1>1, <1>2, Counting
<1> QED BY <1>3

(* Multiples are ordered as the numbers they are multiples of.             *)
LEMMA MultiplesAreOrdered ==
    ASSUME NEW k \in Nat, k > 0, NEW a \in Int, NEW b \in Int
    PROVE  (k * a <= k * b <=> a <= b) /\ k * (a - b) = k * a - k * b /\ k * (a + b) = k * a + k * b
<1>1. k * (a - b) = k * a - k * b /\ k * (a + b) = k * a + k * b
    OBVIOUS
<1>2. a <= b => k * a <= k * b
    OBVIOUS
<1>3. ~(a <= b) => ~(k * a <= k * b)
    <2>1. SUFFICES ASSUME b < a PROVE k * b < k * a
        OBVIOUS
    <2>2. b + 1 <= a /\ k * (b + 1) = k * b + k
        BY <2>1
    <2>3. \A x, y \in Int : x <= y => k * x <= k * y
        OBVIOUS
    <2>4. k * (b + 1) <= k * a
        BY <2>2, <2>3
    <2> QED BY <2>2, <2>4
<1> QED BY <1>1, <1>2, <1>3

(* A sell of k times the shares takes k times as much of each lot.         *)
LEMMA TakenScales ==
    ASSUME NEW classes, NEW old \in LotsOf(classes), NEW new \in LotsOf(classes),
           NEW k \in Nat, k > 0,
           Len(new) = Len(old), \A n \in DOMAIN old : new[n].qty = k * old[n].qty,
           NEW qty \in Nat, NEW n \in DOMAIN old
    PROVE  /\ Taken(new, k * qty, n) = k * Taken(old, qty, n)
           /\ Taken(old, qty, n) \in 0..old[n].qty
<1> DEFINE a == Before(old, n)
           b == Before(new, n)
           own == old[n].qty
           big == new[n].qty
           left == IF qty <= a THEN 0 ELSE qty - a
           more == IF k * qty <= b THEN 0 ELSE k * qty - b
           x == Taken(old, qty, n)
           y == Taken(new, k * qty, n)
<1>1. n \in 1..Len(old) /\ n \in DOMAIN new /\ Len(old) \in Nat
    BY LotsType
<1>2. b = k * a
    <2>1. n - 1 \in Nat /\ n - 1 <= Len(old)
        BY <1>1
    <2> QED BY <2>1, SharesScale DEF Before
<1>3. k * qty \in Nat
    OBVIOUS
<1>4. x \in 0..own /\ a \in Nat /\ x = IF own <= left THEN own ELSE left
    BY TakenRange
<1>5. b \in Nat /\ y = IF big <= more THEN big ELSE more
    BY <1>1, <1>3, TakenRange
<1>6. big = k * own /\ own \in Nat
    BY LotsType
<1> HIDE DEF a, b, own, big, x, y
<1>7. more = k * left /\ left \in Nat
    <2>1. k * qty <= k * a <=> qty <= a
        BY <1>4, MultiplesAreOrdered
    <2>2. k * (qty - a) = k * qty - k * a
        BY <1>4
    <2>3. k * 0 = 0
        OBVIOUS
    <2> QED BY <1>2, <1>4, <2>1, <2>2, <2>3
<1> HIDE DEF left, more
<1>8. k * own <= k * left <=> own <= left
    BY <1>6, <1>7, MultiplesAreOrdered
<1>9. y = k * x
    BY <1>4, <1>5, <1>6, <1>7, <1>8
<1> QED BY <1>4, <1>9 DEF x, y, own

(* What a sell leaves of one lot.                                          *)
LEMMA ConsumedLot ==
    ASSUME NEW classes, NEW lots \in LotsOf(classes), NEW qty \in Nat
    PROVE  LET rest == Consume(lots, qty)
           IN  /\ rest \in LotsOf(classes) /\ Len(rest) = Len(lots)
               /\ \A n \in DOMAIN lots : /\ rest[n].qty = lots[n].qty - Taken(lots, qty, n)
                                         /\ rest[n].class = lots[n].class
<1> DEFINE rest == Consume(lots, qty)
<1>1. rest \in LotsOf(classes) /\ DOMAIN rest = DOMAIN lots
    BY SellTakesLots DEF Consume
<1>2. ASSUME NEW n \in DOMAIN lots
      PROVE  rest[n].qty = lots[n].qty - Taken(lots, qty, n) /\ rest[n].class = lots[n].class
    <2> DEFINE left == lots[n].qty - Taken(lots, qty, n)
    <2>1. lots[n] \in [qty : Nat, class : classes]
        BY LotsType
    <2>2. rest[n] = [lots[n] EXCEPT !.qty = left]
        BY DEF Consume
    <2> HIDE DEF left, rest
    <2>3. rest[n].qty = left /\ rest[n].class = lots[n].class
        BY <2>1, <2>2
    <2> QED BY <2>3 DEF left
<1>3. Len(rest) = Len(lots)
    <2> HIDE DEF rest
    <2>1. Len(rest) \in Nat /\ Len(lots) \in Nat /\ 1..Len(rest) = 1..Len(lots)
        BY <1>1, LotsType
    <2> QED BY <2>1
<1> QED BY <1>1, <1>2, <1>3

LEMMA AppendedLot ==
    ASSUME NEW classes, NEW lots \in LotsOf(classes), NEW lot \in [qty : Nat, class : classes]
    PROVE  LET other == Append(lots, lot)
           IN  /\ other \in LotsOf(classes) /\ Len(other) = Len(lots) + 1
               /\ other[Len(lots) + 1] = lot
               /\ \A n \in 1..Len(lots) : other[n] = lots[n]
<1> DEFINE X == [qty : Nat, class : classes]
<1>1. lots \in Seq(X) /\ lot \in X
    BY DEF LotsOf
<1> HIDE DEF X
<1>2. /\ Append(lots, lot) \in Seq(X) /\ Len(Append(lots, lot)) = Len(lots) + 1
      /\ Append(lots, lot)[Len(lots) + 1] = lot
      /\ \A n \in 1..Len(lots) : Append(lots, lot)[n] = lots[n]
    BY <1>1, AppendProperties
<1> QED BY <1>2 DEF X, LotsOf

(* A trade of k times the shares does the same to a position in shares of  *)
(* which k make an old one.                                                *)
LEMMA TradeScales ==
    ASSUME NEW classes, NEW k \in Nat, k > 0, NEW new, NEW old, Scales(new, old, k, classes),
           NEW row, Sound(row), row.class \in classes,
           NEW big, Sound(big), big.kind = row.kind, big.class = row.class,
           big.qty = k * row.qty
    PROVE  Scales(Trade(big, new), Trade(row, old), k, classes)
<1> DEFINE p == Trade(row, old)
           q == Trade(big, new)
           h == Apply(row, old.h)
           g == Apply(big, new.h)
<1>1. /\ old.h \in Holdable /\ new.h \in Holdable
      /\ Fits(old, old.h, classes) /\ Fits(new, new.h, classes)
      /\ new.h.qty = k * old.h.qty
      /\ old.lots \in LotsOf(classes) /\ new.lots \in LotsOf(classes)
      /\ Len(new.lots) = Len(old.lots)
      /\ \A n \in DOMAIN old.lots :
            new.lots[n].qty = k * old.lots[n].qty /\ new.lots[n].class = old.lots[n].class
    BY DEF Scales, Fits
<1>2. h \in Holdable /\ g \in Holdable
    BY <1>1, ApplyType
<1>3. Fits(p, h, classes) /\ Fits(q, g, classes)
    BY <1>1, TradeFits
<1>4. p.h = h /\ q.h = g
    BY <1>3 DEF Fits
<1>5. row.qty \in Nat /\ old.h.qty \in Nat /\ new.h.qty \in Nat /\ big.qty \in Nat
    BY <1>1 DEF Sound, Holdable
<1>6. g.qty = k * h.qty
    <2>1. CASE row.kind = "buy"
        <3>1. h.qty = old.h.qty + row.qty /\ g.qty = new.h.qty + big.qty
            BY <1>1, <2>1, ApplyType
        <3> DEFINE a == old.h.qty
                   b == row.qty
        <3> HIDE DEF h, g
        <3>2. a \in Nat /\ b \in Nat /\ h.qty = a + b /\ g.qty = k * a + k * b
            BY <1>1, <1>5, <3>1
        <3> HIDE DEF a, b
        <3> QED BY <3>2, MultiplesAreOrdered
    <2>2. CASE row.kind = "sell"
        <3>1. /\ h.qty = IF old.h.qty <= row.qty THEN 0 ELSE old.h.qty - row.qty
              /\ g.qty = IF new.h.qty <= big.qty THEN 0 ELSE new.h.qty - big.qty
            BY <1>1, <2>2, ApplyType
        <3> DEFINE a == old.h.qty
                   b == row.qty
        <3> HIDE DEF h, g
        <3>2. /\ a \in Nat /\ b \in Nat /\ h.qty = IF a <= b THEN 0 ELSE a - b
              /\ g.qty = IF k * a <= k * b THEN 0 ELSE k * a - k * b
            BY <1>1, <1>5, <3>1
        <3> HIDE DEF a, b
        <3>3. (k * a <= k * b <=> a <= b) /\ k * (a - b) = k * a - k * b /\ k * 0 = 0
            BY <3>2, MultiplesAreOrdered
        <3> QED BY <3>2, <3>3
    <2>3. CASE row.kind \notin {"buy", "sell"}
        BY <1>1, <2>3, ApplyType
    <2> QED BY <2>1, <2>2, <2>3
<1> DEFINE Lots(a, b) ==
        /\ Len(b) = Len(a)
        /\ \A n \in DOMAIN a : b[n].qty = k * a[n].qty /\ b[n].class = a[n].class
<1>7. Lots(p.lots, q.lots)
    <2>1. CASE row.kind = "buy"
        <3> DEFINE lot == [qty |-> row.qty, class |-> row.class]
                   more == [qty |-> big.qty, class |-> big.class]
                   a == old.lots
                   b == new.lots
        <3>1. p = [h |-> h, lots |-> Append(a, lot)] /\ q = [h |-> g, lots |-> Append(b, more)]
            BY <2>1, Zenon DEF Trade
        <3>2. lot \in [qty : Nat, class : classes] /\ more \in [qty : Nat, class : classes]
            BY <1>5
        <3>3. more.qty = k * lot.qty /\ more.class = lot.class
            OBVIOUS
        <3>4. a \in LotsOf(classes) /\ b \in LotsOf(classes) /\ Lots(a, b)
            BY <1>1
        <3> HIDE DEF lot, more, a, b, h, g
        <3> DEFINE c == Append(a, lot)
                   d == Append(b, more)
        <3>5. /\ c \in LotsOf(classes) /\ Len(c) = Len(a) + 1 /\ c[Len(a) + 1] = lot
              /\ \A n \in 1..Len(a) : c[n] = a[n]
            BY <3>2, <3>4, AppendedLot
        <3>6. /\ d \in LotsOf(classes) /\ Len(d) = Len(b) + 1 /\ d[Len(b) + 1] = more
              /\ \A n \in 1..Len(b) : d[n] = b[n]
            BY <3>2, <3>4, AppendedLot
        <3> HIDE DEF c, d
        <3>7. /\ Len(a) \in Nat /\ DOMAIN a = 1..Len(a) /\ DOMAIN c = 1..(Len(a) + 1)
              /\ Len(b) = Len(a)
            BY <3>4, <3>5, LotsType
        <3>8. ASSUME NEW n \in DOMAIN c
              PROVE  d[n].qty = k * c[n].qty /\ d[n].class = c[n].class
            <4>1. CASE n \in 1..Len(a)
                BY <3>4, <3>5, <3>6, <3>7, <4>1
            <4>2. CASE n = Len(a) + 1
                BY <3>3, <3>5, <3>6, <3>7, <4>2
            <4> QED BY <3>7, <4>1, <4>2
        <3>9. Lots(c, d)
            BY <3>5, <3>6, <3>7, <3>8
        <3>10. p.lots = c /\ q.lots = d
            BY <3>1 DEF c, d
        <3> QED BY <3>9, <3>10
    <2>2. CASE row.kind = "sell"
        <3> DEFINE a == old.lots
                   b == new.lots
                   c == Consume(a, row.qty)
                   d == Consume(b, big.qty)
        <3>1. /\ p = [h |-> h, lots |-> IF h.qty = 0 THEN <<>> ELSE c]
              /\ q = [h |-> g, lots |-> IF g.qty = 0 THEN <<>> ELSE d]
            BY <2>2 DEF Trade
        <3>2. a \in LotsOf(classes) /\ b \in LotsOf(classes) /\ Lots(a, b)
            BY <1>1
        <3>3. h.qty \in Nat /\ g.qty = k * h.qty
            BY <1>2, <1>6 DEF Holdable
        <3> HIDE DEF a, b, h, g
        <3>4. g.qty = 0 <=> h.qty = 0
            BY <3>3
        <3>5. /\ c \in LotsOf(classes) /\ Len(c) = Len(a)
              /\ \A n \in DOMAIN a : c[n].qty = a[n].qty - Taken(a, row.qty, n) /\ c[n].class = a[n].class
            BY <1>5, <3>2, ConsumedLot
        <3>6. /\ d \in LotsOf(classes) /\ Len(d) = Len(b)
              /\ \A n \in DOMAIN b : d[n].qty = b[n].qty - Taken(b, big.qty, n) /\ d[n].class = b[n].class
            BY <1>5, <3>2, ConsumedLot
        <3> HIDE DEF c, d
        <3>7. DOMAIN a = 1..Len(a) /\ DOMAIN b = DOMAIN a /\ DOMAIN c = DOMAIN a
            BY <3>2, <3>5, LotsType
        <3>8. ASSUME NEW n \in DOMAIN a
              PROVE  d[n].qty = k * c[n].qty /\ d[n].class = c[n].class
            <4> DEFINE x == a[n].qty
                       y == Taken(a, row.qty, n)
            <4>1. Taken(b, k * row.qty, n) = k * y /\ y \in 0..x /\ x \in Nat
                <5>1. Len(b) = Len(a) /\ \A j \in DOMAIN a : b[j].qty = k * a[j].qty
                    BY <3>2
                <5>2. row.qty \in Nat
                    BY <1>5
                <5> HIDE DEF Lots
                <5>3. Taken(b, k * row.qty, n) = k * y /\ y \in 0..x
                    BY <3>2, <5>1, <5>2, TakenScales
                <5> QED BY <3>2, <5>3, LotsType
            <4>2. d[n].qty = k * x - k * y /\ c[n].qty = x - y
                BY <3>2, <3>5, <3>6, <3>7, <4>1
            <4>3. d[n].class = c[n].class
                BY <3>2, <3>5, <3>6, <3>7
            <4> HIDE DEF x, y
            <4>4. x \in Int /\ y \in Int
                BY <4>1
            <4> QED BY <4>2, <4>3, <4>4, MultiplesAreOrdered
        <3>9. Lots(c, d)
            BY <3>2, <3>5, <3>6, <3>7, <3>8
        <3>10. Lots(<<>>, <<>>)
            OBVIOUS
        <3> HIDE DEF p, q, Lots
        <3> QED BY <3>1, <3>4, <3>9, <3>10
    <2>3. CASE row.kind \notin {"buy", "sell"}
        <3>1. p = [h |-> h, lots |-> old.lots] /\ q = [h |-> g, lots |-> new.lots]
            BY <2>3 DEF Trade
        <3> QED BY <1>1, <3>1
    <2> QED BY <2>1, <2>2, <2>3
<1> HIDE DEF p, q, h, g
<1> QED BY <1>2, <1>3, <1>4, <1>6, <1>7 DEF Scales, p, q

(* A lot is part of the position.                                          *)
LEMMA LotIsPart ==
    ASSUME NEW classes, NEW lots \in LotsOf(classes), NEW n \in DOMAIN lots
    PROVE  lots[n].qty \in 0..Shares(lots, DOMAIN lots)
<1> DEFINE N == DOMAIN lots
           rest == N \ {n}
<1>1. IsFiniteSet(N) /\ n \in N /\ \A m \in N : LotShares(lots, m) \in Int
    BY LotsType DEF LotShares
<1>2. rest \subseteq DOMAIN lots
    OBVIOUS
<1> HIDE DEF N
<1>3. OfLots!Fold(lots, N) = LotShares(lots, n) + OfLots!Fold(lots, N \ {n})
    BY <1>1, LotsAdd, SameFiniteSets, OfLots!SumWith
<1>4. Shares(lots, N) = lots[n].qty + Shares(lots, rest)
    BY <1>3, SharesIsFold DEF LotShares
<1> HIDE DEF rest
<1>5. Shares(lots, rest) \in Nat /\ lots[n].qty \in Nat
    BY <1>2, SharesType, LotsType
<1>6. lots[n].qty \in 0..Shares(lots, N)
    BY <1>4, <1>5
<1> QED BY <1>6 DEF N

(* The lots after a split.                                                 *)
LEMMA SplitLots ==
    ASSUME NEW classes, NEW lots \in LotsOf(classes), NEW r \in Nat, r > 0
    PROVE  LET more == [n \in DOMAIN lots |-> [lots[n] EXCEPT !.qty = @ * r]]
           IN  /\ more \in LotsOf(classes) /\ Len(more) = Len(lots)
               /\ \A n \in DOMAIN lots :
                     more[n].qty = r * lots[n].qty /\ more[n].class = lots[n].class
               /\ Shares(more, DOMAIN more) = r * Shares(lots, DOMAIN lots)
<1> DEFINE more == [n \in DOMAIN lots |-> [lots[n] EXCEPT !.qty = @ * r]]
           X == [qty : Nat, class : classes]
           len == Len(lots)
<1>1. len \in Nat /\ DOMAIN lots = 1..len
    BY LotsType
<1>2. ASSUME NEW n \in 1..len
      PROVE  more[n] \in X /\ more[n].qty = r * lots[n].qty /\ more[n].class = lots[n].class
    <2> DEFINE big == lots[n].qty * r
    <2>1. lots[n] \in X /\ big \in Nat /\ big = r * lots[n].qty
        <3>1. lots[n] \in X /\ lots[n].qty \in Nat
            BY <1>1, LotsType
        <3> DEFINE x == lots[n].qty
        <3> HIDE DEF x
        <3>2. x \in Nat => x * r \in Nat /\ x * r = r * x
            OBVIOUS
        <3> QED BY <3>1, <3>2 DEF x
    <2>2. more[n] = [lots[n] EXCEPT !.qty = big]
        BY <1>1
    <2> HIDE DEF big, more
    <2> QED BY <2>1, <2>2
<1>3. more = [n \in 1..len |-> more[n]]
    BY <1>1
<1> HIDE DEF more, X
<1>4. more \in Seq(X) /\ DOMAIN more = 1..len
    <2>1. more \in [1..len -> X]
        BY <1>2, <1>3
    <2> QED BY <1>1, <1>3, <2>1, SeqDef
<1>5. more \in LotsOf(classes)
    BY <1>4 DEF LotsOf, X
<1>6. Len(more) = len
    BY <1>1, <1>4, <1>5, LotsType
<1>7. Shares(more, 1..len) = r * Shares(lots, 1..len)
    <2>1. \A n \in DOMAIN lots : more[n].qty = r * lots[n].qty
        BY <1>1, <1>2
    <2>2. len \in Nat /\ len <= Len(lots) /\ Len(more) = Len(lots)
        BY <1>1, <1>6
    <2> HIDE DEF len
    <2> QED BY <1>5, <2>1, <2>2, SharesScale
<1> QED BY <1>1, <1>2, <1>4, <1>5, <1>6, <1>7 DEF more

(* A split turns a position in old shares into one in shares of which less *)
(* make a new one.  Of an empty position even the lots are empty.          *)
LEMMA SplitScales ==
    ASSUME NEW classes, NEW k \in Nat, k > 0, NEW r \in Nat, r > 0,
           NEW new, NEW old, Scales(new, old, r * k, classes)
    PROVE  Scales(new, Split(r, old), k, classes)
<1> DEFINE h == old.h
           lots == old.lots
<1>1. /\ h \in Holdable /\ new.h \in Holdable
      /\ Fits(old, h, classes) /\ Fits(new, new.h, classes)
      /\ new.h.qty = (r * k) * h.qty
      /\ lots \in LotsOf(classes) /\ new.lots \in LotsOf(classes)
      /\ Len(new.lots) = Len(lots)
      /\ \A n \in DOMAIN lots :
            new.lots[n].qty = (r * k) * lots[n].qty /\ new.lots[n].class = lots[n].class
      /\ old = [h |-> h, lots |-> lots]
      /\ Shares(lots, DOMAIN lots) = h.qty
    BY DEF Scales, Fits
<1>2. h.qty \in Nat /\ h.avg \in Int
    BY <1>1 DEF Holdable
<1>3. \A x \in Nat : (r * k) * x = k * (r * x) /\ (r * k) * 0 = 0 /\ k * 0 = 0
    OBVIOUS
<1>4. \A n \in DOMAIN lots : lots[n].qty \in 0..h.qty
    BY <1>1, LotIsPart
<1>5. ASSUME h.qty = 0 PROVE Scales(new, Split(r, old), k, classes)
    <2>1. Split(r, old) = old
        BY <1>5 DEF Split
    <2>2. \A n \in DOMAIN lots : lots[n].qty = 0
        BY <1>4, <1>5
    <2>3. new.h.qty = k * h.qty
        BY <1>1, <1>3, <1>5
    <2>4. \A n \in DOMAIN lots : new.lots[n].qty = k * lots[n].qty
        BY <1>1, <1>3, <2>2
    <2> QED BY <1>1, <2>1, <2>3, <2>4 DEF Scales
<1>6. ASSUME h.qty # 0 PROVE Scales(new, Split(r, old), k, classes)
    <2> DEFINE q == h.qty * r
               a == h.avg \div r
               g == [h EXCEPT !.qty = q, !.avg = a]
               more == [n \in DOMAIN lots |-> [lots[n] EXCEPT !.qty = @ * r]]
    <2>1. Split(r, old) = [h |-> g, lots |-> more]
        BY <1>6, Zenon DEF Split
    <2>2. q \in Nat /\ q = r * h.qty /\ a \in Int
        <3> DEFINE x == h.qty
                   y == h.avg
        <3>1. x \in Nat /\ y \in Int
            BY <1>2
        <3> HIDE DEF x, y
        <3>2. x * r \in Nat /\ x * r = r * x /\ y \div r \in Int
            BY <3>1
        <3> QED BY <3>2 DEF x, y
    <2> HIDE DEF q, a
    <2>3. g \in Holdable /\ g.qty = q
        BY <1>1, <2>2 DEF Holdable
    <2>4. /\ more \in LotsOf(classes) /\ Len(more) = Len(lots)
          /\ \A n \in DOMAIN lots :
                more[n].qty = r * lots[n].qty /\ more[n].class = lots[n].class
          /\ Shares(more, DOMAIN more) = r * Shares(lots, DOMAIN lots)
        BY <1>1, SplitLots
    <2>5. DOMAIN more = DOMAIN lots
        OBVIOUS
    <2> HIDE DEF g, more
    <2>6. Fits(Split(r, old), g, classes) /\ Split(r, old).h = g /\ Split(r, old).lots = more
        BY <1>1, <2>1, <2>2, <2>3, <2>4 DEF Fits
    <2>7. new.h.qty = k * g.qty
        BY <1>1, <1>2, <1>3, <2>2, <2>3
    <2>8. ASSUME NEW n \in DOMAIN lots
          PROVE  new.lots[n].qty = k * more[n].qty /\ new.lots[n].class = more[n].class
        <3>1. lots[n].qty \in Nat
            BY <1>1, LotsType
        <3> QED BY <1>1, <1>3, <2>4, <3>1
    <2> HIDE DEF h, lots
    <2> QED BY <1>1, <2>3, <2>4, <2>5, <2>6, <2>7, <2>8 DEF Scales
<1> QED BY <1>5, <1>6

LEMMA RatioIsFold == ASSUME NEW S PROVE Ratio(S) = OfSplits!Fold(0, S)
BY DEF Ratio, FoldSet, OfSplits!Fold, OfSplits!MapThenFoldSet, MapThenFoldSet, Itself, Times, Some

(* Splits multiply, in whatever order.                                     *)
LEMMA RatioWith ==
    ASSUME NEW S, Ratios(S), NEW s \in S
    PROVE  /\ Ratio(S) = s[2] * Ratio(S \ {s})
           /\ s[2] \in Nat /\ s[2] > 0 /\ Ratio(S \ {s}) \in Nat /\ Ratio(S \ {s}) > 0
<1>1. PICK Type : Type = Nat \ {0}
    OBVIOUS
<1>2. OfSplits!PicksFrom(S)
    <2>1. \A T \in SUBSET S : T # {} => Some(T) \in T
        BY DEF Some
    <2> QED BY <2>1 DEF OfSplits!PicksFrom
<1>3. \A z \in S : z[2] \in Nat \ {0}
    BY DEF Ratios
<1>4. 1 \in Type /\ \A z \in S : \A f \in Type : Times(Itself(0, z), f) \in Type
    <2>1. ASSUME NEW z \in S, NEW f \in Type PROVE z[2] * f \in Type
        <3> DEFINE n == z[2]
        <3>1. n \in Nat \ {0} /\ f \in Nat \ {0}
            BY <1>1, <1>3
        <3> HIDE DEF n
        <3>2. n \in Nat /\ n # 0 /\ f \in Nat /\ f # 0 => n * f \in Nat /\ n * f # 0
            OBVIOUS
        <3> QED BY <1>1, <3>1, <3>2 DEF n
    <2> QED BY <1>1, <2>1 DEF Times, Itself
<1>5. ASSUME NEW x \in S, NEW y \in S, NEW v \in Type
      PROVE  Times(Itself(0, x), Times(Itself(0, y), v)) = Times(Itself(0, y), Times(Itself(0, x), v))
    <2> DEFINE a == x[2]
               b == y[2]
    <2>1. a \in Nat /\ b \in Nat /\ v \in Nat
        BY <1>1, <1>3
    <2> HIDE DEF a, b
    <2>2. a * (b * v) = b * (a * v)
        BY <2>1
    <2> QED BY <2>2 DEF a, b, Times, Itself
<1>6. OfSplits!IsFiniteSet(S)
    BY SameFiniteSets DEF Ratios
<1>7. OfSplits!Fold(0, S) = Times(Itself(0, s), OfSplits!Fold(0, S \ {s}))
    BY <1>2, <1>4, <1>5, <1>6, OfSplits!FoldWith
<1>8. Ratio(S) = s[2] * Ratio(S \ {s})
    BY <1>7, RatioIsFold DEF Times, Itself
<1>9. Ratios(S \ {s})
    <2>1. S \ {s} \subseteq S /\ IsFiniteSet(S)
        BY DEF Ratios
    <2>2. IsFiniteSet(S \ {s})
        BY <2>1, FS_Subset
    <2> QED BY <2>1, <2>2 DEF Ratios
<1>10. Ratio(S \ {s}) \in Nat \ {0}
    BY <1>9, RatioIsPositive
<1>11. s[2] \in Nat \ {0}
    BY <1>3
<1> QED BY <1>8, <1>10, <1>11

LEMMA RatioOfNone == Ratio({}) = 1
BY RatioIsFold, OfSplits!FoldOfNothing

-----------------------------------------------------------------------------
(* The days of a position.                                                 *)

OfDays == INSTANCE FoldLemmas WITH Op <- Happen, Base <- Flat, Map <- Itself, Pick <- LastEvent

EventsOf(history) == TradeEvents(history) \cup SplitEvents(history)

LEMMA ValuedIsFold ==
    /\ \A S : Valued(S) = OfDays!Fold(0, EventsOf(S))
    /\ \A S : OfDays!IsFiniteSet(S) <=> IsFiniteSet(S)
BY DEF Valued, EventsOf, OfDays!Fold, OfDays!MapThenFoldSet, MapThenFoldSet, Itself,
       OfDays!IsFiniteSet, IsFiniteSet

(* A day's event as far as the order is concerned.                         *)
Dated(e) ==
    /\ e.day \in Int /\ e.rank \in {0, 1}
    /\ e.rank = 1 => e.row.at \in Int /\ e.row.id \in Int

(* The days of a position are in a strict order.                           *)
LEMMA EventsAreOrdered ==
    /\ \A e, f, g : Dated(e) /\ Dated(f) /\ Dated(g) /\ Sooner(e, f) /\ Sooner(f, g) => Sooner(e, g)
    /\ \A e : Dated(e) => ~Sooner(e, e)
<1>1. ASSUME NEW e, NEW f, NEW g, Dated(e), Dated(f), Dated(g), Sooner(e, f), Sooner(f, g)
      PROVE  Sooner(e, g)
    <2>1. e.rank = 1 /\ f.rank = 1 /\ g.rank = 1 /\ Earlier(e.row, f.row) /\ Earlier(f.row, g.row)
             => Earlier(e.row, g.row)
        BY <1>1 DEF Dated, Earlier
    <2> QED BY <1>1, <2>1 DEF Dated, Sooner
<1>2. ASSUME NEW e, Dated(e) PROVE ~Sooner(e, e)
    <2>1. e.rank = 1 => ~Earlier(e.row, e.row)
        BY <1>2 DEF Dated, Earlier
    <2> QED BY <1>2, <2>1 DEF Dated, Sooner
<1> QED BY <1>1, <1>2

LEMMA LastEventIsLast ==
    ASSUME NEW S, IsFiniteSet(S), S # {}, \A e \in S : Dated(e)
    PROVE  LastEvent(S) \in S /\ \A f \in S : ~Sooner(LastEvent(S), f)
<1> DEFINE R == {p \in S \X S : Sooner(p[2], p[1])}
<1>1. \A x, y \in S : <<x, y>> \in R <=> Sooner(y, x)
    OBVIOUS
<1> HIDE DEF R
<1>2. \A x, y, z \in S : <<x, y>> \in R /\ <<y, z>> \in R => <<x, z>> \in R
    BY <1>1, EventsAreOrdered
<1>3. \A x \in S : <<x, x>> \notin R
    BY <1>1, EventsAreOrdered
<1>4. OfDays!IsFiniteSet(S)
    BY ValuedIsFold
<1>5. PICK x \in S : \A y \in S : <<y, x>> \notin R
    BY <1>2, <1>3, <1>4, OfDays!MinimalElement
<1>6. \A f \in S : ~Sooner(x, f)
    BY <1>1, <1>5
<1> QED BY <1>6, Zenon DEF LastEvent

TradeOf(row) == [day |-> TradeDay(row), rank |-> 1, row |-> row]
SplitOf(s) == [day |-> s[1], rank |-> 0, ratio |-> s[2]]

(* What the days in T have had of the rows, in new shares, and what they   *)
(* have not had of the splits.                                             *)
RowsIn(H, T) == {row \in H : TradeOf(row) \in T}
Shown(known, H, T) == {Scaled(known, row) : row \in RowsIn(H, T)}
Left(splits, T) == {s \in splits : SplitOf(s) \notin T}

(* A history of one stock, in the shares of each day.                      *)
StockHistory(known, H, splits) ==
    /\ IsFiniteSet(H) /\ H # {} /\ Ratios(splits) /\ TypedEnv(known)
    /\ \A row \in H :
          /\ Sound(row) /\ Columns \subseteq DOMAIN row /\ SplitsOf(known, row) = splits
          /\ \A other \in H : row.id = other.id => row = other
          /\ \A other \in H : Earlier(row, other) => TradeDay(row) <= TradeDay(other)

LEMMA TradeDayIsInt == ASSUME NEW row, Sound(row) PROVE TradeDay(row) \in Int
BY DEF Sound, TradeDay, SeoulDay, NewYorkDay

(* The days of a history: its trades and its splits.                       *)
LEMMA EventsAre ==
    ASSUME NEW H, NEW splits, StockHistory(env, H, splits)
    PROVE  /\ IsFiniteSet(EventsOf(H))
           /\ EventsOf(H) = {TradeOf(row) : row \in H} \cup {SplitOf(s) : s \in splits}
           /\ \A e \in EventsOf(H) : Dated(e)
           /\ \A s \in splits : s[1] \in Int /\ s[2] \in Nat /\ s = <<s[1], s[2]>>
<1>1. SplitsOn(H) = splits
    BY DEF SplitsOn, StockHistory
<1> DEFINE trades == {TradeOf(row) : row \in H}
           days == {SplitOf(s) : s \in splits}
<1>2. EventsOf(H) = trades \cup days
    BY <1>1 DEF EventsOf, TradeEvents, SplitEvents, TradeOf, SplitOf
<1>3. IsFiniteSet(trades)
    <2> DEFINE f == [row \in H |-> TradeOf(row)]
    <2>1. IsFiniteSet({f[row] : row \in H})
        BY ImageIsFinite, Zenon DEF StockHistory
    <2>2. {f[row] : row \in H} = trades
        OBVIOUS
    <2> QED BY <2>1, <2>2
<1>4. IsFiniteSet(days)
    <2> DEFINE f == [s \in splits |-> SplitOf(s)]
    <2>1. IsFiniteSet({f[s] : s \in splits})
        BY ImageIsFinite, Zenon DEF StockHistory, Ratios
    <2>2. {f[s] : s \in splits} = days
        OBVIOUS
    <2> QED BY <2>1, <2>2
<1>5. \A s \in splits : s[1] \in Int /\ s[2] \in Nat /\ s = <<s[1], s[2]>>
    BY DEF StockHistory, Ratios
<1>6. \A row \in H : Dated(TradeOf(row))
    BY TradeDayIsInt DEF StockHistory, Sound, Dated, TradeOf
<1>7. \A s \in splits : Dated(SplitOf(s))
    BY <1>5 DEF Dated, SplitOf
<1> HIDE DEF trades, days
<1>8. IsFiniteSet(EventsOf(H))
    BY <1>2, <1>3, <1>4, FS_Union
<1> QED BY <1>2, <1>5, <1>6, <1>7, <1>8 DEF trades, days

(* A row of the history in new shares.                                     *)
LEMMA RowScales ==
    ASSUME NEW known, NEW H, NEW splits, StockHistory(known, H, splits), NEW row \in H
    PROVE  /\ Sound(Scaled(known, row))
           /\ Scaled(known, row).id = row.id /\ Scaled(known, row).at = row.at
           /\ Scaled(known, row).kind = row.kind /\ Scaled(known, row).class = row.class
<1>1. /\ TypedEnv(known) /\ Sound(row) /\ {"qty", "price"} \subseteq DOMAIN row
      /\ {"id", "at", "kind", "class"} \subseteq DOMAIN row \ {"qty", "price"}
    <2>1. TypedEnv(known) /\ Sound(row) /\ Columns \subseteq DOMAIN row
        BY DEF StockHistory
    <2>2. /\ {"qty", "price"} \subseteq Columns
          /\ {"id", "at", "kind", "class"} \subseteq Columns \ {"qty", "price"}
        BY DEF Columns
    <2> QED BY <2>1, <2>2
<1>2. \A c \in DOMAIN row \ {"qty", "price"} : Scaled(known, row)[c] = row[c]
    BY <1>1, ScaledSound
<1>3. Sound(Scaled(known, row))
    BY <1>1, ScaledSound
<1> DEFINE big == Scaled(known, row)
<1> HIDE DEF big
<1>4. \A c \in {"id", "at", "kind", "class"} : big[c] = row[c]
    BY <1>1, <1>2 DEF big
<1>5. big.id = row.id /\ big.at = row.at /\ big.kind = row.kind /\ big.class = row.class
    BY <1>4
<1> QED BY <1>3, <1>5 DEF big

LEMMA LatestIsLast ==
    ASSUME NEW S, IsFiniteSet(S), S # {}, \A row \in S : Sound(row)
    PROVE  \A other \in S : ~Earlier(Latest(S), other)
<1> DEFINE R == {p \in S \X S : Earlier(p[2], p[1])}
<1>1. \A x, y \in S : <<x, y>> \in R <=> Earlier(y, x)
    OBVIOUS
<1> HIDE DEF R
<1>2. \A row \in S : row.at \in Int /\ row.id \in Int
    BY DEF Sound
<1>3. \A x, y, z \in S : <<x, y>> \in R /\ <<y, z>> \in R => <<x, z>> \in R
    <2>1. \A x, y, z \in S : Earlier(y, x) /\ Earlier(z, y) => Earlier(z, x)
        BY <1>2 DEF Earlier
    <2> QED BY <1>1, <2>1
<1>4. \A x \in S : <<x, x>> \notin R
    <2>1. \A x \in S : ~Earlier(x, x)
        BY <1>2 DEF Earlier
    <2> QED BY <1>1, <2>1
<1>5. OfLots!IsFiniteSet(S)
    BY SameFiniteSets
<1>6. PICK x \in S : \A y \in S : <<y, x>> \notin R
    BY <1>3, <1>4, <1>5, OfLots!MinimalElement
<1>7. \A other \in S : ~Earlier(x, other)
    BY <1>1, <1>6
<1> QED BY <1>7, Zenon DEF Latest

(* The last of some days, if it is a trade, is the latest row.             *)
LEMMA LatestOfDays ==
    ASSUME NEW known, NEW H, NEW splits, StockHistory(known, H, splits), NEW T, T \subseteq EventsOf(H),
           NEW row \in H, TradeOf(row) \in T, \A f \in T : ~Sooner(TradeOf(row), f)
    PROVE  After(Shown(known, H, T)) = Trade(Scaled(known, row), After(Shown(known, H, T \ {TradeOf(row)})))
<1> DEFINE S == Shown(known, H, T)
           R == Shown(known, H, T \ {TradeOf(row)})
           last == Latest(S)
           big == Scaled(known, row)
<1>1. IsFiniteSet(S)
    <2> DEFINE N == RowsIn(H, T)
               f == [x \in N |-> Scaled(known, x)]
    <2>1. N \subseteq H
        BY DEF RowsIn
    <2> HIDE DEF N
    <2>2. IsFiniteSet(N)
        BY <2>1, FS_Subset DEF StockHistory
    <2>3. IsFiniteSet({f[x] : x \in N})
        BY <2>2, ImageIsFinite, Zenon
    <2>4. {f[x] : x \in N} = S
        BY DEF N, Shown
    <2> QED BY <2>3, <2>4
<1>2. \A x \in S : Sound(x)
    <2>1. \A x \in RowsIn(H, T) : x \in H
        BY DEF RowsIn
    <2>2. \A x \in H : Sound(Scaled(known, x))
        BY RowScales
    <2> QED BY <2>1, <2>2 DEF Shown
<1>3. big \in S /\ S # {}
    BY DEF Shown, RowsIn
<1>4. last \in S /\ After(S) = Trade(last, After(S \ {last}))
    BY <1>1, <1>2, <1>3, HoldingStep
<1>5. \A x \in S : ~Earlier(last, x)
    <2> HIDE DEF S
    <2>1. InLots!PicksFrom(S)
        BY <1>1, <1>2, LatestIsIn
    <2> QED BY <1>1, <1>2, <1>3, LatestIsLast
<1>6. PICK other \in RowsIn(H, T) : last = Scaled(known, other)
    BY <1>4 DEF Shown
<1>7. other \in H /\ TradeOf(other) \in T
    BY <1>6 DEF RowsIn
<1>8. other = row
    <2>1. ~Earlier(row, other)
        <3>1. SUFFICES ASSUME Earlier(row, other) PROVE FALSE
            OBVIOUS
        <3>2. TradeDay(row) <= TradeDay(other) /\ TradeDay(row) \in Int /\ TradeDay(other) \in Int
            BY <1>7, <3>1, TradeDayIsInt DEF StockHistory
        <3>3. Sooner(TradeOf(row), TradeOf(other))
            BY <3>1, <3>2 DEF Sooner, TradeOf
        <3> QED BY <1>7, <3>3
    <2>2. ~Earlier(other, row)
        <3>1. ~Earlier(last, big)
            BY <1>3, <1>5
        <3>2. last.at = other.at /\ last.id = other.id /\ big.at = row.at /\ big.id = row.id
            BY <1>6, <1>7, RowScales
        <3> QED BY <3>1, <3>2 DEF Earlier
    <2>3. row.at \in Int /\ row.id \in Int /\ other.at \in Int /\ other.id \in Int
        BY <1>7 DEF StockHistory, Sound
    <2>4. row.id = other.id
        BY <2>1, <2>2, <2>3 DEF Earlier
    <2> QED BY <1>7, <2>4 DEF StockHistory
<1>9. S \ {last} = R
    <2>1. \A x \in RowsIn(H, T) : x # row => Scaled(known, x) # big
        <3>1. ASSUME NEW x \in RowsIn(H, T), x # row PROVE Scaled(known, x) # big
            <4>1. x \in H
                BY DEF RowsIn
            <4>2. Scaled(known, x).id = x.id /\ big.id = row.id
                BY <4>1, RowScales
            <4> QED BY <3>1, <4>1, <4>2 DEF StockHistory
        <3> QED BY <3>1
    <2>2. \A x \in H : TradeOf(x) = TradeOf(row) => x = row
        BY DEF TradeOf
    <2>3. RowsIn(H, T \ {TradeOf(row)}) = RowsIn(H, T) \ {row}
        BY <2>2 DEF RowsIn
    <2>4. last = big
        BY <1>6, <1>8
    <2> HIDE DEF last, big
    <2> QED BY <2>1, <2>3, <2>4 DEF Shown, big
<1> QED BY <1>4, <1>6, <1>8, <1>9

LEMMA FlatScales ==
    ASSUME NEW classes, NEW k \in Nat PROVE Scales(Flat, Flat, k, classes)
<1>1. Fits(Flat, Nothing, classes)
    BY FlatFits
<1>2. Flat.h = Nothing /\ Flat.lots = <<>> /\ Nothing \in Holdable /\ Nothing.qty = 0
    BY DEF Flat, Nothing, Holdable
<1>3. DOMAIN Flat.lots = {}
    BY <1>2
<1>4. k * 0 = 0
    OBVIOUS
<1> QED BY <1>1, <1>2, <1>3, <1>4 DEF Scales

(* Rows are in old shares for the splits that have not come by their day.  *)
LEMMA FactorIsLeft ==
    ASSUME NEW known, NEW H, NEW splits, StockHistory(known, H, splits),
           \A s \in splits : s[1] \in Int,
           NEW T, NEW row \in H, TradeOf(row) \in T,
           \A s \in splits : Sooner(SplitOf(s), TradeOf(row)) => SplitOf(s) \in T,
           \A f \in T : ~Sooner(TradeOf(row), f)
    PROVE  Factor(known, row) = Ratio(Left(splits, T))
<1>1. SplitsOf(known, row) = splits /\ TradeDay(row) \in Int
    BY TradeDayIsInt DEF StockHistory
<1>2. ASSUME NEW s \in splits PROVE s[1] > TradeDay(row) <=> SplitOf(s) \notin T
    <2>1. s[1] \in Int
        OBVIOUS
    <2>2. s[1] > TradeDay(row) => Sooner(TradeOf(row), SplitOf(s))
        BY <1>1, <2>1 DEF Sooner, TradeOf, SplitOf
    <2>3. ~(s[1] > TradeDay(row)) => Sooner(SplitOf(s), TradeOf(row))
        BY <1>1, <2>1 DEF Sooner, TradeOf, SplitOf
    <2> QED BY <2>2, <2>3
<1>3. {s \in SplitsOf(known, row) : s[1] > TradeDay(row)} = Left(splits, T)
    BY <1>1, <1>2 DEF Left
<1> QED BY <1>3 DEF Factor

LEMMA LeftIsPositive ==
    ASSUME NEW splits, Ratios(splits), NEW T
    PROVE  Ratios(Left(splits, T)) /\ Ratio(Left(splits, T)) \in Nat /\ Ratio(Left(splits, T)) > 0
<1>1. Left(splits, T) \subseteq splits
    BY DEF Left
<1>2. Ratios(Left(splits, T))
    BY <1>1, FS_Subset DEF Ratios
<1> QED BY <1>2, RatioIsPositive

(* No day is missing between those that have come.                         *)
Down(all, T) == \A e \in T : \A f \in all : Sooner(f, e) => f \in T

(* What the days T leave: by the valuation of history H, and as the        *)
(* portfolio computes it in new shares.                                    *)
DaysAgreeIn(H, splits, T) ==
    Scales(After(Shown(env, H, T)), OfDays!Fold(0, T), Ratio(Left(splits, T)),
           {row.class : row \in H})

(* One day more, a trade or a split, for valuation and portfolio.          *)
LEMMA DayAgrees ==
    ASSUME NEW H, NEW splits, StockHistory(env, H, splits),
           NEW T, T \subseteq EventsOf(H), T # {}, Down(EventsOf(H), T),
           DaysAgreeIn(H, splits, T \ {LastEvent(T)})
    PROVE  DaysAgreeIn(H, splits, T)
<1> DEFINE e == LastEvent(T)
           rest == T \ {e}
           classes == {row.class : row \in H}
           p == OfDays!Fold(0, rest)
           new == After(Shown(env, H, rest))
<1>1. /\ IsFiniteSet(EventsOf(H)) /\ \A f \in EventsOf(H) : Dated(f)
      /\ EventsOf(H) = {TradeOf(row) : row \in H} \cup {SplitOf(s) : s \in splits}
      /\ \A s \in splits : s[1] \in Int /\ s[2] \in Nat /\ s = <<s[1], s[2]>>
    BY EventsAre
<1>2. IsFiniteSet(T)
    BY <1>1, FS_Subset
<1>3. e \in T /\ \A f \in T : ~Sooner(e, f)
    BY <1>1, <1>2, LastEventIsLast
<1>4. OfDays!Fold(0, T) = Happen(e, p)
    <2>1. OfDays!PicksFrom(T)
        <3>1. ASSUME NEW U \in SUBSET T, U # {} PROVE LastEvent(U) \in U
            <4>1. IsFiniteSet(U) /\ \A f \in U : Dated(f)
                BY <1>1, <1>2, FS_Subset
            <4> QED BY <3>1, <4>1, LastEventIsLast
        <3> QED BY <3>1 DEF OfDays!PicksFrom
    <2>2. OfDays!IsFiniteSet(T)
        BY <1>2, ValuedIsFold
    <2> QED BY <2>1, <2>2, OfDays!FoldStep DEF Itself
<1>5. Scales(new, p, Ratio(Left(splits, rest)), classes)
    BY DEF DaysAgreeIn
<1>6. Ratios(splits)
    BY DEF StockHistory
<1>7. ASSUME NEW row \in H, e = TradeOf(row) PROVE DaysAgreeIn(H, splits, T)
    <2> DEFINE k == Ratio(Left(splits, T))
               big == Scaled(env, row)
    <2>1. After(Shown(env, H, T)) = Trade(big, new)
        BY <1>3, <1>7, LatestOfDays
    <2>2. \A s \in splits : Sooner(SplitOf(s), TradeOf(row)) => SplitOf(s) \in T
        BY <1>1, <1>3, <1>7 DEF Down
    <2>3. Factor(env, row) = k
        BY <1>1, <1>3, <1>7, <2>2, FactorIsLeft
    <2>4. k \in Nat /\ k > 0
        BY <1>6, LeftIsPositive
    <2>5. Left(splits, rest) = Left(splits, T)
        <3>1. \A s \in splits : SplitOf(s) # e
            BY <1>7 DEF SplitOf, TradeOf
        <3> HIDE DEF e
        <3> QED BY <3>1 DEF Left
    <2>6. Happen(e, p) = Trade(row, p)
        <3>1. e.rank = 1 /\ e.row = row
            BY <1>7 DEF TradeOf
        <3> HIDE DEF e, p
        <3> QED BY <3>1 DEF Happen
    <2>7. big.qty = k * row.qty
        <3>1. {"qty", "price"} \subseteq DOMAIN row /\ TypedEnv(env) /\ Sound(row)
            BY DEF StockHistory, Columns
        <3>2. big.qty = row.qty * Factor(env, row) /\ row.qty \in Nat
            BY <3>1, ScaledSound DEF Sound
        <3> DEFINE q == row.qty
        <3> HIDE DEF k, big, q
        <3>3. big.qty = q * k /\ q \in Nat
            BY <2>3, <3>2 DEF q
        <3>4. big.qty = k * q
            BY <2>4, <3>3
        <3> QED BY <3>4 DEF q
    <2>8. /\ Sound(big) /\ big.kind = row.kind /\ big.class = row.class
          /\ Sound(row) /\ row.class \in classes
        BY RowScales DEF StockHistory
    <2>9. Scales(new, p, k, classes)
        BY <1>5, <2>5
    <2> HIDE DEF k, big, new, p, classes
    <2>10. Scales(Trade(big, new), Trade(row, p), k, classes)
        BY <2>4, <2>7, <2>8, <2>9, TradeScales
    <2> QED BY <1>4, <2>1, <2>6, <2>10 DEF DaysAgreeIn, k, classes
<1>8. ASSUME NEW s \in splits, e = SplitOf(s) PROVE DaysAgreeIn(H, splits, T)
    <2> DEFINE k == Ratio(Left(splits, T))
               r == s[2]
    <2>1. Shown(env, H, T) = Shown(env, H, rest)
        <3>1. \A row \in H : TradeOf(row) # e
            BY <1>8 DEF SplitOf, TradeOf
        <3>2. RowsIn(H, T) = RowsIn(H, rest)
            BY <3>1 DEF RowsIn
        <3> QED BY <3>2 DEF Shown
    <2>2. Left(splits, T) = Left(splits, rest) \ {s} /\ s \in Left(splits, rest)
        <3>1. \A x \in splits : SplitOf(x) = SplitOf(s) => x = s
            <4>1. ASSUME NEW x \in splits, SplitOf(x) = SplitOf(s) PROVE x = s
                <5>1. x[1] = s[1] /\ x[2] = s[2]
                    BY <4>1 DEF SplitOf
                <5>2. x = <<x[1], x[2]>> /\ s = <<s[1], s[2]>>
                    BY <1>1
                <5> QED BY <5>1, <5>2
            <4> QED BY <4>1
        <3>2. SplitOf(s) \in T /\ rest = T \ {SplitOf(s)}
            BY <1>3, <1>8
        <3> HIDE DEF e, rest
        <3> QED BY <3>1, <3>2 DEF Left
    <2>3. Ratio(Left(splits, rest)) = r * k /\ r \in Nat /\ r > 0 /\ k \in Nat /\ k > 0
        <3>1. Ratios(Left(splits, rest))
            BY <1>6, LeftIsPositive
        <3> HIDE DEF rest
        <3> QED BY <2>2, <3>1, RatioWith
    <2>4. Happen(e, p) = Split(r, p)
        <3>1. e.rank = 0 /\ e.ratio = r
            BY <1>8 DEF SplitOf
        <3> HIDE DEF e, p, r
        <3> QED BY <3>1 DEF Happen
    <2>5. Scales(new, p, r * k, classes)
        BY <1>5, <2>3
    <2> HIDE DEF k, r, new, p, classes
    <2>6. Scales(new, Split(r, p), k, classes)
        BY <2>3, <2>5, SplitScales
    <2> QED BY <1>4, <2>1, <2>4, <2>6 DEF DaysAgreeIn, k, classes, new
<1>9. (\E row \in H : e = TradeOf(row)) \/ (\E s \in splits : e = SplitOf(s))
    <2> HIDE DEF e
    <2> QED BY <1>1, <1>3
<1> QED BY <1>7, <1>8, <1>9

(* A position in shares of which one makes an old one is that position.    *)
LEMMA ScalesByOne ==
    ASSUME NEW classes, NEW new, NEW old, Scales(new, old, 1, classes)
    PROVE  SameShares(new, old)
<1> DEFINE a == old.lots
           b == new.lots
           X == [qty : Nat, class : classes]
<1>1. /\ a \in LotsOf(classes) /\ b \in LotsOf(classes) /\ Len(b) = Len(a)
      /\ \A n \in DOMAIN a : b[n].qty = 1 * a[n].qty /\ b[n].class = a[n].class
      /\ new.h.qty = 1 * old.h.qty /\ old.h.qty \in Nat
    BY DEF Scales, Fits, Holdable
<1>2. DOMAIN a = 1..Len(a) /\ DOMAIN b = DOMAIN a
    BY <1>1, LotsType
<1>3. ASSUME NEW n \in DOMAIN a PROVE b[n] = a[n]
    <2>1. a[n] \in X /\ b[n] \in X /\ a[n].qty \in Nat
        BY <1>1, <1>2, LotsType
    <2>2. b[n].qty = a[n].qty /\ b[n].class = a[n].class
        BY <1>1, <2>1
    <2> HIDE DEF a, b
    <2> QED BY <2>1, <2>2
<1>4. a = [n \in DOMAIN a |-> a[n]] /\ b = [n \in DOMAIN b |-> b[n]]
    <2>1. a \in Seq(X) /\ b \in Seq(X)
        BY <1>1 DEF LotsOf
    <2> HIDE DEF a, b, X
    <2> QED BY <2>1
<1>5. a = b
    <2> HIDE DEF a, b
    <2> QED BY <1>2, <1>3, <1>4
<1>6. new.h.qty = old.h.qty
    BY <1>1
<1> QED BY <1>5, <1>6 DEF SameShares, Selected

(* All days of a position.                                                 *)
LEMMA DaysAgree ==
    ASSUME NEW H, NEW splits, StockHistory(env, H, splits)
    PROVE  SameShares(After({Scaled(env, row) : row \in H}), Valued(H))
<1> DEFINE all == EventsOf(H)
           Good == {T \in SUBSET all : Down(all, T) => DaysAgreeIn(H, splits, T)}
<1>1. /\ IsFiniteSet(all) /\ \A f \in all : Dated(f)
      /\ all = {TradeOf(row) : row \in H} \cup {SplitOf(s) : s \in splits}
    BY EventsAre
<1>2. {} \in Good
    <2>1. OfDays!Fold(0, {}) = Flat
        BY OfDays!FoldOfNothing
    <2>2. After({}) = Flat
        BY AfterIsFold, InLots!FoldOfNothing
    <2>3. Shown(env, H, {}) = {}
        BY DEF Shown, RowsIn
    <2>4. Ratio(Left(splits, {})) \in Nat
        BY LeftIsPositive DEF StockHistory
    <2> QED BY <2>1, <2>2, <2>3, <2>4, FlatScales DEF DaysAgreeIn
<1>3. ASSUME NEW T \in SUBSET all, T # {} PROVE \E x \in T : T \ {x} \in Good => T \in Good
    <2> DEFINE e == LastEvent(T)
    <2>1. IsFiniteSet(T) /\ \A f \in T : Dated(f)
        BY <1>1, FS_Subset
    <2>2. e \in T /\ \A f \in T : ~Sooner(e, f)
        BY <1>3, <2>1, LastEventIsLast
    <2>3. ASSUME T \ {e} \in Good, Down(all, T) PROVE DaysAgreeIn(H, splits, T)
        <3>1. Down(all, T \ {e})
            <4> HIDE DEF all, e
            <4> QED BY <2>2, <2>3 DEF Down
        <3>2. DaysAgreeIn(H, splits, T \ {e})
            BY <2>3, <3>1
        <3> QED BY <1>3, <2>3, <3>2, DayAgrees
    <2> QED BY <2>2, <2>3
<1> HIDE DEF Good
<1>4. OfLots!IsFiniteSet(all)
    BY <1>1, SameFiniteSets
<1>5. all \in Good
    BY <1>2, <1>3, <1>4, OfLots!SetInduction
<1>6. DaysAgreeIn(H, splits, all)
    BY <1>5 DEF Good, Down
<1>7. Left(splits, all) = {} /\ Shown(env, H, all) = {Scaled(env, row) : row \in H}
    <2>1. RowsIn(H, all) = H
        BY <1>1 DEF RowsIn
    <2> QED BY <1>1, <2>1 DEF Left, Shown
<1>8. Valued(H) = OfDays!Fold(0, all)
    BY ValuedIsFold
<1> HIDE DEF all
<1>9. Scales(After({Scaled(env, row) : row \in H}), Valued(H), 1, {row.class : row \in H})
    BY <1>6, <1>7, <1>8, RatioOfNone DEF DaysAgreeIn
<1> QED BY <1>9, ScalesByOne

(* The rows in the shares of their days.                                   *)
LEMMA OldRows ==
    ASSUME LedgerInv, NumbersInv
    PROVE  /\ Entries(Old) = Entries(ledger) /\ IsFiniteSet(Entries(Old))
           /\ Entries(New) = Entries(Old)
           /\ \A i \in Entries(Old) :
                 /\ Sound(Old[i]) /\ Old[i].id = i /\ Columns \subseteq DOMAIN Old[i]
                 /\ New[i] = Scaled(env, Old[i])
<1>1. Table(ledger) /\ TypedTable(ledger) /\ TypedEnv(env)
    BY DEF LedgerInv, NumbersInv
<1>2. IsFiniteSet(Entries(ledger))
    BY <1>1, EntriesAreFinite
<1>3. Entries(Old) = Entries(ledger) /\ Entries(New) = Entries(Old)
    BY DEF Old, New, Prepared, InNewShares, OldShares, Linked, Identified, Entries
<1>4. ASSUME NEW i \in Entries(ledger)
      PROVE  /\ Sound(Old[i]) /\ Old[i].id = i /\ Columns \subseteq DOMAIN Old[i]
             /\ New[i] = Scaled(env, Old[i])
    <2> DEFINE row == ledger[i]
               ident == Identity(env, row)
               first == [row EXCEPT !.ident = ident]
               code == LinkedCode(Identified(env, ledger), i)
    <2>1. Old[i] = [first EXCEPT !.code = code]
        BY DEF Old, OldShares, Linked, Identified, Entries
    <2>2. New[i] = Scaled(env, Old[i])
        BY <1>3 DEF New, Old, Prepared, InNewShares
    <2>3. Sound(row) /\ row.id = i /\ Columns \subseteq DOMAIN row
        BY <1>1, TypedIsSound DEF Table, IsRow, TypedTable
    <2> HIDE DEF ident, code, row
    <2>4. Sound(first) /\ first.id = i /\ Columns \subseteq DOMAIN first
        BY <2>3 DEF Sound
    <2> HIDE DEF first
    <2>5. Sound(Old[i]) /\ Old[i].id = i /\ Columns \subseteq DOMAIN Old[i]
        BY <2>1, <2>4 DEF Sound
    <2> QED BY <2>2, <2>5
<1> QED BY <1>2, <1>3, <1>4

(* A trade in new shares is one of the same position.                      *)
LEMMA ScaledKeeps ==
    ASSUME NEW e, NEW row, Columns \subseteq DOMAIN row
    PROVE  /\ Scaled(e, row).settled = row.settled
           /\ Position(Scaled(e, row)) = Position(row)
<1> DEFINE f == Factor(e, row)
           q == row.qty * f
           v == row.price \div f
<1>1. Scaled(e, row) = [row EXCEPT !.qty = q, !.price = v]
    BY DEF Scaled
<1> HIDE DEF q, v
<1> QED BY <1>1 DEF Columns, Position, Scope, Stock

LEMMA SplitsAreRatios ==
    ASSUME NEW e, TypedEnv(e), NEW row PROVE Ratios(SplitsOf(e, row))
<1>1. CASE row.code \in DOMAIN e.splits
    <2>1. SplitsOf(e, row) \subseteq e.splits[row.code] /\ Ratios(e.splits[row.code])
        BY <1>1 DEF SplitsOf, TypedEnv
    <2>2. IsFiniteSet(SplitsOf(e, row))
        BY <2>1, FS_Subset DEF Ratios
    <2> QED BY <2>1, <2>2 DEF Ratios
<1>2. CASE row.code \notin DOMAIN e.splits
    <2>1. SplitsOf(e, row) = {}
        BY <1>2 DEF SplitsOf
    <2> QED BY <2>1, FS_EmptySet DEF Ratios
<1> QED BY <1>1, <1>2

(* What ScreensAgree says of shares.                                       *)
SharesAgree ==
    \A p \in PositionsOf(New) : Comparable(History(Old, p)) =>
        SameShares(After(History(New, p)), Valued(History(Old, p)))

(* journal.py puts every trade into today's shares before it goes through  *)
(* them by time; valuation.py goes through the days and multiplies what is *)
(* held when a split comes: whatever trades, splits and rules there are,   *)
(* both end at the same holding and the same shares of each class.         *)
THEOREM ScreensShareAlike == Spec => []SharesAgree
<1>1. ASSUME LedgerInv, NumbersInv PROVE SharesAgree
    <2>1. SUFFICES ASSUME NEW p \in PositionsOf(New), Comparable(History(Old, p))
                   PROVE  SameShares(After(History(New, p)), Valued(History(Old, p)))
        BY DEF SharesAgree
    <2> DEFINE H == History(Old, p)
    <2>2. /\ IsFiniteSet(Entries(Old)) /\ Entries(New) = Entries(Old)
          /\ \A i \in Entries(Old) :
                /\ Sound(Old[i]) /\ Old[i].id = i /\ Columns \subseteq DOMAIN Old[i]
                /\ New[i] = Scaled(env, Old[i])
        BY <1>1, OldRows
    <2>3. \A i \in Entries(Old) : New[i].settled = Old[i].settled /\ Position(New[i]) = Position(Old[i])
        BY <2>2, ScaledKeeps
    <2>4. History(New, p) = {Scaled(env, row) : row \in H}
        <3> DEFINE N == {j \in Entries(Old) : Old[j].settled /\ Position(Old[j]) = p}
        <3>1. N = {j \in Entries(New) : New[j].settled /\ Position(New[j]) = p}
            BY <2>2, <2>3
        <3>2. H = {Old[i] : i \in N} /\ History(New, p) = {New[i] : i \in N}
            BY <3>1 DEF History
        <3>3. \A i \in N : New[i] = Scaled(env, Old[i])
            BY <2>2
        <3> HIDE DEF N, H
        <3> QED BY <3>2, <3>3
    <2>5. H # {}
        <3>1. PICK i \in Entries(New) : New[i].settled /\ Position(New[i]) = p
            BY DEF PositionsOf
        <3>2. Old[i] \in H
            BY <2>2, <2>3, <3>1 DEF History
        <3> QED BY <3>2
    <2>6. IsFiniteSet(H) /\ \A row \in H : Sound(row)
        BY <2>2, HistorySound
    <2>7. \A row \in H : row.id \in Entries(Old) /\ row = Old[row.id] /\ Columns \subseteq DOMAIN row
                         /\ Position(row) = p
        BY <2>2 DEF History
    <2>8. PICK one \in H : TRUE
        BY <2>5
    <2> DEFINE splits == SplitsOf(env, one)
    <2>9. \A row \in H : SplitsOf(env, row) = splits
        <3>1. \A row \in H : row.code = one.code
            BY <2>1, <2>8 DEF Comparable
        <3>2. \A row \in H : Scope(row) = p[1]
            BY <2>7 DEF Position
        <3> HIDE DEF H
        <3> QED BY <2>8, <3>1, <3>2 DEF SplitsOf
    <2>10. TypedEnv(env) /\ Ratios(splits)
        BY <1>1, SplitsAreRatios DEF NumbersInv
    <2>11. \A row, other \in H : Earlier(row, other) => TradeDay(row) <= TradeDay(other)
        BY <2>1 DEF Comparable
    <2>12. \A row, other \in H : row.id = other.id => row = other
        <3>1. \A row \in H : row = Old[row.id]
            BY <2>7
        <3> HIDE DEF H
        <3> QED BY <3>1
    <2> HIDE DEF H, splits
    <2>13. StockHistory(env, H, splits)
        BY <2>5, <2>6, <2>7, <2>9, <2>10, <2>11, <2>12 DEF StockHistory
    <2> QED BY <2>4, <2>13, DaysAgree DEF H
<1> QED
    BY <1>1, LedgerInvariant, TradesAreNumbers, PTL

-----------------------------------------------------------------------------
(* The curve of profits: its events in order, totals and heights.          *)

Gain(data, e) == e.earned

OfGains == INSTANCE FoldLemmas WITH Op <- Plus, Base <- 0, Map <- Gain, Pick <- Some
Falls == INSTANCE FoldLemmas WITH Op <- Deepen, Base <- NoFall, Map <- Itself, Pick <- LastFact
Returning == INSTANCE FoldLemmas
                WITH Op <- Recover, Base <- NoEpisode, Map <- Itself, Pick <- LastFact

LEMMA SameSetsOfFacts ==
    /\ \A S : OfGains!IsFiniteSet(S) <=> IsFiniteSet(S)
    /\ \A S : Falls!IsFiniteSet(S) <=> IsFiniteSet(S)
    /\ \A S : Returning!IsFiniteSet(S) <=> IsFiniteSet(S)
BY DEF OfGains!IsFiniteSet, Falls!IsFiniteSet, Returning!IsFiniteSet, IsFiniteSet

(* The facts a curve of profits is drawn of.                               *)
Timed(f) ==
    f.day \in Int /\ f.hour \in Int /\ f.at \in Int /\ f.id \in Int /\ f.earned \in Int

Curve(S) ==
    /\ IsFiniteSet(S)
    /\ \A f \in S : Timed(f)
    /\ \A f, g \in S : f.id = g.id => f = g

LEMMA PartOfCurve ==
    ASSUME NEW S, Curve(S), NEW T, T \subseteq S PROVE Curve(T)
BY FS_Subset DEF Curve

(* Facts come one after the other.                                         *)
LEMMA FactsAreOrdered ==
    ASSUME NEW S, Curve(S)
    PROVE  /\ \A f \in S : ~Precedes(f, f)
           /\ \A f, g \in S : Precedes(f, g) => ~Precedes(g, f)
           /\ \A f, g \in S : f = g \/ Precedes(f, g) \/ Precedes(g, f)
           /\ \A f, g, k \in S : Precedes(f, g) /\ Precedes(g, k) => Precedes(f, k)
<1>1. \A f \in S : f.day \in Int /\ f.hour \in Int /\ f.at \in Int /\ f.id \in Int
    BY DEF Curve, Timed
<1>2. \A f, g \in S : f.id = g.id => f = g
    BY DEF Curve
<1>3. \A f \in S : ~Precedes(f, f)
    BY <1>1 DEF Precedes, Earlier
<1>4. \A f, g \in S : Precedes(f, g) => ~Precedes(g, f)
    BY <1>1 DEF Precedes, Earlier
<1>5. \A f, g \in S : f = g \/ Precedes(f, g) \/ Precedes(g, f)
    BY <1>1, <1>2 DEF Precedes, Earlier
<1>6. \A f, g, k \in S : Precedes(f, g) /\ Precedes(g, k) => Precedes(f, k)
    BY <1>1 DEF Precedes, Earlier
<1> QED BY <1>3, <1>4, <1>5, <1>6

LEMMA LastIsLast ==
    ASSUME NEW S, Curve(S), S # {}
    PROVE  LastFact(S) \in S /\ \A g \in S : ~Precedes(LastFact(S), g)
<1> DEFINE R == {p \in S \X S : Precedes(p[2], p[1])}
<1>1. \A x, y \in S : <<x, y>> \in R <=> Precedes(y, x)
    OBVIOUS
<1> HIDE DEF R
<1>2. /\ \A x, y, z \in S : <<x, y>> \in R /\ <<y, z>> \in R => <<x, z>> \in R
      /\ \A x \in S : <<x, x>> \notin R
    BY <1>1, FactsAreOrdered
<1>3. OfLots!IsFiniteSet(S)
    BY SameFiniteSets DEF Curve
<1>4. PICK x \in S : \A y \in S : <<y, x>> \notin R
    BY <1>2, <1>3, OfLots!MinimalElement
<1>5. \A g \in S : ~Precedes(x, g)
    BY <1>1, <1>4
<1> QED BY <1>5, Zenon DEF LastFact

LEMMA FirstIsFirst ==
    ASSUME NEW S, Curve(S), NEW T, T \subseteq S, T # {}
    PROVE  /\ FirstFact(T) \in T
           /\ \A g \in T : g = FirstFact(T) \/ Precedes(FirstFact(T), g)
           /\ \A x \in T : (\A g \in T : ~Precedes(g, x)) => FirstFact(T) = x
<1> DEFINE R == {p \in T \X T : Precedes(p[1], p[2])}
<1>1. \A x, y \in T : <<x, y>> \in R <=> Precedes(x, y)
    OBVIOUS
<1> HIDE DEF R
<1>2. Curve(T)
    BY PartOfCurve
<1>3. /\ \A x, y, z \in T : <<x, y>> \in R /\ <<y, z>> \in R => <<x, z>> \in R
      /\ \A x \in T : <<x, x>> \notin R
    BY <1>1, <1>2, FactsAreOrdered
<1>4. OfLots!IsFiniteSet(T)
    BY <1>2, SameFiniteSets DEF Curve
<1>5. PICK x \in T : \A y \in T : <<y, x>> \notin R
    BY <1>3, <1>4, OfLots!MinimalElement
<1>6. \A g \in T : ~Precedes(g, x)
    BY <1>1, <1>5
<1>7. FirstFact(T) \in T /\ \A g \in T : ~Precedes(g, FirstFact(T))
    BY <1>6, Zenon DEF FirstFact
<1>8. \A f, g \in T : f = g \/ Precedes(f, g) \/ Precedes(g, f)
    BY <1>2, FactsAreOrdered
<1> QED BY <1>7, <1>8, Zenon

LEMMA TotalIsInt ==
    ASSUME NEW S, Curve(S)
    PROVE  /\ Total(S) \in Int /\ Total({}) = 0
           /\ \A e \in S : Total(S) = Total(S \ {e}) + e.earned
<1>1. \A T : Total(T) = OfGains!Fold(0, T)
    BY DEF Total, MapThenSumSet, MapThenFoldSet, OfGains!Fold, OfGains!MapThenFoldSet,
           Plus, Some, Gain
<1>2. OfGains!Adds /\ \A T : OfGains!PicksFrom(T)
    <2>1. \A T : \A U \in SUBSET T : U # {} => Some(U) \in U
        BY DEF Some
    <2> QED BY <2>1 DEF OfGains!Adds, OfGains!PicksFrom, Plus
<1>3. OfGains!IsFiniteSet(S) /\ \A e \in S : Gain(0, e) \in Int
    BY SameSetsOfFacts DEF Curve, Timed, Gain
<1>4. OfGains!Fold(0, S) \in Int
    BY <1>2, <1>3, OfGains!SumIsInt
<1>5. OfGains!Fold(0, {}) = 0
    BY OfGains!FoldOfNothing
<1>6. ASSUME NEW e \in S PROVE Total(S) = Total(S \ {e}) + e.earned
    <2>1. /\ OfGains!Fold(0, S) = Gain(0, e) + OfGains!Fold(0, S \ {e})
          /\ OfGains!Fold(0, S \ {e}) \in Int
        BY <1>2, <1>3, OfGains!SumWith
    <2>2. Gain(0, e) \in Int /\ Gain(0, e) = e.earned
        BY <1>3 DEF Gain
    <2> QED BY <1>1, <2>1, <2>2
<1> QED BY <1>1, <1>4, <1>5, <1>6

(* A curve and its last fact.                                              *)
LEMMA CurveWithLast ==
    ASSUME NEW T, Curve(T), T # {}
    PROVE  LET e == LastFact(T)
               R == T \ {e}
           IN  /\ e \in T /\ Curve(R) /\ Timed(e)
               /\ \A f \in R : Precedes(f, e)
               /\ \A f \in T : ~Precedes(e, f)
               /\ UpTo(T, e) = T
               /\ \A f \in R : UpTo(T, f) = UpTo(R, f)
               /\ Total(T) = Total(R) + e.earned
<1> DEFINE e == LastFact(T)
           R == T \ {e}
<1>1. e \in T /\ \A g \in T : ~Precedes(e, g)
    BY LastIsLast
<1>2. Curve(R) /\ Timed(e)
    BY <1>1, PartOfCurve DEF Curve
<1>3. \A f \in R : Precedes(f, e)
    BY <1>1, FactsAreOrdered
<1>4. UpTo(T, e) = T
    BY <1>1 DEF UpTo
<1>5. ASSUME NEW f \in R PROVE UpTo(T, f) = UpTo(R, f)
    BY <1>1, <1>3 DEF UpTo
<1>6. Total(T) = Total(R) + e.earned
    BY <1>1, TotalIsInt
<1> QED BY <1>1, <1>2, <1>3, <1>4, <1>5, <1>6

-----------------------------------------------------------------------------
(* The greatest of finitely many values, and 0.                            *)
Greatest(S, f) == Max({0} \cup {f[e] : e \in S})

LEMMA GreatestIs ==
    ASSUME NEW S, IsFiniteSet(S), NEW f, \A e \in S : f[e] \in Int
    PROVE  /\ Greatest(S, f) \in Nat
           /\ \A e \in S : f[e] <= Greatest(S, f)
           /\ Greatest(S, f) = 0 \/ \E e \in S : f[e] = Greatest(S, f)
<1> DEFINE V == {f[e] : e \in S}
           W == V \cup {0}
           m == Max(W)
<1>1. IsFiniteSet(W)
    <2>1. IsFiniteSet(V)
        BY ImageIsFinite
    <2> HIDE DEF V
    <2> QED BY <2>1, FS_AddElement
<1>2. W \subseteq Int /\ W # {} /\ 0 \in W
    OBVIOUS
<1>3. m \in W /\ \A y \in W : m >= y
    <2> HIDE DEF W
    <2> QED BY <1>1, <1>2, MaxOfFinite
<1>4. Greatest(S, f) = m
    <2>1. {0} \cup {f[e] : e \in S} = W
        OBVIOUS
    <2> HIDE DEF W
    <2> QED BY <2>1 DEF Greatest
<1> HIDE DEF m
<1>5. m \in Int /\ m >= 0 /\ \A e \in S : m >= f[e]
    BY <1>2, <1>3
<1>6. m = 0 \/ \E e \in S : f[e] = m
    BY <1>3
<1> QED BY <1>4, <1>5, <1>6

LEMMA GreatestWith ==
    ASSUME NEW T, IsFiniteSet(T), NEW e \in T, NEW f, \A x \in T : f[x] \in Int,
           NEW g, \A x \in T \ {e} : g[x] = f[x]
    PROVE  LET rest == Greatest(T \ {e}, g)
           IN  Greatest(T, f) = IF f[e] > rest THEN f[e] ELSE rest
<1> DEFINE R == T \ {e}
           m == Greatest(T, f)
           n == Greatest(R, g)
<1>1. IsFiniteSet(R) /\ R \subseteq T /\ T = R \cup {e}
    BY FS_Subset
<1>2. \A x \in R : g[x] \in Int
    OBVIOUS
<1>3. /\ m \in Nat /\ \A x \in T : f[x] <= m
      /\ m = 0 \/ \E x \in T : f[x] = m
    BY GreatestIs
<1>4. /\ n \in Nat /\ \A x \in R : g[x] <= n
      /\ n = 0 \/ \E x \in R : g[x] = n
    <2> HIDE DEF R
    <2> QED BY <1>1, <1>2, GreatestIs
<1>5. \A x \in R : g[x] = f[x]
    OBVIOUS
<1> HIDE DEF m, n, R
<1>6. n <= m /\ f[e] <= m
    BY <1>1, <1>3, <1>4, <1>5
<1>7. m \in {n, f[e]} \/ m <= n
    BY <1>1, <1>3, <1>4, <1>5
<1>8. m = IF f[e] > n THEN f[e] ELSE n
    BY <1>3, <1>4, <1>6, <1>7
<1> QED BY <1>8 DEF m, n, R

-----------------------------------------------------------------------------
(* The deepest fall, with one event more.                                  *)

HighestOf(a, b) == IF a > b THEN a ELSE b

Totals(S) == [e \in S |-> Total(UpTo(S, e))]
FallsOf(S) == [e \in S |-> Fall(UpTo(S, e))]

LEMMA GreatestOf ==
    ASSUME NEW S
    PROVE  High(S) = Greatest(S, Totals(S)) /\ DeepestFall(S) = Greatest(S, FallsOf(S))
<1>1. {Total(UpTo(S, e)) : e \in S} = {Totals(S)[e] : e \in S}
    BY DEF Totals
<1>2. {Fall(UpTo(S, e)) : e \in S} = {FallsOf(S)[e] : e \in S}
    BY DEF FallsOf
<1> QED BY <1>1, <1>2 DEF High, DeepestFall, Greatest

LEMMA UpToIsCurve ==
    ASSUME NEW S, Curve(S), NEW e PROVE Curve(UpTo(S, e))
BY PartOfCurve DEF UpTo

LEMMA HighIs ==
    ASSUME NEW S, Curve(S)
    PROVE  High(S) \in Nat /\ \A e \in S : Total(UpTo(S, e)) \in Int
<1>1. \A e \in S : Totals(S)[e] \in Int /\ Totals(S)[e] = Total(UpTo(S, e))
    BY UpToIsCurve, TotalIsInt DEF Totals
<1>2. Greatest(S, Totals(S)) \in Nat
    BY <1>1, GreatestIs DEF Curve
<1> QED BY <1>1, <1>2, GreatestOf

LEMMA HighStep ==
    ASSUME NEW T, Curve(T), T # {}
    PROVE  High(T) = HighestOf(Total(T), High(T \ {LastFact(T)}))
<1> DEFINE e == LastFact(T)
           R == T \ {e}
           f == Totals(T)
           g == Totals(R)
<1>1. e \in T /\ UpTo(T, e) = T /\ \A x \in R : UpTo(T, x) = UpTo(R, x)
    BY CurveWithLast
<1>2. \A x \in T : f[x] = Total(UpTo(T, x)) /\ f[x] \in Int
    BY HighIs DEF Totals
<1>3. \A x \in R : g[x] = Total(UpTo(R, x))
    BY DEF Totals
<1> HIDE DEF f, g, e
<1>4. \A x \in R : g[x] = f[x]
    BY <1>1, <1>2, <1>3
<1>5. IsFiniteSet(T)
    BY DEF Curve
<1>6. Greatest(T, f) = IF f[e] > Greatest(R, g) THEN f[e] ELSE Greatest(R, g)
    BY <1>1, <1>2, <1>4, <1>5, GreatestWith
<1>7. f[e] = Total(T)
    BY <1>1, <1>2
<1>8. High(T) = Greatest(T, f) /\ High(R) = Greatest(R, g)
    BY GreatestOf DEF f, g
<1> QED BY <1>6, <1>7, <1>8 DEF HighestOf, e

LEMMA FallIs ==
    ASSUME NEW S, Curve(S)
    PROVE  Fall(S) \in Nat /\ Fall(S) = High(S) - Total(S)
<1>1. High(S) \in Nat /\ Total(S) \in Int
    BY HighIs, TotalIsInt
<1>2. CASE S = {}
    BY <1>1, <1>2, TotalIsInt DEF Fall
<1>3. CASE S # {}
    <2>1. High(S) = HighestOf(Total(S), High(S \ {LastFact(S)}))
        BY <1>3, HighStep
    <2>2. Curve(S \ {LastFact(S)})
        BY PartOfCurve
    <2>3. High(S \ {LastFact(S)}) \in Nat
        BY <2>2, HighIs
    <2> QED BY <1>1, <2>1, <2>3 DEF Fall, HighestOf
<1> QED BY <1>2, <1>3

LEMMA DeepestIs ==
    ASSUME NEW S, Curve(S)
    PROVE  /\ DeepestFall(S) \in Nat
           /\ DeepestFall(S) # 0 => Troughs(S) # {}
           /\ \A e \in S : Fall(UpTo(S, e)) \in Nat
<1>1. \A e \in S : FallsOf(S)[e] \in Nat /\ FallsOf(S)[e] = Fall(UpTo(S, e))
    BY UpToIsCurve, FallIs DEF FallsOf
<1> DEFINE m == Greatest(S, FallsOf(S))
<1>2. m \in Nat /\ (m = 0 \/ \E e \in S : FallsOf(S)[e] = m)
    BY <1>1, GreatestIs DEF Curve
<1>3. DeepestFall(S) = m
    BY GreatestOf
<1> HIDE DEF m
<1> QED BY <1>1, <1>2, <1>3 DEF Troughs

LEMMA DeepestStep ==
    ASSUME NEW T, Curve(T), T # {}
    PROVE  DeepestFall(T) = HighestOf(Fall(T), DeepestFall(T \ {LastFact(T)}))
<1> DEFINE e == LastFact(T)
           R == T \ {e}
           f == FallsOf(T)
           g == FallsOf(R)
<1>1. e \in T /\ UpTo(T, e) = T /\ \A x \in R : UpTo(T, x) = UpTo(R, x)
    BY CurveWithLast
<1>2. \A x \in T : f[x] = Fall(UpTo(T, x)) /\ f[x] \in Int
    BY DeepestIs DEF FallsOf
<1>3. \A x \in R : g[x] = Fall(UpTo(R, x))
    BY DEF FallsOf
<1> HIDE DEF f, g, e
<1>4. \A x \in R : g[x] = f[x]
    BY <1>1, <1>2, <1>3
<1>5. IsFiniteSet(T)
    BY DEF Curve
<1>6. Greatest(T, f) = IF f[e] > Greatest(R, g) THEN f[e] ELSE Greatest(R, g)
    BY <1>1, <1>2, <1>4, <1>5, GreatestWith
<1>7. f[e] = Fall(T)
    BY <1>1, <1>2
<1>8. DeepestFall(T) = Greatest(T, f) /\ DeepestFall(R) = Greatest(R, g)
    BY GreatestOf DEF f, g
<1> QED BY <1>6, <1>7, <1>8 DEF HighestOf, e

(* The first of the facts of a curve, if a later one may come.             *)
LEMMA FirstStays ==
    ASSUME NEW T, Curve(T), T # {}, NEW A, A \subseteq T \ {LastFact(T)}, A # {}
    PROVE  FirstFact(A \cup {LastFact(T)}) = FirstFact(A) /\ FirstFact(A) \in A
<1> DEFINE e == LastFact(T)
           x == FirstFact(A)
           B == A \cup {e}
<1>1. e \in T /\ \A f \in T : ~Precedes(e, f)
    BY LastIsLast
<1>2. A \subseteq T /\ B \subseteq T /\ B # {}
    BY <1>1
<1>3. x \in A /\ \A g \in A : g = x \/ Precedes(x, g)
    BY <1>2, FirstIsFirst
<1>4. \A f, g \in T : Precedes(f, g) => ~Precedes(g, f)
    BY FactsAreOrdered
<1>5. \A f \in T : ~Precedes(f, f)
    BY FactsAreOrdered
<1>6. x \in B /\ \A g \in B : ~Precedes(g, x)
    BY <1>1, <1>2, <1>3, <1>4, <1>5
<1> HIDE DEF x, B
<1>7. FirstFact(B) = x
    BY <1>2, <1>6, FirstIsFirst
<1> QED BY <1>3, <1>7 DEF x, B

(* Where the deepest fall first was that deep.                             *)
LEMMA TroughStep ==
    ASSUME NEW T, Curve(T), T # {}
    PROVE  LET e == LastFact(T)
               R == T \ {e}
           IN  /\ Fall(T) > DeepestFall(R) =>
                     /\ Troughs(T) # {} /\ Trough(T) = e /\ DeepestFall(T) = Fall(T)
                     /\ DeepestFall(T) # 0
               /\ ~(Fall(T) > DeepestFall(R)) =>
                     /\ DeepestFall(T) = DeepestFall(R)
                     /\ DeepestFall(R) # 0 =>
                           /\ Troughs(T) # {} /\ Troughs(R) # {}
                           /\ Trough(T) = Trough(R) /\ Trough(R) \in R
<1> DEFINE e == LastFact(T)
           R == T \ {e}
<1>1. /\ e \in T /\ Curve(R) /\ UpTo(T, e) = T
      /\ \A x \in R : UpTo(T, x) = UpTo(R, x)
    BY CurveWithLast
<1>2. DeepestFall(T) = HighestOf(Fall(T), DeepestFall(R))
    BY DeepestStep
<1>3. Fall(T) \in Nat /\ DeepestFall(R) \in Nat
    BY <1>1, FallIs, DeepestIs
<1>4. \A x \in R : Fall(UpTo(T, x)) <= DeepestFall(R)
    <2>1. \A x \in R : FallsOf(R)[x] = Fall(UpTo(R, x)) /\ FallsOf(R)[x] \in Int
        BY <1>1, DeepestIs DEF FallsOf
    <2> HIDE DEF R
    <2>2. \A x \in R : FallsOf(R)[x] <= Greatest(R, FallsOf(R))
        BY <1>1, <2>1, GreatestIs DEF Curve
    <2> QED BY <1>1, <2>1, <2>2, GreatestOf
<1>5. \A x \in T : x \in Troughs(T) <=> Fall(UpTo(T, x)) = DeepestFall(T)
    BY DEF Troughs
<1>6. \A x \in R : x \in Troughs(R) <=> Fall(UpTo(T, x)) = DeepestFall(R)
    BY <1>1 DEF Troughs
<1>7. Troughs(T) \subseteq T /\ Troughs(R) \subseteq R
    BY DEF Troughs
<1>8. ASSUME Fall(T) > DeepestFall(R)
      PROVE  /\ Troughs(T) # {} /\ Trough(T) = e /\ DeepestFall(T) = Fall(T)
             /\ DeepestFall(T) # 0
    <2>1. DeepestFall(T) = Fall(T) /\ DeepestFall(T) # 0
        BY <1>2, <1>3, <1>8 DEF HighestOf
    <2>2. e \in Troughs(T)
        BY <1>1, <1>5, <2>1
    <2>3. \A x \in R : x \notin Troughs(T)
        BY <1>3, <1>4, <1>5, <1>8, <2>1
    <2>4. Troughs(T) = {e}
        BY <1>7, <2>2, <2>3
    <2>5. \A g \in Troughs(T) : ~Precedes(g, e)
        BY <1>1, <2>4, FactsAreOrdered
    <2>6. FirstFact(Troughs(T)) = e
        BY <1>7, <2>2, <2>5, FirstIsFirst
    <2> QED BY <2>1, <2>2, <2>6 DEF Trough
<1>9. ASSUME ~(Fall(T) > DeepestFall(R))
      PROVE  /\ DeepestFall(T) = DeepestFall(R)
             /\ DeepestFall(R) # 0 =>
                   /\ Troughs(T) # {} /\ Troughs(R) # {}
                   /\ Trough(T) = Trough(R) /\ Trough(R) \in R
    <2>1. DeepestFall(T) = DeepestFall(R)
        BY <1>2, <1>3, <1>9 DEF HighestOf
    <2>2. ASSUME DeepestFall(R) # 0
          PROVE  /\ Troughs(T) # {} /\ Troughs(R) # {}
                 /\ Trough(T) = Trough(R) /\ Trough(R) \in R
        <3>1. Troughs(R) # {}
            BY <1>1, <2>2, DeepestIs
        <3>2. Troughs(T) = Troughs(R) \/ Troughs(T) = Troughs(R) \cup {e}
            BY <1>1, <1>5, <1>6, <1>7, <2>1
        <3>3. FirstFact(Troughs(R) \cup {e}) = FirstFact(Troughs(R)) /\ FirstFact(Troughs(R)) \in Troughs(R)
            BY <1>7, <3>1, FirstStays
        <3> HIDE DEF R, e
        <3> QED BY <1>7, <3>1, <3>2, <3>3 DEF Trough
    <2> QED BY <2>1, <2>2
<1> QED BY <1>8, <1>9

-----------------------------------------------------------------------------
(* The pass of the statistics.                                             *)

LEMMA PassStep ==
    ASSUME NEW T, Curve(T), T # {}
    PROVE  LET e == LastFact(T)
           IN  /\ Drawdown(T) = Deepen(e, Drawdown(T \ {e}))
               /\ Recovery(T) = Recover(e, Recovery(T \ {e}))
<1> DEFINE e == LastFact(T)
<1>1. \A S : Drawdown(S) = Falls!Fold(0, S)
    BY DEF Drawdown, Falls!Fold, Falls!MapThenFoldSet, MapThenFoldSet, Itself
<1>2. \A S : Recovery(S) = Returning!Fold(0, S)
    BY DEF Recovery, Returning!Fold, Returning!MapThenFoldSet, MapThenFoldSet, Itself
<1>3. \A U \in SUBSET T : U # {} => LastFact(U) \in U
    BY PartOfCurve, LastIsLast
<1>4. Falls!PicksFrom(T) /\ Returning!PicksFrom(T)
    BY <1>3 DEF Falls!PicksFrom, Returning!PicksFrom
<1>5. Falls!IsFiniteSet(T) /\ Returning!IsFiniteSet(T)
    BY SameSetsOfFacts DEF Curve
<1>6. Falls!Fold(0, T) = Deepen(Itself(0, e), Falls!Fold(0, T \ {e}))
    BY <1>4, <1>5, Falls!FoldStep
<1>7. Returning!Fold(0, T) = Recover(Itself(0, e), Returning!Fold(0, T \ {e}))
    BY <1>4, <1>5, Returning!FoldStep
<1> QED BY <1>1, <1>2, <1>6, <1>7 DEF Itself

LEMMA PassOfNothing == Drawdown({}) = NoFall /\ Recovery({}) = NoEpisode
<1>1. Drawdown({}) = Falls!Fold(0, {}) /\ Recovery({}) = Returning!Fold(0, {})
    BY DEF Drawdown, Falls!Fold, Falls!MapThenFoldSet, MapThenFoldSet, Itself,
           Recovery, Returning!Fold, Returning!MapThenFoldSet
<1> QED BY <1>1, Falls!FoldOfNothing, Returning!FoldOfNothing

LEMMA NothingYet ==
    /\ Total({}) = 0 /\ High({}) = 0 /\ DeepestFall({}) = 0
    /\ \A A : FirstDay({}, A) = NoDay
<1>1. Curve({})
    BY FS_EmptySet DEF Curve
<1>2. Total({}) = 0
    BY <1>1, TotalIsInt
<1>3. Greatest({}, Totals({})) = 0 /\ Greatest({}, FallsOf({})) = 0
    BY FS_EmptySet, GreatestIs
<1> QED BY <1>2, <1>3, GreatestOf DEF FirstDay

(* The day of the deepest fall, with one fact more.                        *)
LEMMA TroughDayStep ==
    ASSUME NEW T, Curve(T), T # {}
    PROVE  LET e == LastFact(T)
               R == T \ {e}
           IN  FirstDay(T, Troughs(T)) =
                  IF Fall(T) > DeepestFall(R) THEN e.day ELSE FirstDay(R, Troughs(R))
<1> DEFINE e == LastFact(T)
           R == T \ {e}
<1>1. CASE Fall(T) > DeepestFall(R)
    BY <1>1, TroughStep DEF FirstDay, Trough
<1>2. CASE ~(Fall(T) > DeepestFall(R))
    <2>1. CASE DeepestFall(R) = 0
        BY <1>2, <2>1, TroughStep DEF FirstDay
    <2>2. CASE DeepestFall(R) # 0
        BY <1>2, <2>2, TroughStep DEF FirstDay, Trough
    <2> QED BY <2>1, <2>2
<1> QED BY <1>1, <1>2

-----------------------------------------------------------------------------
(* The pass of the statistics.                                             *)
Fallen(S, s) ==
    /\ s.sum = Total(S) /\ s.peak = High(S) /\ s.max = DeepestFall(S)
    /\ s.to = FirstDay(S, Troughs(S))

LEMMA DeepenKeeps ==
    ASSUME NEW T, Curve(T), T # {}, NEW s, Fallen(T \ {LastFact(T)}, s)
    PROVE  Fallen(T, Deepen(LastFact(T), s))
<1> DEFINE e == LastFact(T)
           R == T \ {e}
           sum == s.sum + e.earned
           up == sum > s.peak
           peak == IF sum > s.peak THEN sum ELSE s.peak
           new == Deepen(e, s)
<1>1. Curve(R) /\ e \in T /\ Timed(e) /\ Total(T) = Total(R) + e.earned
    BY CurveWithLast
<1>2. sum = Total(T)
    BY <1>1 DEF Fallen
<1>3. peak = High(T)
    BY <1>2, HighStep DEF Fallen, HighestOf
<1>4. new.sum = sum /\ new.peak = peak
    BY DEF Deepen
<1>5. /\ new.max = IF peak - sum > s.max THEN peak - sum ELSE s.max
      /\ new.to = IF peak - sum > s.max THEN e.day ELSE s.to
    BY DEF Deepen
<1>6. Fall(T) = peak - sum
    BY <1>2, <1>3, FallIs
<1> HIDE DEF new, peak, sum
<1>7. new.max = DeepestFall(T)
    BY <1>5, <1>6, DeepestStep DEF Fallen, HighestOf
<1>8. new.to = FirstDay(T, Troughs(T))
    BY <1>5, <1>6, TroughDayStep DEF Fallen
<1> QED BY <1>2, <1>3, <1>4, <1>7, <1>8 DEF Fallen, new

(* The pass of the statistics finds the deepest fall and its first day.    *)
LEMMA DrawdownIsFall ==
    ASSUME NEW S, Curve(S) PROVE Fallen(S, Drawdown(S))
<1> DEFINE Good == {T \in SUBSET S : Fallen(T, Drawdown(T))}
<1>1. {} \in Good
    BY PassOfNothing, NothingYet DEF Fallen, NoFall
<1>2. ASSUME NEW T \in SUBSET S, T # {} PROVE \E x \in T : T \ {x} \in Good => T \in Good
    <2> DEFINE e == LastFact(T)
    <2>1. Curve(T)
        BY PartOfCurve
    <2>2. e \in T /\ Drawdown(T) = Deepen(e, Drawdown(T \ {e}))
        BY <1>2, <2>1, PassStep, LastIsLast
    <2>3. ASSUME T \ {e} \in Good PROVE T \in Good
        BY <1>2, <2>1, <2>2, <2>3, DeepenKeeps
    <2> QED BY <2>2, <2>3
<1> HIDE DEF Good
<1>3. OfLots!IsFiniteSet(S)
    BY SameFiniteSets DEF Curve
<1>4. S \in Good
    BY <1>1, <1>2, <1>3, OfLots!SetInduction
<1> QED BY <1>4 DEF Good

-----------------------------------------------------------------------------
(* The pass of the analysis.                                               *)
Episode == [sum : Int, peak : Int, largest : Int, trough : Int \cup {NoDay},
            back : Int \cup {NoDay}, open : BOOLEAN, inLargest : BOOLEAN]

(* How high the curve was before its deepest fall.                         *)
HighBefore(S) == High(UpTo(S, Trough(S)))

Recovered(S, s) ==
    /\ s \in Episode
    /\ s.sum = Total(S) /\ s.peak = High(S) /\ s.largest = DeepestFall(S)
    /\ s.trough = FirstDay(S, Troughs(S))
    /\ s.back = FirstDay(S, BackAt(S))
    /\ s.inLargest <=> DeepestFall(S) # 0 /\ BackAt(S) = {}
    /\ s.inLargest => s.open /\ High(S) = HighBefore(S)
    /\ DeepestFall(S) # 0 => HighBefore(S) <= High(S)

(* Where it came back to that height, with one fact more.                  *)
LEMMA BackStep ==
    ASSUME NEW T, Curve(T), T # {}
    PROVE  LET e == LastFact(T)
               R == T \ {e}
           IN  /\ Fall(T) > DeepestFall(R) =>
                     BackAt(T) = {} /\ HighBefore(T) = High(T) /\ DeepestFall(T) # 0
               /\ ~(Fall(T) > DeepestFall(R)) /\ DeepestFall(R) # 0 =>
                     /\ HighBefore(T) = HighBefore(R) /\ DeepestFall(T) # 0
                     /\ BackAt(T) = IF Total(T) >= HighBefore(R) THEN BackAt(R) \cup {e}
                                                                 ELSE BackAt(R)
<1> DEFINE e == LastFact(T)
           R == T \ {e}
<1>1. /\ e \in T /\ UpTo(T, e) = T
      /\ \A x \in R : UpTo(T, x) = UpTo(R, x) /\ Precedes(x, e)
      /\ \A x \in T : ~Precedes(e, x)
    BY CurveWithLast
<1>2. ASSUME Fall(T) > DeepestFall(R)
      PROVE  BackAt(T) = {} /\ HighBefore(T) = High(T) /\ DeepestFall(T) # 0
    <2>1. Trough(T) = e /\ DeepestFall(T) # 0
        BY <1>2, TroughStep
    <2> QED BY <1>1, <2>1 DEF BackAt, HighBefore
<1>3. ASSUME ~(Fall(T) > DeepestFall(R)), DeepestFall(R) # 0
      PROVE  /\ HighBefore(T) = HighBefore(R) /\ DeepestFall(T) # 0
             /\ BackAt(T) = IF Total(T) >= HighBefore(R) THEN BackAt(R) \cup {e}
                                                         ELSE BackAt(R)
    <2> DEFINE t == Trough(R)
               h == HighBefore(R)
    <2>1. Trough(T) = t /\ t \in R /\ DeepestFall(T) # 0
        BY <1>3, TroughStep
    <2>2. UpTo(T, t) = UpTo(R, t) /\ HighBefore(T) = h
        BY <1>1, <2>1 DEF HighBefore
    <2>3. \A x \in T : x \in BackAt(T) <=> Precedes(t, x) /\ Total(UpTo(T, x)) >= h
        BY <2>1, <2>2 DEF BackAt, HighBefore
    <2>4. \A x \in R : x \in BackAt(R) <=> Precedes(t, x) /\ Total(UpTo(T, x)) >= h
        BY <1>1 DEF BackAt, HighBefore
    <2>5. e \in BackAt(T) <=> Total(T) >= h
        BY <1>1, <2>1, <2>3
    <2>6. BackAt(T) \subseteq T /\ BackAt(R) \subseteq R
        BY DEF BackAt
    <2> HIDE DEF t, h, e
    <2>7. \A x \in R : x \in BackAt(T) <=> x \in BackAt(R)
        BY <2>3, <2>4
    <2>8. BackAt(T) = IF Total(T) >= h THEN BackAt(R) \cup {e} ELSE BackAt(R)
        BY <1>1, <2>5, <2>6, <2>7
    <2> QED BY <2>1, <2>2, <2>8 DEF h
<1> QED BY <1>2, <1>3

-----------------------------------------------------------------------------
(* The pass of the analysis.                                               *)

LEMMA RecoverIs ==
    ASSUME NEW s \in Episode, NEW e, Timed(e)
    PROVE  LET sum == s.sum + e.earned
               new == Recover(e, s)
           IN  /\ new \in Episode /\ new.sum = sum
               /\ sum >= s.peak =>
                     /\ new.peak = sum /\ new.largest = s.largest /\ new.trough = s.trough
                     /\ ~new.inLargest
                     /\ new.back = IF s.open /\ s.inLargest /\ s.back = NoDay THEN e.day ELSE s.back
               /\ ~(sum >= s.peak) /\ s.peak - sum > s.largest =>
                     /\ new.peak = s.peak /\ new.largest = s.peak - sum /\ new.trough = e.day
                     /\ new.inLargest /\ new.open /\ new.back = NoDay
               /\ ~(sum >= s.peak) /\ ~(s.peak - sum > s.largest) =>
                     /\ new.peak = s.peak /\ new.largest = s.largest /\ new.trough = s.trough
                     /\ (new.inLargest <=> s.inLargest) /\ new.open /\ new.back = s.back
<1> DEFINE sum == s.sum + e.earned
           fall == s.peak - sum
           new == Recover(e, s)
<1>1. sum \in Int /\ fall \in Int /\ e.day \in Int
    BY DEF Episode, Timed
<1>2. CASE sum >= s.peak
    <2> DEFINE back == IF s.open /\ s.inLargest /\ s.back = NoDay THEN e.day ELSE s.back
    <2>1. back \in Int \cup {NoDay}
        BY <1>1 DEF Episode
    <2>2. new = [s EXCEPT !.sum = sum, !.peak = sum, !.inLargest = FALSE, !.open = FALSE,
                          !.back = back]
        BY <1>2 DEF Recover
    <2> HIDE DEF sum, back, new
    <2>3. /\ new \in Episode /\ new.sum = sum /\ new.peak = sum /\ new.largest = s.largest
          /\ new.trough = s.trough /\ ~new.inLargest /\ new.back = back
        BY <1>1, <2>1, <2>2 DEF Episode
    <2> QED BY <1>2, <2>3 DEF sum, back, new
<1>3. CASE ~(sum >= s.peak) /\ fall > s.largest
    <2>1. new = [s EXCEPT !.sum = sum, !.open = TRUE, !.largest = fall, !.trough = e.day,
                          !.back = NoDay, !.inLargest = TRUE]
        BY <1>3 DEF Recover
    <2> HIDE DEF sum, fall, new
    <2>2. /\ new \in Episode /\ new.sum = sum /\ new.peak = s.peak /\ new.largest = fall
          /\ new.trough = e.day /\ new.inLargest /\ new.open /\ new.back = NoDay
        BY <1>1, <2>1 DEF Episode
    <2> QED BY <1>3, <2>2 DEF sum, fall, new
<1>4. CASE ~(sum >= s.peak) /\ ~(fall > s.largest)
    <2>1. new = [s EXCEPT !.sum = sum, !.open = TRUE, !.largest = s.largest,
                          !.trough = s.trough, !.back = s.back,
                          !.inLargest = FALSE \/ s.inLargest]
        BY <1>4 DEF Recover
    <2> HIDE DEF sum, fall, new
    <2>2. /\ new \in Episode /\ new.sum = sum /\ new.peak = s.peak /\ new.largest = s.largest
          /\ new.trough = s.trough /\ (new.inLargest <=> s.inLargest) /\ new.open
          /\ new.back = s.back
        BY <1>1, <2>1 DEF Episode
    <2> QED BY <1>4, <2>2 DEF sum, fall, new
<1> QED BY <1>2, <1>3, <1>4

LEMMA RecoverKeeps ==
    ASSUME NEW T, Curve(T), T # {}, NEW s, Recovered(T \ {LastFact(T)}, s)
    PROVE  Recovered(T, Recover(LastFact(T), s))
<1> DEFINE e == LastFact(T)
           R == T \ {e}
           new == Recover(e, s)
           sum == Total(T)
           before == HighBefore(R)
           A == BackAt(R)
<1>1. e \in T /\ Curve(R) /\ Timed(e) /\ sum = Total(R) + e.earned
    BY CurveWithLast
<1>2. /\ s \in Episode
      /\ s.sum = Total(R) /\ s.peak = High(R) /\ s.largest = DeepestFall(R)
      /\ s.trough = FirstDay(R, Troughs(R))
      /\ s.back = FirstDay(R, A)
      /\ s.inLargest <=> DeepestFall(R) # 0 /\ A = {}
      /\ s.inLargest => s.open /\ High(R) = before
      /\ DeepestFall(R) # 0 => before <= High(R)
    BY DEF Recovered
<1>3. /\ High(T) = HighestOf(sum, High(R)) /\ DeepestFall(T) = HighestOf(Fall(T), DeepestFall(R))
      /\ Fall(T) = High(T) - sum
      /\ FirstDay(T, Troughs(T)) =
            IF Fall(T) > DeepestFall(R) THEN e.day ELSE FirstDay(R, Troughs(R))
    BY HighStep, DeepestStep, FallIs, TroughDayStep
<1>4. /\ sum \in Int /\ High(R) \in Nat /\ DeepestFall(R) \in Nat /\ before \in Nat
    <2>1. Curve(UpTo(R, Trough(R)))
        BY <1>1, UpToIsCurve
    <2> QED BY <1>1, <2>1, TotalIsInt, HighIs, DeepestIs DEF HighBefore
<1>5. /\ Fall(T) > DeepestFall(R) =>
            BackAt(T) = {} /\ HighBefore(T) = High(T) /\ DeepestFall(T) # 0
      /\ ~(Fall(T) > DeepestFall(R)) /\ DeepestFall(R) # 0 =>
            /\ HighBefore(T) = before /\ DeepestFall(T) # 0
            /\ BackAt(T) = IF sum >= before THEN A \cup {e} ELSE A
    BY BackStep
<1>6. /\ new \in Episode /\ new.sum = sum
      /\ sum >= s.peak =>
            /\ new.peak = sum /\ new.largest = s.largest /\ new.trough = s.trough
            /\ ~new.inLargest
            /\ new.back = IF s.open /\ s.inLargest /\ s.back = NoDay THEN e.day ELSE s.back
      /\ ~(sum >= s.peak) /\ s.peak - sum > s.largest =>
            /\ new.peak = s.peak /\ new.largest = s.peak - sum /\ new.trough = e.day
            /\ new.inLargest /\ new.open /\ new.back = NoDay
      /\ ~(sum >= s.peak) /\ ~(s.peak - sum > s.largest) =>
            /\ new.peak = s.peak /\ new.largest = s.largest /\ new.trough = s.trough
            /\ (new.inLargest <=> s.inLargest) /\ new.open /\ new.back = s.back
    BY <1>1, <1>2, RecoverIs
<1>7. A \subseteq R /\ (A # {} => FirstFact(A \cup {e}) = FirstFact(A))
    <2>1. A \subseteq R
        BY DEF BackAt
    <2> QED BY <2>1, FirstStays
<1>8. FirstFact({e}) = e
    <2>1. \A g \in {e} : ~Precedes(g, e)
        BY <1>1, FactsAreOrdered
    <2> QED BY <1>1, <2>1, FirstIsFirst
<1>9. sum = Total(T)
    OBVIOUS
<1> HIDE DEF new, sum, before, A, e
<1>10. ASSUME sum >= s.peak
      PROVE  Recovered(T, new)
    <2>1. High(T) = sum /\ Fall(T) = 0 /\ DeepestFall(T) = DeepestFall(R)
        BY <1>2, <1>3, <1>4, <1>10 DEF HighestOf
    <2>2. FirstDay(T, Troughs(T)) = s.trough
        BY <1>2, <1>3, <1>4, <2>1
    <2>3. CASE DeepestFall(R) = 0
        <3>1. FirstDay(T, BackAt(T)) = NoDay /\ s.back = NoDay /\ ~s.inLargest
            BY <1>2, <2>1, <2>3 DEF FirstDay
        <3> QED BY <1>9, <1>2, <1>6, <1>10, <2>1, <2>2, <2>3, <3>1 DEF Recovered
    <2>4. CASE DeepestFall(R) # 0
        <3>1. BackAt(T) = A \cup {e} /\ HighBefore(T) = before
            BY <1>2, <1>4, <1>5, <1>10, <2>1, <2>4
        <3>2. new.back = FirstDay(T, BackAt(T))
            <4>1. CASE A = {}
                <5>1. s.inLargest /\ s.open /\ s.back = NoDay
                    BY <1>2, <2>4, <4>1 DEF FirstDay
                <5>2. BackAt(T) = {e}
                    BY <3>1, <4>1
                <5>3. FirstDay(T, BackAt(T)) = e.day
                    BY <1>8, <2>1, <2>4, <5>2 DEF FirstDay
                <5> QED BY <1>6, <1>10, <5>1, <5>3
            <4>2. CASE A # {}
                <5>1. ~s.inLargest
                    BY <1>2, <4>2
                <5>2. FirstDay(T, BackAt(T)) = FirstDay(R, A)
                    BY <1>7, <2>1, <2>4, <3>1, <4>2 DEF FirstDay
                <5> QED BY <1>2, <1>6, <1>10, <5>1, <5>2
            <4> QED BY <4>1, <4>2
        <3>3. before <= sum
            BY <1>2, <1>4, <1>10, <2>4
        <3> QED BY <1>9, <1>2, <1>6, <1>10, <2>1, <2>2, <3>1, <3>2, <3>3 DEF Recovered
    <2> QED BY <2>3, <2>4
<1>11. ASSUME ~(sum >= s.peak) /\ s.peak - sum > s.largest
      PROVE  Recovered(T, new)
    <2>1. High(T) = s.peak /\ Fall(T) = s.peak - sum /\ DeepestFall(T) = s.peak - sum
        BY <1>2, <1>3, <1>4, <1>11 DEF HighestOf
    <2>2. Fall(T) > DeepestFall(R)
        BY <1>2, <1>11, <2>1
    <2>3. BackAt(T) = {} /\ HighBefore(T) = High(T) /\ DeepestFall(T) # 0
        BY <1>5, <2>2
    <2>4. FirstDay(T, BackAt(T)) = NoDay /\ FirstDay(T, Troughs(T)) = e.day
        BY <1>3, <2>2, <2>3 DEF FirstDay
    <2>5. HighBefore(T) <= High(T)
        BY <1>2, <1>4, <2>1, <2>3
    <2> QED BY <1>9, <1>6, <1>11, <2>1, <2>3, <2>4, <2>5 DEF Recovered
<1>12. ASSUME ~(sum >= s.peak) /\ ~(s.peak - sum > s.largest)
      PROVE  Recovered(T, new)
    <2>1. High(T) = s.peak /\ Fall(T) = s.peak - sum /\ DeepestFall(T) = DeepestFall(R)
        BY <1>2, <1>3, <1>4, <1>12 DEF HighestOf
    <2>2. ~(Fall(T) > DeepestFall(R)) /\ DeepestFall(R) # 0
        BY <1>2, <1>4, <1>12, <2>1
    <2>3. /\ HighBefore(T) = before
          /\ BackAt(T) = IF sum >= before THEN A \cup {e} ELSE A
        BY <1>5, <2>2
    <2>4. FirstDay(T, Troughs(T)) = s.trough
        BY <1>2, <1>3, <2>2
    <2>5. A = {} => BackAt(T) = {}
        BY <1>2, <1>12, <2>2, <2>3
    <2>6. A # {} => BackAt(T) # {}
        BY <2>3
    <2>7. FirstDay(T, BackAt(T)) = FirstDay(R, A)
        BY <1>7, <2>1, <2>3, <2>5, <2>6 DEF FirstDay
    <2> QED BY <1>9, <1>2, <1>6, <1>12, <2>1, <2>3, <2>4, <2>5, <2>6, <2>7 DEF Recovered
<1>13. Recovered(T, new)
    BY <1>10, <1>11, <1>12
<1> QED BY <1>13 DEF new, e

(* The pass of the analysis finds the fall and the day it was made good.   *)
LEMMA RecoveryIsReturn ==
    ASSUME NEW S, Curve(S) PROVE Recovered(S, Recovery(S))
<1> DEFINE Good == {T \in SUBSET S : Recovered(T, Recovery(T))}
<1>1. {} \in Good
    <2>1. NoEpisode \in Episode
        BY DEF NoEpisode, Episode
    <2>2. Recovered({}, NoEpisode)
        BY <2>1, NothingYet DEF Recovered, NoEpisode
    <2> QED BY <2>2, PassOfNothing
<1>2. ASSUME NEW T \in SUBSET S, T # {} PROVE \E x \in T : T \ {x} \in Good => T \in Good
    <2> DEFINE e == LastFact(T)
    <2>1. Curve(T)
        BY PartOfCurve
    <2>2. e \in T /\ Recovery(T) = Recover(e, Recovery(T \ {e}))
        BY <1>2, <2>1, PassStep, LastIsLast
    <2>3. ASSUME T \ {e} \in Good PROVE T \in Good
        BY <1>2, <2>1, <2>2, <2>3, RecoverKeeps
    <2> QED BY <2>2, <2>3
<1> HIDE DEF Good
<1>3. OfLots!IsFiniteSet(S)
    BY SameFiniteSets DEF Curve
<1>4. S \in Good
    BY <1>1, <1>2, <1>3, OfLots!SetInduction
<1> QED BY <1>4 DEF Good

-----------------------------------------------------------------------------
(* The two passes, over the profits of the ledger.                         *)

(* A row as the statistics see it.                                         *)
LEMMA FactIs ==
    ASSUME NEW rows, NEW row, Sound(row), row.pnl = NoPnl \/ row.pnl \in Int,
           IsFiniteSet(PastOf(rows, row)), \A other \in PastOf(rows, row) : Sound(other)
    PROVE  LET f == Fact(rows, row)
           IN  /\ Timed(f) /\ f.id = row.id /\ f.kind = row.kind
               /\ f.hour = 0 \/ f.hour = f.at
               /\ f.counts => f.kind \in {"sell", "dividend"}
               /\ f.kind \in {"sell", "dividend"} /\ ~f.counts =>
                     f.kind = "sell" /\ row.source = "unavailable"
               /\ f.kind = "sell" /\ row.source = "unavailable" /\ row.pnl = NoPnl => f.earned = 0
               /\ f = [f EXCEPT !.hour = f.hour] /\ "hour" \in DOMAIN f
<1> DEFINE S == PastOf(rows, row)
           p == After(S)
           h == p.h
           f == Fact(rows, row)
           matched == MapThenSumSet(LAMBDA n : Taken(p.lots, row.qty, n), DOMAIN p.lots)
           match == IF row.kind = "sell" THEN matched ELSE 0
           missing == IF row.kind = "sell" THEN Max({0, row.qty - p.h.qty}) ELSE 0
           earned == IF row.kind = "dividend" THEN row.price * row.qty ELSE Realized(row, h)
           day == TradeDay(row)
           hour == IF row.bot THEN 0 ELSE row.at
<1>1. h \in Holdable
    BY LotsFit, HoldingType DEF Fits
<1>2. f = [day |-> day, hour |-> hour, at |-> row.at, id |-> row.id, kind |-> row.kind,
           earned |-> earned,
           counts |-> row.kind = "dividend" \/ (row.kind = "sell" /\ row.source # "unavailable"),
           matched |-> match, missing |-> missing]
    BY DEF Fact
<1> HIDE DEF p, h, f, match, missing
<1>3. Computed(row, h) \in Int
    BY <1>1, ComputedIsInt
<1>4. Realized(row, h) \in Int
    BY <1>3 DEF Realized
<1>5. earned \in Int
    BY <1>4 DEF Sound
<1>6. day \in Int /\ hour \in Int /\ (hour = 0 \/ hour = row.at)
    BY DEF TradeDay, SeoulDay, NewYorkDay, Sound
<1>7. row.kind = "sell" /\ row.source = "unavailable" /\ row.pnl = NoPnl => earned = 0
    BY DEF Realized
<1> HIDE DEF earned, day, hour
<1>8. /\ f.day = day /\ f.hour = hour /\ f.at = row.at /\ f.id = row.id /\ f.kind = row.kind
      /\ f.earned = earned
      /\ f.counts <=> row.kind = "dividend" \/ (row.kind = "sell" /\ row.source # "unavailable")
      /\ f = [f EXCEPT !.hour = f.hour] /\ "hour" \in DOMAIN f
    BY <1>2
<1>9. row.at \in Int /\ row.id \in Int
    BY DEF Sound
<1>10. Timed(f)
    BY <1>5, <1>6, <1>8, <1>9 DEF Timed
<1> QED BY <1>6, <1>7, <1>8, <1>10 DEF f

(* The facts of the table: a profit that is not known is nothing.          *)
LEMMA FactsAre ==
    ASSUME LedgerInv, NumbersInv
    PROVE  /\ Curve(Facts(New))
           /\ \A f \in Facts(New) :
                 /\ f.hour = 0 \/ f.hour = f.at
                 /\ "hour" \in DOMAIN f
                 /\ f.counts => f.kind \in {"sell", "dividend"}
                 /\ f.kind \in {"sell", "dividend"} /\ ~f.counts => f.earned = 0
<1> DEFINE rows == New
           N == {j \in Entries(rows) : rows[j].settled}
           F == [i \in N |-> Fact(rows, rows[i])]
<1>1. /\ Entries(rows) = Entries(ledger) /\ IsFiniteSet(Entries(rows))
      /\ \A i \in Entries(rows) :
            /\ Sound(rows[i]) /\ rows[i].id = i
            /\ \A c \in Columns \ Renamed : rows[i][c] = ledger[i][c]
    BY NewRows
<1> HIDE DEF rows
<1>2. N \subseteq Entries(rows) /\ \A i \in N : F[i] = Fact(rows, rows[i])
    OBVIOUS
<1>3. Facts(rows) = {F[i] : i \in N}
    BY DEF Facts
<1> HIDE DEF F
<1>4. ASSUME NEW i \in N
      PROVE  /\ Timed(F[i]) /\ F[i].id = i
             /\ F[i].hour = 0 \/ F[i].hour = F[i].at
             /\ "hour" \in DOMAIN F[i]
             /\ F[i].counts => F[i].kind \in {"sell", "dividend"}
             /\ F[i].kind \in {"sell", "dividend"} /\ ~F[i].counts => F[i].earned = 0
    <2> DEFINE row == rows[i]
               old == ledger[i]
    <2>1. /\ Sound(row) /\ row.id = i /\ row.pnl = old.pnl /\ row.source = old.source
          /\ row.kind = old.kind /\ row.settled = old.settled /\ row.settled
        BY <1>1 DEF Columns, Renamed
    <2>2. i \in Entries(ledger)
        BY <1>1
    <2>3. old.pnl = NoPnl \/ old.pnl \in Int
        BY <2>2 DEF NumbersInv, TypedTable, Numbers
    <2>4. IsFiniteSet(PastOf(rows, row)) /\ \A other \in PastOf(rows, row) : Sound(other)
        BY <1>1, PastSound
    <2>5. /\ old.pnl = Profit(env, ledger, i)[1] /\ old.source = Profit(env, ledger, i)[2]
          /\ Profit(env, ledger, i) = StoredProfit(old, Rebuild(env, ledger, i))
        <3>1. Refresh(env, ledger)[i] = ledger[i] /\ Table(ledger)
            BY DEF LedgerInv, Current
        <3> QED BY <2>2, <3>1, RefreshRow DEF Profit
    <2> HIDE DEF row, old
    <2>6. ASSUME row.kind = "sell", row.source = "unavailable" PROVE row.pnl = NoPnl
        <3>1. PICK amount : Rebuild(env, ledger, i)
                               \in {<<amount, "reconstructed">>, <<NoPnl, "unavailable">>}
            BY RebuildIs
        <3>2. CASE Provided(old)
            <4>1. Profit(env, ledger, i) = <<old.pnl, "recorded">>
                BY <2>5, <3>2 DEF StoredProfit
            <4> QED BY <2>1, <2>5, <2>6, <4>1
        <3>3. CASE ~Provided(old)
            <4>1. Profit(env, ledger, i) = Rebuild(env, ledger, i)
                BY <2>1, <2>5, <2>6, <3>3 DEF StoredProfit
            <4> QED BY <2>1, <2>5, <2>6, <3>1, <4>1
        <3> QED BY <3>2, <3>3
    <2> DEFINE f == Fact(rows, row)
    <2>7. /\ Timed(f) /\ f.id = row.id /\ f.kind = row.kind
          /\ f.hour = 0 \/ f.hour = f.at
          /\ f.counts => f.kind \in {"sell", "dividend"}
          /\ f.kind \in {"sell", "dividend"} /\ ~f.counts =>
                f.kind = "sell" /\ row.source = "unavailable"
          /\ f.kind = "sell" /\ row.source = "unavailable" /\ row.pnl = NoPnl => f.earned = 0
          /\ "hour" \in DOMAIN f
        BY <2>1, <2>3, <2>4, FactIs
    <2>8. F[i] = f
        BY <1>2 DEF row
    <2> HIDE DEF f
    <2> QED BY <2>1, <2>6, <2>7, <2>8
<1>5. IsFiniteSet(Facts(rows))
    <2> HIDE DEF N
    <2>1. IsFiniteSet(N)
        BY <1>1, <1>2, FS_Subset
    <2> QED BY <1>3, <2>1, ImageIsFinite
<1>6. Curve(Facts(rows))
    BY <1>3, <1>4, <1>5 DEF Curve
<1>7. \A f \in Facts(rows) :
         /\ f.hour = 0 \/ f.hour = f.at
         /\ "hour" \in DOMAIN f
         /\ f.counts => f.kind \in {"sell", "dividend"}
         /\ f.kind \in {"sell", "dividend"} /\ ~f.counts => f.earned = 0
    BY <1>3, <1>4
<1> QED BY <1>6, <1>7 DEF rows

-----------------------------------------------------------------------------
(* The same facts without their hours.                                     *)
Undated(f) == [f EXCEPT !.hour = 0]
UndatedAll(S) == {Undated(f) : f \in S}

LEMMA UndatedIs ==
    ASSUME NEW f, "hour" \in DOMAIN f
    PROVE  LET g == Undated(f)
           IN  /\ g.hour = 0 /\ g.day = f.day /\ g.at = f.at /\ g.id = f.id
               /\ g.earned = f.earned
BY DEF Undated

LEMMA UndatedCurve ==
    ASSUME NEW S, Curve(S), \A f \in S : "hour" \in DOMAIN f
    PROVE  Curve(UndatedAll(S))
<1> DEFINE Z == [f \in S |-> Undated(f)]
           U == UndatedAll(S)
<1>1. U = {Z[f] : f \in S} /\ \A f \in S : Z[f] = Undated(f)
    BY DEF UndatedAll
<1> HIDE DEF Z
<1>2. IsFiniteSet(U)
    BY <1>1, ImageIsFinite DEF Curve
<1>3. \A f \in S : Timed(Undated(f)) /\ Undated(f).id = f.id
    BY UndatedIs DEF Curve, Timed
<1>4. \A f, g \in S : Undated(f).id = Undated(g).id => Undated(f) = Undated(g)
    BY <1>3 DEF Curve
<1> QED BY <1>2, <1>3, <1>4 DEF Curve, UndatedAll

(* The last of them is the same one, if no day mixes facts with and        *)
(* without an hour.                                                        *)
LEMMA LastWithoutHours ==
    ASSUME NEW S, Curve(S), OneKindADay(S), S # {},
           \A f \in S : (f.hour = 0 \/ f.hour = f.at) /\ "hour" \in DOMAIN f
    PROVE  LET e == LastFact(S)
           IN  /\ LastFact(UndatedAll(S)) = Undated(e)
               /\ UndatedAll(S) \ {Undated(e)} = UndatedAll(S \ {e})
               /\ UndatedAll(S) # {}
<1> DEFINE e == LastFact(S)
           U == UndatedAll(S)
           z == Undated(e)
<1>1. e \in S /\ \A f \in S : ~Precedes(e, f)
    BY LastIsLast
<1>2. z \in U /\ U # {} /\ Curve(U)
    BY <1>1, UndatedCurve DEF UndatedAll
<1>3. \A f \in S : Timed(f)
    BY DEF Curve
<1>4. \A f, g \in S : f.id = g.id => f = g
    BY DEF Curve
<1>5. ASSUME NEW f \in S PROVE ~Precedes(z, Undated(f))
    <2> DEFINE g == Undated(f)
    <2>1. /\ g.hour = 0 /\ g.day = f.day /\ g.at = f.at /\ g.id = f.id
          /\ z.hour = 0 /\ z.day = e.day /\ z.at = e.at /\ z.id = e.id
        BY <1>1, UndatedIs
    <2>2. Timed(e) /\ Timed(f) /\ ~Precedes(e, f)
        BY <1>1, <1>3
    <2>3. e.day = f.day => (e.hour = 0 <=> f.hour = 0)
        BY <1>1 DEF OneKindADay
    <2>4. (e.hour = 0 \/ e.hour = e.at) /\ (f.hour = 0 \/ f.hour = f.at)
        BY <1>1
    <2> HIDE DEF z, g, e
    <2>5. ~Precedes(z, g)
        BY <2>1, <2>2, <2>3, <2>4 DEF Precedes, Earlier, Timed
    <2> QED BY <2>5 DEF g
<1>6. \A g \in U : ~Precedes(z, g)
    BY <1>5 DEF UndatedAll
<1>7. LastFact(U) = z
    <2>1. LastFact(U) \in U /\ ~Precedes(LastFact(U), z)
        BY <1>2, LastIsLast
    <2>2. ~Precedes(z, LastFact(U))
        BY <1>6, <2>1
    <2> HIDE DEF U, z
    <2> QED BY <1>2, <2>1, <2>2, FactsAreOrdered
<1>8. ASSUME NEW f \in S, f # e PROVE Undated(f) # z
    <2>1. Undated(f).id = f.id /\ z.id = e.id
        BY <1>1, UndatedIs
    <2> QED BY <1>1, <1>4, <1>8, <2>1
<1>9. U \ {z} = UndatedAll(S \ {e})
    BY <1>8 DEF UndatedAll
<1> QED BY <1>2, <1>7, <1>9

(* What the curves of both screens have in common.                         *)
SameFall(s, t) == s.sum = t.sum /\ s.peak = t.peak /\ s.max = t.max /\ s.to = t.to

LEMMA DeepenSame ==
    ASSUME NEW s, NEW t, SameFall(s, t), NEW e, NEW f, e.earned = f.earned, e.day = f.day
    PROVE  SameFall(Deepen(e, s), Deepen(f, t))
BY DEF SameFall, Deepen

(* What earns nothing changes nothing.                                     *)
LEMMA DeepenNothing ==
    ASSUME NEW R, Curve(R), NEW s, Fallen(R, s), NEW e, e.earned = 0
    PROVE  SameFall(Deepen(e, s), s)
<1>1. s.sum \in Int /\ s.peak \in Nat /\ s.max \in Nat /\ s.peak - s.sum \in Nat
    BY TotalIsInt, HighIs, DeepestIs, FallIs DEF Fallen
<1>2. s.peak - s.sum <= s.max
    <2>1. CASE R = {}
        BY <2>1, NothingYet DEF Fallen
    <2>2. CASE R # {}
        <3>1. DeepestFall(R) = HighestOf(Fall(R), DeepestFall(R \ {LastFact(R)}))
            BY <2>2, DeepestStep
        <3>2. Curve(R \ {LastFact(R)})
            BY PartOfCurve
        <3>3. DeepestFall(R \ {LastFact(R)}) \in Nat /\ Fall(R) = s.peak - s.sum
            BY <3>2, DeepestIs, FallIs DEF Fallen
        <3> QED BY <1>1, <3>1, <3>3 DEF HighestOf, Fallen
    <2> QED BY <2>1, <2>2
<1>3. s.sum + e.earned = s.sum /\ ~(s.sum > s.peak) /\ ~(s.peak - s.sum > s.max)
    BY <1>1, <1>2
<1> QED BY <1>3 DEF Deepen, SameFall

(* Profits that are not known change nothing, nor do hours left out.       *)
LEMMA PassesAgree ==
    ASSUME NEW S, Curve(S), OneKindADay(S),
           \A f \in S :
              /\ f.hour = 0 \/ f.hour = f.at
              /\ "hour" \in DOMAIN f
              /\ ~f.counts => f.earned = 0
    PROVE  SameFall(Drawdown({f \in S : f.counts}), Drawdown(UndatedAll(S)))
<1> DEFINE Known(T) == {f \in T : f.counts}
           Good == {T \in SUBSET S : SameFall(Drawdown(Known(T)), Drawdown(UndatedAll(T)))}
<1>1. {} \in Good
    <2>1. Known({}) = {} /\ UndatedAll({}) = {}
        BY DEF UndatedAll
    <2> QED BY <2>1 DEF SameFall
<1>2. ASSUME NEW T \in SUBSET S, T # {} PROVE \E x \in T : T \ {x} \in Good => T \in Good
    <2> DEFINE e == LastFact(T)
               R == T \ {e}
               z == Undated(e)
    <2>1. Curve(T) /\ OneKindADay(T)
        BY PartOfCurve DEF OneKindADay
    <2>2. e \in T /\ \A f \in T : ~Precedes(e, f)
        BY <1>2, <2>1, LastIsLast
    <2>3. LastFact(UndatedAll(T)) = z /\ UndatedAll(T) \ {z} = UndatedAll(R) /\ UndatedAll(T) # {}
        BY <1>2, <2>1, LastWithoutHours
    <2>4. Curve(UndatedAll(T)) /\ Curve(UndatedAll(R)) /\ Curve(Known(T)) /\ Curve(Known(R))
        <3>1. Curve(R)
            BY <2>1, PartOfCurve
        <3>2. Curve(Known(T)) /\ Curve(Known(R))
            BY <2>1, <3>1, PartOfCurve
        <3> QED BY <2>1, <3>1, <3>2, UndatedCurve
    <2>5. z.earned = e.earned /\ z.day = e.day
        BY <2>2, UndatedIs
    <2> DEFINE all == Drawdown(UndatedAll(R))
               known == Drawdown(Known(R))
    <2>6. Drawdown(UndatedAll(T)) = Deepen(z, all)
        BY <2>3, <2>4, PassStep
    <2>7. ASSUME R \in Good PROVE T \in Good
        <3>1. SameFall(known, all)
            BY <2>7
        <3>2. CASE e.counts
            <4>1. e \in Known(T) /\ \A f \in Known(T) : ~Precedes(e, f)
                BY <2>2, <3>2
            <4>2. LastFact(Known(T)) \in Known(T) /\ ~Precedes(LastFact(Known(T)), e)
                BY <2>4, <4>1, LastIsLast
            <4>3. LastFact(Known(T)) = e
                BY <2>4, <4>1, <4>2, FactsAreOrdered
            <4>4. Known(T) \ {e} = Known(R)
                OBVIOUS
            <4>5. Drawdown(Known(T)) = Deepen(e, known)
                BY <2>4, <4>1, <4>3, <4>4, PassStep
            <4>6. SameFall(Drawdown(Known(T)), Drawdown(UndatedAll(T)))
                BY <2>5, <2>6, <3>1, <4>5, DeepenSame
            <4> QED BY <4>6
        <3>3. CASE ~e.counts
            <4>1. Known(T) = Known(R) /\ z.earned = 0
                BY <2>2, <2>5, <3>3
            <4>2. Fallen(UndatedAll(R), all)
                BY <2>4, DrawdownIsFall
            <4>3. SameFall(Deepen(z, all), all)
                BY <2>4, <4>1, <4>2, DeepenNothing
            <4>4. SameFall(Drawdown(Known(T)), Drawdown(UndatedAll(T)))
                BY <2>6, <3>1, <4>1, <4>3 DEF SameFall
            <4> QED BY <4>4
        <3> QED BY <3>2, <3>3
    <2> QED BY <2>2, <2>7
<1> HIDE DEF Good
<1>3. OfLots!IsFiniteSet(S)
    BY SameFiniteSets DEF Curve
<1>4. S \in Good
    BY <1>1, <1>2, <1>3, OfLots!SetInduction
<1> QED BY <1>4 DEF Good

(* maxDrawdown of compute_trade_stats and recovery of analysis.py, each in *)
(* one pass that remembers a few numbers, find the deepest fall of the     *)
(* curve, its day and the day it was made good, as defined over all events *)
(* of the curve; and where forms and bots share no day both show the same. *)
THEOREM RecoveriesAreReal == Spec => []RecoveryIsReal
<1>1. ASSUME LedgerInv, NumbersInv PROVE RecoveryIsReal
    <2> DEFINE facts == Facts(New)
               known == Events(New)
               some == {g \in facts : g.kind \in {"sell", "dividend"}}
               all == Returns(New)
    <2>1. /\ Curve(facts)
          /\ \A f \in facts :
                /\ f.hour = 0 \/ f.hour = f.at
                /\ "hour" \in DOMAIN f
                /\ f.counts => f.kind \in {"sell", "dividend"}
                /\ f.kind \in {"sell", "dividend"} /\ ~f.counts => f.earned = 0
        BY <1>1, FactsAre
    <2>2. Curve(some) /\ Curve(known)
        BY <2>1, PartOfCurve DEF Events
    <2>3. all = UndatedAll(some)
        BY DEF Returns, UndatedAll, Undated
    <2>4. Curve(all)
        BY <2>1, <2>2, <2>3, UndatedCurve
    <2>5. known = {f \in some : f.counts}
        BY <2>1 DEF Events
    <2>6. Fallen(known, Drawdown(known)) /\ Fallen(all, Drawdown(all))
        BY <2>2, <2>4, DrawdownIsFall
    <2>7. Recovered(all, Recovery(all))
        BY <2>4, RecoveryIsReturn
    <2>8. ASSUME OneKindADay(facts)
          PROVE  SameFall(Drawdown(known), Drawdown(all))
        <3>1. OneKindADay(some)
            BY <2>8 DEF OneKindADay
        <3>2. \A f \in some :
                 /\ f.hour = 0 \/ f.hour = f.at
                 /\ "hour" \in DOMAIN f
                 /\ ~f.counts => f.earned = 0
            BY <2>1
        <3> HIDE DEF some, all, known
        <3> QED BY <2>2, <2>3, <2>5, <3>1, <3>2, PassesAgree
    <2> HIDE DEF some
    <2> QED BY <2>6, <2>7, <2>8 DEF RecoveryIsReal, Fallen, Recovered, SameFall
<1> QED BY <1>1, LedgerInvariant, TradesAreNumbers, PTL
=============================================================================
