------------------------------ MODULE EntryStore ------------------------------
(***************************************************************************)
(* One account's journal entries as the server keeps them, and the         *)
(* transactions that change them (app/services/entries.py).                *)
(*                                                                         *)
(* Every write runs under the account's lock and inside BEGIN IMMEDIATE,   *)
(* so one transaction is one action.  What makes the component hard is not *)
(* inside a transaction but between transactions: a browser reads a row,   *)
(* somebody else changes, deletes or restores it, and the browser then     *)
(* writes; or a browser never hears the answer and sends the write again.  *)
(* Two mechanisms answer that:                                             *)
(*                                                                         *)
(*   - revision: the audit triggers stamp every changed row with a number  *)
(*     taken from entry_changes, and a web write may carry the revision it *)
(*     was prepared from (database/audit.py, StaleEntry);                  *)
(*   - write receipts: a write may carry an idempotency key whose result   *)
(*     is stored by the same transaction (services/write_receipts.py).     *)
(*                                                                         *)
(* A row's content is abstracted to `text' (the columns the web form       *)
(* writes), `derived' (what the server computes: needsReview, its reason   *)
(* and the stored realized profit) and `bot' (is_bot_entry).               *)
(***************************************************************************)
EXTENDS Integers, FiniteSets

CONSTANTS
    Ids,        \* entry ids, a finite set of positive integers
    Texts,      \* values of the columns the web form writes
    Derived,    \* values of the columns the server computes
    Keys,       \* idempotency keys
    NoKey,      \* the request has no Idempotency-Key header
    NoRow,      \* no row with this id
    NoReceipt,  \* no receipt with this key
    Legacy,     \* rows that may predate the audit triggers
    MaxSeq      \* bound on the number of change rows, for model checking

NoRev == 0      \* the request has no revision; no stored row has revision 0

Row == [text : Texts, derived : Derived, bot : BOOLEAN, rev : Nat \ {0}]

(* operation and payload: what identify() hashes and compares.             *)
Content == [op : {"create", "update"}, id : Ids, rev : Nat, text : Texts]
Request == [key : Keys \cup {NoKey}, body : Content]
Result  == [id : Ids, rev : Nat]
Receipt == [body : Content, result : Result]

(* Why a request changes nothing: RequestConflict, EntryNotFound,          *)
(* StaleEntry, InvalidEntry, OversellConflict.                             *)
Refusals == {"conflict", "missing", "stale", "invalid", "confirm"}

ASSUME IdsAssumption == Ids \subseteq Nat \ {0} /\ IsFiniteSet(Ids)
ASSUME NullsAssumption ==
    /\ NoRow \notin Row
    /\ NoKey \notin Keys
    /\ NoReceipt \notin Receipt

(* Rows that predate the audit triggers have the default revision 1 and no *)
(* change row (schema.py adds the column with DEFAULT 1).                  *)
ASSUME LegacyAssumption ==
    Legacy \subseteq [text : Texts, derived : Derived, bot : BOOLEAN, rev : {1}]

VARIABLES
    entries,    \* the entries table of the account
    seq,        \* greatest id ever given to an entry_changes row (AUTOINCREMENT)
    receipts,   \* the entry_requests table of the account
    seen,       \* history: every version of a row that was ever committed
    applied,    \* history: how many times a key's write was executed
    answers     \* history: every success answered to a key

vars == <<entries, seq, receipts, seen, applied, answers>>

Live(table) == {i \in Ids : table[i] # NoRow}
Versions(table) == {[id |-> i, row |-> table[i]] : i \in Live(table)}

Max2(a, b) == IF a >= b THEN a ELSE b

(* Mutant: the number of the change row alone.                             *)
RestampByLog(row, n) == n

(* The update trigger: MAX(OLD.revision+1, last_insert_rowid()), where n is *)
(* the change row the trigger has just inserted.                           *)
Restamp(row, n) == Max2(row.rev + 1, n)

(* The change rows of several written rows are consecutive, in some order. *)
Numbering(S, n) ==
    {f \in [S -> (n + 1)..(n + Cardinality(S))] :
        \A i, j \in S : f[i] = f[j] => i = j}

(* realized_pnl.refresh, the needsReview flags and the account identities: *)
(* at the end of a transaction some rows get other derived columns, each   *)
(* with its own change row.  Several writes of one row in one transaction  *)
(* count as one: only the committed revision can be read.                  *)
(* `logged' counts further change rows at the end of the transaction.      *)
Recompute(table, n, logged) ==
    \E moved \in SUBSET Live(table) :
        \E val \in [moved -> Derived], num \in Numbering(moved, n) :
            /\ \A i \in moved : val[i] # table[i].derived
            /\ n + Cardinality(moved) + logged <= MaxSeq
            /\ seq' = n + Cardinality(moved) + logged
            /\ entries' = [i \in Ids |->
                  IF i \in moved
                    THEN [table[i] EXCEPT !.derived = val[i],
                                          !.rev = Restamp(table[i], num[i])]
                    ELSE table[i]]

(* Every committed table is one a reader can have fetched.                 *)
Publish == seen' = seen \cup Versions(entries')

-----------------------------------------------------------------------------
(* Web requests.                                                           *)

(* Mutant: keys are not looked up.                                         *)
AlwaysFresh(m) == TRUE

(* identify(): a key that is already receipted is answered before anything *)
(* else is looked at, from the receipt or with RequestConflict.            *)
Fresh(m) == m.key # NoKey => receipts[m.key] = NoReceipt

(* Mutant: a retry is answered with the revision the row has now.          *)
ReplayCurrent(m) ==
    /\ ~Fresh(m)
    /\ receipts[m.key].body = m.body
    /\ entries[receipts[m.key].result.id] # NoRow
    /\ answers' = [answers EXCEPT ![m.key] = @ \cup
          {[receipts[m.key] EXCEPT !.result.rev = entries[receipts[m.key].result.id].rev]}]
    /\ UNCHANGED <<entries, seq, receipts, seen, applied>>

Replay(m) ==
    /\ ~Fresh(m)
    /\ receipts[m.key].body = m.body
    /\ answers' = [answers EXCEPT ![m.key] = @ \cup {receipts[m.key]}]
    /\ UNCHANGED <<entries, seq, receipts, seen, applied>>

(* remember() and commit: the result holds the revision the row has at the *)
(* end of the transaction.                                                 *)
Commit(m, i) ==
    LET receipt == [body |-> m.body, result |-> [id |-> i, rev |-> entries'[i].rev]]
    IN  /\ IF m.key = NoKey
             THEN UNCHANGED <<receipts, applied, answers>>
             ELSE /\ receipts' = [receipts EXCEPT ![m.key] = receipt]
                  /\ applied' = [applied EXCEPT ![m.key] = @ + 1]
                  /\ answers' = [answers EXCEPT ![m.key] = @ \cup {receipt}]
        /\ Publish

(* _assign_entry_id: the id the browser proposes if it is free, else one   *)
(* above every id in use.  An id that is free here may be another          *)
(* account's: entries.id is one primary key for all users.                 *)
Above(table) == {i \in Ids \ Live(table) : \A j \in Live(table) : j < i}
Assignable(i) ==
    IF entries[i] = NoRow THEN {i} \cup Above(entries) ELSE Above(entries)

Create(m) ==
    /\ m.body.op = "create"
    /\ Fresh(m)
    /\ \E i \in Assignable(m.body.id), d \in Derived :
          /\ Recompute([entries EXCEPT ![i] = [text |-> m.body.text, derived |-> d,
                                               bot |-> FALSE, rev |-> seq + 1]],
                       seq + 1, 0)
          /\ Commit(m, i)

Stale(rev, i) == rev # NoRev /\ rev # entries[i].rev

(* Mutant: the write does not touch the revision.                          *)
WriteTextInPlace(i, t) == Recompute([entries EXCEPT ![i] = [@ EXCEPT !.text = t]], seq, 0)

(* The row the form writes; a write that changes no audited column leaves  *)
(* the revision alone.                                                     *)
WriteText(i, t) ==
    IF entries[i].text = t
      THEN Recompute(entries, seq, 0)
      ELSE Recompute([entries EXCEPT ![i] = [@ EXCEPT !.text = t,
                                             !.rev = Restamp(entries[i], seq + 1)]],
                     seq + 1, 0)

Update(m) ==
    /\ m.body.op = "update"
    /\ Fresh(m)
    /\ entries[m.body.id] # NoRow
    /\ ~Stale(m.body.rev, m.body.id)
    /\ WriteText(m.body.id, m.body.text)
    /\ Commit(m, m.body.id)

(* What a request can be refused with.  InvalidEntry and OversellConflict  *)
(* depend on the positions, which are the subject of SellIntegrity.  A new *)
(* entry's form is checked before its key is looked up; the form of a      *)
(* stored receipt has passed that check.                                   *)
Refused(m, why) ==
    \/ ~Fresh(m) /\ receipts[m.key].body # m.body /\ why = "conflict"
    \/ /\ m.body.op = "create" /\ why = "invalid"
       /\ ~Fresh(m) => receipts[m.key].body # m.body
    \/ /\ Fresh(m) /\ m.body.op = "update"
       /\ \/ entries[m.body.id] = NoRow /\ why = "missing"
          \/ /\ entries[m.body.id] # NoRow
             /\ IF Stale(m.body.rev, m.body.id)
                  THEN why = "stale"
                  ELSE why \in {"invalid", "confirm"}

Save(m) == Replay(m) \/ Create(m) \/ Update(m)

Refuse(m) == (\E why \in Refusals : Refused(m, why)) /\ UNCHANGED vars

-----------------------------------------------------------------------------
(* Deletion, and the writers that carry neither key nor revision.          *)

Quiet == UNCHANGED <<receipts, applied, answers>>

Erase(i) == /\ Recompute([entries EXCEPT ![i] = NoRow], seq + 1, 0)
            /\ Publish
            /\ Quiet

(* entries.delete: a row that is already gone is a success; StaleEntry and *)
(* OversellConflict leave everything as it was.                            *)
Delete(i, rev) ==
    IF entries[i] # NoRow /\ ~Stale(rev, i)
      THEN Erase(i)
      ELSE UNCHANGED vars

(* _insert_trade: SQLite gives a bot's row the id above the greatest one,  *)
(* which a deleted row may have had.                                       *)
BotInsert ==
    /\ \E i \in Above(entries), t \in Texts, d \in Derived :
          Recompute([entries EXCEPT ![i] = [text |-> t, derived |-> d,
                                            bot |-> TRUE, rev |-> seq + 1]],
                    seq + 1, 0)
    /\ Publish
    /\ Quiet

BotPatch(i, t) ==
    /\ entries[i] # NoRow
    /\ entries[i].bot
    /\ WriteText(i, t)
    /\ Publish
    /\ Quiet

BotDelete(i) ==
    /\ entries[i] # NoRow
    /\ entries[i].bot
    /\ Erase(i)

(* resolve_review clears derived columns of one row.                       *)
ResolveReview(i) ==
    /\ entries[i] # NoRow
    /\ \E d \in Derived :
          /\ d # entries[i].derived
          /\ seq + 1 <= MaxSeq
          /\ seq' = seq + 1
          /\ entries' = [entries EXCEPT ![i] = [@ EXCEPT !.derived = d,
                                                !.rev = Restamp(entries[i], seq + 1)]]
    /\ Publish
    /\ Quiet

(* restore_user_backup: delete every row, insert the archive's rows under  *)
(* their own ids, refresh them, and log the restore as a change of its own *)
(* (an archive id that another account uses is replaced; not modelled).    *)
(* The receipts stay.                                                      *)
Restore(kept) ==
    LET after == seq + Cardinality(Live(entries)) IN
    /\ \E t \in [kept -> Texts], d \in [kept -> Derived], b \in [kept -> BOOLEAN],
          num \in Numbering(kept, after) :
          Recompute([i \in Ids |-> IF i \in kept
                                     THEN [text |-> t[i], derived |-> d[i],
                                           bot |-> b[i], rev |-> num[i]]
                                     ELSE NoRow],
                    after + Cardinality(kept), 1)
    /\ Publish
    /\ Quiet

-----------------------------------------------------------------------------
Init ==
    /\ entries \in [Ids -> {NoRow} \cup Legacy]
    /\ seq = 0
    /\ receipts = [k \in Keys |-> NoReceipt]
    /\ seen = Versions(entries)
    /\ applied = [k \in Keys |-> 0]
    /\ answers = [k \in Keys |-> {}]

(* Every other way to change the table than a keyed web request.           *)
OtherWriter ==
    \/ \E i \in Ids, rev \in {NoRev} \cup {v.row.rev : v \in seen} : Delete(i, rev)
    \/ BotInsert
    \/ \E i \in Ids, t \in Texts : BotPatch(i, t)
    \/ \E i \in Ids : BotDelete(i)
    \/ \E i \in Ids : ResolveReview(i)
    \/ \E kept \in SUBSET Ids : Restore(kept)

(* An update carries no revision (an older client) or one its sender has   *)
(* read; the form sends none with a new entry.                             *)
FormRequest ==
    {[key |-> k, body |-> [op |-> "create", id |-> i, rev |-> NoRev, text |-> t]] :
        k \in Keys \cup {NoKey}, i \in Ids, t \in Texts}
    \cup
    {[key |-> k, body |-> [op |-> "update", id |-> i, rev |-> r, text |-> t]] :
        k \in Keys \cup {NoKey}, i \in Ids, t \in Texts,
        r \in {NoRev} \cup {v.row.rev : v \in seen}}

Next ==
    \/ \E m \in FormRequest : Save(m) \/ Refuse(m)
    \/ OtherWriter

Spec == Init /\ [][Next]_vars

-----------------------------------------------------------------------------
(* Every table, receipt and answer has its shape.                          *)
TypeOK ==
    /\ entries \in [Ids -> Row \cup {NoRow}]
    /\ seq \in Nat
    /\ receipts \in [Keys -> Receipt \cup {NoReceipt}]
    /\ seen \subseteq [id : Ids, row : Row]
    /\ applied \in [Keys -> Nat]
    /\ answers \in [Keys -> SUBSET Receipt]

(* An id and a revision name one content for ever, also across deletion,   *)
(* re-creation under the same id and restore.  This is what lets the       *)
(* revision check of entries.update and entries.delete stand for "nothing  *)
(* changed since you read it": no A-B-A is possible.                       *)
RevisionNamesOneContent ==
    \A v, w \in seen : v.id = w.id /\ v.row.rev = w.row.rev => v.row = w.row

(* However often a keyed write is sent, it is executed at most once, and   *)
(* exactly when its receipt exists (entries.create/update commit both in   *)
(* one transaction).                                                       *)
ExecutedAtMostOnce ==
    \A k \in Keys : applied[k] = IF receipts[k] = NoReceipt THEN 0 ELSE 1

(* Every success a key is ever answered is the same: same request, same    *)
(* entry id, same revision, whatever happened to the entry in between.     *)
RetriesAgree ==
    \A k \in Keys : \A a, b \in answers[k] : a = b

(* A row that stays in the table never goes back to an earlier revision,   *)
(* and any change of its content is visible in the revision: a client that *)
(* compares revisions misses no change (etag-like use by the editor).      *)
ChangeMovesRevision ==
    [][\A i \in Ids :
          (entries[i] # NoRow /\ entries'[i] # NoRow /\ entries'[i] # entries[i])
             => entries'[i].rev > entries[i].rev]_vars
=============================================================================
