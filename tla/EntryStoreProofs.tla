--------------------------- MODULE EntryStoreProofs ---------------------------
(***************************************************************************)
(* Proofs about EntryStore and its editor, for every set of entries, texts *)
(* and keys.                                                               *)
(*                                                                         *)
(* RevisionNamesOneContent is not inductive: it speaks of versions that    *)
(* may long be gone.  The invariant adds that nothing ever committed has a *)
(* revision above what its row has now, or above the change counter if the *)
(* row is gone, and that no live row is more than one ahead of the         *)
(* counter (the default revision 1 before the first change row).           *)
(*                                                                         *)
(* The editor's part (from Committed on) rests on two facts.  Every write  *)
(* the browser or the network carries was made from a committed version,   *)
(* so that revision and content agree (NoLostUpdate).  And the creations   *)
(* of an intent that are carried anywhere have one key, receipted as soon  *)
(* as a record was made (DuplicatesOnlyAfterRefusal): a form or a draft    *)
(* without the write of its intent is of one for which nothing was sent.   *)
(***************************************************************************)
EXTENDS EditorSession, FiniteSetTheorems, TLAPS

Table == [Ids -> Row \cup {NoRow}]

StoreType ==
    /\ entries \in Table
    /\ seq \in Nat
    /\ seen \subseteq [id : Ids, row : Row]

KeyType ==
    /\ receipts \in [Keys -> Receipt \cup {NoReceipt}]
    /\ applied \in [Keys -> Nat]
    /\ answers \in [Keys -> SUBSET Receipt]

(* A live row is at most one ahead of the counter.                         *)
NearCounter == \A i \in Ids : entries[i] # NoRow => entries[i].rev <= seq + 1

(* Committed versions are not ahead of their row, or of the counter.       *)
SeenBehind ==
    \A v \in seen :
        IF entries[v.id] = NoRow THEN v.row.rev <= seq
                                 ELSE v.row.rev <= entries[v.id].rev

StoreInv ==
    /\ StoreType
    /\ NearCounter
    /\ SeenBehind
    /\ Versions(entries) \subseteq seen
    /\ RevisionNamesOneContent

KeyInv ==
    /\ KeyType
    /\ ExecutedAtMostOnce
    /\ \A k \in Keys : \A ans \in answers[k] : ans = receipts[k]

(* What every transaction does to a row: nothing, remove it, or give it a  *)
(* revision no version of it has had.                                      *)
RowStep(i) ==
    \/ entries'[i] = entries[i]
    \/ entries'[i] = NoRow /\ entries[i] # NoRow /\ entries[i].rev <= seq'
    \/ /\ entries'[i] # NoRow
       /\ entries'[i].rev <= seq' + 1
       /\ IF entries[i] = NoRow THEN entries'[i].rev > seq
                                ELSE entries'[i].rev > entries[i].rev

TableStep ==
    /\ entries' \in Table
    /\ seq' \in Nat
    /\ seq' >= seq
    /\ \A i \in Ids : RowStep(i)

-----------------------------------------------------------------------------
(* The recomputation at the end of a transaction keeps every row it does   *)
(* not move and gives a greater revision to every row it moves.            *)
LEMMA RecomputeMoves ==
    ASSUME NEW table \in Table, NEW n \in Nat, NEW logged \in Nat,
           \A i \in Ids : table[i] # NoRow => table[i].rev <= n + 1,
           Recompute(table, n, logged)
    PROVE  /\ entries' \in Table
           /\ seq' \in Nat
           /\ seq' >= n + logged
           /\ \A i \in Ids :
                 \/ entries'[i] = table[i]
                 \/ /\ table[i] # NoRow /\ entries'[i] # NoRow
                    /\ entries'[i].rev > table[i].rev
                    /\ entries'[i].rev <= seq' + 1
<1>1. PICK moved \in SUBSET Live(table) :
        \E val \in [moved -> Derived], num \in Numbering(moved, n) :
            /\ seq' = n + Cardinality(moved) + logged
            /\ entries' = [i \in Ids |->
                  IF i \in moved
                    THEN [table[i] EXCEPT !.derived = val[i],
                                          !.rev = Restamp(table[i], num[i])]
                    ELSE table[i]]
    BY DEF Recompute
<1>2. PICK val \in [moved -> Derived], num \in Numbering(moved, n) :
            /\ seq' = n + Cardinality(moved) + logged
            /\ entries' = [i \in Ids |->
                  IF i \in moved
                    THEN [table[i] EXCEPT !.derived = val[i],
                                          !.rev = Restamp(table[i], num[i])]
                    ELSE table[i]]
    BY <1>1
<1>3. moved \subseteq Ids /\ IsFiniteSet(moved) /\ Cardinality(moved) \in Nat
    <2>1. moved \subseteq Ids
        BY DEF Live
    <2>2. IsFiniteSet(moved)
        BY <2>1, IdsAssumption, FS_Subset
    <2> QED BY <2>1, <2>2, FS_CardinalityType
<1> DEFINE card == Cardinality(moved)
<1>a. seq' = n + card + logged
    BY <1>2
<1>b. card \in Nat
    BY <1>3
<1>4. seq' \in Nat /\ seq' >= n + logged
    <2> HIDE DEF card
    <2> QED BY <1>a, <1>b
<1>5. ASSUME NEW i \in moved
      PROVE  /\ table[i] \in Row
             /\ entries'[i] \in Row
             /\ entries'[i].rev > table[i].rev
             /\ entries'[i].rev <= seq' + 1
    <2>1. i \in Ids /\ table[i] # NoRow
        BY <1>3 DEF Live
    <2>2. table[i] \in Row /\ table[i].rev \in Nat \ {0} /\ table[i].rev <= n + 1
        BY <2>1 DEF Table, Row
    <2>3. num[i] \in Nat /\ num[i] >= n + 1 /\ num[i] <= n + card
        BY <1>b DEF Numbering
    <2>4. Restamp(table[i], num[i]) \in Nat \ {0}
          /\ Restamp(table[i], num[i]) > table[i].rev
          /\ Restamp(table[i], num[i]) <= seq' + 1
        <3> DEFINE old == table[i].rev
                   new == num[i]
        <3>1. Restamp(table[i], num[i]) = IF old + 1 >= new THEN old + 1 ELSE new
            BY DEF Restamp, Max2
        <3>2. old \in Nat \ {0} /\ old <= n + 1
            BY <2>2
        <3>3. new \in Nat /\ new >= n + 1 /\ new <= n + card
            BY <2>3
        <3> HIDE DEF old, new, card
        <3>4. (IF old + 1 >= new THEN old + 1 ELSE new) \in Nat \ {0}
              /\ (IF old + 1 >= new THEN old + 1 ELSE new) > old
              /\ (IF old + 1 >= new THEN old + 1 ELSE new) <= seq' + 1
            BY <3>2, <3>3, <1>a, <1>b
        <3> QED BY <3>1, <3>4 DEF old
    <2>5. entries'[i] = [table[i] EXCEPT !.derived = val[i],
                                         !.rev = Restamp(table[i], num[i])]
        BY <2>1, <1>2
    <2>6. val[i] \in Derived
        OBVIOUS
    <2> QED BY <2>2, <2>4, <2>5, <2>6 DEF Row
<1>6. \A i \in Ids \ moved : entries'[i] = table[i]
    BY <1>2
<1>7. entries' \in Table
    <2>1. \A i \in Ids : entries'[i] \in Row \cup {NoRow}
        BY <1>5, <1>6 DEF Table
    <2>2. entries' = [i \in Ids |-> entries'[i]]
        BY <1>2
    <2> QED BY <2>1, <2>2 DEF Table
<1>8. ASSUME NEW i \in Ids
      PROVE  \/ entries'[i] = table[i]
             \/ /\ table[i] # NoRow /\ entries'[i] # NoRow
                /\ entries'[i].rev > table[i].rev
                /\ entries'[i].rev <= seq' + 1
    BY <1>5, <1>6, NullsAssumption
<1> QED BY <1>4, <1>7, <1>8

(* A transaction that writes or removes one row and then recomputes.       *)
LEMMA PutRow ==
    ASSUME StoreType, NearCounter,
           NEW i \in Ids, NEW row \in Row \cup {NoRow},
           row = NoRow => entries[i] # NoRow,
           row # NoRow => row.rev <= seq + 2,
           row # NoRow => IF entries[i] = NoRow THEN row.rev > seq
                                               ELSE row.rev > entries[i].rev,
           Recompute([entries EXCEPT ![i] = row], seq + 1, 0)
    PROVE  TableStep /\ (row # NoRow => entries'[i] # NoRow)
<1> DEFINE table == [entries EXCEPT ![i] = row]
<1>1. entries \in Table /\ seq \in Nat
    BY DEF StoreType
<1>2. table \in Table
    BY <1>1 DEF Table
<1>3. table[i] = row /\ \A j \in Ids \ {i} : table[j] = entries[j]
    BY <1>1 DEF Table
<1>4. \A j \in Ids : entries[j] # NoRow => entries[j].rev \in Nat
    BY <1>1 DEF Table, Row
<1>5. row # NoRow => row.rev \in Nat
    BY DEF Row
<1>6. \A j \in Ids : table[j] # NoRow => table[j].rev <= (seq + 1) + 1
    BY <1>1, <1>3, <1>4, <1>5 DEF NearCounter
<1>7. Recompute(table, seq + 1, 0)
    OBVIOUS
<1> HIDE DEF table
<1>8. /\ entries' \in Table
      /\ seq' \in Nat
      /\ seq' >= seq + 1 + 0
      /\ \A j \in Ids :
            \/ entries'[j] = table[j]
            \/ /\ table[j] # NoRow /\ entries'[j] # NoRow
               /\ entries'[j].rev > table[j].rev
               /\ entries'[j].rev <= seq' + 1
    BY <1>1, <1>2, <1>6, <1>7, RecomputeMoves
<1>9. \A j \in Ids : entries'[j] # NoRow => entries'[j].rev \in Nat
    BY <1>8 DEF Table, Row
<1>10. ASSUME NEW j \in Ids \ {i} PROVE RowStep(j)
    BY <1>1, <1>3, <1>4, <1>8, <1>9 DEF RowStep, NearCounter
<1>11. RowStep(i)
    <2>1. CASE row = NoRow
        BY <2>1, <1>1, <1>3, <1>4, <1>8 DEF RowStep, NearCounter
    <2>2. CASE row # NoRow
        BY <2>2, <1>1, <1>3, <1>4, <1>5, <1>8, <1>9 DEF RowStep
    <2> QED BY <2>1, <2>2
<1>12. row # NoRow => entries'[i] # NoRow
    BY <1>3, <1>8
<1> QED BY <1>1, <1>8, <1>10, <1>11, <1>12 DEF TableStep

(* A transaction that only recomputes.                                     *)
LEMMA RecomputeOnly ==
    ASSUME StoreType, NearCounter, Recompute(entries, seq, 0)
    PROVE  TableStep /\ \A j \in Ids : entries[j] # NoRow => entries'[j] # NoRow
<1>1. entries \in Table /\ seq \in Nat
    BY DEF StoreType
<1>2. \A j \in Ids : entries[j] # NoRow => entries[j].rev \in Nat
    BY <1>1 DEF Table, Row
<1>3. /\ entries' \in Table
      /\ seq' \in Nat
      /\ seq' >= seq + 0
      /\ \A j \in Ids :
            \/ entries'[j] = entries[j]
            \/ /\ entries[j] # NoRow /\ entries'[j] # NoRow
               /\ entries'[j].rev > entries[j].rev
               /\ entries'[j].rev <= seq' + 1
    BY <1>1, RecomputeMoves DEF NearCounter
<1> QED BY <1>1, <1>2, <1>3 DEF TableStep, RowStep

(* The update trigger gives a greater revision, at most one ahead of the   *)
(* change row it has just inserted.                                        *)
LEMMA RestampAdvances ==
    ASSUME NEW row \in Row, NEW n \in Nat, row.rev <= n
    PROVE  /\ Restamp(row, n) \in Nat \ {0}
           /\ Restamp(row, n) > row.rev
           /\ Restamp(row, n) <= n + 1
<1> DEFINE old == row.rev
<1>1. old \in Nat \ {0} /\ old <= n
    BY DEF Row
<1>2. Restamp(row, n) = IF old + 1 >= n THEN old + 1 ELSE n
    BY DEF Restamp, Max2
<1> HIDE DEF old
<1>3. /\ (IF old + 1 >= n THEN old + 1 ELSE n) \in Nat \ {0}
      /\ (IF old + 1 >= n THEN old + 1 ELSE n) > old
      /\ (IF old + 1 >= n THEN old + 1 ELSE n) <= n + 1
    BY <1>1
<1> QED BY <1>2, <1>3 DEF old

(* entries.update and patch_bot_trade.                                     *)
LEMMA WriteTextStep ==
    ASSUME StoreType, NearCounter, NEW i \in Ids, entries[i] # NoRow,
           NEW t \in Texts, WriteText(i, t)
    PROVE  TableStep /\ entries'[i] # NoRow
<1> DEFINE row == [entries[i] EXCEPT !.text = t, !.rev = Restamp(entries[i], seq + 1)]
           r == Restamp(entries[i], seq + 1)
<1>1. entries[i] \in Row /\ seq \in Nat /\ seq + 1 \in Nat
    BY DEF StoreType, Table
<1>2. entries[i].rev <= seq + 1
    BY DEF NearCounter
<1>3. r \in Nat \ {0} /\ r > entries[i].rev /\ r <= (seq + 1) + 1
    BY <1>1, <1>2, RestampAdvances
<1> HIDE DEF r
<1>4. row = [entries[i] EXCEPT !.text = t, !.rev = r]
    BY DEF r
<1>5. row \in Row /\ row.rev = r
    BY <1>1, <1>3, <1>4 DEF Row
<1>6. row # NoRow
    BY <1>5, NullsAssumption
<1>7. row.rev <= seq + 2 /\ row.rev > entries[i].rev
    BY <1>1, <1>3, <1>5
<1>8. CASE entries[i].text = t
    <2>1. Recompute(entries, seq, 0)
        BY <1>8 DEF WriteText
    <2> QED BY <2>1, RecomputeOnly
<1>9. CASE entries[i].text # t
    <2>1. Recompute([entries EXCEPT ![i] = row], seq + 1, 0)
        BY <1>9 DEF WriteText
    <2> HIDE DEF row
    <2> QED BY <2>1, <1>5, <1>6, <1>7, PutRow
<1> QED BY <1>8, <1>9

(* entries.create and _insert_trade: a new row has the change row's number. *)
LEMMA InsertStep ==
    ASSUME StoreType, NearCounter, NEW i \in Ids, entries[i] = NoRow,
           NEW t \in Texts, NEW d \in Derived, NEW b \in BOOLEAN,
           Recompute([entries EXCEPT ![i] = [text |-> t, derived |-> d,
                                             bot |-> b, rev |-> seq + 1]],
                     seq + 1, 0)
    PROVE  TableStep /\ entries'[i] # NoRow
<1> DEFINE row == [text |-> t, derived |-> d, bot |-> b, rev |-> seq + 1]
<1>1. seq \in Nat
    BY DEF StoreType
<1>2. row \in Row /\ row.rev = seq + 1
    BY <1>1 DEF Row
<1>3. row # NoRow
    BY <1>2, NullsAssumption
<1>4. Recompute([entries EXCEPT ![i] = row], seq + 1, 0)
    OBVIOUS
<1> HIDE DEF row
<1>5. row.rev <= seq + 2 /\ row.rev > seq
    BY <1>1, <1>2
<1> QED BY <1>2, <1>3, <1>4, <1>5, PutRow

(* entries.delete and delete_bot_trade.                                    *)
LEMMA EraseStep ==
    ASSUME StoreType, NearCounter, NEW i \in Ids, entries[i] # NoRow, Erase(i)
    PROVE  TableStep
<1>1. Recompute([entries EXCEPT ![i] = NoRow], seq + 1, 0)
    BY DEF Erase
<1> QED BY <1>1, PutRow

(* resolve_review.                                                         *)
LEMMA ResolveReviewStep ==
    ASSUME StoreType, NearCounter, NEW i \in Ids, ResolveReview(i)
    PROVE  TableStep
<1>1. PICK d \in Derived :
        /\ seq' = seq + 1
        /\ entries' = [entries EXCEPT ![i] = [@ EXCEPT !.derived = d,
                                                !.rev = Restamp(entries[i], seq + 1)]]
    BY DEF ResolveReview
<1>2. entries[i] # NoRow
    BY DEF ResolveReview
<1> DEFINE r == Restamp(entries[i], seq + 1)
           row == [entries[i] EXCEPT !.derived = d, !.rev = r]
<1>3. entries \in Table /\ entries[i] \in Row /\ seq \in Nat /\ seq + 1 \in Nat
    BY <1>2 DEF StoreType, Table
<1>4. r \in Nat \ {0} /\ r > entries[i].rev /\ r <= (seq + 1) + 1
    BY <1>2, <1>3, RestampAdvances DEF NearCounter
<1>5. entries' = [entries EXCEPT ![i] = row]
    BY <1>1
<1> HIDE DEF r
<1>6. row \in Row /\ row.rev = r
    BY <1>3, <1>4 DEF Row
<1> HIDE DEF row
<1>7. row # NoRow
    BY <1>6, NullsAssumption
<1>8. entries' \in Table
    BY <1>3, <1>5, <1>6 DEF Table
<1>9. entries'[i] = row /\ \A j \in Ids \ {i} : entries'[j] = entries[j]
    BY <1>3, <1>5 DEF Table
<1>10. RowStep(i)
    BY <1>1, <1>2, <1>3, <1>4, <1>6, <1>7, <1>9 DEF RowStep
<1>11. \A j \in Ids : RowStep(j)
    BY <1>9, <1>10 DEF RowStep
<1> QED BY <1>1, <1>3, <1>8, <1>11 DEF TableStep

(* restore_user_backup: every restored row has a change row above those of *)
(* the deletions, of which there is at least one if its id was in use.     *)
LEMMA RestoreStep ==
    ASSUME StoreType, NearCounter, NEW kept \in SUBSET Ids, Restore(kept)
    PROVE  TableStep
<1> DEFINE gone == Cardinality(Live(entries))
           after == seq + gone
           size == Cardinality(kept)
           Restored(t, d, b, num) ==
               [i \in Ids |-> IF i \in kept
                                THEN [text |-> t[i], derived |-> d[i],
                                      bot |-> b[i], rev |-> num[i]]
                                ELSE NoRow]
<1>1. PICK t \in [kept -> Texts], d \in [kept -> Derived], b \in [kept -> BOOLEAN],
           num \in Numbering(kept, after) :
        Recompute(Restored(t, d, b, num), after + size, 1)
    BY DEF Restore
<1>2. seq \in Nat /\ entries \in Table
    BY DEF StoreType
<1>3. IsFiniteSet(Live(entries)) /\ gone \in Nat
    BY IdsAssumption, FS_Subset, FS_CardinalityType DEF Live
<1>4. size \in Nat
    BY IdsAssumption, FS_Subset, FS_CardinalityType
<1>5. ASSUME NEW i \in Ids, entries[i] # NoRow PROVE gone >= 1
    <2>1. i \in Live(entries)
        BY <1>5 DEF Live
    <2>2. gone # 0
        BY <2>1, <1>3, FS_EmptySet
    <2> QED BY <2>2, <1>3
<1> DEFINE table == Restored(t, d, b, num)
<1>6. \A i \in kept : num[i] \in Nat /\ num[i] >= after + 1 /\ num[i] <= after + size
    BY <1>2, <1>3, <1>4 DEF Numbering
<1>7. \A i \in kept : /\ table[i] \in Row
                      /\ table[i].rev = num[i]
    BY <1>2, <1>3, <1>6 DEF Row
<1>8. \A i \in Ids \ kept : table[i] = NoRow
    OBVIOUS
<1>9. table \in Table
    <2>1. \A i \in Ids : table[i] \in Row \cup {NoRow}
        BY <1>7, <1>8
    <2>2. table = [i \in Ids |-> table[i]]
        OBVIOUS
    <2> HIDE DEF table
    <2> QED BY <2>1, <2>2 DEF Table
<1>10. Recompute(table, after + size, 1)
    BY <1>1
<1> HIDE DEF table, after, gone, size
<1>11. after \in Nat /\ after >= seq
       /\ \A i \in Ids : entries[i] # NoRow => after >= seq + 1
    BY <1>2, <1>3, <1>5 DEF after
<1>12. after + size \in Nat
    BY <1>4, <1>11
<1>13. \A i \in Ids : table[i] # NoRow => table[i].rev <= (after + size) + 1
    BY <1>4, <1>6, <1>7, <1>8, <1>11
<1>14. /\ entries' \in Table
       /\ seq' \in Nat
       /\ seq' >= (after + size) + 1
       /\ \A i \in Ids :
            \/ entries'[i] = table[i]
            \/ /\ table[i] # NoRow /\ entries'[i] # NoRow
               /\ entries'[i].rev > table[i].rev
               /\ entries'[i].rev <= seq' + 1
    BY <1>9, <1>10, <1>12, <1>13, RecomputeMoves
<1>15. \A i \in Ids : /\ entries[i] # NoRow => entries[i].rev \in Nat
                      /\ entries'[i] # NoRow => entries'[i].rev \in Nat
    BY <1>2, <1>14 DEF Table, Row
<1>16. ASSUME NEW i \in Ids \ kept PROVE RowStep(i)
    BY <1>2, <1>4, <1>8, <1>11, <1>14, <1>15 DEF RowStep, NearCounter
<1>17. ASSUME NEW i \in kept PROVE RowStep(i)
    <2>1. table[i] # NoRow /\ table[i].rev = num[i]
        BY <1>7, NullsAssumption
    <2>2. entries'[i] # NoRow /\ entries'[i].rev >= num[i] /\ entries'[i].rev <= seq' + 1
        BY <2>1, <1>4, <1>6, <1>11, <1>14, <1>15
    <2>3. entries'[i].rev > seq /\ (entries[i] # NoRow => entries'[i].rev > entries[i].rev)
        BY <2>2, <1>2, <1>6, <1>11, <1>15 DEF NearCounter
    <2> QED BY <2>2, <2>3 DEF RowStep
<1> QED BY <1>2, <1>4, <1>11, <1>14, <1>16, <1>17 DEF TableStep

-----------------------------------------------------------------------------
(* Such a step, once published, keeps the invariant of the table.          *)
LEMMA TableStepKeepsInv ==
    ASSUME StoreInv, TableStep, Publish
    PROVE  StoreInv'
<1>1. /\ entries \in Table /\ entries' \in Table /\ seq \in Nat /\ seq' \in Nat
      /\ seq' >= seq
      /\ seen \subseteq [id : Ids, row : Row]
      /\ seen' = seen \cup Versions(entries')
    BY DEF StoreInv, StoreType, TableStep, Publish
<1>2. \A i \in Ids : /\ entries[i] # NoRow => entries[i] \in Row /\ entries[i].rev \in Nat
                     /\ entries'[i] # NoRow => entries'[i] \in Row /\ entries'[i].rev \in Nat
    BY <1>1 DEF Table, Row
<1>3. \A i \in Ids : RowStep(i)
    BY DEF TableStep
<1>4. \A v \in Versions(entries') : /\ v.id \in Ids /\ entries'[v.id] # NoRow
                                    /\ v.row = entries'[v.id]
                                    /\ v = [id |-> v.id, row |-> entries'[v.id]]
    BY DEF Versions, Live
<1>5. \A v \in seen : v.id \in Ids /\ v.row \in Row /\ v.row.rev \in Nat
    BY <1>1 DEF Row
<1>6. StoreType'
    <2>1. Versions(entries') \subseteq [id : Ids, row : Row]
        BY <1>2, <1>4
    <2> QED BY <1>1, <2>1 DEF StoreType
<1>7. NearCounter'
    <2> SUFFICES ASSUME NEW i \in Ids, entries'[i] # NoRow
                 PROVE  entries'[i].rev <= seq' + 1
        BY DEF NearCounter
    <2> QED BY <1>1, <1>2, <1>3 DEF RowStep, StoreInv, NearCounter
<1>8. \A v \in seen : IF entries'[v.id] = NoRow THEN v.row.rev <= seq'
                                                ELSE v.row.rev <= entries'[v.id].rev
    <2> SUFFICES ASSUME NEW v \in seen
                 PROVE  IF entries'[v.id] = NoRow THEN v.row.rev <= seq'
                                                  ELSE v.row.rev <= entries'[v.id].rev
        OBVIOUS
    <2>1. v.id \in Ids /\ v.row.rev \in Nat
        BY <1>5
    <2>2. IF entries[v.id] = NoRow THEN v.row.rev <= seq
                                   ELSE v.row.rev <= entries[v.id].rev
        BY DEF StoreInv, SeenBehind
    <2>3. RowStep(v.id)
        BY <2>1, <1>3
    <2> QED BY <2>1, <2>2, <2>3, <1>1, <1>2 DEF RowStep
<1>9. SeenBehind'
    BY <1>1, <1>2, <1>4, <1>8 DEF SeenBehind
<1>10. (Versions(entries) \subseteq seen)'
    BY <1>1
<1>11. RevisionNamesOneContent'
    <2> SUFFICES ASSUME NEW v \in seen', NEW w \in Versions(entries'),
                        v.id = w.id, v.row.rev = w.row.rev
                 PROVE  v.row = w.row
        BY <1>1 DEF StoreInv, RevisionNamesOneContent
    <2>1. CASE v \in Versions(entries')
        BY <2>1, <1>4
    <2>2. CASE v \in seen
        <3> DEFINE i == w.id
        <3>1. i \in Ids /\ entries'[i] # NoRow /\ w.row = entries'[i]
            BY <1>4
        <3>2. RowStep(i)
            BY <3>1, <1>3
        <3>3. v.row.rev = entries'[i].rev /\ v.row.rev \in Nat /\ v.id = i
            BY <3>1, <2>2, <1>5
        <3>4. IF entries[i] = NoRow THEN v.row.rev <= seq ELSE v.row.rev <= entries[i].rev
            BY <2>2, <3>3 DEF StoreInv, SeenBehind
        <3>5. entries'[i] = entries[i]
            BY <3>1, <3>2, <3>3, <3>4, <1>1, <1>2 DEF RowStep
        <3>6. [id |-> i, row |-> entries[i]] \in seen
            BY <3>1, <3>5 DEF StoreInv, Versions, Live
        <3>7. v.row = entries[i]
            BY <3>3, <3>5, <3>6, <2>2 DEF StoreInv, RevisionNamesOneContent
        <3> QED BY <3>1, <3>5, <3>7
    <2> QED BY <2>1, <2>2, <1>1
<1> QED BY <1>6, <1>7, <1>9, <1>10, <1>11 DEF StoreInv

-----------------------------------------------------------------------------
(* The requests a form sends.                                              *)
LEMMA RequestType ==
    ASSUME StoreType, NEW m \in FormRequest
    PROVE  m.key \in Keys \cup {NoKey} /\ m.body \in Content
<1>1. NoRev \in Nat /\ \A v \in seen : v.row.rev \in Nat
    BY DEF StoreType, Row, NoRev
<1>2. CASE m \in {[key |-> k, body |-> [op |-> "create", id |-> i, rev |-> NoRev, text |-> t]] :
                    k \in Keys \cup {NoKey}, i \in Ids, t \in Texts}
    BY <1>1, <1>2 DEF Content
<1>3. CASE m \in {[key |-> k, body |-> [op |-> "update", id |-> i, rev |-> r, text |-> t]] :
                    k \in Keys \cup {NoKey}, i \in Ids, t \in Texts,
                    r \in {NoRev} \cup {v.row.rev : v \in seen}}
    BY <1>1, <1>3 DEF Content
<1> QED BY <1>2, <1>3 DEF FormRequest

(* remember() in the transaction of a fresh write: the first receipt of    *)
(* its key, and the first time it is executed.                             *)
LEMMA CommitKeepsKeys ==
    ASSUME KeyInv, NEW m, m.key \in Keys \cup {NoKey}, m.body \in Content, Fresh(m),
           NEW i \in Ids, entries' \in Table, entries'[i] # NoRow, Commit(m, i)
    PROVE  KeyInv'
<1>1. CASE m.key = NoKey
    <2>1. UNCHANGED <<receipts, applied, answers>>
        BY <1>1 DEF Commit
    <2> QED BY <2>1 DEF KeyInv, KeyType, ExecutedAtMostOnce
<1>2. CASE m.key # NoKey
    <2> DEFINE k == m.key
               receipt == [body |-> m.body, result |-> [id |-> i, rev |-> entries'[i].rev]]
    <2>1. k \in Keys /\ receipts[k] = NoReceipt
        BY <1>2 DEF Fresh
    <2>2. receipt \in Receipt
        BY DEF Receipt, Result, Table, Row
    <2>3. /\ receipts' = [receipts EXCEPT ![k] = receipt]
          /\ applied' = [applied EXCEPT ![k] = @ + 1]
          /\ answers' = [answers EXCEPT ![k] = @ \cup {receipt}]
        BY <1>2 DEF Commit
    <2>4. receipt # NoReceipt
        BY <2>2, NullsAssumption
    <2> HIDE DEF receipt, k
    <2>5. applied[k] = 0
        BY <2>1 DEF KeyInv, ExecutedAtMostOnce
    <2>6. answers[k] = {}
        <3>1. \A ans \in answers[k] : ans = NoReceipt /\ ans \in Receipt
            BY <2>1 DEF KeyInv, KeyType
        <3> QED BY <3>1, NullsAssumption
    <2>7. KeyType'
        BY <2>1, <2>2, <2>3 DEF KeyInv, KeyType
    <2>8. ExecutedAtMostOnce'
        BY <2>1, <2>3, <2>4, <2>5 DEF KeyInv, KeyType, ExecutedAtMostOnce
    <2>9. (\A key \in Keys : \A ans \in answers[key] : ans = receipts[key])'
        BY <2>1, <2>3, <2>6 DEF KeyInv, KeyType
    <2> QED BY <2>7, <2>8, <2>9 DEF KeyInv
<1> QED BY <1>1, <1>2

LEMMA CreateStep ==
    ASSUME StoreInv, KeyInv, NEW m \in FormRequest, Create(m)
    PROVE  TableStep /\ Publish /\ KeyInv'
<1>1. StoreType /\ NearCounter
    BY DEF StoreInv
<1>2. m.key \in Keys \cup {NoKey} /\ m.body \in Content
    BY <1>1, RequestType
<1>3. PICK i \in Assignable(m.body.id), d \in Derived :
          /\ Recompute([entries EXCEPT ![i] = [text |-> m.body.text, derived |-> d,
                                               bot |-> FALSE, rev |-> seq + 1]],
                       seq + 1, 0)
          /\ Commit(m, i)
    BY DEF Create
<1>4. i \in Ids /\ entries[i] = NoRow /\ m.body.text \in Texts
    BY <1>2 DEF Assignable, Above, Live, Content
<1>5. TableStep
    BY <1>1, <1>3, <1>4, InsertStep
<1>6. Publish
    BY <1>3 DEF Commit
<1>7. entries' \in Table /\ entries'[i] # NoRow
    <2>1. entries' \in Table
        BY <1>5 DEF TableStep
    <2>2. entries'[i] # NoRow
        BY <1>1, <1>3, <1>4, InsertStep
    <2> QED BY <2>1, <2>2
<1>8. Fresh(m)
    BY DEF Create
<1> QED BY <1>2, <1>3, <1>4, <1>5, <1>6, <1>7, <1>8, CommitKeepsKeys

LEMMA UpdateStep ==
    ASSUME StoreInv, KeyInv, NEW m \in FormRequest, Update(m)
    PROVE  TableStep /\ Publish /\ KeyInv'
<1> DEFINE i == m.body.id
<1>1. StoreType /\ NearCounter
    BY DEF StoreInv
<1>2. m.key \in Keys \cup {NoKey} /\ m.body \in Content
    BY <1>1, RequestType
<1>3. i \in Ids /\ m.body.text \in Texts
    BY <1>2 DEF Content
<1>4. entries[i] # NoRow /\ WriteText(i, m.body.text) /\ Commit(m, i) /\ Fresh(m)
    BY DEF Update
<1>5. TableStep
    BY <1>1, <1>3, <1>4, WriteTextStep
<1>6. Publish
    BY <1>4 DEF Commit
<1>7. entries' \in Table
    BY <1>5 DEF TableStep
<1>8. entries'[i] # NoRow
    BY <1>1, <1>3, <1>4, WriteTextStep
<1> QED BY <1>2, <1>3, <1>4, <1>5, <1>6, <1>7, <1>8, CommitKeepsKeys

LEMMA ReplayStep ==
    ASSUME KeyInv, NEW m, m.key \in Keys \cup {NoKey}, Replay(m)
    PROVE  KeyInv'
<1>1. m.key \in Keys /\ receipts[m.key] # NoReceipt
    BY DEF Replay, Fresh
<1>2. /\ answers' = [answers EXCEPT ![m.key] = @ \cup {receipts[m.key]}]
      /\ UNCHANGED <<receipts, applied>>
    BY DEF Replay
<1>3. receipts[m.key] \in Receipt
    BY <1>1 DEF KeyInv, KeyType
<1>4. KeyType'
    BY <1>1, <1>2, <1>3 DEF KeyInv, KeyType
<1>5. ExecutedAtMostOnce'
    BY <1>2 DEF KeyInv, ExecutedAtMostOnce
<1>6. (\A k \in Keys : \A ans \in answers[k] : ans = receipts[k])'
    BY <1>1, <1>2 DEF KeyInv, KeyType
<1> QED BY <1>4, <1>5, <1>6 DEF KeyInv

-----------------------------------------------------------------------------
TableVars == <<entries, seq, seen>>
KeyVars == <<receipts, applied, answers>>

(* Every step of the store is a published transaction or leaves the table  *)
(* alone; either way the receipts stay in order.                           *)
LEMMA NextStep ==
    ASSUME StoreInv, KeyInv, [Next]_vars
    PROVE  ((TableStep /\ Publish) \/ UNCHANGED TableVars) /\ KeyInv'
<1>1. StoreType /\ NearCounter
    BY DEF StoreInv
<1>2. ASSUME Quiet PROVE KeyInv'
    BY <1>2 DEF Quiet, KeyInv, KeyType, ExecutedAtMostOnce
<1>3. ASSUME UNCHANGED vars PROVE UNCHANGED TableVars /\ KeyInv'
    BY <1>3 DEF vars, TableVars, KeyInv, KeyType, ExecutedAtMostOnce
<1>4. ASSUME NEW m \in FormRequest, Save(m) \/ Refuse(m)
      PROVE  ((TableStep /\ Publish) \/ UNCHANGED TableVars) /\ KeyInv'
    <2>1. CASE Create(m)
        BY <2>1, CreateStep
    <2>2. CASE Update(m)
        BY <2>2, UpdateStep
    <2>3. CASE Replay(m)
        <3>1. UNCHANGED TableVars
            BY <2>3 DEF Replay, TableVars
        <3>2. m.key \in Keys \cup {NoKey}
            BY <1>1, RequestType
        <3> QED BY <2>3, <3>1, <3>2, ReplayStep
    <2>4. CASE Refuse(m)
        BY <2>4, <1>3 DEF Refuse
    <2> QED BY <1>4, <2>1, <2>2, <2>3, <2>4 DEF Save
<1>5. ASSUME NEW i \in Ids, NEW rev, Delete(i, rev)
      PROVE  ((TableStep /\ Publish) \/ UNCHANGED TableVars) /\ KeyInv'
    <2>1. CASE entries[i] # NoRow /\ ~Stale(rev, i)
        <3>1. Erase(i)
            BY <1>5, <2>1 DEF Delete
        <3> QED BY <1>1, <1>2, <2>1, <3>1, EraseStep DEF Erase
    <2>2. CASE ~(entries[i] # NoRow /\ ~Stale(rev, i))
        BY <1>3, <1>5, <2>2 DEF Delete
    <2> QED BY <2>1, <2>2
<1>6. ASSUME BotInsert
      PROVE  (TableStep /\ Publish) /\ KeyInv'
    <2>1. PICK i \in Above(entries), t \in Texts, d \in Derived :
            Recompute([entries EXCEPT ![i] = [text |-> t, derived |-> d,
                                              bot |-> TRUE, rev |-> seq + 1]],
                      seq + 1, 0)
        BY <1>6 DEF BotInsert
    <2>2. i \in Ids /\ entries[i] = NoRow
        BY DEF Above, Live
    <2>3. TableStep
        BY <1>1, <2>1, <2>2, InsertStep
    <2> QED BY <1>2, <1>6, <2>3 DEF BotInsert
<1>7. ASSUME NEW i \in Ids, NEW t \in Texts, BotPatch(i, t)
      PROVE  (TableStep /\ Publish) /\ KeyInv'
    BY <1>1, <1>2, <1>7, WriteTextStep DEF BotPatch
<1>8. ASSUME NEW i \in Ids, BotDelete(i)
      PROVE  (TableStep /\ Publish) /\ KeyInv'
    BY <1>1, <1>2, <1>8, EraseStep DEF BotDelete, Erase
<1>9. ASSUME NEW i \in Ids, ResolveReview(i)
      PROVE  (TableStep /\ Publish) /\ KeyInv'
    BY <1>1, <1>2, <1>9, ResolveReviewStep DEF ResolveReview
<1>10. ASSUME NEW kept \in SUBSET Ids, Restore(kept)
       PROVE  (TableStep /\ Publish) /\ KeyInv'
    BY <1>1, <1>2, <1>10, RestoreStep DEF Restore
<1>11. CASE OtherWriter
    BY <1>5, <1>6, <1>7, <1>8, <1>9, <1>10, <1>11 DEF OtherWriter
<1>12. CASE \E m \in FormRequest : Save(m) \/ Refuse(m)
    BY <1>4, <1>12
<1>13. CASE UNCHANGED vars
    BY <1>3, <1>13
<1> QED BY <1>11, <1>12, <1>13 DEF Next

Inv == StoreInv /\ KeyInv

LEMMA InvInit == Init => Inv
<1> SUFFICES ASSUME Init PROVE Inv
    OBVIOUS
<1>1. /\ entries \in [Ids -> {NoRow} \cup Legacy] /\ seq = 0
      /\ seen = Versions(entries)
      /\ receipts = [k \in Keys |-> NoReceipt]
      /\ applied = [k \in Keys |-> 0]
      /\ answers = [k \in Keys |-> {}]
    BY DEF Init
<1>2. Legacy \subseteq Row /\ \A row \in Legacy : row.rev = 1
    BY LegacyAssumption DEF Row
<1>3. entries \in Table
    BY <1>1, <1>2 DEF Table
<1>4. \A v \in seen : /\ v \in [id : Ids, row : Row]
                      /\ entries[v.id] # NoRow /\ v.row = entries[v.id] /\ v.row.rev = 1
    BY <1>1, <1>2 DEF Versions, Live
<1>5. StoreType
    BY <1>1, <1>3, <1>4 DEF StoreType
<1>6. NearCounter
    BY <1>1, <1>2 DEF NearCounter
<1>7. SeenBehind
    BY <1>4 DEF SeenBehind
<1>8. RevisionNamesOneContent
    BY <1>4 DEF RevisionNamesOneContent
<1>9. KeyInv
    BY <1>1 DEF KeyInv, KeyType, ExecutedAtMostOnce
<1> QED BY <1>1, <1>5, <1>6, <1>7, <1>8, <1>9 DEF Inv, StoreInv

LEMMA InvNext == Inv /\ [Next]_vars => Inv'
<1> SUFFICES ASSUME StoreInv, KeyInv, [Next]_vars PROVE Inv'
    BY DEF Inv
<1>1. ((TableStep /\ Publish) \/ UNCHANGED TableVars) /\ KeyInv'
    BY NextStep
<1>2. CASE TableStep /\ Publish
    BY <1>1, <1>2, TableStepKeepsInv DEF Inv
<1>3. CASE UNCHANGED TableVars
    <2>1. StoreInv'
        BY <1>3 DEF TableVars, StoreInv, StoreType, NearCounter, SeenBehind,
                    Versions, Live, RevisionNamesOneContent
    <2> QED BY <1>1, <2>1 DEF Inv
<1> QED BY <1>1, <1>2, <1>3

LEMMA InvAlways == Spec => []Inv
BY InvInit, InvNext, PTL DEF Spec

-----------------------------------------------------------------------------
(* Type correctness of the tables, the receipts and the histories.         *)
THEOREM TypeCorrect == Spec => []TypeOK
<1>1. Inv => TypeOK
    BY DEF Inv, StoreInv, StoreType, KeyInv, KeyType, Table, TypeOK
<1> QED BY <1>1, InvAlways, PTL

(* An id and a revision never name two contents (database/audit.py): the   *)
(* revision check of update and delete admits no A-B-A.                    *)
THEOREM RevisionsNameContents == Spec => []RevisionNamesOneContent
<1>1. Inv => RevisionNamesOneContent
    BY DEF Inv, StoreInv
<1> QED BY <1>1, InvAlways, PTL

(* A keyed write is executed once if it has a receipt, else not at all     *)
(* (services/write_receipts.py in the transaction of the write).           *)
THEOREM KeyedWritesHappenOnce == Spec => []ExecutedAtMostOnce
<1>1. Inv => ExecutedAtMostOnce
    BY DEF Inv, KeyInv
<1> QED BY <1>1, InvAlways, PTL

(* Every retry of a keyed write is answered alike.                         *)
THEOREM RetriesAreAnsweredAlike == Spec => []RetriesAgree
<1>1. Inv => RetriesAgree
    BY DEF Inv, KeyInv, RetriesAgree
<1> QED BY <1>1, InvAlways, PTL

(* No change of a row that stays hides from its revision, and no revision  *)
(* goes back.                                                              *)
THEOREM ChangesMoveRevisions == Spec => ChangeMovesRevision
<1> DEFINE Moves == \A i \in Ids :
              (entries[i] # NoRow /\ entries'[i] # NoRow /\ entries'[i] # entries[i])
                 => entries'[i].rev > entries[i].rev
<1>1. Inv /\ [Next]_vars => [Moves]_vars
    <2> SUFFICES ASSUME StoreInv, KeyInv, [Next]_vars PROVE Moves
        BY DEF Inv
    <2>1. CASE TableStep /\ Publish
        BY <2>1 DEF TableStep, RowStep
    <2>2. CASE UNCHANGED TableVars
        BY <2>2 DEF TableVars
    <2> QED BY <2>1, <2>2, NextStep
<1>2. Spec => [][Moves]_vars
    BY <1>1, InvAlways, PTL DEF Spec
<1> QED BY <1>2 DEF ChangeMovesRevision
-----------------------------------------------------------------------------
(* The editor.  Its store behaves as EntryStore says, and whatever write   *)
(* the browser or the network still carries was made from a version that   *)
(* was once committed.                                                     *)

Committed(i, row) == [id |-> i, row |-> row] \in seen

(* A new record proposes an id and no revision; an update carries the      *)
(* version its form was opened with.                                       *)
Sound(x) ==
    IF x.body.op = "create" THEN x.body.rev = NoRev /\ x.intent \in 1 .. intents
    ELSE Committed(x.body.id, x.base) /\ x.base.rev = x.body.rev

SoundWrite(p, slot) ==
    /\ p.slot = slot
    /\ Sound(p)
    /\ IF slot = New THEN p.body.op = "create" ELSE p.body.op = "update" /\ p.body.id = slot

FormInv ==
    form # None =>
        IF form.id = New THEN form.rev = NoRev /\ form.intent \in 1 .. intents
        ELSE Committed(form.id, form.base) /\ form.base.rev = form.rev

(* What is pending belongs to the open form, a draft to its slot; somebody *)
(* waits for every request and answer that is not late, one at a time.     *)
CarriedInv ==
    /\ pending # None => form # None /\ SoundWrite(pending, form.id)
    /\ waiting # None => pending # None /\ SoundWrite(waiting, form.id)
    /\ offered # None =>
          /\ form # None
          /\ offered.pending # None => SoundWrite(offered.pending, offered.pending.slot)
    /\ \A s \in Slots :
          draft[s] # None /\ draft[s].pending # None => SoundWrite(draft[s].pending, s)
    /\ draft[New] # None => draft[New].intent \in 1 .. intents
    /\ \A m \in Requests : Sound(m)
    /\ request # None \/ answer # None => waiting # None
    /\ request = None \/ answer = None

(* A stored result names a committed version.                              *)
Known(result) == \E v \in seen : v.id = result.id /\ v.row.rev = result.rev

ResultInv ==
    /\ \A k \in Keys : receipts[k] # NoReceipt => Known(receipts[k].result)
    /\ answer # None /\ answer.kind = "ok" => answer.result \in Result /\ Known(answer.result)

-----------------------------------------------------------------------------
(* One key for each intent.  The creations that may still be sent, or be   *)
(* executed, are in the editor, in the draft of a new record or on the     *)
(* wire.                                                                   *)
Carriers ==
    ({pending, waiting} \cup {d.pending : d \in {draft[New]} \ {None}} \cup Requests) \ {None}
Creations == {x \in Carriers : x.body.op = "create"}

Untouched(n) == made[n] = 0 /\ \A x \in Creations : x.intent # n

OneKey ==
    \A x, y \in Creations : x.intent = y.intent /\ x.intent \notin dropped => x.key = y.key

DoneIsReceipted ==
    \A x \in Creations :
        x.intent \notin dropped => made[x.intent] = 0 \/ receipts[x.key] # NoReceipt

(* A form or draft without a write of its own is of an intent for which    *)
(* nothing was ever sent.                                                  *)
WithoutWrite(n, p) == n \notin dropped /\ (p = None \/ p.intent # n)

FreshInv ==
    /\ form # None /\ form.id = New /\ WithoutWrite(form.intent, pending)
          => Untouched(form.intent)
    /\ draft[New] # None /\ WithoutWrite(draft[New].intent, draft[New].pending)
          => Untouched(draft[New].intent)
    /\ form # None /\ form.id = New /\ offered # None
          => offered = draft[New] /\ offered.intent # form.intent
    /\ \A n \in DOMAIN made : n > intents => made[n] = 0

IntentInv ==
    /\ OneKey
    /\ DoneIsReceipted
    /\ FreshInv
    /\ DuplicatesOnlyAfterRefusal

SessionInv ==
    /\ Inv
    /\ SessionTypeOK
    /\ FormInv
    /\ CarriedInv
    /\ ResultInv
    /\ IntentInv

-----------------------------------------------------------------------------
(* The store under the editor.                                             *)
LEMMA InvTypes == Inv => TypeOK
    BY DEF Inv, StoreInv, StoreType, KeyInv, KeyType, Table, TypeOK

LEMMA UpdateRequest ==
    ASSUME NEW k \in Keys \cup {NoKey}, NEW i \in Ids, NEW t \in Texts,
           NEW rev \in {NoRev} \cup {v.row.rev : v \in seen}
    PROVE  [key |-> k, body |-> [op |-> "update", id |-> i, rev |-> rev, text |-> t]]
             \in FormRequest
<1> DEFINE AnyKey == Keys \cup {NoKey}
           Revs == {NoRev} \cup {v.row.rev : v \in seen}
           Made(a, j, u, r) == [key |-> a, body |-> [op |-> "update", id |-> j, rev |-> r, text |-> u]]
           Updates == {Made(a, j, u, r) : a \in AnyKey, j \in Ids, u \in Texts, r \in Revs}
<1>1. Updates \subseteq FormRequest
    BY DEF FormRequest
<1>2. k \in AnyKey /\ rev \in Revs
    OBVIOUS
<1> HIDE DEF AnyKey, Revs, Made
<1>3. Made(k, i, t, rev) \in Updates
    BY <1>2
<1> HIDE DEF Updates
<1>4. Made(k, i, t, rev) \in FormRequest
    BY <1>1, <1>3
<1> QED BY <1>4 DEF Made

(* What is on the wire is a request of the store's specification.          *)
LEMMA SentIsRequest ==
    ASSUME SessionTypeOK, NEW m \in Sent, Sound(m)
    PROVE  [key |-> m.key, body |-> m.body] \in FormRequest
<1>1. m.key \in Keys /\ m.body \in Content
    BY DEF Sent
<1>2. PICK op \in {"create", "update"}, i \in Ids, rev \in Nat, t \in Texts :
        m.body = [op |-> op, id |-> i, rev |-> rev, text |-> t]
    BY <1>1 DEF Content
<1>3. CASE op = "create"
    BY <1>1, <1>2, <1>3 DEF Sound, FormRequest
<1>4. CASE op = "update"
    <2>1. [id |-> i, row |-> m.base] \in seen /\ m.base.rev = rev
        BY <1>2, <1>4 DEF Sound, Committed
    <2>2. rev \in {NoRev} \cup {v.row.rev : v \in seen}
        BY <2>1
    <2>3. m.key \in Keys \cup {NoKey}
        BY <1>1
    <2>4. [key |-> m.key, body |-> m.body]
            = [key |-> m.key, body |-> [op |-> "update", id |-> i, rev |-> rev, text |-> t]]
        BY <1>2, <1>4
    <2> QED BY <1>2, <2>2, <2>3, <2>4, UpdateRequest
<1> QED BY <1>3, <1>4

LEMMA SaveIsNext ==
    ASSUME SessionTypeOK, NEW m \in Sent, Sound(m), Save(m)
    PROVE  Next
<1> DEFINE r == [key |-> m.key, body |-> m.body]
<1>1. r.key = m.key /\ r.body = m.body /\ r \in FormRequest
    BY SentIsRequest
<1> HIDE DEF r
<1>2. Save(r)
    <2>1. Replay(m) => Replay(r)
        BY <1>1 DEF Replay, Fresh
    <2>2. \A i : Commit(m, i) => Commit(r, i)
        BY <1>1 DEF Commit
    <2>3. Create(m) => Create(r)
        BY <1>1, <2>2 DEF Create, Fresh
    <2>4. Update(m) => Update(r)
        BY <1>1, <2>2 DEF Update, Fresh
    <2> QED BY <2>1, <2>3, <2>4 DEF Save
<1> QED BY <1>1, <1>2 DEF Next

(* A write that is executed or answered again has a receipt afterwards,    *)
(* which names a committed version; no other receipt changes.              *)
LEMMA CommitReceipts ==
    ASSUME Inv, NEW m, m.key \in Keys, m.body \in Content, Fresh(m), NEW i \in Ids,
           entries' \in Table, entries'[i] # NoRow, Commit(m, i)
    PROVE  /\ seen \subseteq seen'
           /\ \A k \in Keys : receipts[k] # NoReceipt => receipts'[k] = receipts[k]
           /\ \A k \in Keys \ {m.key} : receipts'[k] = receipts[k]
           /\ receipts'[m.key] # NoReceipt
           /\ receipts'[m.key].result \in Result
           /\ (Known(receipts[m.key].result))'
<1> DEFINE receipt == [body |-> m.body, result |-> [id |-> i, rev |-> entries'[i].rev]]
<1>1. m.key # NoKey /\ receipts[m.key] = NoReceipt
    BY NullsAssumption DEF Fresh
<1>2. receipts' = [receipts EXCEPT ![m.key] = receipt] /\ Publish
    BY <1>1 DEF Commit
<1>3. receipt \in Receipt
    BY DEF Receipt, Result, Table, Row
<1>4. seen \subseteq seen' /\ [id |-> i, row |-> entries'[i]] \in seen'
    BY <1>2 DEF Publish, Versions, Live
<1>5. receipts'[m.key] = receipt /\ \A k \in Keys \ {m.key} : receipts'[k] = receipts[k]
    BY <1>2 DEF Inv, KeyInv, KeyType
<1>6. receipt.result.id = i /\ receipt.result.rev = entries'[i].rev /\ receipt.result \in Result
    BY <1>3 DEF Receipt
<1> HIDE DEF receipt
<1>7. (Known(receipts[m.key].result))'
    BY <1>4, <1>5, <1>6 DEF Known
<1> QED BY <1>1, <1>3, <1>4, <1>5, <1>6, <1>7, NullsAssumption

LEMMA SaveReceipts ==
    ASSUME Inv, ResultInv, NEW m \in Sent, Save(m)
    PROVE  /\ seen \subseteq seen'
           /\ \A k \in Keys : receipts[k] # NoReceipt => receipts'[k] = receipts[k]
           /\ \A k \in Keys : receipts'[k] # NoReceipt => (Known(receipts[k].result))'
           /\ receipts'[m.key] # NoReceipt
           /\ receipts'[m.key].result \in Result
<1>1. m.key \in Keys /\ m.body \in Content /\ StoreType /\ NearCounter
    BY DEF Sent, Inv, StoreInv
<1>2. CASE Replay(m)
    <2>1. UNCHANGED <<receipts, seen>> /\ m.key \in Keys /\ receipts[m.key] # NoReceipt
        BY <1>1, <1>2 DEF Replay, Fresh
    <2>2. receipts[m.key].result \in Result
        BY <2>1 DEF Inv, KeyInv, KeyType, Receipt
    <2> QED BY <2>1, <2>2 DEF ResultInv, Known
<1>3. ASSUME Fresh(m), NEW i \in Ids, entries' \in Table, entries'[i] # NoRow, Commit(m, i)
      PROVE  /\ seen \subseteq seen'
             /\ \A k \in Keys : receipts[k] # NoReceipt => receipts'[k] = receipts[k]
             /\ \A k \in Keys : receipts'[k] # NoReceipt => (Known(receipts[k].result))'
             /\ receipts'[m.key] # NoReceipt
             /\ receipts'[m.key].result \in Result
    <2>1. /\ seen \subseteq seen'
          /\ \A k \in Keys : receipts[k] # NoReceipt => receipts'[k] = receipts[k]
          /\ \A k \in Keys \ {m.key} : receipts'[k] = receipts[k]
          /\ receipts'[m.key] # NoReceipt
          /\ receipts'[m.key].result \in Result
          /\ (Known(receipts[m.key].result))'
        BY <1>1, <1>3, CommitReceipts
    <2>2. \A k \in Keys \ {m.key} : receipts'[k] # NoReceipt => (Known(receipts[k].result))'
        BY <2>1 DEF ResultInv, Known
    <2> QED BY <2>1, <2>2
<1>4. CASE Create(m)
    <2>1. PICK i \in Assignable(m.body.id), d \in Derived :
            /\ Recompute([entries EXCEPT ![i] = [text |-> m.body.text, derived |-> d,
                                                 bot |-> FALSE, rev |-> seq + 1]],
                         seq + 1, 0)
            /\ Commit(m, i)
        BY <1>4 DEF Create
    <2>2. i \in Ids /\ entries[i] = NoRow /\ m.body.text \in Texts
        BY <1>1 DEF Assignable, Above, Live, Content
    <2>3. entries' \in Table /\ entries'[i] # NoRow
        BY <1>1, <2>1, <2>2, InsertStep DEF TableStep
    <2> QED BY <1>3, <1>4, <2>1, <2>2, <2>3 DEF Create
<1>5. CASE Update(m)
    <2>1. /\ m.body.id \in Ids /\ m.body.text \in Texts /\ entries[m.body.id] # NoRow
          /\ WriteText(m.body.id, m.body.text) /\ Commit(m, m.body.id) /\ Fresh(m)
        BY <1>1, <1>5 DEF Update, Content
    <2>2. entries' \in Table /\ entries'[m.body.id] # NoRow
        BY <1>1, <2>1, WriteTextStep DEF TableStep
    <2> QED BY <1>3, <2>1, <2>2
<1> QED BY <1>2, <1>4, <1>5 DEF Save

LEMMA ElsewhereStep ==
    ASSUME SessionTypeOK, Elsewhere
    PROVE  Next /\ seen \subseteq seen' /\ receipts' = receipts
<1>1. world.texts \subseteq Texts
    BY DEF SessionTypeOK, World
<1>2. ASSUME NEW i \in Ids, Delete(i, NoRev)
      PROVE  Next /\ seen \subseteq seen' /\ receipts' = receipts
    <2>1. Next
        BY <1>2 DEF Next, OtherWriter
    <2> QED BY <1>2, <2>1 DEF Delete, Erase, Publish, Quiet, vars
<1>3. ASSUME NEW i \in Ids, NEW t \in world.texts,
             Update([key |-> NoKey, body |-> [op |-> "update", id |-> i, rev |-> NoRev, text |-> t]])
      PROVE  Next /\ seen \subseteq seen' /\ receipts' = receipts
    <2> DEFINE m == [key |-> NoKey, body |-> [op |-> "update", id |-> i, rev |-> NoRev, text |-> t]]
    <2>1. m \in FormRequest
        <3>1. t \in Texts /\ NoRev \in {NoRev} \cup {v.row.rev : v \in seen}
            BY <1>1
        <3> QED BY <3>1, UpdateRequest
    <2>2. m.key = NoKey
        OBVIOUS
    <2> HIDE DEF m
    <2>3. Update(m)
        BY <1>3 DEF m
    <2>4. Next
        BY <2>1, <2>3 DEF Next, Save
    <2> QED BY <2>2, <2>3, <2>4 DEF Update, Commit, Publish
<1>4. ASSUME BotInsert PROVE Next /\ seen \subseteq seen' /\ receipts' = receipts
    <2>1. Next
        BY <1>4 DEF Next, OtherWriter
    <2> QED BY <1>4, <2>1 DEF BotInsert, Publish, Quiet
<1> QED BY <1>2, <1>3, <1>4 DEF Elsewhere

(* Who executes a request, and on which carried message.                   *)
LEMMA AcceptStep ==
    ASSUME SessionInv, NEW m \in Requests, Accept(m)
    PROVE  /\ Next
           /\ seen \subseteq seen'
           /\ \A k \in Keys : receipts[k] # NoReceipt => receipts'[k] = receipts[k]
           /\ \A k \in Keys : receipts'[k] # NoReceipt => (Known(receipts[k].result))'
           /\ receipts'[m.key] # NoReceipt
           /\ receipts'[m.key].result \in Result
<1>1. m \in Sent /\ Sound(m) /\ Save(m)
    BY DEF SessionInv, SessionTypeOK, CarriedInv, Requests, Accept
<1>2. Inv /\ ResultInv /\ SessionTypeOK
    BY DEF SessionInv
<1>3. Next
    BY <1>1, <1>2, SaveIsNext
<1> QED BY <1>1, <1>2, <1>3, SaveReceipts

(* The store keeps what it has shown and answered.                         *)
Kept ==
    /\ seen \subseteq seen'
    /\ \A k \in Keys : receipts[k] # NoReceipt => receipts'[k] = receipts[k]

StoreEffect ==
    /\ [Next]_vars
    /\ Kept
    /\ \A k \in Keys : receipts'[k] # NoReceipt => (Known(receipts[k].result))'

LEMMA NoStoreStep ==
    ASSUME ResultInv, UNCHANGED vars PROVE StoreEffect
<1>1. [Next]_vars
    OBVIOUS
<1>2. receipts' = receipts /\ seen' = seen
    BY DEF vars
<1> QED BY <1>1, <1>2 DEF StoreEffect, Kept, ResultInv, Known

LEMMA SessionStoreStep ==
    ASSUME SessionInv, Step
    PROVE  StoreEffect
<1>1. ResultInv /\ SessionTypeOK
    BY DEF SessionInv
<1>2. ASSUME NEW m \in Requests, Accept(m) PROVE StoreEffect
    BY <1>2, AcceptStep DEF StoreEffect, Kept
<1>3. ASSUME NEW m, NEW reply, Unauthorized(reply) \/ Decline(m, reply) PROVE StoreEffect
    <2>1. UNCHANGED vars
        BY <1>3 DEF Unauthorized, Decline
    <2> QED BY <1>1, <2>1, NoStoreStep
<1>4. CASE ServeAwaited
    <2>1. request \in Requests
        BY <1>4 DEF ServeAwaited, Requests
    <2>2. PICK m \in Requests : m = request
        BY <2>1
    <2>3. Accept(m) \/ \E reply : Unauthorized(reply) \/ Decline(m, reply)
        BY <1>4, <2>2 DEF ServeAwaited
    <2> QED BY <1>2, <1>3, <2>3
<1>5. ASSUME NEW m \in late, ServeLate(m) PROVE StoreEffect
    <2>1. m \in Requests
        BY DEF Requests
    <2>2. Accept(m) \/ \E reply : Unauthorized(reply) \/ Decline(m, reply)
        BY <1>5 DEF ServeLate
    <2> QED BY <1>2, <1>3, <2>1, <2>2
<1>6. CASE Elsewhere
    <2>1. Next /\ seen \subseteq seen' /\ receipts' = receipts
        BY <1>1, <1>6, ElsewhereStep
    <2> QED BY <1>1, <2>1 DEF StoreEffect, Kept, ResultInv, Known
<1>7. CASE ~(ServeAwaited \/ (\E m \in late : ServeLate(m)) \/ Elsewhere)
    <2>1. UNCHANGED vars
        BY <1>7 DEF Step, OpenNew, OpenEdit, Type, AutoSaveDraft, RestoreDraft, DiscardDraft,
                    Submit, GiveUpWaiting, Close, Kill, Receive, EndSession, Login
    <2> QED BY <1>1, <2>1, NoStoreStep
<1> QED BY <1>4, <1>5, <1>6, <1>7

-----------------------------------------------------------------------------
(* The shape of the browser's memory.                                      *)
LEMMA SaveDraftStep ==
    ASSUME SessionTypeOK, form # None, NEW p \in Write \cup {None}, SaveDraft(form, p)
    PROVE  /\ draft' \in [Slots -> Draft \cup {None}]
           /\ \A s \in Slots \ {form.id} : draft'[s] = draft[s]
           /\ \/ draft'[form.id] = draft[form.id] /\ offered # None
              \/ draft'[form.id] = None
              \/ draft'[form.id] = DraftOf(form, p) /\ offered = None
<1>1. form \in Form /\ draft \in [Slots -> Draft \cup {None}]
    BY DEF SessionTypeOK
<1>2. DraftOf(form, p) \in Draft /\ form.id \in Slots
    BY <1>1 DEF DraftOf, Draft, Form
<1> QED BY <1>1, <1>2 DEF SaveDraft

(* The browser's own steps leave the store alone.                          *)
LEMMA TypesNext == Inv' => TypeOK'
    BY DEF Inv, StoreInv, StoreType, KeyInv, KeyType, Table, TypeOK

SessionShape == SessionTypeOK /\ FormInv /\ CarriedInv

LEMMA OpenNewShape ==
    ASSUME SessionShape, OpenNew, UNCHANGED world, TypeOK'
    PROVE  SessionShape'
<1>1. /\ intents' = intents + 1 /\ intents < world.intents /\ world' = world
      /\ form' = [id |-> New, rev |-> NoRev, base |-> NoRow,
                  text |-> Empty, orig |-> Empty, intent |-> intents + 1]
      /\ offered' = draft[New] /\ form = None
      /\ UNCHANGED <<seen, pending, draft, waiting, request, answer, late, made>>
    BY DEF OpenNew, vars, wireVars, history
<1>2. intents \in Nat /\ intents' \in 1 .. world.intents /\ New \in Slots
    BY <1>1 DEF SessionShape, SessionTypeOK, World, Slots
<1>3. form' \in Form /\ form'.id = New /\ form'.rev = NoRev /\ form'.intent = intents'
    BY <1>1, <1>2 DEF Form, Typed, NoRev
<1>4. SessionTypeOK'
    BY <1>1, <1>2, <1>3 DEF SessionShape, SessionTypeOK
<1>5. FormInv'
    BY <1>2, <1>3 DEF FormInv
<1>6. pending = None /\ waiting = None /\ request = None /\ answer = None
    BY <1>1 DEF SessionShape, CarriedInv
<1>7. \A x : Sound(x) => (x.intent \in 1 .. intents => x.intent \in 1 .. intents')
    BY <1>1, <1>2
<1>8. CarriedInv'
    BY <1>1, <1>2, <1>3, <1>6, EditorAssumption
       DEF SessionShape, CarriedInv, SoundWrite, Sound, Committed, Requests
<1> QED BY <1>4, <1>5, <1>8 DEF SessionShape

LEMMA OpenEditShape ==
    ASSUME SessionShape, Inv, NEW i \in Ids, OpenEdit(i), UNCHANGED world, TypeOK'
    PROVE  SessionShape'
<1>1. /\ world' = world /\ form = None /\ entries[i] # NoRow
      /\ form' = [id |-> i, rev |-> entries[i].rev, base |-> entries[i],
                  text |-> entries[i].text, orig |-> entries[i].text, intent |-> 0]
      /\ offered' = draft[i]
      /\ UNCHANGED <<seen, pending, draft, intents, waiting, request, answer, late, made>>
    BY DEF OpenEdit, vars, wireVars, history
<1>2. entries[i] \in Row /\ [id |-> i, row |-> entries[i]] \in seen /\ i # New /\ i \in Slots
    BY <1>1, EditorAssumption
       DEF Inv, StoreInv, StoreType, Table, Versions, Live, Slots
<1>3. form' \in Form /\ form'.id = i /\ form'.base = entries[i] /\ form'.rev = entries[i].rev
    BY <1>1, <1>2 DEF Form, Typed, Row
<1>4. SessionTypeOK'
    BY <1>1, <1>2, <1>3 DEF SessionShape, SessionTypeOK
<1>5. FormInv'
    BY <1>1, <1>2, <1>3 DEF FormInv, Committed
<1>6. pending = None /\ waiting = None /\ request = None /\ answer = None
    BY <1>1 DEF SessionShape, CarriedInv
<1>8. CarriedInv'
    BY <1>1, <1>2, <1>3, <1>6, EditorAssumption
       DEF SessionShape, CarriedInv, SoundWrite, Sound, Committed, Requests
<1> QED BY <1>4, <1>5, <1>8 DEF SessionShape

LEMMA TypeShape ==
    ASSUME SessionShape, NEW t \in Texts, Type(t), UNCHANGED world, TypeOK'
    PROVE  SessionShape'
<1>1. /\ form # None /\ form' = [form EXCEPT !.text = t]
      /\ UNCHANGED <<seen, pending, offered, draft, intents, waiting, request, answer, late, made, world>>
    BY DEF Type, vars, wireVars, history
<1>2. form \in Form
    BY <1>1 DEF SessionShape, SessionTypeOK
<1>3. /\ form' \in Form /\ form'.id = form.id /\ form'.base = form.base
      /\ form'.rev = form.rev /\ form'.intent = form.intent
    BY <1>1, <1>2 DEF Form, Typed
<1>4. SessionTypeOK'
    BY <1>1, <1>3 DEF SessionShape, SessionTypeOK
<1>5. FormInv'
    BY <1>1, <1>3 DEF SessionShape, FormInv, Committed
<1>6. CarriedInv'
    BY <1>1, <1>3, EditorAssumption DEF SessionShape, CarriedInv, SoundWrite, Sound, Committed, Requests
<1> QED BY <1>4, <1>5, <1>6 DEF SessionShape

(* Saving the draft: its slot gets the form's write or none.               *)
LEMMA DraftShape ==
    ASSUME SessionShape, form # None, NEW p \in Write \cup {None}, SaveDraft(form, p),
           p # None => SoundWrite(p, form.id)
    PROVE  /\ draft' \in [Slots -> Draft \cup {None}]
           /\ \A s \in Slots : draft'[s] # None /\ draft'[s].pending # None
                                  => SoundWrite(draft'[s].pending, s)
           /\ draft'[New] # None => draft'[New].intent \in 1 .. intents
<1>1. form \in Form /\ form.id \in Slots /\ New \in Slots
    BY DEF SessionShape, SessionTypeOK, Form, Slots
<1>2. /\ draft' \in [Slots -> Draft \cup {None}]
      /\ \A s \in Slots \ {form.id} : draft'[s] = draft[s]
      /\ \/ draft'[form.id] = draft[form.id]
         \/ draft'[form.id] = None
         \/ draft'[form.id] = DraftOf(form, p)
    BY SaveDraftStep DEF SessionShape
<1>3. DraftOf(form, p).pending = p /\ DraftOf(form, p).intent = form.intent
    BY DEF DraftOf
<1>4. ASSUME NEW s \in Slots, draft'[s] # None, draft'[s].pending # None
      PROVE  SoundWrite(draft'[s].pending, s)
    BY <1>1, <1>2, <1>3, <1>4 DEF SessionShape, CarriedInv
<1>5. ASSUME draft'[New] # None PROVE draft'[New].intent \in 1 .. intents
    BY <1>1, <1>2, <1>3, <1>5 DEF SessionShape, CarriedInv, FormInv
<1> QED BY <1>2, <1>4, <1>5

LEMMA AutoSaveDraftShape ==
    ASSUME SessionShape, AutoSaveDraft, UNCHANGED world, TypeOK'
    PROVE  SessionShape'
<1>1. /\ form # None /\ SaveDraft(form, pending)
      /\ UNCHANGED <<seen, form, pending, offered, intents, waiting, request, answer, late, made, world>>
    BY DEF AutoSaveDraft, vars, wireVars, history
<1>2. PICK p \in Write \cup {None} : p = pending
    BY DEF SessionShape, SessionTypeOK
<1>3. p # None => SoundWrite(p, form.id)
    BY <1>2 DEF SessionShape, CarriedInv
<1>4. /\ draft' \in [Slots -> Draft \cup {None}]
      /\ \A s \in Slots : draft'[s] # None /\ draft'[s].pending # None
                            => SoundWrite(draft'[s].pending, s)
      /\ draft'[New] # None => draft'[New].intent \in 1 .. intents
    BY <1>1, <1>2, <1>3, DraftShape
<1>5. SessionTypeOK'
    BY <1>1, <1>4 DEF SessionShape, SessionTypeOK
<1>6. FormInv'
    BY <1>1 DEF SessionShape, FormInv, Committed
<1>7. CarriedInv'
    BY <1>1, <1>4 DEF SessionShape, CarriedInv, SoundWrite, Sound, Committed, Requests
<1> QED BY <1>5, <1>6, <1>7 DEF SessionShape

LEMMA RestoreDraftShape ==
    ASSUME SessionShape, RestoreDraft, UNCHANGED world, TypeOK',
           form.id = New => offered.intent \in 1 .. intents
    PROVE  SessionShape'
<1>1. /\ form # None /\ offered # None
      /\ form' = [form EXCEPT !.text = offered.text, !.intent = offered.intent]
      /\ pending' = IF offered.pending # None /\ offered.pending.slot = form.id
                      THEN offered.pending ELSE pending
      /\ offered' = None
      /\ UNCHANGED <<seen, draft, intents, waiting, request, answer, late, made, world>>
    BY DEF RestoreDraft, vars, wireVars, history
<1>2. form \in Form /\ offered \in Draft
    BY <1>1 DEF SessionShape, SessionTypeOK
<1>3. /\ form' \in Form /\ form'.id = form.id /\ form'.base = form.base
      /\ form'.rev = form.rev /\ form'.intent = offered.intent
    BY <1>1, <1>2 DEF Form, Typed, Draft
<1>4. pending' \in Write \cup {None}
    BY <1>1, <1>2 DEF SessionShape, SessionTypeOK, Draft
<1>5. SessionTypeOK'
    BY <1>1, <1>3, <1>4 DEF SessionShape, SessionTypeOK
<1>6. FormInv'
    BY <1>1, <1>3 DEF SessionShape, FormInv, Committed
<1>7. pending' # None => SoundWrite(pending', form.id)
    BY <1>1, <1>2 DEF SessionShape, CarriedInv
<1>8. waiting # None => pending' # None
    BY <1>1 DEF SessionShape, CarriedInv
<1>9. form' # None
    BY <1>3, EditorAssumption
<1>10. CarriedInv'
    BY <1>1, <1>3, <1>7, <1>8, <1>9 DEF SessionShape, CarriedInv, SoundWrite, Sound, Committed, Requests
<1> QED BY <1>5, <1>6, <1>10 DEF SessionShape

LEMMA DiscardDraftShape ==
    ASSUME SessionShape, DiscardDraft, UNCHANGED world, TypeOK'
    PROVE  SessionShape'
<1>1. /\ form # None /\ offered' = None
      /\ draft' = [draft EXCEPT ![form.id] = None]
      /\ UNCHANGED <<seen, form, pending, intents, waiting, request, answer, late, made, world>>
    BY DEF DiscardDraft, vars, wireVars, history
<1>2. form.id \in Slots /\ draft \in [Slots -> Draft \cup {None}] /\ New \in Slots
    BY <1>1 DEF SessionShape, SessionTypeOK, Form, Slots
<1>3. SessionTypeOK'
    BY <1>1, <1>2 DEF SessionShape, SessionTypeOK
<1>4. FormInv'
    BY <1>1 DEF SessionShape, FormInv, Committed
<1>5. CarriedInv'
    BY <1>1, <1>2 DEF SessionShape, CarriedInv, SoundWrite, Sound, Committed, Requests
<1> QED BY <1>3, <1>4, <1>5 DEF SessionShape

(* What a submit sends was made from the form, or is pending already.      *)
LEMMA SubmitChoice ==
    ASSUME SessionShape, form # None, form.text # Empty,
           NEW p \in IF pending # None THEN {pending} ELSE NewWrites
    PROVE  /\ p \in Write /\ SoundWrite(p, form.id)
           /\ pending = None => p.intent = form.intent
<1>1. CASE pending # None
    BY <1>1 DEF SessionShape, SessionTypeOK, CarriedInv
<1>2. CASE pending = None
    <2>1. form \in Form /\ form.id \in Slots /\ form.text \in Texts
        BY DEF SessionShape, SessionTypeOK, Form, Typed
    <2>2. PICK k \in Keys \ used, i \in IF form.id = New THEN world.ids ELSE {form.id} :
            p = [key |-> k, slot |-> form.id, snapshot |-> Snapshot(form),
                 body |-> [op |-> IF form.id = New THEN "create" ELSE "update",
                           id |-> i, rev |-> form.rev, text |-> form.text],
                 base |-> form.base, intent |-> form.intent]
        BY <1>2 DEF NewWrites
    <2>3. i \in Ids
        BY <2>1, <2>2 DEF SessionShape, SessionTypeOK, World, Slots
    <2>4. Snapshot(form) \in [id : Slots, rev : Nat, text : Typed]
        BY <2>1 DEF Snapshot, Form
    <2>5. p.body \in Content
        BY <2>1, <2>2, <2>3 DEF Content, Form
    <2>6. p \in Write
        BY <2>1, <2>2, <2>4, <2>5 DEF Write, Form
    <2>7. SoundWrite(p, form.id)
        BY <2>1, <2>2 DEF SoundWrite, Sound, SessionShape, FormInv
    <2> QED BY <2>2, <2>6, <2>7
<1> QED BY <1>1, <1>2

LEMMA MessageShape ==
    ASSUME NEW p \in Write, NEW force \in BOOLEAN
    PROVE  /\ Message(p, force) \in Sent
           /\ Sound(p) => Sound(Message(p, force))
           /\ Message(p, force).key = p.key /\ Message(p, force).body = p.body
           /\ Message(p, force).intent = p.intent
    BY DEF Message, Sent, Write, Sound

LEMMA SubmitShape ==
    ASSUME SessionShape, Submit, UNCHANGED world, TypeOK'
    PROVE  SessionShape'
<1>1. /\ form # None /\ form.text # Empty /\ waiting = None
      /\ UNCHANGED <<seen, form, offered, intents, answer, late, made, world>>
    BY DEF Submit, vars, history
<1>2. PICK p \in IF pending # None THEN {pending} ELSE NewWrites :
        /\ pending' = p /\ waiting' = p
        /\ request' = Message(p, FALSE)
        /\ SaveDraft(form, p)
    BY DEF Submit
<1>3. p \in Write /\ SoundWrite(p, form.id)
    BY <1>1, SubmitChoice
<1>4. p # None /\ Sound(p) /\ FALSE \in BOOLEAN
    BY <1>3, EditorAssumption DEF SoundWrite
<1>5. request' \in Sent /\ Sound(request')
    BY <1>2, <1>3, <1>4, MessageShape
<1>6. /\ draft' \in [Slots -> Draft \cup {None}]
      /\ \A s \in Slots : draft'[s] # None /\ draft'[s].pending # None
                            => SoundWrite(draft'[s].pending, s)
      /\ draft'[New] # None => draft'[New].intent \in 1 .. intents
    BY <1>1, <1>2, <1>3, DraftShape
<1>7. SessionTypeOK'
    BY <1>1, <1>2, <1>3, <1>5, <1>6 DEF SessionShape, SessionTypeOK
<1>8. FormInv'
    BY <1>1 DEF SessionShape, FormInv, Committed
<1>9. CarriedInv'
    <2>1. \A m \in Requests' : Sound(m)
        BY <1>1, <1>5 DEF Requests, SessionShape, CarriedInv
    <2>2. (\A m \in Requests : Sound(m))'
        BY <1>1, <2>1 DEF Requests, Sound, Committed
    <2>3. /\ (pending # None => form # None /\ SoundWrite(pending, form.id))'
          /\ (waiting # None => pending # None /\ SoundWrite(waiting, form.id))'
        BY <1>1, <1>2, <1>3, <1>4 DEF SoundWrite, Sound, Committed
    <2>4. (\A s \in Slots :
             draft[s] # None /\ draft[s].pending # None => SoundWrite(draft[s].pending, s))'
        BY <1>1, <1>6 DEF SoundWrite, Sound, Committed
    <2>5. (offered # None =>
             /\ form # None
             /\ offered.pending # None => SoundWrite(offered.pending, offered.pending.slot))'
        BY <1>1 DEF SessionShape, CarriedInv, SoundWrite, Sound, Committed
    <2>6. answer' = None
        BY <1>1 DEF SessionShape, CarriedInv
    <2> QED BY <1>1, <1>2, <1>4, <1>6, <2>2, <2>3, <2>4, <2>5, <2>6 DEF CarriedInv
<1> QED BY <1>7, <1>8, <1>9 DEF SessionShape

(* Giving up moves the request to those nobody waits for.                  *)
LEMMA AbandonStep ==
    ASSUME SessionTypeOK, Abandon
    PROVE  /\ waiting' = None /\ request' = None /\ answer' = None
           /\ late' \subseteq Sent /\ Requests' = Requests
    BY DEF SessionTypeOK, Abandon, Requests

LEMMA GiveUpShape ==
    ASSUME SessionShape, GiveUpWaiting, UNCHANGED world, TypeOK'
    PROVE  SessionShape'
<1>1. /\ waiting # None /\ SaveDraft(form, pending)
      /\ waiting' = None /\ request' = None /\ answer' = None
      /\ late' \subseteq Sent /\ Requests' = Requests
      /\ UNCHANGED <<seen, form, pending, offered, intents, made, world>>
    BY AbandonStep DEF GiveUpWaiting, vars, history, SessionShape
<1>2. PICK p \in Write \cup {None} : p = pending
    BY DEF SessionShape, SessionTypeOK
<1>3. form # None /\ (p # None => SoundWrite(p, form.id))
    BY <1>1, <1>2 DEF SessionShape, CarriedInv
<1>4. /\ draft' \in [Slots -> Draft \cup {None}]
      /\ \A s \in Slots : draft'[s] # None /\ draft'[s].pending # None
                            => SoundWrite(draft'[s].pending, s)
      /\ draft'[New] # None => draft'[New].intent \in 1 .. intents
    BY <1>1, <1>2, <1>3, DraftShape
<1>5. SessionTypeOK'
    BY <1>1, <1>4 DEF SessionShape, SessionTypeOK
<1>6. FormInv'
    BY <1>1 DEF SessionShape, FormInv, Committed
<1>7. CarriedInv'
    BY <1>1, <1>4 DEF SessionShape, CarriedInv, SoundWrite, Sound, Committed
<1> QED BY <1>5, <1>6, <1>7 DEF SessionShape

LEMMA CloseShape ==
    ASSUME SessionShape, Close, UNCHANGED world, TypeOK'
    PROVE  SessionShape'
<1>1. /\ form # None /\ SaveDraft(form, pending)
      /\ waiting' = None /\ request' = None /\ answer' = None
      /\ form' = None /\ pending' = None /\ offered' = None
      /\ late' \subseteq Sent /\ Requests' = Requests
      /\ UNCHANGED <<seen, intents, made, world>>
    BY AbandonStep DEF Close, vars, history, SessionShape
<1>2. PICK p \in Write \cup {None} : p = pending
    BY DEF SessionShape, SessionTypeOK
<1>3. p # None => SoundWrite(p, form.id)
    BY <1>1, <1>2 DEF SessionShape, CarriedInv
<1>4. /\ draft' \in [Slots -> Draft \cup {None}]
      /\ \A s \in Slots : draft'[s] # None /\ draft'[s].pending # None
                            => SoundWrite(draft'[s].pending, s)
      /\ draft'[New] # None => draft'[New].intent \in 1 .. intents
    BY <1>1, <1>2, <1>3, DraftShape
<1>5. SessionTypeOK'
    BY <1>1, <1>4 DEF SessionShape, SessionTypeOK
<1>6. FormInv'
    BY <1>1 DEF FormInv
<1>7. CarriedInv'
    BY <1>1, <1>4 DEF SessionShape, CarriedInv, SoundWrite, Sound, Committed
<1> QED BY <1>5, <1>6, <1>7 DEF SessionShape

LEMMA KillShape ==
    ASSUME SessionShape, Kill, UNCHANGED world, TypeOK'
    PROVE  SessionShape'
<1>1. /\ waiting' = None /\ request' = None /\ answer' = None
      /\ form' = None /\ pending' = None /\ offered' = None
      /\ late' \subseteq Sent /\ Requests' = Requests
      /\ UNCHANGED <<seen, draft, intents, made, world>>
    BY AbandonStep DEF Kill, vars, history, SessionShape
<1>2. SessionTypeOK'
    BY <1>1 DEF SessionShape, SessionTypeOK
<1>3. FormInv'
    BY <1>1 DEF FormInv
<1>4. CarriedInv'
    BY <1>1 DEF SessionShape, CarriedInv, SoundWrite, Sound, Committed
<1> QED BY <1>2, <1>3, <1>4 DEF SessionShape

(* While the server works, the browser remembers what it did.              *)
LEMMA RememberedShape ==
    ASSUME SessionShape, UNCHANGED <<formVars, waiting, world>>, seen \subseteq seen', TypeOK',
           Requests' \subseteq Requests, late' \subseteq Sent, request' \in {None, request},
           answer' \in Answer \cup {None},
           request' # None \/ answer' # None => waiting # None,
           request' = None \/ answer' = None,
           made' \in [1 .. world.intents -> Nat]
    PROVE  SessionShape'
<1>1. UNCHANGED <<form, pending, offered, draft, intents, waiting, world>>
    BY DEF formVars
<1>2. SessionTypeOK'
    BY <1>1 DEF SessionShape, SessionTypeOK
<1>3. FormInv'
    BY <1>1 DEF SessionShape, FormInv, Committed
<1>4. CarriedInv'
    <2>1. \A m \in Requests' : Sound(m)
        BY DEF SessionShape, CarriedInv
    <2>2. (\A m \in Requests : Sound(m))'
        BY <1>1, <2>1 DEF Requests, Sound, Committed
    <2>3. /\ (pending # None => form # None /\ SoundWrite(pending, form.id))'
          /\ (waiting # None => pending # None /\ SoundWrite(waiting, form.id))'
        BY <1>1 DEF SessionShape, CarriedInv, SoundWrite, Sound, Committed
    <2>4. /\ (\A s \in Slots :
                draft[s] # None /\ draft[s].pending # None => SoundWrite(draft[s].pending, s))'
          /\ (draft[New] # None => draft[New].intent \in 1 .. intents)'
        BY <1>1 DEF SessionShape, CarriedInv, SoundWrite, Sound, Committed
    <2>5. (offered # None =>
             /\ form # None
             /\ offered.pending # None => SoundWrite(offered.pending, offered.pending.slot))'
        BY <1>1 DEF SessionShape, CarriedInv, SoundWrite, Sound, Committed
    <2>6. (request # None \/ answer # None => waiting # None)' /\ (request = None \/ answer = None)'
        BY <1>1
    <2> QED BY <2>2, <2>3, <2>4, <2>5, <2>6 DEF CarriedInv
<1> QED BY <1>2, <1>3, <1>4 DEF SessionShape

LEMMA AcceptCounts ==
    ASSUME SessionShape, NEW m \in Requests, Accept(m)
    PROVE  made' \in [1 .. world.intents -> Nat]
<1>1. /\ m \in Sent /\ Sound(m) /\ intents <= world.intents /\ world.intents \in Nat
      /\ intents \in Nat /\ made \in [1 .. world.intents -> Nat]
    BY DEF SessionShape, SessionTypeOK, CarriedInv, Requests, World
<1>2. m.body.op = "create" => m.intent \in 1 .. world.intents
    BY <1>1 DEF Sound
<1> QED BY <1>1, <1>2 DEF Accept

LEMMA ServeAwaitedShape ==
    ASSUME SessionInv, SessionShape, ServeAwaited, UNCHANGED world, TypeOK', Kept
    PROVE  SessionShape'
<1>1. /\ request # None /\ request' = None
      /\ UNCHANGED <<formVars, waiting, late, world>>
    BY DEF ServeAwaited
<1>2. PICK m \in Requests : m = request
    BY <1>1 DEF Requests
<1>3. \/ Accept(m) /\ answer' = [kind |-> "ok", result |-> receipts'[m.key].result]
      \/ \E reply \in Answers : UNCHANGED made /\ answer' = reply
    BY <1>2 DEF ServeAwaited, Unauthorized, Decline
<1>4. answer' \in Answer \cup {None} /\ made' \in [1 .. world.intents -> Nat]
    <2>1. CASE Accept(m) /\ answer' = [kind |-> "ok", result |-> receipts'[m.key].result]
        <3>1. receipts'[m.key].result \in Result
            BY <2>1, AcceptStep
        <3> QED BY <2>1, <3>1, AcceptCounts DEF Answer
    <2>2. CASE \E reply \in Answers : UNCHANGED made /\ answer' = reply
        BY <2>2 DEF Answers, Answer, SessionShape, SessionTypeOK
    <2> QED BY <1>3, <2>1, <2>2
<1>5. waiting # None
    BY <1>1 DEF SessionShape, CarriedInv
<1>6. /\ Requests' \subseteq Requests /\ late' \subseteq Sent
    BY <1>1 DEF Requests, SessionShape, SessionTypeOK
<1> QED BY <1>1, <1>4, <1>5, <1>6, RememberedShape DEF Kept

LEMMA ServeLateShape ==
    ASSUME SessionShape, NEW m \in late, ServeLate(m), UNCHANGED world, TypeOK', Kept
    PROVE  SessionShape'
<1>1. /\ late' = late \ {m} /\ m \in Requests
      /\ UNCHANGED <<formVars, waiting, request, answer, world>>
    BY DEF ServeLate, Requests
<1>2. Accept(m) \/ UNCHANGED made
    BY DEF ServeLate, Unauthorized, Decline
<1>3. made' \in [1 .. world.intents -> Nat]
    BY <1>1, <1>2, AcceptCounts DEF SessionShape, SessionTypeOK
<1>4. /\ Requests' \subseteq Requests /\ late' \subseteq Sent
      /\ answer' \in Answer \cup {None}
      /\ request' # None \/ answer' # None => waiting # None
      /\ request' = None \/ answer' = None
    BY <1>1 DEF Requests, SessionShape, SessionTypeOK, CarriedInv
<1> QED BY <1>1, <1>3, <1>4, RememberedShape DEF Kept

LEMMA OtherShape ==
    ASSUME SessionShape, EndSession \/ Login \/ Elsewhere, UNCHANGED world, TypeOK', Kept
    PROVE  SessionShape'
<1>1. UNCHANGED <<formVars, waiting, request, answer, late, made, world>>
    BY DEF EndSession, Login, Elsewhere, wireVars, history
<1>2. /\ Requests' \subseteq Requests /\ late' \subseteq Sent
      /\ answer' \in Answer \cup {None} /\ made' \in [1 .. world.intents -> Nat]
      /\ request' # None \/ answer' # None => waiting # None
      /\ request' = None \/ answer' = None
    BY <1>1 DEF Requests, SessionShape, SessionTypeOK, CarriedInv
<1> QED BY <1>1, <1>2, RememberedShape DEF Kept

(* The answer.  A form that was typed in becomes the editor of the stored  *)
(* version, which is one that was committed.                               *)
LEMMA SavedShape ==
    ASSUME SessionShape, ResultInv, Receive, Saved, UNCHANGED world, TypeOK'
    PROVE  SessionShape'
<1> DEFINE res == answer.result
           row == Version(res)
           gone == [draft EXCEPT ![form.id] = None]
           next == [form EXCEPT !.id = res.id, !.rev = res.rev, !.base = row, !.intent = 0]
<1>1. /\ answer # None /\ answer' = None /\ answer.kind = "ok"
      /\ pending' = None /\ waiting' = None
      /\ UNCHANGED <<seen, request, late, intents, made, world>>
    BY DEF Receive, Saved, vars
<1>2. \/ form' = None /\ offered' = None /\ draft' = gone
      \/ /\ form' = next /\ offered' = offered
         /\ draft' = IF offered # None THEN gone
                     ELSE [gone EXCEPT ![next.id] = DraftOf(next, None)]
    BY DEF Saved
<1>3. res \in Result /\ Known(res)
    BY <1>1 DEF ResultInv
<1>4. /\ form # None /\ form \in Form /\ form.id \in Slots /\ New \in Slots
      /\ draft \in [Slots -> Draft \cup {None}]
    BY <1>1 DEF SessionShape, SessionTypeOK, CarriedInv, Form, Slots
<1>5. PICK v \in seen : v.id = res.id /\ v.row.rev = res.rev /\ v.row = row
    BY <1>3 DEF Known, Version
<1>6. v \in [id : Ids, row : Row]
    BY DEF SessionShape, SessionTypeOK, TypeOK
<1>7. row \in Row /\ row.rev = res.rev /\ [id |-> res.id, row |-> row] \in seen
    BY <1>5, <1>6
<1>8. res.id \in Ids /\ res.rev \in Nat /\ res.id # New /\ res.id \in Slots
    BY <1>3, EditorAssumption DEF Result, Slots
<1> HIDE DEF row, res
<1>9. /\ next \in Form /\ next.id = res.id /\ next.rev = res.rev /\ next.base = row
      /\ next.intent = 0
    BY <1>4, <1>7, <1>8 DEF Form
<1> HIDE DEF next
<1>10. DraftOf(next, None) \in Draft /\ DraftOf(next, None).pending = None
    BY <1>9 DEF DraftOf, Draft, Form
<1>11. draft' \in [Slots -> Draft \cup {None}]
    BY <1>2, <1>4, <1>8, <1>9, <1>10
<1>12. \A s \in Slots : draft'[s] # None /\ draft'[s].pending # None => draft'[s] = draft[s]
    BY <1>2, <1>4, <1>8, <1>9, <1>10
<1>13. draft'[New] # None => draft'[New] = draft[New]
    BY <1>2, <1>4, <1>8, <1>9
<1>14. request = None
    BY <1>1 DEF SessionShape, CarriedInv
<1>15. SessionTypeOK'
    BY <1>1, <1>2, <1>9, <1>11 DEF SessionShape, SessionTypeOK
<1>16. FormInv'
    BY <1>1, <1>2, <1>7, <1>8, <1>9 DEF FormInv, Committed
<1>17. CarriedInv'
    <2>1. form' = None => offered' = None
        BY <1>2, <1>9, EditorAssumption
    <2>2. (\A m \in Requests : Sound(m))'
        BY <1>1 DEF SessionShape, CarriedInv, Requests, Sound, Committed
    <2>3. (\A s \in Slots :
             draft[s] # None /\ draft[s].pending # None => SoundWrite(draft[s].pending, s))'
        BY <1>1, <1>12 DEF SessionShape, CarriedInv, SoundWrite, Sound, Committed
    <2>4. (draft[New] # None => draft[New].intent \in 1 .. intents)'
        BY <1>1, <1>13 DEF SessionShape, CarriedInv
    <2>5. (offered # None =>
             /\ form # None
             /\ offered.pending # None => SoundWrite(offered.pending, offered.pending.slot))'
        BY <1>1, <1>2, <2>1 DEF SessionShape, CarriedInv, SoundWrite, Sound, Committed
    <2> QED BY <1>1, <1>14, <2>2, <2>3, <2>4, <2>5 DEF CarriedInv
<1> QED BY <1>15, <1>16, <1>17 DEF SessionShape

LEMMA FailedShape ==
    ASSUME SessionShape, Receive, Failed, UNCHANGED world, TypeOK'
    PROVE  SessionShape'
<1>1. /\ answer # None /\ answer' = None /\ pending' = None /\ waiting' = None
      /\ SaveDraft(form, None)
      /\ UNCHANGED <<seen, form, offered, request, late, intents, made, world>>
    BY DEF Receive, Failed, vars
<1>2. form # None /\ None \in Write \cup {None}
    BY <1>1 DEF SessionShape, CarriedInv
<1>3. /\ draft' \in [Slots -> Draft \cup {None}]
      /\ \A s \in Slots : draft'[s] # None /\ draft'[s].pending # None
                            => SoundWrite(draft'[s].pending, s)
      /\ draft'[New] # None => draft'[New].intent \in 1 .. intents
    BY <1>1, <1>2, DraftShape
<1>4. SessionTypeOK'
    BY <1>1, <1>3 DEF SessionShape, SessionTypeOK
<1>5. FormInv'
    BY <1>1 DEF SessionShape, FormInv, Committed
<1>6. CarriedInv'
    BY <1>1, <1>3 DEF SessionShape, CarriedInv, SoundWrite, Sound, Committed, Requests
<1> QED BY <1>4, <1>5, <1>6 DEF SessionShape

LEMMA ProceedShape ==
    ASSUME SessionShape, Receive, Proceed, UNCHANGED world, TypeOK'
    PROVE  SessionShape'
<1>1. /\ answer # None /\ answer' = None /\ request' = Message(waiting, TRUE)
      /\ UNCHANGED <<seen, form, pending, waiting, offered, draft, late, intents, made, world>>
    BY DEF Receive, Proceed, vars
<1>2. waiting # None /\ waiting \in Write /\ Sound(waiting) /\ TRUE \in BOOLEAN
    BY <1>1 DEF SessionShape, SessionTypeOK, CarriedInv, SoundWrite
<1>3. request' \in Sent /\ Sound(request')
    BY <1>1, <1>2, MessageShape
<1>4. SessionTypeOK'
    BY <1>1, <1>3 DEF SessionShape, SessionTypeOK
<1>5. FormInv'
    BY <1>1 DEF SessionShape, FormInv, Committed
<1>6. CarriedInv'
    <2>1. \A m \in Requests' : Sound(m)
        BY <1>1, <1>3 DEF Requests, SessionShape, CarriedInv
    <2>2. (\A m \in Requests : Sound(m))'
        BY <1>1, <2>1 DEF Requests, Sound, Committed
    <2>3. (/\ pending # None => form # None /\ SoundWrite(pending, form.id)
           /\ waiting # None => pending # None /\ SoundWrite(waiting, form.id)
           /\ offered # None =>
                 /\ form # None
                 /\ offered.pending # None => SoundWrite(offered.pending, offered.pending.slot)
           /\ \A s \in Slots :
                 draft[s] # None /\ draft[s].pending # None => SoundWrite(draft[s].pending, s)
           /\ draft[New] # None => draft[New].intent \in 1 .. intents)'
        BY <1>1 DEF SessionShape, CarriedInv, SoundWrite, Sound, Committed
    <2>4. (request # None \/ answer # None => waiting # None)' /\ (request = None \/ answer = None)'
        BY <1>1, <1>2
    <2> QED BY <2>2, <2>3, <2>4 DEF CarriedInv
<1> QED BY <1>4, <1>5, <1>6 DEF SessionShape

(* The results the browser hears of stay known.                            *)
LEMMA ResultStep ==
    ASSUME SessionInv, Step, StoreEffect
    PROVE  ResultInv'
<1>1. (\A k \in Keys : receipts[k] # NoReceipt => Known(receipts[k].result))'
    BY DEF StoreEffect
<1>2. (answer # None /\ answer.kind = "ok" => answer.result \in Result /\ Known(answer.result))'
    <2>1. CASE ServeAwaited
        <3>1. request \in Requests
            BY <2>1 DEF ServeAwaited, Requests
        <3>2. PICK m \in Requests : m = request
            BY <3>1
        <3>3. CASE Accept(m) /\ answer' = [kind |-> "ok", result |-> receipts'[m.key].result]
            <4>1. receipts'[m.key] # NoReceipt /\ receipts'[m.key].result \in Result
                BY <3>3, AcceptStep
            <4>2. m.key \in Keys
                BY DEF SessionInv, SessionTypeOK, Requests, Sent
            <4>3. (Known(receipts[m.key].result))'
                BY <4>1, <4>2 DEF StoreEffect
            <4> QED BY <3>3, <4>1, <4>3 DEF Known
        <3>4. CASE \E reply \in Answers : answer' = reply
            BY <3>4 DEF Answers
        <3> QED BY <2>1, <3>2, <3>3, <3>4 DEF ServeAwaited
    <2>2. CASE answer' \in {answer, None}
        BY <2>2 DEF SessionInv, ResultInv, Known, StoreEffect, Kept
    <2>3. ServeAwaited \/ answer' \in {answer, None}
        BY DEF Step, OpenNew, OpenEdit, Type, AutoSaveDraft, RestoreDraft, DiscardDraft,
               Submit, GiveUpWaiting, Close, Kill, Abandon, ServeLate, Receive, EndSession, Login,
               Elsewhere, wireVars
    <2> QED BY <2>1, <2>2, <2>3
<1> QED BY <1>1, <1>2 DEF ResultInv

LEMMA RestoredIntent ==
    ASSUME SessionShape, FreshInv, RestoreDraft
    PROVE  form.id = New => offered.intent \in 1 .. intents
<1>1. form # None /\ offered # None
    BY DEF RestoreDraft
<1> QED BY <1>1 DEF SessionShape, CarriedInv, FreshInv

LEMMA ShapeStep ==
    ASSUME SessionInv, SessionNext, StoreEffect, Inv'
    PROVE  SessionShape'
<1>1. SessionShape /\ FreshInv /\ ResultInv /\ TypeOK' /\ Kept /\ Inv /\ UNCHANGED world
    BY TypesNext DEF SessionInv, SessionShape, IntentInv, StoreEffect, SessionNext
<1>2. CASE OpenNew
    BY <1>1, <1>2, OpenNewShape
<1>3. ASSUME NEW i \in Ids, OpenEdit(i) PROVE SessionShape'
    BY <1>1, <1>3, OpenEditShape
<1>4. ASSUME NEW t \in world.texts, Type(t) PROVE SessionShape'
    <2>1. t \in Texts
        BY <1>1 DEF SessionShape, SessionTypeOK, World
    <2> QED BY <1>1, <1>4, <2>1, TypeShape
<1>5. CASE AutoSaveDraft
    BY <1>1, <1>5, AutoSaveDraftShape
<1>6. CASE RestoreDraft
    BY <1>1, <1>6, RestoredIntent, RestoreDraftShape
<1>7. CASE DiscardDraft
    BY <1>1, <1>7, DiscardDraftShape
<1>8. CASE Submit
    BY <1>1, <1>8, SubmitShape
<1>9. CASE GiveUpWaiting
    BY <1>1, <1>9, GiveUpShape
<1>10. CASE Close
    BY <1>1, <1>10, CloseShape
<1>11. CASE Kill
    BY <1>1, <1>11, KillShape
<1>12. CASE ServeAwaited
    BY <1>1, <1>12, ServeAwaitedShape
<1>13. ASSUME NEW m \in late, ServeLate(m) PROVE SessionShape'
    BY <1>1, <1>13, ServeLateShape
<1>14. CASE Receive
    <2>1. Saved \/ Failed \/ Proceed
        BY <1>14 DEF Receive
    <2> QED BY <1>1, <1>14, <2>1, SavedShape, FailedShape, ProceedShape
<1>15. CASE EndSession \/ Login \/ Elsewhere
    BY <1>1, <1>15, OtherShape
<1>16. Step
    BY DEF SessionNext
<1> QED BY <1>2, <1>3, <1>4, <1>5, <1>6, <1>7, <1>8, <1>9, <1>10, <1>11, <1>12, <1>13,
           <1>14, <1>15, <1>16 DEF Step

-----------------------------------------------------------------------------
(* One record for each intent.  Most steps carry no creation that was not  *)
(* carried before, though they may copy its key to another place.          *)
LEMMA CarriersTyped ==
    ASSUME SessionShape, NEW x \in Creations
    PROVE  /\ x.key \in Keys /\ x.intent \in 1 .. intents
           /\ intents \in Nat /\ 1 .. intents \subseteq DOMAIN made
           /\ made \in [DOMAIN made -> Nat]
<1>1. /\ intents \in 0 .. world.intents /\ world.intents \in Nat
      /\ made \in [1 .. world.intents -> Nat]
    BY DEF SessionShape, SessionTypeOK, World
<1>2. New \in Slots
    BY DEF Slots
<1>3. ASSUME x \in Requests PROVE x.key \in Keys /\ x.intent \in 1 .. intents
    BY <1>3 DEF SessionShape, SessionTypeOK, CarriedInv, Requests, Sent, Sound, Creations
<1>4. ASSUME x \in {pending, waiting} \ {None}
      PROVE  x.key \in Keys /\ x.intent \in 1 .. intents
    BY <1>4 DEF SessionShape, SessionTypeOK, CarriedInv, Write, SoundWrite, Sound, Creations
<1>5. ASSUME draft[New] # None, x = draft[New].pending, x # None
      PROVE  x.key \in Keys /\ x.intent \in 1 .. intents
    BY <1>2, <1>5 DEF SessionShape, SessionTypeOK, CarriedInv, Draft, Write, SoundWrite, Sound, Creations
<1>6. x \in Requests \/ x \in {pending, waiting} \ {None}
        \/ (draft[New] # None /\ x = draft[New].pending /\ x # None)
    BY DEF Creations, Carriers
<1>7. x.key \in Keys /\ x.intent \in 1 .. intents
    BY <1>3, <1>4, <1>5, <1>6
<1> QED BY <1>1, <1>7

(* Copies == what is carried afterwards has the key and the intent of what *)
(* was carried before.                                                     *)
Copies ==
    /\ \A x \in Creations' : \E y \in Creations : x.key = y.key /\ x.intent = y.intent
    /\ dropped \subseteq dropped'

LEMMA IntentsStay ==
    ASSUME SessionShape, IntentInv, Copies, Kept, UNCHANGED made
    PROVE  /\ OneKey' /\ DoneIsReceipted' /\ DuplicatesOnlyAfterRefusal'
           /\ \A n : Untouched(n) => made'[n] = 0 /\ \A x \in Creations' : x.intent # n
<1>1. OneKey'
    <2> SUFFICES ASSUME NEW x \in Creations', NEW y \in Creations',
                        x.intent = y.intent, x.intent \notin dropped'
                 PROVE  x.key = y.key
        BY DEF OneKey
    <2>1. PICK a \in Creations : x.key = a.key /\ x.intent = a.intent
        BY DEF Copies
    <2>2. PICK b \in Creations : y.key = b.key /\ y.intent = b.intent
        BY DEF Copies
    <2>3. a.intent \notin dropped
        BY <2>1 DEF Copies
    <2> QED BY <2>1, <2>2, <2>3 DEF IntentInv, OneKey
<1>2. DoneIsReceipted'
    <2> SUFFICES ASSUME NEW x \in Creations', x.intent \notin dropped'
                 PROVE  made'[x.intent] = 0 \/ receipts'[x.key] # NoReceipt
        BY DEF DoneIsReceipted
    <2>1. PICK a \in Creations : x.key = a.key /\ x.intent = a.intent
        BY DEF Copies
    <2>2. a.intent \notin dropped /\ a.key \in Keys
        BY <2>1, CarriersTyped DEF Copies
    <2>3. made[a.intent] = 0 \/ receipts[a.key] # NoReceipt
        BY <2>2 DEF IntentInv, DoneIsReceipted
    <2> QED BY <2>1, <2>2, <2>3 DEF Kept
<1>3. DuplicatesOnlyAfterRefusal'
    BY DEF IntentInv, DuplicatesOnlyAfterRefusal, Copies
<1>4. ASSUME NEW n, Untouched(n) PROVE made'[n] = 0 /\ \A x \in Creations' : x.intent # n
    BY <1>4 DEF Untouched, Copies
<1> QED BY <1>1, <1>2, <1>3, <1>4

(* Fewer carriers are copies.                                              *)
LEMMA FewerAreCopies ==
    ASSUME Carriers' \subseteq Carriers, dropped \subseteq dropped'
    PROVE  Copies
BY DEF Copies, Creations

(* An accepted creation is the first of its intent: were it not, its key   *)
(* would be receipted.                                                     *)
LEMMA AcceptIntents ==
    ASSUME SessionInv, SessionShape, NEW m \in Requests, Accept(m), Kept,
           Carriers' \subseteq Carriers, UNCHANGED <<formVars, dropped>>
    PROVE  IntentInv'
<1>1. CASE made' = made
    <2>1. Copies
        BY FewerAreCopies
    <2>2. IntentInv
        BY DEF SessionInv
    <2>3. /\ OneKey' /\ DoneIsReceipted' /\ DuplicatesOnlyAfterRefusal'
          /\ \A n : Untouched(n) => made'[n] = 0 /\ \A x \in Creations' : x.intent # n
        BY <1>1, <2>1, <2>2, IntentsStay
    <2>4. FreshInv'
        BY <1>1, <2>2, <2>3 DEF IntentInv, FreshInv, WithoutWrite, Untouched, formVars
    <2> QED BY <2>3, <2>4 DEF IntentInv
<1>2. CASE m.body.op = "create" /\ Fresh(m) /\ made' = [made EXCEPT ![m.intent] = @ + 1]
    <2>1. m # None
        BY EditorAssumption DEF SessionInv, SessionTypeOK, Requests
    <2>2. m \in Creations
        BY <1>2, <2>1 DEF Creations, Carriers
    <2>3. /\ m.key \in Keys /\ m.intent \in 1 .. intents /\ m.intent \in DOMAIN made
          /\ made \in [DOMAIN made -> Nat] /\ intents \in Nat
        BY <2>2, CarriersTyped
    <2>4. receipts[m.key] = NoReceipt
        BY <1>2, <2>3, NullsAssumption DEF Fresh
    <2>5. m.intent \notin dropped => made[m.intent] = 0
        BY <2>2, <2>4 DEF SessionInv, IntentInv, DoneIsReceipted
    <2>6. receipts'[m.key] # NoReceipt
        BY AcceptStep
    <2>7. Creations' \subseteq Creations /\ UNCHANGED <<form, pending, offered, draft, intents, dropped>>
        BY DEF Creations, formVars
    <2>8. DOMAIN made' = DOMAIN made /\ \A n \in DOMAIN made : n # m.intent => made'[n] = made[n]
        BY <1>2, <2>3
    <2>9. m.intent \notin dropped => made'[m.intent] = 1
        BY <1>2, <2>3, <2>5
    <2>10. OneKey'
        BY <2>7 DEF SessionInv, IntentInv, OneKey
    <2>11. DoneIsReceipted'
        <3> SUFFICES ASSUME NEW x \in Creations', x.intent \notin dropped'
                     PROVE  made'[x.intent] = 0 \/ receipts'[x.key] # NoReceipt
            BY DEF DoneIsReceipted
        <3>1. x \in Creations /\ x.intent \notin dropped
            BY <2>7
        <3>2. x.key \in Keys /\ x.intent \in DOMAIN made
            BY <3>1, CarriersTyped
        <3>3. CASE x.intent = m.intent
            <4>1. x.key = m.key
                BY <2>2, <3>1, <3>3 DEF SessionInv, IntentInv, OneKey
            <4> QED BY <2>6, <4>1
        <3>4. CASE x.intent # m.intent
            <4>1. made[x.intent] = 0 \/ receipts[x.key] # NoReceipt
                BY <3>1 DEF SessionInv, IntentInv, DoneIsReceipted
            <4> QED BY <2>8, <3>2, <3>4, <4>1 DEF Kept
        <3> QED BY <3>3, <3>4
    <2>12. DuplicatesOnlyAfterRefusal'
        BY <2>7, <2>8, <2>9 DEF SessionInv, IntentInv, DuplicatesOnlyAfterRefusal
    <2>13. \A n \in 1 .. intents : Untouched(n) => Untouched(n)'
        <3> SUFFICES ASSUME NEW n \in 1 .. intents, Untouched(n) PROVE Untouched(n)'
            OBVIOUS
        <3>1. n # m.intent /\ n \in DOMAIN made
            BY <2>2, <2>3, CarriersTyped DEF Untouched
        <3> QED BY <2>7, <2>8, <3>1 DEF Untouched
    <2>14. FreshInv'
        <3>1. (form # None /\ form.id = New /\ WithoutWrite(form.intent, pending)
                 => Untouched(form.intent))'
            <4> SUFFICES ASSUME form # None, form.id = New, WithoutWrite(form.intent, pending)
                         PROVE  Untouched(form.intent)'
                BY <2>7 DEF WithoutWrite
            <4>1. form.intent \in 1 .. intents /\ Untouched(form.intent)
                BY DEF SessionInv, IntentInv, FreshInv, FormInv
            <4>2. PICK n \in 1 .. intents : n = form.intent
                BY <4>1
            <4> QED BY <2>7, <2>13, <4>1, <4>2 DEF Untouched
        <3>2. (draft[New] # None /\ WithoutWrite(draft[New].intent, draft[New].pending)
                 => Untouched(draft[New].intent))'
            <4> SUFFICES ASSUME draft[New] # None, WithoutWrite(draft[New].intent, draft[New].pending)
                         PROVE  Untouched(draft[New].intent)'
                BY <2>7 DEF WithoutWrite
            <4>1. draft[New].intent \in 1 .. intents /\ Untouched(draft[New].intent)
                BY DEF SessionInv, IntentInv, FreshInv, CarriedInv
            <4>2. PICK n \in 1 .. intents : n = draft[New].intent
                BY <4>1
            <4> QED BY <2>7, <2>13, <4>1, <4>2 DEF Untouched
        <3>3. (form # None /\ form.id = New /\ offered # None
                 => offered = draft[New] /\ offered.intent # form.intent)'
            BY <2>7 DEF SessionInv, IntentInv, FreshInv
        <3>4. (\A n \in DOMAIN made : n > intents => made[n] = 0)'
            BY <2>3, <2>7, <2>8 DEF SessionInv, IntentInv, FreshInv
        <3> QED BY <3>1, <3>2, <3>3, <3>4 DEF FreshInv
    <2> QED BY <2>10, <2>11, <2>12, <2>14 DEF IntentInv
<1> QED BY <1>1, <1>2 DEF Accept

LEMMA OpenNewIntents ==
    ASSUME SessionInv, SessionShape, OpenNew, Kept PROVE IntentInv'
<1>1. /\ form = None /\ intents' = intents + 1 /\ intents < world.intents
      /\ form' = [id |-> New, rev |-> NoRev, base |-> NoRow,
                  text |-> Empty, orig |-> Empty, intent |-> intents + 1]
      /\ offered' = draft[New]
      /\ UNCHANGED <<pending, draft, waiting, request, answer, late, made, dropped>>
    BY DEF OpenNew, wireVars, history
<1>2. Carriers' = Carriers /\ Creations' = Creations
    BY <1>1 DEF Creations, Carriers, Requests
<1>3. IntentInv /\ Copies
    BY <1>1, <1>2, FewerAreCopies DEF SessionInv
<1>4. /\ OneKey' /\ DoneIsReceipted' /\ DuplicatesOnlyAfterRefusal'
      /\ \A n : Untouched(n) => made'[n] = 0 /\ \A x \in Creations' : x.intent # n
    BY <1>1, <1>3, IntentsStay
<1>5. /\ intents \in Nat /\ world.intents \in Nat /\ intents + 1 \in DOMAIN made
      /\ intents + 1 > intents
    BY <1>1 DEF SessionShape, SessionTypeOK, World
<1>6. made[intents + 1] = 0
    BY <1>3, <1>5 DEF IntentInv, FreshInv
<1>7. \A x \in Creations : x.intent # intents + 1
    BY <1>5, CarriersTyped
<1>8. form'.intent = intents + 1 /\ form'.id = New
    BY <1>1
<1>9. draft[New] # None => draft[New].intent \in 1 .. intents /\ draft[New].intent # intents + 1
    BY <1>5 DEF SessionShape, CarriedInv
<1>10. FreshInv'
    <2>1. Untouched(form.intent)'
        BY <1>1, <1>2, <1>6, <1>7, <1>8 DEF Untouched
    <2>2. (draft[New] # None /\ WithoutWrite(draft[New].intent, draft[New].pending)
             => Untouched(draft[New].intent))'
        BY <1>1, <1>3, <1>4 DEF IntentInv, FreshInv, WithoutWrite, Untouched
    <2>3. (form # None /\ form.id = New /\ offered # None
             => offered = draft[New] /\ offered.intent # form.intent)'
        BY <1>1, <1>8, <1>9
    <2>4. (\A n \in DOMAIN made : n > intents => made[n] = 0)'
        <3> SUFFICES ASSUME NEW n \in DOMAIN made, n > intents + 1 PROVE made[n] = 0
            BY <1>1
        <3>1. n \in Nat
            BY DEF SessionShape, SessionTypeOK
        <3>2. n > intents
            BY <1>5, <3>1
        <3> QED BY <1>3, <3>2 DEF IntentInv, FreshInv
    <2> QED BY <2>1, <2>2, <2>3, <2>4 DEF FreshInv
<1> QED BY <1>4, <1>10 DEF IntentInv

LEMMA OpenEditIntents ==
    ASSUME SessionInv, SessionShape, NEW i \in Ids, OpenEdit(i), Kept PROVE IntentInv'
<1>1. /\ form'.id = i /\ i # New
      /\ UNCHANGED <<pending, draft, intents, waiting, request, answer, late, made, dropped>>
    BY EditorAssumption DEF OpenEdit, wireVars, history
<1>2. Carriers' = Carriers
    BY <1>1 DEF Carriers, Requests
<1>3. IntentInv /\ Copies
    BY <1>1, <1>2, FewerAreCopies DEF SessionInv
<1>4. /\ OneKey' /\ DoneIsReceipted' /\ DuplicatesOnlyAfterRefusal'
      /\ \A n : Untouched(n) => made'[n] = 0 /\ \A x \in Creations' : x.intent # n
    BY <1>1, <1>3, IntentsStay
<1>5. FreshInv'
    BY <1>1, <1>3, <1>4 DEF IntentInv, FreshInv, WithoutWrite, Untouched
<1> QED BY <1>4, <1>5 DEF IntentInv

LEMMA TypeIntents ==
    ASSUME SessionInv, SessionShape, NEW t \in Texts, Type(t), Kept PROVE IntentInv'
<1>1. /\ form # None /\ form' = [form EXCEPT !.text = t]
      /\ UNCHANGED <<pending, offered, draft, intents, waiting, request, answer, late, made, dropped>>
    BY DEF Type, wireVars, history
<1>2. form'.id = form.id /\ form'.intent = form.intent
    BY <1>1 DEF SessionShape, SessionTypeOK, Form
<1>3. Carriers' = Carriers
    BY <1>1 DEF Carriers, Requests
<1>4. IntentInv /\ Copies
    BY <1>1, <1>3, FewerAreCopies DEF SessionInv
<1>5. /\ OneKey' /\ DoneIsReceipted' /\ DuplicatesOnlyAfterRefusal'
      /\ \A n : Untouched(n) => made'[n] = 0 /\ \A x \in Creations' : x.intent # n
    BY <1>1, <1>4, IntentsStay
<1>6. FreshInv'
    BY <1>1, <1>2, <1>4, <1>5 DEF IntentInv, FreshInv, WithoutWrite, Untouched
<1> QED BY <1>5, <1>6 DEF IntentInv

(* A saved draft carries a write of the form or of the draft before it.    *)
LEMMA DraftCarries ==
    ASSUME SessionShape, form # None, NEW p \in Write \cup {None}, SaveDraft(form, p)
    PROVE  {d.pending : d \in {draft'[New]} \ {None}} \ {None} \subseteq Carriers \cup ({p} \ {None})
<1>1. New \in Slots /\ form.id \in Slots
    BY DEF SessionShape, SessionTypeOK, Form, Slots
<1>2. draft'[New] \in {draft[New], None} \/ draft'[New] = DraftOf(form, p)
    BY <1>1, SaveDraftStep DEF SessionShape
<1>3. DraftOf(form, p).pending = p
    BY DEF DraftOf
<1> QED BY <1>2, <1>3 DEF Carriers

(* A draft saved with the form's own write is as fresh as the form.        *)
LEMMA SavedDraftIsFresh ==
    ASSUME SessionShape, FreshInv, form # None, NEW p \in Write \cup {None}, SaveDraft(form, p),
           form.id = New /\ WithoutWrite(form.intent, p) => Untouched(form.intent)
    PROVE  /\ draft'[New] # None /\ WithoutWrite(draft'[New].intent, draft'[New].pending)
                => Untouched(draft'[New].intent) \/ (draft'[New] = draft[New] /\ offered # None)
           /\ form.id = New /\ offered # None => draft' = draft
<1>1. New \in Slots /\ form.id \in Slots
    BY DEF SessionShape, SessionTypeOK, Form, Slots
<1>2. CASE form.id = New
    <2>1. \/ draft'[New] = draft[New] /\ offered # None
          \/ draft'[New] = None
          \/ draft'[New] = DraftOf(form, p)
        BY <1>2, SaveDraftStep DEF SessionShape
    <2>2. DraftOf(form, p).pending = p /\ DraftOf(form, p).intent = form.intent
        BY DEF DraftOf
    <2> QED BY <1>2, <2>1, <2>2 DEF SaveDraft
<1>3. CASE form.id # New
    <2>1. draft'[New] = draft[New]
        BY <1>1, <1>3, SaveDraftStep DEF SessionShape
    <2> QED BY <1>3, <2>1 DEF FreshInv
<1> QED BY <1>2, <1>3

LEMMA AutoSaveDraftIntents ==
    ASSUME SessionInv, SessionShape, AutoSaveDraft, Kept PROVE IntentInv'
<1>1. /\ form # None /\ SaveDraft(form, pending)
      /\ UNCHANGED <<form, pending, offered, intents, waiting, request, answer, late, made, dropped>>
    BY DEF AutoSaveDraft, wireVars, history
<1>2. PICK p \in Write \cup {None} : p = pending
    BY DEF SessionShape, SessionTypeOK
<1>3. {d.pending : d \in {draft'[New]} \ {None}} \ {None} \subseteq Carriers
    <2>1. {d.pending : d \in {draft'[New]} \ {None}} \ {None} \subseteq Carriers \cup ({p} \ {None})
        BY <1>1, <1>2, DraftCarries
    <2> QED BY <1>2, <2>1 DEF Carriers
<1>4. Carriers' \subseteq Carriers
    BY <1>1, <1>3 DEF Carriers, Requests
<1>5. IntentInv /\ Copies
    BY <1>1, <1>4, FewerAreCopies DEF SessionInv
<1>6. /\ OneKey' /\ DoneIsReceipted' /\ DuplicatesOnlyAfterRefusal'
      /\ \A n : Untouched(n) => made'[n] = 0 /\ \A x \in Creations' : x.intent # n
    BY <1>1, <1>5, IntentsStay
<1>7. form.id = New /\ WithoutWrite(form.intent, p) => Untouched(form.intent)
    BY <1>1, <1>2, <1>5 DEF IntentInv, FreshInv
<1>8. /\ draft'[New] # None /\ WithoutWrite(draft'[New].intent, draft'[New].pending)
           => Untouched(draft'[New].intent) \/ draft'[New] = draft[New]
      /\ form.id = New /\ offered # None => draft' = draft
    BY <1>1, <1>2, <1>5, <1>7, SavedDraftIsFresh DEF IntentInv
<1>9. FreshInv'
    BY <1>1, <1>5, <1>6, <1>8 DEF IntentInv, FreshInv, WithoutWrite, Untouched
<1> QED BY <1>6, <1>9 DEF IntentInv

LEMMA RestoreDraftIntents ==
    ASSUME SessionInv, SessionShape, RestoreDraft, Kept PROVE IntentInv'
<1>1. /\ form # None /\ offered # None
      /\ form' = [form EXCEPT !.text = offered.text, !.intent = offered.intent]
      /\ pending' = IF offered.pending # None /\ offered.pending.slot = form.id
                      THEN offered.pending ELSE pending
      /\ offered' = None
      /\ UNCHANGED <<draft, intents, waiting, request, answer, late, made, dropped>>
    BY DEF RestoreDraft, wireVars, history
<1>2. form \in Form /\ offered \in Draft /\ New \in Slots
    BY <1>1 DEF SessionShape, SessionTypeOK, Slots
<1>3. form'.id = form.id /\ form'.intent = offered.intent
    BY <1>1, <1>2 DEF Form
<1>4. CASE form.id = New
    <2>1. offered = draft[New]
        BY <1>1, <1>4 DEF SessionInv, IntentInv, FreshInv
    <2>2. offered.pending # None => offered.pending.slot = New
        BY <1>1, <1>2, <2>1 DEF SessionShape, CarriedInv, SoundWrite
    <2>3. pending' = IF offered.pending # None THEN offered.pending ELSE pending
        BY <1>1, <1>4, <2>2
    <2>4. Carriers' \subseteq Carriers
        BY <1>1, <2>1, <2>3 DEF Carriers, Requests
    <2>5. IntentInv /\ Copies
        BY <1>1, <2>4, FewerAreCopies DEF SessionInv
    <2>6. /\ OneKey' /\ DoneIsReceipted' /\ DuplicatesOnlyAfterRefusal'
          /\ \A n : Untouched(n) => made'[n] = 0 /\ \A x \in Creations' : x.intent # n
        BY <1>1, <2>5, IntentsStay
    <2>7. WithoutWrite(offered.intent, pending') => WithoutWrite(draft[New].intent, draft[New].pending)
        BY <2>1, <2>3 DEF WithoutWrite
    <2>8. FreshInv'
        BY <1>1, <1>3, <2>1, <2>5, <2>6, <2>7 DEF IntentInv, FreshInv, WithoutWrite, Untouched
    <2> QED BY <2>6, <2>8 DEF IntentInv
<1>5. CASE form.id # New
    <2>1. offered.pending # None /\ offered.pending.slot = form.id
            => offered.pending.body.op # "create"
        BY <1>1, <1>5 DEF SessionShape, CarriedInv, SoundWrite
    <2>2. Creations' \subseteq Creations
        BY <1>1, <2>1 DEF Creations, Carriers, Requests
    <2>3. IntentInv /\ Copies
        BY <1>1, <2>2 DEF SessionInv, Copies
    <2>4. /\ OneKey' /\ DoneIsReceipted' /\ DuplicatesOnlyAfterRefusal'
          /\ \A n : Untouched(n) => made'[n] = 0 /\ \A x \in Creations' : x.intent # n
        BY <1>1, <2>3, IntentsStay
    <2>5. FreshInv'
        BY <1>1, <1>3, <1>5, <2>3, <2>4 DEF IntentInv, FreshInv, WithoutWrite, Untouched
    <2> QED BY <2>4, <2>5 DEF IntentInv
<1> QED BY <1>4, <1>5

LEMMA DiscardDraftIntents ==
    ASSUME SessionInv, SessionShape, DiscardDraft, Kept PROVE IntentInv'
<1>1. /\ form # None /\ offered' = None
      /\ draft' = [draft EXCEPT ![form.id] = None]
      /\ UNCHANGED <<form, pending, intents, waiting, request, answer, late, made, dropped>>
    BY DEF DiscardDraft, wireVars, history
<1>2. draft'[New] \in {draft[New], None}
    BY <1>1 DEF SessionShape, SessionTypeOK, Slots
<1>3. Carriers' \subseteq Carriers
    BY <1>1, <1>2 DEF Carriers, Requests
<1>4. IntentInv /\ Copies
    BY <1>1, <1>3, FewerAreCopies DEF SessionInv
<1>5. /\ OneKey' /\ DoneIsReceipted' /\ DuplicatesOnlyAfterRefusal'
      /\ \A n : Untouched(n) => made'[n] = 0 /\ \A x \in Creations' : x.intent # n
    BY <1>1, <1>4, IntentsStay
<1>6. FreshInv'
    BY <1>1, <1>2, <1>4, <1>5 DEF IntentInv, FreshInv, WithoutWrite, Untouched
<1> QED BY <1>5, <1>6 DEF IntentInv

(* Giving up, closing and killing: the draft may be saved.                 *)
LEMMA LeaveIntents ==
    ASSUME SessionInv, SessionShape, Kept, form # None,
           SaveDraft(form, pending) \/ UNCHANGED draft,
           Abandon, UNCHANGED <<intents, made, dropped>>,
           \/ form' = None /\ pending' = None /\ offered' = None
           \/ UNCHANGED <<form, pending, offered>>
    PROVE  IntentInv'
<1>1. waiting' = None /\ Requests' = Requests
    BY AbandonStep DEF SessionShape
<1>2. PICK p \in Write \cup {None} : p = pending
    BY DEF SessionShape, SessionTypeOK
<1>3. {d.pending : d \in {draft'[New]} \ {None}} \ {None} \subseteq Carriers
    <2>1. CASE UNCHANGED draft
        BY <2>1 DEF Carriers
    <2>2. CASE SaveDraft(form, pending)
        <3>1. {d.pending : d \in {draft'[New]} \ {None}} \ {None} \subseteq Carriers \cup ({p} \ {None})
            BY <1>2, <2>2, DraftCarries
        <3> QED BY <1>2, <3>1 DEF Carriers
    <2> QED BY <2>1, <2>2
<1>4. Carriers' \subseteq Carriers
    BY <1>1, <1>3 DEF Carriers
<1>5. IntentInv /\ Copies
    BY <1>4, FewerAreCopies DEF SessionInv
<1>6. /\ OneKey' /\ DoneIsReceipted' /\ DuplicatesOnlyAfterRefusal'
      /\ \A n : Untouched(n) => made'[n] = 0 /\ \A x \in Creations' : x.intent # n
    BY <1>5, IntentsStay
<1>7. form.id = New /\ WithoutWrite(form.intent, p) => Untouched(form.intent)
    BY <1>2, <1>5 DEF IntentInv, FreshInv
<1>8. /\ draft'[New] # None /\ WithoutWrite(draft'[New].intent, draft'[New].pending)
           => Untouched(draft'[New].intent) \/ draft'[New] = draft[New]
      /\ form.id = New /\ offered # None => draft' = draft
    <2>1. CASE UNCHANGED draft
        BY <2>1
    <2>2. CASE SaveDraft(form, pending)
        BY <1>2, <1>5, <1>7, <2>2, SavedDraftIsFresh DEF IntentInv
    <2> QED BY <2>1, <2>2
<1>9. FreshInv'
    BY <1>5, <1>6, <1>8 DEF IntentInv, FreshInv, WithoutWrite, Untouched
<1> QED BY <1>6, <1>9 DEF IntentInv

(* A submit makes a new write only if none is pending, and a new creation  *)
(* only of an intent for which nothing was sent.                           *)
LEMMA SubmitIntents ==
    ASSUME SessionInv, SessionShape, Submit, Kept PROVE IntentInv'
<1>1. /\ form # None /\ form.text # Empty /\ waiting = None
      /\ UNCHANGED <<form, offered, intents, answer, late, made, dropped>>
    BY DEF Submit, history
<1>2. PICK p \in IF pending # None THEN {pending} ELSE NewWrites :
        /\ pending' = p /\ waiting' = p
        /\ request' = Message(p, FALSE)
        /\ SaveDraft(form, p)
    BY DEF Submit
<1>3. /\ p \in Write /\ SoundWrite(p, form.id) /\ p # None
      /\ pending = None => p.intent = form.intent
    BY <1>1, <1>2, SubmitChoice, EditorAssumption
<1>4. PICK sent \in Sent :
        /\ sent = Message(p, FALSE) /\ sent.key = p.key /\ sent.body = p.body
        /\ sent.intent = p.intent
    BY <1>3, MessageShape
<1>5. Carriers' \subseteq Carriers \cup {p, sent}
    <2>1. {d.pending : d \in {draft'[New]} \ {None}} \ {None} \subseteq Carriers \cup {p}
        BY <1>1, <1>2, <1>3, DraftCarries
    <2> QED BY <1>1, <1>2, <1>4, <2>1 DEF Carriers, Requests
<1>6. Creations' \subseteq Creations \cup {x \in {p, sent} : p.body.op = "create"}
    BY <1>4, <1>5 DEF Creations
<1>7. IntentInv
    BY DEF SessionInv
<1>8. form.id = New /\ WithoutWrite(form.intent, p) => Untouched(form.intent)
    BY <1>1, <1>2, <1>3, <1>7 DEF IntentInv, FreshInv, WithoutWrite
<1>9. /\ draft'[New] # None /\ WithoutWrite(draft'[New].intent, draft'[New].pending)
           => Untouched(draft'[New].intent) \/ (draft'[New] = draft[New] /\ offered # None)
      /\ form.id = New /\ offered # None => draft' = draft
    BY <1>1, <1>2, <1>3, <1>7, <1>8, SavedDraftIsFresh DEF IntentInv
<1>10. CASE pending # None \/ p.body.op # "create"
    <2>1. Copies
        <3> SUFFICES ASSUME NEW x \in Creations'
                     PROVE  \E y \in Creations : x.key = y.key /\ x.intent = y.intent
            BY <1>1 DEF Copies
        <3>1. CASE x \in Creations
            BY <3>1
        <3>2. CASE x \in {p, sent} /\ p.body.op = "create"
            <4>1. p = pending
                BY <1>2, <1>10, <3>2
            <4>2. p \in Creations
                BY <1>3, <3>2, <4>1 DEF Creations, Carriers
            <4> QED BY <1>4, <3>2, <4>2
        <3> QED BY <1>6, <3>1, <3>2
    <2>2. /\ OneKey' /\ DoneIsReceipted' /\ DuplicatesOnlyAfterRefusal'
          /\ \A n : Untouched(n) => made'[n] = 0 /\ \A x \in Creations' : x.intent # n
        BY <1>1, <1>7, <2>1, IntentsStay
    <2>3. FreshInv'
        BY <1>1, <1>2, <1>7, <1>8, <1>9, <2>2 DEF IntentInv, FreshInv, WithoutWrite, Untouched
    <2> QED BY <2>2, <2>3 DEF IntentInv
<1>11. CASE pending = None /\ p.body.op = "create"
    <2>1. form.id = New /\ p.intent = form.intent
        BY <1>3, <1>11 DEF SoundWrite
    <2>2. p.intent \notin dropped => Untouched(p.intent)
        BY <1>1, <1>7, <1>11, <2>1 DEF IntentInv, FreshInv, WithoutWrite
    <2>3. \A x \in Creations' :
            \/ x \in Creations /\ (x.intent = p.intent => p.intent \in dropped)
            \/ x \notin Creations /\ x.key = p.key /\ x.intent = p.intent
        BY <1>4, <1>6, <2>2 DEF Untouched
    <2>4. OneKey'
        BY <1>1, <1>7, <2>3 DEF IntentInv, OneKey
    <2>5. DoneIsReceipted'
        <3> SUFFICES ASSUME NEW x \in Creations', x.intent \notin dropped
                     PROVE  made[x.intent] = 0 \/ receipts'[x.key] # NoReceipt
            BY <1>1 DEF DoneIsReceipted
        <3>1. CASE x \in Creations
            BY <1>7, <3>1, CarriersTyped DEF IntentInv, DoneIsReceipted, Kept
        <3>2. CASE x \notin Creations
            BY <2>2, <2>3, <3>2 DEF Untouched
        <3> QED BY <3>1, <3>2
    <2>6. DuplicatesOnlyAfterRefusal'
        BY <1>1, <1>7 DEF IntentInv, DuplicatesOnlyAfterRefusal
    <2>7. FreshInv'
        <3>1. ~WithoutWrite(form.intent, p)
            BY <1>3, <2>1 DEF WithoutWrite
        <3>2. CASE offered # None
            <4>1. draft' = draft /\ draft[New] = offered /\ offered.intent # p.intent
                BY <1>1, <1>7, <1>9, <2>1, <3>2 DEF IntentInv, FreshInv
            <4>2. draft[New] # None /\ WithoutWrite(draft[New].intent, draft[New].pending)
                    => made[draft[New].intent] = 0
                         /\ \A x \in Creations' : x.intent # draft[New].intent
                BY <1>7, <2>3, <4>1 DEF IntentInv, FreshInv, Untouched
            <4> QED BY <1>1, <1>2, <1>7, <3>1, <4>1, <4>2 DEF IntentInv, FreshInv, WithoutWrite, Untouched
        <3>3. CASE offered = None
            <4>1. draft' = [draft EXCEPT ![New] = DraftOf(form, p)]
                BY <1>2, <1>3, <2>1, <3>3 DEF SaveDraft
            <4>2. draft'[New] = DraftOf(form, p)
                BY <4>1 DEF SessionShape, SessionTypeOK, Slots
            <4>3. ~WithoutWrite(draft'[New].intent, draft'[New].pending)
                BY <3>1, <4>2 DEF DraftOf
            <4> QED BY <1>1, <1>2, <1>7, <3>1, <3>3, <4>3 DEF IntentInv, FreshInv, WithoutWrite, Untouched
        <3> QED BY <3>2, <3>3
    <2> QED BY <2>4, <2>5, <2>6, <2>7 DEF IntentInv
<1> QED BY <1>10, <1>11

(* Saved: the form of a new record is closed, or edits the stored one.     *)
LEMMA SavedIntents ==
    ASSUME SessionInv, SessionShape, Receive, Saved, Kept PROVE IntentInv'
<1> DEFINE gone == [draft EXCEPT ![form.id] = None]
           next == [form EXCEPT !.id = answer.result.id, !.rev = answer.result.rev,
                                !.base = Version(answer.result), !.intent = 0]
<1>1. /\ answer # None /\ answer.kind = "ok" /\ pending' = None /\ waiting' = None
      /\ UNCHANGED <<request, late, intents, made, dropped>>
    BY DEF Receive, Saved
<1>2. \/ form' = None /\ offered' = None /\ draft' = gone
      \/ /\ form' = next /\ offered' = offered
         /\ draft' = IF offered # None THEN gone
                     ELSE [gone EXCEPT ![next.id] = DraftOf(next, None)]
    BY DEF Saved
<1>3. /\ form # None /\ form \in Form /\ form.id \in Slots /\ New \in Slots
      /\ draft \in [Slots -> Draft \cup {None}]
    BY <1>1 DEF SessionShape, SessionTypeOK, CarriedInv, Form, Slots
<1>4. answer.result.id # New /\ answer.result.id \in Slots
    BY <1>1, EditorAssumption DEF SessionInv, ResultInv, Result, Slots
<1>5. next.id = answer.result.id
    BY <1>3 DEF Form
<1> HIDE DEF next
<1>6. draft'[New] \in {draft[New], None}
    BY <1>2, <1>3, <1>4, <1>5
<1>7. form' # None => form'.id # New
    BY <1>2, <1>4, <1>5
<1>8. Carriers' \subseteq Carriers
    BY <1>1, <1>6 DEF Carriers, Requests
<1>9. IntentInv /\ Copies
    BY <1>1, <1>8, FewerAreCopies DEF SessionInv
<1>10. /\ OneKey' /\ DoneIsReceipted' /\ DuplicatesOnlyAfterRefusal'
       /\ \A n : Untouched(n) => made'[n] = 0 /\ \A x \in Creations' : x.intent # n
    BY <1>1, <1>9, IntentsStay
<1>11. FreshInv'
    BY <1>1, <1>6, <1>7, <1>9, <1>10 DEF IntentInv, FreshInv, WithoutWrite, Untouched
<1> QED BY <1>10, <1>11 DEF IntentInv

(* Failed: the intent of the write whose key is dropped is given up.       *)
LEMMA FailedIntents ==
    ASSUME SessionInv, SessionShape, Receive, Failed, Kept PROVE IntentInv'
<1>1. /\ answer # None /\ pending' = None /\ waiting' = None
      /\ SaveDraft(form, None)
      /\ dropped' = dropped \cup {p.intent : p \in {pending} \ {None}}
      /\ UNCHANGED <<form, offered, request, late, intents, made>>
    BY DEF Receive, Failed
<1>2. form # None /\ pending # None /\ None \in Write \cup {None}
    BY <1>1 DEF SessionShape, CarriedInv
<1>3. dropped' = dropped \cup {pending.intent}
    BY <1>1, <1>2
<1>4. {d.pending : d \in {draft'[New]} \ {None}} \ {None} \subseteq Carriers
    <2>1. {d.pending : d \in {draft'[New]} \ {None}} \ {None} \subseteq Carriers \cup ({None} \ {None})
        BY <1>1, <1>2, DraftCarries
    <2> QED BY <2>1
<1>5. Carriers' \subseteq Carriers
    BY <1>1, <1>4 DEF Carriers, Requests
<1>6. IntentInv /\ Copies
    BY <1>3, <1>5, FewerAreCopies DEF SessionInv
<1>7. /\ OneKey' /\ DoneIsReceipted' /\ DuplicatesOnlyAfterRefusal'
      /\ \A n : Untouched(n) => made'[n] = 0 /\ \A x \in Creations' : x.intent # n
    BY <1>1, <1>6, IntentsStay
<1>8. form.id = New /\ form.intent \notin dropped' => Untouched(form.intent)
    BY <1>2, <1>3, <1>6 DEF IntentInv, FreshInv, WithoutWrite
<1>9. draft'[New] # None /\ draft'[New].intent \notin dropped'
           /\ WithoutWrite(draft'[New].intent, draft'[New].pending)
        => Untouched(draft'[New].intent)
    <2>1. New \in Slots /\ form.id \in Slots
        BY <1>2 DEF SessionShape, SessionTypeOK, Form, Slots
    <2>2. draft'[New] = draft[New] \/ draft'[New] = None
            \/ (form.id = New /\ draft'[New] = DraftOf(form, None))
        BY <1>1, <1>2, <2>1, SaveDraftStep DEF SessionShape
    <2>3. DraftOf(form, None).intent = form.intent
        BY DEF DraftOf
    <2> QED BY <1>6, <1>8, <2>2, <2>3 DEF IntentInv, FreshInv
<1>10. form.id = New /\ offered # None => draft' = draft
    BY <1>1 DEF SaveDraft
<1>11. FreshInv'
    <2>1. (form # None /\ form.id = New /\ WithoutWrite(form.intent, pending)
             => Untouched(form.intent))'
        BY <1>1, <1>7, <1>8 DEF WithoutWrite, Untouched
    <2>2. (draft[New] # None /\ WithoutWrite(draft[New].intent, draft[New].pending)
             => Untouched(draft[New].intent))'
        BY <1>3, <1>7, <1>9 DEF WithoutWrite, Untouched
    <2>3. (form # None /\ form.id = New /\ offered # None
             => offered = draft[New] /\ offered.intent # form.intent)'
        BY <1>1, <1>6, <1>10 DEF IntentInv, FreshInv
    <2>4. (\A n \in DOMAIN made : n > intents => made[n] = 0)'
        BY <1>1, <1>6 DEF IntentInv, FreshInv
    <2> QED BY <2>1, <2>2, <2>3, <2>4 DEF FreshInv
<1> QED BY <1>7, <1>11 DEF IntentInv

(* Proceed: the same write goes out again, with force=1.                   *)
LEMMA ProceedIntents ==
    ASSUME SessionInv, SessionShape, Receive, Proceed, Kept PROVE IntentInv'
<1>1. /\ answer # None /\ request' = Message(waiting, TRUE)
      /\ UNCHANGED <<form, pending, waiting, offered, draft, late, intents, made, dropped>>
    BY DEF Receive, Proceed
<1>2. waiting # None /\ waiting \in Write /\ TRUE \in BOOLEAN
    BY <1>1 DEF SessionShape, SessionTypeOK, CarriedInv
<1>3. /\ request'.key = waiting.key /\ request'.body = waiting.body
      /\ request'.intent = waiting.intent
    BY <1>1, <1>2, MessageShape
<1>4. Carriers' \subseteq Carriers \cup {request'} /\ waiting \in Carriers
    BY <1>1, <1>2 DEF Carriers, Requests
<1>5. Copies
    BY <1>1, <1>3, <1>4 DEF Copies, Creations
<1>6. IntentInv
    BY DEF SessionInv
<1>7. /\ OneKey' /\ DoneIsReceipted' /\ DuplicatesOnlyAfterRefusal'
      /\ \A n : Untouched(n) => made'[n] = 0 /\ \A x \in Creations' : x.intent # n
    BY <1>1, <1>5, <1>6, IntentsStay
<1>8. FreshInv'
    BY <1>1, <1>6, <1>7 DEF IntentInv, FreshInv, WithoutWrite, Untouched
<1> QED BY <1>7, <1>8 DEF IntentInv

(* A step elsewhere, or a request that is not accepted.                    *)
LEMMA OtherIntents ==
    ASSUME SessionInv, SessionShape, Kept, UNCHANGED <<formVars, waiting, made, dropped>>,
           Requests' \subseteq Requests
    PROVE  IntentInv'
<1>1. UNCHANGED <<form, pending, offered, draft, intents, waiting, made, dropped>>
    BY DEF formVars
<1>2. Carriers' \subseteq Carriers
    BY <1>1 DEF Carriers
<1>3. IntentInv /\ Copies
    BY <1>1, <1>2, FewerAreCopies DEF SessionInv
<1>4. /\ OneKey' /\ DoneIsReceipted' /\ DuplicatesOnlyAfterRefusal'
      /\ \A n : Untouched(n) => made'[n] = 0 /\ \A x \in Creations' : x.intent # n
    BY <1>1, <1>3, IntentsStay
<1>5. FreshInv'
    BY <1>1, <1>3, <1>4 DEF IntentInv, FreshInv, WithoutWrite, Untouched
<1> QED BY <1>4, <1>5 DEF IntentInv

LEMMA ServeIntents ==
    ASSUME SessionInv, SessionShape, Kept, NEW m \in Requests,
           Accept(m) \/ \E reply \in Answers : Unauthorized(reply) \/ Decline(m, reply),
           UNCHANGED <<formVars, waiting, dropped>>, Requests' \subseteq Requests
    PROVE  IntentInv'
<1>1. CASE Accept(m)
    <2>1. Carriers' \subseteq Carriers
        BY DEF Carriers, formVars
    <2> QED BY <1>1, <2>1, AcceptIntents
<1>2. CASE ~Accept(m)
    <2>1. UNCHANGED made
        BY <1>2 DEF Unauthorized, Decline
    <2> QED BY <2>1, OtherIntents
<1> QED BY <1>1, <1>2

LEMMA IntentStep ==
    ASSUME SessionInv, SessionNext, StoreEffect
    PROVE  IntentInv'
<1>1. SessionShape /\ Kept /\ Step
    BY DEF SessionInv, SessionShape, StoreEffect, SessionNext
<1>2. CASE OpenNew
    BY <1>1, <1>2, OpenNewIntents
<1>3. ASSUME NEW i \in Ids, OpenEdit(i) PROVE IntentInv'
    BY <1>1, <1>3, OpenEditIntents
<1>4. ASSUME NEW t \in world.texts, Type(t) PROVE IntentInv'
    <2>1. t \in Texts
        BY <1>1 DEF SessionShape, SessionTypeOK, World
    <2> QED BY <1>1, <1>4, <2>1, TypeIntents
<1>5. CASE AutoSaveDraft
    BY <1>1, <1>5, AutoSaveDraftIntents
<1>6. CASE RestoreDraft
    BY <1>1, <1>6, RestoreDraftIntents
<1>7. CASE DiscardDraft
    BY <1>1, <1>7, DiscardDraftIntents
<1>8. CASE Submit
    BY <1>1, <1>8, SubmitIntents
<1>9. CASE GiveUpWaiting
    <2>1. form # None
        BY <1>1, <1>9 DEF GiveUpWaiting, SessionShape, CarriedInv
    <2> QED BY <1>1, <1>9, <2>1, LeaveIntents DEF GiveUpWaiting, history
<1>10. CASE Close
    BY <1>1, <1>10, LeaveIntents DEF Close, history
<1>11. CASE Kill
    BY <1>1, <1>11, LeaveIntents DEF Kill, history
<1>12. CASE ServeAwaited
    <2>1. request \in Requests
        BY <1>12 DEF ServeAwaited, Requests
    <2>2. PICK m \in Requests : m = request
        BY <2>1
    <2>3. Accept(m) \/ \E reply \in Answers : Unauthorized(reply) \/ Decline(m, reply)
        BY <1>12, <2>2 DEF ServeAwaited
    <2>4. UNCHANGED <<formVars, waiting, dropped>> /\ Requests' \subseteq Requests
        BY <1>12 DEF ServeAwaited, Requests
    <2> QED BY <1>1, <2>3, <2>4, ServeIntents
<1>13. ASSUME NEW m \in late, ServeLate(m) PROVE IntentInv'
    <2>1. UNCHANGED <<formVars, waiting, dropped>> /\ Requests' \subseteq Requests /\ m \in Requests
        BY <1>13 DEF ServeLate, Requests
    <2>2. Accept(m) \/ \E reply \in Answers : Unauthorized(reply) \/ Decline(m, reply)
        BY <1>13 DEF ServeLate
    <2> QED BY <1>1, <2>1, <2>2, ServeIntents
<1>14. CASE Receive
    <2>1. Saved \/ Failed \/ Proceed
        BY <1>14 DEF Receive
    <2> QED BY <1>1, <1>14, <2>1, SavedIntents, FailedIntents, ProceedIntents
<1>15. CASE EndSession \/ Login \/ Elsewhere
    <2>1. UNCHANGED <<formVars, waiting, made, dropped>> /\ Requests' \subseteq Requests
        BY <1>15 DEF EndSession, Login, Elsewhere, wireVars, history, Requests
    <2> QED BY <1>1, <2>1, OtherIntents
<1> QED BY <1>1, <1>2, <1>3, <1>4, <1>5, <1>6, <1>7, <1>8, <1>9, <1>10, <1>11, <1>12, <1>13,
           <1>14, <1>15 DEF Step

-----------------------------------------------------------------------------
LEMMA SessionInvInit == SessionInit => SessionInv
<1> SUFFICES ASSUME SessionInit PROVE SessionInv
    OBVIOUS
<1>1. Inv /\ TypeOK
    BY InvInit, InvTypes DEF SessionInit
<1>2. /\ world \in World /\ form = None /\ pending = None /\ waiting = None /\ offered = None
      /\ draft = [s \in Slots |-> None]
      /\ request = None /\ answer = None /\ late = {}
      /\ intents = 0 /\ made = [n \in 1 .. world.intents |-> 0]
      /\ receipts = [k \in Keys |-> NoReceipt]
    BY EditorAssumption DEF SessionInit, Init
<1>3. world.intents \in Nat /\ New \in Slots
    BY <1>2 DEF World, Slots
<1>4. SessionTypeOK
    BY <1>1, <1>2, <1>3 DEF SessionTypeOK
<1>5. Requests = {} /\ draft[New] = None
    BY <1>2, <1>3 DEF Requests
<1>6. FormInv /\ CarriedInv /\ ResultInv
    BY <1>2, <1>5 DEF FormInv, CarriedInv, ResultInv
<1>7. Creations = {}
    BY <1>2, <1>5 DEF Creations, Carriers
<1>8. IntentInv
    BY <1>2, <1>3, <1>5, <1>7
       DEF IntentInv, OneKey, DoneIsReceipted, FreshInv, DuplicatesOnlyAfterRefusal
<1> QED BY <1>1, <1>4, <1>6, <1>8 DEF SessionInv

LEMMA SessionInvNext == SessionInv /\ [SessionNext]_allVars => SessionInv' /\ [Next]_vars
<1> SUFFICES ASSUME SessionInv, [SessionNext]_allVars PROVE SessionInv' /\ [Next]_vars
    OBVIOUS
<1>1. CASE SessionNext
    <2>1. StoreEffect
        BY <1>1, SessionStoreStep DEF SessionNext
    <2>2. [Next]_vars
        BY <2>1 DEF StoreEffect
    <2>3. Inv'
        BY <2>2, InvNext DEF SessionInv
    <2>4. SessionShape'
        BY <1>1, <2>1, <2>3, ShapeStep
    <2>5. ResultInv'
        BY <1>1, <2>1, ResultStep DEF SessionNext
    <2>6. IntentInv'
        BY <1>1, <2>1, IntentStep
    <2> QED BY <2>2, <2>3, <2>4, <2>5, <2>6 DEF SessionInv, SessionShape
<1>2. CASE UNCHANGED allVars
    <2>1. /\ UNCHANGED vars /\ UNCHANGED <<form, pending, waiting, offered, draft, request, answer,
                                           late, intents, made, dropped, world>>
        BY <1>2 DEF allVars, formVars, wireVars, history
    <2>2. [Next]_vars /\ Inv' /\ TypeOK'
        BY <2>1, InvNext, TypesNext DEF SessionInv
    <2>3. StoreEffect
        BY <2>1, NoStoreStep DEF SessionInv
    <2>4. Requests' = Requests
        BY <2>1 DEF Requests
    <2>5. SessionShape'
        <3>1. SessionShape
            BY DEF SessionInv, SessionShape
        <3>2. UNCHANGED <<formVars, waiting, world>> /\ seen \subseteq seen'
            BY <1>2, <2>3 DEF allVars, formVars, wireVars, StoreEffect, Kept
        <3>3. /\ Requests' \subseteq Requests /\ late' \subseteq Sent
              /\ answer' \in Answer \cup {None} /\ made' \in [1 .. world.intents -> Nat]
              /\ request' # None \/ answer' # None => waiting # None
              /\ request' = None \/ answer' = None
              /\ request' \in {None, request}
            BY <2>1, <2>4 DEF SessionInv, SessionTypeOK, CarriedInv
        <3> QED BY <2>2, <3>1, <3>2, <3>3, RememberedShape
    <2>6. IntentInv'
        <3>1. UNCHANGED <<formVars, waiting, made, dropped>>
            BY <1>2 DEF allVars, formVars, wireVars, history
        <3> QED BY <2>3, <2>4, <3>1, OtherIntents DEF SessionInv, SessionShape, StoreEffect
    <2>7. ResultInv'
        BY <2>1, <2>3 DEF SessionInv, ResultInv, StoreEffect, Kept, Known
    <2> QED BY <2>2, <2>5, <2>6, <2>7 DEF SessionInv, SessionShape
<1> QED BY <1>1, <1>2

LEMMA SessionInvAlways == SessionSpec => []SessionInv
BY SessionInvInit, SessionInvNext, PTL DEF SessionSpec

(* The browser's memory, the wire and the histories keep their shape.      *)
THEOREM SessionTypes == SessionSpec => []SessionTypeOK
<1>1. SessionInv => SessionTypeOK
    BY DEF SessionInv
<1> QED BY <1>1, SessionInvAlways, PTL

(* Under the editor, the store behaves as its specification says: what is  *)
(* proved of EntryStore holds in every session.                            *)
THEOREM SessionsUseTheStore == SessionSpec => Spec
<1>1. SessionInit => Init
    BY DEF SessionInit
<1> QED BY <1>1, SessionInvAlways, SessionInvNext, PTL DEF SessionSpec, Spec

(* No update is executed over a version the user did not see               *)
(* (entries.update, StaleEntry), however long the request was on its way.  *)
THEOREM NothingIsOverwritten == SessionSpec => []NoLostUpdate
<1>1. SessionInv => NoLostUpdate
    <2> SUFFICES ASSUME SessionInv, NEW m \in Requests, m.body.op = "update",
                        entries[m.body.id] # NoRow, entries[m.body.id].rev = m.body.rev
                 PROVE  entries[m.body.id] = m.base
        BY DEF NoLostUpdate
    <2>1. Sound(m) /\ m.body \in Content
        BY DEF SessionInv, CarriedInv, SessionTypeOK, Requests, Sent
    <2>2. [id |-> m.body.id, row |-> m.base] \in seen /\ m.base.rev = m.body.rev
        BY <2>1 DEF Sound, Committed
    <2>3. [id |-> m.body.id, row |-> entries[m.body.id]] \in seen
        BY <2>1 DEF SessionInv, Inv, StoreInv, Versions, Live, Content
    <2> QED BY <2>2, <2>3 DEF SessionInv, Inv, StoreInv, RevisionNamesOneContent
<1> QED BY <1>1, SessionInvAlways, PTL

(* One record for each intent whose key no refusal made the editor drop    *)
(* (editorPendingWrite in 10-transfer.js and 23-editor-draft.js).          *)
THEOREM RetriesMakeNoDuplicate == SessionSpec => []DuplicatesOnlyAfterRefusal
<1>1. SessionInv => DuplicatesOnlyAfterRefusal
    BY DEF SessionInv, IntentInv
<1> QED BY <1>1, SessionInvAlways, PTL
=============================================================================
