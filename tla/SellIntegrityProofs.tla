------------------------ MODULE SellIntegrityProofs ------------------------
(***************************************************************************)
(* Nobody sells what is not there without a trace, for any trades,         *)
(* quantities, times and positions, and for every way to insert, change,   *)
(* move or delete them.                                                    *)
(*                                                                         *)
(* Balances are sums over sets.  The first lemmas say of such sums what    *)
(* the definition by recursion does not: they are the same whatever        *)
(* element is taken first.  From them follows what one row does to the     *)
(* balances of a position (BalanceWith), and that a row is harmless if it  *)
(* passes check_sell_integrity and oversell_after_change (HarmlessRow).    *)
(***************************************************************************)
EXTENDS SellIntegrity, FiniteSetTheorems, WellFoundedInduction, TLAPS

(* Among sets of elements of a finite set one is minimal.                  *)
LEMMA MinimalSubset ==
    ASSUME NEW S, IsFiniteSet(S), NEW T, T \subseteq SUBSET S, T # {}
    PROVE  \E m \in T : \A n \in T : n \subseteq m => n = m
<1>1. \A t \in T : t \in FiniteSubsetsOf(S)
    <2>1. \A t \in T : t \in SUBSET S /\ IsFiniteSet(t)
        BY FS_Subset
    <2> QED BY <2>1 DEF FiniteSubsetsOf
<1>2. PICK m \in T : \A t \in T : <<t, m>> \notin StrictSubsetOrdering(S)
    <2>1. IsWellFoundedOn(StrictSubsetOrdering(S), FiniteSubsetsOf(S))
        BY FS_StrictSubsetOrderingWellFounded
    <2> QED BY <1>1, <2>1, WFMin
<1>3. ASSUME NEW n \in T, n \subseteq m, n # m PROVE FALSE
    <2>1. <<n, m>> \in StrictSubsetOrdering(S)
        BY <1>3 DEF StrictSubsetOrdering
    <2> QED BY <1>2, <2>1
<1> QED BY <1>3

(* So of finitely many one is minimal in an order R.                       *)
LEMMA MinimalElement ==
    ASSUME NEW S, IsFiniteSet(S), S # {}, NEW R,
           \A x, y, z \in S : <<x, y>> \in R /\ <<y, z>> \in R => <<x, z>> \in R,
           \A x \in S : <<x, x>> \notin R
    PROVE  \E x \in S : \A y \in S : <<y, x>> \notin R
<1> DEFINE Below(x) == {y \in S : <<y, x>> \in R}
           Sets == {Below(x) : x \in S}
<1>1. Sets \subseteq SUBSET S /\ Sets # {}
    <2>1. Sets \subseteq SUBSET S
        OBVIOUS
    <2>2. PICK x \in S : TRUE
        OBVIOUS
    <2>3. Below(x) \in Sets
        OBVIOUS
    <2> QED BY <2>1, <2>3
<1>2. PICK m \in Sets : \A n \in Sets : n \subseteq m => n = m
    <2> HIDE DEF Sets
    <2> QED BY <1>1, MinimalSubset
<1>3. PICK x \in S : m = Below(x)
    OBVIOUS
<1>4. ASSUME NEW y \in S, <<y, x>> \in R PROVE FALSE
    <2>1. Below(y) \in Sets /\ Below(y) \subseteq Below(x)
        BY <1>4
    <2>2. y \in Below(x) /\ y \notin Below(y)
        BY <1>4
    <2> HIDE DEF Below, Sets
    <2> QED BY <1>2, <1>3, <2>1, <2>2
<1> QED BY <1>4

LEMMA MinOfFinite ==
    ASSUME NEW S, S \subseteq Int, IsFiniteSet(S), S # {}
    PROVE  Min(S) \in S /\ \A y \in S : Min(S) <= y
<1> DEFINE R == {p \in S \X S : p[1] < p[2]}
<1>1. \A x, y \in S : <<x, y>> \in R <=> x < y
    OBVIOUS
<1> HIDE DEF R
<1>2. \E x \in S : \A y \in S : <<y, x>> \notin R
    <2>1. \A x, y, z \in S : <<x, y>> \in R /\ <<y, z>> \in R => <<x, z>> \in R
        BY <1>1
    <2>2. \A x \in S : <<x, x>> \notin R
        BY <1>1
    <2> QED BY <2>1, <2>2, MinimalElement
<1>3. PICK x \in S : \A y \in S : <<y, x>> \notin R
    BY <1>2
<1>4. \A y \in S : x <= y
    <2>1. SUFFICES ASSUME NEW y \in S PROVE x <= y
        OBVIOUS
    <2>2. x \in Int /\ y \in Int
        OBVIOUS
    <2>3. ~(y < x)
        BY <1>1, <1>3
    <2> QED BY <2>2, <2>3
<1>5. \E z \in S : \A y \in S : z <= y
    BY <1>4
<1> QED BY <1>5, Zenon DEF Min

LEMMA MaxOfFinite ==
    ASSUME NEW S, S \subseteq Int, IsFiniteSet(S), S # {}
    PROVE  Max(S) \in S /\ \A y \in S : Max(S) >= y
<1> DEFINE R == {p \in S \X S : p[1] > p[2]}
<1>1. \A x, y \in S : <<x, y>> \in R <=> x > y
    OBVIOUS
<1> HIDE DEF R
<1>2. \E x \in S : \A y \in S : <<y, x>> \notin R
    <2>1. \A x, y, z \in S : <<x, y>> \in R /\ <<y, z>> \in R => <<x, z>> \in R
        BY <1>1
    <2>2. \A x \in S : <<x, x>> \notin R
        BY <1>1
    <2> QED BY <2>1, <2>2, MinimalElement
<1>3. PICK x \in S : \A y \in S : <<y, x>> \notin R
    BY <1>2
<1>4. \A y \in S : x >= y
    <2>1. SUFFICES ASSUME NEW y \in S PROVE x >= y
        OBVIOUS
    <2>2. x \in Int /\ y \in Int
        OBVIOUS
    <2>3. ~(y > x)
        BY <1>1, <1>3
    <2> QED BY <2>2, <2>3
<1>5. \E z \in S : \A y \in S : z >= y
    BY <1>4
<1> QED BY <1>5, Zenon DEF Max

-----------------------------------------------------------------------------
(* Sums.                                                                   *)

(* f is the recursive function of MapThenFoldSet for the trades S.         *)
Summing(table, S, f) ==
    f = [s \in SUBSET S |-> IF s = {} THEN 0
                            ELSE LET x == CHOOSE x \in s : TRUE
                                 IN  Delta(table[x]) + f[s \ {x}]]

First(s) == CHOOSE x \in s : TRUE

LEMMA FirstIsIn ==
    ASSUME NEW s, s # {} PROVE First(s) \in s
BY DEF First

LEMMA NetBySumming ==
    ASSUME NEW table, NEW S
    PROVE  Net(table, S) = (CHOOSE f : Summing(table, S, f))[S]
BY DEF Net, MapThenSumSet, MapThenFoldSet, Summing

LEMMA SummingStep ==
    ASSUME NEW table, NEW S, NEW f, Summing(table, S, f), NEW s \in SUBSET S
    PROVE  /\ s = {} => f[s] = 0
           /\ s # {} => f[s] = Delta(table[First(s)]) + f[s \ {First(s)}]
<1>1. f = [r \in SUBSET S |-> IF r = {} THEN 0
                            ELSE Delta(table[First(r)]) + f[r \ {First(r)}]]
    BY DEF Summing, First
<1> QED BY <1>1

LEMMA SummingIsUnique ==
    ASSUME NEW table, NEW S, IsFiniteSet(S), NEW f, NEW g,
           Summing(table, S, f), Summing(table, S, g)
    PROVE  f = g
<1> DEFINE Bad == {s \in SUBSET S : f[s] # g[s]}
<1>1. SUFFICES Bad = {}
    <2>1. f = [s \in SUBSET S |-> f[s]] /\ g = [s \in SUBSET S |-> g[s]]
        BY DEF Summing
    <2>2. \A s \in SUBSET S : f[s] = g[s]
        BY <1>1
    <2> QED BY <2>1, <2>2
<1>2. SUFFICES ASSUME Bad # {} PROVE FALSE
    OBVIOUS
<1>3. PICK m \in Bad : \A n \in Bad : n \subseteq m => n = m
    <2> Bad \subseteq SUBSET S
        OBVIOUS
    <2> HIDE DEF Bad
    <2> QED BY <1>2, MinimalSubset
<1>4. m \in SUBSET S /\ f[m] # g[m]
    OBVIOUS
<1>5. m # {}
    BY <1>4, SummingStep
<1> DEFINE n == m \ {First(m)}
<1>6. n \in SUBSET S /\ n \subseteq m /\ n # m
    BY <1>4, <1>5, FirstIsIn
<1>7. f[n] = g[n]
    BY <1>3, <1>6
<1> QED BY <1>4, <1>5, <1>7, SummingStep

(* The recursion, for the sums themselves.                                 *)
Steps(table, s) ==
    Net(table, s) = IF s = {} THEN 0
                    ELSE Delta(table[First(s)]) + Net(table, s \ {First(s)})

LEMMA NetStep ==
    ASSUME NEW table, NEW S, IsFiniteSet(S)
    PROVE  Steps(table, S)
<1> DEFINE Bad == {s \in SUBSET S : ~Steps(table, s)}
<1>1. SUFFICES ASSUME Bad # {} PROVE FALSE
    OBVIOUS
<1>2. PICK m \in Bad : \A n \in Bad : n \subseteq m => n = m
    <2> Bad \subseteq SUBSET S
        OBVIOUS
    <2> HIDE DEF Bad
    <2> QED BY <1>1, MinimalSubset
<1>3. IsFiniteSet(m) /\ m \in SUBSET S /\ ~Steps(table, m)
    BY FS_Subset
<1>4. \A n \in SUBSET m : n # m => Steps(table, n)
    BY <1>2, <1>3
<1> HIDE DEF Bad
<1> DEFINE f == [s \in SUBSET m |-> IF s = {} THEN 0
                     ELSE Delta(table[First(s)]) + Net(table, s \ {First(s)})]
<1>5. \A n \in SUBSET m : n # m => f[n] = Net(table, n)
    BY <1>4 DEF Steps
<1>6. \A s \in SUBSET m : s # {} => f[s \ {First(s)}] = Net(table, s \ {First(s)})
    <2>1. SUFFICES ASSUME NEW s \in SUBSET m, s # {}
                   PROVE  f[s \ {First(s)}] = Net(table, s \ {First(s)})
        OBVIOUS
    <2>2. s \ {First(s)} \in SUBSET m /\ s \ {First(s)} # m
        BY <2>1, FirstIsIn
    <2> HIDE DEF f
    <2> QED BY <1>5, <2>2
<1>7. f = [s \in SUBSET m |-> IF s = {} THEN 0
                              ELSE Delta(table[First(s)]) + f[s \ {First(s)}]]
    <2> DEFINE g == [s \in SUBSET m |-> IF s = {} THEN 0
                              ELSE Delta(table[First(s)]) + f[s \ {First(s)}]]
    <2>1. \A s \in SUBSET m : f[s] = IF s = {} THEN 0
                     ELSE Delta(table[First(s)]) + Net(table, s \ {First(s)})
        OBVIOUS
    <2>2. f = [s \in SUBSET m |-> f[s]]
        OBVIOUS
    <2> HIDE DEF f
    <2>3. \A s \in SUBSET m : f[s] = g[s]
        BY <1>6, <2>1
    <2>4. g = [s \in SUBSET m |-> g[s]]
        OBVIOUS
    <2> HIDE DEF g
    <2>5. f = g
        BY <2>2, <2>3, <2>4
    <2> QED BY <2>5 DEF g
<1>8. Summing(table, m, f)
    <2> HIDE DEF f
    <2> QED BY <1>7 DEF Summing, First
<1> DEFINE c == CHOOSE g : Summing(table, m, g)
<1>9. c = f
    <2>1. Summing(table, m, c)
        BY <1>8
    <2> HIDE DEF f, c
    <2> QED BY <1>3, <1>8, <2>1, SummingIsUnique
<1>10. Net(table, m) = f[m]
    <2>1. Net(table, m) = c[m]
        BY NetBySumming
    <2> HIDE DEF f, c
    <2> QED BY <1>9, <2>1
<1> QED BY <1>3, <1>10 DEF Steps

LEMMA NetOfNothing ==
    ASSUME NEW table PROVE Net(table, {}) = 0
<1>1. Steps(table, {})
    BY NetStep, FS_EmptySet
<1> QED BY <1>1 DEF Steps

LEMMA NetIsInt ==
    ASSUME NEW table, NEW S, IsFiniteSet(S), \A i \in S : Delta(table[i]) \in Int
    PROVE  Net(table, S) \in Int
<1> DEFINE Bad == {s \in SUBSET S : Net(table, s) \notin Int}
<1>1. SUFFICES ASSUME Bad # {} PROVE FALSE
    OBVIOUS
<1>2. PICK m \in Bad : \A n \in Bad : n \subseteq m => n = m
    <2> Bad \subseteq SUBSET S
        OBVIOUS
    <2> HIDE DEF Bad
    <2> QED BY <1>1, MinimalSubset
<1>3. m \in SUBSET S /\ IsFiniteSet(m) /\ Net(table, m) \notin Int
    BY FS_Subset
<1>4. m # {}
    BY <1>3, NetOfNothing
<1> DEFINE x == First(m)
<1>5. x \in m
    BY <1>4, FirstIsIn
<1>6. Net(table, m \ {x}) \in Int
    BY <1>2, <1>3, <1>5
<1>7. Net(table, m) = Delta(table[x]) + Net(table, m \ {x})
    BY <1>3, <1>4, NetStep DEF Steps
<1>8. Delta(table[x]) \in Int
    BY <1>3, <1>5
<1> QED BY <1>3, <1>6, <1>7, <1>8

LEMMA NetOfSame ==
    ASSUME NEW table, NEW other, NEW S, IsFiniteSet(S),
           \A i \in S : Delta(table[i]) = Delta(other[i])
    PROVE  Net(table, S) = Net(other, S)
<1> DEFINE Bad == {s \in SUBSET S : Net(table, s) # Net(other, s)}
<1>1. SUFFICES ASSUME Bad # {} PROVE FALSE
    OBVIOUS
<1>2. PICK m \in Bad : \A n \in Bad : n \subseteq m => n = m
    <2> Bad \subseteq SUBSET S
        OBVIOUS
    <2> HIDE DEF Bad
    <2> QED BY <1>1, MinimalSubset
<1>3. m \in SUBSET S /\ IsFiniteSet(m) /\ Net(table, m) # Net(other, m)
    BY FS_Subset
<1>4. m # {}
    BY <1>3, NetOfNothing
<1> DEFINE x == First(m)
<1>5. x \in m
    BY <1>4, FirstIsIn
<1>6. Net(table, m \ {x}) = Net(other, m \ {x})
    BY <1>2, <1>3, <1>5
<1>7. Net(table, m) = Delta(table[x]) + Net(table, m \ {x})
    BY <1>3, <1>4, NetStep DEF Steps
<1>8. Net(other, m) = Delta(other[x]) + Net(other, m \ {x})
    BY <1>3, <1>4, NetStep DEF Steps
<1>9. Delta(table[x]) = Delta(other[x])
    BY <1>3, <1>5
<1> QED BY <1>3, <1>6, <1>7, <1>8, <1>9

(* Any trade may be the one that is added last.                            *)
LEMMA NetWith ==
    ASSUME NEW table, NEW S, IsFiniteSet(S), \A i \in S : Delta(table[i]) \in Int,
           NEW x \in S
    PROVE  Net(table, S) = Delta(table[x]) + Net(table, S \ {x})
<1> DEFINE Splits(s, y) == Net(table, s) = Delta(table[y]) + Net(table, s \ {y})
           Bad == {s \in SUBSET S : \E y \in s : ~Splits(s, y)}
<1>1. SUFFICES ASSUME Bad # {} PROVE FALSE
    OBVIOUS
<1>2. PICK m \in Bad : \A n \in Bad : n \subseteq m => n = m
    <2> Bad \subseteq SUBSET S
        OBVIOUS
    <2> HIDE DEF Bad
    <2> QED BY <1>1, MinimalSubset
<1>3. m \in SUBSET S /\ IsFiniteSet(m)
    BY FS_Subset
<1>4. PICK y \in m : ~Splits(m, y)
    OBVIOUS
<1>5. \A n \in SUBSET m : n # m => \A z \in n : Splits(n, z)
    BY <1>2, <1>3
<1> DEFINE z == First(m)
<1>6. z \in m
    BY <1>4, FirstIsIn
<1>7. Splits(m, z)
    BY <1>3, <1>4, NetStep DEF Steps
<1>8. y # z
    BY <1>4, <1>7
<1> HIDE DEF z
<1>9. Splits(m \ {z}, y) /\ Splits(m \ {y}, z)
    <2>1. m \ {z} \in SUBSET m /\ m \ {z} # m /\ y \in m \ {z}
        BY <1>4, <1>6, <1>8
    <2>2. m \ {y} \in SUBSET m /\ m \ {y} # m /\ z \in m \ {y}
        BY <1>4, <1>6, <1>8
    <2> HIDE DEF Splits
    <2> QED BY <1>5, <2>1, <2>2
<1>10. (m \ {z}) \ {y} = (m \ {y}) \ {z}
    OBVIOUS
<1> DEFINE a == Net(table, (m \ {y}) \ {z})
           dy == Delta(table[y])
           dz == Delta(table[z])
<1>11. a \in Int /\ dy \in Int /\ dz \in Int
    <2>1. IsFiniteSet((m \ {y}) \ {z}) /\ (m \ {y}) \ {z} \subseteq S
        BY <1>3, FS_Subset
    <2>2. a \in Int
        BY <2>1, NetIsInt
    <2> QED BY <1>3, <1>4, <1>6, <2>2
<1>12. Net(table, m) = dz + (dy + a) /\ Net(table, m \ {y}) = dz + a
    BY <1>7, <1>9, <1>10
<1> HIDE DEF a, dy, dz
<1>13. Net(table, m) = dy + Net(table, m \ {y})
    BY <1>11, <1>12
<1> QED BY <1>4, <1>13 DEF dy

-----------------------------------------------------------------------------
(* Histories and balances.                                                 *)

Table == [Ids -> Row \cup {NoRow}]

LEMMA RowFacts ==
    ASSUME NEW row \in Row
    PROVE  /\ row.day \in Nat /\ row.qty \in Nat /\ row.qty > 0
           /\ row.kind \in {"buy", "sell"} /\ row.settled \in BOOLEAN
           /\ Delta(row) \in Int
           /\ row.kind = "buy" => Delta(row) = row.qty
           /\ row.kind = "sell" => Delta(row) = -row.qty
<1>1. row.day \in Days /\ row.qty \in Quantities /\ row.kind \in {"buy", "sell"}
        /\ row.settled \in BOOLEAN
    BY DEF Row
<1>2. row.day \in Nat
    BY <1>1, LedgerAssumption DEF Days
<1>3. row.qty \in Nat /\ row.qty > 0
    <2>1. row.qty \in Nat \ {0}
        BY <1>1, LedgerAssumption
    <2> QED BY <2>1
<1> QED BY <1>1, <1>2, <1>3 DEF Delta

LEMMA HistoryFacts ==
    ASSUME NEW t \in Table, NEW p
    PROVE  /\ History(t, p) \subseteq Ids /\ IsFiniteSet(History(t, p))
           /\ \A i \in History(t, p) : t[i] \in Row /\ Delta(t[i]) \in Int
<1>1. History(t, p) \subseteq Ids
    BY DEF History, Table
<1>2. IsFiniteSet(History(t, p))
    BY <1>1, LedgerAssumption, FS_Subset
<1>3. \A i \in History(t, p) : t[i] \in Row
    BY <1>1 DEF History, Table
<1> QED BY <1>1, <1>2, <1>3, RowFacts

LEMMA NetOfHistory ==
    ASSUME NEW t \in Table, NEW p, NEW S, S \subseteq History(t, p)
    PROVE  IsFiniteSet(S) /\ Net(t, S) \in Int
<1>1. IsFiniteSet(S) /\ \A i \in S : Delta(t[i]) \in Int
    BY HistoryFacts, FS_Subset
<1> QED BY <1>1, NetIsInt

LEMMA BalanceIsInt ==
    ASSUME NEW t \in Table, NEW p, NEW i
    PROVE  Balance(t, History(t, p), i) \in Int
<1> DEFINE S == {j \in History(t, p) : j = i \/ Earlier(t, j, i)}
<1>1. Net(t, S) \in Int
    <2>1. S \subseteq History(t, p)
        OBVIOUS
    <2> HIDE DEF S
    <2> QED BY <2>1, NetOfHistory
<1> QED BY <1>1 DEF Balance

Balances(t, p) ==
    {0} \cup {Balance(t, History(t, p), i) : i \in Sells(t, History(t, p))}

(* The deficit is the worst balance after a sell, or nothing.              *)
LEMMA DeficitFacts ==
    ASSUME NEW t \in Table, NEW p
    PROVE  /\ Deficit(t, p) \in Nat
           /\ \A i \in Sells(t, History(t, p)) :
                 Balance(t, History(t, p), i) >= -Deficit(t, p)
           /\ Deficit(t, p) # 0 =>
                 \E i \in Sells(t, History(t, p)) :
                    Balance(t, History(t, p), i) = -Deficit(t, p)
<1> DEFINE sells == Sells(t, History(t, p))
           f == [i \in sells |-> Balance(t, History(t, p), i)]
<1>1. Balances(t, p) \subseteq Int
    BY BalanceIsInt DEF Balances
<1>2. IsFiniteSet(Balances(t, p))
    <2>1. IsFiniteSet(sells)
        BY HistoryFacts, FS_Subset DEF Sells
    <2>2. IsFiniteSet({Balance(t, History(t, p), i) : i \in sells})
        <3> DEFINE T == {Balance(t, History(t, p), i) : i \in sells}
        <3>1. f \in Surjection(sells, T)
            BY DEF Surjection
        <3> HIDE DEF f, T, sells
        <3> QED BY <2>1, <3>1, FS_Surjection DEF T
    <2>3. IsFiniteSet({0})
        BY FS_Singleton
    <2> QED BY <2>2, <2>3, FS_Union DEF Balances
<1>3. 0 \in Balances(t, p)
    BY DEF Balances
<1>4. Min(Balances(t, p)) \in Balances(t, p)
        /\ \A y \in Balances(t, p) : Min(Balances(t, p)) <= y
    BY <1>1, <1>2, <1>3, MinOfFinite
<1>5. Deficit(t, p) = -Min(Balances(t, p))
    BY DEF Deficit, Balances
<1>6. Min(Balances(t, p)) \in Int /\ Min(Balances(t, p)) <= 0
    BY <1>1, <1>3, <1>4
<1>7. Deficit(t, p) \in Nat /\ Min(Balances(t, p)) = -Deficit(t, p)
    BY <1>5, <1>6
<1>8. \A i \in Sells(t, History(t, p)) : Balance(t, History(t, p), i) \in Balances(t, p)
    BY DEF Balances
<1>9. ASSUME NEW i \in Sells(t, History(t, p))
      PROVE  Balance(t, History(t, p), i) >= -Deficit(t, p)
    <2>1. -Deficit(t, p) <= Balance(t, History(t, p), i)
        BY <1>4, <1>7, <1>8
    <2>2. Balance(t, History(t, p), i) \in Int
        BY BalanceIsInt
    <2> QED BY <1>7, <2>1, <2>2
<1>10. ASSUME Deficit(t, p) # 0
       PROVE  \E i \in Sells(t, History(t, p)) :
                  Balance(t, History(t, p), i) = -Deficit(t, p)
    <2>1. Min(Balances(t, p)) # 0
        BY <1>5, <1>6, <1>10
    <2>2. Min(Balances(t, p)) \in {Balance(t, History(t, p), i) : i \in sells}
        BY <1>4, <2>1 DEF Balances
    <2> QED BY <1>7, <2>2
<1> QED BY <1>7, <1>9, <1>10

LEMMA DeficitAtMost ==
    ASSUME NEW t \in Table, NEW p, NEW n \in Nat,
           \A i \in Sells(t, History(t, p)) : Balance(t, History(t, p), i) >= -n
    PROVE  Deficit(t, p) <= n
<1>1. CASE Deficit(t, p) = 0
    BY <1>1
<1>2. CASE Deficit(t, p) # 0
    <2>1. PICK i \in Sells(t, History(t, p)) :
                   Balance(t, History(t, p), i) = -Deficit(t, p)
        BY <1>2, DeficitFacts
    <2>2. Deficit(t, p) \in Nat
        BY DeficitFacts
    <2>3. Balance(t, History(t, p), i) >= -n
        OBVIOUS
    <2> QED BY <2>1, <2>2, <2>3
<1> QED BY <1>1, <1>2

-----------------------------------------------------------------------------
(* Tables that differ in columns which no balance reads.                   *)

Agree(t, u) ==
    \A i \in Ids : /\ t[i] = NoRow <=> u[i] = NoRow
                   /\ t[i] # NoRow => SameHolding(t[i], u[i])

LEMMA AgreeingTables ==
    ASSUME NEW t \in Table, NEW u \in Table, Agree(t, u), NEW p
    PROVE  /\ History(u, p) = History(t, p)
           /\ Sells(u, History(u, p)) = Sells(t, History(t, p))
           /\ \A i \in History(t, p) :
                 Balance(u, History(u, p), i) = Balance(t, History(t, p), i)
           /\ Deficit(u, p) = Deficit(t, p)
<1>1. \A i \in Ids : /\ t[i] = NoRow <=> u[i] = NoRow
                     /\ t[i] # NoRow => /\ t[i].kind = u[i].kind /\ t[i].qty = u[i].qty
                                        /\ t[i].day = u[i].day /\ t[i].pos = u[i].pos
                                        /\ t[i].settled = u[i].settled
    BY DEF Agree, SameHolding
<1>2. DOMAIN t = Ids /\ DOMAIN u = Ids
    BY DEF Table
<1>3. History(u, p) = History(t, p)
    <2>1. \A i : i \in History(u, p) <=> i \in History(t, p)
        BY <1>1, <1>2 DEF History
    <2> QED BY <2>1
<1>4. \A i \in History(t, p) : i \in Ids /\ t[i] # NoRow
    BY <1>2 DEF History
<1>5. Sells(u, History(u, p)) = Sells(t, History(t, p))
    BY <1>1, <1>3, <1>4 DEF Sells
<1>6. ASSUME NEW i \in History(t, p)
      PROVE  Balance(u, History(u, p), i) = Balance(t, History(t, p), i)
    <2> DEFINE S == {j \in History(t, p) : j = i \/ Earlier(t, j, i)}
    <2>1. {j \in History(u, p) : j = i \/ Earlier(u, j, i)} = S
        BY <1>1, <1>3, <1>4 DEF Earlier
    <2>2. \A j \in S : Delta(t[j]) = Delta(u[j])
        BY <1>1, <1>4 DEF Delta
    <2>3. IsFiniteSet(S)
        BY HistoryFacts, FS_Subset
    <2>4. Balance(u, History(u, p), i) = Net(u, S)
        BY <2>1 DEF Balance
    <2>5. Balance(t, History(t, p), i) = Net(t, S)
        BY DEF Balance
    <2> HIDE DEF S
    <2> QED BY <2>2, <2>3, <2>4, <2>5, NetOfSame
<1>7. Balances(u, p) = Balances(t, p)
    <2>1. \A i \in Sells(t, History(t, p)) : i \in History(t, p)
        BY DEF Sells
    <2> QED BY <1>5, <1>6, <2>1 DEF Balances
<1>8. Deficit(u, p) = Deficit(t, p)
    BY <1>7 DEF Deficit, Balances
<1> QED BY <1>3, <1>5, <1>6, <1>8

-----------------------------------------------------------------------------
(* What one row does to a position.  u is the table with it, r the table   *)
(* without.                                                                *)

LEMMA WithoutFacts ==
    ASSUME NEW t \in Table, NEW i \in Ids
    PROVE  /\ Without(t, i) \in Table
           /\ Without(t, i)[i] = NoRow
           /\ \A j \in Ids : j # i => Without(t, i)[j] = t[j]
           /\ \A p : History(Without(t, i), p) = History(t, p) \ {i}
<1>1. /\ Without(t, i) \in Table
      /\ Without(t, i)[i] = NoRow
      /\ \A j \in Ids : j # i => Without(t, i)[j] = t[j]
    BY DEF Without, Table
<1>2. DOMAIN t = Ids /\ DOMAIN Without(t, i) = Ids
    BY <1>1 DEF Table
<1>3. ASSUME NEW p PROVE History(Without(t, i), p) = History(t, p) \ {i}
    <2>1. \A j : j \in History(Without(t, i), p) <=> j \in History(t, p) \ {i}
        BY <1>1, <1>2 DEF History
    <2> QED BY <2>1
<1> QED BY <1>1, <1>3

(* A row that is not in the history of p does not matter to p.             *)
LEMMA ForeignRow ==
    ASSUME NEW u \in Table, NEW i \in Ids, NEW p, i \notin History(u, p)
    PROVE  Deficit(Without(u, i), p) = Deficit(u, p)
<1> DEFINE r == Without(u, i)
           h == History(u, p)
<1>1. r \in Table /\ History(r, p) = h /\ \A j \in Ids : j # i => r[j] = u[j]
    <2>1. r \in Table /\ \A j \in Ids : j # i => r[j] = u[j]
        BY WithoutFacts
    <2>2. History(r, p) = h \ {i}
        BY WithoutFacts
    <2> QED BY <2>1, <2>2
<1>2. \A j \in h : j \in Ids /\ r[j] = u[j]
    BY <1>1, HistoryFacts
<1> HIDE DEF r
<1>3. Sells(r, h) = Sells(u, h)
    BY <1>2 DEF Sells
<1>4. ASSUME NEW j \in h PROVE Balance(r, h, j) = Balance(u, h, j)
    <2> DEFINE S == {k \in h : k = j \/ Earlier(u, k, j)}
    <2>1. {k \in h : k = j \/ Earlier(r, k, j)} = S
        BY <1>2 DEF Earlier
    <2>2. \A k \in S : Delta(r[k]) = Delta(u[k])
        BY <1>2
    <2>3. IsFiniteSet(S)
        BY HistoryFacts, FS_Subset
    <2>4. Balance(r, h, j) = Net(r, S) /\ Balance(u, h, j) = Net(u, S)
        BY <2>1 DEF Balance
    <2> HIDE DEF S
    <2> QED BY <2>2, <2>3, <2>4, NetOfSame
<1>5. Balances(r, p) = Balances(u, p)
    <2>1. \A j \in Sells(u, h) : j \in h
        BY DEF Sells
    <2> QED BY <1>1, <1>3, <1>4, <2>1 DEF Balances
<1> QED BY <1>5 DEF Deficit, Balances, r

(* The trades before i, and those up to j, i included or not.              *)
Before(u, p, i) == {k \in History(u, p) \ {i} : Earlier(u, k, i)}

LEMMA BalanceWith ==
    ASSUME NEW u \in Table, NEW i \in Ids, NEW p, i \in History(u, p),
           NEW j \in History(u, p) \ {i}
    PROVE  LET r == Without(u, i)
               h == History(u, p) \ {i}
           IN  Balance(u, History(u, p), j)
                  = Balance(r, h, j) + (IF Earlier(u, i, j) THEN Delta(u[i]) ELSE 0)
<1> DEFINE r == Without(u, i)
           h == History(u, p) \ {i}
           S == {k \in h : k = j \/ Earlier(u, k, j)}
           U == {k \in History(u, p) : k = j \/ Earlier(u, k, j)}
<1>1. \A k \in h : k \in Ids /\ r[k] = u[k]
    BY WithoutFacts, HistoryFacts
<1>2. Balance(r, h, j) = Net(u, S)
    <2>1. {k \in h : k = j \/ Earlier(r, k, j)} = S
        BY <1>1 DEF Earlier
    <2>2. \A k \in S : Delta(r[k]) = Delta(u[k])
        BY <1>1
    <2>3. IsFiniteSet(S)
        BY HistoryFacts, FS_Subset
    <2>4. Balance(r, h, j) = Net(r, S)
        BY <2>1 DEF Balance
    <2> HIDE DEF S
    <2> QED BY <2>2, <2>3, <2>4, NetOfSame
<1>3. Balance(u, History(u, p), j) = Net(u, U)
    BY DEF Balance
<1>4. Net(u, S) \in Int
    <2>1. S \subseteq History(u, p)
        OBVIOUS
    <2> HIDE DEF S
    <2> QED BY <2>1, NetOfHistory
<1>5. CASE Earlier(u, i, j)
    <2>1. i \in U /\ U \ {i} = S
        BY <1>5
    <2>2. IsFiniteSet(U) /\ \A k \in U : Delta(u[k]) \in Int
        BY HistoryFacts, FS_Subset
    <2> HIDE DEF U, S
    <2>3. Net(u, U) = Delta(u[i]) + Net(u, S)
        BY <2>1, <2>2, NetWith
    <2>4. Delta(u[i]) \in Int
        BY <2>1, <2>2
    <2> QED BY <1>2, <1>3, <1>4, <1>5, <2>3, <2>4
<1>6. CASE ~Earlier(u, i, j)
    <2>1. U = S
        BY <1>6
    <2> HIDE DEF U, S
    <2> QED BY <1>2, <1>3, <1>4, <1>6, <2>1
<1> QED BY <1>5, <1>6

LEMMA BalanceOf ==
    ASSUME NEW u \in Table, NEW i \in Ids, NEW p, i \in History(u, p)
    PROVE  Balance(u, History(u, p), i)
              = Delta(u[i]) + Net(Without(u, i), Before(u, p, i))
<1> DEFINE r == Without(u, i)
           S == Before(u, p, i)
           U == {k \in History(u, p) : k = i \/ Earlier(u, k, i)}
<1>1. \A k \in S : r[k] = u[k]
    BY WithoutFacts, HistoryFacts DEF Before
<1>2. IsFiniteSet(U) /\ \A k \in U : Delta(u[k]) \in Int
    BY HistoryFacts, FS_Subset
<1>3. i \in U /\ U \ {i} = S
    BY DEF Before
<1>4. Balance(u, History(u, p), i) = Net(u, U)
    BY DEF Balance
<1> HIDE DEF U, S, r
<1>5. Net(u, U) = Delta(u[i]) + Net(u, S)
    BY <1>2, <1>3, NetWith
<1>6. IsFiniteSet(S)
    BY <1>2, <1>3, FS_Subset
<1>7. Net(u, S) = Net(r, S)
    BY <1>1, <1>6, NetOfSame
<1> QED BY <1>4, <1>5, <1>7 DEF r, S

(* To take anything but a buy away from a position harms nobody.           *)
LEMMA RemovalIsHarmless ==
    ASSUME NEW u \in Table, NEW i \in Ids, NEW p,
           ~(LiveBuy(u[i]) /\ u[i].pos = p)
    PROVE  Deficit(Without(u, i), p) <= Deficit(u, p)
<1> DEFINE r == Without(u, i)
<1>1. Deficit(u, p) \in Nat /\ r \in Table
    BY DeficitFacts, WithoutFacts
<1>2. CASE i \notin History(u, p)
    BY <1>1, <1>2, ForeignRow
<1>3. CASE i \in History(u, p)
    <2>1. u[i] \in Row /\ u[i].kind = "sell"
        <3>1. u[i] \in Row /\ u[i] # NoRow /\ u[i].settled /\ u[i].pos = p
            BY <1>3, HistoryFacts DEF History
        <3>2. u[i].kind \in {"buy", "sell"}
            BY <3>1, RowFacts
        <3> QED BY <3>1, <3>2 DEF LiveBuy
    <2>2. Delta(u[i]) \in Int /\ Delta(u[i]) <= 0
        BY <2>1, RowFacts
    <2>3. History(r, p) = History(u, p) \ {i}
        BY WithoutFacts
    <2>4. ASSUME NEW j \in Sells(r, History(r, p))
          PROVE  Balance(r, History(r, p), j) >= -Deficit(u, p)
        <3>1. j \in History(u, p) \ {i}
            BY <2>3, <2>4 DEF Sells
        <3>2. j \in Sells(u, History(u, p))
            <4>1. j \in Ids /\ r[j] = u[j]
                BY <3>1, HistoryFacts, WithoutFacts
            <4> QED BY <2>4, <3>1, <4>1 DEF Sells
        <3>3. Balance(u, History(u, p), j) >= -Deficit(u, p)
            BY <3>2, DeficitFacts
        <3>4. Balance(u, History(u, p), j) = Balance(r, History(r, p), j)
                  + (IF Earlier(u, i, j) THEN Delta(u[i]) ELSE 0)
            BY <1>3, <2>3, <3>1, BalanceWith
        <3>5. Balance(r, History(r, p), j) \in Int /\ Balance(u, History(u, p), j) \in Int
            BY <1>1, BalanceIsInt
        <3> HIDE DEF r
        <3> QED BY <1>1, <2>2, <3>3, <3>4, <3>5
    <2> HIDE DEF r
    <2>5. Deficit(r, p) <= Deficit(u, p)
        BY <1>1, <2>4, DeficitAtMost
    <2> QED BY <2>5 DEF r
<1> QED BY <1>2, <1>3

(* check_sell_integrity lets only such sells pass as harm nobody.          *)
LEMMA AdditionIsHarmless ==
    ASSUME NEW u \in Table, NEW i \in Ids, NEW p, i \in History(u, p) => ~SellFault(u, i)
    PROVE  Deficit(u, p) <= Deficit(Without(u, i), p)
<1> DEFINE r == Without(u, i)
<1>1. Deficit(r, p) \in Nat /\ Deficit(u, p) \in Nat /\ r \in Table
    BY DeficitFacts, WithoutFacts
<1>2. CASE i \notin History(u, p)
    BY <1>1, <1>2, ForeignRow
<1>3. CASE i \in History(u, p)
    <2> DEFINE n == u[i]
               h == History(u, p) \ {i}
    <2>1. n \in Row /\ n.settled /\ n.pos = p
        BY <1>3, HistoryFacts DEF History
    <2>2. History(r, p) = h
        BY WithoutFacts
    <2>3. \A j \in h : j \in Ids /\ r[j] = u[j]
        BY HistoryFacts, WithoutFacts
    <2>4. \A j \in h : Balance(u, History(u, p), j)
                  = Balance(r, h, j) + (IF Earlier(u, i, j) THEN Delta(n) ELSE 0)
        BY <1>3, BalanceWith
    <2>5. \A j : Balance(r, h, j) \in Int /\ Balance(u, History(u, p), j) \in Int
        BY <1>1, <2>2, BalanceIsInt
    <2>6. \A j \in h : j \in Sells(u, History(u, p)) => Balance(r, h, j) >= -Deficit(r, p)
        <3>1. \A j \in h : j \in Sells(u, History(u, p)) => j \in Sells(r, h)
            BY <2>3 DEF Sells
        <3> QED BY <1>1, <2>2, <3>1, DeficitFacts
    <2>7. CASE n.kind = "buy"
        <3>1. Delta(n) \in Int /\ Delta(n) > 0
            BY <2>1, <2>7, RowFacts
        <3>2. ASSUME NEW j \in Sells(u, History(u, p))
              PROVE  Balance(u, History(u, p), j) >= -Deficit(r, p)
            <4>1. j \in h
                BY <2>7, <3>2 DEF Sells
            <4>2. Balance(u, History(u, p), j)
                      = Balance(r, h, j) + (IF Earlier(u, i, j) THEN Delta(n) ELSE 0)
                BY <2>4, <4>1
            <4>3. Balance(r, h, j) >= -Deficit(r, p)
                BY <2>6, <3>2, <4>1
            <4>4. Balance(r, h, j) \in Int
                BY <2>5
            <4> HIDE DEF r, h, n
            <4> QED BY <1>1, <3>1, <4>2, <4>3, <4>4
        <3> HIDE DEF r
        <3>3. Deficit(u, p) <= Deficit(r, p)
            BY <1>1, <3>2, DeficitAtMost
        <3> QED BY <3>3 DEF r
    <2>8. CASE n.kind = "sell"
        <3> DEFINE q == n.qty
                   before == Before(u, p, i)
        <3>1. q \in Nat /\ Delta(n) = -q
            BY <2>1, <2>8, RowFacts
        <3>2. q <= Net(r, before) /\ \A j \in h \ before : q <= Balance(r, h, j)
            <4> DEFINE old == {j \in h : Earlier(u, j, i)}
                       sums == {Net(r, old)} \cup {Balance(r, h, j) : j \in h \ old}
            <4>1. old = before
                BY DEF Before
            <4>2. Available(u, i) = Min(sums)
                BY <2>1, <2>2 DEF Available
            <4>3. Net(r, old) \in Int
                <5>1. old \subseteq History(r, p)
                    BY <2>2
                <5> HIDE DEF old, r
                <5> QED BY <1>1, <5>1, NetOfHistory
            <4>4. sums \subseteq Int
                <5> HIDE DEF old, r, h
                <5> QED BY <2>5, <4>3
            <4>5. IsFiniteSet(sums)
                <5> DEFINE later == h \ old
                           T == {Balance(r, h, j) : j \in later}
                           f == [j \in later |-> Balance(r, h, j)]
                <5>1. IsFiniteSet(later)
                    BY HistoryFacts, FS_Subset
                <5>2. f \in Surjection(later, T)
                    BY DEF Surjection
                <5>3. IsFiniteSet(T)
                    <6> HIDE DEF f, T, later
                    <6> QED BY <5>1, <5>2, FS_Surjection
                <5>4. IsFiniteSet({Net(r, old)})
                    BY FS_Singleton
                <5> QED BY <5>3, <5>4, FS_Union
            <4>6. sums # {}
                OBVIOUS
            <4>7. \A y \in sums : Min(sums) <= y
                <5> HIDE DEF sums
                <5> QED BY <4>4, <4>5, <4>6, MinOfFinite
            <4>8. Min(sums) \in Int
                <5> HIDE DEF sums
                <5> QED BY <4>4, <4>5, <4>6, MinOfFinite
            <4>9. ~(q > Available(u, i))
                BY <1>3, <2>1, <2>8 DEF SellFault
            <4>10. q <= Min(sums)
                <5> HIDE DEF sums, q
                <5> QED BY <3>1, <4>2, <4>8, <4>9
            <4>11. \A y \in sums : q <= y
                <5> HIDE DEF q
                <5>1. \A y \in sums : y \in Int
                    BY <4>4
                <5> HIDE DEF sums
                <5> QED BY <3>1, <4>7, <4>8, <4>10, <5>1
            <4>12. Net(r, old) \in sums /\ \A j \in h \ old : Balance(r, h, j) \in sums
                OBVIOUS
            <4> HIDE DEF sums, old
            <4> QED BY <4>1, <4>11, <4>12
        <3>3. ASSUME NEW j \in Sells(u, History(u, p))
              PROVE  Balance(u, History(u, p), j) >= -Deficit(r, p)
            <4>1. CASE j = i
                <5>1. Balance(u, History(u, p), i) = Delta(n) + Net(r, before)
                    BY <1>3, BalanceOf
                <5>2. Net(r, before) \in Int
                    <6>1. before \subseteq History(r, p)
                        BY <2>2 DEF Before
                    <6> HIDE DEF before, r
                    <6> QED BY <1>1, <6>1, NetOfHistory
                <5> HIDE DEF r, h, n, q, before
                <5> QED BY <1>1, <3>1, <3>2, <4>1, <5>1, <5>2
            <4>2. CASE j # i
                <5>1. j \in h
                    BY <3>3, <4>2 DEF Sells
                <5>2. Balance(u, History(u, p), j)
                          = Balance(r, h, j) + (IF Earlier(u, i, j) THEN Delta(n) ELSE 0)
                    BY <2>4, <5>1
                <5>3. Balance(r, h, j) \in Int
                    BY <2>5
                <5>4. CASE Earlier(u, i, j)
                    <6>1. j \notin before
                        <7>1. i \in Nat /\ j \in Nat /\ u[i].day \in Nat /\ u[j].day \in Nat
                            <8>1. i \in Ids /\ j \in Ids /\ u[j] \in Row
                                BY <2>3, <5>1, HistoryFacts
                            <8> QED BY <2>1, <8>1, LedgerAssumption, RowFacts
                        <7> QED BY <5>4, <7>1 DEF Before, Earlier
                    <6>2. q <= Balance(r, h, j)
                        BY <3>2, <5>1, <6>1
                    <6> HIDE DEF r, h, n, q, before
                    <6> QED BY <1>1, <3>1, <5>2, <5>3, <5>4, <6>2
                <5>5. CASE ~Earlier(u, i, j)
                    <6>1. Balance(r, h, j) >= -Deficit(r, p)
                        BY <2>6, <3>3, <5>1
                    <6> HIDE DEF r, h, n, q, before
                    <6> QED BY <1>1, <5>2, <5>3, <5>5, <6>1
                <5> QED BY <5>4, <5>5
            <4> QED BY <4>1, <4>2
        <3> HIDE DEF r
        <3>4. Deficit(u, p) <= Deficit(r, p)
            BY <1>1, <3>3, DeficitAtMost
        <3> QED BY <3>4 DEF r
    <2> QED BY <2>1, <2>7, <2>8, RowFacts
<1> QED BY <1>2, <1>3

-----------------------------------------------------------------------------
(* Changes of a row.                                                       *)

LEMMA ChangedTable ==
    ASSUME NEW t \in Table, NEW i \in Ids, NEW n \in Row \cup {NoRow}
    PROVE  /\ [t EXCEPT ![i] = n] \in Table
           /\ [t EXCEPT ![i] = n][i] = n
           /\ Without([t EXCEPT ![i] = n], i) = Without(t, i)
<1> DEFINE u == [t EXCEPT ![i] = n]
           a == Without(u, i)
           b == Without(t, i)
<1>1. u \in Table /\ u[i] = n /\ \A j \in Ids : j # i => u[j] = t[j]
    BY DEF Table
<1> HIDE DEF u
<1>2. a \in Table /\ b \in Table
    BY <1>1, WithoutFacts
<1>3. \A j \in Ids : a[j] = b[j]
    BY <1>1, WithoutFacts
<1> HIDE DEF a, b
<1>4. a = b
    BY <1>2, <1>3 DEF Table
<1> QED BY <1>1, <1>4 DEF a, b, u

(* Whoever makes a position shorter than it was at its worst either wrote  *)
(* a sell that check_sell_integrity refuses, or took from a buy what       *)
(* oversell_after_change finds missing.                                    *)
LEMMA HarmlessRow ==
    ASSUME ledger \in Table, NEW i \in Ids, NEW n \in Row \cup {NoRow}, NEW p
    PROVE  LET u == [ledger EXCEPT ![i] = n]
           IN  \/ Deficit(u, p) <= Deficit(ledger, p)
               \/ i \in History(u, p) /\ SellFault(u, i)
               \/ Conflict(i, n) /\ ledger[i].pos = p
<1> DEFINE u == [ledger EXCEPT ![i] = n]
           r == Without(ledger, i)
<1>1. SUFFICES ASSUME i \in History(u, p) => ~SellFault(u, i),
                      ~(Conflict(i, n) /\ ledger[i].pos = p)
               PROVE  Deficit(u, p) <= Deficit(ledger, p)
    OBVIOUS
<1>2. u \in Table /\ Without(u, i) = r /\ r \in Table
    BY ChangedTable, WithoutFacts
<1>3. Deficit(u, p) \in Nat /\ Deficit(r, p) \in Nat /\ Deficit(ledger, p) \in Nat
    BY <1>2, DeficitFacts
<1>4. Deficit(u, p) <= Deficit(r, p)
    <2> HIDE DEF u, r
    <2> QED BY <1>1, <1>2, AdditionIsHarmless
<1>5. CASE ~(LiveBuy(ledger[i]) /\ ledger[i].pos = p)
    <2>1. Deficit(r, p) <= Deficit(ledger, p)
        BY <1>5, RemovalIsHarmless
    <2> HIDE DEF u, r
    <2> QED BY <1>3, <1>4, <2>1
<1>6. CASE LiveBuy(ledger[i]) /\ ledger[i].pos = p
    <2>1. \/ ~(Deficit(u, p) > Deficit(ledger, p))
          \/ ~(Deficit(r, p) > Deficit(ledger, p))
        BY <1>1, <1>6 DEF Conflict
    <2> HIDE DEF u, r
    <2> QED BY <1>3, <1>4, <2>1
<1> QED BY <1>5, <1>6

-----------------------------------------------------------------------------
(* Flags.                                                                  *)

(* A mark at a sell after which the balance is at its worst.               *)
WorstIsMarked(t, p) ==
    \E i \in Sells(t, History(t, p)) :
        t[i].review /\ Balance(t, History(t, p), i) = -Deficit(t, p)

LEMMA MarkedRow ==
    ASSUME NEW row \in Row, NEW b \in BOOLEAN
    PROVE  LET marked == [row EXCEPT !.review = b]
           IN  marked \in Row /\ marked.review = b /\ SameHolding(row, marked)
BY DEF Row, SameHolding

LEMMA FlagFacts ==
    ASSUME NEW t \in Table, NEW p
    PROVE  /\ Flag(t, p) \in Table /\ Agree(t, Flag(t, p))
           /\ \A i \in Sells(t, History(t, p)) :
                 Balance(t, History(t, p), i) < 0 => Flag(t, p)[i].review
<1> DEFINE marked == {i \in Sells(t, History(t, p)) : Balance(t, History(t, p), i) < 0}
<1>1. Flag(t, p) = [i \in Ids |-> IF i \in marked THEN [t[i] EXCEPT !.review = TRUE] ELSE t[i]]
    BY DEF Flag, Table
<1>2. \A i \in marked : i \in Ids /\ t[i] \in Row
    BY HistoryFacts DEF Sells
<1> HIDE DEF marked
<1>3. \A i \in marked : /\ Flag(t, p)[i] \in Row /\ Flag(t, p)[i].review
                        /\ SameHolding(t[i], Flag(t, p)[i])
    BY <1>1, <1>2, MarkedRow
<1>4. \A i \in Ids \ marked : Flag(t, p)[i] = t[i]
    BY <1>1
<1>5. \A i \in Ids : t[i] \in Row \cup {NoRow}
    BY DEF Table
<1>6. Flag(t, p) \in Table
    BY <1>1, <1>3, <1>4, <1>5 DEF Table
<1>7. Agree(t, Flag(t, p))
    BY <1>2, <1>3, <1>4, NoRowAssumption DEF Agree, SameHolding
<1> QED BY <1>3, <1>6, <1>7 DEF marked

LEMMA FlagMarksTheWorst ==
    ASSUME NEW t \in Table, NEW p, Deficit(Flag(t, p), p) > 0
    PROVE  WorstIsMarked(Flag(t, p), p)
<1> DEFINE v == Flag(t, p)
<1>1. v \in Table /\ Agree(t, v)
    BY FlagFacts
<1>2. /\ Sells(v, History(v, p)) = Sells(t, History(t, p))
      /\ Deficit(v, p) = Deficit(t, p) /\ History(v, p) = History(t, p)
      /\ \A i \in History(t, p) :
            Balance(v, History(v, p), i) = Balance(t, History(t, p), i)
    BY <1>1, AgreeingTables
<1>3. Deficit(t, p) \in Nat
    BY DeficitFacts
<1>4. PICK i \in Sells(t, History(t, p)) : Balance(t, History(t, p), i) = -Deficit(t, p)
    BY <1>2, <1>3, DeficitFacts
<1>5. Balance(t, History(t, p), i) < 0
    BY <1>2, <1>3, <1>4
<1>6. v[i].review
    BY <1>4, <1>5, FlagFacts
<1>7. i \in History(t, p)
    BY <1>4 DEF Sells
<1> HIDE DEF v
<1>8. WorstIsMarked(v, p)
    BY <1>2, <1>4, <1>6, <1>7 DEF WorstIsMarked
<1> QED BY <1>8 DEF v

LEMMA FlagIfFacts ==
    ASSUME NEW t \in Table, NEW p, NEW c \in BOOLEAN
    PROVE  FlagIf(c, t, p) \in Table /\ Agree(t, FlagIf(c, t, p))
<1>1. Agree(t, t)
    BY DEF Agree, SameHolding
<1> QED BY <1>1, FlagFacts DEF FlagIf

(* A change of row i after which the position that lost a buy is flagged.  *)
(* `like' is the changed table, perhaps with a mark on row i itself.       *)
LEMMA FlaggedChange ==
    ASSUME ledger \in Table, NEW i \in Ids, NEW n \in Row \cup {NoRow}, NEW p,
           NEW like \in Table, Agree([ledger EXCEPT ![i] = n], like),
           Deficit(FlagIf(Conflict(i, n), like, ledger[i].pos), p) > Deficit(ledger, p)
    PROVE  \/ /\ Conflict(i, n)
              /\ WorstIsMarked(FlagIf(Conflict(i, n), like, ledger[i].pos), p)
           \/ /\ i \in History([ledger EXCEPT ![i] = n], p)
              /\ SellFault([ledger EXCEPT ![i] = n], i)
              /\ ~(Conflict(i, n) /\ ledger[i].pos = p)
<1> DEFINE u == [ledger EXCEPT ![i] = n]
           c == Conflict(i, n)
           v == FlagIf(c, like, ledger[i].pos)
<1>1. u \in Table
    BY ChangedTable
<1>2. c \in BOOLEAN
    BY DEF Conflict
<1>3. v \in Table /\ Agree(like, v)
    <2> HIDE DEF c
    <2> QED BY <1>2, FlagIfFacts
<1>4. Deficit(v, p) = Deficit(u, p)
    <2>1. Deficit(v, p) = Deficit(like, p)
        <3> HIDE DEF v
        <3> QED BY <1>3, AgreeingTables
    <2>2. Deficit(like, p) = Deficit(u, p)
        <3> HIDE DEF u
        <3> QED BY <1>1, AgreeingTables DEF u
    <2> QED BY <2>1, <2>2
<1>5. Deficit(v, p) \in Nat /\ Deficit(ledger, p) \in Nat /\ Deficit(v, p) > Deficit(ledger, p)
    BY <1>3, DeficitFacts
<1>6. ~(Deficit(u, p) <= Deficit(ledger, p)) /\ Deficit(v, p) > 0
    <2> HIDE DEF u, v
    <2> QED BY <1>4, <1>5
<1>7. CASE c /\ ledger[i].pos = p
    <2>1. v = Flag(like, p)
        BY <1>7 DEF FlagIf
    <2>2. WorstIsMarked(v, p)
        <3> HIDE DEF v
        <3> QED BY <1>6, <2>1, FlagMarksTheWorst
    <2> QED BY <1>7, <2>2
<1>8. CASE ~(c /\ ledger[i].pos = p)
    BY <1>6, <1>8, HarmlessRow
<1> QED BY <1>7, <1>8

-----------------------------------------------------------------------------
(* Types.                                                                  *)

LEMMA TypedRow ==
    ASSUME TypeOK, NEW f \in Typed, NEW settled \in BOOLEAN, NEW bot \in BOOLEAN,
           NEW review \in BOOLEAN
    PROVE  /\ AsRow(f, settled, bot, review) \in Row
           /\ AsRow(f, settled, bot, review).settled = settled
           /\ AsRow(f, settled, bot, review).pos = f.pos
<1>1. world.days \subseteq Days /\ world.positions \subseteq Positions
    BY DEF TypeOK, Days, Positions
<1>2. f.kind \in {"buy", "sell"} /\ f.qty \in Quantities /\ f.day \in Days
        /\ f.pos \in Positions
    BY <1>1 DEF Typed
<1> QED BY <1>2 DEF AsRow, Row

(* A row of the ledger.                                                    *)
LEMMA LedgerRow ==
    ASSUME TypeOK, NEW i \in Ids, ledger[i] # NoRow
    PROVE  /\ ledger \in Table /\ ledger[i] \in Row
           /\ ledger[i].settled \in BOOLEAN /\ ledger[i].bot \in BOOLEAN
           /\ ledger[i].review \in BOOLEAN
<1>1. ledger[i] \in Row
    BY DEF TypeOK
<1> QED BY <1>1 DEF TypeOK, Table, Row

(* Row i is written in one of two forms that hold the same shares.         *)
LEMMA SameRowWritten ==
    ASSUME NEW t \in Table, NEW i \in Ids, NEW row \in Row, NEW other \in Row,
           SameHolding(row, other)
    PROVE  /\ [t EXCEPT ![i] = other] \in Table
           /\ Agree([t EXCEPT ![i] = row], [t EXCEPT ![i] = other])
<1> DEFINE u == [t EXCEPT ![i] = row]
           v == [t EXCEPT ![i] = other]
<1>1. v \in Table /\ v[i] = other /\ u[i] = row /\ \A j \in Ids \ {i} : u[j] = v[j]
    BY DEF Table
<1> HIDE DEF u, v
<1>2. Agree(u, v)
    BY <1>1, NoRowAssumption DEF Agree, SameHolding
<1> QED BY <1>1, <1>2 DEF u, v

-----------------------------------------------------------------------------
(* Steps.  What each may do to the worst balance of a position.            *)

Deepens(p) == Deficit(ledger', p) > Deficit(ledger, p)

Marked(p) ==
    \E i \in Sells(ledger', History(ledger', p)) :
        /\ ledger'[i].review
        /\ \/ ledger'[i] # ledger[i]
           \/ Balance(ledger', History(ledger', p), i) = -Deficit(ledger', p)

LEMMA WorstIsEnough ==
    ASSUME NEW p, WorstIsMarked(ledger', p) PROVE Marked(p)
BY DEF WorstIsMarked, Marked

LEMMA NothingDeepens ==
    ASSUME ledger \in Table, NEW t \in Table, Agree(ledger, t), NEW p
    PROVE  ~(Deficit(t, p) > Deficit(ledger, p))
<1>1. Deficit(t, p) = Deficit(ledger, p)
    BY AgreeingTables
<1> QED BY <1>1, DeficitFacts

LEMMA WebCreateStep ==
    ASSUME TypeOK, NEW i \in Ids, NEW f \in Typed, WebCreate(i, f)
    PROVE  ledger' \in Table /\ \A p : ~Deepens(p)
<1> DEFINE n == AsRow(f, TRUE, FALSE, FALSE)
<1>1. n \in Row /\ ledger \in Table
    BY TypedRow DEF TypeOK, Table
<1>2. /\ ledger[i] = NoRow /\ ledger' = [ledger EXCEPT ![i] = n]
      /\ ~SellFault([ledger EXCEPT ![i] = n], i)
    BY DEF WebCreate
<1>3. \A m : ~Conflict(i, m)
    BY <1>2 DEF Conflict, LiveBuy
<1> HIDE DEF n
<1>4. ledger' \in Table
    BY <1>1, <1>2, ChangedTable
<1>5. ASSUME NEW p PROVE ~Deepens(p)
    <2>1. Deficit(ledger', p) <= Deficit(ledger, p)
        BY <1>1, <1>2, <1>3, HarmlessRow
    <2>2. Deficit(ledger', p) \in Nat /\ Deficit(ledger, p) \in Nat
        BY <1>1, <1>4, DeficitFacts
    <2> QED BY <2>1, <2>2 DEF Deepens
<1> QED BY <1>4, <1>5

(* With or without force: where a position gets shorter, it was forced.    *)
LEMMA WebUpdateStep ==
    ASSUME TypeOK, NEW i \in Ids, NEW f \in Typed, NEW force \in BOOLEAN,
           WebUpdate(i, f, force)
    PROVE  ledger' \in Table /\ \A p : Deepens(p) => force /\ Marked(p)
<1> DEFINE n == AsRow(f, ledger[i].settled, ledger[i].bot, ledger[i].review)
           u == [ledger EXCEPT ![i] = n]
<1>1. ledger[i] # NoRow /\ ledger[i] \in Row /\ ledger \in Table
    BY LedgerRow DEF WebUpdate
<1>2. n \in Row
    BY <1>1, LedgerRow, TypedRow
<1>3. /\ Conflict(i, n) = force
      /\ SameHolding(ledger[i], n) \/ ~SellFault(u, i)
      /\ ledger' = FlagIf(Conflict(i, n), u, ledger[i].pos)
    BY DEF WebUpdate
<1> HIDE DEF n
<1>4. u \in Table /\ u[i] = n /\ Agree(u, u)
    BY <1>1, <1>2, ChangedTable DEF Agree, SameHolding
<1>5. ledger' \in Table /\ Agree(u, ledger')
    <2> HIDE DEF u
    <2> QED BY <1>3, <1>4, FlagIfFacts
<1>6. ASSUME NEW p, Deepens(p) PROVE force /\ Marked(p)
    <2>1. ~(SellFault(u, i) /\ SameHolding(ledger[i], n))
        <3>1. SUFFICES ASSUME SameHolding(ledger[i], n) PROVE FALSE
            OBVIOUS
        <3>2. Agree(ledger, u)
            <4>1. \A j \in Ids \ {i} : u[j] = ledger[j]
                BY <1>1 DEF Table
            <4> HIDE DEF u
            <4> QED BY <1>1, <1>2, <1>4, <3>1, <4>1, NoRowAssumption DEF Agree, SameHolding
        <3>3. Deficit(ledger', p) = Deficit(u, p) /\ Deficit(u, p) = Deficit(ledger, p)
            <4> HIDE DEF u
            <4> QED BY <1>1, <1>4, <1>5, <3>2, AgreeingTables
        <3>4. Deficit(ledger, p) \in Nat
            BY <1>1, DeficitFacts
        <3> QED BY <1>6, <3>3, <3>4 DEF Deepens
    <2>2. ~SellFault(u, i)
        BY <1>3, <2>1
    <2>3. Deficit(FlagIf(Conflict(i, n), u, ledger[i].pos), p) > Deficit(ledger, p)
        BY <1>3, <1>6 DEF Deepens
    <2>4. Conflict(i, n) /\ WorstIsMarked(ledger', p)
        BY <1>1, <1>2, <1>3, <1>4, <2>2, <2>3, FlaggedChange
    <2> QED BY <1>3, <2>4, WorstIsEnough
<1> QED BY <1>5, <1>6

(* A row that is deleted, by the web or by a bot.                          *)
LEMMA Deletion ==
    ASSUME TypeOK, NEW i \in Ids, ledger[i] # NoRow,
           ledger' = FlagIf(Conflict(i, NoRow), Without(ledger, i), ledger[i].pos)
    PROVE  ledger' \in Table /\ \A p : Deepens(p) => Conflict(i, NoRow) /\ Marked(p)
<1> DEFINE u == [ledger EXCEPT ![i] = NoRow]
<1>1. ledger \in Table /\ u \in Table /\ Without(ledger, i) = u /\ Agree(u, u)
    BY LedgerRow, ChangedTable DEF Without, Agree, SameHolding
<1>2. Conflict(i, NoRow) \in BOOLEAN
    BY DEF Conflict
<1>3. ledger' \in Table
    <2> HIDE DEF u
    <2> QED BY <1>1, <1>2, FlagIfFacts
<1>4. ASSUME NEW p, Deepens(p) PROVE Conflict(i, NoRow) /\ Marked(p)
    <2>1. i \notin History(u, p)
        BY <1>1, ChangedTable DEF History
    <2>2. Deficit(FlagIf(Conflict(i, NoRow), u, ledger[i].pos), p) > Deficit(ledger, p)
        BY <1>1, <1>4 DEF Deepens
    <2>3. Conflict(i, NoRow) /\ WorstIsMarked(ledger', p)
        BY <1>1, <2>1, <2>2, FlaggedChange
    <2> QED BY <2>3, WorstIsEnough
<1> QED BY <1>3, <1>4

LEMMA ResolveReviewStep ==
    ASSUME TypeOK, NEW i \in Ids, ResolveReview(i)
    PROVE  ledger' \in Table /\ \A p : ~Deepens(p)
<1> DEFINE old == ledger[i]
           w == [old EXCEPT !.review = FALSE]
<1>1. old \in Row /\ ledger \in Table
    BY LedgerRow DEF ResolveReview
<1>2. w \in Row /\ SameHolding(old, w)
    BY <1>1, MarkedRow
<1>3. ledger' = [ledger EXCEPT ![i] = w]
    BY DEF ResolveReview
<1>4. [ledger EXCEPT ![i] = old] = ledger
    BY <1>1 DEF Table
<1> HIDE DEF w, old
<1>5. ledger' \in Table /\ Agree([ledger EXCEPT ![i] = old], ledger')
    BY <1>1, <1>2, <1>3, SameRowWritten
<1> QED BY <1>1, <1>4, <1>5, NothingDeepens DEF Deepens

LEMMA BotInsertStep ==
    ASSUME TypeOK, NEW f \in Typed, NEW settled \in BOOLEAN, BotInsert(f, settled)
    PROVE  ledger' \in Table /\ \A p : Deepens(p) => Marked(p)
<1> DEFINE i == Max({0} \cup Used) + 1
           n == AsRow(f, settled, TRUE, FALSE)
           u == [ledger EXCEPT ![i] = n]
           fault == SellFault(u, i)
           w == [n EXCEPT !.review = fault]
           v == [ledger EXCEPT ![i] = w]
<1>1. i \in Ids /\ ledger \in Table /\ n \in Row
    BY TypedRow DEF BotInsert, TypeOK, Table
<1>2. ledger[i] = NoRow
    <2>1. {0} \cup Used \subseteq Int /\ IsFiniteSet({0} \cup Used)
        <3>1. IsFiniteSet(Used) /\ Used \subseteq Nat
            BY LedgerAssumption, FS_Subset DEF Used
        <3>2. IsFiniteSet({0})
            BY FS_Singleton
        <3>3. IsFiniteSet({0} \cup Used)
            BY <3>1, <3>2, FS_Union
        <3> QED BY <3>1, <3>3
    <2>2. Max({0} \cup Used) \in {0} \cup Used /\ \A j \in {0} \cup Used : Max({0} \cup Used) >= j
        BY <2>1, MaxOfFinite
    <2>3. Max({0} \cup Used) \in Int
        BY <2>1, <2>2
    <2>4. i \notin Used
        <3> DEFINE m == Max({0} \cup Used)
        <3>1. m \in Int /\ \A j \in Used : m >= j
            BY <2>2, <2>3
        <3> HIDE DEF m
        <3>2. m + 1 \notin Used
            BY <3>1
        <3> QED BY <3>2 DEF m
    <2> QED BY <1>1, <2>4 DEF Used, Free
<1>3. w \in Row /\ SameHolding(n, w) /\ w.review = fault
    <2>1. fault \in BOOLEAN
        BY DEF SellFault
    <2> HIDE DEF n, fault
    <2> QED BY <1>1, <2>1, MarkedRow
<1>4. ledger' = v
    <2>1. ledger' = [u EXCEPT ![i].review = fault]
        BY DEF BotInsert
    <2>2. u[i] = n
        BY <1>1 DEF Table
    <2>3. ledger' = [u EXCEPT ![i] = w]
        BY <2>1, <2>2
    <2> HIDE DEF n, i, w
    <2>4. [u EXCEPT ![i] = w] = v
        BY <1>1 DEF Table
    <2> QED BY <2>3, <2>4
<1> HIDE DEF w
<1> HIDE DEF i
<1>5. ~Conflict(i, n)
    BY <1>2 DEF Conflict, LiveBuy
<1> HIDE DEF n
<1>6. u \in Table /\ u[i] = n
    BY <1>1, ChangedTable
<1>7. v \in Table /\ Agree(u, v) /\ v[i] = w
    BY <1>1, <1>3, SameRowWritten DEF Table
<1> HIDE DEF fault
<1> HIDE DEF v
<1>8. ASSUME NEW p, Deepens(p) PROVE Marked(p)
    <2>1. FlagIf(Conflict(i, n), v, ledger[i].pos) = ledger'
        BY <1>4, <1>5 DEF FlagIf
    <2>2. i \in History(u, p) /\ fault
        <3>1. Deficit(FlagIf(Conflict(i, n), v, ledger[i].pos), p) > Deficit(ledger, p)
            BY <1>8, <2>1 DEF Deepens
        <3> QED BY <1>1, <1>5, <1>7, <3>1, FlaggedChange DEF fault
    <2>3. u[i].kind = "sell"
        BY <2>2 DEF fault, SellFault
    <2> HIDE DEF u
    <2>4. i \in Sells(u, History(u, p))
        BY <2>2, <2>3 DEF Sells
    <2>5. i \in Sells(v, History(v, p))
        BY <1>6, <1>7, <2>4, AgreeingTables
    <2>6. v[i] # NoRow
        <3>1. i \in History(v, p)
            BY <2>5 DEF Sells
        <3> QED BY <3>1 DEF History
    <2> QED BY <1>2, <1>3, <1>4, <1>7, <2>2, <2>5, <2>6 DEF Marked
<1> QED BY <1>4, <1>7, <1>8

LEMMA BotPatchStep ==
    ASSUME TypeOK, NEW i \in Ids, NEW qty \in Quantities, NEW settled \in BOOLEAN,
           NEW day \in Days, NEW measured \in BOOLEAN,
           BotPatch(i, qty, settled, day, measured)
    PROVE  ledger' \in Table /\ \A p : Deepens(p) => Marked(p)
<1> DEFINE old == ledger[i]
           n == [old EXCEPT !.qty = qty, !.settled = settled, !.day = day]
           u == [ledger EXCEPT ![i] = n]
           fault == measured /\ SellFault(u, i)
           review == old.review \/ fault
           w == [n EXCEPT !.review = review]
           v == [ledger EXCEPT ![i] = w]
<1>1. /\ old # NoRow /\ old \in Row /\ old.review \in BOOLEAN /\ ledger \in Table
    BY LedgerRow DEF BotPatch
<1>2. n \in Row /\ n.pos = old.pos /\ n.review = old.review
    <2> HIDE DEF old
    <2> QED BY <1>1 DEF Row
<1>3. /\ old # n => measured
      /\ ledger' = FlagIf(Conflict(i, n), v, old.pos)
    <2> DEFINE z == [n EXCEPT !.review = @ \/ fault]
    <2>1. ledger' = FlagIf(Conflict(i, n), [ledger EXCEPT ![i] = z], old.pos)
        BY DEF BotPatch
    <2>2. z = w
        BY <1>2
    <2>3. old # n => measured
        BY DEF BotPatch
    <2> HIDE DEF n, z, w, old
    <2> QED BY <2>1, <2>2, <2>3
<1>4. fault \in BOOLEAN /\ review \in BOOLEAN /\ Conflict(i, n) \in BOOLEAN
    BY <1>1 DEF SellFault, Conflict
<1> HIDE DEF n
<1>5. u \in Table /\ u[i] = n
    BY <1>1, <1>2, ChangedTable
<1> HIDE DEF review
<1>6. w \in Row /\ SameHolding(n, w) /\ w.review = review
    BY <1>2, <1>4, MarkedRow
<1> HIDE DEF w
<1>7. v \in Table /\ Agree(u, v) /\ v[i] = w
    BY <1>1, <1>2, <1>6, SameRowWritten DEF Table
<1>8. v[i] = old => v = ledger
    BY <1>1, <1>7 DEF Table
<1> HIDE DEF v
<1>9. ledger' \in Table /\ Agree(v, ledger')
    BY <1>3, <1>4, <1>7, FlagIfFacts
<1>10. ASSUME NEW p, Deepens(p) PROVE Marked(p)
    <2>1. Deficit(FlagIf(Conflict(i, n), v, ledger[i].pos), p) > Deficit(ledger, p)
        BY <1>3, <1>10 DEF Deepens
    <2>2. CASE WorstIsMarked(ledger', p)
        BY <2>2, WorstIsEnough
    <2>3. CASE /\ i \in History(u, p) /\ SellFault(u, i)
               /\ ~(Conflict(i, n) /\ ledger[i].pos = p)
        <3>1. n.pos = p
            BY <1>5, <2>3 DEF History
        <3>2. ledger' = v
            BY <1>2, <1>3, <2>3, <3>1 DEF FlagIf
        <3>3. ledger'[i] # ledger[i]
            <4>1. SUFFICES ASSUME ledger'[i] = ledger[i] PROVE FALSE
                OBVIOUS
            <4>2. ledger' = ledger
                BY <1>8, <3>2, <4>1
            <4>3. Deficit(ledger, p) \in Nat
                BY <1>1, DeficitFacts
            <4> QED BY <1>10, <4>2, <4>3 DEF Deepens
        <3>4. measured
            <4>1. SUFFICES ASSUME ~measured PROVE FALSE
                OBVIOUS
            <4>2. u = ledger
                BY <1>1, <1>3, <4>1 DEF Table
            <4> HIDE DEF u
            <4>3. Agree(ledger, v)
                BY <1>7, <4>2
            <4>4. ~(Deficit(v, p) > Deficit(ledger, p))
                BY <1>1, <1>7, <4>3, NothingDeepens
            <4> QED BY <1>10, <3>2, <4>4 DEF Deepens
        <3>5. review = TRUE
            BY <1>4, <2>3, <3>4 DEF review
        <3>6. u[i].kind = "sell"
            BY <2>3 DEF SellFault
        <3> HIDE DEF u
        <3>7. i \in Sells(v, History(v, p))
            <4>1. i \in Sells(u, History(u, p))
                BY <2>3, <3>6 DEF Sells
            <4> QED BY <1>5, <1>7, <4>1, AgreeingTables
        <3> QED BY <1>6, <1>7, <3>2, <3>3, <3>5, <3>7 DEF Marked
    <2> QED BY <1>1, <1>2, <1>3, <1>7, <2>1, <2>2, <2>3, FlaggedChange
<1> QED BY <1>9, <1>10

-----------------------------------------------------------------------------
(* The theorems.                                                           *)

LEMMA InitTypes == Init => TypeOK
BY DEF Init, TypeOK

(* Types, and what each kind of step may do.                               *)
LEMMA StepsKeep ==
    ASSUME TypeOK
    PROVE  /\ WebStep => ledger' \in Table /\ \A p : ~Deepens(p)
           /\ ForcedStep \/ BotStep => ledger' \in Table /\ \A p : Deepens(p) => Marked(p)
<1>1. ASSUME WebStep PROVE ledger' \in Table /\ \A p : ~Deepens(p)
    <2>1. ASSUME NEW i \in Ids, NEW f \in Typed, WebUpdate(i, f, FALSE)
          PROVE  ledger' \in Table /\ \A p : ~Deepens(p)
        BY <2>1, WebUpdateStep
    <2>2. ASSUME NEW i \in Ids, WebDelete(i, FALSE)
          PROVE  ledger' \in Table /\ \A p : ~Deepens(p)
        <3>1. ~Conflict(i, NoRow) /\ ledger[i] # NoRow
            BY <2>2 DEF WebDelete
        <3>2. ledger' = FlagIf(Conflict(i, NoRow), Without(ledger, i), ledger[i].pos)
            BY <2>2 DEF WebDelete
        <3> QED BY <3>1, <3>2, Deletion
    <2> QED BY <1>1, <2>1, <2>2, WebCreateStep, ResolveReviewStep DEF WebStep
<1>2. ASSUME ForcedStep PROVE ledger' \in Table /\ \A p : Deepens(p) => Marked(p)
    <2>1. ASSUME NEW i \in Ids, WebDelete(i, TRUE)
          PROVE  ledger' \in Table /\ \A p : Deepens(p) => Marked(p)
        BY <2>1, Deletion DEF WebDelete
    <2>2. ASSUME NEW i \in Ids, NEW f \in Typed, WebUpdate(i, f, TRUE)
          PROVE  ledger' \in Table /\ \A p : Deepens(p) => Marked(p)
        BY <2>2, WebUpdateStep
    <2> QED BY <1>2, <2>1, <2>2 DEF ForcedStep
<1>3. ASSUME BotStep PROVE ledger' \in Table /\ \A p : Deepens(p) => Marked(p)
    <2>1. world.statuses \subseteq BOOLEAN /\ world.days \subseteq Days
        BY LedgerAssumption DEF TypeOK, Days
    <2>2. ASSUME NEW i \in Ids, BotDelete(i)
          PROVE  ledger' \in Table /\ \A p : Deepens(p) => Marked(p)
        BY <2>2, Deletion DEF BotDelete
    <2>3. ASSUME NEW f \in Typed, NEW settled \in world.statuses, BotInsert(f, settled)
          PROVE  ledger' \in Table /\ \A p : Deepens(p) => Marked(p)
        BY <2>1, <2>3, BotInsertStep
    <2>4. ASSUME NEW i \in Ids, NEW qty \in Quantities, NEW settled \in world.statuses,
                 NEW day \in world.days, NEW measured \in BOOLEAN,
                 BotPatch(i, qty, settled, day, measured)
          PROVE  ledger' \in Table /\ \A p : Deepens(p) => Marked(p)
        BY <2>1, <2>4, BotPatchStep
    <2> QED BY <1>3, <2>2, <2>3, <2>4 DEF BotStep
<1> QED BY <1>1, <1>2, <1>3

(* The ledger holds rows, and the world never changes.                     *)
THEOREM LedgerTypes == Spec => []TypeOK
<1>1. ASSUME TypeOK, [Next]_vars PROVE TypeOK'
    <2>1. CASE Next
        BY <1>1, <2>1, StepsKeep DEF Next, TypeOK, Table
    <2>2. CASE UNCHANGED vars
        BY <1>1, <2>2 DEF vars, TypeOK
    <2> QED BY <1>1, <2>1, <2>2
<1> QED BY <1>1, InitTypes, PTL DEF Spec

(* What the web lets through without asking - a new trade, a correction, a *)
(* move in time or to another account, a deletion - never makes any        *)
(* position shorter than it was at its worst (entry_logic.py:208-315).     *)
THEOREM WebStepsNeverDeepen == Spec => WebNeverDeepens
<1>1. ASSUME TypeOK, [Next]_vars
      PROVE  [(\E p \in Positions : Deficit(ledger', p) > Deficit(ledger, p)) => ~WebStep]_ledger
    BY <1>1, StepsKeep DEF Deepens
<1> QED BY <1>1, LedgerTypes, PTL DEF Spec, WebNeverDeepens

(* Whoever makes a position shorter - a bot, or a user who confirmed -     *)
(* leaves a mark on one of its sells, and the mark leads to the shortage   *)
(* (entry_logic.py:318, trading_api/entries.py:243, entries.py:299).       *)
THEOREM ShortagesAreMarked == Spec => NoSilentShortage
<1>1. ASSUME TypeOK, [Next]_vars
      PROVE  [\A p \in Positions :
                 Deficit(ledger', p) > Deficit(ledger, p) =>
                    \E i \in Sells(ledger', History(ledger', p)) :
                       /\ ledger'[i].review
                       /\ \/ ledger'[i] # ledger[i]
                          \/ Balance(ledger', History(ledger', p), i) = -Deficit(ledger', p)]_ledger
    <2>1. CASE Next
        <3>1. \A p : Deepens(p) => Marked(p)
            BY <1>1, <2>1, StepsKeep DEF Next
        <3> QED BY <3>1 DEF Deepens, Marked
    <2>2. CASE UNCHANGED vars
        BY <2>2 DEF vars
    <2> QED BY <1>1, <2>1, <2>2
<1> QED BY <1>1, LedgerTypes, PTL DEF Spec, NoSilentShortage
=============================================================================
