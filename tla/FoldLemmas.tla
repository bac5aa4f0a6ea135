------------------------------ MODULE FoldLemmas ------------------------------
(***************************************************************************)
(* Folds over finite sets, as the models use them: for holdings, lots,     *)
(* sums and curves of profits.  MapThenFoldSet is defined by recursion;    *)
(* these lemmas say what it computes from what it computes of a smaller    *)
(* set, for any operation `Op', any value `Map' of an element and any way  *)
(* `Pick' to name the element that comes last.                             *)
(*                                                                         *)
(* Each kind of fold is an instance of this module.  `data' is what `Map'  *)
(* looks an element up in, say a table whose rows are summed.              *)
(***************************************************************************)
EXTENDS Integers, Folds, FiniteSetsExt, FiniteSetTheorems, WellFoundedInduction, TLAPS

CONSTANTS Op(_, _), Base, Map(_, _), Pick(_)

Fold(data, S) == MapThenFoldSet(Op, Base, LAMBDA x : Map(data, x), Pick, S)

(* `Pick' names an element of each set of elements of S.                   *)
PicksFrom(S) == \A T \in SUBSET S : T # {} => Pick(T) \in T

-----------------------------------------------------------------------------
(* Finite sets.                                                            *)

(* Among sets of elements of a finite set one is minimal.                  *)
LEMMA MinimalSubset ==
    ASSUME NEW S, IsFiniteSet(S), NEW T, T \subseteq SUBSET S, T # {}
    PROVE  \E m \in T : \A n \in T : n \subseteq m => n = m
<1>1. \A t \in T : t \in FiniteSubsetsOf(S)
    <2>1. \A t \in T : t \in SUBSET S /\ IsFiniteSet(t)
        BY FS_Subset
    <2> QED BY <2>1 DEF FiniteSubsetsOf
<1>2. PICK m \in T : \A t \in T : <<t, m>> \notin StrictSubsetOrdering(S)
    <2>1. IsWellFoundedOn(StrictSubsetOrdering(S), FiniteSubsetsOf(S))
        BY FS_StrictSubsetOrderingWellFounded
    <2> QED BY <1>1, <2>1, WFMin
<1>3. ASSUME NEW n \in T, n \subseteq m, n # m PROVE FALSE
    <2>1. <<n, m>> \in StrictSubsetOrdering(S)
        BY <1>3 DEF StrictSubsetOrdering
    <2> QED BY <1>2, <2>1
<1> QED BY <1>3

(* So what holds of the empty set and of each other one, if it holds of    *)
(* that one without some element, holds of all finite sets; `Good' are     *)
(* those of which it holds.                                                *)
LEMMA SetInduction ==
    ASSUME NEW S, IsFiniteSet(S), NEW Good, {} \in Good,
           \A T \in SUBSET S : T # {} => \E x \in T : T \ {x} \in Good => T \in Good
    PROVE  S \in Good
<1> DEFINE Bad == (SUBSET S) \ Good
<1>1. SUFFICES ASSUME Bad # {} PROVE FALSE
    OBVIOUS
<1>2. PICK m \in Bad : \A n \in Bad : n \subseteq m => n = m
    <2> Bad \subseteq SUBSET S
        OBVIOUS
    <2> HIDE DEF Bad
    <2> QED BY <1>1, MinimalSubset
<1>3. m \in SUBSET S /\ m \notin Good /\ m # {}
    OBVIOUS
<1>4. PICK x \in m : m \ {x} \in Good => m \in Good
    BY <1>3
<1>5. m \ {x} \in Bad /\ m \ {x} \subseteq m /\ m \ {x} # m
    BY <1>3, <1>4
<1> QED BY <1>2, <1>5

(* Of finitely many elements one is minimal in an order R.                 *)
LEMMA MinimalElement ==
    ASSUME NEW S, IsFiniteSet(S), S # {}, NEW R,
           \A x, y, z \in S : <<x, y>> \in R /\ <<y, z>> \in R => <<x, z>> \in R,
           \A x \in S : <<x, x>> \notin R
    PROVE  \E x \in S : \A y \in S : <<y, x>> \notin R
<1> DEFINE Below(x) == {y \in S : <<y, x>> \in R}
           Sets == {Below(x) : x \in S}
<1>1. Sets \subseteq SUBSET S /\ Sets # {}
    <2>1. Sets \subseteq SUBSET S
        OBVIOUS
    <2>2. PICK x \in S : TRUE
        OBVIOUS
    <2>3. Below(x) \in Sets
        OBVIOUS
    <2> QED BY <2>1, <2>3
<1>2. PICK m \in Sets : \A n \in Sets : n \subseteq m => n = m
    <2> HIDE DEF Sets
    <2> QED BY <1>1, MinimalSubset
<1>3. PICK x \in S : m = Below(x)
    OBVIOUS
<1>4. ASSUME NEW y \in S, <<y, x>> \in R PROVE FALSE
    <2>1. Below(y) \in Sets /\ Below(y) \subseteq Below(x)
        BY <1>4
    <2>2. y \in Below(x) /\ y \notin Below(y)
        BY <1>4
    <2> HIDE DEF Below, Sets
    <2> QED BY <1>2, <1>3, <2>1, <2>2
<1> QED BY <1>4

LEMMA MinOfFinite ==
    ASSUME NEW S, S \subseteq Int, IsFiniteSet(S), S # {}
    PROVE  Min(S) \in S /\ \A y \in S : Min(S) <= y
<1> DEFINE R == {p \in S \X S : p[1] < p[2]}
<1>1. \A x, y \in S : <<x, y>> \in R <=> x < y
    OBVIOUS
<1> HIDE DEF R
<1>2. \E x \in S : \A y \in S : <<y, x>> \notin R
    <2>1. \A x, y, z \in S : <<x, y>> \in R /\ <<y, z>> \in R => <<x, z>> \in R
        BY <1>1
    <2>2. \A x \in S : <<x, x>> \notin R
        BY <1>1
    <2> QED BY <2>1, <2>2, MinimalElement
<1>3. PICK x \in S : \A y \in S : <<y, x>> \notin R
    BY <1>2
<1>4. \A y \in S : x <= y
    <2>1. SUFFICES ASSUME NEW y \in S PROVE x <= y
        OBVIOUS
    <2>2. x \in Int /\ y \in Int
        OBVIOUS
    <2>3. ~(y < x)
        BY <1>1, <1>3
    <2> QED BY <2>2, <2>3
<1>5. \E z \in S : \A y \in S : z <= y
    BY <1>4
<1> QED BY <1>5, Zenon DEF Min

LEMMA MaxOfFinite ==
    ASSUME NEW S, S \subseteq Int, IsFiniteSet(S), S # {}
    PROVE  Max(S) \in S /\ \A y \in S : Max(S) >= y
<1> DEFINE R == {p \in S \X S : p[1] > p[2]}
<1>1. \A x, y \in S : <<x, y>> \in R <=> x > y
    OBVIOUS
<1> HIDE DEF R
<1>2. \E x \in S : \A y \in S : <<y, x>> \notin R
    <2>1. \A x, y, z \in S : <<x, y>> \in R /\ <<y, z>> \in R => <<x, z>> \in R
        BY <1>1
    <2>2. \A x \in S : <<x, x>> \notin R
        BY <1>1
    <2> QED BY <2>1, <2>2, MinimalElement
<1>3. PICK x \in S : \A y \in S : <<y, x>> \notin R
    BY <1>2
<1>4. \A y \in S : x >= y
    <2>1. SUFFICES ASSUME NEW y \in S PROVE x >= y
        OBVIOUS
    <2>2. x \in Int /\ y \in Int
        OBVIOUS
    <2>3. ~(y > x)
        BY <1>1, <1>3
    <2> QED BY <2>2, <2>3
<1>5. \E z \in S : \A y \in S : z >= y
    BY <1>4
<1> QED BY <1>5, Zenon DEF Max

-----------------------------------------------------------------------------
(* Folds.                                                                  *)

(* f is the recursive function of Fold for the subsets of S.               *)
Folding(data, S, f) ==
    f = [s \in SUBSET S |-> IF s = {} THEN Base
                            ELSE Op(Map(data, Pick(s)), f[s \ {Pick(s)}])]

LEMMA FoldByFolding ==
    ASSUME NEW data, NEW S
    PROVE  Fold(data, S) = (CHOOSE f : Folding(data, S, f))[S]
BY DEF Fold, MapThenFoldSet, Folding

LEMMA FoldingStep ==
    ASSUME NEW data, NEW S, NEW f, Folding(data, S, f), NEW s \in SUBSET S
    PROVE  /\ s = {} => f[s] = Base
           /\ s # {} => f[s] = Op(Map(data, Pick(s)), f[s \ {Pick(s)}])
<1>1. f = [r \in SUBSET S |-> IF r = {} THEN Base
                              ELSE Op(Map(data, Pick(r)), f[r \ {Pick(r)}])]
    BY Zenon DEF Folding
<1> QED BY <1>1, Zenon

LEMMA FoldingIsUnique ==
    ASSUME NEW data, NEW S, IsFiniteSet(S), PicksFrom(S),
           NEW f, NEW g, Folding(data, S, f), Folding(data, S, g)
    PROVE  f = g
<1> DEFINE Good == {s \in SUBSET S : f[s] = g[s]}
<1>1. f[{}] = g[{}]
    BY FoldingStep
<1>2. ASSUME NEW T \in SUBSET S, T # {}, T \ {Pick(T)} \in Good
      PROVE  T \in Good
    <2>1. f[T \ {Pick(T)}] = g[T \ {Pick(T)}]
        BY <1>2
    <2>2. f[T] = Op(Map(data, Pick(T)), f[T \ {Pick(T)}])
        BY <1>2, FoldingStep
    <2>3. g[T] = Op(Map(data, Pick(T)), g[T \ {Pick(T)}])
        BY <1>2, FoldingStep
    <2> QED BY <2>1, <2>2, <2>3
<1>3. \A T \in SUBSET S : T # {} => Pick(T) \in T
    BY DEF PicksFrom
<1>4. ASSUME NEW s \in SUBSET S PROVE f[s] = g[s]
    <2>1. IsFiniteSet(s)
        BY FS_Subset
    <2>2. {} \in Good
        BY <1>1
    <2> HIDE DEF Good
    <2>3. s \in Good
        BY <1>2, <1>3, <2>1, <2>2, SetInduction
    <2> QED BY <2>3 DEF Good
<1>5. f = [s \in SUBSET S |-> f[s]] /\ g = [s \in SUBSET S |-> g[s]]
    BY Zenon DEF Folding
<1> QED BY <1>4, <1>5

(* The recursion, for the folds themselves.                                *)
Stepwise(data, s) ==
    Fold(data, s) = IF s = {} THEN Base
                    ELSE Op(Map(data, Pick(s)), Fold(data, s \ {Pick(s)}))

LEMMA FoldStepwise ==
    ASSUME NEW data, NEW S, IsFiniteSet(S), PicksFrom(S)
    PROVE  Stepwise(data, S)
<1> DEFINE Bad == {s \in SUBSET S : ~Stepwise(data, s)}
<1>1. SUFFICES ASSUME Bad # {} PROVE FALSE
    OBVIOUS
<1>2. PICK m \in Bad : \A n \in Bad : n \subseteq m => n = m
    <2> Bad \subseteq SUBSET S
        OBVIOUS
    <2> HIDE DEF Bad
    <2> QED BY <1>1, MinimalSubset
<1>3. IsFiniteSet(m) /\ m \in SUBSET S /\ ~Stepwise(data, m)
    BY FS_Subset
<1>4. \A n \in SUBSET m : n # m => Stepwise(data, n)
    BY <1>2, <1>3
<1> HIDE DEF Bad
<1>5. \A s \in SUBSET m : s # {} => Pick(s) \in s
    BY <1>3 DEF PicksFrom
<1> DEFINE Next(s) == IF s = {} THEN Base
                      ELSE Op(Map(data, Pick(s)), Fold(data, s \ {Pick(s)}))
           f == [s \in SUBSET m |-> Next(s)]
<1>6. \A n \in SUBSET m : n # m => f[n] = Fold(data, n)
    BY <1>4 DEF Stepwise
<1>7. \A s \in SUBSET m : s # {} => f[s \ {Pick(s)}] = Fold(data, s \ {Pick(s)})
    <2>1. SUFFICES ASSUME NEW s \in SUBSET m, s # {}
                   PROVE  f[s \ {Pick(s)}] = Fold(data, s \ {Pick(s)})
        OBVIOUS
    <2>2. s \ {Pick(s)} \in SUBSET m /\ s \ {Pick(s)} # m
        BY <1>5, <2>1
    <2> HIDE DEF f
    <2> QED BY <1>6, <2>2
<1>8. Folding(data, m, f)
    <2> DEFINE g == [s \in SUBSET m |-> IF s = {} THEN Base
                              ELSE Op(Map(data, Pick(s)), f[s \ {Pick(s)}])]
    <2>1. ASSUME NEW s \in SUBSET m PROVE f[s] = g[s]
        <3>1. f[s] = Next(s)
            OBVIOUS
        <3>2. g[s] = IF s = {} THEN Base ELSE Op(Map(data, Pick(s)), f[s \ {Pick(s)}])
            BY Zenon
        <3> HIDE DEF f, g
        <3>3. CASE s = {}
            BY <3>1, <3>2, <3>3
        <3>4. CASE s # {}
            <4>1. f[s \ {Pick(s)}] = Fold(data, s \ {Pick(s)})
                BY <1>7, <3>4
            <4> QED BY <3>1, <3>2, <3>4, <4>1, Zenon
        <3> QED BY <3>3, <3>4
    <2>2. f = [s \in SUBSET m |-> f[s]] /\ g = [s \in SUBSET m |-> g[s]]
        BY Zenon
    <2> HIDE DEF f, g
    <2>3. f = g
        BY <2>1, <2>2
    <2> QED BY <2>3 DEF Folding, g
<1> DEFINE c == CHOOSE g : Folding(data, m, g)
<1>9. c = f
    <2> HIDE DEF f
    <2>1. Folding(data, m, c)
        BY <1>8
    <2>2. PicksFrom(m)
        BY <1>5 DEF PicksFrom
    <2> HIDE DEF c
    <2> QED BY <1>3, <1>8, <2>1, <2>2, FoldingIsUnique
<1>10. Fold(data, m) = f[m]
    <2>1. Fold(data, m) = c[m]
        BY FoldByFolding
    <2> HIDE DEF f, c
    <2> QED BY <1>9, <2>1
<1>11. f[m] = Next(m)
    BY <1>3
<1> QED BY <1>3, <1>10, <1>11 DEF Stepwise

LEMMA FoldOfNothing ==
    ASSUME NEW data PROVE Fold(data, {}) = Base
<1>1. Stepwise(data, {})
    BY FoldStepwise, FS_EmptySet DEF PicksFrom
<1> QED BY <1>1 DEF Stepwise

LEMMA FoldStep ==
    ASSUME NEW data, NEW S, IsFiniteSet(S), PicksFrom(S), S # {}
    PROVE  Fold(data, S) = Op(Map(data, Pick(S)), Fold(data, S \ {Pick(S)}))
BY FoldStepwise DEF Stepwise

(* What the operation keeps.                                               *)
LEMMA FoldType ==
    ASSUME NEW data, NEW S, IsFiniteSet(S), PicksFrom(S), NEW Type, Base \in Type,
           \A x \in S : \A v \in Type : Op(Map(data, x), v) \in Type
    PROVE  Fold(data, S) \in Type
<1> DEFINE Good == {s \in SUBSET S : Fold(data, s) \in Type}
<1>1. {} \in Good
    BY FoldOfNothing
<1>2. ASSUME NEW T \in SUBSET S, T # {}, T \ {Pick(T)} \in Good
      PROVE  T \in Good
    <2>1. IsFiniteSet(T) /\ PicksFrom(T)
        BY FS_Subset DEF PicksFrom
    <2>2. Fold(data, T) = Op(Map(data, Pick(T)), Fold(data, T \ {Pick(T)}))
        BY <1>2, <2>1, FoldStep
    <2>3. Pick(T) \in S
        BY <1>2 DEF PicksFrom
    <2>4. Fold(data, T \ {Pick(T)}) \in Type
        BY <1>2
    <2> QED BY <2>2, <2>3, <2>4
<1>3. \A T \in SUBSET S : T # {} => Pick(T) \in T
    BY DEF PicksFrom
<1> HIDE DEF Good
<1>4. \A T \in SUBSET S : T # {} => \E x \in T : T \ {x} \in Good => T \in Good
    BY <1>2, <1>3, Zenon
<1>5. S \in Good
    BY <1>1, <1>4, SetInduction, Zenon
<1> QED BY <1>5 DEF Good

(* Data that say the same of the elements.                                 *)
LEMMA FoldOfSame ==
    ASSUME NEW data, NEW other, NEW S, IsFiniteSet(S), PicksFrom(S),
           \A x \in S : Map(data, x) = Map(other, x)
    PROVE  Fold(data, S) = Fold(other, S)
<1> DEFINE Good == {s \in SUBSET S : Fold(data, s) = Fold(other, s)}
<1>1. {} \in Good
    BY FoldOfNothing
<1>2. ASSUME NEW T \in SUBSET S, T # {}, T \ {Pick(T)} \in Good
      PROVE  T \in Good
    <2>1. IsFiniteSet(T) /\ PicksFrom(T)
        BY FS_Subset DEF PicksFrom
    <2>2. Fold(data, T) = Op(Map(data, Pick(T)), Fold(data, T \ {Pick(T)}))
        BY <1>2, <2>1, FoldStep
    <2>3. Fold(other, T) = Op(Map(other, Pick(T)), Fold(other, T \ {Pick(T)}))
        BY <1>2, <2>1, FoldStep
    <2>4. Map(data, Pick(T)) = Map(other, Pick(T))
        BY <1>2 DEF PicksFrom
    <2>5. Fold(data, T \ {Pick(T)}) = Fold(other, T \ {Pick(T)})
        BY <1>2
    <2> QED BY <2>2, <2>3, <2>4, <2>5
<1>3. \A T \in SUBSET S : T # {} => Pick(T) \in T
    BY DEF PicksFrom
<1> HIDE DEF Good
<1>4. \A T \in SUBSET S : T # {} => \E x \in T : T \ {x} \in Good => T \in Good
    BY <1>2, <1>3, Zenon
<1>5. S \in Good
    BY <1>1, <1>4, SetInduction, Zenon
<1> QED BY <1>5 DEF Good

(* If the order of the elements does not matter, any may be the last.      *)
LEMMA FoldWith ==
    ASSUME NEW data, NEW S, IsFiniteSet(S), PicksFrom(S), NEW Type, Base \in Type,
           \A x \in S : \A v \in Type : Op(Map(data, x), v) \in Type,
           \A x, y \in S : \A v \in Type :
              Op(Map(data, x), Op(Map(data, y), v)) = Op(Map(data, y), Op(Map(data, x), v)),
           NEW z \in S
    PROVE  Fold(data, S) = Op(Map(data, z), Fold(data, S \ {z}))
<1> DEFINE Holds(s) == \A x \in s : Fold(data, s) = Op(Map(data, x), Fold(data, s \ {x}))
           Bad == {s \in SUBSET S : ~Holds(s)}
<1>1. SUFFICES ASSUME Bad # {} PROVE FALSE
    <2>1. S \notin Bad => Holds(S)
        OBVIOUS
    <2> QED BY <2>1
<1>2. PICK T \in Bad : \A n \in Bad : n \subseteq T => n = T
    <2> Bad \subseteq SUBSET S
        OBVIOUS
    <2> HIDE DEF Bad
    <2> QED BY <1>1, MinimalSubset
<1>3. T \in SUBSET S /\ IsFiniteSet(T) /\ PicksFrom(T) /\ ~Holds(T)
    BY FS_Subset DEF PicksFrom
<1>4. \A n \in SUBSET T : n # T => Holds(n)
    BY <1>2, <1>3
<1> HIDE DEF Bad
<1>5. PICK x \in T : Fold(data, T) # Op(Map(data, x), Fold(data, T \ {x}))
    BY <1>3, Zenon
<1> DEFINE p == Pick(T)
           rest == T \ {p, x}
<1>6. p \in T
    BY <1>3, <1>5 DEF PicksFrom
<1>7. Fold(data, T) = Op(Map(data, p), Fold(data, T \ {p}))
    BY <1>3, <1>5, FoldStep
<1>8. x # p
    BY <1>5, <1>7
<1>9. /\ rest = (T \ {p}) \ {x} /\ x \in T \ {p} /\ Holds(T \ {p})
      /\ rest = (T \ {x}) \ {p} /\ p \in T \ {x} /\ Holds(T \ {x})
    BY <1>4, <1>6, <1>8
<1>10. Fold(data, T \ {p}) = Op(Map(data, x), Fold(data, rest))
    BY <1>9
<1>11. Fold(data, T \ {x}) = Op(Map(data, p), Fold(data, rest))
    BY <1>9
<1>12. Fold(data, rest) \in Type
    <2>1. rest \subseteq S /\ IsFiniteSet(rest) /\ PicksFrom(rest)
        BY <1>3, FS_Subset DEF PicksFrom
    <2>2. \A y \in rest : \A v \in Type : Op(Map(data, y), v) \in Type
        BY <2>1
    <2> HIDE DEF rest
    <2> QED BY <2>1, <2>2, FoldType
<1>13. x \in S /\ p \in S
    BY <1>3, <1>6
<1> HIDE DEF p, rest
<1>14. Op(Map(data, p), Op(Map(data, x), Fold(data, rest)))
          = Op(Map(data, x), Op(Map(data, p), Fold(data, rest)))
    BY <1>12, <1>13
<1> QED BY <1>5, <1>7, <1>10, <1>11, <1>14

-----------------------------------------------------------------------------
(* Sums.                                                                   *)

(* The fold adds integers.                                                 *)
Adds == Base = 0 /\ \A a, b \in Int : Op(a, b) = a + b

LEMMA SumIsInt ==
    ASSUME NEW data, NEW S, IsFiniteSet(S), PicksFrom(S), Adds,
           \A x \in S : Map(data, x) \in Int
    PROVE  Fold(data, S) \in Int
<1>1. PICK Type : Type = Int
    OBVIOUS
<1>2. Base \in Type /\ \A x \in S : \A v \in Type : Op(Map(data, x), v) \in Type
    BY <1>1 DEF Adds
<1>3. Fold(data, S) \in Type
    BY <1>2, FoldType
<1> QED BY <1>1, <1>3

LEMMA SumIsNat ==
    ASSUME NEW data, NEW S, IsFiniteSet(S), PicksFrom(S), Adds,
           \A x \in S : Map(data, x) \in Nat
    PROVE  Fold(data, S) \in Nat
<1>1. PICK Type : Type = Nat
    OBVIOUS
<1>2. Base \in Type /\ \A x \in S : \A v \in Type : Op(Map(data, x), v) \in Type
    BY <1>1 DEF Adds
<1>3. Fold(data, S) \in Type
    BY <1>2, FoldType
<1> QED BY <1>1, <1>3

LEMMA SumWith ==
    ASSUME NEW data, NEW S, IsFiniteSet(S), PicksFrom(S), Adds,
           \A x \in S : Map(data, x) \in Int, NEW z \in S
    PROVE  /\ Fold(data, S) = Map(data, z) + Fold(data, S \ {z})
           /\ Fold(data, S \ {z}) \in Int
<1>1. PICK Type : Type = Int
    OBVIOUS
<1>2. Base \in Type /\ \A x \in S : \A v \in Type : Op(Map(data, x), v) \in Type
    BY <1>1 DEF Adds
<1>3. ASSUME NEW x \in S, NEW y \in S, NEW v \in Type
      PROVE  Op(Map(data, x), Op(Map(data, y), v)) = Op(Map(data, y), Op(Map(data, x), v))
    <2> DEFINE a == Map(data, x)
               b == Map(data, y)
    <2>1. a \in Int /\ b \in Int /\ v \in Int
        BY <1>1
    <2> HIDE DEF a, b
    <2>2. \A m, n \in Int : Op(m, n) = m + n
        BY DEF Adds
    <2>3. Op(b, v) = b + v /\ Op(a, v) = a + v
        BY <2>1, <2>2
    <2> DEFINE c == b + v
               d == a + v
    <2>4. c \in Int /\ d \in Int /\ a + c = b + d
        BY <2>1
    <2>5. Op(b, v) = c /\ Op(a, v) = d
        BY <2>3
    <2> HIDE DEF c, d
    <2>6. Op(a, c) = a + c /\ Op(b, d) = b + d
        BY <2>1, <2>2, <2>4
    <2>7. Op(a, Op(b, v)) = Op(b, Op(a, v))
        BY <2>4, <2>5, <2>6
    <2> QED BY <2>7 DEF a, b
<1>4. Fold(data, S) = Op(Map(data, z), Fold(data, S \ {z}))
    BY <1>2, <1>3, FoldWith
<1>5. Fold(data, S \ {z}) \in Int
    <2> DEFINE rest == S \ {z}
    <2>1. rest \subseteq S /\ IsFiniteSet(rest) /\ PicksFrom(rest)
        BY FS_Subset DEF PicksFrom
    <2>2. \A x \in rest : Map(data, x) \in Int
        BY <2>1
    <2> HIDE DEF rest
    <2>3. Fold(data, rest) \in Int
        BY <2>1, <2>2, SumIsInt
    <2> QED BY <2>3 DEF rest
<1> QED BY <1>4, <1>5 DEF Adds
=============================================================================
