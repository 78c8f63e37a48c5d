------------------------------ MODULE DataLemmas ------------------------------
(***************************************************************************)
(* What the operators on data that several modules are built from return,  *)
(* preserve or bound: tables, folds over the places of a sequence, sums    *)
(* over finite sets, least and greatest members.                           *)
(*                                                                         *)
(* The library's induction theorems take an operator, so induction is done *)
(* here by a smallest counterexample: of numbers (Induction), and of the   *)
(* subsets of a finite set (LeastSet), which has no element to remove.     *)
(***************************************************************************)
EXTENDS Integers, Sequences, FiniteSetsExt, Functions, Tables, WellFoundedInduction,
        SequenceTheorems, FiniteSetTheorems, TLAPS

-------------------------------------------------------------------------------
(* Tables: what their operations return.                                       *)

\* The empty table is a table of any rows, with no key.
LEMMA EmptyTableType ==
    ASSUME NEW K, NEW R
    PROVE  IsTable(EmptyTable, K, R) /\ DOMAIN EmptyTable = {}
  BY DEF EmptyTable, IsTable

\* Put writes one row and keeps every other one.
LEMMA PutRows ==
    ASSUME NEW t, NEW k, NEW row
    PROVE  /\ DOMAIN Put(t, k, row) = DOMAIN t \cup {k}
           /\ Put(t, k, row)[k] = row
           /\ \A x \in DOMAIN t : x # k => Put(t, k, row)[x] = t[x]
  BY DEF Put

\* A table stays one when a row of its type is put in it.
LEMMA PutType ==
    ASSUME NEW K, NEW R, NEW t, IsTable(t, K, R), NEW k \in K, NEW row \in R
    PROVE  IsTable(Put(t, k, row), K, R)
  BY DEF Put, IsTable

\* Drop removes the rows of D and nothing else.
LEMMA DropRows ==
    ASSUME NEW t, NEW D
    PROVE  /\ DOMAIN Drop(t, D) = DOMAIN t \ D
           /\ \A x \in DOMAIN t \ D : Drop(t, D)[x] = t[x]
  BY DEF Drop

\* A table stays one when rows are dropped from it.
LEMMA DropType ==
    ASSUME NEW K, NEW R, NEW t, IsTable(t, K, R), NEW D
    PROVE  IsTable(Drop(t, D), K, R)
  BY DEF Drop, IsTable

-------------------------------------------------------------------------------
(* Induction, and folds over places.                                           *)

\* Every set of numbers has a least one: what all inductions below rest on.
LEMMA LeastNatural ==
    ASSUME NEW T, T \subseteq Nat, T # {}
    PROVE  \E x \in T : \A y \in T : x <= y
  <1> DEFINE R == OpToRel(<,Nat)
  <1>1. IsWellFoundedOn(R, Nat) BY NatLessThanWellFounded
  <1>2. ASSUME NEW a \in Nat, NEW b \in Nat, a < b PROVE <<a,b>> \in R BY <1>2 DEF OpToRel
  <1> HIDE DEF R
  <1>3. PICK x \in T : \A y \in T : ~ (<<y, x>> \in R)
    BY <1>1, WFMin
  <1>4. ASSUME NEW y \in T PROVE x <= y
    <2>1. ~(y < x) BY <1>2, <1>3
    <2> QED BY <2>1
  <1> QED BY <1>4

\* Induction, for a property given by the set of numbers that have it.
LEMMA Induction ==
    ASSUME NEW S, 0 \in S, \A n \in Nat : n \in S => n+1 \in S
    PROVE  \A n \in Nat : n \in S
  <1> DEFINE T == {n \in Nat : n \notin S}
  <1> SUFFICES ASSUME T # {} PROVE FALSE OBVIOUS
  <1>1. PICK x \in T : \A y \in T : x <= y BY LeastNatural
  <1>2. x # 0 OBVIOUS
  <1>3. x - 1 \in Nat BY <1>2
  <1>4. x - 1 \notin T BY <1>1, <1>3
  <1> QED BY <1>3, <1>4

\* Induction up to a bound, as on the places of a sequence.
LEMMA InductionTo ==
    ASSUME NEW m \in Nat, NEW S, 0 \in S, \A n \in 0..(m-1) : n \in S => n+1 \in S
    PROVE  \A n \in 0..m : n \in S
  <1> DEFINE T == {n \in Nat : n \in 0..m => n \in S}
  <1>1. 0 \in T OBVIOUS
  <1>2. \A n \in Nat : n \in T => n+1 \in T OBVIOUS
  <1> HIDE DEF T
  <1>3. \A n \in Nat : n \in T BY <1>1, <1>2, Induction
  <1> QED BY <1>3 DEF T

\* The last of some places is one of them.
LEMMA MaxOfPlaces ==
    ASSUME NEW m \in Nat, NEW s \in SUBSET (1..m), s # {}
    PROVE  Max(s) \in s /\ \A y \in s : y <= Max(s)
  <1> DEFINE T == {m - x : x \in s}
  <1>1. T \subseteq Nat /\ T # {}
    <2>1. \A x \in s : m - x \in Nat
      OBVIOUS
    <2> QED BY <2>1
  <1>2. PICK t \in T : \A y \in T : t <= y
    <2> HIDE DEF T
    <2> QED BY <1>1, LeastNatural
  <1>3. PICK x \in s : t = m - x
    BY <1>2
  <1>4. \A y \in s : y <= x
    BY <1>2, <1>3
  <1> QED BY <1>3, <1>4 DEF Max

\* The last of some places up to k, when k is one of them.
LEMMA MaxOfAll ==
    ASSUME NEW k \in Nat, NEW s \in SUBSET (1..k), k \in s
    PROVE  Max(s) = k
  <1>1. Max(s) \in s /\ k <= Max(s)
    BY MaxOfPlaces
  <1>2. Max(s) \in 1..k
    BY <1>1
  <1> QED BY <1>1, <1>2

\* g folds next over the places up to m, from the last.
IsFold(g, m, base, next) ==
    \A s \in SUBSET (1..m) :
       g[s] = IF s = {} THEN base ELSE next[<<g[s \ {Max(s)}], Max(s)>>]

\* The equation that defines a fold over places has a solution, so that the fold is what
\* folding step by step makes of it.
LEMMA FoldExists ==
    ASSUME NEW m \in Nat, NEW A, NEW base \in A, NEW next \in [A \X (1..m) -> A]
    PROVE  \E g \in [SUBSET (1..m) -> A] : IsFold(g, m, base, next)
  <1> DEFINE Solves(g, k) ==
                \A s \in SUBSET (1..k) :
                   g[s] = IF s = {} THEN base ELSE next[<<g[s \ {Max(s)}], Max(s)>>]
             Solved == {k \in 0..m : \E g \in [SUBSET (1..k) -> A] : Solves(g, k)}
  <1>1. 0 \in Solved
    <2> DEFINE g == [s \in SUBSET (1..0) |-> base]
    <2>1. g \in [SUBSET (1..0) -> A]
      OBVIOUS
    <2>2. \A s \in SUBSET (1..0) : s = {}
      OBVIOUS
    <2>3. Solves(g, 0)
      BY <2>2
    <2> HIDE DEF g
    <2>4. 0 \in 0..m
      OBVIOUS
    <2> HIDE DEF Solves
    <2> QED BY <2>1, <2>3, <2>4
  <1>2. ASSUME NEW k \in 0..(m-1), k \in Solved
        PROVE  k + 1 \in Solved
    <2>1. PICK g \in [SUBSET (1..k) -> A] : Solves(g, k)
      BY <1>2
    <2> DEFINE h == [s \in SUBSET (1..(k+1)) |->
                        IF k + 1 \in s THEN next[<<g[s \ {k+1}], k+1>>] ELSE g[s]]
    <2>2. \A s \in SUBSET (1..(k+1)) : k + 1 \notin s => s \in SUBSET (1..k)
      OBVIOUS
    <2>3. \A s \in SUBSET (1..(k+1)) : s \ {k+1} \in SUBSET (1..k)
      OBVIOUS
    <2>4. h \in [SUBSET (1..(k+1)) -> A]
      BY <2>2, <2>3
    <2>5. ASSUME NEW s \in SUBSET (1..(k+1)), k + 1 \in s
          PROVE  h[s] = next[<<h[s \ {Max(s)}], Max(s)>>] /\ s # {}
      <3>1. Max(s) = k + 1
        BY <2>5, MaxOfAll
      <3>2. h[s \ {k+1}] = g[s \ {k+1}]
        BY <2>3
      <3> QED BY <2>5, <3>1, <3>2
    <2>6. ASSUME NEW s \in SUBSET (1..(k+1)), k + 1 \notin s
          PROVE  h[s] = IF s = {} THEN base ELSE next[<<h[s \ {Max(s)}], Max(s)>>]
      <3>1. s \in SUBSET (1..k) /\ h[s] = g[s]
        BY <2>2, <2>6
      <3>2. s \ {Max(s)} \in SUBSET (1..(k+1)) /\ k + 1 \notin s \ {Max(s)}
        BY <2>6
      <3>3. h[s \ {Max(s)}] = g[s \ {Max(s)}]
        BY <3>2
      <3> HIDE DEF h
      <3> QED BY <2>1, <3>1, <3>3
    <2>7. Solves(h, k + 1)
      <3> HIDE DEF h
      <3> QED BY <2>5, <2>6
    <2> HIDE DEF h, Solves
    <2>8. k + 1 \in 0..m
      OBVIOUS
    <2> QED BY <2>4, <2>7, <2>8
  <1> HIDE DEF Solved
  <1>3. m \in Solved
    BY <1>1, <1>2, InductionTo
  <1> QED BY <1>3 DEF Solved, IsFold

\* A quotient of integers is rounded down.
LEMMA Quotient ==
    ASSUME NEW a \in Int, NEW b \in Int, b > 0
    PROVE  /\ a \div b \in Int
           /\ b * (a \div b) <= a /\ a < b * (a \div b) + b
  BY Z3

\* And is the only number that is.
LEMMA QuotientIs ==
    ASSUME NEW a \in Int, NEW b \in Int, b > 0, NEW q \in Int, b * q <= a, a < b * q + b
    PROVE  a \div b = q
  <1>1. a \div b \in Int /\ b * (a \div b) <= a /\ a < b * (a \div b) + b
    BY Quotient
  <1> DEFINE r == a \div b
  <1> HIDE DEF r
  <1>2. r \in Int /\ b * r <= a /\ a < b * r + b
    BY <1>1 DEF r
  <1>3. CASE r < q
    <2>1. b * (r + 1) <= b * q
      BY <1>2, <1>3
    <2>2. b * (r + 1) = b * r + b
      BY <1>2
    <2> QED BY <1>2, <2>1, <2>2
  <1>4. CASE q < r
    <2>1. b * (q + 1) <= b * r
      BY <1>2, <1>4
    <2>2. b * (q + 1) = b * q + b
      OBVIOUS
    <2> QED BY <1>2, <2>1, <2>2
  <1>5. r = q
    BY <1>2, <1>3, <1>4
  <1> QED BY <1>5 DEF r

-------------------------------------------------------------------------------
(* Sums over finite sets.                                                      *)

\* A family of finite sets has a smallest member: the induction of this section.
LEMMA LeastSet ==
    ASSUME NEW S, IsFiniteSet(S), NEW F, F \subseteq SUBSET S, F # {}
    PROVE  \E T \in F : \A U \in F : U \subseteq T => U = T
<1>1. F \subseteq FiniteSubsetsOf(S)
  BY FS_FiniteSubsetsOfFinite
<1>2. PICK T \in F : \A U \in F : <<U, T>> \notin StrictSubsetOrdering(S)
  BY <1>1, FS_StrictSubsetOrderingWellFounded, WFMin
<1>. QED  BY <1>2 DEF StrictSubsetOrdering

\* The recursion that the fold of the community modules chooses its function by.
Rest(s) == s \ {CHOOSE x \in s : TRUE}

Eqn(g, f, S) ==
    g = [s \in SUBSET S |-> IF s = {} THEN 0 ELSE f[CHOOSE x \in s : TRUE] + g[Rest(s)]]

\* A sum is the value of that function.
LEMMA SumIsChosen ==
    ASSUME NEW f, NEW S
    PROVE  SumFunctionOnSet(f, S) = (CHOOSE g : Eqn(g, f, S))[S]
  BY DEF SumFunctionOnSet, FoldFunctionOnSet, MapThenFoldSet, Eqn, Rest

\* The sum over T takes one element first.
Unfolds(f, T) ==
    SumFunctionOnSet(f, T) =
        IF T = {} THEN 0 ELSE f[CHOOSE x \in T : TRUE] + SumFunctionOnSet(f, Rest(T))

\* What is left is a smaller set.
LEMMA RestIsLess == ASSUME NEW T, T # {} PROVE Rest(T) \subseteq T /\ Rest(T) # T
  BY DEF Rest

\* The sum over T unfolds if those over its proper subsets do: the function that the fold
\* chooses exists.
LEMMA UnfoldStep ==
    ASSUME NEW f, NEW T, IsFiniteSet(T), \A s \in SUBSET T : s # T => Unfolds(f, s)
    PROVE  Unfolds(f, T)
<1>. DEFINE h == [s \in SUBSET T |->
                    IF s = T
                    THEN IF T = {} THEN 0 ELSE f[CHOOSE x \in T : TRUE] + SumFunctionOnSet(f, Rest(T))
                    ELSE SumFunctionOnSet(f, s)]
            g == CHOOSE k : Eqn(k, f, T)
<1>1. Eqn(h, f, T)
  <2>. SUFFICES ASSUME NEW s \in SUBSET T
                PROVE  h[s] = IF s = {} THEN 0 ELSE f[CHOOSE x \in s : TRUE] + h[Rest(s)]
    BY DEF Eqn
  <2>1. CASE s = T
    BY <2>1, RestIsLess
  <2>2. CASE s # T
    <3>1. s # {} => h[Rest(s)] = SumFunctionOnSet(f, Rest(s))
      BY <2>2, RestIsLess
    <3>. QED  BY <2>2, <3>1 DEF Unfolds
  <2>. QED  BY <2>1, <2>2
<1>2. Eqn(g, f, T)
  BY <1>1
<1>3. \A s \in SUBSET T : g[s] = IF s = {} THEN 0 ELSE f[CHOOSE x \in s : TRUE] + g[Rest(s)]
  <2>. HIDE DEF g
  <2>. DEFINE rhs(s) == IF s = {} THEN 0 ELSE f[CHOOSE x \in s : TRUE] + g[Rest(s)]
  <2>1. g = [s \in SUBSET T |-> rhs(s)]
    BY <1>2 DEF Eqn
  <2>. HIDE DEF rhs
  <2>2. \A s \in SUBSET T : g[s] = rhs(s)
    BY <2>1
  <2>. QED  BY <2>2 DEF rhs
<1>. HIDE DEF g, h
<1>4. \A s \in SUBSET T : s # T => g[s] = SumFunctionOnSet(f, s)
  <2>. SUFFICES ASSUME NEW s \in SUBSET T, s # T, g[s] # SumFunctionOnSet(f, s)
                PROVE  FALSE
    OBVIOUS
  <2>. DEFINE F == {t \in SUBSET T : t # T /\ g[t] # SumFunctionOnSet(f, t)}
  <2>1. PICK t \in F : \A u \in F : u \subseteq t => u = t
    <3>. HIDE DEF F
    <3>1. F \subseteq SUBSET T /\ F # {}
      BY DEF F
    <3>. QED  BY <3>1, LeastSet
  <2>2. t # {} => g[Rest(t)] = SumFunctionOnSet(f, Rest(t))
    BY <2>1, RestIsLess
  <2>. QED  BY <1>3, <2>1, <2>2 DEF Unfolds
<1>5. SumFunctionOnSet(f, T) = g[T]
  BY SumIsChosen DEF g
<1>6. T # {} => g[Rest(T)] = SumFunctionOnSet(f, Rest(T))
  BY <1>4, RestIsLess
<1>. QED  BY <1>3, <1>5, <1>6 DEF Unfolds

\* Every sum over a finite set unfolds.
LEMMA SumUnfolds ==
    ASSUME NEW f, NEW S, IsFiniteSet(S)
    PROVE  Unfolds(f, S)
<1>. SUFFICES ASSUME ~ Unfolds(f, S) PROVE FALSE
  OBVIOUS
<1>. DEFINE F == {t \in SUBSET S : ~ Unfolds(f, t)}
<1>1. PICK t \in F : \A u \in F : u \subseteq t => u = t
  <2>. HIDE DEF F
  <2>1. F \subseteq SUBSET S /\ F # {}
    BY DEF F
  <2>. QED  BY <2>1, LeastSet
<1>2. IsFiniteSet(t)
  BY FS_Subset
<1>3. \A s \in SUBSET t : s # t => Unfolds(f, s)
  BY <1>1
<1>. QED  BY <1>1, <1>2, <1>3, UnfoldStep

\* The sum of nothing.
LEMMA SumEmpty == ASSUME NEW f PROVE SumFunctionOnSet(f, {}) = 0
  BY SumUnfolds, FS_EmptySet DEF Unfolds

\* The sum of integers.
LEMMA SumType ==
    ASSUME NEW f, NEW S, IsFiniteSet(S), \A x \in S : f[x] \in Int
    PROVE  SumFunctionOnSet(f, S) \in Int
<1>. SUFFICES ASSUME SumFunctionOnSet(f, S) \notin Int PROVE FALSE
  OBVIOUS
<1>. DEFINE F == {t \in SUBSET S : SumFunctionOnSet(f, t) \notin Int}
<1>1. PICK t \in F : \A u \in F : u \subseteq t => u = t
  <2>. HIDE DEF F
  <2>1. F \subseteq SUBSET S /\ F # {}
    BY DEF F
  <2>. QED  BY <2>1, LeastSet
<1>2. Unfolds(f, t)
  BY FS_Subset, SumUnfolds
<1>3. t # {} => SumFunctionOnSet(f, Rest(t)) \in Int
  BY <1>1, RestIsLess
<1>. QED  BY <1>1, <1>2, <1>3 DEF Unfolds

\* Any element may be taken first.
LEMMA SumRemove ==
    ASSUME NEW f, NEW S, IsFiniteSet(S), \A y \in S : f[y] \in Int, NEW x \in S
    PROVE  SumFunctionOnSet(f, S) = f[x] + SumFunctionOnSet(f, S \ {x})
<1>. DEFINE Bad(t) == \E y \in t : SumFunctionOnSet(f, t) # f[y] + SumFunctionOnSet(f, t \ {y})
<1>. SUFFICES ASSUME Bad(S) PROVE FALSE
  OBVIOUS
<1>. DEFINE F == {t \in SUBSET S : Bad(t)}
<1>1. PICK t \in F : \A u \in F : u \subseteq t => u = t
  <2>. HIDE DEF F
  <2>1. F \subseteq SUBSET S /\ F # {}
    BY DEF F
  <2>. QED  BY <2>1, LeastSet
<1>2. PICK y \in t : SumFunctionOnSet(f, t) # f[y] + SumFunctionOnSet(f, t \ {y})
  BY <1>1
<1>. DEFINE c == CHOOSE z \in t : TRUE
<1>3. c \in t /\ SumFunctionOnSet(f, t) = f[c] + SumFunctionOnSet(f, t \ {c})
  BY <1>1, <1>2, FS_Subset, SumUnfolds DEF Unfolds, Rest
<1>4. c # y
  BY <1>2, <1>3
<1>. HIDE DEF c
<1>5. \A u \in SUBSET S : SumFunctionOnSet(f, u) \in Int
  BY FS_Subset, SumType
<1>6. SumFunctionOnSet(f, t \ {c}) = f[y] + SumFunctionOnSet(f, (t \ {c}) \ {y})
  BY <1>1, <1>2, <1>3, <1>4
<1>7. SumFunctionOnSet(f, t \ {y}) = f[c] + SumFunctionOnSet(f, (t \ {y}) \ {c})
  BY <1>1, <1>2, <1>3, <1>4
<1>8. (t \ {c}) \ {y} = (t \ {y}) \ {c}
  OBVIOUS
<1>9. /\ f[y] \in Int /\ f[c] \in Int
      /\ SumFunctionOnSet(f, (t \ {y}) \ {c}) \in Int
  BY <1>1, <1>2, <1>3, <1>5
<1>10. SumFunctionOnSet(f, t \ {c}) = f[y] + SumFunctionOnSet(f, (t \ {y}) \ {c})
  BY <1>6, <1>8
<1>11. \A a, b, d \in Int : a + (b + d) = b + (a + d)
  OBVIOUS
<1>12. f[c] + SumFunctionOnSet(f, t \ {c}) = f[y] + SumFunctionOnSet(f, t \ {y})
  BY <1>7, <1>9, <1>10, <1>11
<1>. QED  BY <1>2, <1>3, <1>12

\* An element is added.
LEMMA SumAdd ==
    ASSUME NEW f, NEW S, IsFiniteSet(S), NEW x, x \notin S, \A y \in S \cup {x} : f[y] \in Int
    PROVE  SumFunctionOnSet(f, S \cup {x}) = f[x] + SumFunctionOnSet(f, S)
<1>1. IsFiniteSet(S \cup {x})
  BY FS_AddElement
<1>2. (S \cup {x}) \ {x} = S
  OBVIOUS
<1>. QED  BY <1>1, <1>2, SumRemove

\* Sums of sums, multiples and of equals: h = k * f + g on S.
LEMMA SumLinear ==
    ASSUME NEW f, NEW g, NEW h, NEW k \in Int, NEW S, IsFiniteSet(S),
           \A x \in S : f[x] \in Int /\ g[x] \in Int /\ h[x] = k * f[x] + g[x]
    PROVE  SumFunctionOnSet(h, S) = k * SumFunctionOnSet(f, S) + SumFunctionOnSet(g, S)
<1>. DEFINE Bad(t) == SumFunctionOnSet(h, t) # k * SumFunctionOnSet(f, t) + SumFunctionOnSet(g, t)
<1>. SUFFICES ASSUME Bad(S) PROVE FALSE
  OBVIOUS
<1>. DEFINE F == {t \in SUBSET S : Bad(t)}
<1>1. PICK t \in F : \A u \in F : u \subseteq t => u = t
  <2>. HIDE DEF F
  <2>1. F \subseteq SUBSET S /\ F # {}
    BY DEF F
  <2>. QED  BY <2>1, LeastSet
<1>2. t # {}
  <2>1. k * 0 + 0 = 0
    OBVIOUS
  <2>. QED  BY <1>1, <2>1, SumEmpty
<1>3. PICK x \in t : TRUE
  BY <1>2
<1>4. IsFiniteSet(t) /\ IsFiniteSet(t \ {x}) /\ t \ {x} \in SUBSET S
  BY <1>1, FS_Subset
<1>5. \A y \in S : h[y] \in Int
  OBVIOUS
<1>6. /\ SumFunctionOnSet(f, t) = f[x] + SumFunctionOnSet(f, t \ {x})
      /\ SumFunctionOnSet(g, t) = g[x] + SumFunctionOnSet(g, t \ {x})
      /\ SumFunctionOnSet(h, t) = h[x] + SumFunctionOnSet(h, t \ {x})
  BY <1>1, <1>3, <1>4, <1>5, SumRemove
<1>7. SumFunctionOnSet(h, t \ {x}) = k * SumFunctionOnSet(f, t \ {x}) + SumFunctionOnSet(g, t \ {x})
  BY <1>1, <1>3, <1>4
<1>8. /\ SumFunctionOnSet(f, t \ {x}) \in Int /\ SumFunctionOnSet(g, t \ {x}) \in Int
      /\ f[x] \in Int /\ g[x] \in Int /\ h[x] = k * f[x] + g[x]
  BY <1>1, <1>3, <1>4, SumType
<1>9. \A a, b \in Int : k * (a + b) = k * a + k * b
  OBVIOUS
<1>10. k * (f[x] + SumFunctionOnSet(f, t \ {x})) = k * f[x] + k * SumFunctionOnSet(f, t \ {x})
  BY <1>8, <1>9
<1>11. k * f[x] \in Int /\ k * SumFunctionOnSet(f, t \ {x}) \in Int
  BY <1>8
<1>. HIDE DEF F
<1>12. SumFunctionOnSet(h, t) = k * SumFunctionOnSet(f, t) + SumFunctionOnSet(g, t)
  BY <1>6, <1>7, <1>8, <1>10, <1>11
<1>. QED  BY <1>1, <1>12 DEF F

\* Sums of equal numbers.
LEMMA SumOfEquals ==
    ASSUME NEW f, NEW g, NEW S, IsFiniteSet(S), \A x \in S : f[x] \in Int /\ g[x] = f[x]
    PROVE  SumFunctionOnSet(g, S) = SumFunctionOnSet(f, S)
<1>. DEFINE zero == [x \in S |-> 0]
<1>1. \A x \in S : g[x] = 0 * f[x] + f[x] /\ f[x] \in Int
  OBVIOUS
<1>2. SumFunctionOnSet(g, S) = 0 * SumFunctionOnSet(f, S) + SumFunctionOnSet(f, S)
  BY <1>1, SumLinear
<1>. QED  BY <1>2, SumType

\* The sum over a union of disjoint sets.
LEMMA SumSplit ==
    ASSUME NEW f, NEW A, NEW B, IsFiniteSet(A), IsFiniteSet(B), A \cap B = {},
           \A x \in A \cup B : f[x] \in Int
    PROVE  SumFunctionOnSet(f, A \cup B) = SumFunctionOnSet(f, A) + SumFunctionOnSet(f, B)
<1>. DEFINE Bad(t) == SumFunctionOnSet(f, A \cup t) # SumFunctionOnSet(f, A) + SumFunctionOnSet(f, t)
<1>. SUFFICES ASSUME Bad(B) PROVE FALSE
  OBVIOUS
<1>. DEFINE F == {t \in SUBSET B : Bad(t)}
<1>1. PICK t \in F : \A u \in F : u \subseteq t => u = t
  <2>. HIDE DEF F
  <2>1. F \subseteq SUBSET B /\ F # {}
    BY DEF F
  <2>. QED  BY <2>1, LeastSet
<1>2. \A u \in SUBSET B : /\ IsFiniteSet(u) /\ IsFiniteSet(A \cup u)
                          /\ SumFunctionOnSet(f, u) \in Int
                          /\ SumFunctionOnSet(f, A \cup u) \in Int
  <2>. TAKE u \in SUBSET B
  <2>1. IsFiniteSet(u) /\ IsFiniteSet(A \cup u)
    BY FS_Subset, FS_Union
  <2>. QED  BY <2>1, SumType
<1>3. SumFunctionOnSet(f, A) \in Int
  BY SumType
<1>4. t # {}
  <2>1. A \cup {} = A
    OBVIOUS
  <2>2. SumFunctionOnSet(f, A) = SumFunctionOnSet(f, A) + 0
    BY <1>3
  <2>3. SumFunctionOnSet(f, {}) = 0
    BY SumEmpty
  <2>4. ~ Bad({})
    BY <2>1, <2>2, <2>3
  <2>. HIDE DEF Bad
  <2>. QED  BY <1>1, <2>4
<1>5. PICK x \in t : TRUE
  BY <1>4
<1>6. /\ SumFunctionOnSet(f, t) = f[x] + SumFunctionOnSet(f, t \ {x})
      /\ SumFunctionOnSet(f, A \cup t) = f[x] + SumFunctionOnSet(f, (A \cup t) \ {x})
  BY <1>1, <1>2, <1>5, SumRemove, SMTT(30)
<1>7. (A \cup t) \ {x} = A \cup (t \ {x})
  BY <1>1, <1>5
<1>8. SumFunctionOnSet(f, A \cup (t \ {x})) = SumFunctionOnSet(f, A) + SumFunctionOnSet(f, t \ {x})
  BY <1>1, <1>5
<1>9. f[x] \in Int /\ SumFunctionOnSet(f, t \ {x}) \in Int
  BY <1>1, <1>2, <1>5
<1>. HIDE DEF F
<1>10. SumFunctionOnSet(f, A \cup t) = f[x] + (SumFunctionOnSet(f, A) + SumFunctionOnSet(f, t \ {x}))
  BY <1>6, <1>7, <1>8
<1>11. \A a, b, d \in Int : a + (b + d) = b + (a + d)
  OBVIOUS
<1>12. SumFunctionOnSet(f, A \cup t) = SumFunctionOnSet(f, A) + (f[x] + SumFunctionOnSet(f, t \ {x}))
  BY <1>3, <1>9, <1>10, <1>11
<1>13. SumFunctionOnSet(f, A \cup t) = SumFunctionOnSet(f, A) + SumFunctionOnSet(f, t)
  BY <1>6, <1>12
<1>. QED  BY <1>1, <1>13 DEF F

\* The sum over a family of disjoint sets, group by group.
LEMMA SumByGroups ==
    ASSUME NEW f, NEW D, IsFiniteSet(D), NEW G, \A d \in D : IsFiniteSet(G[d]),
           \A d, e \in D : d # e => G[d] \cap G[e] = {},
           \A d \in D : \A x \in G[d] : f[x] \in Int,
           NEW total, \A d \in D : total[d] = SumFunctionOnSet(f, G[d]),
           NEW all, \A x : x \in all <=> \E d \in D : x \in G[d]
    PROVE  SumFunctionOnSet(total, D) = SumFunctionOnSet(f, all)
<1>. DEFINE Members(t) == UNION {G[d] : d \in t}
            Good(t) == /\ IsFiniteSet(Members(t))
                       /\ SumFunctionOnSet(total, t) = SumFunctionOnSet(f, Members(t))
<1>0. all = Members(D)
  OBVIOUS
<1>. SUFFICES ASSUME ~ Good(D) PROVE FALSE
  <2>. HIDE DEF Members
  <2>. QED  BY <1>0
<1>. DEFINE F == {t \in SUBSET D : ~ Good(t)}
<1>1. PICK t \in F : \A u \in F : u \subseteq t => u = t
  <2>. HIDE DEF F
  <2>1. F \subseteq SUBSET D /\ F # {}
    BY DEF F
  <2>. QED  BY <2>1, LeastSet
<1>2. t # {}
  <2>1. Members({}) = {}
    OBVIOUS
  <2>2. Good({})
    BY <2>1, SumEmpty, FS_EmptySet
  <2>. QED  BY <1>1, <2>2
<1>3. PICK d \in t : TRUE
  BY <1>2
<1>4. Good(t \ {d})
  <2>1. t \ {d} \in SUBSET D /\ t \ {d} # t /\ t \ {d} \subseteq t
    BY <1>1, <1>3
  <2>. HIDE DEF Good
  <2>. QED  BY <1>1, <2>1
<1>5. Members(t) = Members(t \ {d}) \cup G[d] /\ Members(t \ {d}) \cap G[d] = {}
  BY <1>1, <1>3
<1>6. \A x \in Members(t) : f[x] \in Int
  BY <1>1
<1>7. \A e \in D : total[e] \in Int
  BY SumType
<1>8. SumFunctionOnSet(total, t) = total[d] + SumFunctionOnSet(total, t \ {d})
  <2>1. t \in SUBSET D
    BY <1>1
  <2>2. IsFiniteSet(t) /\ \A e \in t : total[e] \in Int
    BY <1>7, <2>1, FS_Subset
  <2>. QED  BY <1>3, <2>2, SumRemove
<1>9. IsFiniteSet(Members(t \ {d})) /\ IsFiniteSet(G[d])
  BY <1>1, <1>3, <1>4
<1>10. \A x \in Members(t \ {d}) \cup G[d] : f[x] \in Int
  BY <1>5, <1>6
<1>11. SumFunctionOnSet(f, Members(t \ {d})) \in Int /\ SumFunctionOnSet(f, G[d]) \in Int
  <2>. HIDE DEF Members
  <2>. QED  BY <1>9, <1>10, SumType
<1>12. SumFunctionOnSet(f, Members(t)) = SumFunctionOnSet(f, Members(t \ {d})) + SumFunctionOnSet(f, G[d])
  <2>. HIDE DEF Members, F, Good
  <2>1. SumFunctionOnSet(f, Members(t \ {d}) \cup G[d])
          = SumFunctionOnSet(f, Members(t \ {d})) + SumFunctionOnSet(f, G[d])
    <3>1. IsFiniteSet(Members(t \ {d})) /\ IsFiniteSet(G[d]) /\ Members(t \ {d}) \cap G[d] = {}
      BY <1>5, <1>9
    <3>2. \A A, B : /\ IsFiniteSet(A) /\ IsFiniteSet(B) /\ A \cap B = {}
                    /\ \A x \in A \cup B : f[x] \in Int
                    => SumFunctionOnSet(f, A \cup B) = SumFunctionOnSet(f, A) + SumFunctionOnSet(f, B)
      BY SumSplit
    <3>. QED  BY <3>1, <3>2, <1>10
  <2>. QED  BY <1>5, <2>1
<1>13. IsFiniteSet(Members(t))
  <2>. HIDE DEF Members, F
  <2>1. IsFiniteSet(Members(t \ {d}) \cup G[d])
    BY <1>9, FS_Union
  <2>. QED  BY <1>5, <2>1
<1>14. total[d] = SumFunctionOnSet(f, G[d])
  BY <1>1, <1>3
<1>15. SumFunctionOnSet(total, t \ {d}) = SumFunctionOnSet(f, Members(t \ {d}))
  BY <1>4
<1>. HIDE DEF F, Members
<1>16. SumFunctionOnSet(total, t) = SumFunctionOnSet(f, Members(t))
  BY <1>8, <1>11, <1>12, <1>14, <1>15
<1>. QED  BY <1>1, <1>13, <1>16 DEF F

\* The sum of zeros.
LEMMA SumOfZeros ==
    ASSUME NEW f, NEW S, IsFiniteSet(S), \A x \in S : f[x] = 0
    PROVE  SumFunctionOnSet(f, S) = 0
<1>1. \A x \in S : f[x] \in Int /\ f[x] = 1 * f[x] + f[x]
  OBVIOUS
<1>2. SumFunctionOnSet(f, S) = 1 * SumFunctionOnSet(f, S) + SumFunctionOnSet(f, S)
  BY <1>1, SumLinear
<1>3. SumFunctionOnSet(f, S) \in Int
  BY <1>1, SumType
<1>4. \A a \in Int : a = 1 * a + a => a = 0
  OBVIOUS
<1>. QED  BY <1>2, <1>3, <1>4

\* A common factor is taken out.
LEMMA SumMultiple ==
    ASSUME NEW f, NEW h, NEW k \in Int, NEW S, IsFiniteSet(S),
           \A x \in S : f[x] \in Int /\ h[x] = k * f[x]
    PROVE  SumFunctionOnSet(h, S) = k * SumFunctionOnSet(f, S)
<1>. DEFINE zero == [x \in S |-> 0]
<1>1. \A x \in S : f[x] \in Int /\ zero[x] \in Int /\ h[x] = k * f[x] + zero[x]
  OBVIOUS
<1>2. SumFunctionOnSet(h, S) = k * SumFunctionOnSet(f, S) + SumFunctionOnSet(zero, S)
  <2>. HIDE DEF zero
  <2>. QED  BY <1>1, SumLinear
<1>3. SumFunctionOnSet(zero, S) = 0
  BY SumOfZeros
<1>4. SumFunctionOnSet(f, S) \in Int
  BY SumType
<1>. QED  BY <1>2, <1>3, <1>4

\* The sum of differences.
LEMMA SumDifference ==
    ASSUME NEW f, NEW g, NEW h, NEW S, IsFiniteSet(S),
           \A x \in S : f[x] \in Int /\ g[x] \in Int /\ h[x] = f[x] - g[x]
    PROVE  SumFunctionOnSet(h, S) = SumFunctionOnSet(f, S) - SumFunctionOnSet(g, S)
<1>1. \A x \in S : h[x] \in Int /\ g[x] \in Int /\ f[x] = 1 * h[x] + g[x]
  OBVIOUS
<1>2. SumFunctionOnSet(f, S) = 1 * SumFunctionOnSet(h, S) + SumFunctionOnSet(g, S)
  BY <1>1, SumLinear
<1>3. SumFunctionOnSet(h, S) \in Int /\ SumFunctionOnSet(g, S) \in Int
  BY <1>1, SumType
<1>. QED  BY <1>2, <1>3

\* The sum of positive numbers is positive.
LEMMA SumPositive ==
    ASSUME NEW f, NEW S, IsFiniteSet(S), S # {}, \A x \in S : f[x] \in Nat \ {0}
    PROVE  SumFunctionOnSet(f, S) \in Nat \ {0}
<1>. DEFINE Bad(t) == SumFunctionOnSet(f, t) \notin Nat
            F == {t \in SUBSET S : Bad(t)}
<1>1. \A t \in SUBSET S : ~ Bad(t)
  <2>. SUFFICES ASSUME F # {} PROVE FALSE
    OBVIOUS
  <2>1. PICK t \in F : \A u \in F : u \subseteq t => u = t
    <3>. HIDE DEF F
    <3>1. F \subseteq SUBSET S
      BY DEF F
    <3>. QED  BY <3>1, LeastSet
  <2>2. t # {}
    <3>1. SumFunctionOnSet(f, {}) \in Nat
      BY SumEmpty
    <3>. QED  BY <2>1, <3>1
  <2>3. PICK x \in t : TRUE
    BY <2>2
  <2>4. SumFunctionOnSet(f, t) = f[x] + SumFunctionOnSet(f, t \ {x})
    BY <2>1, <2>3, FS_Subset, SumRemove
  <2>5. SumFunctionOnSet(f, t \ {x}) \in Nat
    BY <2>1, <2>3
  <2>6. f[x] \in Nat
    BY <2>1, <2>3
  <2>7. SumFunctionOnSet(f, t) \in Nat
    BY <2>4, <2>5, <2>6
  <2>. HIDE DEF F
  <2>. QED  BY <2>1, <2>7 DEF F
<1>2. PICK x \in S : TRUE
  OBVIOUS
<1>3. SumFunctionOnSet(f, S) = f[x] + SumFunctionOnSet(f, S \ {x})
  BY SumRemove
<1>4. SumFunctionOnSet(f, S \ {x}) \in Nat
  BY <1>1
<1>. QED  BY <1>3, <1>4

\* The sum of a function is that over its domain.
LEMMA SumOfFunction == ASSUME NEW f PROVE SumFunction(f) = SumFunctionOnSet(f, DOMAIN f)
  BY DEF SumFunction

\* A finite set of integers has a least and a greatest member.
LEMMA LeastMember ==
    ASSUME NEW S, IsFiniteSet(S)
    PROVE  S # {} /\ S \subseteq Int => \E x \in S : \A y \in S : x <= y
<1>. DEFINE Good(t) == t # {} /\ t \subseteq Int => \E x \in t : \A y \in t : x <= y
            F == {t \in SUBSET S : ~ Good(t)}
<1>. SUFFICES ASSUME F # {} PROVE FALSE
  OBVIOUS
<1>1. PICK t \in F : \A u \in F : u \subseteq t => u = t
  <2>1. F \subseteq SUBSET S
    OBVIOUS
  <2>. HIDE DEF F, Good
  <2>. QED  BY <2>1, LeastSet
<1>2. t \subseteq S /\ ~ Good(t)
  BY <1>1
<1>3. PICK x \in t : TRUE
  BY <1>2
<1>4. Good(t \ {x})
  <2>1. t \ {x} \in SUBSET S /\ t \ {x} # t
    BY <1>2, <1>3
  <2>. QED  BY <1>1, <2>1
<1>5. t \subseteq Int
  BY <1>2
<1>6. \A a, b, c \in Int : (a <= b /\ b <= c => a <= c) /\ (a <= b \/ b <= a) /\ a <= a
  OBVIOUS
<1>7. t \ {x} # {}
  <2>. SUFFICES ASSUME t \ {x} = {} PROVE FALSE
    OBVIOUS
  <2>1. t = {x}
    BY <1>3
  <2>. QED  BY <1>2, <1>5, <1>6, <2>1
<1>8. PICK m \in t \ {x} : \A y \in t \ {x} : m <= y
  BY <1>4, <1>7
<1>9. x \in Int /\ m \in Int
  BY <1>3, <1>5, <1>8
<1>10. CASE x <= m
  <2>1. \A y \in t \ {x} : x <= y
    BY <1>5, <1>6, <1>8, <1>9, <1>10
  <2>2. \A y \in t : x <= y
    BY <1>6, <1>9, <2>1
  <2>. QED  BY <1>2, <1>3, <2>2
<1>11. CASE m <= x
  <2>1. \A y \in t : m <= y
    BY <1>8, <1>11
  <2>. QED  BY <1>2, <1>8, <2>1
<1>. QED  BY <1>6, <1>9, <1>10, <1>11

\* Min is a member.
LEMMA MinIsMember ==
    ASSUME NEW S, IsFiniteSet(S), S # {}, S \subseteq Int
    PROVE  Min(S) \in S
  BY LeastMember DEF Min

\* Max is a member, and no other one is greater.
LEMMA MaxIsGreatest ==
    ASSUME NEW S, IsFiniteSet(S), S # {}, S \subseteq Int
    PROVE  Max(S) \in S /\ \A x \in S : Max(S) >= x
<1>. DEFINE T == {-x : x \in S}
<1>1. IsFiniteSet(T)
  <2>1. [x \in S |-> -x] \in Surjection(S, T)
    BY DEF Surjection
  <2>. QED  BY <2>1, FS_Surjection
<1>2. T # {} /\ T \subseteq Int
  <2>1. PICK x \in S : TRUE
    OBVIOUS
  <2>2. -x \in T
    OBVIOUS
  <2>3. \A y \in S : -y \in Int
    OBVIOUS
  <2>. QED  BY <2>2, <2>3
<1>3. PICK z \in T : \A y \in T : z <= y
  <2>. HIDE DEF T
  <2>. QED  BY <1>1, <1>2, LeastMember
<1>4. PICK m \in S : z = -m
  BY <1>3
<1>5. \A x \in S : m >= x
  <2>. TAKE x \in S
  <2>1. -m <= -x
    BY <1>3, <1>4
  <2>2. m \in Int /\ x \in Int
    OBVIOUS
  <2>. QED  BY <2>1, <2>2
<1>. QED  BY <1>5 DEF Max

===============================================================================
