--------------------------- MODULE ScoringProofs ---------------------------
(***************************************************************************)
(* What the score, the thresholds and the learner guarantee for any rules, *)
(* weights, configurations and negatives.                                  *)
(*                                                                         *)
(* A score is a sum over families of sums over rules: folds.  Facts about  *)
(* them are proved by induction over the finite subsets of a set, in a     *)
(* form that speaks of sets alone (Subsets below): the induction theorems  *)
(* of the library take a predicate as an operator, which the provers       *)
(* cannot instantiate.                                                     *)
(***************************************************************************)
EXTENDS Scoring, FiniteSetTheorems, WellFoundedInduction, TLAPS

\* A nonempty set of natural numbers has a least element.
LEMMA LeastNatural ==
  ASSUME NEW T, T \subseteq Nat, T # {}
  PROVE  \E n \in T : \A m \in T : n <= m
<1>1. IsWellFoundedOn(OpToRel(<, Nat), Nat)  BY NatLessThanWellFounded
<1>2. PICK n \in T : \A m \in T : <<m, n>> \notin OpToRel(<, Nat)  BY <1>1, WFMin
<1>3. \A m \in T : ~ m < n  BY <1>2 DEF OpToRel
<1> QED  BY <1>3

\* Induction over the subsets of a finite set S: a collection C of them that
\* has a subset whenever it has those with one element less has them all.
LEMMA Subsets ==
  ASSUME NEW S, IsFiniteSet(S), NEW C, {} \in C,
         \A T \in SUBSET S : T # {} /\ (\A x \in T : T \ {x} \in C) => T \in C
  PROVE  SUBSET S \subseteq C
<1> DEFINE Bad   == {T \in SUBSET S : T \notin C}
           Sizes == {Cardinality(T) : T \in Bad}
<1>1. \A T \in SUBSET S : IsFiniteSet(T) /\ Cardinality(T) \in Nat  BY FS_Subset, FS_CardinalityType
<1>2. Sizes \subseteq Nat  BY <1>1
<1>3. Sizes = {}
  <2> SUFFICES ASSUME Sizes # {}  PROVE  FALSE  OBVIOUS
  <2>1. PICK n \in Sizes : \A m \in Sizes : n <= m
    <3> HIDE DEF Sizes
    <3> QED  BY <1>2, LeastNatural
  <2>2. PICK T \in Bad : Cardinality(T) = n  BY <2>1
  <2>3. ASSUME NEW x \in T  PROVE  T \ {x} \in C
    <3>1. Cardinality(T \ {x}) = n - 1  BY <1>1, <2>2, FS_RemoveElement
    <3>2. n - 1 \notin Sizes
      <4> HIDE DEF Sizes
      <4> QED  BY <1>2, <2>1
    <3> QED  BY <3>1, <3>2
  <2> QED  BY <2>2, <2>3
<1> QED  BY <1>3

-----------------------------------------------------------------------------
(* Sums *)

\* g is what SumFunctionOnSet computes for the subsets of D.
Sums(g, f, D) == g = [s \in SUBSET D |-> IF s = {} THEN 0
                                         ELSE LET x == CHOOSE x \in s : TRUE IN f[x] + g[s \ {x}]]

\* The recursion over a finite set has a solution, in integers.
LEMMA SumsExist ==
  ASSUME NEW D, IsFiniteSet(D), NEW f, \A x \in D : f[x] \in Int
  PROVE  \E g \in [SUBSET D -> Int] : Sums(g, f, D)
<1> DEFINE Pick(s)    == CHOOSE x \in s : TRUE
           Small(n)   == {s \in SUBSET D : Cardinality(s) <= n}
           Body(g, s) == IF s = {} THEN 0 ELSE f[Pick(s)] + g[s \ {Pick(s)}]
           Solved(n)  == \E g \in [Small(n) -> Int] : g = [s \in Small(n) |-> Body(g, s)]
           Unsolved   == {n \in Nat : ~Solved(n)}
<1>1. \A s \in SUBSET D : IsFiniteSet(s) /\ Cardinality(s) \in Nat /\ (Cardinality(s) = 0 <=> s = {})
  BY FS_Subset, FS_CardinalityType, FS_EmptySet
<1>2. \A s \in SUBSET D : s # {} => Pick(s) \in s  OBVIOUS
<1> HIDE DEF Pick
<1>3. \A s \in SUBSET D : s # {} => /\ Pick(s) \in D /\ s \ {Pick(s)} \in SUBSET D
                                    /\ Cardinality(s \ {Pick(s)}) = Cardinality(s) - 1
  BY <1>1, <1>2, FS_RemoveElement
<1>4. Solved(0)
  <2>1. \A s \in Small(0) : s = {}  BY <1>1
  <2> DEFINE g == [s \in Small(0) |-> 0]
  <2>2. g \in [Small(0) -> Int] /\ g = [s \in Small(0) |-> Body(g, s)]  BY <2>1
  <2> QED  BY <2>2
<1>5. ASSUME NEW n \in Nat, Solved(n)  PROVE  Solved(n + 1)
  <2>1. PICK g \in [Small(n) -> Int] : g = [s \in Small(n) |-> Body(g, s)]  BY <1>5
  <2> DEFINE h == [s \in Small(n + 1) |-> Body(g, s)]
  <2>2. \A s \in Small(n + 1) : s # {} => s \ {Pick(s)} \in Small(n)  BY <1>1, <1>3
  <2>3. \A s \in Small(n + 1) : h[s] \in Int
    <3> SUFFICES ASSUME NEW s \in Small(n + 1), s # {}  PROVE  Body(g, s) \in Int  OBVIOUS
    <3>1. g[s \ {Pick(s)}] \in Int /\ f[Pick(s)] \in Int  BY <2>2, <1>3
    <3> QED  BY <3>1
  <2>4. \A s \in Small(n) : h[s] = g[s]
    <3>1. Small(n) \subseteq Small(n + 1)  BY <1>1
    <3>2. \A s \in Small(n) : g[s] = Body(g, s)  BY <2>1
    <3> QED  BY <3>1, <3>2
  <2>5. \A s \in Small(n + 1) : h[s] = Body(h, s)
    <3> SUFFICES ASSUME NEW s \in Small(n + 1), s # {}
                 PROVE  h[s] = f[Pick(s)] + h[s \ {Pick(s)}]  OBVIOUS
    <3>1. h[s \ {Pick(s)}] = g[s \ {Pick(s)}]  BY <2>2, <2>4
    <3>2. h[s] = f[Pick(s)] + g[s \ {Pick(s)}]  OBVIOUS
    <3> QED  BY <3>1, <3>2
  <2>6. h \in [Small(n + 1) -> Int]  BY <2>3
  <2>7. h = [s \in Small(n + 1) |-> Body(h, s)]  BY <2>5
  <2> HIDE DEF h
  <2> QED  BY <2>6, <2>7
<1> HIDE DEF Solved
<1>6. Unsolved = {}
  <2> SUFFICES ASSUME Unsolved # {}  PROVE  FALSE  OBVIOUS
  <2>1. PICK n \in Unsolved : \A m \in Unsolved : n <= m  BY LeastNatural
  <2>2. n # 0  BY <1>4, <2>1
  <2>3. n - 1 \in Nat /\ n - 1 \notin Unsolved  BY <2>1, <2>2
  <2>4. Solved((n - 1) + 1)  BY <2>3, <1>5
  <2> QED  BY <2>1, <2>4
<1>7. Small(Cardinality(D)) = SUBSET D  BY <1>1, FS_Subset
<1> HIDE DEF Small
<1>8. Solved(Cardinality(D))  BY <1>1, <1>6
<1> QED  BY <1>7, <1>8 DEF Solved, Sums, Pick

\* A sum and the recursion it solves.
LEMMA SumSolves ==
  ASSUME NEW D, IsFiniteSet(D), NEW f, \A x \in D : f[x] \in Int
  PROVE  \E g \in [SUBSET D -> Int] : Sums(g, f, D) /\ SumFunctionOnSet(f, D) = g[D]
<1> DEFINE it == CHOOSE g : Sums(g, f, D)
<1>1. SumFunctionOnSet(f, D) = it[D]
  BY DEF SumFunctionOnSet, FoldFunctionOnSet, MapThenFoldSet, Sums
<1>2. Sums(it, f, D)  BY SumsExist
<1>3. PICK g0 \in [SUBSET D -> Int] : Sums(g0, f, D)  BY SumsExist
<1> HIDE DEF it
<1> DEFINE C == {s \in SUBSET D : it[s] = g0[s]}
<1>4. SUBSET D \subseteq C
  <2>1. {} \in C  BY <1>2, <1>3 DEF Sums
  <2>2. ASSUME NEW T \in SUBSET D, T # {}, \A x \in T : T \ {x} \in C  PROVE  T \in C
    <3> DEFINE p == CHOOSE x \in T : TRUE
    <3>1. p \in T  BY <2>2
    <3>2. it[T] = f[p] + it[T \ {p}]  BY <1>2, <2>2 DEF Sums
    <3>3. g0[T] = f[p] + g0[T \ {p}]  BY <1>3, <2>2 DEF Sums
    <3> HIDE DEF p
    <3> QED  BY <2>2, <3>1, <3>2, <3>3
  <2> HIDE DEF C
  <2> QED  BY <2>1, <2>2, Subsets
<1>5. it = [s \in SUBSET D |-> IF s = {} THEN 0 ELSE LET x == CHOOSE x \in s : TRUE IN f[x] + it[s \ {x}]]
  BY <1>2 DEF Sums
<1>6. it \in [SUBSET D -> Int]
  <2>1. \A s \in SUBSET D : it[s] \in Int  BY <1>3, <1>4
  <2> QED  BY <1>5, <2>1
<1> QED  BY <1>1, <1>2, <1>6

\* Whatever element is taken out of a set, its value is what the sum loses.
LEMMA SumStep ==
  ASSUME NEW S, IsFiniteSet(S), NEW f, \A x \in S : f[x] \in Int
  PROVE  /\ SumFunctionOnSet(f, S) \in Int
         /\ S = {} => SumFunctionOnSet(f, S) = 0
         /\ \A x \in S : SumFunctionOnSet(f, S) = f[x] + SumFunctionOnSet(f, S \ {x})
<1> DEFINE Sum(T) == SumFunctionOnSet(f, T)
           Pick(T) == CHOOSE x \in T : TRUE
           Fine(T) == Sum(T) \in Int /\ \A x \in T : Sum(T) = f[x] + Sum(T \ {x})
           C == {T \in SUBSET S : Fine(T)}
<1>1. ASSUME NEW T \in SUBSET S
      PROVE  Sum(T) \in Int /\ Sum(T) = IF T = {} THEN 0 ELSE f[Pick(T)] + Sum(T \ {Pick(T)})
  <2>1. IsFiniteSet(T) /\ \A x \in T : f[x] \in Int  BY FS_Subset
  <2>2. PICK g \in [SUBSET T -> Int] : Sums(g, f, T) /\ Sum(T) = g[T]
    BY <2>1, SumSolves
  <2> HIDE DEF Sum
  <2>a. \A s \in SUBSET T : g[s] = IF s = {} THEN 0 ELSE f[Pick(s)] + g[s \ {Pick(s)}]  BY <2>2 DEF Sums
  <2>3. CASE T = {}  BY <2>2, <2>a, <2>3
  <2>4. CASE T # {}
    <3> DEFINE U == T \ {Pick(T)}
    <3>1. Pick(T) \in T  BY <2>4
    <3>2. IsFiniteSet(U) /\ (\A x \in U : f[x] \in Int) /\ U \in SUBSET T  BY <2>1, FS_Subset
    <3>4. Sum(T) = f[Pick(T)] + g[U]  BY <2>2, <2>a, <2>4
    <3> HIDE DEF U
    <3>3. PICK h \in [SUBSET U -> Int] : Sums(h, f, U) /\ Sum(U) = h[U]
      BY <3>2, SumSolves DEF Sum
    <3>a. \A s \in SUBSET U : h[s] = IF s = {} THEN 0 ELSE f[Pick(s)] + h[s \ {Pick(s)}]  BY <3>3 DEF Sums
    <3> DEFINE E == {s \in SUBSET U : g[s] = h[s]}
    <3>5. SUBSET U \subseteq E
      <4>1. {} \in E  BY <2>a, <3>a
      <4>2. ASSUME NEW s \in SUBSET U, s # {}, \A x \in s : s \ {x} \in E  PROVE  s \in E
        <5>1. Pick(s) \in s  BY <4>2
        <5> HIDE DEF Pick
        <5>2. g[s] = f[Pick(s)] + g[s \ {Pick(s)}] /\ h[s] = f[Pick(s)] + h[s \ {Pick(s)}]
          BY <2>a, <3>2, <3>a, <4>2
        <5> QED  BY <4>2, <5>1, <5>2
      <4> HIDE DEF E
      <4> QED  BY <3>2, <4>1, <4>2, Subsets
    <3>6. g[U] = h[U]  BY <3>5
    <3> HIDE DEF Pick
    <3>7. Sum(T) = f[Pick(T)] + Sum(U)  BY <3>3, <3>4, <3>6
    <3>8. Sum(T) \in Int  BY <2>2
    <3> QED  BY <2>4, <3>7, <3>8 DEF U
  <2> QED  BY <2>3, <2>4
<1> HIDE DEF Sum, Pick
<1>2. \A T \in SUBSET S : T # {} => Pick(T) \in T  BY DEF Pick
<1>3. ASSUME NEW T \in SUBSET S, T # {}, \A x \in T : T \ {x} \in C  PROVE  T \in C
  <2> DEFINE p == Pick(T)
  <2>1. p \in T  BY <1>2, <1>3
  <2>2. Sum(T) = f[p] + Sum(T \ {p})  BY <1>1, <1>3
  <2> HIDE DEF p
  <2>3. ASSUME NEW x \in T  PROVE  Sum(T) = f[x] + Sum(T \ {x})
    <3>1. CASE x = p  BY <2>2, <3>1
    <3>2. CASE x # p
      <4>1. Sum(T \ {p}) = f[x] + Sum((T \ {p}) \ {x})  BY <1>3, <2>1, <3>2
      <4>2. Sum(T \ {x}) = f[p] + Sum((T \ {x}) \ {p})  BY <1>3, <2>1, <3>2
      <4>3. (T \ {p}) \ {x} = (T \ {x}) \ {p}  OBVIOUS
      <4>4. PICK n : n = Sum((T \ {p}) \ {x})  OBVIOUS
      <4>5. n \in Int /\ f[x] \in Int /\ f[p] \in Int  BY <1>1, <2>1, <4>4
      <4>6. Sum(T \ {p}) = f[x] + n /\ Sum(T \ {x}) = f[p] + n  BY <4>1, <4>2, <4>3, <4>4
      <4> QED  BY <2>2, <4>5, <4>6
    <3> QED  BY <3>1, <3>2
  <2> QED  BY <1>1, <2>3
<1>4. {} \in C  BY <1>1
<1> HIDE DEF C
<1>5. SUBSET S \subseteq C  BY <1>3, <1>4, Subsets
<1> QED  BY <1>1, <1>5 DEF C, Sum

\* A sum is of the values alone.
LEMMA SumOfSame ==
  ASSUME NEW S, IsFiniteSet(S), NEW f, NEW g, \A x \in S : f[x] \in Int /\ g[x] = f[x]
  PROVE  SumFunctionOnSet(g, S) = SumFunctionOnSet(f, S)
<1> DEFINE C == {T \in SUBSET S : SumFunctionOnSet(g, T) = SumFunctionOnSet(f, T)}
<1>1. \A T \in SUBSET S : IsFiniteSet(T) /\ \A x \in T : f[x] \in Int /\ g[x] \in Int  BY FS_Subset
<1>2. {} \in C  BY <1>1, SumStep
<1>3. ASSUME NEW T \in SUBSET S, T # {}, \A x \in T : T \ {x} \in C  PROVE  T \in C
  <2>1. PICK x \in T : TRUE  BY <1>3
  <2>2. /\ SumFunctionOnSet(f, T) = f[x] + SumFunctionOnSet(f, T \ {x})
        /\ SumFunctionOnSet(g, T) = g[x] + SumFunctionOnSet(g, T \ {x})
    BY <1>1, SumStep
  <2> QED  BY <1>3, <2>1, <2>2
<1> HIDE DEF C
<1>4. SUBSET S \subseteq C  BY <1>2, <1>3, Subsets
<1> QED  BY <1>4 DEF C

\* A factor of all the values is a factor of the sum.
LEMMA SumOfMultiples ==
  ASSUME NEW S, IsFiniteSet(S), NEW c \in Int, NEW f, NEW g, \A x \in S : f[x] \in Int /\ g[x] = f[x] * c
  PROVE  SumFunctionOnSet(g, S) = SumFunctionOnSet(f, S) * c
<1> DEFINE C == {T \in SUBSET S : SumFunctionOnSet(g, T) = SumFunctionOnSet(f, T) * c}
<1>1. \A T \in SUBSET S : IsFiniteSet(T) /\ \A x \in T : f[x] \in Int /\ g[x] \in Int
  <2>1. \A x \in S : f[x] * c \in Int  OBVIOUS
  <2> QED  BY <2>1, FS_Subset
<1>2. {} \in C
  <2>1. 0 * c = 0  OBVIOUS
  <2> QED  BY <1>1, <2>1, SumStep
<1>3. ASSUME NEW T \in SUBSET S, T # {}, \A x \in T : T \ {x} \in C  PROVE  T \in C
  <2>1. PICK x \in T : TRUE  BY <1>3
  <2>2. /\ SumFunctionOnSet(f, T) = f[x] + SumFunctionOnSet(f, T \ {x})
        /\ SumFunctionOnSet(g, T) = g[x] + SumFunctionOnSet(g, T \ {x})
    BY <1>1, SumStep
  <2>3. SumFunctionOnSet(g, T \ {x}) = SumFunctionOnSet(f, T \ {x}) * c  BY <1>3, <2>1
  <2>4. T \ {x} \in SUBSET S  OBVIOUS
  <2>5. f[x] \in Int /\ g[x] = f[x] * c /\ SumFunctionOnSet(f, T \ {x}) \in Int  BY <1>1, <2>4, SumStep
  <2>6. \A a, b \in Int : (a + b) * c = a * c + b * c  OBVIOUS
  <2> QED  BY <2>2, <2>3, <2>5, <2>6
<1> HIDE DEF C
<1>4. SUBSET S \subseteq C  BY <1>2, <1>3, Subsets
<1> QED  BY <1>4 DEF C

\* A sum grows with its values.
LEMMA SumOfGreater ==
  ASSUME NEW S, IsFiniteSet(S), NEW f, NEW g, \A x \in S : f[x] \in Int /\ g[x] \in Int /\ f[x] <= g[x]
  PROVE  SumFunctionOnSet(f, S) <= SumFunctionOnSet(g, S)
<1> DEFINE C == {T \in SUBSET S : SumFunctionOnSet(f, T) <= SumFunctionOnSet(g, T)}
<1>1. \A T \in SUBSET S : IsFiniteSet(T) /\ \A x \in T : f[x] \in Int /\ g[x] \in Int /\ f[x] <= g[x]
  BY FS_Subset
<1>2. {} \in C
  <2>1. SumFunctionOnSet(f, {}) = 0 /\ SumFunctionOnSet(g, {}) = 0  BY <1>1, SumStep
  <2> QED  BY <2>1
<1>3. ASSUME NEW T \in SUBSET S, T # {}, \A x \in T : T \ {x} \in C  PROVE  T \in C
  <2>1. PICK x \in T : TRUE  BY <1>3
  <2>2. /\ SumFunctionOnSet(f, T) = f[x] + SumFunctionOnSet(f, T \ {x})
        /\ SumFunctionOnSet(g, T) = g[x] + SumFunctionOnSet(g, T \ {x})
    BY <1>1, SumStep
  <2>3. T \ {x} \in SUBSET S  OBVIOUS
  <2>4. SumFunctionOnSet(f, T \ {x}) \in Int /\ SumFunctionOnSet(g, T \ {x}) \in Int
    BY <1>1, <2>3, SumStep
  <2> QED  BY <1>1, <1>3, <2>1, <2>2, <2>4
<1> HIDE DEF C
<1>4. SUBSET S \subseteq C  BY <1>2, <1>3, Subsets
<1> QED  BY <1>4 DEF C

-----------------------------------------------------------------------------
(* The thresholds: what thresholds_from_negatives guarantees for any number *)
(* of negatives, any scores, ties included, and any target rates.           *)

\* A floor of a product of naturals, by its defining inequality.
LEMMA Floor ==
  ASSUME NEW a \in Nat, NEW b \in Nat \ {0}
  PROVE  /\ a \div b \in Nat
         /\ (a \div b) * b <= a
<1>1. a \div b \in Int /\ a % b \in 0 .. (b - 1) /\ a = b * (a \div b) + (a % b)
  BY Z3
<1>2. QED
  BY <1>1, Z3

\* Multiplication by a natural keeps an order.
LEMMA ProductOrder ==
  ASSUME NEW c \in Nat, NEW a \in Nat, NEW q \in Nat, c <= a
  PROVE  c * q <= a * q
<1>1. PICK d \in Nat : a = c + d
  <2>1. a - c \in Nat /\ a = c + (a - c)
    OBVIOUS
  <2>2. QED
    BY <2>1
<1>2. (c + d) * q = c * q + d * q
  BY Z3
<1>3. c * q \in Nat /\ d * q \in Nat
  BY Z3
<1>4. QED
  BY <1>1, <1>2, <1>3

\* The negatives that may reach a threshold are fewer than all of them.
LEMMA AllowedIsBelow ==
  ASSUME NEW n \in Nat \ {0}, NEW target \in Rates
  PROVE  /\ Allowed(n, target) \in Nat
         /\ Allowed(n, target) * target[2] <= target[1] * n
         /\ Allowed(n, target) < n
<1> DEFINE a == Allowed(n, target)
<1>1. target[1] \in Nat /\ target[2] \in Nat \ {0} /\ target[1] < target[2]
  BY DEF Rates
<1>2. n * target[1] \in Nat
  BY <1>1
<1>3. a \in Nat /\ a * target[2] <= n * target[1]
  BY <1>1, <1>2, Floor DEF Allowed
<1>4. n * target[1] = target[1] * n
  BY <1>1
<1>5. a < n
  <2>1. SUFFICES ASSUME a >= n PROVE FALSE
    BY <1>3
  <2>2. a * target[2] >= n * target[2]
    BY <1>1, <1>3, <2>1, Z3
  <2>3. n * target[2] > n * target[1]
    BY <1>1, Z3
  <2>4. QED
    BY <1>1, <1>2, <1>3, <2>2, <2>3, Z3
<1>6. QED
  BY <1>3, <1>4, <1>5

\* A cut is a number.
LEMMA CutIsNumber ==
  ASSUME NEW neg \in Seq(Int), NEW target \in Rates
  PROVE  Cut(neg, target) \in Int
<1>1. CASE neg = << >>
  BY <1>1, FittingAssumption DEF Cut
<1>2. CASE neg # << >>
  <2>1. Len(neg) \in Nat \ {0}
    BY <1>2
  <2>2. Allowed(Len(neg), target) + 1 \in 1 .. Len(neg)
    BY <2>1, AllowedIsBelow
  <2>3. neg[Allowed(Len(neg), target) + 1] \in Int /\ neg[1] \in Int
    BY <2>1, <2>2
  <2>4. QED
    BY <1>2, <2>3, FittingAssumption DEF Cut
<1>3. QED
  BY <1>1, <1>2

\* Thresholds::validate never refuses what thresholds_from_negatives returns,
\* so learn's check of the order is never the reason for a refusal.
THEOREM ThresholdsAreOrdered ==
  ASSUME NEW neg \in Seq(Int), NEW targets \in [Tiers -> Rates]
  PROVE  LET t == ThresholdsFromNegatives(neg, targets)
         IN  /\ t \in [Tiers -> Int]
             /\ t.label < t.hold /\ t.hold < t.close
<1> DEFINE label == Cut(neg, targets.label)
           hold  == Above(Cut(neg, targets.hold), label)
           close == Above(Cut(neg, targets.close), hold)
<1>1. /\ Cut(neg, targets.label) \in Int
      /\ Cut(neg, targets.hold) \in Int
      /\ Cut(neg, targets.close) \in Int
  BY CutIsNumber DEF Tiers
<1>2. hold \in Int /\ label < hold
  BY <1>1 DEF Above
<1>3. close \in Int /\ hold < close
  <2> HIDE DEF hold
  <2>1. QED
    BY <1>1, <1>2 DEF Above
<1>4. ThresholdsFromNegatives(neg, targets) = [label |-> label, hold |-> hold, close |-> close]
  BY DEF ThresholdsFromNegatives
<1> HIDE DEF label, hold, close
<1>5. label \in Int
  BY <1>1 DEF label
<1>6. QED
  BY <1>2, <1>3, <1>4, <1>5 DEF Tiers

\* The heart of the matter, for one tier: a threshold at its cut or above is
\* reached by no more negatives than the target allows.
LEMMA CutKeepsTarget ==
  ASSUME NEW neg \in Seq(Int), neg # << >>, Descending(neg), NEW target \in Rates,
         NEW threshold \in Int, threshold >= Cut(neg, target)
  PROVE  /\ Cardinality(Reaching(neg, threshold)) * target[2] <= target[1] * Len(neg)
         /\ ~Certifiable(Len(neg), target) => Reaching(neg, threshold) = {}
<1> DEFINE a == Allowed(Len(neg), target)
           R == Reaching(neg, threshold)
<1>1. Len(neg) \in Nat \ {0} /\ DOMAIN neg = 1 .. Len(neg) /\ \A i \in DOMAIN neg : neg[i] \in Int
  OBVIOUS
<1>2. a \in Nat /\ a * target[2] <= target[1] * Len(neg) /\ a < Len(neg)
  BY <1>1, AllowedIsBelow
<1>3. target[1] \in Nat /\ target[2] \in Nat \ {0}
  BY DEF Rates
<1> HIDE DEF a
<1>4. CASE Certifiable(Len(neg), target) /\ a > 0
  <2>1. Cut(neg, target) = neg[a + 1] + 1
    BY <1>4 DEF Cut, a
  <2>2. a + 1 \in DOMAIN neg /\ neg[a + 1] \in Int
    BY <1>1, <1>2
  <2>3. ASSUME NEW i \in R PROVE i \in 1 .. a
    <3>1. i \in DOMAIN neg /\ neg[i] \in Int /\ neg[i] > neg[a + 1]
      BY <1>1, <2>1, <2>2, <2>3 DEF Reaching
    <3>2. ~(a + 1 < i) /\ i # a + 1
      BY <1>1, <2>2, <3>1 DEF Descending
    <3>3. QED
      BY <1>1, <1>2, <3>1, <3>2
  <2>4. R \subseteq 1 .. a
    BY <2>3
  <2>5. IsFiniteSet(1 .. a) /\ Cardinality(1 .. a) = a
    BY <1>2, FS_Interval
  <2>6. Cardinality(R) \in Nat /\ Cardinality(R) <= a
    BY <1>2, <2>4, <2>5, FS_Subset, FS_CardinalityType
  <2>7. Cardinality(R) * target[2] <= a * target[2]
    <3> DEFINE c == Cardinality(R)
    <3>1. c \in Nat /\ c <= a
      BY <2>6
    <3> HIDE DEF c
    <3>2. c * target[2] <= a * target[2]
      BY <1>2, <1>3, <3>1, ProductOrder
    <3>3. QED
      BY <3>2 DEF c
  <2>8. Cardinality(R) * target[2] \in Int /\ a * target[2] \in Int /\ target[1] * Len(neg) \in Int
    BY <1>1, <1>2, <1>3, <2>6
  <2>9. QED
    BY <1>2, <1>4, <2>7, <2>8
<1>5. CASE ~(Certifiable(Len(neg), target) /\ a > 0)
  <2>1. Cut(neg, target) = neg[1] + Logit
    BY <1>5 DEF Cut, a
  <2>2. 1 \in DOMAIN neg /\ neg[1] \in Int
    BY <1>1
  <2>3. R = {}
    <3>1. SUFFICES ASSUME NEW i \in R PROVE FALSE
      OBVIOUS
    <3>2. i \in DOMAIN neg /\ neg[i] \in Int /\ neg[i] > neg[1]
      BY <1>1, <2>1, <2>2, FittingAssumption DEF Reaching
    <3>3. i = 1 \/ 1 < i
      BY <1>1, <3>2
    <3>4. QED
      BY <2>2, <3>2, <3>3 DEF Descending
  <2>4. Cardinality(R) = 0
    BY <2>3, FS_EmptySet
  <2>5. target[1] * Len(neg) >= 0 /\ 0 * target[2] = 0
    BY <1>1, <1>3, Z3
  <2>6. QED
    BY <2>3, <2>4, <2>5
<1>6. QED
  BY <1>4, <1>5

\* Tiers are raised to be ordered and never lowered, so on the negatives they
\* were set on every tier keeps its false-positive target, ties included, and
\* a tier they cannot certify is reached by none of them.
THEOREM TargetsAreKept ==
  ASSUME NEW neg \in Seq(Int), neg # << >>, Descending(neg), NEW targets \in [Tiers -> Rates]
  PROVE  KeepsTargets(neg, ThresholdsFromNegatives(neg, targets), targets)
<1> DEFINE t == ThresholdsFromNegatives(neg, targets)
<1>1. t \in [Tiers -> Int]
  BY ThresholdsAreOrdered
<1>2. /\ Cut(neg, targets.label) \in Int
      /\ Cut(neg, targets.hold) \in Int
      /\ Cut(neg, targets.close) \in Int
  BY CutIsNumber DEF Tiers
<1>3. t.label >= Cut(neg, targets.label) /\ t.hold >= Cut(neg, targets.hold)
  BY <1>2 DEF ThresholdsFromNegatives, Above
<1>4. t.close >= Cut(neg, targets.close)
  <2> DEFINE hold == Above(Cut(neg, targets.hold), Cut(neg, targets.label))
  <2>1. hold \in Int
    BY <1>2 DEF Above
  <2>2. t.close = Above(Cut(neg, targets.close), hold)
    BY DEF ThresholdsFromNegatives
  <2> HIDE DEF hold, t
  <2>3. QED
    BY <1>2, <2>1, <2>2 DEF Above
<1> HIDE DEF t
<1>5. ASSUME NEW tier \in Tiers
      PROVE  /\ Cardinality(Reaching(neg, t[tier])) * targets[tier][2] <= targets[tier][1] * Len(neg)
             /\ ~Certifiable(Len(neg), targets[tier]) => Reaching(neg, t[tier]) = {}
  <2>1. t[tier] >= Cut(neg, targets[tier]) /\ t[tier] \in Int /\ targets[tier] \in Rates
    BY <1>1, <1>3, <1>4 DEF Tiers
  <2>2. QED
    BY <2>1, CutKeepsTarget
<1>6. QED
  BY <1>5 DEF KeepsTargets, Tiers, t

\* With too few negatives for any of the targets the three tiers are one: what
\* reaches label misses close by two of the smallest steps, so nearly all that
\* is flagged is closed and nothing is held.
THEOREM UncertifiedTiersCoincide ==
  ASSUME NEW neg \in Seq(Int), neg # << >>, NEW targets \in [Tiers -> Rates],
         \A tier \in Tiers : ~Certifiable(Len(neg), targets[tier])
  PROVE  LET floor == neg[1] + Logit
         IN  ThresholdsFromNegatives(neg, targets)
               = [label |-> floor, hold |-> floor + 1, close |-> floor + 2]
<1> DEFINE floor == neg[1] + Logit
<1>1. floor \in Int
  BY FittingAssumption
<1>2. \A tier \in Tiers : Cut(neg, targets[tier]) = floor
  BY DEF Cut
<1>3. Cut(neg, targets.label) = floor /\ Cut(neg, targets.hold) = floor /\ Cut(neg, targets.close) = floor
  BY <1>2 DEF Tiers
<1> HIDE DEF floor
<1>4. Above(floor, floor) = floor + 1 /\ Above(floor, floor + 1) = floor + 2
  BY <1>1 DEF Above
<1>5. QED
  BY <1>3, <1>4 DEF ThresholdsFromNegatives, floor

-----------------------------------------------------------------------------
(* The score *)

LEMMA FamiliesAreFinite ==
  /\ IsFiniteSet(Families)
  /\ \A family : IsFiniteSet(Members(family)) /\ Members(family) \subseteq Rules
<1>1. IsFiniteSet(Families)
  <2>1. Families = (((((({} \cup {"cluster"}) \cup {"code"}) \cup {"prose"}) \cup {"shape"}) \cup {"dossier"})
                       \cup {"trust"}) \cup {"policy"}
    BY DEF Families
  <2> QED  BY <2>1, FS_EmptySet, FS_AddElement
<1> QED  BY <1>1, EngineAssumption, FS_Subset DEF Members

\* What a weight contributes is a number, and so is what a family does.
LEMMA PricedIsNumbers ==
  ASSUME NEW by \in Weights, NEW fires \in Fires
  PROVE  /\ Priced(by, fires) \in [Rules -> Int]
         /\ \A family : FamilySum(Priced(by, fires), family) \in Int
<1>1. Priced(by, fires) \in [Rules -> Int]
  <2>1. \A r \in Rules : by.rules[r] \in Int /\ fires[r] \in Int  BY EngineAssumption DEF Weights, Fires
  <2>2. \A a, b \in Int : a * b \in Int  OBVIOUS
  <2> QED  BY <2>1, <2>2 DEF Priced
<1> QED  BY <1>1, FamiliesAreFinite, SumStep DEF FamilySum

\* A sum clamped to the cap is a number, within the cap where there is one.
LEMMA Clamped ==
  ASSUME NEW by \in Weights, NEW fires \in Fires, NEW family
  PROVE  /\ ClampedSum(by, fires, family) \in Int
         /\ by.family_cap # None /\ Capped(family) =>
              /\ by.family_cap \in Nat
              /\ Abs(ClampedSum(by, fires, family)) <= by.family_cap
BY PricedIsNumbers DEF ClampedSum, Weights, Abs

\* A sum scaled down to the cap by an exact fraction is the clamped sum.
LEMMA Quotients ==
  ASSUME NEW sum \in Int, NEW cap \in Nat, Abs(sum) > cap
  PROVE  (sum * cap) \div Abs(sum) = IF sum > cap THEN cap ELSE -cap
<1>1. Abs(sum) \in Nat \ {0}  BY DEF Abs
<1>2. \A c \in Int, d \in Nat \ {0} : (d * c) \div d = c  OBVIOUS
<1>3. CASE sum > cap
  <2>1. Abs(sum) = sum  BY <1>3 DEF Abs
  <2> QED  BY <1>1, <1>2, <1>3, <2>1
<1>4. CASE ~(sum > cap)
  <2>1. Abs(sum) = -sum  BY <1>4 DEF Abs
  <2>2. sum * cap = (-sum) * (-cap)  OBVIOUS
  <2> QED  BY <1>1, <1>2, <1>4, <2>1, <2>2
<1> QED  BY <1>3, <1>4

\* What the evidence of a family adds up to is its sum, clamped to the cap.
LEMMA ShownIsClamped ==
  ASSUME NEW by \in Weights, NEW fires \in Fires, NEW family \in Families
  PROVE  Shown(Evidence(by, fires), family) = ClampedSum(by, fires, family)
<1> DEFINE priced == Priced(by, fires)
           M      == Members(family)
           sum    == FamilySum(priced, family)
           cap    == by.family_cap
           over   == cap # None /\ Capped(family) /\ Abs(sum) > cap
           num    == IF over THEN cap ELSE 1
           den    == IF over THEN Abs(sum) ELSE 1
           nums   == [r \in M |-> Evidence(by, fires)[r].num]
<1>1. IsFiniteSet(M) /\ M \subseteq Rules /\ \A r \in M : Family[r] = family
  BY FamiliesAreFinite DEF Members
<1>2. priced \in [Rules -> Int] /\ sum \in Int  BY PricedIsNumbers
<1>3. cap \in Nat \cup {None} /\ (over => cap \in Nat)  BY DEF Weights
<1>4. sum = SumFunctionOnSet(priced, M)  BY DEF FamilySum
<1>5. \A r \in Rules : Evidence(by, fires)[r] = [num |-> priced[r] * Scale(by, priced, r).num,
                                                den |-> Scale(by, priced, r).den]
  BY DEF Evidence
<1>6. \A r \in M : Scale(by, priced, r) = [num |-> num, den |-> den]
  BY <1>1 DEF Scale
<1> HIDE DEF priced
<1>7. \A r \in M : Evidence(by, fires)[r].num = priced[r] * num /\ Evidence(by, fires)[r].den = den
  <2> SUFFICES ASSUME NEW r \in M
               PROVE  Evidence(by, fires)[r].num = priced[r] * num /\ Evidence(by, fires)[r].den = den
    OBVIOUS
  <2>1. r \in Rules  BY <1>1
  <2>2. Scale(by, priced, r) = [num |-> num, den |-> den]  BY <1>6
  <2> HIDE DEF num, den, M
  <2>3. Scale(by, priced, r).num = num /\ Scale(by, priced, r).den = den  BY <2>2
  <2>4. Evidence(by, fires)[r] = [num |-> priced[r] * num, den |-> den]  BY <1>5, <2>1, <2>3
  <2> QED  BY <2>4
<1>8. num \in Int
  <2> HIDE DEF over
  <2> QED  BY <1>3
<1>9. SumFunction(nums) = sum * num
  <2>1. DOMAIN nums = M /\ \A r \in M : nums[r] = priced[r] * num  BY <1>7
  <2> HIDE DEF num, M, nums, sum
  <2>2. \A r \in M : priced[r] \in Int  BY <1>1, <1>2
  <2>3. SumFunctionOnSet(nums, M) = SumFunctionOnSet(priced, M) * num  BY <1>1, <1>8, <2>1, <2>2, SumOfMultiples
  <2> QED  BY <1>4, <2>1, <2>3 DEF SumFunction
<1>10. CASE M = {}
  <2>1. Shown(Evidence(by, fires), family) = 0  BY <1>10 DEF Shown
  <2>2. sum = 0  BY <1>10, <1>4, FS_EmptySet, SumStep
  <2> QED  BY <1>3, <2>1, <2>2 DEF ClampedSum, priced
<1>11. CASE M # {}
  <2>1. Shown(Evidence(by, fires), family) = (sum * num) \div den
    <3> DEFINE any == CHOOSE r \in M : TRUE
    <3>1. any \in M  BY <1>11
    <3>2. Shown(Evidence(by, fires), family) = SumFunction(nums) \div Evidence(by, fires)[any].den
      BY <1>11 DEF Shown
    <3> HIDE DEF any, num, den, nums, sum, M
    <3>3. Evidence(by, fires)[any].den = den  BY <1>7, <3>1
    <3> QED  BY <1>9, <3>2, <3>3
  <2>2. CASE over
    <3>1. (sum * num) \div den = IF sum > cap THEN cap ELSE -cap
      <4> HIDE DEF sum, cap
      <4> QED  BY <1>2, <1>3, <2>2, Quotients
    <3>2. ClampedSum(by, fires, family) = IF sum > cap THEN cap ELSE -cap
      <4>1. cap \in Nat  BY <1>3, <2>2
      <4>2. sum > cap \/ sum < -cap
        <5> HIDE DEF sum, cap
        <5> QED  BY <4>1, <1>2, <2>2 DEF Abs
      <4> QED  BY <4>1, <4>2, <2>2, <1>2 DEF ClampedSum, priced
    <3> QED  BY <2>1, <3>1, <3>2
  <2>3. CASE ~over
    <3>1. (sum * num) \div den = sum
      <4> HIDE DEF sum, over
      <4>1. (sum * 1) \div 1 = sum  BY <1>2
      <4> QED  BY <2>3, <4>1
    <3>2. ClampedSum(by, fires, family) = sum
      <4>1. cap = None \/ ~Capped(family) \/ (cap \in Nat /\ ~(sum > cap) /\ ~(sum < -cap))
        <5> HIDE DEF sum, cap
        <5> QED  BY <1>2, <1>3, <2>3 DEF Abs
      <4> QED  BY <4>1 DEF ClampedSum, priced
    <3> QED  BY <2>1, <3>1, <3>2
  <2> QED  BY <2>2, <2>3
<1> QED  BY <1>10, <1>11

\* The score as fit_once computes it.
Clamps(by, fires) == [f \in Families |-> ClampedSum(by, fires, f)]

LEMMA ScoreIsClamped ==
  ASSUME NEW by \in Weights, NEW fires \in Fires
  PROVE  /\ Score(by, fires) = by.bias + SumFunction(Clamps(by, fires))
         /\ Score(by, fires) \in Int
<1>1. [f \in Families |-> Shown(Evidence(by, fires), f)] = Clamps(by, fires)
  BY ShownIsClamped DEF Clamps
<1>2. Score(by, fires) = by.bias + SumFunction([f \in Families |-> Shown(Evidence(by, fires), f)])
  BY Zenon DEF Score
<1>3. SumFunction(Clamps(by, fires)) \in Int
  <2>1. DOMAIN Clamps(by, fires) = Families /\ \A f \in Families : Clamps(by, fires)[f] \in Int
    BY Clamped DEF Clamps
  <2>2. SumFunctionOnSet(Clamps(by, fires), Families) \in Int  BY <2>1, FamiliesAreFinite, SumStep
  <2> QED  BY <2>1, <2>2 DEF SumFunction
<1>4. by.bias \in Int  BY DEF Weights
<1> QED  BY <1>1, <1>2, <1>3, <1>4

\* Where two sets of fires give a capped family different sums and agree on the
\* other families, the scores are as far apart as the clamped sums.
LEMMA OneFamilyMoves ==
  ASSUME NEW by \in Weights, NEW fires \in Fires, NEW family \in Families
  PROVE  /\ Without(fires, Members(family)) \in Fires
         /\ Score(by, fires) - Score(by, Without(fires, Members(family))) = ClampedSum(by, fires, family)
<1> DEFINE rest == Without(fires, Members(family))
           all  == Clamps(by, fires)
           less == Clamps(by, rest)
           Others == Families \ {family}
<1>1. rest \in Fires  BY EngineAssumption DEF Without, Fires
<1>2. ASSUME NEW f \in Families, f # family  PROVE  less[f] = all[f]
  <2>1. \A r \in Members(f) : r \in Rules /\ r \notin Members(family)  BY <1>2 DEF Members
  <2>2. \A r \in Members(f) : Priced(by, rest)[r] = Priced(by, fires)[r]  BY <2>1 DEF Priced, Without
  <2>3. \A r \in Members(f) : Priced(by, fires)[r] \in Int  BY <2>1, PricedIsNumbers
  <2>4. FamilySum(Priced(by, rest), f) = FamilySum(Priced(by, fires), f)
    BY <2>2, <2>3, FamiliesAreFinite, SumOfSame DEF FamilySum
  <2>5. ClampedSum(by, rest, f) = ClampedSum(by, fires, f)  BY <2>4 DEF ClampedSum
  <2> QED  BY <2>5 DEF Clamps
<1>3. less[family] = 0
  <2>1. \A r \in Members(family) : r \in Rules /\ Priced(by, fires)[r] \in Int
    BY PricedIsNumbers DEF Members
  <2>2. \A r \in Members(family) : Priced(by, rest)[r] = Priced(by, fires)[r] * 0
    <3>1. \A r \in Members(family) : Priced(by, rest)[r] = by.rules[r] * 0  BY <2>1 DEF Priced, Without
    <3>2. \A r \in Members(family) : by.rules[r] \in Int  BY <2>1 DEF Weights
    <3>3. \A a, b \in Int : a * 0 = b * 0  OBVIOUS
    <3> QED  BY <2>1, <3>1, <3>2, <3>3
  <2>3. FamilySum(Priced(by, rest), family) = FamilySum(Priced(by, fires), family) * 0
    BY <2>1, <2>2, FamiliesAreFinite, SumOfMultiples DEF FamilySum
  <2>4. FamilySum(Priced(by, rest), family) = 0  BY <2>3, PricedIsNumbers
  <2>5. by.family_cap \in Nat \cup {None}  BY DEF Weights
  <2>6. ClampedSum(by, rest, family) = 0  BY <2>4, <2>5 DEF ClampedSum
  <2> QED  BY <2>6 DEF Clamps
<1>4. /\ DOMAIN all = Families /\ DOMAIN less = Families
      /\ \A f \in Families : all[f] \in Int /\ less[f] \in Int
  BY <1>1, Clamped DEF Clamps
<1>5. all[family] = ClampedSum(by, fires, family)  BY DEF Clamps
<1>6. Score(by, fires) = by.bias + SumFunction(all) /\ Score(by, rest) = by.bias + SumFunction(less)
  BY <1>1, ScoreIsClamped
<1> HIDE DEF all, less, rest
<1>7. /\ SumFunctionOnSet(all, Families) = all[family] + SumFunctionOnSet(all, Others)
      /\ SumFunctionOnSet(less, Families) = less[family] + SumFunctionOnSet(less, Others)
  BY <1>4, FamiliesAreFinite, SumStep
<1>8. IsFiniteSet(Others) /\ Others \subseteq Families  BY FamiliesAreFinite, FS_Subset
<1>9. SumFunctionOnSet(less, Others) = SumFunctionOnSet(all, Others)
  BY <1>2, <1>4, <1>8, SumOfSame
<1>10. SumFunctionOnSet(all, Others) \in Int  BY <1>4, <1>8, SumStep
<1>11. SumFunction(all) = all[family] + SumFunctionOnSet(all, Others)
       /\ SumFunction(less) = SumFunctionOnSet(all, Others)
  BY <1>3, <1>4, <1>7, <1>9, <1>10 DEF SumFunction
<1>12. by.bias \in Int  BY DEF Weights
<1>13. Score(by, fires) - Score(by, rest) = all[family]  BY <1>4, <1>6, <1>10, <1>11, <1>12
<1> QED  BY <1>1, <1>5, <1>13 DEF rest

\* a holds against the author all that b does, and no more in favour.
Worse(a, b) == \A r \in Rules : IF Exonerating(Family[r]) THEN a[r] <= b[r] ELSE a[r] >= b[r]

\* Under weights that keep their signs a score is monotonic in the evidence.
LEMMA ScoreIsMonotonic ==
  ASSUME NEW by \in Weights, Signed(by.rules), NEW a \in Fires, NEW b \in Fires, Worse(a, b)
  PROVE  Score(by, a) >= Score(by, b)
<1>1. \A r \in Rules : Priced(by, a)[r] \in Int /\ Priced(by, b)[r] \in Int /\ Priced(by, b)[r] <= Priced(by, a)[r]
  <2> SUFFICES ASSUME NEW r \in Rules  PROVE  by.rules[r] * b[r] <= by.rules[r] * a[r]
    BY PricedIsNumbers DEF Priced
  <2>1. by.rules[r] \in Int /\ a[r] \in Int /\ b[r] \in Int  BY EngineAssumption DEF Weights, Fires
  <2>2. \A w, x, y \in Int : w >= 0 /\ x <= y => w * x <= w * y  BY Z3
  <2>3. \A w, x, y \in Int : w <= 0 /\ x >= y => w * x <= w * y  BY Z3
  <2>4. CASE Exonerating(Family[r])
    <3>1. by.rules[r] <= 0 /\ b[r] >= a[r]  BY <2>1, <2>4 DEF Signed, Worse
    <3> QED  BY <2>1, <2>3, <3>1
  <2>5. CASE ~Exonerating(Family[r])
    <3>1. by.rules[r] >= 0 /\ b[r] <= a[r]  BY <2>1, <2>5 DEF Signed, Worse
    <3> QED  BY <2>1, <2>2, <3>1
  <2> QED  BY <2>4, <2>5
<1>2. \A f \in Families : ClampedSum(by, b, f) <= ClampedSum(by, a, f)
  <2> SUFFICES ASSUME NEW f \in Families  PROVE  ClampedSum(by, b, f) <= ClampedSum(by, a, f)  OBVIOUS
  <2>1. FamilySum(Priced(by, b), f) <= FamilySum(Priced(by, a), f)
    BY <1>1, FamiliesAreFinite, SumOfGreater DEF FamilySum
  <2>2. FamilySum(Priced(by, b), f) \in Int /\ FamilySum(Priced(by, a), f) \in Int  BY PricedIsNumbers
  <2>3. by.family_cap \in Nat \cup {None}  BY DEF Weights
  <2> QED  BY <2>1, <2>2, <2>3 DEF ClampedSum
<1>3. /\ DOMAIN Clamps(by, a) = Families /\ DOMAIN Clamps(by, b) = Families
      /\ \A f \in Families : /\ Clamps(by, a)[f] \in Int /\ Clamps(by, b)[f] \in Int
                             /\ Clamps(by, b)[f] <= Clamps(by, a)[f]
  BY <1>2, Clamped DEF Clamps
<1>4. SumFunction(Clamps(by, b)) <= SumFunction(Clamps(by, a))
  BY <1>3, FamiliesAreFinite, SumOfGreater DEF SumFunction
<1>5. SumFunction(Clamps(by, b)) \in Int /\ SumFunction(Clamps(by, a)) \in Int
  BY <1>3, FamiliesAreFinite, SumStep DEF SumFunction
<1>6. by.bias \in Int  BY DEF Weights
<1> QED  BY <1>4, <1>5, <1>6, ScoreIsClamped

\* A higher score is never in a milder tier, however the thresholds are
\* overridden.
LEMMA TierIsMonotonic ==
  ASSUME NEW t \in Thresholds, NEW low \in Int, NEW high \in Int, low <= high
  PROVE  Severity(TierOf(t, low)) <= Severity(TierOf(t, high))
<1>1. t.label \in Int /\ t.hold \in Int /\ t.close \in Int  BY DEF Thresholds
<1>2. /\ Severity("pass") = 0 /\ Severity("label") = 1 /\ Severity("hold") = 2 /\ Severity("close") = 3
  BY DEF Severity
<1> QED  BY <1>1, <1>2 DEF TierOf

-----------------------------------------------------------------------------
(* Sorting *)

\* Scores can be put in descending order: each at the rank that the number of
\* those before it gives it, the earlier one first where two are equal.
LEMMA OrderExists ==
  ASSUME NEW scores \in Seq(Int)
  PROVE  \E p \in Bijection(DOMAIN scores, DOMAIN scores) : Descending([i \in DOMAIN scores |-> scores[p[i]]])
<1> DEFINE n         == Len(scores)
           D         == DOMAIN scores
           Before(i) == {j \in D : scores[j] > scores[i] \/ (scores[j] = scores[i] /\ j < i)}
           rank      == [i \in D |-> Cardinality(Before(i)) + 1]
           p         == [k \in D |-> CHOOSE i \in D : rank[i] = k]
<1>1. n \in Nat /\ D = 1 .. n /\ \A i \in D : scores[i] \in Int /\ i \in Int  OBVIOUS
<1> HIDE DEF D, n
<1>2. IsFiniteSet(D) /\ Cardinality(D) = n  BY <1>1, FS_Interval
<1>3. \A i \in D : Before(i) \subseteq D \ {i}  BY <1>1
<1>4. \A i \in D : IsFiniteSet(Before(i)) /\ Cardinality(Before(i)) \in Nat
  BY <1>2, <1>3, FS_Subset, FS_CardinalityType
<1>5. \A i \in D : \A j \in Before(i) : Before(j) \subseteq Before(i) \ {j}
  <2> SUFFICES ASSUME NEW i \in D, NEW j \in Before(i), NEW k \in Before(j)  PROVE  k \in Before(i) /\ k # j
    OBVIOUS
  <2>1. j \in D /\ k \in D  OBVIOUS
  <2>2. /\ scores[i] \in Int /\ scores[j] \in Int /\ scores[k] \in Int
        /\ i \in Int /\ j \in Int /\ k \in Int
    BY <1>1, <2>1
  <2> QED  BY <2>1, <2>2
<1>6. \A i \in D : Cardinality(Before(i)) < n
  <2> SUFFICES ASSUME NEW i \in D  PROVE  Cardinality(Before(i)) < n  OBVIOUS
  <2>1. IsFiniteSet(D \ {i}) /\ Cardinality(D \ {i}) = n - 1  BY <1>2, FS_RemoveElement
  <2>2. Cardinality(Before(i)) <= n - 1  BY <1>3, <2>1, FS_Subset
  <2> HIDE DEF Before
  <2> QED  BY <1>1, <1>4, <2>2
<1>7. \A i \in D : \A j \in Before(i) : Cardinality(Before(j)) < Cardinality(Before(i))
  <2> SUFFICES ASSUME NEW i \in D, NEW j \in Before(i)  PROVE  Cardinality(Before(j)) < Cardinality(Before(i))
    OBVIOUS
  <2>1. j \in D  OBVIOUS
  <2> HIDE DEF Before
  <2>2. /\ IsFiniteSet(Before(i) \ {j})
        /\ Cardinality(Before(i) \ {j}) = Cardinality(Before(i)) - 1
    BY <1>4, FS_RemoveElement
  <2>3. Cardinality(Before(j)) <= Cardinality(Before(i)) - 1  BY <1>5, <2>2, FS_Subset
  <2> QED  BY <1>4, <2>1, <2>3
<1>8. \A i, j \in D : i # j => i \in Before(j) \/ j \in Before(i)  BY <1>1
<1>9. rank \in [D -> D]
  <2> HIDE DEF Before
  <2>1. \A i \in D : Cardinality(Before(i)) + 1 \in D  BY <1>1, <1>4, <1>6
  <2> QED  BY <2>1
<1>10. \A i, j \in D : i \in Before(j) => rank[i] < rank[j]
  <2> HIDE DEF Before
  <2> QED  BY <1>4, <1>7
<1>a. \A i \in D : rank[i] \in Int  BY <1>1, <1>9
<1> HIDE DEF rank
<1>11. \A i, j \in D : i # j => rank[i] # rank[j]
  <2> HIDE DEF Before
  <2> QED  BY <1>8, <1>a, <1>10
<1>12. rank \in Injection(D, D)  BY <1>9, <1>11 DEF Injection, IsInjective
<1>13. rank \in Surjection(D, D)  BY <1>2, <1>12, FS_Injection
<1>14. \A k \in D : p[k] \in D /\ rank[p[k]] = k  BY <1>13 DEF Surjection
<1> HIDE DEF p
<1>15. p \in [D -> D]  BY <1>14 DEF p
<1>16. p \in Injection(D, D)  BY <1>14, <1>15 DEF Injection, IsInjective
<1>17. p \in Surjection(D, D)  BY <1>2, <1>16, FS_Injection
<1>18. p \in Bijection(D, D)  BY <1>16, <1>17 DEF Bijection
<1>19. ASSUME NEW k \in D, NEW l \in D, k < l  PROVE  scores[p[k]] >= scores[p[l]]
  <2>1. p[k] \in D /\ p[l] \in D /\ p[k] # p[l] /\ ~(rank[p[l]] < rank[p[k]])  BY <1>1, <1>14, <1>19
  <2>2. p[k] \in Before(p[l])  BY <1>8, <1>10, <2>1
  <2> QED  BY <1>1, <2>1, <2>2
<1>20. Descending([i \in D |-> scores[p[i]]])  BY <1>19 DEF Descending
<1> QED  BY <1>18, <1>20 DEF D

\* sort_by: the same number of scores, in descending order.
LEMMA SortedIs ==
  ASSUME NEW scores \in Seq(Int)
  PROVE  /\ Sorted(scores) \in Seq(Int) /\ Len(Sorted(scores)) = Len(scores)
         /\ Descending(Sorted(scores))
<1> DEFINE D          == DOMAIN scores
           ordered(p) == Descending([i \in D |-> scores[p[i]]])
           order      == CHOOSE p \in Bijection(D, D) : ordered(p)
<1>1. order \in Bijection(D, D) /\ ordered(order)  BY OrderExists
<1>2. Sorted(scores) = [i \in D |-> scores[order[i]]]  BY Zenon DEF Sorted
<1>3. \A i \in D : order[i] \in D  BY <1>1 DEF Bijection, Injection
<1> HIDE DEF order
<1>4. Len(scores) \in Nat /\ D = 1 .. Len(scores) /\ \A i \in D : scores[i] \in Int  OBVIOUS
<1>5. Sorted(scores) \in [1 .. Len(scores) -> Int]  BY <1>2, <1>3, <1>4
<1> QED  BY <1>1, <1>2, <1>4, <1>5

-----------------------------------------------------------------------------
(* The invariant *)

\* How the last verdict came about: from the fires of a pull request and the
\* stance, under weights that keep their signs.
Judged ==
  /\ verdict.config \in Configs /\ verdict.by \in Weights /\ Signed(verdict.by.rules)
  /\ \E f \in PullRequests : verdict.fires = WithStance(f, verdict.config.ai_policy)
  /\ verdict.score = Score(verdict.by, verdict.fires)
  /\ verdict.tier = TierOf(verdict.by.thresholds, verdict.score)
  /\ verdict.config.ai_policy = "welcome" => \A r \in AiStyle : verdict.by.rules[r] = 0

ScoringInv ==
  /\ weights \in Weights /\ Signed(weights.rules)
  /\ verdict.outcome \in Outcomes
  /\ Scored => Judged
  /\ learned \in {"nothing", "promoted", "invalid thresholds", "regressed"}
  /\ negatives \in Seq(Int)
  /\ fits \in 0 .. MaxFits
  /\ TargetsHold

\* The table that a repository's pull requests are scored under is a table,
\* keeps the signs, and where AI is welcome prices none of its rules.
LEMMA ScopedIs ==
  ASSUME weights \in Weights, Signed(weights.rules), NEW config \in Configs
  PROVE  /\ Scoped(config) \in Weights /\ Signed(Scoped(config).rules)
         /\ config.ai_policy = "welcome" => \A r \in AiStyle : Scoped(config).rules[r] = 0
<1> DEFINE rules == [r \in Rules |-> IF config.ai_policy = "welcome" /\ r \in AiStyle THEN 0 ELSE weights.rules[r]]
           thresholds == Overridden(config.overrides, weights.thresholds)
<1>1. Scoped(config) = [weights EXCEPT !.rules = rules, !.thresholds = thresholds]
  BY DEF Scoped, Stance
<1>2. /\ weights.bias \in Int /\ weights.rules \in [Rules -> Int]
      /\ weights.thresholds \in Thresholds /\ weights.family_cap \in Nat \cup {None}
      /\ weights = [bias |-> weights.bias, rules |-> weights.rules, thresholds |-> weights.thresholds,
                    family_cap |-> weights.family_cap]
  BY DEF Weights
<1>3. rules \in [Rules -> Int]  BY <1>2
<1>4. thresholds \in Thresholds
  <2>1. config.overrides \in [Tiers -> Int \cup {None}]  BY ScoringAssumption DEF RepoConfig
  <2>2. /\ weights.thresholds.label \in Int /\ weights.thresholds.hold \in Int /\ weights.thresholds.close \in Int
        /\ DOMAIN weights.thresholds = Tiers
    BY <1>2 DEF Thresholds, Tiers
  <2>3. \A t \in Tiers : weights.thresholds[t] \in Int  BY <2>2 DEF Tiers
  <2>4. thresholds \in [Tiers -> Int]  BY <2>1, <2>2, <2>3 DEF Overridden
  <2> HIDE DEF thresholds
  <2> QED  BY <2>4 DEF Tiers, Thresholds
<1>5. Scoped(config) = [bias |-> weights.bias, rules |-> rules, thresholds |-> thresholds,
                        family_cap |-> weights.family_cap]
  <2> HIDE DEF rules, thresholds
  <2> QED  BY <1>1, <1>2
<1>6. Scoped(config) \in Weights /\ Scoped(config).rules = rules
  <2> HIDE DEF rules, thresholds
  <2> QED  BY <1>2, <1>3, <1>4, <1>5 DEF Weights
<1>7. Signed(rules)  BY <1>2 DEF Signed
<1>8. config.ai_policy = "welcome" => \A r \in AiStyle : rules[r] = 0  BY EngineAssumption
<1> QED  BY <1>6, <1>7, <1>8

\* With the rule of the stance, the fires are fires.
LEMMA StanceFires ==
  ASSUME NEW fires \in PullRequests, NEW ai_policy
  PROVE  WithStance(fires, ai_policy) \in Fires
<1>1. fires \in [Rules -> 0 .. Full] /\ Full \in 0 .. Full  BY ScoringAssumption, EngineAssumption DEF Fires
<1> QED  BY <1>1, ScoringAssumption DEF WithStance, Hit, Fires

LEMMA InitScoring == Init => ScoringInv
BY ScoringAssumption DEF Init, ScoringInv, NoVerdict, Outcomes, Scored, TargetsHold

LEMMA EventScoring ==
  ASSUME ScoringInv, NEW fires \in PullRequests, NEW config \in Configs, Event(fires, config)
  PROVE  ScoringInv'
<1>1. UNCHANGED <<weights, learned, negatives, fits>>  BY DEF Event
<1>2. CASE config.exempt
  <2>1. verdict' = [outcome |-> "exempt"]  BY <1>2 DEF Event
  <2> QED  BY <1>1, <2>1 DEF ScoringInv, Outcomes, Scored, TargetsHold
<1>3. CASE ~config.exempt /\ config.mirror
  <2>1. verdict' = [outcome |-> "policy-close"]  BY <1>3 DEF Event
  <2> QED  BY <1>1, <2>1 DEF ScoringInv, Outcomes, Scored, TargetsHold
<1>4. CASE ~config.exempt /\ ~config.mirror
  <2> DEFINE by    == Scoped(config)
             fired == WithStance(fires, config.ai_policy)
  <2>1. verdict' = [outcome |-> "scored", config |-> config, fires |-> fired, by |-> by,
                    score |-> Score(by, fired), tier |-> TierOf(by.thresholds, Score(by, fired))]
    BY <1>4 DEF Event, Process
  <2>2. by \in Weights /\ Signed(by.rules) /\ (config.ai_policy = "welcome" => \A r \in AiStyle : by.rules[r] = 0)
    BY ScopedIs DEF ScoringInv
  <2> HIDE DEF by
  <2>3. Judged'
    <3>1. \E f \in PullRequests : fired = WithStance(f, config.ai_policy)  OBVIOUS
    <3> HIDE DEF fired
    <3>2. /\ verdict'.config = config /\ verdict'.by = by /\ verdict'.fires = fired
          /\ verdict'.score = Score(by, fired) /\ verdict'.tier = TierOf(by.thresholds, Score(by, fired))
      BY <2>1
    <3> QED  BY <2>2, <3>1, <3>2 DEF Judged
  <2>4. verdict'.outcome \in Outcomes
    <3> HIDE DEF fired
    <3> QED  BY <2>1 DEF Outcomes
  <2> QED  BY <1>1, <2>3, <2>4 DEF ScoringInv, TargetsHold
<1> QED  BY <1>2, <1>3, <1>4

\* A score does not depend on the thresholds.
LEMMA ScoreOfTheSame ==
  ASSUME NEW a, NEW b, a.bias = b.bias, a.rules = b.rules, a.family_cap = b.family_cap, NEW fires
  PROVE  Score(a, fires) = Score(b, fires)
<1>1. Priced(a, fires) = Priced(b, fires)  BY DEF Priced
<1>2. \A priced, r : Scale(a, priced, r) = Scale(b, priced, r)  BY DEF Scale
<1>3. Evidence(a, fires) = Evidence(b, fires)  BY <1>1, <1>2 DEF Evidence
<1> QED  BY <1>3, Zenon DEF Score

LEMMA LearnScoring ==
  ASSUME ScoringInv, NEW fit \in FitTables, NEW spam, NEW n \in 1 .. MaxHam, NEW ham \in [1 .. n -> Feedback],
         Learn(fit, spam, ham)
  PROVE  ScoringInv'
<1> DEFINE table     == [bias |-> fit.bias, rules |-> fit.rules, family_cap |-> DefaultCap,
                         thresholds |-> weights.thresholds]
           held      == Sorted(Scores(table, ham))
           t         == ThresholdsFromNegatives(held, Targets)
           candidate == Candidate(fit, ham)
<1>1. /\ fit.bias \in Int /\ fit.rules \in [Rules -> Int] /\ DefaultCap \in Nat
      /\ Targets \in [Tiers -> Rates]
  BY ScoringAssumption
<1>2. table \in Weights  BY <1>1 DEF ScoringInv, Weights
<1>3. Scores(table, ham) \in Seq(Int) /\ Len(Scores(table, ham)) = n
  <2>1. \A i \in 1 .. n : ham[i] \in Fires  BY ScoringAssumption
  <2> HIDE DEF table
  <2>2. \A i \in 1 .. n : Score(table, ham[i]) \in Int  BY <1>2, <2>1, ScoreIsClamped
  <2>3. Scores(table, ham) = [i \in 1 .. n |-> Score(table, ham[i])]  BY DEF Scores
  <2>4. n \in Nat  OBVIOUS
  <2>5. Scores(table, ham) \in [1 .. n -> Int]  BY <2>2, <2>3
  <2> QED  BY <2>4, <2>5
<1>4. held \in Seq(Int) /\ held # << >> /\ Descending(held)
  <2> DEFINE scores == Scores(table, ham)
  <2> HIDE DEF scores
  <2>1. Sorted(scores) \in Seq(Int) /\ Len(Sorted(scores)) = n /\ Descending(Sorted(scores))
    BY <1>3, SortedIs DEF scores
  <2>2. n # 0  OBVIOUS
  <2>3. Sorted(scores) # << >>  BY <2>1, <2>2
  <2> QED  BY <2>1, <2>3 DEF scores
<1> HIDE DEF held
<1>5. t \in [Tiers -> Int] /\ KeepsTargets(held, t, Targets)  BY <1>1, <1>4, ThresholdsAreOrdered, TargetsAreKept
<1>6. t \in Thresholds
  <2> DEFINE u == t
  <2>1. u \in [Tiers -> Int]  BY <1>5
  <2> HIDE DEF u
  <2>2. u \in Thresholds  BY <2>1 DEF Tiers, Thresholds
  <2> QED  BY <2>2 DEF u
<1>7. candidate = [bias |-> fit.bias, rules |-> fit.rules, family_cap |-> DefaultCap, thresholds |-> t]
  <2>1. candidate = [table EXCEPT !.thresholds = t]  BY Zenon DEF Candidate, held
  <2> HIDE DEF t, candidate
  <2> QED  BY <2>1
<1> HIDE DEF t, candidate
<1>8. candidate \in Weights /\ candidate.thresholds = t  BY <1>1, <1>6, <1>7 DEF Weights
<1>9. Signed(candidate.rules)
  <2>1. \A r \in Rules : fit.rules[r] # weights.rules[r] =>
          IF Exonerating(Family[r]) THEN fit.rules[r] <= 0 ELSE fit.rules[r] >= 0
    BY DEF Learn, IsFit
  <2> QED  BY <1>7, <2>1 DEF Signed, ScoringInv
<1>10. Scores(candidate, ham) = Scores(table, ham)
  <2>1. table.bias = candidate.bias /\ table.rules = candidate.rules /\ table.family_cap = candidate.family_cap
    BY <1>7
  <2> HIDE DEF table
  <2>2. \A i \in DOMAIN ham : Score(candidate, ham[i]) = Score(table, ham[i])  BY <2>1, ScoreOfTheSame
  <2> QED  BY <2>2 DEF Scores
<1>11. /\ learned' \in {"promoted", "invalid thresholds", "regressed"}
       /\ IF learned' = "promoted"
          THEN weights' = candidate /\ negatives' = Sorted(Scores(candidate, ham)) /\ verdict' = NoVerdict
          ELSE UNCHANGED <<weights, negatives, verdict>>
       /\ fits < MaxFits /\ fits' = fits + 1
  BY DEF Learn, candidate
<1>12. fits' \in 0 .. MaxFits
  <2>1. fits \in 0 .. MaxFits /\ MaxFits \in Nat  BY ScoringAssumption DEF ScoringInv
  <2>2. fits < MaxFits /\ fits' = fits + 1  BY DEF Learn
  <2> QED  BY <2>1, <2>2
<1>13. CASE learned' = "promoted"
  <2>1. weights' = candidate /\ verdict' = NoVerdict /\ negatives' = held  BY <1>10, <1>11, <1>13 DEF held
  <2>2. TargetsHold'  BY <1>5, <1>8, <2>1 DEF TargetsHold
  <2>3. verdict'.outcome = "none"  BY <2>1 DEF NoVerdict
  <2> QED  BY <1>4, <1>8, <1>9, <1>11, <1>12, <2>1, <2>2, <2>3 DEF ScoringInv, Outcomes, Scored
<1>14. CASE learned' # "promoted"
  <2>1. UNCHANGED <<weights, negatives, verdict>>  BY <1>11, <1>14
  <2> QED  BY <1>11, <1>12, <2>1 DEF ScoringInv, Scored, Judged, TargetsHold
<1> QED  BY <1>13, <1>14

LEMMA StepScoring == ScoringInv /\ [Next]_vars => ScoringInv'
<1> SUFFICES ASSUME ScoringInv, [Next]_vars  PROVE  ScoringInv'  OBVIOUS
<1>1. CASE \E fires \in PullRequests, config \in Configs : Event(fires, config)
  BY <1>1, EventScoring
<1>2. CASE Learner
  <2>1. PICK fit \in FitTables, spam \in Feedback, n \in 1 .. MaxHam : \E ham \in [1 .. n -> Feedback] : Learn(fit, <<spam>>, ham)
    BY <1>2 DEF Learner
  <2>2. PICK ham \in [1 .. n -> Feedback] : Learn(fit, <<spam>>, ham)  BY <2>1
  <2> QED  BY <2>2, LearnScoring
<1>3. CASE UNCHANGED vars
  BY <1>3 DEF vars, ScoringInv, Scored, Judged, TargetsHold
<1> QED  BY <1>1, <1>2, <1>3 DEF Next

\* Whatever is learned and whichever configurations are read, the weights are
\* signed and the verdict in force came about as process makes it.
THEOREM ScoringInvariant == Spec => []ScoringInv
BY InitScoring, StepScoring, PTL DEF Spec

\* What a scored verdict holds, in the types that the lemmas need.
LEMMA JudgedTypes ==
  ASSUME ScoringInv, Scored
  PROVE  /\ Judged /\ verdict.by \in Weights /\ verdict.fires \in Fires
         /\ verdict.score = Score(verdict.by, verdict.fires) /\ verdict.score \in Int
<1>1. Judged  BY DEF ScoringInv
<1>2. verdict.fires \in Fires  BY <1>1, StanceFires DEF Judged
<1> QED  BY <1>1, <1>2, ScoreIsClamped DEF Judged

-----------------------------------------------------------------------------
(* The theorems *)

\* Every variable of Scoring has its type, and a verdict's tier is that of its
\* score under the overridden thresholds (pipeline.rs process, learn.rs).
THEOREM ScoringTypes == Spec => []TypeOK
<1>1. ScoringInv => TypeOK
  <2> SUFFICES ASSUME ScoringInv  PROVE  TypeOK  OBVIOUS
  <2>1. Scored => /\ verdict.fires \in Fires /\ verdict.config \in Configs /\ verdict.by \in Weights
                  /\ verdict.score \in Int
                  /\ verdict.tier = TierOf(verdict.by.thresholds, verdict.score)
    BY JudgedTypes DEF Judged
  <2> QED  BY <2>1 DEF TypeOK, ScoringInv, Scored
<1> QED  BY <1>1, ScoringInvariant, PTL

\* The evidence table that engine.rs scales down adds up to the score of the
\* model that fit.rs fits, for any rules, families, weights and cap.
THEOREM EvidenceAddsUp == Spec => []ScoredAsFitted
<1>1. ScoringInv => ScoredAsFitted
  <2> SUFFICES ASSUME ScoringInv, Scored
               PROVE  verdict.score = verdict.by.bias
                        + SumFunction([f \in Families |-> ClampedSum(verdict.by, verdict.fires, f)])
    BY DEF ScoredAsFitted
  <2> QED  BY JudgedTypes, ScoreIsClamped DEF Clamps
<1> QED  BY <1>1, ScoringInvariant, PTL

\* No capped family moves a score by more than the cap (engine.rs, score).
THEOREM FamiliesAreCapped == Spec => []FamilyMovesAtMostTheCap
<1>1. ScoringInv => FamilyMovesAtMostTheCap
  <2> SUFFICES ASSUME ScoringInv, Scored, verdict.by.family_cap # None, NEW f \in Families, Capped(f)
               PROVE  Abs(verdict.score - Score(verdict.by, Without(verdict.fires, Members(f)))) <= verdict.by.family_cap
    BY DEF FamilyMovesAtMostTheCap
  <2>1. verdict.score - Score(verdict.by, Without(verdict.fires, Members(f))) = ClampedSum(verdict.by, verdict.fires, f)
    BY JudgedTypes, OneFamilyMoves
  <2> QED  BY <2>1, JudgedTypes, Clamped
<1> QED  BY <1>1, ScoringInvariant, PTL

\* Where AI is welcome, what only says that it was used moves no score, whatever
\* else its family holds and wherever the cap cuts (pipeline.rs, process).
THEOREM WelcomeIsBlind == Spec => []WelcomeIgnoresAi
<1>1. ScoringInv => WelcomeIgnoresAi
  <2> SUFFICES ASSUME ScoringInv, Scored, verdict.config.ai_policy = "welcome"
               PROVE  verdict.score = Score(verdict.by, Without(verdict.fires, AiStyle))
    BY DEF WelcomeIgnoresAi
  <2> DEFINE by    == verdict.by
             fires == verdict.fires
             rest  == Without(fires, AiStyle)
  <2>1. Judged /\ by \in Weights /\ fires \in Fires /\ verdict.score = Score(by, fires)  BY JudgedTypes
  <2>2. \A r \in AiStyle : by.rules[r] = 0  BY <2>1 DEF Judged
  <2>3. Priced(by, rest) = Priced(by, fires)
    <3> SUFFICES ASSUME NEW r \in Rules  PROVE  by.rules[r] * rest[r] = by.rules[r] * fires[r]
      BY DEF Priced
    <3>1. fires[r] \in Int  BY <2>1, EngineAssumption DEF Fires
    <3>2. CASE r \in AiStyle
      <4>1. by.rules[r] = 0 /\ rest[r] = 0  BY <2>2, <3>2 DEF Without
      <4> HIDE DEF by, rest, fires
      <4> QED  BY <3>1, <4>1
    <3>3. CASE r \notin AiStyle  BY <3>3 DEF Without
    <3> QED  BY <3>2, <3>3
  <2> HIDE DEF by, fires, rest
  <2>4. Evidence(by, rest) = Evidence(by, fires)  BY <2>3, Zenon DEF Evidence
  <2>5. Score(by, rest) = Score(by, fires)  BY <2>4, Zenon DEF Score
  <2> QED  BY <2>1, <2>5 DEF by, fires, rest
<1> QED  BY <1>1, ScoringInvariant, PTL

\* On the negatives that they were set on, the thresholds of a learned table
\* keep every tier's target (fit.rs, thresholds_from_negatives).
THEOREM LearnedTargetsHold == Spec => []TargetsHold
<1>1. ScoringInv => TargetsHold  BY DEF ScoringInv
<1> QED  BY <1>1, ScoringInvariant, PTL

\* What the stance adds keeps the order: fires that are worse are worse with it.
LEMMA StanceIsMonotonic ==
  ASSUME NEW a \in PullRequests, NEW b \in PullRequests, NEW ai_policy,
         AtLeastAsBad(WithStance(a, ai_policy), WithStance(b, ai_policy)),
         ai_policy = "disclose" => HasMarker(WithStance(a, ai_policy)) = HasMarker(WithStance(b, ai_policy))
  PROVE  Worse(WithStance(a, ai_policy), WithStance(b, ai_policy))
<1> DEFINE wa == WithStance(a, ai_policy)
           wb == WithStance(b, ai_policy)
<1>1. /\ a \in [Rules -> 0 .. Full] /\ b \in [Rules -> 0 .. Full]
      /\ wa \in [Rules -> 0 .. Full] /\ wb \in [Rules -> 0 .. Full] /\ Full \in Nat \ {0}
  BY ScoringAssumption, EngineAssumption, StanceFires DEF Fires
<1>2. /\ Undisclosed \in Rules /\ Forbidden \in Rules
      /\ a[Undisclosed] = 0 /\ a[Forbidden] = 0 /\ b[Undisclosed] = 0 /\ b[Forbidden] = 0
  BY ScoringAssumption
<1>3. /\ \A r \in Rules \ {Undisclosed, Forbidden} : wa[r] = a[r] /\ wb[r] = b[r]
      /\ Undisclosed \notin Markers /\ Forbidden \notin Markers /\ Markers \subseteq Rules
      /\ Detector \in Rules \ {Undisclosed, Forbidden}
  BY <1>1, ScoringAssumption DEF WithStance, Hit
<1>4. \A r \in Markers : wa[r] = a[r] /\ wb[r] = b[r]  BY <1>3
<1>5. HasMarker(wa) = HasMarker(a) /\ HasMarker(wb) = HasMarker(b)  BY <1>4 DEF HasMarker
<1>6. ~Exonerating(Family[Undisclosed]) /\ ~Exonerating(Family[Forbidden])
  BY ScoringAssumption DEF Exonerating
<1>7. a[Detector] >= b[Detector]
  <2>1. ~Exonerating(Family[Detector])  BY ScoringAssumption DEF Exonerating
  <2> QED  BY <1>3, <2>1 DEF AtLeastAsBad
<1>8. HasMarker(b) => HasMarker(a)
  <2> SUFFICES ASSUME NEW r \in Markers, b[r] > 0  PROVE  a[r] > 0  BY DEF HasMarker
  <2>1. ~Exonerating(Family[r])  BY ScoringAssumption DEF Exonerating
  <2>2. a[r] >= b[r]  BY <1>3, <1>4, <2>1 DEF AtLeastAsBad
  <2>3. a[r] \in Int /\ b[r] \in Int  BY <1>1, <1>3
  <2> QED  BY <2>2, <2>3
<1>9. ASSUME NEW r \in {Undisclosed, Forbidden}  PROVE  wa[r] >= wb[r]
  <2>1. wa[r] \in 0 .. Full /\ wb[r] \in 0 .. Full  BY <1>1, <1>2
  <2>2. CASE wb[r] = 0  BY <2>1, <2>2
  <2>3. CASE wb[r] # 0 /\ ai_policy = "disclose"
    <3>1. ~HasMarker(b) /\ b[Detector] >= Suspect /\ r = Undisclosed  BY <1>1, <1>2, <2>3 DEF WithStance, Hit
    <3>2. ~HasMarker(a)  BY <1>5, <2>3, <3>1
    <3>3. a[Detector] >= Suspect  BY <1>1, <1>3, <1>7, <3>1, ScoringAssumption
    <3>4. wa[r] = Full  BY <1>1, <1>2, <2>3, <3>1, <3>2, <3>3 DEF WithStance, Hit
    <3> QED  BY <2>1, <3>4
  <2>4. CASE wb[r] # 0 /\ ai_policy # "disclose"
    <3>1. ai_policy = "forbid" /\ HasMarker(b) /\ r = Forbidden  BY <1>1, <1>2, <2>4 DEF WithStance, Hit
    <3>2. wa[r] = Full  BY <1>1, <1>2, <1>8, <2>4, <3>1 DEF WithStance, Hit
    <3> QED  BY <2>1, <3>2
  <2> QED  BY <2>2, <2>3, <2>4
<1> HIDE DEF wa, wb
<1>10. \A r \in Rules \ {Undisclosed, Forbidden} :
         IF Exonerating(Family[r]) THEN wa[r] <= wb[r] ELSE wa[r] >= wb[r]
  BY DEF AtLeastAsBad, wa, wb
<1>11. Worse(wa, wb)  BY <1>6, <1>9, <1>10 DEF Worse
<1> QED  BY <1>11 DEF wa, wb

\* A rescore that finds more against the author, or less in favour, ends in no
\* milder tier, under whatever was learned and whatever is overridden.
THEOREM EvidenceNeverHelps == Spec => MoreEvidenceNeverHelps
<1> DEFINE Rescored == /\ Scored /\ verdict'.outcome = "scored"
                       /\ verdict'.config = verdict.config /\ verdict'.by = verdict.by
                       /\ AtLeastAsBad(verdict'.fires, verdict.fires)
                       /\ verdict.config.ai_policy = "disclose" => HasMarker(verdict'.fires) = HasMarker(verdict.fires)
<1>1. ASSUME ScoringInv, ScoringInv', Rescored  PROVE  Severity(verdict'.tier) >= Severity(verdict.tier)
  <2> DEFINE by   == verdict.by
             new  == verdict'.fires
             old  == verdict.fires
             kind == verdict.config.ai_policy
  <2>1. Judged /\ by \in Weights /\ old \in Fires /\ verdict.score = Score(by, old) /\ verdict.score \in Int
    BY <1>1, JudgedTypes
  <2>2. Judged' /\ new \in Fires /\ verdict'.score = Score(by, new)
    <3>1. Judged'  BY <1>1 DEF ScoringInv, Scored
    <3>2. new \in Fires  BY <3>1, StanceFires DEF Judged
    <3> QED  BY <1>1, <3>1, <3>2 DEF Judged
  <2>3. PICK b \in PullRequests : old = WithStance(b, kind)  BY <2>1 DEF Judged
  <2>4. PICK a \in PullRequests : new = WithStance(a, kind)  BY <1>1, <2>2 DEF Judged
  <2>5. Worse(new, old)
    <3>1. AtLeastAsBad(WithStance(a, kind), WithStance(b, kind))  BY <1>1, <2>3, <2>4
    <3>2. kind = "disclose" => HasMarker(WithStance(a, kind)) = HasMarker(WithStance(b, kind))
      BY <1>1, <2>3, <2>4
    <3> HIDE DEF kind
    <3>3. Worse(WithStance(a, kind), WithStance(b, kind))  BY <3>1, <3>2, StanceIsMonotonic
    <3> QED  BY <2>3, <2>4, <3>3
  <2>6. Score(by, new) >= Score(by, old)  BY <2>1, <2>2, <2>5, ScoreIsMonotonic DEF Judged
  <2>7. by.thresholds \in Thresholds /\ Score(by, old) \in Int /\ Score(by, new) \in Int
    BY <2>1, <2>2, ScoreIsClamped DEF Weights
  <2>8. Severity(TierOf(by.thresholds, Score(by, old))) <= Severity(TierOf(by.thresholds, Score(by, new)))
    BY <2>6, <2>7, TierIsMonotonic
  <2>9. /\ verdict.tier = TierOf(by.thresholds, Score(by, old))
        /\ verdict'.tier = TierOf(by.thresholds, Score(by, new))
    BY <1>1, <2>1, <2>2 DEF Judged
  <2>10. \A s \in Int : \A u \in {"pass", "label", "hold", "close"} : Severity(u) \in Int  BY DEF Severity
  <2>11. \A s : TierOf(by.thresholds, s) \in {"pass", "label", "hold", "close"}  BY DEF TierOf
  <2> QED  BY <2>8, <2>9, <2>10, <2>11
<1>2. ScoringInv /\ ScoringInv' => (Rescored => Severity(verdict'.tier) >= Severity(verdict.tier))  BY <1>1
<1>3. Spec => [][Rescored => Severity(verdict'.tier) >= Severity(verdict.tier)]_vars
  BY <1>2, ScoringInvariant, PTL
<1> QED  BY <1>3 DEF MoreEvidenceNeverHelps
=============================================================================
