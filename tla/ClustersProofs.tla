--------------------------- MODULE ClustersProofs ---------------------------
(***************************************************************************)
(* That the cluster stores keep connected components, for any signatures,  *)
(* any number of handlers and any order of arrivals: the union-find with   *)
(* path halving and its two indexes implement Campaigns.                   *)
(*                                                                         *)
(* The loops of the code are folds.  What a fold computes is proved here   *)
(* by least counterexamples and by induction over finite subsets, in forms *)
(* that speak of sets alone: the induction theorems of the library take a  *)
(* predicate as an operator, which the provers cannot instantiate.         *)
(***************************************************************************)
EXTENDS Clusters, FiniteSetTheorems, SequenceTheorems, WellFoundedInduction, TLAPS

\* A nonempty set of natural numbers has a least element.
LEMMA LeastNatural ==
  ASSUME NEW T, T \subseteq Nat, T # {}
  PROVE  \E n \in T : \A m \in T : n <= m
<1>1. IsWellFoundedOn(OpToRel(<, Nat), Nat)  BY NatLessThanWellFounded
<1>2. PICK n \in T : \A m \in T : <<m, n>> \notin OpToRel(<, Nat)  BY <1>1, WFMin
<1>3. \A m \in T : ~ m < n  BY <1>2 DEF OpToRel
<1> QED  BY <1>3

-----------------------------------------------------------------------------
(* Folds *)

\* pick takes an element out of every set to fold; g is the fold of step over
\* the subsets of D.
Picks(pick, D) == \A s \in SUBSET D : s # {} => pick[s] \in s

Folds(g, D, base, step, pick) ==
  \A s \in SUBSET D : g[s] = IF s = {} THEN base ELSE step[<<g[s \ {pick[s]}], pick[s]>>]

\* Over a finite set there is a fold, and its values are in State when the
\* steps lead from State to State.
LEMMA FoldExists ==
  ASSUME NEW D, IsFiniteSet(D), NEW State, NEW base \in State, NEW step \in [State \X D -> State],
         NEW pick, Picks(pick, D)
  PROVE  \E g \in [SUBSET D -> State] : Folds(g, D, base, step, pick)
<1> USE DEF Picks
<1> DEFINE Small(n) == {s \in SUBSET D : Cardinality(s) <= n}
           Body(g, s) == IF s = {} THEN base ELSE step[<<g[s \ {pick[s]}], pick[s]>>]
           Exists(n) == \E g \in [Small(n) -> State] : g = [s \in Small(n) |-> Body(g, s)]
           Fails == {n \in Nat : ~Exists(n)}
<1>1. \A s \in SUBSET D : IsFiniteSet(s) /\ Cardinality(s) \in Nat /\ (Cardinality(s) = 0 <=> s = {})
  BY FS_Subset, FS_CardinalityType, FS_EmptySet
<1>2. \A s \in SUBSET D : s # {} => /\ pick[s] \in D /\ s \ {pick[s]} \in SUBSET D
                                    /\ Cardinality(s \ {pick[s]}) = Cardinality(s) - 1
  BY <1>1, FS_RemoveElement
<1>3. Exists(0)
  <2>1. \A s \in Small(0) : s = {}  BY <1>1
  <2> DEFINE g == [s \in Small(0) |-> base]
  <2>2. g \in [Small(0) -> State] /\ g = [s \in Small(0) |-> Body(g, s)]  BY <2>1
  <2> QED  BY <2>2
<1>4. ASSUME NEW n \in Nat, Exists(n)  PROVE  Exists(n + 1)
  <2>1. PICK g \in [Small(n) -> State] : g = [s \in Small(n) |-> Body(g, s)]  BY <1>4
  <2> DEFINE h == [s \in Small(n + 1) |-> Body(g, s)]
  <2>2. \A s \in Small(n + 1) : s # {} => s \ {pick[s]} \in Small(n)  BY <1>1, <1>2
  <2>3. \A s \in Small(n + 1) : h[s] \in State
    <3> SUFFICES ASSUME NEW s \in Small(n + 1), s # {}  PROVE  Body(g, s) \in State  OBVIOUS
    <3>1. g[s \ {pick[s]}] \in State /\ pick[s] \in D  BY <2>2, <1>2
    <3> QED  BY <3>1
  <2>4. \A s \in Small(n) : h[s] = g[s]
    <3>1. Small(n) \subseteq Small(n + 1)  BY <1>1
    <3>2. \A s \in Small(n) : g[s] = Body(g, s)  BY <2>1
    <3> QED  BY <3>1, <3>2
  <2>5. \A s \in Small(n + 1) : h[s] = Body(h, s)
    <3> SUFFICES ASSUME NEW s \in Small(n + 1), s # {}
                 PROVE  h[s] = step[<<h[s \ {pick[s]}], pick[s]>>]  OBVIOUS
    <3>1. h[s \ {pick[s]}] = g[s \ {pick[s]}]  BY <2>2, <2>4
    <3>2. h[s] = step[<<g[s \ {pick[s]}], pick[s]>>]  OBVIOUS
    <3> QED  BY <3>1, <3>2
  <2>6. h \in [Small(n + 1) -> State]  BY <2>3
  <2>7. h = [s \in Small(n + 1) |-> Body(h, s)]  BY <2>5
  <2> HIDE DEF h
  <2> QED  BY <2>6, <2>7
<1> HIDE DEF Exists
<1>5. Fails = {}
  <2> SUFFICES ASSUME Fails # {}  PROVE  FALSE  OBVIOUS
  <2>1. PICK n \in Fails : \A m \in Fails : n <= m  BY LeastNatural
  <2>2. n # 0  BY <1>3, <2>1
  <2>3. n - 1 \in Nat /\ n - 1 \notin Fails  BY <2>1, <2>2
  <2>4. Exists(n - 1)  BY <2>3
  <2>5. Exists((n - 1) + 1)  BY <2>3, <2>4, <1>4
  <2> QED  BY <2>1, <2>5
<1>6. Small(Cardinality(D)) = SUBSET D  BY <1>1, FS_Subset
<1> HIDE DEF Small
<1>7. Exists(Cardinality(D))  BY <1>5, <1>1
<1> QED  BY <1>6, <1>7 DEF Exists, Folds

\* Induction over the subsets of a finite set S: a collection C of them that
\* has a subset whenever it has those with one element less has them all.
LEMMA Subsets ==
  ASSUME NEW S, IsFiniteSet(S), NEW C, {} \in C,
         \A T \in SUBSET S : T # {} /\ (\A x \in T : T \ {x} \in C) => T \in C
  PROVE  SUBSET S \subseteq C
<1> DEFINE Bad   == {T \in SUBSET S : T \notin C}
           Sizes == {Cardinality(T) : T \in Bad}
<1>1. \A T \in SUBSET S : IsFiniteSet(T) /\ Cardinality(T) \in Nat  BY FS_Subset, FS_CardinalityType
<1>2. Sizes \subseteq Nat  BY <1>1
<1>3. Sizes = {}
  <2> SUFFICES ASSUME Sizes # {}  PROVE  FALSE  OBVIOUS
  <2>1. PICK n \in Sizes : \A m \in Sizes : n <= m
    <3> HIDE DEF Sizes
    <3> QED  BY <1>2, LeastNatural
  <2>2. PICK T \in Bad : Cardinality(T) = n  BY <2>1
  <2>3. ASSUME NEW x \in T  PROVE  T \ {x} \in C
    <3>1. Cardinality(T \ {x}) = n - 1  BY <1>1, <2>2, FS_RemoveElement
    <3>2. n - 1 \notin Sizes
      <4> HIDE DEF Sizes
      <4> QED  BY <1>2, <2>1
    <3> QED  BY <3>1, <3>2
  <2> QED  BY <2>2, <2>3
<1> QED  BY <1>3

\* FoldLeft takes the greatest index out: the prefixes of a sequence remain.
LEMMA LastOfPrefix ==
  /\ \A k \in Nat \ {0} : Max(1 .. k) = k /\ (1 .. k) \ {k} = 1 .. k - 1
  /\ \A n \in Nat : \A s \in SUBSET (1 .. n) : s # {} => Max(s) \in s
<1>1. ASSUME NEW k \in Nat \ {0}  PROVE  Max(1 .. k) = k /\ (1 .. k) \ {k} = 1 .. k - 1
  BY DEF Max
<1>2. ASSUME NEW n \in Nat, NEW s \in SUBSET (1 .. n), s # {}  PROVE  Max(s) \in s
  <2> DEFINE Room == {m \in Nat : \A i \in s : i <= m}
  <2>1. n \in Room  OBVIOUS
  <2>2. PICK m \in Room : \A k \in Room : m <= k  BY <2>1, LeastNatural
  <2>3. m \in s
    <3> PICK x \in s : TRUE  BY <1>2
    <3>1. m # 0  BY <2>2
    <3>2. CASE m \notin s
      <4>1. \A i \in s : i <= m - 1  BY <2>2, <3>2
      <4>2. m - 1 \in Room  BY <2>2, <3>1, <4>1
      <4> QED  BY <2>2, <4>2
    <3> QED  BY <3>2
  <2>4. \E x \in s : \A y \in s : x >= y  BY <2>2, <2>3
  <2> QED  BY <2>4 DEF Max
<1> QED  BY <1>1, <1>2

\* Induction up to N, over a set C of numbers.
LEMMA Upward ==
  ASSUME NEW N \in Nat, NEW C, 0 \in C, \A k \in 1 .. N : k - 1 \in C => k \in C
  PROVE  N \in C
<1> DEFINE Bad == {k \in 0 .. N : k \notin C}
<1>1. Bad = {}
  <2> SUFFICES ASSUME Bad # {}  PROVE  FALSE  OBVIOUS
  <2>1. PICK k \in Bad : \A m \in Bad : k <= m
    <3>1. Bad \subseteq Nat  OBVIOUS
    <3> HIDE DEF Bad
    <3> QED  BY <3>1, LeastNatural
  <2>2. k \in 1 .. N /\ k - 1 \in 0 .. N /\ k - 1 \notin Bad  BY <2>1
  <2> QED  BY <2>1, <2>2
<1> QED  BY <1>1

\* The fold along 1 .. N that FoldLeft makes, by steps within State.
Along(g, N, State, base, step) ==
  /\ g \in [SUBSET (1 .. N) -> State]
  /\ \A s \in SUBSET (1 .. N) :
       /\ s = {} => g[s] = base
       /\ s # {} => /\ Max(s) \in 1 .. N /\ g[s \ {Max(s)}] \in State
                    /\ g[s] = step[<<g[s \ {Max(s)}], Max(s)>>]

LEMMA AlongExists ==
  ASSUME NEW N \in Nat, NEW State, NEW base \in State, NEW step \in [State \X (1 .. N) -> State]
  PROVE  \E g : Along(g, N, State, base, step)
<1> DEFINE pick == [s \in SUBSET (1 .. N) |-> Max(s)]
<1>2. \A s \in SUBSET (1 .. N) : pick[s] = Max(s)  OBVIOUS
<1> HIDE DEF pick
<1>0. \A s \in SUBSET (1 .. N) : s # {} => Max(s) \in s  BY LastOfPrefix
<1>1. Picks(pick, 1 .. N) /\ IsFiniteSet(1 .. N)
  <2>1. Picks(pick, 1 .. N)  BY <1>0, <1>2 DEF Picks
  <2>2. IsFiniteSet(1 .. N)  BY FS_Interval
  <2> QED  BY <2>1, <2>2
<1>3. PICK g \in [SUBSET (1 .. N) -> State] : Folds(g, 1 .. N, base, step, pick)  BY <1>1, FoldExists
<1>4. ASSUME NEW s \in SUBSET (1 .. N), s # {}
      PROVE  /\ Max(s) \in 1 .. N /\ g[s \ {Max(s)}] \in State
             /\ g[s] = step[<<g[s \ {Max(s)}], Max(s)>>]
  <2>1. pick[s] = Max(s) /\ Max(s) \in s  BY <1>1, <1>2, <1>4 DEF Picks
  <2>2. g[s] = step[<<g[s \ {pick[s]}], pick[s]>>]  BY <1>3, <1>4 DEF Folds
  <2> QED  BY <2>1, <2>2
<1>5. \A s \in SUBSET (1 .. N) : s = {} => g[s] = base  BY <1>3 DEF Folds
<1> QED  BY <1>4, <1>5 DEF Along

-----------------------------------------------------------------------------
(* The forest *)

\* p is a forest over the first n entries in which the root of x is rep[x]; the
\* way to the root goes down in depth.
Labelled(p, n, rep, depth) ==
  /\ p \in [1 .. n -> 1 .. n] /\ rep \in [1 .. n -> 1 .. n] /\ depth \in [1 .. n -> Nat]
  /\ \A x \in 1 .. n : /\ rep[p[x]] = rep[x] /\ p[rep[x]] = rep[x]
                       /\ p[x] = x => rep[x] = x
                       /\ p[x] # x => depth[p[x]] < depth[x]

\* Depths can be counted off: fewer than n are enough.
LEMMA FewDepths ==
  ASSUME NEW n \in Nat, NEW p, NEW rep, NEW depth, Labelled(p, n, rep, depth)
  PROVE  \E few \in [1 .. n -> Nat] : Labelled(p, n, rep, few) /\ \A x \in 1 .. n : few[x] < n
<1> DEFINE Below(x) == {y \in 1 .. n : depth[y] < depth[x]}
           few == [x \in 1 .. n |-> Cardinality(Below(x))]
<1>1. IsFiniteSet(1 .. n) /\ Cardinality(1 .. n) = n  BY FS_Interval
<1>2. depth \in [1 .. n -> Nat]  BY DEF Labelled
<1>3. \A x \in 1 .. n : Below(x) \subseteq (1 .. n) \ {x}  BY <1>2
<1>4. \A x \in 1 .. n : IsFiniteSet(Below(x)) /\ Cardinality(Below(x)) \in Nat
  BY <1>1, <1>3, FS_Subset, FS_CardinalityType
<1>5. \A x \in 1 .. n : Cardinality(Below(x)) < n
  <2> SUFFICES ASSUME NEW x \in 1 .. n  PROVE  Cardinality(Below(x)) < n  OBVIOUS
  <2>1. IsFiniteSet((1 .. n) \ {x}) /\ Cardinality((1 .. n) \ {x}) = n - 1  BY <1>1, FS_RemoveElement
  <2>2. Cardinality(Below(x)) <= n - 1  BY <1>3, <2>1, FS_Subset
  <2> HIDE DEF Below
  <2> QED  BY <1>4, <2>2
<1>6. ASSUME NEW x \in 1 .. n, NEW y \in 1 .. n, depth[y] < depth[x]  PROVE  Cardinality(Below(y)) < Cardinality(Below(x))
  <2>1. y \in Below(x) /\ Below(y) \subseteq Below(x) \ {y}  BY <1>2, <1>6
  <2>2. IsFiniteSet(Below(x) \ {y}) /\ Cardinality(Below(x) \ {y}) = Cardinality(Below(x)) - 1
    <3> HIDE DEF Below
    <3> QED  BY <1>4, <2>1, FS_RemoveElement
  <2>3. Cardinality(Below(y)) <= Cardinality(Below(x)) - 1
    <3> HIDE DEF Below
    <3> QED  BY <2>1, <2>2, FS_Subset
  <2> HIDE DEF Below
  <2> QED  BY <1>4, <2>3
<1> HIDE DEF Below
<1>7. few \in [1 .. n -> Nat] /\ \A x \in 1 .. n : few[x] < n  BY <1>4, <1>5
<1>8. \A x \in 1 .. n : p[x] # x => few[p[x]] < few[x]  BY <1>6 DEF Labelled
<1> HIDE DEF few
<1>9. Labelled(p, n, rep, few)  BY <1>7, <1>8 DEF Labelled
<1> QED  BY <1>7, <1>9

\* A round of find's loop keeps the forest and its roots, and ends at the root
\* or goes down in depth.
LEMMA HalvedIs ==
  ASSUME NEW n \in Nat, NEW w \in [root : 1 .. n, parent : [1 .. n -> 1 .. n]], NEW rep, NEW depth,
         Labelled(w.parent, n, rep, depth)
  PROVE  /\ Halved(w) \in [root : 1 .. n, parent : [1 .. n -> 1 .. n]]
         /\ Labelled(Halved(w).parent, n, rep, depth)
         /\ rep[Halved(w).root] = rep[w.root]
         /\ \/ w.parent[w.root] = w.root /\ Halved(w) = w
            \/ depth[Halved(w).root] < depth[w.root]
<1> DEFINE p == w.parent
           r == w.root
           grand == p[p[r]]
           halved == [p EXCEPT ![r] = grand]
<1>1. CASE p[r] = r
  BY <1>1 DEF Halved
<1>2. CASE p[r] # r
  <2>1. Halved(w) = [root |-> grand, parent |-> halved]  BY <1>2 DEF Halved
  <2>2. /\ p \in [1 .. n -> 1 .. n] /\ rep \in [1 .. n -> 1 .. n] /\ depth \in [1 .. n -> Nat]
        /\ r \in 1 .. n /\ p[r] \in 1 .. n /\ grand \in 1 .. n
    BY DEF Labelled
  <2>3. \A x \in 1 .. n : /\ rep[p[x]] = rep[x] /\ p[rep[x]] = rep[x] /\ rep[x] \in 1 .. n
                          /\ p[x] = x => rep[x] = x
                          /\ p[x] # x => depth[p[x]] < depth[x]
    BY <2>2 DEF Labelled
  <2>4. rep[grand] = rep[r] /\ depth[grand] < depth[r]
    <3> DEFINE up == p[r]
    <3>1. up \in 1 .. n /\ up # r /\ grand = p[up]  BY <1>2, <2>2
    <3>2. depth[up] < depth[r] /\ rep[up] = rep[r]  BY <1>2, <2>2, <2>3
    <3>3. rep[grand] = rep[up] /\ (grand = up \/ depth[grand] < depth[up])  BY <2>3, <3>1
    <3>4. depth[up] \in Nat /\ depth[grand] \in Nat /\ depth[r] \in Nat  BY <2>2, <3>1
    <3> HIDE DEF grand, up
    <3> QED  BY <3>2, <3>3, <3>4
  <2>5. halved \in [1 .. n -> 1 .. n] /\ \A x \in 1 .. n : halved[x] = IF x = r THEN grand ELSE p[x]
    BY <2>2
  <2> HIDE DEF halved, grand
  <2>6. ASSUME NEW x \in 1 .. n
        PROVE  /\ rep[halved[x]] = rep[x] /\ halved[rep[x]] = rep[x]
               /\ halved[x] = x => rep[x] = x
               /\ halved[x] # x => depth[halved[x]] < depth[x]
    <3>1. rep[x] # r /\ rep[x] \in 1 .. n  BY <1>2, <2>3
    <3>2. halved[rep[x]] = rep[x]  BY <2>3, <2>5, <3>1
    <3>3. CASE x = r
      <4>1. halved[x] = grand /\ grand # r  BY <2>2, <2>4, <2>5, <3>3
      <4> QED  BY <2>4, <3>2, <3>3, <4>1
    <3>4. CASE x # r
      <4>1. halved[x] = p[x]  BY <2>5, <3>4
      <4> QED  BY <2>3, <3>2, <4>1
    <3> QED  BY <3>3, <3>4
  <2>7. Labelled(halved, n, rep, depth)  BY <2>2, <2>5, <2>6 DEF Labelled
  <2>8. Halved(w).root = grand /\ Halved(w).parent = halved  BY <2>1
  <2> QED  BY <2>1, <2>2, <2>4, <2>5, <2>7, <2>8
<1> QED  BY <1>1, <1>2

Forest(p, n, rep) == \E depth \in [1 .. n -> Nat] : Labelled(p, n, rep, depth)

\* find returns the root, and halves the path without moving a node to another tree.
LEMMA FindIs ==
  ASSUME NEW n \in Nat, NEW p, NEW rep, Forest(p, n, rep), NEW x \in 1 .. n
  PROVE  Find(p, x).root = rep[x] /\ Forest(Find(p, x).parent, n, rep)
<1> DEFINE Walks == [root : 1 .. n, parent : [1 .. n -> 1 .. n]]
           base  == [root |-> x, parent |-> p]
<1>1. PICK depth \in [1 .. n -> Nat] : Labelled(p, n, rep, depth) /\ \A y \in 1 .. n : depth[y] < n
  BY FewDepths DEF Forest
<1>2. p \in [1 .. n -> 1 .. n] /\ DOMAIN p = 1 .. n /\ rep \in [1 .. n -> 1 .. n]  BY <1>1 DEF Labelled
<1> DEFINE State == {w \in Walks : Labelled(w.parent, n, rep, depth)}
           Body(g, s) == IF s = {} THEN base ELSE Halved(g[s \ {Max(s)}])
           it == CHOOSE g : g = [s \in SUBSET (1 .. n) |-> Body(g, s)]
<1>3. Find(p, x) = it[1 .. n]  BY <1>2 DEF Find, FoldLeft, MapThenFoldSet
<1>4. base \in State  BY <1>1, <1>2
<1>5. \A w \in State : Halved(w) \in State  BY HalvedIs
<1>6. \E g : g = [s \in SUBSET (1 .. n) |-> Body(g, s)]
  <2> DEFINE step == [q \in State \X (1 .. n) |-> Halved(q[1])]
  <2>1. step \in [State \X (1 .. n) -> State]
    <3> HIDE DEF State
    <3> QED  BY <1>5
  <2> HIDE DEF State, base
  <2>2. \A w \in State, k \in 1 .. n : step[<<w, k>>] = Halved(w)  OBVIOUS
  <2> HIDE DEF step
  <2>3. PICK g : Along(g, n, State, base, step)  BY <2>1, <1>4, AlongExists
  <2>4. \A s \in SUBSET (1 .. n) : g[s] = Body(g, s)  BY <2>2, <2>3 DEF Along
  <2>5. g = [s \in SUBSET (1 .. n) |-> Body(g, s)]  BY <2>3, <2>4 DEF Along
  <2> QED  BY <2>5
<1>7. it = [s \in SUBSET (1 .. n) |-> Body(it, s)]  BY <1>6
<1> HIDE DEF it
<1>8. it[1 .. 0] = base
  <2>1. 1 .. 0 = {} /\ {} \in SUBSET (1 .. n)  OBVIOUS
  <2> QED  BY <1>7, <2>1
<1>9. \A k \in 1 .. n : it[1 .. k] = Halved(it[1 .. k - 1])
  <2> SUFFICES ASSUME NEW k \in 1 .. n  PROVE  it[1 .. k] = Halved(it[1 .. k - 1])  OBVIOUS
  <2>1. Max(1 .. k) = k /\ (1 .. k) \ {k} = 1 .. k - 1  BY LastOfPrefix
  <2>2. 1 .. k \in SUBSET (1 .. n) /\ k \in 1 .. k  OBVIOUS
  <2> QED  BY <1>7, <2>1, <2>2
<1> DEFINE Walk(k) == /\ it[1 .. k] \in State
                      /\ rep[it[1 .. k].root] = rep[x]
                      /\ \/ it[1 .. k].parent[it[1 .. k].root] = it[1 .. k].root
                         \/ depth[it[1 .. k].root] + k < n
           Good == {k \in 0 .. n : Walk(k)}
<1>10. Walk(0)
  <2>1. base.root = x /\ depth[x] \in Nat /\ depth[x] < n  BY <1>1
  <2> HIDE DEF State, base
  <2> QED  BY <1>4, <1>8, <2>1
<1>11. ASSUME NEW k \in 1 .. n, Walk(k - 1)  PROVE  Walk(k)
  <2> DEFINE w == it[1 .. k - 1]
             v == it[1 .. k]
  <2>1. v = Halved(w) /\ w \in State /\ v \in State  BY <1>5, <1>9, <1>11
  <2>2. /\ rep[v.root] = rep[w.root]
        /\ \/ w.parent[w.root] = w.root /\ v = w
           \/ depth[v.root] < depth[w.root]
    BY <2>1, HalvedIs
  <2>3. depth[v.root] \in Nat /\ depth[w.root] \in Nat  BY <2>1
  <2>4. CASE w.parent[w.root] = w.root
    <3>1. v = w  BY <2>1, <2>4 DEF Halved
    <3> QED  BY <2>1, <2>2, <3>1, <2>4, <1>11
  <2>5. CASE w.parent[w.root] # w.root
    <3>1. depth[v.root] < depth[w.root] /\ depth[w.root] + (k - 1) < n  BY <2>2, <2>5, <1>11
    <3>2. depth[v.root] + k < n  BY <2>3, <3>1
    <3> QED  BY <2>1, <2>2, <3>2, <1>11
  <2> QED  BY <2>4, <2>5
<1> HIDE DEF Walk
<1>12. n \in Good
  <2>1. 0 \in Good  BY <1>10
  <2>2. \A k \in 1 .. n : k - 1 \in Good => k \in Good  BY <1>11
  <2> HIDE DEF Good
  <2> QED  BY <2>1, <2>2, Upward
<1>13. Walk(n)  BY <1>12
<1> DEFINE w == it[1 .. n]
<1>14. w \in State /\ rep[w.root] = rep[x] /\ (w.parent[w.root] = w.root \/ depth[w.root] + n < n)
  BY <1>13 DEF Walk
<1>15. w.root \in 1 .. n /\ Labelled(w.parent, n, rep, depth) /\ depth[w.root] \in Nat  BY <1>14
<1>16. w.parent[w.root] = w.root  BY <1>14, <1>15
<1>17. rep[w.root] = w.root  BY <1>15, <1>16 DEF Labelled
<1> QED  BY <1>3, <1>14, <1>15, <1>17 DEF Forest

-----------------------------------------------------------------------------
(* Unions *)

\* The representatives when the trees of a and b have become one.
Merged(rep, n, a, b) == [x \in 1 .. n |-> IF rep[x] = rep[b] THEN rep[a] ELSE rep[x]]

LEMMA UnionIs ==
  ASSUME NEW n \in Nat, NEW p, NEW rep, Forest(p, n, rep), NEW a \in 1 .. n, NEW b \in 1 .. n
  PROVE  Forest(Union(p, a, b), n, Merged(rep, n, a, b))
<1> DEFINE fa == Find(p, a)
           fb == Find(fa.parent, b)
           ra == rep[a]
           rb == rep[b]
           q  == fb.parent
           u  == [q EXCEPT ![rb] = ra]
           joint == Merged(rep, n, a, b)
<1>1. fa.root = ra /\ Forest(fa.parent, n, rep)  BY FindIs
<1>2. fb.root = rb /\ Forest(q, n, rep)  BY <1>1, FindIs
<1>3. Union(p, a, b) = u  BY <1>1, <1>2 DEF Union
<1>4. PICK d \in [1 .. n -> Nat] : Labelled(q, n, rep, d)  BY <1>2 DEF Forest
<1> HIDE DEF fa, fb, q
<1>5. /\ q \in [1 .. n -> 1 .. n] /\ rep \in [1 .. n -> 1 .. n]
      /\ \A x \in 1 .. n : /\ rep[q[x]] = rep[x] /\ q[rep[x]] = rep[x]
                           /\ q[x] = x => rep[x] = x
                           /\ q[x] # x => d[q[x]] < d[x]
  BY <1>4 DEF Labelled
<1>6. \A x \in 1 .. n : rep[x] \in 1 .. n /\ q[x] \in 1 .. n /\ rep[rep[x]] = rep[x]  BY <1>5
<1>7. ra \in 1 .. n /\ rb \in 1 .. n /\ q[ra] = ra /\ q[rb] = rb /\ rep[ra] = ra /\ rep[rb] = rb  BY <1>5, <1>6
<1>8. joint \in [1 .. n -> 1 .. n] /\ \A x \in 1 .. n : joint[x] = IF rep[x] = rb THEN ra ELSE rep[x]
  BY <1>6, <1>7 DEF Merged
<1>9. u \in [1 .. n -> 1 .. n] /\ \A x \in 1 .. n : u[x] = IF x = rb THEN ra ELSE q[x]  BY <1>5, <1>7
<1> HIDE DEF u, joint
<1>10. CASE ra = rb
  <2>1. u = q  BY <1>5, <1>7, <1>9, <1>10
  <2>2. joint = rep  BY <1>5, <1>8, <1>10
  <2> QED  BY <1>2, <1>3, <2>1, <2>2 DEF joint
<1>11. CASE ra # rb
  <2> DEFINE deep == [x \in 1 .. n |-> IF rep[x] = rb THEN d[x] + d[ra] + 1 ELSE d[x]]
  <2>1. \A x \in 1 .. n : d[x] \in Nat  OBVIOUS
  <2>2. deep \in [1 .. n -> Nat] /\ \A x \in 1 .. n : deep[x] = IF rep[x] = rb THEN d[x] + d[ra] + 1 ELSE d[x]
    BY <2>1, <1>7
  <2> HIDE DEF deep
  <2>3. ASSUME NEW x \in 1 .. n
        PROVE  /\ joint[u[x]] = joint[x] /\ u[joint[x]] = joint[x]
               /\ u[x] = x => joint[x] = x
               /\ u[x] # x => deep[u[x]] < deep[x]
    <3>1. u[joint[x]] = joint[x]
      <4>1. joint[x] # rb /\ joint[x] \in 1 .. n /\ q[joint[x]] = joint[x]  BY <1>5, <1>7, <1>8, <1>11
      <4> QED  BY <1>9, <4>1
    <3>2. CASE x = rb
      <4>1. u[x] = ra /\ joint[x] = ra /\ joint[ra] = ra  BY <1>7, <1>8, <1>9, <1>11, <3>2
      <4>2. deep[ra] = d[ra] /\ deep[x] = d[x] + d[ra] + 1  BY <1>7, <1>11, <2>2, <3>2
      <4> QED  BY <1>7, <1>11, <2>1, <3>1, <3>2, <4>1, <4>2
    <3>3. CASE x # rb
      <4>1. u[x] = q[x] /\ rep[q[x]] = rep[x] /\ q[x] \in 1 .. n  BY <1>5, <1>6, <1>9, <3>3
      <4>2. joint[u[x]] = joint[x]  BY <1>8, <4>1
      <4>3. u[x] = x => joint[x] = x  BY <1>5, <1>8, <3>3, <4>1
      <4>4. u[x] # x => deep[u[x]] < deep[x]
        <5>1. u[x] # x => d[q[x]] < d[x]  BY <1>5, <4>1
        <5>2. d[q[x]] \in Nat /\ d[x] \in Nat /\ d[ra] \in Nat  BY <2>1, <1>7, <4>1
        <5>3. CASE rep[x] = rb
          <6>1. deep[u[x]] = d[q[x]] + d[ra] + 1 /\ deep[x] = d[x] + d[ra] + 1  BY <2>2, <4>1, <5>3
          <6> QED  BY <5>1, <5>2, <6>1
        <5>4. CASE rep[x] # rb
          <6>1. deep[u[x]] = d[q[x]] /\ deep[x] = d[x]  BY <2>2, <4>1, <5>4
          <6> QED  BY <5>1, <6>1
        <5> QED  BY <5>3, <5>4
      <4> QED  BY <3>1, <4>2, <4>3, <4>4
    <3> QED  BY <3>2, <3>3
  <2>4. Labelled(u, n, joint, deep)  BY <1>8, <1>9, <2>2, <2>3 DEF Labelled
  <2>5. Forest(u, n, joint)  BY <2>2, <2>4 DEF Forest
  <2> QED  BY <1>3, <2>5 DEF joint
<1> QED  BY <1>10, <1>11

\* S has whole trees.
Saturated(S, rep, n) == \A x, y \in 1 .. n : x \in S /\ rep[x] = rep[y] => y \in S

\* rep2 joins the trees of the hits to that of id, and no others.
Joins(rep, rep2, n, hits, id) ==
  /\ \A x, y \in 1 .. n : rep[x] = rep[y] => rep2[x] = rep2[y]
  /\ \A h \in hits : rep2[h] = rep2[id]
  /\ \A S \in SUBSET (1 .. n) :
       Saturated(S, rep, n) /\ (\A h \in hits : h \in S <=> id \in S) => Saturated(S, rep2, n)

LEMMA MergedJoins ==
  ASSUME NEW n \in Nat, NEW rep, NEW rep1, NEW hits \in SUBSET (1 .. n), NEW id \in 1 .. n, NEW a \in hits,
         Joins(rep, rep1, n, hits \ {a}, id)
  PROVE  Joins(rep, Merged(rep1, n, a, id), n, hits, id)
<1> DEFINE rep2 == Merged(rep1, n, a, id)
<1>1. \A x \in 1 .. n : rep2[x] = IF rep1[x] = rep1[id] THEN rep1[a] ELSE rep1[x]  BY DEF Merged
<1> HIDE DEF rep2
<1>2. a \in 1 .. n /\ \A h \in hits : h \in 1 .. n  OBVIOUS
<1>3. \A x, y \in 1 .. n : rep1[x] = rep1[y] => rep2[x] = rep2[y]  BY <1>1
<1>4. \A x, y \in 1 .. n : rep[x] = rep[y] => rep2[x] = rep2[y]  BY <1>3 DEF Joins
<1>5. rep2[a] = rep2[id]  BY <1>1, <1>2
<1>6. ASSUME NEW h \in hits  PROVE  rep2[h] = rep2[id]
  <2>1. CASE h = a  BY <1>5, <2>1
  <2>2. CASE h # a
    <3>1. rep1[h] = rep1[id]  BY <2>2 DEF Joins
    <3> QED  BY <1>2, <1>3, <3>1
  <2> QED  BY <2>1, <2>2
<1>7. ASSUME NEW S \in SUBSET (1 .. n), Saturated(S, rep, n), \A h \in hits : h \in S <=> id \in S
      PROVE  Saturated(S, rep2, n)
  <2>1. Saturated(S, rep1, n)  BY <1>7 DEF Joins
  <2>2. a \in S <=> id \in S  BY <1>7
  <2> SUFFICES ASSUME NEW x \in 1 .. n, NEW y \in 1 .. n, x \in S, rep2[x] = rep2[y]  PROVE  y \in S
    BY DEF Saturated
  <2>3. \A u, v \in 1 .. n : u \in S /\ rep1[u] = rep1[v] => v \in S  BY <2>1 DEF Saturated
  <2>4. CASE rep1[x] = rep1[y]  BY <2>3, <2>4
  <2>5. CASE rep1[x] # rep1[y]
    <3>1. \/ rep1[x] = rep1[id] /\ rep1[y] = rep1[a]
          \/ rep1[y] = rep1[id] /\ rep1[x] = rep1[a]
      BY <1>1, <2>5
    <3> QED  BY <1>2, <2>2, <2>3, <3>1
  <2> QED  BY <2>4, <2>5
<1>8. Joins(rep, rep2, n, hits, id)  BY <1>4, <1>6, <1>7 DEF Joins
<1> QED  BY <1>8 DEF rep2

\* q is a forest in which the hits and id are joined.
Joined(q, n, rep, hits, id) == \E rep2 : Forest(q, n, rep2) /\ Joins(rep, rep2, n, hits, id)

LEMMA UnionAllIs ==
  ASSUME NEW n \in Nat, NEW p, NEW rep, Forest(p, n, rep), NEW hits \in SUBSET (1 .. n), NEW id \in 1 .. n
  PROVE  Joined(UnionAll(p, hits, id), n, rep, hits, id)
<1> DEFINE State == {q \in [1 .. n -> 1 .. n] : \E r : Forest(q, n, r)}
           Body(g, s) == IF s = {} THEN p
                         ELSE Union(g[s \ {CHOOSE x \in s : TRUE}], CHOOSE x \in s : TRUE, id)
           it == CHOOSE g : g = [s \in SUBSET hits |-> Body(g, s)]
<1>1. UnionAll(p, hits, id) = it[hits]  BY DEF UnionAll, FoldSet, MapThenFoldSet
<1>2. ASSUME NEW q, NEW r, Forest(q, n, r)  PROVE  q \in State
  <2>1. q \in [1 .. n -> 1 .. n]  BY <1>2 DEF Forest, Labelled
  <2> QED  BY <1>2, <2>1
<1>3. \A q \in State, a \in 1 .. n : Union(q, a, id) \in State
  <2> SUFFICES ASSUME NEW q \in State, NEW a \in 1 .. n  PROVE  Union(q, a, id) \in State  OBVIOUS
  <2>1. PICK r : Forest(q, n, r)  OBVIOUS
  <2>2. Forest(Union(q, a, id), n, Merged(r, n, a, id))  BY <2>1, UnionIs
  <2> HIDE DEF State
  <2> QED  BY <1>2, <2>2
<1>4. p \in State  BY <1>2
<1>5. IsFiniteSet(hits)
  <2>1. IsFiniteSet(1 .. n)  BY FS_Interval
  <2> QED  BY <2>1, FS_Subset
<1> HIDE DEF State
<1>6. \E g : g = [s \in SUBSET hits |-> Body(g, s)]
  <2> DEFINE pick == [s \in SUBSET hits |-> CHOOSE x \in s : TRUE]
             step == [q \in State \X hits |-> Union(q[1], q[2], id)]
  <2>1. Picks(pick, hits)
    <3>1. \A s \in SUBSET hits : s # {} => (CHOOSE x \in s : TRUE) \in s  OBVIOUS
    <3> QED  BY <3>1 DEF Picks
  <2>2. step \in [State \X hits -> State]  BY <1>3
  <2>3. \A q \in State, a \in hits : step[<<q, a>>] = Union(q, a, id)  OBVIOUS
  <2>4. \A s \in SUBSET hits : pick[s] = CHOOSE x \in s : TRUE  OBVIOUS
  <2> HIDE DEF pick, step
  <2>5. PICK g \in [SUBSET hits -> State] : Folds(g, hits, p, step, pick)
    BY <2>1, <2>2, <1>4, <1>5, FoldExists
  <2>6. ASSUME NEW s \in SUBSET hits  PROVE  g[s] = Body(g, s)
    <3>1. CASE s = {}  BY <2>5, <3>1 DEF Folds
    <3>2. CASE s # {}
      <4> DEFINE x == CHOOSE x \in s : TRUE
      <4>1. pick[s] = x /\ x \in s  BY <2>1, <2>4, <3>2 DEF Picks
      <4> HIDE DEF x
      <4>2. g[s] = step[<<g[s \ {x}], x>>]  BY <2>5, <3>2, <4>1 DEF Folds
      <4>3. g[s \ {x}] \in State /\ x \in hits  BY <4>1
      <4>4. g[s] = Union(g[s \ {x}], x, id)  BY <2>3, <4>2, <4>3
      <4> QED  BY <3>2, <4>4 DEF x
    <3> QED  BY <3>1, <3>2
  <2>7. g = [s \in SUBSET hits |-> Body(g, s)]  BY <2>6
  <2> QED  BY <2>7
<1>7. it = [s \in SUBSET hits |-> Body(it, s)]  BY <1>6
<1> HIDE DEF it
<1> DEFINE Done(T) == \E rep2 : Forest(it[T], n, rep2) /\ Joins(rep, rep2, n, T, id)
           C == {T \in SUBSET hits : Done(T)}
<1>8. Done({})
  <2>1. it[{}] = p  BY <1>7
  <2>2. Joins(rep, rep, n, {}, id)  BY DEF Joins
  <2> QED  BY <2>1, <2>2
<1>9. ASSUME NEW T \in SUBSET hits, T # {}, \A x \in T : T \ {x} \in C  PROVE  Done(T)
  <2> DEFINE x == CHOOSE x \in T : TRUE
  <2>1. x \in T  BY <1>9
  <2>2. it[T] = Union(it[T \ {x}], x, id)  BY <1>7, <1>9
  <2> HIDE DEF x
  <2>3. x \in 1 .. n  BY <2>1
  <2>4. Done(T \ {x})  BY <1>9, <2>1
  <2>5. PICK rep1 : Forest(it[T \ {x}], n, rep1) /\ Joins(rep, rep1, n, T \ {x}, id)  BY <2>4
  <2>6. Forest(it[T], n, Merged(rep1, n, x, id))  BY <2>2, <2>3, <2>5, UnionIs
  <2>7. Joins(rep, Merged(rep1, n, x, id), n, T, id)
    <3>1. T \in SUBSET (1 .. n)  OBVIOUS
    <3> QED  BY <2>1, <2>5, <3>1, MergedJoins
  <2> QED  BY <2>6, <2>7
<1> HIDE DEF Done
<1>10. {} \in C  BY <1>8
<1>11. \A T \in SUBSET hits : T # {} /\ (\A x \in T : T \ {x} \in C) => T \in C  BY <1>9
<1>12. SUBSET hits \subseteq C
  <2> HIDE DEF C
  <2> QED  BY <1>5, <1>10, <1>11, Subsets
<1>13. Done(hits)  BY <1>12
<1> QED  BY <1>1, <1>13 DEF Done, Joined

-----------------------------------------------------------------------------
(* Components *)

\* Two entries have one representative exactly when they are in one component:
\* near entries have the same, and a closed set has whole trees.
Classes(rep, sigs) ==
  /\ \A j, k \in DOMAIN sigs : Near(sigs[j], sigs[k]) => rep[j] = rep[k]
  /\ \A S \in SUBSET DOMAIN sigs : Promise!Closed(S, sigs) => Saturated(S, rep, Len(sigs))

\* Campaigns and Clusters speak of the same signatures.
LEMMA SameSignatures ==
  /\ \A a, b : Promise!Near(a, b) <=> Near(a, b)
  /\ \A a, now : Promise!Fresh(a, now) = Fresh(a, now) /\ Promise!Recent(a, now) = Recent(a, now)
  /\ Promise!Times = Times
BY DEF Promise!Near, Near, Promise!Linked, Linked, Promise!None, None, Promise!Fresh, Fresh,
       Promise!Recent, Recent, Promise!Times, Times

LEMMA ComponentIs ==
  ASSUME NEW sigs \in Seq(PrSignature), NEW rep, Classes(rep, sigs), NEW i \in DOMAIN sigs, NEW j \in DOMAIN sigs
  PROVE  j \in Promise!Component(sigs, i) <=> rep[i] = rep[j]
<1> DEFINE tree == {k \in DOMAIN sigs : rep[k] = rep[i]}
<1>1. DOMAIN sigs = 1 .. Len(sigs)  OBVIOUS
<1>2. Promise!Closed(tree, sigs) /\ i \in tree
  <2>1. \A m \in tree, k \in DOMAIN sigs : Near(sigs[m], sigs[k]) => k \in tree  BY DEF Classes
  <2> QED  BY <2>1, SameSignatures DEF Promise!Closed
<1>3. ASSUME j \in Promise!Component(sigs, i)  PROVE  rep[i] = rep[j]
  <2>1. tree \in SUBSET DOMAIN sigs  OBVIOUS
  <2>2. j \in tree
    <3> HIDE DEF tree
    <3> QED  BY <1>2, <1>3, <2>1 DEF Promise!Component
  <2> QED  BY <2>2
<1>4. ASSUME rep[i] = rep[j]  PROVE  j \in Promise!Component(sigs, i)
  <2>1. ASSUME NEW S \in SUBSET DOMAIN sigs, i \in S, Promise!Closed(S, sigs)  PROVE  j \in S
    <3>1. Saturated(S, rep, Len(sigs))  BY <2>1 DEF Classes
    <3> QED  BY <1>1, <1>4, <2>1, <3>1 DEF Saturated
  <2> QED  BY <2>1 DEF Promise!Component
<1> QED  BY <1>3, <1>4

LEMMA NearSymmetric ==
  ASSUME NEW a \in PrSignature, NEW b \in PrSignature, Near(a, b)
  PROVE  Near(b, a)
<1>1. a.diff \in Int /\ b.diff \in Int /\ a.text \in Int /\ b.text \in Int
  BY ScaleAssumption DEF PrSignature
<1>2. \A x, y \in Int : Linked(x, y) => Linked(y, x)  BY DEF Linked
<1> QED  BY <1>1, <1>2 DEF Near

\* The representatives with one more entry, alone.
With(rep, n) == [x \in 1 .. n + 1 |-> IF x = n + 1 THEN n + 1 ELSE rep[x]]

LEMMA AppendedForest ==
  ASSUME NEW n \in Nat, NEW p \in Seq(Nat), NEW rep, Forest(p, n, rep)
  PROVE  Forest(Append(p, n + 1), n + 1, With(rep, n))
<1>1. PICK d \in [1 .. n -> Nat] : Labelled(p, n, rep, d)  BY DEF Forest
<1> DEFINE q == Append(p, n + 1)
           deep == [x \in 1 .. n + 1 |-> IF x = n + 1 THEN 0 ELSE d[x]]
           rep1 == With(rep, n)
<1>2. p \in [1 .. n -> 1 .. n] /\ rep \in [1 .. n -> 1 .. n]  BY <1>1 DEF Labelled
<1>3. Len(p) = n  BY <1>2
<1>4. DOMAIN q = 1 .. n + 1 /\ q[n + 1] = n + 1 /\ \A x \in 1 .. n : q[x] = p[x]  BY <1>3
<1>5. q \in Seq(Nat)  OBVIOUS
<1>6. \A x \in 1 .. n + 1 : x = n + 1 \/ x \in 1 .. n  OBVIOUS
<1>7. \A x \in 1 .. n : x \in 1 .. n + 1 /\ x # n + 1  OBVIOUS
<1> HIDE DEF q
<1>8. ASSUME NEW x \in 1 .. n + 1  PROVE  q[x] \in 1 .. n + 1
  <2>1. CASE x = n + 1  BY <1>4, <2>1
  <2>2. CASE x \in 1 .. n
    <3>1. q[x] = p[x] /\ p[x] \in 1 .. n  BY <1>2, <1>4, <2>2
    <3> QED  BY <1>7, <3>1
  <2> QED  BY <1>6, <2>1, <2>2
<1>9. q \in [1 .. n + 1 -> 1 .. n + 1]  BY <1>4, <1>5, <1>8
<1>10. rep1 \in [1 .. n + 1 -> 1 .. n + 1] /\ rep1[n + 1] = n + 1 /\ \A x \in 1 .. n : rep1[x] = rep[x]
  <2>1. \A x \in 1 .. n : rep[x] \in 1 .. n + 1  BY <1>2, <1>7
  <2> QED  BY <1>6, <1>7, <2>1 DEF With
<1>11. deep \in [1 .. n + 1 -> Nat] /\ \A x \in 1 .. n : deep[x] = d[x]  BY <1>6, <1>7
<1> HIDE DEF deep, rep1
<1>12. ASSUME NEW x \in 1 .. n + 1
       PROVE  /\ rep1[q[x]] = rep1[x] /\ q[rep1[x]] = rep1[x]
              /\ q[x] = x => rep1[x] = x
              /\ q[x] # x => deep[q[x]] < deep[x]
  <2>1. CASE x = n + 1  BY <1>4, <1>10, <2>1
  <2>2. CASE x \in 1 .. n
    <3>1. /\ rep[p[x]] = rep[x] /\ p[rep[x]] = rep[x]
          /\ p[x] = x => rep[x] = x
          /\ p[x] # x => d[p[x]] < d[x]
      BY <1>1, <2>2 DEF Labelled
    <3>2. p[x] \in 1 .. n /\ rep[x] \in 1 .. n  BY <1>2, <2>2
    <3> QED  BY <1>4, <1>10, <1>11, <2>2, <3>1, <3>2
  <2> QED  BY <1>6, <2>1, <2>2
<1>13. Labelled(q, n + 1, rep1, deep)  BY <1>9, <1>10, <1>11, <1>12 DEF Labelled
<1>14. Forest(q, n + 1, rep1)  BY <1>11, <1>13 DEF Forest
<1> QED  BY <1>14 DEF q, rep1

\* An entry joined to all those near it keeps the trees what they should be.
LEMMA ClassesGrow ==
  ASSUME NEW sigs \in Seq(PrSignature), NEW sig \in PrSignature, NEW rep \in [1 .. Len(sigs) -> 1 .. Len(sigs)],
         Classes(rep, sigs), NEW D \in SUBSET (1 .. Len(sigs)), NEW T \in SUBSET (1 .. Len(sigs)),
         D \cup T = {e \in 1 .. Len(sigs) : Near(sigs[e], sig)}, NEW rep1, NEW rep2,
         Joins(With(rep, Len(sigs)), rep1, Len(sigs) + 1, D, Len(sigs) + 1),
         Joins(rep1, rep2, Len(sigs) + 1, T, Len(sigs) + 1)
  PROVE  Classes(rep2, Append(sigs, sig))
<1> DEFINE n == Len(sigs)
           id == n + 1
           new == Append(sigs, sig)
           rep0 == With(rep, n)
<1>1. n \in Nat /\ DOMAIN sigs = 1 .. n /\ \A x \in 1 .. n : x \in 1 .. id /\ x # id  OBVIOUS
<1>2. \A x \in 1 .. id : x = id \/ x \in 1 .. n  OBVIOUS
<1>3. DOMAIN new = 1 .. id /\ Len(new) = id /\ new[id] = sig /\ \A x \in 1 .. n : new[x] = sigs[x]  OBVIOUS
<1>4. rep0[id] = id /\ \A x \in 1 .. n : rep0[x] = rep[x] /\ rep[x] \in 1 .. n  BY <1>1 DEF With
<1>5. \A x \in 1 .. n : sigs[x] \in PrSignature  BY <1>1
<1>6. id \in 1 .. id  BY <1>1
<1>7. Joins(rep0, rep1, id, D, id) /\ Joins(rep1, rep2, id, T, id)  OBVIOUS
<1>8. \A e \in 1 .. n : e \in D \/ e \in T <=> Near(sigs[e], sig)  OBVIOUS
<1> HIDE DEF id, new, rep0
<1>9. \A x, y \in 1 .. id : rep0[x] = rep0[y] => rep2[x] = rep2[y]  BY <1>7 DEF Joins
<1>10. \A e \in 1 .. n : Near(sigs[e], sig) => rep2[e] = rep2[id]
  <2>1. \A e \in D : rep2[e] = rep2[id]
    <3> SUFFICES ASSUME NEW e \in D  PROVE  rep2[e] = rep2[id]  OBVIOUS
    <3>1. rep1[e] = rep1[id] /\ e \in 1 .. id  BY <1>1, <1>7 DEF Joins
    <3> QED  BY <1>6, <1>7, <3>1 DEF Joins
  <2>2. \A e \in T : rep2[e] = rep2[id]  BY <1>7 DEF Joins
  <2> QED  BY <1>8, <2>1, <2>2
<1>11. ASSUME NEW j \in 1 .. id, NEW k \in 1 .. id, Near(new[j], new[k])  PROVE  rep2[j] = rep2[k]
  <2>1. CASE j = id /\ k = id  BY <2>1
  <2>2. CASE j \in 1 .. n /\ k = id  BY <1>3, <1>10, <1>11, <2>2
  <2>3. CASE j = id /\ k \in 1 .. n
    <3>1. Near(sigs[k], sig)  BY <1>3, <1>5, <1>11, <2>3, NearSymmetric
    <3> QED  BY <1>10, <2>3, <3>1
  <2>4. CASE j \in 1 .. n /\ k \in 1 .. n
    <3>1. rep[j] = rep[k]  BY <1>1, <1>3, <1>11, <2>4 DEF Classes
    <3> QED  BY <1>4, <1>9, <2>4, <3>1
  <2> QED  BY <1>2, <2>1, <2>2, <2>3, <2>4
<1>12. ASSUME NEW S \in SUBSET (1 .. id), Promise!Closed(S, new)  PROVE  Saturated(S, rep2, id)
  <2> DEFINE old == S \cap (1 .. n)
  <2>1. \A j \in S, k \in 1 .. id : Near(new[j], new[k]) => k \in S  BY <1>3, <1>12, SameSignatures DEF Promise!Closed
  <2>2. Promise!Closed(old, sigs)
    <3> SUFFICES ASSUME NEW j \in old, NEW k \in 1 .. n, Near(sigs[j], sigs[k])  PROVE  k \in old
      BY <1>1, SameSignatures DEF Promise!Closed
    <3>1. Near(new[j], new[k]) /\ k \in 1 .. id  BY <1>1, <1>3
    <3> QED  BY <2>1, <3>1
  <2>3. Saturated(old, rep, n)  BY <1>1, <2>2 DEF Classes
  <2>4. Saturated(S, rep0, id)
    <3> SUFFICES ASSUME NEW x \in 1 .. id, NEW y \in 1 .. id, x \in S, rep0[x] = rep0[y]  PROVE  y \in S
      BY DEF Saturated
    <3>1. CASE x = id
      <4>1. y \notin 1 .. n  BY <1>1, <1>4, <3>1
      <4> QED  BY <1>2, <3>1, <4>1
    <3>2. CASE x \in 1 .. n
      <4>1. y \in 1 .. n  BY <1>1, <1>2, <1>4, <3>2
      <4>2. rep[x] = rep[y] /\ x \in old  BY <1>4, <3>2, <4>1
      <4> QED  BY <2>3, <3>2, <4>1, <4>2 DEF Saturated
    <3> QED  BY <1>2, <3>1, <3>2
  <2>5. ASSUME NEW h \in 1 .. n, Near(sigs[h], sig)  PROVE  h \in S <=> id \in S
    <3>1. Near(new[h], new[id]) /\ h \in 1 .. id  BY <1>1, <1>3, <2>5
    <3>2. Near(new[id], new[h])  BY <1>3, <1>5, <2>5, NearSymmetric
    <3> QED  BY <1>6, <2>1, <3>1, <3>2
  <2>6. Saturated(S, rep1, id)
    <3>1. \A h \in D : h \in S <=> id \in S  BY <1>8, <2>5
    <3> QED  BY <1>7, <2>4, <3>1 DEF Joins
  <2>7. \A h \in T : h \in S <=> id \in S  BY <1>8, <2>5
  <2> QED  BY <1>7, <2>6, <2>7 DEF Joins
<1>13. Classes(rep2, new)  BY <1>3, <1>11, <1>12 DEF Classes
<1> QED  BY <1>13 DEF new

-----------------------------------------------------------------------------
(* Stores *)

Store == [entries : Seq(PrSignature), parent : Seq(Nat), sims : Seq(0 .. Scale), owner : Seq(Nat)]

\* The diff index describes the entries that have a diff, all of them, and the
\* trees are the components.
Indexed(store) ==
  /\ store.owner \in Seq(DOMAIN store.entries)
  /\ DOMAIN store.sims = DOMAIN store.owner
  /\ \A i \in DOMAIN store.owner : store.sims[i] = store.entries[store.owner[i]].diff
  /\ \A e \in DOMAIN store.entries : store.entries[e].diff # None => \E i \in DOMAIN store.owner : store.owner[i] = e

Clustered(store) ==
  \E rep : Forest(store.parent, Len(store.entries), rep) /\ Classes(rep, store.entries)

Good(store) == store \in Store /\ Indexed(store) /\ Clustered(store)

LEMMA EmptyIsGood == Good(EmptyStore)
<1>1. EmptyStore \in Store /\ Indexed(EmptyStore)  BY DEF EmptyStore, Store, Indexed
<1>2. Labelled(<< >>, 0, << >>, << >>)  BY DEF Labelled
<1>3. << >> \in [1 .. 0 -> Nat]  OBVIOUS
<1>4. Forest(<< >>, 0, << >>)  BY <1>2, <1>3 DEF Forest
<1>5. Classes(<< >>, << >>)  BY DEF Classes, Saturated
<1> QED  BY <1>1, <1>4, <1>5 DEF Good, Clustered, EmptyStore

\* The hits of both channels are the entries near the new one.
LEMMA HitsAreNear ==
  ASSUME NEW store, Good(store), NEW sig \in PrSignature
  PROVE  DiffHits(store, sig) \cup TextHits(store, sig)
           = {e \in 1 .. Len(store.entries) : Near(store.entries[e], sig)}
<1> DEFINE n == Len(store.entries)
           D == DiffHits(store, sig)
<1>1. store.entries \in Seq(PrSignature) /\ DOMAIN store.entries = 1 .. n  BY DEF Good, Store
<1>2. \A i \in DOMAIN store.owner : store.owner[i] \in 1 .. n /\ store.sims[i] = store.entries[store.owner[i]].diff
  BY <1>1 DEF Good, Indexed
<1>3. \A e \in D : e \in 1 .. n /\ Linked(store.entries[e].diff, sig.diff)
  <2> SUFFICES ASSUME NEW i \in DOMAIN store.sims, Linked(store.sims[i], sig.diff)
               PROVE  store.owner[i] \in 1 .. n /\ Linked(store.entries[store.owner[i]].diff, sig.diff)
    BY DEF DiffHits
  <2> QED  BY <1>2 DEF Good, Indexed
<1>4. ASSUME NEW e \in 1 .. n, Linked(store.entries[e].diff, sig.diff)  PROVE  e \in D
  <2>1. store.entries[e].diff # None  BY <1>4 DEF Linked
  <2>2. PICK i \in DOMAIN store.owner : store.owner[i] = e  BY <1>1, <2>1 DEF Good, Indexed
  <2>3. i \in DOMAIN store.sims /\ Linked(store.sims[i], sig.diff)  BY <1>2, <1>4, <2>2 DEF Good, Indexed
  <2> QED  BY <2>2, <2>3 DEF DiffHits
<1>5. TextHits(store, sig) = {e \in 1 .. n : Linked(store.entries[e].text, sig.text)}  BY <1>1 DEF TextHits
<1> HIDE DEF D, n
<1>6. D \cup TextHits(store, sig) = {e \in 1 .. n : Near(store.entries[e], sig)}  BY <1>3, <1>4, <1>5 DEF Near
<1> QED  BY <1>6 DEF D, n

\* insert keeps a good store good, whatever it is given.
LEMMA InsertIs ==
  ASSUME NEW store, Good(store), NEW sig \in PrSignature
  PROVE  Good(Insert(store, sig)) /\ Insert(store, sig).entries = Append(store.entries, sig)
<1> DEFINE n == Len(store.entries)
           id == n + 1
           D == DiffHits(store, sig)
           T == TextHits(store, sig)
           p0 == Append(store.parent, id)
           p1 == UnionAll(p0, D, id)
           p2 == UnionAll(p1, T, id)
           new == Insert(store, sig)
<1>1. PICK rep : Forest(store.parent, n, rep) /\ Classes(rep, store.entries)  BY DEF Good, Clustered
<1>2. n \in Nat /\ id \in Nat /\ id \in 1 .. id /\ store.entries \in Seq(PrSignature) /\ store.parent \in Seq(Nat)
      /\ store.sims \in Seq(0 .. Scale) /\ store.owner \in Seq(Nat)
  BY DEF Good, Store
<1>3. store.parent \in [1 .. n -> 1 .. n] /\ rep \in [1 .. n -> 1 .. n]  BY <1>1 DEF Forest, Labelled
<1>4. Len(store.parent) + 1 = id  BY <1>2, <1>3
<1>5. D \cup T = {e \in 1 .. n : Near(store.entries[e], sig)}  BY HitsAreNear
<1>6. new = [entries |-> Append(store.entries, sig),
             parent  |-> p2,
             sims    |-> IF sig.diff = None THEN store.sims ELSE Append(store.sims, sig.diff),
             owner   |-> IF sig.diff = None THEN store.owner ELSE Append(store.owner, id)]
  BY <1>4 DEF Insert
<1> HIDE DEF D, T, new
<1>7. Forest(p0, id, With(rep, n))  BY <1>1, <1>2, AppendedForest
<1>8. D \in SUBSET (1 .. n) /\ T \in SUBSET (1 .. n)  BY <1>5
<1>9. D \in SUBSET (1 .. id) /\ T \in SUBSET (1 .. id)  BY <1>2, <1>8
<1> HIDE DEF p0, p1, p2
<1>10. PICK rep1 : Forest(p1, id, rep1) /\ Joins(With(rep, n), rep1, id, D, id)
  <2>1. Joined(UnionAll(p0, D, id), id, With(rep, n), D, id)  BY <1>2, <1>7, <1>9, UnionAllIs
  <2> QED  BY <2>1 DEF p1, Joined
<1>11. PICK rep2 : Forest(p2, id, rep2) /\ Joins(rep1, rep2, id, T, id)
  <2>1. Joined(UnionAll(p1, T, id), id, rep1, T, id)  BY <1>2, <1>9, <1>10, UnionAllIs
  <2> QED  BY <2>1 DEF p2, Joined
<1>12. Classes(rep2, Append(store.entries, sig))
  BY <1>1, <1>2, <1>3, <1>5, <1>8, <1>10, <1>11, ClassesGrow
<1>13. Len(Append(store.entries, sig)) = id /\ Append(store.entries, sig) \in Seq(PrSignature)  BY <1>2
<1>14. Clustered(new)  BY <1>6, <1>11, <1>12, <1>13 DEF Clustered
<1>15. new \in Store
  <2>1. p2 \in [1 .. id -> 1 .. id]  BY <1>11 DEF Forest, Labelled
  <2>2. p2 \in Seq(Nat)
    <3>1. p2 \in [1 .. id -> Nat]  BY <1>2, <2>1
    <3>2. [1 .. id -> Nat] \in {[1 .. k -> Nat] : k \in Nat}  BY <1>2
    <3> QED  BY <3>1, <3>2, SeqDef
  <2>3. Append(store.sims, sig.diff) \in Seq(0 .. Scale)
    <3>1. sig.diff \in 0 .. Scale  BY DEF PrSignature
    <3> QED  BY <1>2, <3>1
  <2>4. Append(store.owner, id) \in Seq(Nat)  BY <1>2
  <2> QED  BY <1>2, <1>6, <1>13, <2>2, <2>3, <2>4 DEF Store
<1>16. Indexed(new)
  <2>1. /\ DOMAIN store.entries = 1 .. n /\ DOMAIN Append(store.entries, sig) = 1 .. id
        /\ Append(store.entries, sig)[id] = sig
        /\ \A e \in 1 .. n : Append(store.entries, sig)[e] = store.entries[e]
    BY <1>2
  <2>2. \A e \in 1 .. id : e = id \/ e \in 1 .. n  BY <1>2
  <2>3. /\ store.owner \in Seq(1 .. n) /\ DOMAIN store.sims = DOMAIN store.owner
        /\ \A i \in DOMAIN store.owner : store.sims[i] = store.entries[store.owner[i]].diff
        /\ \A e \in 1 .. n : store.entries[e].diff # None => \E i \in DOMAIN store.owner : store.owner[i] = e
    BY <2>1 DEF Good, Indexed
  <2>4. store.owner \in Seq(1 .. id) /\ \A i \in DOMAIN store.owner : store.owner[i] \in 1 .. n
    <3>1. 1 .. n \subseteq 1 .. id  BY <1>2
    <3>2. \A i \in DOMAIN store.owner : store.owner[i] \in 1 .. n
      <4>1. store.owner \in [1 .. Len(store.owner) -> 1 .. n]
        <5> HIDE DEF n
        <5> QED  BY <2>3, LenProperties
      <4> QED  BY <4>1
    <3> QED  BY <2>3, <3>1, <3>2, SeqMonotonic
  <2> DEFINE grown == Append(store.entries, sig)
  <2> HIDE DEF grown
  <2>5. DOMAIN grown = 1 .. id /\ grown[id] = sig /\ \A e \in 1 .. n : grown[e] = store.entries[e]
    BY <2>1 DEF grown
  <2>6. CASE sig.diff = None
    <3>1. new.entries = grown /\ new.sims = store.sims /\ new.owner = store.owner  BY <1>6, <2>6 DEF grown
    <3>2. \A e \in 1 .. id : grown[e].diff # None => \E i \in DOMAIN store.owner : store.owner[i] = e
      BY <2>2, <2>3, <2>5, <2>6
    <3> QED  BY <2>3, <2>4, <2>5, <3>1, <3>2 DEF Indexed
  <2>7. CASE sig.diff # None
    <3> DEFINE m == Len(store.owner)
               sims == Append(store.sims, sig.diff)
               owner == Append(store.owner, id)
    <3>1. new.entries = grown /\ new.sims = sims /\ new.owner = owner  BY <1>6, <2>7 DEF grown
    <3>2. m \in Nat /\ DOMAIN store.owner = 1 .. m /\ Len(store.sims) = m
      BY <1>2, <2>3
    <3>3. /\ DOMAIN owner = 1 .. m + 1 /\ owner[m + 1] = id /\ \A i \in 1 .. m : owner[i] = store.owner[i]
          /\ DOMAIN sims = 1 .. m + 1 /\ sims[m + 1] = sig.diff /\ \A i \in 1 .. m : sims[i] = store.sims[i]
          /\ owner \in Seq(1 .. id)
      BY <1>2, <2>4, <3>2
    <3>4. m + 1 \in 1 .. m + 1 /\ \A i \in 1 .. m + 1 : i = m + 1 \/ i \in 1 .. m  BY <3>2
    <3> HIDE DEF m, sims, owner
    <3>5. ASSUME NEW i \in 1 .. m + 1  PROVE  sims[i] = grown[owner[i]].diff
      <4>1. CASE i = m + 1  BY <2>5, <3>3, <4>1
      <4>2. CASE i \in 1 .. m
        <5>1. sims[i] = store.entries[store.owner[i]].diff /\ owner[i] = store.owner[i]  BY <2>3, <3>2, <3>3, <4>2
        <5>2. grown[store.owner[i]] = store.entries[store.owner[i]]  BY <2>4, <2>5, <3>2, <4>2
        <5> QED  BY <5>1, <5>2
      <4> QED  BY <3>4, <4>1, <4>2
    <3>6. ASSUME NEW e \in 1 .. id, grown[e].diff # None  PROVE  \E i \in 1 .. m + 1 : owner[i] = e
      <4>1. CASE e = id  BY <3>3, <3>4, <4>1
      <4>2. CASE e \in 1 .. n
        <5>1. PICK i \in 1 .. m : store.owner[i] = e  BY <2>3, <2>5, <3>2, <3>6, <4>2
        <5>2. i \in 1 .. m + 1  BY <3>2
        <5> QED  BY <3>3, <5>1, <5>2
      <4> QED  BY <2>2, <4>1, <4>2
    <3> QED  BY <2>5, <3>1, <3>3, <3>5, <3>6 DEF Indexed
  <2> QED  BY <2>6, <2>7
<1>17. new.entries = Append(store.entries, sig)  BY <1>6
<1> QED  BY <1>14, <1>15, <1>16, <1>17 DEF Good, new

\* Looking at a view keeps the store good, and its entries.
LEMMA ViewedIs ==
  ASSUME NEW store, Good(store), NEW id \in DOMAIN store.entries
  PROVE  Good(Viewed(store, id)) /\ Viewed(store, id).entries = store.entries
<1> DEFINE n   == Len(store.entries)
           seq == <<id>> \o [i \in DOMAIN store.parent |-> i]
<1>1. PICK rep : Forest(store.parent, n, rep) /\ Classes(rep, store.entries)  BY DEF Good, Clustered
<1>2. store \in Store /\ n \in Nat /\ DOMAIN store.entries = 1 .. n  BY DEF Good, Store
<1>3. store.parent \in [1 .. n -> 1 .. n]  BY <1>1 DEF Forest, Labelled
<1>4. DOMAIN seq = 1 .. n + 1 /\ \A k \in 1 .. n + 1 : seq[k] \in 1 .. n
  <2> DEFINE all == [i \in 1 .. n |-> i]
  <2>1. all \in Seq(1 .. n) /\ Len(all) = n /\ <<id>> \in Seq(1 .. n) /\ Len(<<id>>) = 1
    <3>1. all \in [1 .. n -> 1 .. n]  OBVIOUS
    <3>2. [1 .. n -> 1 .. n] \in {[1 .. k -> 1 .. n] : k \in Nat}  BY <1>2
    <3>3. all \in Seq(1 .. n)  BY <3>1, <3>2, SeqDef
    <3>4. Len(all) = n  BY <1>2
    <3>5. <<id>> \in Seq(1 .. n) /\ Len(<<id>>) = 1  BY <1>2
    <3> QED  BY <3>3, <3>4, <3>5
  <2>2. seq = <<id>> \o all  BY <1>3
  <2> HIDE DEF all, n
  <2>3. seq \in Seq(1 .. n) /\ Len(seq) = 1 + n  BY <2>1, <2>2, ConcatProperties
  <2>4. seq \in [1 .. Len(seq) -> 1 .. n]  BY <2>3, LenProperties
  <2>5. 1 + n = n + 1  BY <1>2
  <2> QED  BY <2>3, <2>4, <2>5
<1> HIDE DEF seq
<1> DEFINE State == {q \in [1 .. n -> 1 .. n] : Forest(q, n, rep)}
           Body(g, s) == IF s = {} THEN store.parent ELSE Find(g[s \ {Max(s)}], seq[Max(s)]).parent
           it == CHOOSE g : g = [s \in SUBSET (1 .. n + 1) |-> Body(g, s)]
           halved == it[1 .. n + 1]
<1>5. Viewed(store, id) = [store EXCEPT !.parent = halved]
  BY <1>4 DEF Viewed, FoldLeft, MapThenFoldSet, seq
<1>6. store.parent \in State  BY <1>1, <1>3
<1>7. ASSUME NEW q \in State, NEW x \in 1 .. n  PROVE  Find(q, x).parent \in State
  <2>1. Forest(Find(q, x).parent, n, rep)  BY <1>2, <1>7, FindIs
  <2>2. Find(q, x).parent \in [1 .. n -> 1 .. n]  BY <2>1 DEF Forest, Labelled
  <2> QED  BY <2>1, <2>2
<1> HIDE DEF State
<1>8. \E g : g = [s \in SUBSET (1 .. n + 1) |-> Body(g, s)]
  <2> DEFINE step == [q \in State \X (1 .. n + 1) |-> Find(q[1], seq[q[2]]).parent]
  <2>1. step \in [State \X (1 .. n + 1) -> State]  BY <1>4, <1>7
  <2>2. \A q \in State, k \in 1 .. n + 1 : step[<<q, k>>] = Find(q, seq[k]).parent  OBVIOUS
  <2> HIDE DEF step
  <2>3. PICK g : Along(g, n + 1, State, store.parent, step)
    <3>1. n + 1 \in Nat  BY <1>2
    <3> HIDE DEF n
    <3> QED  BY <1>6, <2>1, <3>1, AlongExists
  <2>4. \A s \in SUBSET (1 .. n + 1) : g[s] = Body(g, s)  BY <2>2, <2>3 DEF Along
  <2>5. g = [s \in SUBSET (1 .. n + 1) |-> Body(g, s)]  BY <2>3, <2>4 DEF Along
  <2> QED  BY <2>5
<1>9. it = [s \in SUBSET (1 .. n + 1) |-> Body(it, s)]  BY <1>8
<1> HIDE DEF it
<1>10. it[1 .. 0] = store.parent
  <2>1. 1 .. 0 = {} /\ {} \in SUBSET (1 .. n + 1)  OBVIOUS
  <2> QED  BY <1>9, <2>1
<1>11. \A k \in 1 .. n + 1 : it[1 .. k] = Find(it[1 .. k - 1], seq[k]).parent
  <2> SUFFICES ASSUME NEW k \in 1 .. n + 1  PROVE  it[1 .. k] = Find(it[1 .. k - 1], seq[k]).parent  OBVIOUS
  <2>1. Max(1 .. k) = k /\ (1 .. k) \ {k} = 1 .. k - 1  BY LastOfPrefix
  <2>2. 1 .. k \in SUBSET (1 .. n + 1) /\ k \in 1 .. k  BY <1>2
  <2> QED  BY <1>9, <2>1, <2>2
<1> DEFINE C == {k \in 0 .. n + 1 : it[1 .. k] \in State}
<1>12. 0 \in C  BY <1>2, <1>6, <1>10
<1>13. \A k \in 1 .. n + 1 : k - 1 \in C => k \in C
  <2> SUFFICES ASSUME NEW k \in 1 .. n + 1, k - 1 \in C  PROVE  it[1 .. k] \in State  OBVIOUS
  <2> QED  BY <1>4, <1>7, <1>11
<1>14. n + 1 \in C
  <2> HIDE DEF C
  <2> QED  BY <1>2, <1>12, <1>13, Upward
<1>15. halved \in State  BY <1>14
<1> HIDE DEF halved
<1>16. Forest(halved, n, rep) /\ halved \in [1 .. n -> 1 .. n]  BY <1>15 DEF State
<1>17. halved \in Seq(Nat)
  <2>1. [1 .. n -> Nat] \in {[1 .. k -> Nat] : k \in Nat}  BY <1>2
  <2>2. halved \in [1 .. n -> Nat]  BY <1>16
  <2> QED  BY <2>1, <2>2, SeqDef
<1> DEFINE new == Viewed(store, id)
<1>18. /\ new \in Store /\ new.entries = store.entries /\ new.sims = store.sims /\ new.owner = store.owner
       /\ new.parent = halved
  BY <1>2, <1>5, <1>17 DEF Store
<1> HIDE DEF new
<1>19. Indexed(new)  BY <1>18 DEF Good, Indexed
<1>20. Clustered(new)  BY <1>1, <1>16, <1>18 DEF Clustered
<1> QED  BY <1>18, <1>19, <1>20 DEF Good, new

\* One entry of prune's loop, in the store and in the memory of Campaigns.
Kept(s, e, now)      == IF Fresh(e, now) THEN Viewed(Insert(s, e), Len(s.entries) + 1) ELSE s
Recalled(sigs, e, now) == IF Fresh(e, now) THEN Append(sigs, e) ELSE sigs

LEMMA KeptIs ==
  ASSUME NEW store, Good(store), NEW sig \in PrSignature, NEW now
  PROVE  Good(Kept(store, sig, now)) /\ Kept(store, sig, now).entries = Recalled(store.entries, sig, now)
<1> DEFINE new == Insert(store, sig)
           id  == Len(store.entries) + 1
<1>1. CASE ~Fresh(sig, now)  BY <1>1 DEF Kept, Recalled
<1>2. CASE Fresh(sig, now)
  <2>1. Good(new) /\ new.entries = Append(store.entries, sig)  BY InsertIs
  <2>2. id \in DOMAIN new.entries
    <3>1. store.entries \in Seq(PrSignature)  BY DEF Good, Store
    <3> HIDE DEF new
    <3> QED  BY <2>1, <3>1
  <2> HIDE DEF new, id
  <2>3. Good(Viewed(new, id)) /\ Viewed(new, id).entries = new.entries  BY <2>1, <2>2, ViewedIs
  <2> QED  BY <1>2, <2>1, <2>3 DEF Kept, Recalled, new, id
<1> QED  BY <1>1, <1>2

\* prune keeps what Campaigns remembers, in a good store.
LEMMA PruneIs ==
  ASSUME NEW store, Good(store), NEW now
  PROVE  Good(Prune(store, now)) /\ Prune(store, now).entries = Promise!Remembered(store.entries, now)
<1> DEFINE sigs == store.entries
           n    == Len(sigs)
           Body(g, s) == IF s = {} THEN EmptyStore ELSE Kept(g[s \ {Max(s)}], sigs[Max(s)], now)
           it == CHOOSE g : g = [s \in SUBSET (1 .. n) |-> Body(g, s)]
           Body2(g, s) == IF s = {} THEN << >> ELSE Recalled(g[s \ {Max(s)}], sigs[Max(s)], now)
           it2 == CHOOSE g : g = [s \in SUBSET (1 .. n) |-> Body2(g, s)]
           State == {st \in Store : Good(st)}
<1>1. n \in Nat /\ DOMAIN sigs = 1 .. n /\ \A k \in 1 .. n : sigs[k] \in PrSignature  BY DEF Good, Store
<1>2. Prune(store, now) = it[1 .. n]  BY <1>1 DEF Prune, FoldLeft, MapThenFoldSet, Kept
<1>3. Promise!Remembered(sigs, now) = it2[1 .. n]
  <2>1. \A S : Promise!Max(S) = Max(S)  BY DEF Promise!Max, Max
  <2> QED  BY <1>1, <2>1, SameSignatures
           DEF Promise!Remembered, Promise!FoldLeft, Promise!MapThenFoldSet, Recalled
<1> HIDE DEF sigs, n
<1>4. EmptyStore \in State  BY EmptyIsGood DEF Good
<1>5. \A st \in State, k \in 1 .. n : Kept(st, sigs[k], now) \in State
  <2> SUFFICES ASSUME NEW st \in State, NEW k \in 1 .. n  PROVE  Kept(st, sigs[k], now) \in State  OBVIOUS
  <2>1. Good(Kept(st, sigs[k], now))  BY <1>1, KeptIs
  <2> QED  BY <2>1 DEF Good
<1>6. << >> \in Seq(PrSignature) /\ \A m \in Seq(PrSignature), k \in 1 .. n : Recalled(m, sigs[k], now) \in Seq(PrSignature)
  BY <1>1 DEF Recalled
<1> HIDE DEF State
<1>7. \E g : g = [s \in SUBSET (1 .. n) |-> Body(g, s)]
  <2> DEFINE step == [q \in State \X (1 .. n) |-> Kept(q[1], sigs[q[2]], now)]
  <2>1. step \in [State \X (1 .. n) -> State]  BY <1>5
  <2>2. \A q \in State, k \in 1 .. n : step[<<q, k>>] = Kept(q, sigs[k], now)  OBVIOUS
  <2> HIDE DEF step
  <2>3. PICK g : Along(g, n, State, EmptyStore, step)  BY <1>1, <1>4, <2>1, AlongExists
  <2>4. \A s \in SUBSET (1 .. n) : g[s] = Body(g, s)  BY <2>2, <2>3 DEF Along
  <2>5. g = [s \in SUBSET (1 .. n) |-> Body(g, s)]  BY <2>3, <2>4 DEF Along
  <2> QED  BY <2>5
<1>8. \E g : g = [s \in SUBSET (1 .. n) |-> Body2(g, s)]
  <2> DEFINE Memory == Seq(PrSignature)
             step == [q \in Memory \X (1 .. n) |-> Recalled(q[1], sigs[q[2]], now)]
  <2> HIDE DEF Memory
  <2>1. step \in [Memory \X (1 .. n) -> Memory]  BY <1>6 DEF Memory
  <2>2. \A q \in Memory, k \in 1 .. n : step[<<q, k>>] = Recalled(q, sigs[k], now)  OBVIOUS
  <2> HIDE DEF step
  <2>3. PICK g : Along(g, n, Memory, << >>, step)
    <3>1. << >> \in Memory  BY <1>6 DEF Memory
    <3> QED  BY <1>1, <2>1, <3>1, AlongExists
  <2>4. \A s \in SUBSET (1 .. n) : g[s] = Body2(g, s)  BY <2>2, <2>3 DEF Along
  <2>5. g = [s \in SUBSET (1 .. n) |-> Body2(g, s)]  BY <2>3, <2>4 DEF Along
  <2> QED  BY <2>5
<1>9. it = [s \in SUBSET (1 .. n) |-> Body(it, s)]  BY <1>7
<1>10. it2 = [s \in SUBSET (1 .. n) |-> Body2(it2, s)]  BY <1>8
<1> HIDE DEF it, it2
<1>11. it[1 .. 0] = EmptyStore /\ it2[1 .. 0] = << >>
  <2>1. 1 .. 0 = {} /\ {} \in SUBSET (1 .. n)  OBVIOUS
  <2> QED  BY <1>9, <1>10, <2>1
<1>12. ASSUME NEW k \in 1 .. n
       PROVE  it[1 .. k] = Kept(it[1 .. k - 1], sigs[k], now) /\ it2[1 .. k] = Recalled(it2[1 .. k - 1], sigs[k], now)
  <2>1. Max(1 .. k) = k /\ (1 .. k) \ {k} = 1 .. k - 1  BY LastOfPrefix
  <2>2. 1 .. k \in SUBSET (1 .. n) /\ k \in 1 .. k  BY <1>1
  <2> QED  BY <1>9, <1>10, <2>1, <2>2
<1> DEFINE Same(k) == Good(it[1 .. k]) /\ it[1 .. k].entries = it2[1 .. k]
           C == {k \in 0 .. n : Same(k)}
<1>13. Same(0)  BY <1>11, EmptyIsGood DEF EmptyStore
<1>14. ASSUME NEW k \in 1 .. n, Same(k - 1)  PROVE  Same(k)
  <2> DEFINE st == it[1 .. k - 1]
  <2> HIDE DEF st
  <2>1. Good(st) /\ st.entries = it2[1 .. k - 1]  BY <1>14 DEF st
  <2>2. Good(Kept(st, sigs[k], now)) /\ Kept(st, sigs[k], now).entries = Recalled(st.entries, sigs[k], now)
    BY <1>1, <2>1, KeptIs
  <2> QED  BY <1>12, <2>1, <2>2 DEF st
<1> HIDE DEF Same
<1>15. n \in C
  <2>1. 0 \in C  BY <1>1, <1>13
  <2>2. \A k \in 1 .. n : k - 1 \in C => k \in C  BY <1>1, <1>14
  <2> HIDE DEF C
  <2> QED  BY <1>1, <2>1, <2>2, Upward
<1>16. Same(n)  BY <1>15
<1> QED  BY <1>2, <1>3, <1>16 DEF Same, sigs

-----------------------------------------------------------------------------
(* Views *)

LEMMA RootsAreComponents ==
  ASSUME NEW store, Good(store), NEW i \in DOMAIN store.entries, NEW j \in DOMAIN store.entries
  PROVE  Root(store, i) = Root(store, j) <=> j \in Promise!Component(store.entries, i)
<1>1. PICK rep : Forest(store.parent, Len(store.entries), rep) /\ Classes(rep, store.entries)
  BY DEF Good, Clustered
<1>2. store.entries \in Seq(PrSignature) /\ DOMAIN store.entries = 1 .. Len(store.entries)
      /\ Len(store.entries) \in Nat
  BY DEF Good, Store
<1>3. Root(store, i) = rep[i] /\ Root(store, j) = rep[j]  BY <1>1, <1>2, FindIs DEF Root
<1> QED  BY <1>1, <1>2, <1>3, ComponentIs

LEMMA TwoElements ==
  ASSUME NEW S, IsFiniteSet(S)
  PROVE  Cardinality(S) \in Nat /\ (Cardinality(S) >= 2 <=> \E a, b \in S : a # b)
<1>1. Cardinality(S) \in Nat  BY FS_CardinalityType
<1>2. ASSUME NEW a \in S, NEW b \in S, a # b  PROVE  Cardinality(S) >= 2
  <2>1. {a, b} \subseteq S  OBVIOUS
  <2>2. IsFiniteSet({a}) /\ Cardinality({a}) = 1  BY FS_Singleton
  <2>3. Cardinality({a} \cup {b}) = 2  BY <1>2, <2>2, FS_AddElement
  <2>4. {a, b} = {a} \cup {b}  OBVIOUS
  <2>5. Cardinality({a, b}) <= Cardinality(S)  BY <2>1, FS_Subset
  <2> QED  BY <1>1, <2>3, <2>4, <2>5
<1>3. ASSUME Cardinality(S) >= 2  PROVE  \E a, b \in S : a # b
  <2>1. S # {}  BY <1>3, FS_EmptySet
  <2>2. PICK a \in S : TRUE  BY <2>1
  <2>3. S # {a}  BY <1>3, FS_Singleton
  <2> QED  BY <2>2, <2>3
<1> QED  BY <1>1, <1>2, <1>3

\* What an arrival is told is what Campaigns says of its component.
LEMMA ViewIs ==
  ASSUME NEW store, Good(store), NEW id \in DOMAIN store.entries
  PROVE  ViewOf(store, id) = Promise!ViewOf(store.entries, id)
<1> DEFINE sigs    == store.entries
           members == {e \in DOMAIN store.entries : Root(store, e) = Root(store, id)}
           whole   == Promise!Component(sigs, id)
           of      == [e \in members |-> store.entries[e]]
           size      == Cardinality(members)
           repos     == {of[e].repo : e \in members}
           strangers == {of[e].author : e \in {m \in members : of[m].stranger}}
           burst     == {e \in members : Recent(of[e], of[id].arrived)}
           said       == {sigs[j] : j \in whole}
           strangers2 == {s.author : s \in {m \in said : m.stranger}}
           repos2     == {s.repo : s \in said}
           counts  == [size |-> size, repos |-> Cardinality(repos), strangers |-> Cardinality(strangers),
                       burst |-> Cardinality(burst)]
           rules2  == {"campaign" : a \in {x \in strangers2 \X strangers2 : x[1] # x[2]}}
                        \cup {"xrepo" : x \in {y \in repos2 \X repos2 : y[1] # y[2]}}
<1>1. sigs \in Seq(PrSignature) /\ DOMAIN sigs = 1 .. Len(sigs) /\ Len(sigs) \in Nat  BY DEF Good, Store
<1>2. members = whole
  <2>1. whole \subseteq DOMAIN sigs  BY DEF Promise!Component
  <2>2. \A e \in DOMAIN sigs : e \in members <=> e \in whole
    <3> SUFFICES ASSUME NEW e \in DOMAIN sigs  PROVE  e \in members <=> e \in whole  OBVIOUS
    <3>1. Root(store, id) = Root(store, e) <=> e \in whole  BY RootsAreComponents
    <3> HIDE DEF whole
    <3> QED  BY <3>1
  <2> HIDE DEF whole
  <2> QED  BY <2>1, <2>2
<1>3. id \in members  OBVIOUS
<1>4. IsFiniteSet(members)
  <2>1. members \subseteq 1 .. Len(sigs) /\ IsFiniteSet(1 .. Len(sigs))  BY <1>1, FS_Interval
  <2> QED  BY <2>1, FS_Subset
<1>5. ViewOf(store, id) = [size |-> counts.size, repos |-> counts.repos, strangers |-> counts.strangers,
                           burst |-> counts.burst, rules |-> Rules(counts)]
  BY Zenon DEF ViewOf
<1>6. Promise!ViewOf(sigs, id)
        = [size |-> Cardinality(whole), repos |-> Cardinality(repos2), strangers |-> Cardinality(strangers2),
           burst |-> Cardinality({j \in whole : Promise!Recent(sigs[j], sigs[id].arrived)}), rules |-> rules2]
  <2>1. \A S : Promise!Cardinality(S) = Cardinality(S)  BY DEF Promise!Cardinality, Cardinality
  <2>2. Promise!ViewOf(sigs, id)
        = [size |-> Promise!Cardinality(whole), repos |-> Promise!Cardinality(repos2),
           strangers |-> Promise!Cardinality(strangers2),
           burst |-> Promise!Cardinality({j \in whole : Promise!Recent(sigs[j], sigs[id].arrived)}), rules |-> rules2]
    BY Zenon DEF Promise!ViewOf
  <2> HIDE DEF whole, repos2, strangers2, rules2
  <2> QED  BY <2>1, <2>2
<1> HIDE DEF whole
<1>7. \A e \in members : of[e] = sigs[e]  OBVIOUS
<1>8. repos = repos2  BY <1>2, <1>7
<1>9. strangers = strangers2
  <2>1. \A a : a \in strangers <=> \E e \in members : sigs[e].stranger /\ a = sigs[e].author  BY <1>7
  <2>2. \A a : a \in strangers2 <=> \E e \in members : sigs[e].stranger /\ a = sigs[e].author  BY <1>2
  <2> HIDE DEF strangers, strangers2
  <2> QED  BY <2>1, <2>2
<1>10. burst = {j \in whole : Promise!Recent(sigs[j], sigs[id].arrived)}
  BY <1>2, <1>3, <1>7, SameSignatures
<1>11. IsFiniteSet(repos) /\ IsFiniteSet(strangers)
  <2> DEFINE authors == {of[e].author : e \in members}
             inRepo  == [e \in members |-> of[e].repo]
             byWhom  == [e \in members |-> of[e].author]
  <2>1. IsFiniteSet(repos)
    <3> HIDE DEF members, of
    <3>1. inRepo \in Surjection(members, repos)  BY DEF Surjection
    <3> QED  BY <1>4, <3>1, FS_Surjection
  <2>2. IsFiniteSet(authors)
    <3> HIDE DEF members, of
    <3>1. byWhom \in Surjection(members, authors)  BY DEF Surjection
    <3> QED  BY <1>4, <3>1, FS_Surjection
  <2>3. strangers \subseteq authors
    <3> HIDE DEF members, of
    <3> QED  OBVIOUS
  <2> HIDE DEF strangers, members, authors
  <2> QED  BY <2>1, <2>2, <2>3, FS_Subset
<1>12. (\E a, b \in repos : a # b) => size >= 2
  <2> SUFFICES ASSUME NEW e \in members, NEW f \in members, of[e].repo # of[f].repo  PROVE  size >= 2  OBVIOUS
  <2>1. e # f  OBVIOUS
  <2> HIDE DEF members
  <2> QED  BY <1>4, <2>1, TwoElements
<1>13. (\E a, b \in strangers : a # b) => size >= 2
  <2> SUFFICES ASSUME NEW e \in members, NEW f \in members, of[e].author # of[f].author  PROVE  size >= 2  OBVIOUS
  <2>1. e # f  OBVIOUS
  <2> HIDE DEF members
  <2> QED  BY <1>4, <2>1, TwoElements
<1> HIDE DEF members, of, repos, strangers, repos2, strangers2, size
<1>14. Cardinality(repos) >= 2 <=> \E a, b \in repos : a # b  BY <1>11, TwoElements
<1>15. Cardinality(strangers) >= 2 <=> \E a, b \in strangers : a # b  BY <1>11, TwoElements
<1>16. Rules(counts) = rules2
  <2>1. \A r : r \in Rules(counts) <=> \/ r = "campaign" /\ \E a, b \in strangers : a # b
                                       \/ r = "xrepo" /\ \E a, b \in repos : a # b
    BY <1>12, <1>13, <1>14, <1>15 DEF Rules
  <2>2. \A r : r \in rules2 <=> \/ r = "campaign" /\ \E a, b \in strangers : a # b
                                \/ r = "xrepo" /\ \E a, b \in repos : a # b
    <3> DEFINE P == {x \in strangers2 \X strangers2 : x[1] # x[2]}
               Q == {y \in repos2 \X repos2 : y[1] # y[2]}
    <3>1. P # {} <=> \E a, b \in strangers : a # b
      <4>1. ASSUME NEW a \in strangers, NEW b \in strangers, a # b  PROVE  <<a, b>> \in P  BY <1>9, <4>1
      <4>2. ASSUME NEW x \in P  PROVE  \E a, b \in strangers : a # b
        <5>1. x[1] \in strangers /\ x[2] \in strangers /\ x[1] # x[2]  BY <1>9
        <5> QED  BY <5>1
      <4> HIDE DEF P
      <4> QED  BY <4>1, <4>2
    <3>2. Q # {} <=> \E a, b \in repos : a # b
      <4>1. ASSUME NEW a \in repos, NEW b \in repos, a # b  PROVE  <<a, b>> \in Q  BY <1>8, <4>1
      <4>2. ASSUME NEW x \in Q  PROVE  \E a, b \in repos : a # b
        <5>1. x[1] \in repos /\ x[2] \in repos /\ x[1] # x[2]  BY <1>8
        <5> QED  BY <5>1
      <4> HIDE DEF Q
      <4> QED  BY <4>1, <4>2
    <3>3. rules2 = {"campaign" : a \in P} \cup {"xrepo" : x \in Q}  OBVIOUS
    <3> HIDE DEF rules2, P, Q
    <3> QED  BY <3>1, <3>2, <3>3
  <2> HIDE DEF rules2
  <2> QED  BY <2>1, <2>2
<1> HIDE DEF rules2, burst
<1> QED  BY <1>2, <1>5, <1>6, <1>8, <1>9, <1>10, <1>16 DEF size

-----------------------------------------------------------------------------
(* The handlers *)

\* What a handler carries: a signature with the time when it started.
Stamped == {[s EXCEPT !.arrived = c] : s \in Sigs, c \in Times}

\* The inductive invariant: every store is good, whoever has used it, and every
\* handler carries a signature that Campaigns may see arrive.
ClusterInv ==
  /\ clock \in Times /\ handled \in 0 .. MaxHandled /\ restarts \in 0 .. MaxRestarts
  /\ tasks \in [Tasks -> {NoTask} \cup [pc : {"running"}, sig : Stamped, scored : BOOLEAN]]
  /\ stores \in [Repos -> Store] /\ \A r \in Repos : Good(stores[r])
  /\ view.rules \subseteq {"campaign", "xrepo"}

LEMMA StampedIs ==
  /\ Stamped \subseteq PrSignature
  /\ \A sig \in Stamped : sig.arrived \in Times /\ sig.repo \in Repos
                          /\ \E s \in Sigs : s.repo = sig.repo /\ sig = [s EXCEPT !.arrived = sig.arrived]
<1>1. ASSUME NEW s \in Sigs, NEW c \in Times
      PROVE  LET sig == [s EXCEPT !.arrived = c]
             IN  sig \in PrSignature /\ sig.arrived = c /\ sig.repo = s.repo
  <2>1. s \in PrSignature  BY SigsAssumption
  <2> QED  BY <2>1 DEF PrSignature
<1>2. \A sig \in PrSignature : sig.arrived \in Times /\ sig.repo \in Repos  BY DEF PrSignature
<1>3. ASSUME NEW sig \in Stamped
      PROVE  sig \in PrSignature /\ \E s \in Sigs : s.repo = sig.repo /\ sig = [s EXCEPT !.arrived = sig.arrived]
  <2>1. PICK s \in Sigs, c \in Times : sig = [s EXCEPT !.arrived = c]  BY DEF Stamped
  <2>2. sig \in PrSignature /\ sig.arrived = c /\ sig.repo = s.repo  BY <1>1, <2>1
  <2> QED  BY <2>1, <2>2
<1> QED  BY <1>2, <1>3

\* What a handler does under the lock, and what it then has to tell.
LEMMA ProcessIs ==
  ASSUME ClusterInv, NEW t \in Tasks, tasks[t].pc = "running"
  PROVE  LET sig    == tasks[t].sig
             pruned == Prune(stores[sig.repo], sig.arrived)
             grown  == Insert(pruned, sig)
             id     == Len(grown.entries)
             kept   == Promise!Remembered(stores[sig.repo].entries, sig.arrived)
         IN  /\ sig \in Stamped
             /\ Good(pruned) /\ pruned.entries = kept
             /\ Good(Viewed(grown, id)) /\ Viewed(grown, id).entries = Append(kept, sig)
             /\ ViewOf(grown, id) = Promise!ViewOf(Append(kept, sig), Len(Append(kept, sig)))
<1> DEFINE sig    == tasks[t].sig
           store  == stores[sig.repo]
           pruned == Prune(store, sig.arrived)
           grown  == Insert(pruned, sig)
           id     == Len(grown.entries)
           kept   == Promise!Remembered(store.entries, sig.arrived)
<1>1. sig \in Stamped
  <2>1. NoTask.pc # "running"  BY DEF NoTask
  <2> QED  BY <2>1 DEF ClusterInv
<1>2. sig \in PrSignature /\ sig.repo \in Repos  BY <1>1, StampedIs
<1>3. Good(store)  BY <1>2 DEF ClusterInv
<1> HIDE DEF sig, store
<1>4. Good(pruned) /\ pruned.entries = kept  BY <1>3, PruneIs
<1> HIDE DEF pruned, kept
<1>5. Good(grown) /\ grown.entries = Append(kept, sig)  BY <1>2, <1>4, InsertIs
<1>6. id \in DOMAIN grown.entries
  <2>1. pruned.entries \in Seq(PrSignature)  BY <1>4 DEF Good, Store
  <2> HIDE DEF grown
  <2> QED  BY <1>4, <1>5, <2>1
<1> HIDE DEF grown
<1>7. Good(Viewed(grown, id)) /\ Viewed(grown, id).entries = grown.entries  BY <1>5, <1>6, ViewedIs
<1>8. ViewOf(grown, id) = Promise!ViewOf(grown.entries, id)  BY <1>5, <1>6, ViewIs
<1>9. ViewOf(grown, id) = Promise!ViewOf(Append(kept, sig), Len(Append(kept, sig)))  BY <1>5, <1>8
<1>10. Viewed(grown, id).entries = Append(kept, sig)  BY <1>5, <1>7
<1> HIDE DEF id
<1> QED  BY <1>1, <1>4, <1>7, <1>9, <1>10 DEF sig, store, pruned, grown, id, kept

LEMMA RulesAre == \A store, id : ViewOf(store, id).rules \subseteq {"campaign", "xrepo"}
<1>1. \A v : Rules(v) \subseteq {"campaign", "xrepo"}  BY DEF Rules
<1>2. ASSUME NEW store, NEW id  PROVE  \E v : ViewOf(store, id).rules = Rules(v)  BY DEF ViewOf
<1> QED  BY <1>1, <1>2

LEMMA InitInv == Init => ClusterInv
<1> SUFFICES ASSUME Init  PROVE  ClusterInv  OBVIOUS
<1>1. EmptyStore \in Store /\ Good(EmptyStore)  BY EmptyIsGood DEF Good
<1>2. stores \in [Repos -> Store] /\ \A r \in Repos : Good(stores[r])  BY <1>1 DEF Init
<1>3. clock \in Times /\ handled \in 0 .. MaxHandled /\ restarts \in 0 .. MaxRestarts
  BY TimesAssumption, ClustersBounds DEF Init, Times
<1>4. view.rules \subseteq {"campaign", "xrepo"}  BY DEF Init, NoView
<1> QED  BY <1>2, <1>3, <1>4 DEF ClusterInv, Init

LEMMA NextInv == ClusterInv /\ [Next]_vars => ClusterInv'
<1> SUFFICES ASSUME ClusterInv, [Next]_vars  PROVE  ClusterInv'  OBVIOUS
<1> USE DEF ClusterInv
<1>1. ASSUME NEW t \in Tasks, NEW sig \in Sigs, NEW scored \in BOOLEAN, Begin(t, sig, scored)  PROVE  ClusterInv'
  <2>1. [sig EXCEPT !.arrived = clock] \in Stamped  BY DEF Stamped
  <2>2. handled' \in 0 .. MaxHandled  BY <1>1, ClustersBounds DEF Begin
  <2>3. tasks' \in [Tasks -> {NoTask} \cup [pc : {"running"}, sig : Stamped, scored : BOOLEAN]]
    <3> DEFINE new == [sig EXCEPT !.arrived = clock]
    <3> HIDE DEF new
    <3> QED  BY <1>1, <2>1 DEF Begin, new
  <2> QED  BY <1>1, <2>2, <2>3 DEF Begin
<1>2. ASSUME NEW t \in Tasks, Process(t)  PROVE  ClusterInv'
  <2> DEFINE sig    == tasks[t].sig
             pruned == Prune(stores[sig.repo], sig.arrived)
             grown  == Insert(pruned, sig)
             id     == Len(grown.entries)
  <2>1. tasks[t].pc = "running"  BY <1>2 DEF Process
  <2>2. sig \in Stamped /\ Good(pruned) /\ Good(Viewed(grown, id))  BY <2>1, ProcessIs
  <2>3. sig.repo \in Repos  BY <2>2, StampedIs
  <2>4. \/ stores' = [stores EXCEPT ![sig.repo] = Viewed(grown, id)] /\ view' = ViewOf(grown, id)
        \/ stores' = [stores EXCEPT ![sig.repo] = pruned] /\ view' = view
    BY <1>2 DEF Process
  <2>5. clock' = clock /\ handled' = handled /\ restarts' = restarts /\ tasks' = [tasks EXCEPT ![t] = NoTask]
    BY <1>2 DEF Process
  <2>6. view'.rules \subseteq {"campaign", "xrepo"}  BY <2>4, RulesAre
  <2> HIDE DEF sig, pruned, grown, id
  <2>7. \A s : Good(s) => s \in Store  BY DEF Good
  <2>8. stores' \in [Repos -> Store] /\ \A r \in Repos : Good(stores'[r])  BY <2>2, <2>3, <2>4, <2>7
  <2> QED  BY <2>5, <2>6, <2>8
<1>3. ASSUME NEW t \in Tasks, GiveUp(t)  PROVE  ClusterInv'  BY <1>3 DEF GiveUp
<1>4. CASE Tick
  <2>1. clock' \in Times  BY <1>4, TimesAssumption DEF Tick, Times
  <2> QED  BY <1>4, <2>1 DEF Tick
<1>5. CASE Restart
  <2>1. EmptyStore \in Store /\ Good(EmptyStore)  BY EmptyIsGood DEF Good
  <2>2. stores' \in [Repos -> Store] /\ \A r \in Repos : Good(stores'[r])  BY <1>5, <2>1 DEF Restart
  <2>3. restarts' \in 0 .. MaxRestarts /\ view'.rules \subseteq {"campaign", "xrepo"}
    BY <1>5, ClustersBounds DEF Restart, NoView
  <2> QED  BY <1>5, <2>2, <2>3 DEF Restart
<1>6. CASE UNCHANGED vars  BY <1>6 DEF vars
<1> QED  BY <1>1, <1>2, <1>3, <1>4, <1>5, <1>6 DEF Next

\* The inductive invariant of the stores, whatever the handlers, the clock and
\* the restarts do.
THEOREM StoresAreGood == Spec => []ClusterInv
BY InitInv, NextInv, PTL DEF Spec

\* The parts of every store fit together: each entry with a diff has its id in
\* the index and the index describes the entry that it names.
THEOREM StoresFitTogether == Spec => []TypeOK
<1>1. ClusterInv => TypeOK
  <2> SUFFICES ASSUME ClusterInv  PROVE  TypeOK  OBVIOUS
  <2>1. tasks \in [Tasks -> Task]
    <3>1. {NoTask} \cup [pc : {"running"}, sig : Stamped, scored : BOOLEAN] \subseteq Task
      BY StampedIs DEF Task
    <3> QED  BY <3>1 DEF ClusterInv
  <2>2. ASSUME NEW r \in Repos  PROVE  WellFormed(stores[r])
    <3> DEFINE s == stores[r]
               n == Len(s.entries)
    <3>1. s \in Store /\ Indexed(s) /\ Clustered(s)  BY DEF ClusterInv, Good
    <3> HIDE DEF s
    <3>2. s.entries \in Seq(PrSignature) /\ DOMAIN s.entries = 1 .. n  BY <3>1 DEF Store
    <3>3. s.parent \in [1 .. n -> 1 .. n]  BY <3>1 DEF Clustered, Forest, Labelled
    <3>4. s.sims = [i \in DOMAIN s.owner |-> s.entries[s.owner[i]].diff]
      <4>1. s.sims \in Seq(0 .. Scale) /\ DOMAIN s.sims = DOMAIN s.owner  BY <3>1 DEF Store, Indexed
      <4>2. s.sims \in [1 .. Len(s.sims) -> 0 .. Scale]  BY <4>1, LenProperties
      <4>3. s.sims = [i \in DOMAIN s.sims |-> s.sims[i]]  BY <4>2
      <4> QED  BY <3>1, <4>1, <4>3 DEF Indexed
    <3> HIDE DEF n
    <3>5. WellFormed(s)  BY <3>1, <3>2, <3>3, <3>4 DEF WellFormed, Indexed
    <3> QED  BY <3>5 DEF s
  <2> QED  BY <2>1, <2>2 DEF ClusterInv, TypeOK
<1> QED  BY <1>1, StoresAreGood, PTL

\* The trees of the union-find are the components of what is in the store: for
\* every sequence of arrivals, of whatever signatures, out of their order, and
\* after every prune.
THEOREM TreesAreComponents == Spec => []ClustersAreComponents
<1>1. ClusterInv => ClustersAreComponents
  BY RootsAreComponents DEF ClusterInv, ClustersAreComponents
<1> QED  BY <1>1, StoresAreGood, PTL

-----------------------------------------------------------------------------
(* The refinement *)

\* What the handlers know of the stores' entries: the memory of Campaigns.
Memory == [r \in Repos |-> stores[r].entries]

LEMMA InitKeeps == Init => Promise!Init
BY DEF Init, Promise!Init, EmptyStore, NoView, Promise!NoView

LEMMA ProcessKeeps ==
  ASSUME ClusterInv, NEW t \in Tasks, Process(t)
  PROVE  Promise!Next
<1> DEFINE sig    == tasks[t].sig
           pruned == Prune(stores[sig.repo], sig.arrived)
           grown  == Insert(pruned, sig)
           id     == Len(grown.entries)
           kept   == Promise!Remembered(stores[sig.repo].entries, sig.arrived)
<1>1. tasks[t].pc = "running"  BY DEF Process
<1>2. /\ sig \in Stamped /\ pruned.entries = kept /\ Viewed(grown, id).entries = Append(kept, sig)
      /\ ViewOf(grown, id) = Promise!ViewOf(Append(kept, sig), Len(Append(kept, sig)))
  BY <1>1, ProcessIs
<1>3. PICK came \in Stamped : came = sig  BY <1>2
<1>4. came.repo \in Repos /\ came.arrived \in Promise!Times  BY StampedIs, SameSignatures
<1>5. PICK s \in Sigs : s.repo = came.repo /\ came = [s EXCEPT !.arrived = came.arrived]  BY StampedIs
<1>6. \/ stores' = [stores EXCEPT ![came.repo] = Viewed(grown, id)] /\ view' = ViewOf(grown, id)
      \/ stores' = [stores EXCEPT ![came.repo] = pruned] /\ view' = view
  BY <1>3 DEF Process
<1>7. DOMAIN stores = Repos /\ Memory[came.repo] = stores[came.repo].entries  BY <1>4 DEF ClusterInv, Memory
<1>8. kept = Promise!Remembered(Memory[came.repo], came.arrived)  BY <1>3, <1>7
<1>9. /\ pruned.entries = kept /\ Viewed(grown, id).entries = Append(kept, came)
      /\ ViewOf(grown, id) = Promise!ViewOf(Append(kept, came), Len(Append(kept, came)))
  BY <1>2, <1>3
<1> HIDE DEF sig, pruned, grown, id, kept
<1>10. CASE stores' = [stores EXCEPT ![came.repo] = Viewed(grown, id)] /\ view' = ViewOf(grown, id)
  <2>1. Memory' = [Memory EXCEPT ![came.repo] = Append(kept, came)]  BY <1>4, <1>7, <1>9, <1>10 DEF Memory
  <2>2. Promise!Arrive(came.repo, came)  BY <1>8, <1>9, <1>10, <2>1 DEF Promise!Arrive, Memory
  <2>3. Promise!Arrive(s.repo, [s EXCEPT !.arrived = came.arrived])  BY <1>5, <2>2
  <2> QED  BY <1>4, <2>3 DEF Promise!Next
<1>11. CASE stores' = [stores EXCEPT ![came.repo] = pruned] /\ view' = view
  <2>1. Memory' = [Memory EXCEPT ![came.repo] = kept]  BY <1>4, <1>7, <1>9, <1>11 DEF Memory
  <2>2. Promise!Age(came.repo, came.arrived)  BY <1>8, <1>11, <2>1 DEF Promise!Age, Memory
  <2> QED  BY <1>4, <2>2 DEF Promise!Next
<1> QED  BY <1>6, <1>10, <1>11

LEMMA NextKeeps == ClusterInv /\ [Next]_vars => [Promise!Next]_(Promise!campaigns)
<1> SUFFICES ASSUME ClusterInv, [Next]_vars  PROVE  [Promise!Next]_(Promise!campaigns)  OBVIOUS
<1>1. stores' = stores /\ view' = view => UNCHANGED Promise!campaigns  BY DEF Promise!campaigns
<1>2. ASSUME NEW t \in Tasks, NEW sig \in Sigs, NEW scored \in BOOLEAN, Begin(t, sig, scored)
      PROVE  UNCHANGED Promise!campaigns
  BY <1>1, <1>2 DEF Begin
<1>3. ASSUME NEW t \in Tasks, GiveUp(t)  PROVE  UNCHANGED Promise!campaigns  BY <1>1, <1>3 DEF GiveUp
<1>4. ASSUME Tick  PROVE  UNCHANGED Promise!campaigns  BY <1>1, <1>4 DEF Tick
<1>5. ASSUME Restart  PROVE  Promise!Next
  <2>1. stores' = [r \in Repos |-> EmptyStore] /\ view' = NoView  BY <1>5 DEF Restart
  <2>2. Promise!Forget  BY <2>1 DEF Promise!Forget, Promise!Init, EmptyStore, NoView, Promise!NoView
  <2> QED  BY <2>2 DEF Promise!Next
<1>6. CASE UNCHANGED vars  BY <1>1, <1>6 DEF vars
<1> QED  BY <1>2, <1>3, <1>4, <1>5, <1>6, ProcessKeeps DEF Next

\* The stores, with their forests, indexes and overlapping handlers, implement
\* Campaigns: a scored pull request is told the size, the strangers, the
\* repositories, the burst and the rules of the component that it joins, among
\* the arrivals that its own clock still remembers.
THEOREM StoresKeepThePromise == Spec => KeepsPromise
<1> QED  BY InitKeeps, NextKeeps, StoresAreGood, PTL DEF Spec, KeepsPromise, Promise!Spec
=============================================================================
