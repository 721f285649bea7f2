-------------------------- MODULE FederationProofs --------------------------
(***************************************************************************)
(* That only corroborated verdicts bind, for any installations, verdicts   *)
(* and publishers, and that the file of a serial publisher loses nothing.  *)
(*                                                                         *)
(* poll and corroborated_strength each make one pass over a sequence: a    *)
(* fold.  What a fold computes is proved here by the least counterexample: *)
(* the induction theorems of the library take a predicate as an operator,  *)
(* which the provers cannot instantiate, but that a nonempty set of        *)
(* naturals has a least element speaks of sets only.                       *)
(***************************************************************************)
EXTENDS Federation, FiniteSetTheorems, SequenceTheorems, WellFoundedInduction, TLAPS

\* A nonempty set of natural numbers has a least element.
LEMMA LeastNatural ==
  ASSUME NEW T, T \subseteq Nat, T # {}
  PROVE  \E n \in T : \A m \in T : n <= m
<1>1. IsWellFoundedOn(OpToRel(<, Nat), Nat)  BY NatLessThanWellFounded
<1>2. PICK n \in T : \A m \in T : <<m, n>> \notin OpToRel(<, Nat)  BY <1>1, WFMin
<1>3. \A m \in T : ~ m < n  BY <1>2 DEF OpToRel
<1> QED  BY <1>3

-----------------------------------------------------------------------------
(* Folds *)

\* pick takes an element out of every set to fold; g is the fold of step over
\* the subsets of D.
Picks(pick, D) == \A s \in SUBSET D : s # {} => pick[s] \in s

Folds(g, D, base, step, pick) ==
  \A s \in SUBSET D : g[s] = IF s = {} THEN base ELSE step[<<g[s \ {pick[s]}], pick[s]>>]

\* Over a finite set there is a fold, and its values are in State when the
\* steps lead from State to State.
LEMMA FoldExists ==
  ASSUME NEW D, IsFiniteSet(D), NEW State, NEW base \in State, NEW step \in [State \X D -> State],
         NEW pick, Picks(pick, D)
  PROVE  \E g \in [SUBSET D -> State] : Folds(g, D, base, step, pick)
<1> USE DEF Picks
<1> DEFINE Small(n) == {s \in SUBSET D : Cardinality(s) <= n}
           Body(g, s) == IF s = {} THEN base ELSE step[<<g[s \ {pick[s]}], pick[s]>>]
           Exists(n) == \E g \in [Small(n) -> State] : g = [s \in Small(n) |-> Body(g, s)]
           Fails == {n \in Nat : ~Exists(n)}
<1>1. \A s \in SUBSET D : IsFiniteSet(s) /\ Cardinality(s) \in Nat /\ (Cardinality(s) = 0 <=> s = {})
  BY FS_Subset, FS_CardinalityType, FS_EmptySet
<1>2. \A s \in SUBSET D : s # {} => /\ pick[s] \in D /\ s \ {pick[s]} \in SUBSET D
                                    /\ Cardinality(s \ {pick[s]}) = Cardinality(s) - 1
  BY <1>1, FS_RemoveElement
<1>3. Exists(0)
  <2>1. \A s \in Small(0) : s = {}  BY <1>1
  <2> DEFINE g == [s \in Small(0) |-> base]
  <2>2. g \in [Small(0) -> State] /\ g = [s \in Small(0) |-> Body(g, s)]  BY <2>1
  <2> QED  BY <2>2
<1>4. ASSUME NEW n \in Nat, Exists(n)  PROVE  Exists(n + 1)
  <2>1. PICK g \in [Small(n) -> State] : g = [s \in Small(n) |-> Body(g, s)]  BY <1>4
  <2> DEFINE h == [s \in Small(n + 1) |-> Body(g, s)]
  <2>2. \A s \in Small(n + 1) : s # {} => s \ {pick[s]} \in Small(n)  BY <1>1, <1>2
  <2>3. \A s \in Small(n + 1) : h[s] \in State
    <3> SUFFICES ASSUME NEW s \in Small(n + 1), s # {}  PROVE  Body(g, s) \in State  OBVIOUS
    <3>1. g[s \ {pick[s]}] \in State /\ pick[s] \in D  BY <2>2, <1>2
    <3> QED  BY <3>1
  <2>4. \A s \in Small(n) : h[s] = g[s]
    <3>1. Small(n) \subseteq Small(n + 1)  BY <1>1
    <3>2. \A s \in Small(n) : g[s] = Body(g, s)  BY <2>1
    <3> QED  BY <3>1, <3>2
  <2>5. \A s \in Small(n + 1) : h[s] = Body(h, s)
    <3> SUFFICES ASSUME NEW s \in Small(n + 1), s # {}
                 PROVE  h[s] = step[<<h[s \ {pick[s]}], pick[s]>>]  OBVIOUS
    <3>1. h[s \ {pick[s]}] = g[s \ {pick[s]}]  BY <2>2, <2>4
    <3>2. h[s] = step[<<g[s \ {pick[s]}], pick[s]>>]  OBVIOUS
    <3> QED  BY <3>1, <3>2
  <2>6. h \in [Small(n + 1) -> State]  BY <2>3
  <2>7. h = [s \in Small(n + 1) |-> Body(h, s)]  BY <2>5
  <2> HIDE DEF h
  <2> QED  BY <2>6, <2>7
<1> HIDE DEF Exists
<1>5. Fails = {}
  <2> SUFFICES ASSUME Fails # {}  PROVE  FALSE  OBVIOUS
  <2>1. PICK n \in Fails : \A m \in Fails : n <= m  BY LeastNatural
  <2>2. n # 0  BY <1>3, <2>1
  <2>3. n - 1 \in Nat /\ n - 1 \notin Fails  BY <2>1, <2>2
  <2>4. Exists(n - 1)  BY <2>3
  <2>5. Exists((n - 1) + 1)  BY <2>3, <2>4, <1>4
  <2> QED  BY <2>1, <2>5
<1>6. Small(Cardinality(D)) = SUBSET D  BY <1>1, FS_Subset
<1> HIDE DEF Small
<1>7. Exists(Cardinality(D))  BY <1>5, <1>1
<1> QED  BY <1>6, <1>7 DEF Exists, Folds

-----------------------------------------------------------------------------
(* What one pass over a sequence computes *)

\* FoldLeft takes the greatest index out: the prefixes of a sequence remain.
LEMMA LastOfPrefix ==
  /\ \A k \in Nat \ {0} : Max(1 .. k) = k /\ (1 .. k) \ {k} = 1 .. k - 1
  /\ \A n \in Nat : \A s \in SUBSET (1 .. n) : s # {} => Max(s) \in s
<1>1. ASSUME NEW k \in Nat \ {0}  PROVE  Max(1 .. k) = k /\ (1 .. k) \ {k} = 1 .. k - 1
  BY DEF Max
<1>2. ASSUME NEW n \in Nat, NEW s \in SUBSET (1 .. n), s # {}  PROVE  Max(s) \in s
  <2> DEFINE Room == {m \in Nat : \A i \in s : i <= m}
  <2>1. n \in Room  OBVIOUS
  <2>2. PICK m \in Room : \A k \in Room : m <= k  BY <2>1, LeastNatural
  <2>3. m \in s
    <3> PICK x \in s : TRUE  BY <1>2
    <3>1. m # 0  BY <2>2
    <3>2. CASE m \notin s
      <4>1. \A i \in s : i <= m - 1  BY <2>2, <3>2
      <4>2. m - 1 \in Room  BY <2>2, <3>1, <4>1
      <4> QED  BY <2>2, <4>2
    <3> QED  BY <3>2
  <2>4. \E x \in s : \A y \in s : x >= y  BY <2>2, <2>3
  <2> QED  BY <2>4 DEF Max
<1> QED  BY <1>1, <1>2

\* by_owner: a strength for some of the owners.
Owners == {Owner[i] : i \in Installations}
Tallies == UNION {[os -> Nat] : os \in SUBSET Owners}

\* entry(owner) raised to a strength is such a map again.
LEMMA RaisedTallies ==
  ASSUME NEW by_owner \in Tallies, NEW o \in Owners, NEW strength \in Nat
  PROVE  Raised(by_owner, o, strength) \in Tallies
<1>1. PICK os \in SUBSET Owners : by_owner \in [os -> Nat]  BY DEF Tallies
<1>2. Raised(by_owner, o, strength) \in [os \cup {o} -> Nat]  BY <1>1 DEF Raised
<1>3. os \cup {o} \in SUBSET Owners  OBVIOUS
<1> QED  BY <1>2, <1>3 DEF Tallies

\* What the first k verdicts say, and the tally after them.
Counted(verdicts, at, k) == {v \in {verdicts[j] : j \in 1 .. k} : Counts(v, at)}
StrengthsOf(verdicts, at, k, o) == {v.strength : v \in {w \in Counted(verdicts, at, k) : Owner[w.installation] = o}}
Tallied(tally, verdicts, at, k) ==
  /\ tally \in Tallies
  /\ DOMAIN tally = {Owner[v.installation] : v \in Counted(verdicts, at, k)}
  /\ \A o \in DOMAIN tally : /\ tally[o] \in StrengthsOf(verdicts, at, k, o)
                             /\ \A n \in StrengthsOf(verdicts, at, k, o) : n <= tally[o]

\* The pass over the verdicts leaves each owner's strongest one.
LEMMA ByOwnerTallied ==
  ASSUME NEW verdicts \in Seq(Verdicts), NEW at
  PROVE  Tallied(ByOwner(verdicts, at), verdicts, at, Len(verdicts))
<1> DEFINE N == Len(verdicts)
           Step(tally, v) == IF Counts(v, at) THEN Raised(tally, Owner[v.installation], v.strength) ELSE tally
           Body(g, s) == IF s = {} THEN << >> ELSE Step(g[s \ {Max(s)}], verdicts[Max(s)])
           it == CHOOSE g : g = [s \in SUBSET (1 .. N) |-> Body(g, s)]
<1>1. N \in Nat /\ DOMAIN verdicts = 1 .. N /\ \A k \in 1 .. N : verdicts[k] \in Verdicts
  OBVIOUS
<1>2. ByOwner(verdicts, at) = it[1 .. N]
  BY <1>1 DEF ByOwner, FoldLeft, MapThenFoldSet
<1>3. \A v \in Verdicts : v.strength \in Nat /\ Owner[v.installation] \in Owners
  BY FederationAssumption DEF Owners
<1>4. \A tally \in Tallies, v \in Verdicts : Step(tally, v) \in Tallies
  BY <1>3, RaisedTallies
<1>5. << >> \in Tallies
  <2>1. << >> \in [{} -> Nat]  OBVIOUS
  <2> QED  BY <2>1 DEF Tallies
<1> HIDE DEF Step
<1>6. \E g : g = [s \in SUBSET (1 .. N) |-> Body(g, s)]
  <2> DEFINE pick == [s \in SUBSET (1 .. N) |-> Max(s)]
             step == [p \in Tallies \X (1 .. N) |-> Step(p[1], verdicts[p[2]])]
  <2>1. Picks(pick, 1 .. N)  BY <1>1, LastOfPrefix DEF Picks
  <2>2. step \in [Tallies \X (1 .. N) -> Tallies]  BY <1>1, <1>4
  <2>3. IsFiniteSet(1 .. N)  BY <1>1, FS_Interval
  <2> HIDE DEF pick, step
  <2>4. PICK g0 \in [SUBSET (1 .. N) -> Tallies] : Folds(g0, 1 .. N, << >>, step, pick)
    BY <2>1, <2>2, <2>3, <1>5, FoldExists
  <2>5. ASSUME NEW s \in SUBSET (1 .. N)  PROVE  g0[s] = Body(g0, s)
    <3>1. CASE s = {}  BY <2>4, <3>1 DEF Folds
    <3>2. CASE s # {}
      <4>1. pick[s] = Max(s)  BY DEF pick
      <4>2. Max(s) \in 1 .. N /\ g0[s \ {Max(s)}] \in Tallies  BY <2>1, <3>2, <4>1 DEF Picks
      <4>3. step[<<g0[s \ {Max(s)}], Max(s)>>] = Step(g0[s \ {Max(s)}], verdicts[Max(s)])  BY <4>2 DEF step
      <4> QED  BY <2>4, <3>2, <4>1, <4>3 DEF Folds
    <3> QED  BY <3>1, <3>2
  <2>6. g0 = [s \in SUBSET (1 .. N) |-> Body(g0, s)]  BY <2>5
  <2> QED  BY <2>6
<1>7. it = [s \in SUBSET (1 .. N) |-> Body(it, s)]  BY <1>6
<1> HIDE DEF it
<1>8. it[{}] = << >>  BY <1>7
<1>9. \A k \in 1 .. N : it[1 .. k] = Step(it[1 .. k - 1], verdicts[k])
  <2> SUFFICES ASSUME NEW k \in 1 .. N  PROVE  it[1 .. k] = Step(it[1 .. k - 1], verdicts[k])  OBVIOUS
  <2>1. Max(1 .. k) = k /\ (1 .. k) \ {k} = 1 .. k - 1  BY LastOfPrefix
  <2>2. 1 .. k \in SUBSET (1 .. N) /\ k \in 1 .. k  BY <1>1
  <2> QED  BY <1>7, <2>1, <2>2
<1> DEFINE Good(k) == Tallied(it[1 .. k], verdicts, at, k)
<1>10. Good(0)
  <2>1. 1 .. 0 = {}  OBVIOUS
  <2> QED  BY <1>5, <1>8, <2>1 DEF Tallied, Counted
<1>11. ASSUME NEW k \in 1 .. N, Good(k - 1)  PROVE  Good(k)
  <2> DEFINE old == it[1 .. k - 1]
             new == it[1 .. k]
             v   == verdicts[k]
             o   == Owner[v.installation]
  <2>1. new = Step(old, v)  BY <1>9
  <2>2. v \in Verdicts /\ v.strength \in Nat /\ o \in Owners  BY <1>1, <1>3
  <2>3. new \in Tallies  BY <2>1, <2>2, <1>4, <1>11 DEF Tallied
  <2>4. Counted(verdicts, at, k) = Counted(verdicts, at, k - 1) \cup {w \in {v} : Counts(w, at)}
    <3>1. 1 .. k = (1 .. k - 1) \cup {k}  OBVIOUS
    <3>2. {verdicts[j] : j \in 1 .. k} = {verdicts[j] : j \in 1 .. k - 1} \cup {v}  BY <3>1
    <3> QED  BY <3>2 DEF Counted
  <2>5. CASE ~Counts(v, at)
    <3>1. Counted(verdicts, at, k) = Counted(verdicts, at, k - 1)  BY <2>4, <2>5
    <3>2. new = old  BY <2>1, <2>5 DEF Step
    <3> QED  BY <3>1, <3>2, <1>11 DEF Tallied, StrengthsOf
  <2>6. CASE Counts(v, at)
    <3>1. Counted(verdicts, at, k) = Counted(verdicts, at, k - 1) \cup {v}  BY <2>4, <2>6
    <3>2. new = Raised(old, o, v.strength)  BY <2>1, <2>6 DEF Step
    <3>3. DOMAIN new = DOMAIN old \cup {o}  BY <3>2 DEF Raised
    <3>4. DOMAIN new = {Owner[w.installation] : w \in Counted(verdicts, at, k)}
      BY <3>1, <3>3, <1>11 DEF Tallied
    <3>5. ASSUME NEW x \in DOMAIN new, x # o
          PROVE  new[x] = old[x] /\ x \in DOMAIN old /\ StrengthsOf(verdicts, at, k, x) = StrengthsOf(verdicts, at, k - 1, x)
      <4>1. new[x] = old[x] /\ x \in DOMAIN old  BY <3>2, <3>3, <3>5 DEF Raised
      <4>2. {w \in Counted(verdicts, at, k) : Owner[w.installation] = x}
              = {w \in Counted(verdicts, at, k - 1) : Owner[w.installation] = x}  BY <3>1, <3>5
      <4> QED  BY <4>1, <4>2 DEF StrengthsOf
    <3>6. StrengthsOf(verdicts, at, k, o) = StrengthsOf(verdicts, at, k - 1, o) \cup {v.strength}
      BY <3>1 DEF StrengthsOf
    <3>7. o \notin DOMAIN old => StrengthsOf(verdicts, at, k - 1, o) = {}
      BY <1>11 DEF Tallied, StrengthsOf
    <3>8. /\ new[o] \in StrengthsOf(verdicts, at, k, o)
          /\ \A n \in StrengthsOf(verdicts, at, k, o) : n <= new[o]
      <4>1. new[o] = IF o \in DOMAIN old /\ old[o] > v.strength THEN old[o] ELSE v.strength  BY <3>2 DEF Raised
      <4>2. CASE o \notin DOMAIN old  BY <4>1, <4>2, <3>6, <3>7, <2>2
      <4>3. CASE o \in DOMAIN old
        <5>1. /\ old[o] \in StrengthsOf(verdicts, at, k - 1, o)
              /\ \A n \in StrengthsOf(verdicts, at, k - 1, o) : n <= old[o]  BY <4>3, <1>11 DEF Tallied
        <5>2. old[o] \in Nat /\ \A n \in StrengthsOf(verdicts, at, k - 1, o) : n \in Nat
          <6>1. \A w \in Counted(verdicts, at, k - 1) : w.strength \in Nat  BY <1>1, <1>3 DEF Counted
          <6> QED  BY <5>1, <6>1 DEF StrengthsOf
        <5> QED  BY <4>1, <4>3, <5>1, <5>2, <3>6, <2>2
      <4> QED  BY <4>2, <4>3
    <3> QED  BY <2>3, <3>4, <3>5, <3>8, <1>11 DEF Tallied
  <2> QED  BY <2>5, <2>6
<1> DEFINE Bad == {k \in Nat : k <= N /\ ~Good(k)}
<1> HIDE DEF Good
<1>12. Bad = {}
  <2> SUFFICES ASSUME Bad # {}  PROVE  FALSE  OBVIOUS
  <2>1. PICK k \in Bad : \A m \in Bad : k <= m  BY LeastNatural
  <2>2. k \in 1 .. N  BY <2>1, <1>1, <1>10
  <2>3. k - 1 \in Nat /\ k - 1 \notin Bad  BY <2>1, <2>2
  <2> QED  BY <2>1, <2>2, <2>3, <1>11, <1>1
<1>13. Good(N)  BY <1>1, <1>12
<1> QED  BY <1>2, <1>13 DEF Good

\* The values of a function over a finite set are finitely many.
LEMMA FiniteImage ==
  ASSUME NEW S, IsFiniteSet(S), NEW f, DOMAIN f = S
  PROVE  IsFiniteSet({f[x] : x \in S})
<1> DEFINE T == {f[x] : x \in S}
           h == [x \in S |-> f[x]]
<1>1. h \in Surjection(S, T)  BY DEF Surjection
<1> QED  BY <1>1, FS_Surjection

\* A sum of natural numbers is one.
LEMMA SumOfNaturals ==
  ASSUME NEW D, IsFiniteSet(D), NEW f \in [D -> Nat]
  PROVE  SumFunction(f) \in Nat
<1> DEFINE Pick(s) == CHOOSE x \in s : TRUE
           Body(g, s) == IF s = {} THEN 0 ELSE f[Pick(s)] + g[s \ {Pick(s)}]
           it == CHOOSE g : g = [s \in SUBSET D |-> Body(g, s)]
           pick == [s \in SUBSET D |-> Pick(s)]
           step == [p \in Nat \X D |-> f[p[2]] + p[1]]
<1>1. SumFunction(f) = it[D]
  BY DEF SumFunction, SumFunctionOnSet, FoldFunctionOnSet, MapThenFoldSet
<1>2. \A s \in SUBSET D : s # {} => Pick(s) \in s  OBVIOUS
<1> HIDE DEF Pick
<1>3. Picks(pick, D) /\ step \in [Nat \X D -> Nat]  BY <1>2 DEF Picks
<1> HIDE DEF pick, step
<1>4. PICK g0 \in [SUBSET D -> Nat] : Folds(g0, D, 0, step, pick)  BY <1>3, FoldExists
<1>5. ASSUME NEW s \in SUBSET D  PROVE  g0[s] = Body(g0, s)
  <2>1. CASE s = {}  BY <1>4, <2>1 DEF Folds
  <2>2. CASE s # {}
    <3>1. pick[s] = Pick(s)  BY DEF pick
    <3>2. Pick(s) \in D /\ g0[s \ {Pick(s)}] \in Nat  BY <2>2, <1>2
    <3>3. step[<<g0[s \ {Pick(s)}], Pick(s)>>] = f[Pick(s)] + g0[s \ {Pick(s)}]  BY <3>2 DEF step
    <3> QED  BY <1>4, <2>2, <3>1, <3>3 DEF Folds
  <2> QED  BY <2>1, <2>2
<1>6. g0 = [s \in SUBSET D |-> Body(g0, s)]  BY <1>5
<1>7. it = [s \in SUBSET D |-> Body(it, s)]  BY <1>6
<1> HIDE DEF it
<1> DEFINE Bad == {s \in SUBSET D : it[s] \notin Nat}
           Sizes == {Cardinality(s) : s \in Bad}
<1>8. \A s \in SUBSET D : IsFiniteSet(s) /\ Cardinality(s) \in Nat  BY FS_Subset, FS_CardinalityType
<1>9. Bad = {}
  <2> SUFFICES ASSUME Bad # {}  PROVE  FALSE  OBVIOUS
  <2>1. Sizes \subseteq Nat /\ Sizes # {}  BY <1>8
  <2>2. PICK n \in Sizes : \A m \in Sizes : n <= m  BY <2>1, LeastNatural
  <2>3. PICK s \in Bad : n = Cardinality(s)  BY <2>2
  <2>4. CASE s = {}  BY <1>7, <2>3, <2>4
  <2>5. CASE s # {}
    <3>1. Pick(s) \in s /\ s \ {Pick(s)} \in SUBSET D  BY <2>5, <1>2
    <3>2. Cardinality(s \ {Pick(s)}) = n - 1  BY <1>8, <2>3, <3>1, FS_RemoveElement
    <3>3. n - 1 \notin Sizes
      <4> HIDE DEF Sizes
      <4> QED  BY <2>1, <2>2
    <3>4. s \ {Pick(s)} \notin Bad  BY <3>2, <3>3
    <3>5. it[s] = f[Pick(s)] + it[s \ {Pick(s)}]  BY <1>7, <2>3, <2>5
    <3> QED  BY <2>3, <3>1, <3>4, <3>5
  <2> QED  BY <2>4, <2>5
<1> QED  BY <1>1, <1>9

\* The verdicts that count, their owners, and what an owner's say.
Polled(verdicts, at)       == {v \in ToSet(verdicts) : Counts(v, at)}
OwnersOf(verdicts, at)     == {Owner[v.installation] : v \in Polled(verdicts, at)}
OwnersSay(verdicts, at, o) == {v.strength : v \in {w \in Polled(verdicts, at) : Owner[w.installation] = o}}
SumOfGreatest(verdicts, at) == SumFunction([o \in OwnersOf(verdicts, at) |-> Max(OwnersSay(verdicts, at, o))])

\* What corroborated_strength returns for a sequence of verdicts.
LEMMA CorroboratedIs ==
  ASSUME NEW verdicts \in Seq(Verdicts), NEW at
  PROVE  /\ CorroboratedStrength(verdicts, at) \in [sum : Nat, owners : Nat, at : {at}, from : {verdicts}]
         /\ IsFiniteSet(OwnersOf(verdicts, at))
         /\ CorroboratedStrength(verdicts, at).owners > 0 =>
              /\ CorroboratedStrength(verdicts, at).owners = Cardinality(OwnersOf(verdicts, at))
              /\ CorroboratedStrength(verdicts, at).owners >= CORROBORATION_N
              /\ CorroboratedStrength(verdicts, at).sum = SumOfGreatest(verdicts, at)
<1> DEFINE b      == CorroboratedStrength(verdicts, at)
           polled == {v \in ToSet(verdicts) : Counts(v, at)}
           owners == {Owner[v.installation] : v \in polled}
           of(o)  == {v.strength : v \in {w \in polled : Owner[w.installation] = o}}
           N      == Len(verdicts)
           tally  == ByOwner(verdicts, at)
<1>1. N \in Nat /\ DOMAIN verdicts = 1 .. N /\ \A k \in 1 .. N : verdicts[k] \in Verdicts
  OBVIOUS
<1>2. polled = Counted(verdicts, at, N)  BY <1>1 DEF Counted, ToSet
<1>3. Tallied(tally, verdicts, at, N)  BY ByOwnerTallied
<1>4. DOMAIN tally = owners  BY <1>2, <1>3 DEF Tallied
<1>5. tally \in [owners -> Nat]  BY <1>3, <1>4 DEF Tallied, Tallies
<1>6. IsFiniteSet(owners)
  <2> DEFINE ownerOf == [k \in 1 .. N |-> Owner[verdicts[k].installation]]
             all     == {ownerOf[k] : k \in 1 .. N}
  <2>1. IsFiniteSet(1 .. N)  BY <1>1, FS_Interval
  <2>2. DOMAIN ownerOf = 1 .. N  OBVIOUS
  <2> HIDE DEF ownerOf
  <2>3. IsFiniteSet(all)  BY <2>1, <2>2, FiniteImage
  <2>4. owners \subseteq all  BY <1>1 DEF ToSet, ownerOf
  <2> QED  BY <2>3, <2>4, FS_Subset
<1>7. Cardinality(owners) \in Nat  BY <1>6, FS_CardinalityType
<1>8. tally = [o \in owners |-> Max(of(o))]
  <2>1. ASSUME NEW o \in owners  PROVE  tally[o] = Max(of(o))
    <3>1. of(o) = StrengthsOf(verdicts, at, N, o)  BY <1>2 DEF StrengthsOf
    <3>2. tally[o] \in of(o) /\ \A n \in of(o) : n <= tally[o]  BY <1>3, <1>4, <3>1 DEF Tallied
    <3>3. \A n \in of(o) : n \in Nat  BY <1>1, FederationAssumption DEF ToSet
    <3> HIDE DEF of
    <3>4. \A n \in of(o) : (\A m \in of(o) : n >= m) => n = tally[o]  BY <3>2, <3>3
    <3> QED  BY <3>2, <3>3, <3>4 DEF Max
  <2> QED  BY <1>5, <2>1
<1>9. SumFunction(tally) \in Nat  BY <1>5, <1>6, SumOfNaturals
<1> HIDE DEF tally, owners
<1>10. b = IF Cardinality(owners) < CORROBORATION_N THEN [sum |-> 0, owners |-> 0, at |-> at, from |-> verdicts]
           ELSE [sum |-> SumFunction(tally), owners |-> Cardinality(owners), at |-> at, from |-> verdicts]
  <2>1. b = IF Cardinality(DOMAIN tally) < CORROBORATION_N THEN [sum |-> 0, owners |-> 0, at |-> at, from |-> verdicts]
            ELSE [sum |-> SumFunction(tally), owners |-> Cardinality(DOMAIN tally), at |-> at, from |-> verdicts]
    BY Zenon DEF CorroboratedStrength, tally
  <2> HIDE DEF b
  <2> QED  BY <2>1, <1>4
<1>11. CORROBORATION_N \in Nat  BY FederationAssumption
<1>12. b \in [sum : Nat, owners : Nat, at : {at}, from : {verdicts}]  BY <1>7, <1>9, <1>10
<1>13. b.owners > 0 =>
         /\ b.owners = Cardinality(owners) /\ b.owners >= CORROBORATION_N
         /\ b.sum = SumFunction(tally)
  BY <1>7, <1>10, <1>11
<1>14. OwnersOf(verdicts, at) = owners /\ SumOfGreatest(verdicts, at) = SumFunction(tally)
  BY <1>8 DEF OwnersOf, OwnersSay, Polled, SumOfGreatest, owners
<1> QED  BY <1>6, <1>12, <1>13, <1>14

-----------------------------------------------------------------------------
(* The lines of the files *)

Lined(V) == V \cup {Fragment, Torn}

\* What parses in a file was written there whole.
LEMMA ParsedLines ==
  ASSUME NEW V, NEW out \in Seq(V), NEW file \in Seq(Lined(V))
  PROVE  Parsed(out, file) \in Seq(V)
<1> DEFINE N == Len(file)
           Step(lines, line) == IF Parses(line) THEN Append(lines, line) ELSE lines
           Body(g, s) == IF s = {} THEN out ELSE Step(g[s \ {Max(s)}], file[Max(s)])
           it == CHOOSE g : g = [s \in SUBSET (1 .. N) |-> Body(g, s)]
           pick == [s \in SUBSET (1 .. N) |-> Max(s)]
           step == [p \in Seq(V) \X (1 .. N) |-> Step(p[1], file[p[2]])]
<1>1. N \in Nat /\ DOMAIN file = 1 .. N /\ \A k \in 1 .. N : file[k] \in Lined(V)
  OBVIOUS
<1>2. Parsed(out, file) = it[1 .. N]
  BY <1>1 DEF Parsed, FoldLeft, MapThenFoldSet
<1>3. \A lines \in Seq(V), line \in Lined(V) : Step(lines, line) \in Seq(V)
  BY DEF Parses, Lined
<1> HIDE DEF Step
<1>4. Picks(pick, 1 .. N)  BY <1>1, LastOfPrefix DEF Picks
<1>5. step \in [Seq(V) \X (1 .. N) -> Seq(V)]  BY <1>1, <1>3
<1>6. IsFiniteSet(1 .. N)  BY <1>1, FS_Interval
<1> HIDE DEF pick, step
<1>7. PICK g0 \in [SUBSET (1 .. N) -> Seq(V)] : Folds(g0, 1 .. N, out, step, pick)
  BY <1>4, <1>5, <1>6, FoldExists
<1>8. ASSUME NEW s \in SUBSET (1 .. N)  PROVE  g0[s] = Body(g0, s)
  <2>1. CASE s = {}  BY <1>7, <2>1 DEF Folds
  <2>2. CASE s # {}
    <3>1. pick[s] = Max(s)  BY DEF pick
    <3>2. Max(s) \in 1 .. N /\ g0[s \ {Max(s)}] \in Seq(V)  BY <1>4, <2>2, <3>1 DEF Picks
    <3>3. step[<<g0[s \ {Max(s)}], Max(s)>>] = Step(g0[s \ {Max(s)}], file[Max(s)])  BY <3>2 DEF step
    <3> QED  BY <1>7, <2>2, <3>1, <3>3 DEF Folds
  <2> QED  BY <2>1, <2>2
<1>9. g0 = [s \in SUBSET (1 .. N) |-> Body(g0, s)]  BY <1>8
<1>10. it = [s \in SUBSET (1 .. N) |-> Body(it, s)]  BY <1>9
<1> HIDE DEF it
<1> DEFINE Bad == {k \in Nat : k <= N /\ it[1 .. k] \notin Seq(V)}
<1>11. Bad = {}
  <2> SUFFICES ASSUME Bad # {}  PROVE  FALSE  OBVIOUS
  <2>1. PICK k \in Bad : \A m \in Bad : k <= m
    <3>1. Bad \subseteq Nat  OBVIOUS
    <3> HIDE DEF Bad
    <3> QED  BY <3>1, LeastNatural
  <2>2. k # 0
    <3>1. 1 .. 0 = {}  OBVIOUS
    <3>2. it[{}] = out  BY <1>10
    <3> QED  BY <2>1, <3>1, <3>2
  <2>3. k \in 1 .. N /\ k - 1 \in Nat /\ k - 1 <= N  BY <1>1, <2>1, <2>2
  <2>4. it[1 .. k - 1] \in Seq(V)
    <3>1. k - 1 \notin Bad
      <4> HIDE DEF Bad
      <4> QED  BY <2>1, <2>3
    <3> QED  BY <2>3, <3>1
  <2>5. it[1 .. k] = Step(it[1 .. k - 1], file[k])
    <3>1. Max(1 .. k) = k /\ (1 .. k) \ {k} = 1 .. k - 1  BY <2>3, LastOfPrefix
    <3>2. 1 .. k \in SUBSET (1 .. N) /\ k \in 1 .. k  BY <1>1, <2>3
    <3> QED  BY <1>10, <3>1, <3>2
  <2>6. it[1 .. k] \in Seq(V)
    <3>1. file[k] \in Lined(V)  BY <1>1, <2>3
    <3> HIDE DEF Bad, N, Lined
    <3> QED  BY <1>3, <3>1, <2>4, <2>5
  <2> QED  BY <2>1, <2>6
<1> QED  BY <1>1, <1>2, <1>11

\* A line pushed to what was read.
LEMMA PushedLines ==
  ASSUME NEW V, NEW existing \in Seq(Lined(V)), NEW line \in V
  PROVE  Pushed(existing, line) \in Seq(Lined(V))
<1>1. line \in Lined(V) /\ Fragment \in Lined(V)  BY DEF Lined
<1>2. existing # << >> => Front(existing) \in Seq(Lined(V))  BY DEF Front
<1> HIDE DEF Fragment
<1>3. existing # << >> => Append(Front(existing), Fragment) \in Seq(Lined(V))
  BY <1>1, <1>2, AppendProperties
<1>4. Append(existing, line) \in Seq(Lined(V))  BY <1>1, AppendProperties
<1> QED  BY <1>3, <1>4 DEF Pushed

\* A write that its process did not finish.
LEMMA BegunLines ==
  ASSUME NEW V, NEW content \in Seq(Lined(V)), NEW begun \in Begun(content)
  PROVE  begun \in Seq(Lined(V))
<1>1. \A n \in 0 .. Len(content) : SubSeq(content, 1, n) \in Seq(Lined(V))
  <2> SUFFICES ASSUME NEW n \in 0 .. Len(content)  PROVE  SubSeq(content, 1, n) \in Seq(Lined(V))  OBVIOUS
  <2>1. 1 \in Int /\ n \in Int /\ \A i \in 1 .. n : content[i] \in Lined(V)  OBVIOUS
  <2> HIDE DEF Lined
  <2> QED  BY <2>1, SubSeqProperties
<1>2. Torn \in Lined(V)  BY DEF Lined
<1> HIDE DEF Torn
<1>3. \A n \in 0 .. Len(content) - 1 : Append(SubSeq(content, 1, n), Torn) \in Seq(Lined(V))
  <2> SUFFICES ASSUME NEW n \in 0 .. Len(content) - 1
               PROVE  Append(SubSeq(content, 1, n), Torn) \in Seq(Lined(V))  OBVIOUS
  <2>1. SubSeq(content, 1, n) \in Seq(Lined(V))  BY <1>1
  <2> QED  BY <2>1, <1>2, AppendProperties
<1> QED  BY <1>1, <1>3 DEF Begun

\* A write over what another left.
LEMMA WrittenLines ==
  ASSUME NEW V, NEW new \in Seq(Lined(V)), NEW old \in Seq(Lined(V)), NEW content \in Written(new, old)
  PROVE  content \in Seq(Lined(V))
<1> DEFINE rest(n) == SubSeq(old, n, Len(old))
<1>1. Fragment \in Lined(V)  BY DEF Lined
<1> HIDE DEF Fragment
<1>2. <<Fragment>> \in Seq(Lined(V))  BY <1>1
<1>3. \A n \in Nat \ {0} : rest(n) \in Seq(Lined(V))
  <2> SUFFICES ASSUME NEW n \in Nat \ {0}  PROVE  rest(n) \in Seq(Lined(V))  OBVIOUS
  <2>1. \A i \in n .. Len(old) : old[i] \in Lined(V)  OBVIOUS
  <2> QED  BY <2>1, SubSeqProperties
<1>4. Len(new) \in Nat  OBVIOUS
<1>5. rest(Len(new) + 1) \in Seq(Lined(V)) /\ rest(Len(new) + 2) \in Seq(Lined(V))  BY <1>3, <1>4
<1>6. new # << >> => Front(new) \in Seq(Lined(V))  BY DEF Front
<1> HIDE DEF rest
<1>7. new # << >> => (Front(new) \o <<Fragment>>) \o rest(Len(new) + 1) \in Seq(Lined(V))
  BY <1>2, <1>5, <1>6, ConcatProperties
<1>8. /\ new \o rest(Len(new) + 1) \in Seq(Lined(V))
      /\ (new \o <<Fragment>>) \o rest(Len(new) + 2) \in Seq(Lined(V))
  BY <1>2, <1>5, ConcatProperties
<1> QED  BY <1>7, <1>8 DEF Written, rest

-----------------------------------------------------------------------------
(* The inductive invariant *)

\* Every line that is whole, in a file, in what a publisher has read or in
\* what a poll has collected, is a verdict that publish was called with.
Busy(V) == [pc : {"read", "truncate", "write"}, verdict : V, existing : Seq(Lined(V))]

KnownInv ==
  /\ called \subseteq Verdicts /\ IsFiniteSet(called)
  /\ files \in [Installations -> Seq(Lined(called))]
  /\ tasks \in [Publishers -> {Idle} \cup Busy(called)]
  /\ poll \in [left : SUBSET Installations, out : Seq(called)]
  /\ binding \in [sum : Nat, owners : Nat, at : 0 .. MaxTime, from : Seq(called)]
  /\ now \in 0 .. MaxTime
  /\ returned \subseteq called
  /\ disturbed \subseteq Installations
  /\ calls \in 0 .. MaxPublishes /\ faults \in 0 .. MaxFaults

\* What binds is what corroborated_strength made of the verdicts polled.
BoundInv == binding.owners > 0 => binding = CorroboratedStrength(binding.from, binding.at)

\* An undisturbed installation has one publisher at most.  What it has read,
\* or will read, is what was published before it.
Holds(lines, verdicts) == lines \in Seq(Verdicts) /\ ToSet(lines) = verdicts
ReturnedBy(i) == {v \in returned : v.installation = i}

Serial(i) ==
  /\ Publishing(i) = {} => Holds(files[i], ReturnedBy(i))
  /\ \A p \in Publishing(i) :
       /\ Publishing(i) = {p}
       /\ tasks[p].pc = "read" => Holds(files[i], ReturnedBy(i))
       /\ tasks[p].pc # "read" => Holds(tasks[p].existing, ReturnedBy(i) \cup {tasks[p].verdict})
       /\ tasks[p].pc = "write" => files[i] = << >>

SerialInv == \A i \in Installations \ disturbed : Serial(i)

\* Lines that were published stay published.
LEMMA LinedGrows ==
  ASSUME NEW V, NEW W, V \subseteq W
  PROVE  Seq(V) \subseteq Seq(W) /\ Seq(Lined(V)) \subseteq Seq(Lined(W)) /\ Busy(V) \subseteq Busy(W)
<1>1. Lined(V) \subseteq Lined(W)  BY DEF Lined
<1>2. Seq(V) \subseteq Seq(W)  BY SeqMonotonic
<1>3. Seq(Lined(V)) \subseteq Seq(Lined(W))  BY <1>1, SeqMonotonic
<1>4. Busy(V) \subseteq Busy(W)  BY <1>3 DEF Busy
<1> QED  BY <1>2, <1>3, <1>4

\* A task that is not idle has a verdict, and what it has read.
LEMMA AtWork ==
  ASSUME KnownInv, NEW p \in Publishers, tasks[p] # Idle \/ tasks[p].pc \in {"read", "truncate", "write"}
  PROVE  /\ tasks[p] \in Busy(called)
         /\ tasks[p].pc \in {"read", "truncate", "write"}
         /\ tasks[p].verdict \in called
         /\ tasks[p].verdict \in Verdicts
         /\ tasks[p].verdict.installation \in Installations
         /\ tasks[p].existing \in Seq(Lined(called))
<1>1. tasks[p] # Idle  BY DEF Idle
<1>2. tasks[p] \in Busy(called)  BY <1>1 DEF KnownInv
<1>3. called \subseteq Verdicts  BY DEF KnownInv
<1> QED  BY <1>2, <1>3, FederationAssumption DEF Busy

\* KnownInv holds at the start, and every step preserves it.
LEMMA KnownInit == Init => KnownInv
<1> SUFFICES ASSUME Init  PROVE  KnownInv  OBVIOUS
<1> USE DEF Init
<1>1. IsFiniteSet(called)  BY FS_EmptySet
<1>2. << >> \in Seq(called) /\ << >> \in Seq(Lined(called))  OBVIOUS
<1>3. files \in [Installations -> Seq(Lined(called))]  BY <1>2
<1>4. poll \in [left : SUBSET Installations, out : Seq(called)]  BY <1>2
<1>5. binding \in [sum : Nat, owners : Nat, at : 0 .. MaxTime, from : Seq(called)]
  BY <1>2, FederationAssumption DEF NotBinding
<1>6. 0 \in 0 .. MaxPublishes /\ 0 \in 0 .. MaxFaults /\ 0 \in 0 .. MaxTime  BY FederationAssumption
<1> QED  BY <1>1, <1>3, <1>4, <1>5, <1>6 DEF KnownInv

LEMMA KnownStep == KnownInv /\ [Next]_vars => KnownInv'
<1> SUFFICES ASSUME KnownInv, [Next]_vars  PROVE  KnownInv'  OBVIOUS
<1>0. MaxPublishes \in Nat /\ MaxTime \in Nat /\ MaxFaults \in Nat  BY FederationAssumption
<1>1. ASSUME NEW p \in Publishers, NEW v \in Verdicts, Call(p, v)  PROVE  KnownInv'
  <2>1. called \subseteq called' /\ called' = called \cup {v}  BY <1>1 DEF Call
  <2>2. /\ Seq(called) \subseteq Seq(called') /\ Seq(Lined(called)) \subseteq Seq(Lined(called'))
        /\ Busy(called) \subseteq Busy(called')  BY <2>1, LinedGrows
  <2>3. IsFiniteSet(called')  BY <2>1, FS_AddElement DEF KnownInv
  <2>4. called' \subseteq Verdicts  BY <2>1 DEF KnownInv
  <2>5. [pc |-> "read", verdict |-> v, existing |-> << >>] \in Busy(called')
    <3>1. v \in called' /\ << >> \in Seq(Lined(called'))  BY <2>1
    <3> QED  BY <3>1 DEF Busy
  <2>6. tasks' \in [Publishers -> {Idle} \cup Busy(called')]  BY <1>1, <2>2, <2>5 DEF Call, KnownInv
  <2>7. files' \in [Installations -> Seq(Lined(called'))]  BY <1>1, <2>2 DEF Call, KnownInv
  <2>8. poll' \in [left : SUBSET Installations, out : Seq(called')]  BY <1>1, <2>2 DEF Call, KnownInv
  <2>9. binding' \in [sum : Nat, owners : Nat, at : 0 .. MaxTime, from : Seq(called')]
    BY <1>1, <2>2 DEF Call, KnownInv
  <2>10. disturbed' \subseteq Installations
    BY <1>1, FederationAssumption DEF Call, KnownInv
  <2>11. calls' \in 0 .. MaxPublishes  BY <1>0, <1>1 DEF Call, KnownInv
  <2>12. returned' \subseteq called'  BY <1>1, <2>1 DEF Call, KnownInv
  <2>13. now' \in 0 .. MaxTime /\ faults' \in 0 .. MaxFaults  BY <1>1 DEF Call, KnownInv
  <2> QED  BY <2>3, <2>4, <2>6, <2>7, <2>8, <2>9, <2>10, <2>11, <2>12, <2>13 DEF KnownInv
<1>2. ASSUME NEW p \in Publishers, Read(p)  PROVE  KnownInv'
  <2>1. tasks[p] \in Busy(called) /\ tasks[p].verdict \in called /\ tasks[p].verdict.installation \in Installations
    BY <1>2, AtWork DEF Read
  <2> DEFINE read == Pushed(files[tasks[p].verdict.installation], tasks[p].verdict)
  <2>2. read \in Seq(Lined(called))  BY <2>1, PushedLines DEF KnownInv
  <2>3. tasks' = [tasks EXCEPT ![p] = [tasks[p] EXCEPT !.pc = "truncate", !.existing = read]]  BY <1>2 DEF Read, KnownInv
  <2> HIDE DEF read
  <2>4. [tasks[p] EXCEPT !.pc = "truncate", !.existing = read] \in Busy(called)  BY <2>1, <2>2 DEF Busy
  <2>5. tasks' \in [Publishers -> {Idle} \cup Busy(called)]  BY <2>3, <2>4 DEF KnownInv
  <2> QED  BY <1>2, <2>5 DEF Read, KnownInv
<1>3. ASSUME NEW p \in Publishers, ReadFails(p)  PROVE  KnownInv'
  <2>1. tasks[p] \in Busy(called) /\ tasks[p].verdict \in called /\ tasks[p].verdict.installation \in Installations
    BY <1>3, AtWork DEF ReadFails
  <2>2. <<tasks[p].verdict>> \in Seq(Lined(called))  BY <2>1 DEF Lined
  <2>3. tasks' = [tasks EXCEPT ![p] = [tasks[p] EXCEPT !.pc = "truncate", !.existing = <<tasks[p].verdict>>]]
    BY <1>3 DEF ReadFails, KnownInv
  <2>4. [tasks[p] EXCEPT !.pc = "truncate", !.existing = <<tasks[p].verdict>>] \in Busy(called)
    BY <2>1, <2>2 DEF Busy
  <2>5. tasks' \in [Publishers -> {Idle} \cup Busy(called)]  BY <2>3, <2>4 DEF KnownInv
  <2>6. disturbed' \subseteq Installations /\ faults' \in 0 .. MaxFaults
    BY <1>0, <1>3, <2>1 DEF ReadFails, KnownInv
  <2> QED  BY <1>3, <2>5, <2>6 DEF ReadFails, KnownInv
<1>4. ASSUME NEW p \in Publishers, Truncate(p)  PROVE  KnownInv'
  <2>1. tasks[p] \in Busy(called) /\ tasks[p].verdict.installation \in Installations
    BY <1>4, AtWork DEF Truncate
  <2>2. tasks' = [tasks EXCEPT ![p] = [tasks[p] EXCEPT !.pc = "write"]]  BY <1>4 DEF Truncate, KnownInv
  <2>3. [tasks[p] EXCEPT !.pc = "write"] \in Busy(called)  BY <2>1 DEF Busy
  <2>4. tasks' \in [Publishers -> {Idle} \cup Busy(called)]  BY <2>2, <2>3 DEF KnownInv
  <2>5. files' \in [Installations -> Seq(Lined(called))]
    <3>1. << >> \in Seq(Lined(called))  OBVIOUS
    <3> QED  BY <1>4, <3>1 DEF Truncate, KnownInv
  <2> QED  BY <1>4, <2>4, <2>5 DEF Truncate, KnownInv
<1>5. ASSUME NEW p \in Publishers, Write(p)  PROVE  KnownInv'
  <2> DEFINE i == tasks[p].verdict.installation
  <2>1. /\ tasks[p].verdict \in called /\ i \in Installations
        /\ tasks[p].existing \in Seq(Lined(called))
    BY <1>5, AtWork DEF Write
  <2>2. PICK content \in Written(tasks[p].existing, files[i]) : files' = [files EXCEPT ![i] = content]
    BY <1>5 DEF Write
  <2>3. content \in Seq(Lined(called))  BY <2>1, <2>2, WrittenLines DEF KnownInv
  <2>4. files' \in [Installations -> Seq(Lined(called))]  BY <2>2, <2>3 DEF KnownInv
  <2>5. tasks' \in [Publishers -> {Idle} \cup Busy(called)]  BY <1>5 DEF Write, KnownInv
  <2>6. returned' \subseteq called  BY <1>5, <2>1 DEF Write, KnownInv
  <2> QED  BY <1>5, <2>4, <2>5, <2>6 DEF Write, KnownInv
<1>6. ASSUME NEW p \in Publishers, Die(p)  PROVE  KnownInv'
  <2> DEFINE i == tasks[p].verdict.installation
  <2>1. i \in Installations /\ tasks[p].existing \in Seq(Lined(called))  BY <1>6, AtWork DEF Die
  <2>2. PICK content \in IF tasks[p].pc # "write" THEN {files[i]}
                         ELSE UNION {Written(begun, files[i]) : begun \in Begun(tasks[p].existing)} :
          files' = [files EXCEPT ![i] = content]
    BY <1>6 DEF Die
  <2>3. files[i] \in Seq(Lined(called))  BY <2>1 DEF KnownInv
  <2>4. content \in Seq(Lined(called))
    <3>1. CASE tasks[p].pc # "write"  BY <2>2, <2>3, <3>1
    <3>2. CASE tasks[p].pc = "write"
      <4>1. PICK begun \in Begun(tasks[p].existing) : content \in Written(begun, files[i])  BY <2>2, <3>2
      <4>2. begun \in Seq(Lined(called))  BY <2>1, BegunLines
      <4> QED  BY <2>3, <4>1, <4>2, WrittenLines
    <3> QED  BY <3>1, <3>2
  <2>5. files' \in [Installations -> Seq(Lined(called))]  BY <2>2, <2>4 DEF KnownInv
  <2>6. tasks' \in [Publishers -> {Idle} \cup Busy(called)]  BY <1>6 DEF Die, KnownInv
  <2>7. disturbed' \subseteq Installations /\ faults' \in 0 .. MaxFaults
    BY <1>0, <1>6, <2>1 DEF Die, KnownInv
  <2> QED  BY <1>6, <2>5, <2>6, <2>7 DEF Die, KnownInv
<1>7. ASSUME StartPoll  PROVE  KnownInv'
  <2>1. << >> \in Seq(called)  OBVIOUS
  <2> QED  BY <1>7, <2>1 DEF StartPoll, KnownInv
<1>8. ASSUME PollFails  PROVE  KnownInv'
  <2>1. << >> \in Seq(called)  OBVIOUS
  <2>2. faults' \in 0 .. MaxFaults  BY <1>0, <1>8 DEF PollFails, KnownInv
  <2> QED  BY <1>8, <2>1, <2>2 DEF PollFails, KnownInv
<1>9. ASSUME NEW i \in Installations, PollFile(i)  PROVE  KnownInv'
  <2> DEFINE out == Parsed(poll.out, files[i])
  <2>1. out \in Seq(called)  BY ParsedLines DEF KnownInv
  <2>2. out \in Seq(Verdicts)  BY <2>1, SeqMonotonic DEF KnownInv
  <2> HIDE DEF out
  <2>3. CorroboratedStrength(out, now) \in [sum : Nat, owners : Nat, at : {now}, from : {out}]
    BY <2>2, CorroboratedIs
  <2>4. binding' \in [sum : Nat, owners : Nat, at : 0 .. MaxTime, from : Seq(called)]
    <3>1. binding' = IF poll.left = {i} THEN CorroboratedStrength(out, now) ELSE binding  BY <1>9 DEF PollFile, out
    <3> QED  BY <2>1, <2>3, <3>1 DEF KnownInv
  <2>5. poll' \in [left : SUBSET Installations, out : Seq(called)]
    <3>1. poll' = [left |-> poll.left \ {i}, out |-> IF poll.left = {i} THEN << >> ELSE out]  BY <1>9 DEF PollFile, out
    <3>2. << >> \in Seq(called)  OBVIOUS
    <3> QED  BY <2>1, <3>1, <3>2 DEF KnownInv
  <2> QED  BY <1>9, <2>4, <2>5 DEF PollFile, KnownInv
<1>10. ASSUME Tick  PROVE  KnownInv'
  <2>1. now' \in 0 .. MaxTime  BY <1>0, <1>10 DEF Tick, KnownInv
  <2> QED  BY <1>10, <2>1 DEF Tick, KnownInv
<1>11. CASE UNCHANGED vars  BY <1>11 DEF vars, KnownInv
<1> QED  BY <1>1, <1>2, <1>3, <1>4, <1>5, <1>6, <1>7, <1>8, <1>9, <1>10, <1>11 DEF Next

\* A poll that ends computes what binds; nothing else changes it.
LEMMA BoundInit == Init => BoundInv
  BY DEF Init, BoundInv, NotBinding

LEMMA BoundStep == KnownInv /\ BoundInv /\ [Next]_vars => BoundInv'
<1> SUFFICES ASSUME KnownInv, BoundInv, [Next]_vars  PROVE  BoundInv'  OBVIOUS
<1>1. CASE UNCHANGED binding  BY <1>1 DEF BoundInv
<1>2. ASSUME NEW i \in Installations, PollFile(i), binding' # binding  PROVE  BoundInv'
  <2> DEFINE out == Parsed(poll.out, files[i])
             b   == CorroboratedStrength(out, now)
  <2>1. binding' = b  BY <1>2 DEF PollFile
  <2>2. out \in Seq(called)  BY ParsedLines DEF KnownInv
  <2>3. out \in Seq(Verdicts)  BY <2>2, SeqMonotonic DEF KnownInv
  <2> HIDE DEF out
  <2>4. b \in [sum : Nat, owners : Nat, at : {now}, from : {out}]  BY <2>3, CorroboratedIs
  <2>5. b.at = now /\ b.from = out  BY <2>4
  <2> QED  BY <2>1, <2>5 DEF BoundInv
<1>3. UNCHANGED binding \/ \E i \in Installations : PollFile(i)
  BY DEF Next, vars, Call, Read, ReadFails, Truncate, Write, Die, StartPoll, PollFails, Tick
<1> QED  BY <1>1, <1>2, <1>3

-----------------------------------------------------------------------------
(* One publisher at a time *)

\* A verdict is not what is left of a line.
LEMMA WholeLines == Torn \notin Verdicts
<1>1. \A v \in Verdicts : DOMAIN v = {"installation", "author", "strength", "expires"}  BY FederationAssumption
<1>2. DOMAIN Torn = {"installation"}  BY DEF Torn
<1> QED  BY <1>1, <1>2

\* To whole lines the new one is added.
LEMMA PushedHolds ==
  ASSUME NEW lines, NEW verdicts, Holds(lines, verdicts), NEW v \in Verdicts
  PROVE  Holds(Pushed(lines, v), verdicts \cup {v})
<1>1. lines \in Seq(Verdicts)  BY DEF Holds
<1>2. lines # << >> => Last(lines) \in Verdicts  BY <1>1 DEF Last
<1>3. Pushed(lines, v) = Append(lines, v)  BY <1>2, WholeLines DEF Pushed
<1>4. Append(lines, v) \in Seq(Verdicts)  BY <1>1
<1>5. ToSet(Append(lines, v)) = ToSet(lines) \cup {v}
  <2>1. DOMAIN Append(lines, v) = DOMAIN lines \cup {Len(lines) + 1}  BY <1>1
  <2>2. \A k \in DOMAIN lines : Append(lines, v)[k] = lines[k]  BY <1>1
  <2>3. Append(lines, v)[Len(lines) + 1] = v  BY <1>1
  <2> QED  BY <2>1, <2>2, <2>3 DEF ToSet
<1> QED  BY <1>3, <1>4, <1>5 DEF Holds

\* What a task does for one installation leaves the others as they are.
LEMMA OthersSerial ==
  ASSUME NEW p \in Publishers, NEW j, NEW t, tasks' = [tasks EXCEPT ![p] = t], DOMAIN tasks = Publishers,
         t = Idle \/ t.verdict.installation = j,
         tasks[p] = Idle \/ tasks[p].verdict.installation = j,
         NEW i, i # j, Serial(i), files'[i] = files[i], ReturnedBy(i)' = ReturnedBy(i)
  PROVE  Serial(i)'
<1>1. p \notin Publishing(i) /\ p \notin Publishing(i)'  BY DEF Publishing
<1>2. \A q \in Publishers \ {p} : tasks'[q] = tasks[q]  OBVIOUS
<1>3. Publishing(i)' = Publishing(i)  BY <1>1, <1>2 DEF Publishing
<1>4. \A q \in Publishing(i) : tasks'[q] = tasks[q]  BY <1>1, <1>2 DEF Publishing
<1> QED  BY <1>3, <1>4 DEF Serial

\* SerialInv holds at the start, and every step preserves it.
LEMMA SerialInit == Init => SerialInv
<1> SUFFICES ASSUME Init, NEW i \in Installations  PROVE  Serial(i)  BY DEF SerialInv
<1>1. Publishing(i) = {}  BY DEF Init, Publishing
<1>2. files[i] = << >> /\ ReturnedBy(i) = {}  BY DEF Init, ReturnedBy
<1>3. Holds(<< >>, {})  BY DEF Holds, ToSet
<1> QED  BY <1>1, <1>2, <1>3 DEF Serial

LEMMA SerialStep == KnownInv /\ SerialInv /\ [Next]_vars => SerialInv'
<1> SUFFICES ASSUME KnownInv, SerialInv, [Next]_vars, NEW i \in Installations, i \notin disturbed'
             PROVE  Serial(i)'
  BY DEF SerialInv
<1>0. DOMAIN tasks = Publishers /\ \A k \in Installations : k \in DOMAIN files  BY DEF KnownInv
<1>1. i \notin disturbed
  BY DEF Next, vars, Call, Read, ReadFails, Truncate, Write, Die, StartPoll, PollFile, PollFails, Tick
<1>2. Serial(i)  BY <1>1 DEF SerialInv
<1>3. ASSUME NEW p \in Publishers, NEW v \in Verdicts, Call(p, v)  PROVE  Serial(i)'
  <2> DEFINE t == [pc |-> "read", verdict |-> v, existing |-> << >>]
  <2>1. tasks' = [tasks EXCEPT ![p] = t] /\ tasks[p] = Idle  BY <1>3 DEF Call
  <2>2. files'[i] = files[i] /\ ReturnedBy(i)' = ReturnedBy(i)  BY <1>3 DEF Call, ReturnedBy
  <2>3. CASE v.installation # i  BY <1>0, <1>2, <2>1, <2>2, <2>3, OthersSerial
  <2>4. CASE v.installation = i
    <3>1. Publishing(i) = {}  BY <1>3, <2>4 DEF Call
    <3>2. t # Idle  BY DEF Idle
    <3>3. tasks'[p] = t /\ \A q \in Publishers \ {p} : tasks'[q] = tasks[q]  BY <1>0, <2>1
    <3>4. Publishing(i)' = {p}  BY <2>4, <3>1, <3>2, <3>3 DEF Publishing
    <3>5. Holds(files[i], ReturnedBy(i))'  BY <1>2, <2>2, <3>1 DEF Serial, Holds
    <3> QED  BY <3>3, <3>4, <3>5 DEF Serial
  <2> QED  BY <2>3, <2>4
<1>4. ASSUME NEW p \in Publishers, tasks[p] # Idle, NEW t, tasks' = [tasks EXCEPT ![p] = t],
             t = Idle \/ t.verdict = tasks[p].verdict,
             tasks[p].verdict.installation # i,
             files'[i] = files[i], returned' \subseteq returned \cup {tasks[p].verdict}, returned \subseteq returned'
      PROVE  Serial(i)'
  <2>1. ReturnedBy(i)' = ReturnedBy(i)  BY <1>4 DEF ReturnedBy
  <2> QED  BY <1>0, <1>2, <1>4, <2>1, OthersSerial
<1>5. ASSUME NEW p \in Publishers, tasks[p] # Idle, tasks[p].verdict.installation = i
      PROVE  /\ Publishing(i) = {p}
             /\ tasks[p].pc = "read" => Holds(files[i], ReturnedBy(i))
             /\ tasks[p].pc # "read" => Holds(tasks[p].existing, ReturnedBy(i) \cup {tasks[p].verdict})
             /\ tasks[p].pc = "write" => files[i] = << >>
  BY <1>2, <1>5 DEF Serial, Publishing
<1>6. ASSUME NEW p \in Publishers, Read(p)  PROVE  Serial(i)'
  <2> DEFINE t == [tasks[p] EXCEPT !.pc = "truncate", !.existing = Pushed(files[tasks[p].verdict.installation], tasks[p].verdict)]
  <2>1. tasks[p] # Idle /\ tasks[p] \in Busy(called) /\ tasks[p].verdict \in Verdicts
    BY <1>6, AtWork DEF Read, Idle
  <2>2. tasks' = [tasks EXCEPT ![p] = t] /\ UNCHANGED <<files, returned>>  BY <1>0, <1>6 DEF Read
  <2>3. /\ t.pc = "truncate" /\ t.verdict = tasks[p].verdict
        /\ t.existing = Pushed(files[tasks[p].verdict.installation], tasks[p].verdict)
    BY <2>1 DEF Busy
  <2> HIDE DEF t
  <2>4. CASE tasks[p].verdict.installation # i  BY <1>4, <2>1, <2>2, <2>3, <2>4
  <2>5. CASE tasks[p].verdict.installation = i
    <3>1. Publishing(i) = {p} /\ Holds(files[i], ReturnedBy(i))  BY <1>5, <1>6, <2>1, <2>5 DEF Read
    <3>2. Holds(t.existing, ReturnedBy(i) \cup {t.verdict})  BY <2>1, <2>3, <2>5, <3>1, PushedHolds
    <3>3. tasks'[p] = t /\ \A q \in Publishers \ {p} : tasks'[q] = tasks[q]  BY <1>0, <2>2
    <3>4. t # Idle  BY <2>3 DEF Idle
    <3>5. Publishing(i)' = {p}  BY <2>3, <2>5, <3>1, <3>3, <3>4 DEF Publishing
    <3>6. Holds(t.existing, ReturnedBy(i)' \cup {t.verdict})  BY <2>2, <3>2 DEF ReturnedBy
    <3> QED  BY <2>3, <3>3, <3>5, <3>6 DEF Serial, Holds
  <2> QED  BY <2>4, <2>5
<1>7. ASSUME NEW p \in Publishers, ReadFails(p)  PROVE  Serial(i)'
  <2> DEFINE t == [tasks[p] EXCEPT !.pc = "truncate", !.existing = <<tasks[p].verdict>>]
  <2>1. tasks[p] # Idle /\ tasks[p] \in Busy(called)  BY <1>7, AtWork DEF ReadFails, Idle
  <2>2. tasks' = [tasks EXCEPT ![p] = t] /\ UNCHANGED <<files, returned>>  BY <1>0, <1>7 DEF ReadFails
  <2>3. t.verdict = tasks[p].verdict  BY <2>1 DEF Busy
  <2> HIDE DEF t
  <2>4. tasks[p].verdict.installation # i  BY <1>7 DEF ReadFails
  <2> QED  BY <1>4, <2>1, <2>2, <2>3, <2>4
<1>8. ASSUME NEW p \in Publishers, Truncate(p)  PROVE  Serial(i)'
  <2> DEFINE t == [tasks[p] EXCEPT !.pc = "write"]
             j == tasks[p].verdict.installation
  <2>1. tasks[p] # Idle /\ tasks[p] \in Busy(called)  BY <1>8, AtWork DEF Truncate, Idle
  <2>2. tasks' = [tasks EXCEPT ![p] = t] /\ files' = [files EXCEPT ![j] = << >>] /\ UNCHANGED returned
    BY <1>0, <1>8 DEF Truncate
  <2>3. t.pc = "write" /\ t.verdict = tasks[p].verdict /\ t.existing = tasks[p].existing  BY <2>1 DEF Busy
  <2> HIDE DEF t
  <2>4. CASE j # i
    <3>1. files'[i] = files[i]  BY <1>0, <2>2, <2>4
    <3> QED  BY <1>4, <2>1, <2>2, <2>3, <2>4, <3>1
  <2>5. CASE j = i
    <3>1. Publishing(i) = {p} /\ Holds(tasks[p].existing, ReturnedBy(i) \cup {tasks[p].verdict})
      BY <1>5, <1>8, <2>1, <2>5 DEF Truncate
    <3>2. tasks'[p] = t /\ \A q \in Publishers \ {p} : tasks'[q] = tasks[q]  BY <1>0, <2>2
    <3>3. t # Idle  BY <2>3 DEF Idle
    <3>4. Publishing(i)' = {p}  BY <2>3, <2>5, <3>1, <3>2, <3>3 DEF Publishing
    <3>5. Holds(t.existing, ReturnedBy(i)' \cup {t.verdict})  BY <2>2, <2>3, <3>1 DEF ReturnedBy
    <3>6. files'[i] = << >>  BY <1>0, <2>2, <2>5
    <3> QED  BY <2>3, <3>2, <3>4, <3>5, <3>6 DEF Serial, Holds
  <2> QED  BY <2>4, <2>5
<1>9. ASSUME NEW p \in Publishers, Write(p)  PROVE  Serial(i)'
  <2> DEFINE j == tasks[p].verdict.installation
  <2>1. tasks[p] # Idle  BY <1>9 DEF Write, Idle
  <2>2. PICK content \in Written(tasks[p].existing, files[j]) : files' = [files EXCEPT ![j] = content]
    BY <1>9 DEF Write
  <2>3. tasks' = [tasks EXCEPT ![p] = Idle] /\ returned' = returned \cup {tasks[p].verdict}  BY <1>9 DEF Write
  <2>4. CASE j # i
    <3>1. files'[i] = files[i]  BY <1>0, <2>2, <2>4
    <3> QED  BY <1>4, <2>1, <2>3, <2>4, <3>1
  <2>5. CASE j = i
    <3>1. /\ Publishing(i) = {p} /\ files[i] = << >>
          /\ Holds(tasks[p].existing, ReturnedBy(i) \cup {tasks[p].verdict})
      BY <1>5, <1>9, <2>1, <2>5 DEF Write
    <3>2. tasks[p].existing \in Seq(Verdicts) /\ tasks[p].existing # << >>
      <4>1. tasks[p].existing \in Seq(Verdicts) /\ tasks[p].verdict \in ToSet(tasks[p].existing)  BY <3>1 DEF Holds
      <4>2. ToSet(<< >>) = {}  BY DEF ToSet
      <4> QED  BY <4>1, <4>2
    <3>3. Len(files[i]) < Len(tasks[p].existing)  BY <3>1, <3>2
    <3>4. content = tasks[p].existing  BY <2>2, <2>5, <3>2, <3>3 DEF Written
    <3>5. files'[i] = tasks[p].existing  BY <1>0, <2>2, <2>5, <3>4
    <3>6. ReturnedBy(i)' = ReturnedBy(i) \cup {tasks[p].verdict}  BY <2>3, <2>5 DEF ReturnedBy
    <3>7. tasks'[p] = Idle /\ \A q \in Publishers \ {p} : tasks'[q] = tasks[q]  BY <1>0, <2>3
    <3>8. Publishing(i)' = {}  BY <3>1, <3>7 DEF Publishing
    <3>9. Holds(files'[i], ReturnedBy(i)')  BY <3>1, <3>5, <3>6
    <3> QED  BY <3>8, <3>9 DEF Serial, Holds
  <2> QED  BY <2>4, <2>5
<1>10. ASSUME NEW p \in Publishers, Die(p)  PROVE  Serial(i)'
  <2> DEFINE j == tasks[p].verdict.installation
  <2>1. j # i /\ tasks[p] # Idle  BY <1>10 DEF Die
  <2>2. files'[i] = files[i]  BY <1>0, <1>10, <2>1 DEF Die
  <2>3. tasks' = [tasks EXCEPT ![p] = Idle] /\ UNCHANGED returned  BY <1>10 DEF Die
  <2> QED  BY <1>4, <2>1, <2>2, <2>3
<1>11. CASE UNCHANGED <<files, tasks, returned>>
  <2>1. Publishing(i)' = Publishing(i) /\ ReturnedBy(i)' = ReturnedBy(i)  BY <1>11 DEF Publishing, ReturnedBy
  <2> QED  BY <1>2, <1>11, <2>1 DEF Serial, Holds
<1>12. \/ UNCHANGED <<files, tasks, returned>>
       \/ \E p \in Publishers : (\E v \in Verdicts : Call(p, v)) \/ Read(p) \/ ReadFails(p) \/ Truncate(p) \/ Write(p) \/ Die(p)
  BY DEF Next, vars, StartPoll, PollFails, PollFile, Tick
<1> QED  BY <1>3, <1>6, <1>7, <1>8, <1>9, <1>10, <1>11, <1>12

-----------------------------------------------------------------------------
(* Theorems *)

\* The files, the publishers, the poll and what binds keep their shape
\* (federation.rs, exchange and corroborated_strength).
THEOREM FederationTypes == Spec => []TypeOK
<1>1. KnownInv => TypeOK
  <2> SUFFICES ASSUME KnownInv  PROVE  TypeOK  OBVIOUS
  <2>1. called \subseteq Verdicts  BY DEF KnownInv
  <2>2. Lined(called) \subseteq Lines  BY <2>1 DEF Lined, Lines
  <2>3. Seq(called) \subseteq Seq(Verdicts) /\ Seq(Lined(called)) \subseteq Seq(Lines)  BY <2>1, <2>2, SeqMonotonic
  <2>4. files \in [Installations -> Seq(Lines)]  BY <2>3 DEF KnownInv
  <2>5. \A p \in Publishers : tasks[p] = Idle \/ tasks[p] \in Busy(called)  BY DEF KnownInv
  <2>6. \A p \in Publishers : tasks[p] \in Busy(called) =>
          tasks[p].pc \in {"read", "truncate", "write"} /\ tasks[p].verdict \in Verdicts /\ tasks[p].existing \in Seq(Lines)
    BY <2>1, <2>3 DEF Busy
  <2>7. poll.left \subseteq Installations /\ poll.out \in Seq(Verdicts)  BY <2>3 DEF KnownInv
  <2>8. binding.sum \in Nat /\ binding.owners \in Nat /\ binding.at \in 0 .. MaxTime  BY DEF KnownInv
  <2> QED  BY <2>4, <2>5, <2>6, <2>7, <2>8 DEF KnownInv, TypeOK
<1> QED  BY <1>1, KnownInit, KnownStep, PTL DEF Spec

\* An installation that publishes one record at a time, never dies in between
\* and can read its file keeps every record (exchange::publish reads, appends
\* and writes the whole back).
THEOREM SerialPublishersKeep == Spec => []SerialPublishesKept
<1>1. KnownInv /\ SerialInv => SerialPublishesKept
  BY DEF SerialInv, Serial, SerialPublishesKept, Holds, ReturnedBy
<1> QED  BY <1>1, KnownInit, KnownStep, SerialInit, SerialStep, PTL DEF Spec

\* What binds was computed from verdicts that publish was called with.
LEMMA BoundToPublished ==
  ASSUME KnownInv, BoundInv, binding.owners > 0
  PROVE  /\ Polled(binding.from, binding.at) \subseteq Against(binding.at)
         /\ binding.owners = Cardinality(OwnersOf(binding.from, binding.at))
         /\ binding.owners >= CORROBORATION_N
         /\ binding.sum = SumOfGreatest(binding.from, binding.at)
<1>1. binding.from \in Seq(called) /\ called \subseteq Verdicts  BY DEF KnownInv
<1>2. binding.from \in Seq(Verdicts)  BY <1>1, SeqMonotonic
<1>3. ToSet(binding.from) \subseteq called  BY <1>1 DEF ToSet
<1>4. binding = CorroboratedStrength(binding.from, binding.at)  BY DEF BoundInv
<1>5. Polled(binding.from, binding.at) \subseteq Against(binding.at)  BY <1>3 DEF Polled, Against
<1> QED  BY <1>2, <1>4, <1>5, CorroboratedIs

\* An author's verdict binds only when enough independent owners published one
\* that had not expired (corroborated_strength over what exchange::poll read).
THEOREM BindingIsCorroborated == Spec => []BindsOnlyCorroborated
<1>1. KnownInv /\ BoundInv => BindsOnlyCorroborated
  <2> SUFFICES ASSUME KnownInv, BoundInv, binding.owners > 0
               PROVE  Cardinality({Owner[v.installation] : v \in Against(binding.at)}) >= CORROBORATION_N
    BY DEF BindsOnlyCorroborated
  <2> DEFINE polled  == Polled(binding.from, binding.at)
             against == Against(binding.at)
             some    == OwnersOf(binding.from, binding.at)
             all     == {Owner[v.installation] : v \in against}
             ownerOf == [v \in against |-> Owner[v.installation]]
  <2>1. polled \subseteq against /\ binding.owners = Cardinality(some) /\ binding.owners >= CORROBORATION_N
    BY BoundToPublished
  <2>2. IsFiniteSet(against)
    <3>1. IsFiniteSet(called) /\ against \subseteq called  BY DEF KnownInv, Against
    <3> QED  BY <3>1, FS_Subset
  <2>3. IsFiniteSet(all)
    <3>1. all = {ownerOf[v] : v \in against}  OBVIOUS
    <3>2. DOMAIN ownerOf = against  OBVIOUS
    <3> HIDE DEF ownerOf, against, all
    <3> QED  BY <2>2, <3>1, <3>2, FiniteImage
  <2>4. some \subseteq all  BY <2>1 DEF OwnersOf
  <2> HIDE DEF some, all
  <2>5. Cardinality(some) <= Cardinality(all)  BY <2>3, <2>4, FS_Subset
  <2>6. Cardinality(some) \in Nat /\ Cardinality(all) \in Nat  BY <2>3, <2>4, FS_Subset, FS_CardinalityType
  <2> QED  BY <2>1, <2>5, <2>6, FederationAssumption DEF all
<1> QED  BY <1>1, KnownInit, KnownStep, BoundInit, BoundStep, PTL DEF Spec

\* The strength depends on which verdicts were polled and not on their order:
\* it is the sum of the strongest one of each owner.
THEOREM StrengthIsOfTheSet == Spec => []StrengthOfTheSet
<1>1. KnownInv /\ BoundInv => StrengthOfTheSet
  BY BoundToPublished DEF StrengthOfTheSet, SumOfGreatest, OwnersOf, OwnersSay, Polled
<1> QED  BY <1>1, KnownInit, KnownStep, BoundInit, BoundStep, PTL DEF Spec
=============================================================================
