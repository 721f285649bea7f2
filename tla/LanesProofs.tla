---------------------------- MODULE LanesProofs ----------------------------
(***************************************************************************)
(* What the lanes promise, for any number of handlers, any history and any *)
(* rules: the code of the last push is judged; the structural rules of a   *)
(* verdict are those of its production files, in whatever order the files  *)
(* come; the share of the template that is left is that of the comments.   *)
(* The last three are about what folds and recursive functions of the      *)
(* model compute, which is followed along the prefixes of a sequence, one  *)
(* element at a time.                                                      *)
(***************************************************************************)
EXTENDS Lanes, FiniteSetTheorems, FunctionTheorems, WellFoundedInduction, TLAPS

-----------------------------------------------------------------------------
(* Folds *)

\* A nonempty set of natural numbers has a least element.
LEMMA LeastNatural ==
  ASSUME NEW T, T \subseteq Nat, T # {}
  PROVE  \E n \in T : \A m \in T : n <= m
<1>1. IsWellFoundedOn(OpToRel(<, Nat), Nat)  BY NatLessThanWellFounded
<1>2. PICK n \in T : \A m \in T : <<m, n>> \notin OpToRel(<, Nat)  BY <1>1, WFMin
<1>3. \A m \in T : ~ m < n  BY <1>2 DEF OpToRel
<1> QED  BY <1>3

\* Induction up to N, over a set C of numbers.
LEMMA Upward ==
  ASSUME NEW N \in Nat, NEW C, 0 \in C, \A k \in 1 .. N : k - 1 \in C => k \in C
  PROVE  N \in C
<1> DEFINE Bad == {k \in 0 .. N : k \notin C}
<1>1. Bad = {}
  <2> SUFFICES ASSUME Bad # {}  PROVE  FALSE  OBVIOUS
  <2>1. PICK k \in Bad : \A m \in Bad : k <= m
    <3>1. Bad \subseteq Nat  OBVIOUS
    <3> HIDE DEF Bad
    <3> QED  BY <3>1, LeastNatural
  <2>2. k \in 1 .. N /\ k - 1 \in 0 .. N /\ k - 1 \notin Bad  BY <2>1
  <2> QED  BY <2>1, <2>2
<1> QED  BY <1>1

\* The greatest index of a prefix is its length.
LEMMA LastOfPrefix == \A k \in Nat \ {0} : Max(1 .. k) = k /\ (1 .. k) \ {k} = 1 .. k - 1
BY DEF Max

LEMMA GreatestIsIn == \A n \in Nat : \A s \in SUBSET (1 .. n) : s # {} => Max(s) \in s /\ \A i \in s : i <= Max(s)
<1>1. ASSUME NEW n \in Nat, NEW s \in SUBSET (1 .. n), s # {}
      PROVE  Max(s) \in s /\ \A i \in s : i <= Max(s)
  <2> DEFINE Room == {m \in Nat : \A i \in s : i <= m}
  <2>1. n \in Room  OBVIOUS
  <2>2. PICK m \in Room : \A k \in Room : m <= k  BY <2>1, LeastNatural
  <2>3. m \in s
    <3> PICK x \in s : TRUE  BY <1>1
    <3>1. m # 0  BY <2>2
    <3>2. CASE m \notin s
      <4>1. \A i \in s : i <= m - 1  BY <2>2, <3>2
      <4>2. m - 1 \in Room  BY <2>2, <3>1, <4>1
      <4> QED  BY <2>2, <4>2
    <3> QED  BY <3>2
  <2>4. \E x \in s : \A y \in s : x >= y  BY <2>2, <2>3
  <2> QED  BY <2>4 DEF Max
<1> QED  BY <1>1

\* it solves the recursion that FoldLeft makes of step along 1 .. N.
Along(it, N, State, base, step) ==
  \A s \in SUBSET (1 .. N) :
    /\ s = {} => it[s] = base
    /\ s # {} /\ it[s \ {Max(s)}] \in State => it[s] = step[<<it[s \ {Max(s)}], Max(s)>>]

Solves(g, N, State, base, step) ==
  /\ g \in [SUBSET (1 .. N) -> State]
  /\ \A s \in SUBSET (1 .. N) :
       /\ s = {} => g[s] = base
       /\ s # {} => /\ g[s \ {Max(s)}] \in State /\ Max(s) \in 1 .. N
                    /\ g[s] = step[<<g[s \ {Max(s)}], Max(s)>>]

\* st is the way along 1 .. N, from base to to.
Walk(st, N, State, base, step, to) ==
  /\ st \in [0 .. N -> State] /\ st[0] = base /\ st[N] = to
  /\ \A k \in 1 .. N : st[k] = step[<<st[k - 1], k>>]

\* There is a solution, by steps from State to State.
LEMMA AlongExists ==
  ASSUME NEW N \in Nat, NEW State, NEW base \in State, NEW step \in [State \X (1 .. N) -> State]
  PROVE  \E g : Solves(g, N, State, base, step)
<1> DEFINE Small(n) == {s \in SUBSET (1 .. N) : s \subseteq 1 .. n}
           Body(g, s) == IF s = {} THEN base ELSE step[<<g[s \ {Max(s)}], Max(s)>>]
           Solved(n) == \E g \in [Small(n) -> State] : \A s \in Small(n) : g[s] = Body(g, s)
           C == {n \in 0 .. N : Solved(n)}
<1>1. \A s \in SUBSET (1 .. N) : s # {} => Max(s) \in s /\ \A i \in s : i <= Max(s)  BY GreatestIsIn
<1>2. Solved(0)
  <2> DEFINE g == [s \in Small(0) |-> base]
  <2>1. \A s \in Small(0) : s = {}  OBVIOUS
  <2>2. g \in [Small(0) -> State] /\ \A s \in Small(0) : g[s] = Body(g, s)  BY <2>1
  <2> QED  BY <2>2
<1>3. ASSUME NEW n \in 1 .. N, Solved(n - 1)  PROVE  Solved(n)
  <2>1. PICK g \in [Small(n - 1) -> State] : \A s \in Small(n - 1) : g[s] = Body(g, s)  BY <1>3
  <2> DEFINE h == [s \in Small(n) |-> Body(g, s)]
  <2>2. ASSUME NEW s \in Small(n), s # {}  PROVE  s \ {Max(s)} \in Small(n - 1) /\ Max(s) \in 1 .. N
    <3>1. Max(s) \in s /\ \A i \in s : i <= Max(s)  BY <1>1, <2>2
    <3>2. \A i \in s \ {Max(s)} : i \in 1 .. n - 1
      <4> SUFFICES ASSUME NEW i \in s \ {Max(s)}  PROVE  i \in 1 .. n - 1  OBVIOUS
      <4>1. i \in 1 .. n /\ Max(s) \in 1 .. n /\ i <= Max(s) /\ i # Max(s)  BY <3>1
      <4> HIDE DEF Small
      <4> QED  BY <4>1
    <3> QED  BY <3>1, <3>2
  <2>3. \A s \in Small(n) : h[s] \in State
    <3> SUFFICES ASSUME NEW s \in Small(n), s # {}  PROVE  Body(g, s) \in State  OBVIOUS
    <3>1. g[s \ {Max(s)}] \in State /\ Max(s) \in 1 .. N  BY <2>2
    <3> QED  BY <3>1
  <2>4. Small(n - 1) \subseteq Small(n)  OBVIOUS
  <2>5. \A s \in Small(n - 1) : h[s] = g[s]  BY <2>1, <2>4
  <2>6. ASSUME NEW s \in Small(n)  PROVE  h[s] = Body(h, s)
    <3>1. CASE s = {}  BY <3>1
    <3>2. CASE s # {}
      <4>1. h[s \ {Max(s)}] = g[s \ {Max(s)}]  BY <2>2, <2>5, <3>2
      <4>2. h[s] = step[<<g[s \ {Max(s)}], Max(s)>>]  BY <3>2
      <4> HIDE DEF h
      <4> QED  BY <3>2, <4>1, <4>2
    <3> QED  BY <3>1, <3>2
  <2>7. h \in [Small(n) -> State]  BY <2>3
  <2> HIDE DEF h
  <2> QED  BY <2>6, <2>7
<1> HIDE DEF Solved
<1>4. N \in C
  <2>1. 0 \in C /\ \A k \in 1 .. N : k - 1 \in C => k \in C  BY <1>2, <1>3
  <2> HIDE DEF C
  <2> QED  BY <2>1, Upward
<1>5. Small(N) = SUBSET (1 .. N)  OBVIOUS
<1>6. PICK g \in [SUBSET (1 .. N) -> State] : \A s \in SUBSET (1 .. N) : g[s] = Body(g, s)
  BY <1>4, <1>5 DEF Solved
<1>7. ASSUME NEW s \in SUBSET (1 .. N), s # {}
      PROVE  g[s \ {Max(s)}] \in State /\ Max(s) \in 1 .. N /\ g[s] = step[<<g[s \ {Max(s)}], Max(s)>>]
  <2>1. Max(s) \in s  BY <1>1, <1>7
  <2> QED  BY <1>6, <1>7, <2>1
<1> QED  BY <1>6, <1>7 DEF Solves

\* Along the prefixes a solution goes step by step.
LEMMA AlongSteps ==
  ASSUME NEW N \in Nat, NEW State, NEW base \in State, NEW step \in [State \X (1 .. N) -> State],
         NEW it, Along(it, N, State, base, step)
  PROVE  \E st : Walk(st, N, State, base, step, it[1 .. N])
<1> DEFINE Steps(k) == it[1 .. k] \in State /\ (k # 0 => it[1 .. k] = step[<<it[1 .. k - 1], k>>])
<1>1. it[1 .. 0] = base
  <2>1. 1 .. 0 = {} /\ {} \in SUBSET (1 .. N)  OBVIOUS
  <2> QED  BY <2>1 DEF Along
<1>2. Steps(0)  BY <1>1
<1>3. ASSUME NEW k \in 1 .. N, Steps(k - 1)  PROVE  Steps(k)
  <2>1. Max(1 .. k) = k /\ (1 .. k) \ {k} = 1 .. k - 1  BY LastOfPrefix
  <2>2. 1 .. k \in SUBSET (1 .. N) /\ 1 .. k # {}  OBVIOUS
  <2>3. it[1 .. k] = step[<<it[1 .. k - 1], k>>]  BY <1>3, <2>1, <2>2 DEF Along
  <2> QED  BY <1>3, <2>3
<1>4. \A k \in 0 .. N : Steps(k)
  <2> SUFFICES ASSUME NEW k \in 0 .. N  PROVE  Steps(k)  OBVIOUS
  <2> DEFINE C == {j \in 0 .. k : Steps(j)}
  <2>1. 0 \in C /\ \A j \in 1 .. k : j - 1 \in C => j \in C  BY <1>2, <1>3
  <2>2. k \in C
    <3> HIDE DEF C
    <3> QED  BY <2>1, Upward
  <2> QED  BY <2>2
<1> DEFINE st == [k \in 0 .. N |-> it[1 .. k]]
<1>5. st \in [0 .. N -> State] /\ st[0] = base /\ st[N] = it[1 .. N]
  <2>1. \A k \in 0 .. N : it[1 .. k] \in State  BY <1>4
  <2>2. st \in [0 .. N -> State]
    <3> HIDE DEF Steps
    <3> QED  BY <2>1
  <2>3. 0 \in 0 .. N /\ N \in 0 .. N  OBVIOUS
  <2> QED  BY <1>1, <2>2, <2>3
<1>6. ASSUME NEW k \in 1 .. N  PROVE  st[k] = step[<<st[k - 1], k>>]
  <2>1. k - 1 \in 0 .. N /\ k \in 0 .. N /\ k # 0  OBVIOUS
  <2> QED  BY <1>4, <2>1
<1> HIDE DEF st
<1> QED  BY <1>5, <1>6 DEF Walk

\* Two walks that take the same steps are at the same place.
LEMMA SameWalk ==
  ASSUME NEW n \in Nat, NEW a, NEW b, a[0] = b[0], \A k \in 1 .. n : a[k - 1] = b[k - 1] => a[k] = b[k]
  PROVE  a[n] = b[n]
<1> DEFINE C == {k \in 0 .. n : a[k] = b[k]}
<1>1. 0 \in C /\ \A k \in 1 .. n : k - 1 \in C => k \in C  OBVIOUS
<1> HIDE DEF C
<1>2. n \in C  BY <1>1, Upward
<1> QED  BY <1>2 DEF C

-----------------------------------------------------------------------------
(* What is kept of a sequence *)

KeptStep(seq, places, kept, i) == IF i \in places THEN Append(kept, seq[i]) ELSE kept

KeptBy(st, T, seq, places) ==
  /\ st \in [0 .. Len(seq) -> Seq(T)]
  /\ st[0] = <<>> /\ st[Len(seq)] = Kept(seq, places)
  /\ \A k \in 1 .. Len(seq) : st[k] = KeptStep(seq, places, st[k - 1], k)

LEMMA KeptWalk ==
  ASSUME NEW T, NEW seq \in Seq(T), NEW places
  PROVE  \E st : KeptBy(st, T, seq, places)
<1> DEFINE n == Len(seq)
           index == [i \in DOMAIN seq |-> i]
           State == Seq(T)
           Body(g, s) == IF s = {} THEN <<>> ELSE KeptStep(seq, places, g[s \ {Max(s)}], index[Max(s)])
           it == CHOOSE g : g = [s \in SUBSET (1 .. n) |-> Body(g, s)]
           step == [q \in State \X (1 .. n) |-> KeptStep(seq, places, q[1], q[2])]
<1>1. n \in Nat /\ DOMAIN seq = 1 .. n /\ DOMAIN index = 1 .. n /\ \A k \in 1 .. n : seq[k] \in T /\ index[k] = k
  OBVIOUS
<1>2. Kept(seq, places) = it[1 .. n]  BY <1>1 DEF Kept, FoldLeft, MapThenFoldSet, KeptStep
<1>3. step \in [State \X (1 .. n) -> State]  BY <1>1 DEF KeptStep
<1>4. \A w \in State, k \in 1 .. n : step[<<w, k>>] = KeptStep(seq, places, w, k)  OBVIOUS
<1>5. <<>> \in State  OBVIOUS
<1> HIDE DEF State, step, n, index
<1>6. PICK g : Solves(g, n, State, <<>>, step)  BY <1>1, <1>3, <1>5, AlongExists
<1>7. \A s \in SUBSET (1 .. n) : g[s] = Body(g, s)  BY <1>1, <1>4, <1>6 DEF Solves
<1>8. g = [s \in SUBSET (1 .. n) |-> Body(g, s)]  BY <1>6, <1>7 DEF Solves
<1>9. it = [s \in SUBSET (1 .. n) |-> Body(it, s)]  BY <1>8
<1> HIDE DEF it
<1>10. Along(it, n, State, <<>>, step)
  <2>1. ASSUME NEW s \in SUBSET (1 .. n), s # {}, it[s \ {Max(s)}] \in State
        PROVE  it[s] = step[<<it[s \ {Max(s)}], Max(s)>>]
    <3>1. Max(s) \in 1 .. n  BY <1>1, <2>1, GreatestIsIn
    <3>2. it[s] = KeptStep(seq, places, it[s \ {Max(s)}], index[Max(s)])  BY <1>9, <2>1
    <3>3. index[Max(s)] = Max(s)  BY <1>1, <3>1
    <3> QED  BY <1>4, <2>1, <3>1, <3>2, <3>3
  <2> QED  BY <1>9, <2>1 DEF Along
<1>11. PICK st : Walk(st, n, State, <<>>, step, it[1 .. n])
  BY <1>1, <1>3, <1>5, <1>10, AlongSteps
<1>12. \A k \in 1 .. n : st[k] = KeptStep(seq, places, st[k - 1], k)
  <2> SUFFICES ASSUME NEW k \in 1 .. n  PROVE  st[k] = KeptStep(seq, places, st[k - 1], k)  OBVIOUS
  <2>1. k - 1 \in 0 .. n  BY <1>1
  <2> QED  BY <1>4, <1>11, <2>1 DEF Walk
<1> QED  BY <1>2, <1>11, <1>12 DEF Walk, KeptBy, State, n

\* What is kept of a longer sequence is what was kept, and the last element if
\* its place is one of them.
LEMMA KeptOfAppend ==
  ASSUME NEW T, NEW seq \in Seq(T), NEW x \in T, NEW few, NEW more,
         \A i \in 1 .. Len(seq) : i \in few <=> i \in more
  PROVE  /\ Kept(seq, few) \in Seq(T) /\ Kept(<<>>, few) = <<>>
         /\ Kept(Append(seq, x), more)
              = IF Len(seq) + 1 \in more THEN Append(Kept(seq, few), x) ELSE Kept(seq, few)
<1> DEFINE n == Len(seq)
           long == Append(seq, x)
<1>1. n \in Nat /\ long \in Seq(T) /\ Len(long) = n + 1 /\ long[n + 1] = x /\ \A i \in 1 .. n : long[i] = seq[i]
  OBVIOUS
<1> HIDE DEF long, n
<1>2. PICK a : KeptBy(a, T, seq, few)  BY KeptWalk
<1>3. PICK b : KeptBy(b, T, long, more)  BY <1>1, KeptWalk
<1>a. /\ a \in [0 .. n -> Seq(T)] /\ a[0] = <<>> /\ a[n] = Kept(seq, few)
      /\ \A k \in 1 .. n : a[k] = KeptStep(seq, few, a[k - 1], k)
  BY <1>2 DEF KeptBy, n
<1>b. /\ b[0] = <<>> /\ b[n + 1] = Kept(long, more)
      /\ \A k \in 1 .. n + 1 : b[k] = KeptStep(long, more, b[k - 1], k)
  BY <1>1, <1>3 DEF KeptBy
<1>4. Kept(<<>>, few) = <<>>
  <2>1. <<>> \in Seq(T) /\ Len(<<>>) = 0  OBVIOUS
  <2>2. PICK c : KeptBy(c, T, <<>>, few)  BY <2>1, KeptWalk
  <2> QED  BY <2>1, <2>2 DEF KeptBy
<1>5. \A k \in 1 .. n : a[k - 1] = b[k - 1] => a[k] = b[k]
  <2> SUFFICES ASSUME NEW k \in 1 .. n, a[k - 1] = b[k - 1]  PROVE  a[k] = b[k]  OBVIOUS
  <2>1. k \in 1 .. n + 1 /\ (k \in few <=> k \in more) /\ long[k] = seq[k]  BY <1>1 DEF n
  <2> QED  BY <1>a, <1>b, <2>1 DEF KeptStep
<1>6. a[n] = b[n]  BY <1>1, <1>a, <1>b, <1>5, SameWalk
<1>7. Kept(long, more) = KeptStep(long, more, b[n], n + 1)
  <2>1. n + 1 \in 1 .. n + 1 /\ (n + 1) - 1 = n  BY <1>1
  <2> QED  BY <1>b, <2>1
<1>8. Kept(seq, few) \in Seq(T)
  <2>1. n \in 0 .. n  BY <1>1
  <2> QED  BY <1>a, <2>1
<1> QED  BY <1>1, <1>a, <1>4, <1>6, <1>7, <1>8 DEF KeptStep, long, n

-----------------------------------------------------------------------------
(* The files of a diff *)

FileDiff   == [path : Path, added : Seq(Text), existing : Seq(Text)]
SplitState == [files : Seq(FileDiff), cur : FileDiff]
Nothing    == [files |-> <<>>, cur |-> Unnamed]

LEMMA Longer == \A T : \A s \in Seq(T), x \in T : Append(s, x) \in Seq(T)
OBVIOUS

LEMMA SplitLineTypes ==
  /\ Nothing \in SplitState
  /\ \A split \in SplitState, l \in Line : SplitLine(split, l) \in SplitState
<1>1. Unnamed \in FileDiff  BY DEF Unnamed, FileDiff, NoPath, Path
<1>2. ASSUME NEW split \in SplitState, NEW l \in Line  PROVE  SplitLine(split, l) \in SplitState
  <2> DEFINE files == split.files
             cur == split.cur
  <2>1. split = [files |-> files, cur |-> cur] /\ files \in Seq(FileDiff) /\ cur \in FileDiff  BY DEF SplitState
  <2>2. cur.path \in Path /\ cur.added \in Seq(Text) /\ cur.existing \in Seq(Text)  BY <2>1 DEF FileDiff
  <2>3. l.sign \in {"diff", "+++", "@@", "+", "-", " "} /\ l.path \in Path /\ l.text \in Text  BY DEF Line
  <2>4. Append(files, cur) \in Seq(FileDiff)  BY <2>1
  <2>5. [Unnamed EXCEPT !.path = l.path] \in FileDiff  BY <1>1, <2>3 DEF FileDiff
  <2>6. [cur EXCEPT !.path = l.path] \in FileDiff  BY <2>1, <2>3 DEF FileDiff
  <2>a. Append(cur.added, l.text) \in Seq(Text) /\ Append(cur.existing, l.text) \in Seq(Text)
    BY <2>2, <2>3, Longer
  <2>7. [cur EXCEPT !.added = Append(@, l.text)] \in FileDiff
    <3> HIDE DEF cur
    <3> QED  BY <2>1, <2>a DEF FileDiff
  <2>8. [cur EXCEPT !.existing = Append(@, l.text)] \in FileDiff
    <3> HIDE DEF cur
    <3> QED  BY <2>1, <2>a DEF FileDiff
  <2>9. CASE l.sign = "diff" /\ Begun(cur)
    <3>1. SplitLine(split, l) = [files |-> Append(files, cur), cur |-> [Unnamed EXCEPT !.path = l.path]]
      BY <2>9 DEF SplitLine, FileMarker, Skipped, Begun
    <3> HIDE DEF files, cur
    <3> QED  BY <2>4, <2>5, <3>1 DEF SplitState
  <2>10. CASE l.sign = "diff" /\ ~Begun(cur)
    <3>1. SplitLine(split, l) = [split EXCEPT !.cur.path = l.path]  BY <2>10 DEF SplitLine, FileMarker, Skipped, Begun
    <3> QED  BY <2>1, <2>6, <3>1 DEF SplitState
  <2>11. CASE l.sign # "diff"
    <3>1. \/ SplitLine(split, l) = split
          \/ SplitLine(split, l) = [split EXCEPT !.cur.path = l.path]
          \/ SplitLine(split, l) = [split EXCEPT !.cur.added = Append(@, l.text)]
          \/ SplitLine(split, l) = [split EXCEPT !.cur.existing = Append(@, l.text)]
      BY <2>3, <2>11 DEF SplitLine, FileMarker, Skipped
    <3> QED  BY <2>1, <2>6, <2>7, <2>8, <3>1 DEF SplitState
  <2> QED  BY <2>9, <2>10, <2>11
<1> QED  BY <1>1, <1>2 DEF Nothing, SplitState

SplitBy(st, diff) ==
  /\ st \in [0 .. Len(diff) -> SplitState]
  /\ st[0] = Nothing /\ st[Len(diff)] = Split(diff)
  /\ \A k \in 1 .. Len(diff) : st[k] = SplitLine(st[k - 1], diff[k])

LEMMA SplitWalk == \A diff \in Seq(Line) : \E st : SplitBy(st, diff)
<1> SUFFICES ASSUME NEW diff \in Seq(Line)  PROVE  \E st : SplitBy(st, diff)  OBVIOUS
<1> DEFINE n == Len(diff)
           Body(g, s) == IF s = {} THEN Nothing ELSE SplitLine(g[s \ {Max(s)}], diff[Max(s)])
           it == CHOOSE g : g = [s \in SUBSET (1 .. n) |-> Body(g, s)]
           step == [q \in SplitState \X (1 .. n) |-> SplitLine(q[1], diff[q[2]])]
<1>1. n \in Nat /\ DOMAIN diff = 1 .. n /\ \A k \in 1 .. n : diff[k] \in Line  OBVIOUS
<1>2. Split(diff) = it[1 .. n]  BY <1>1 DEF Split, FoldLeft, MapThenFoldSet, Nothing
<1>3. step \in [SplitState \X (1 .. n) -> SplitState]
  <2> HIDE DEF n
  <2> QED  BY <1>1, SplitLineTypes
<1>4. \A w \in SplitState, k \in 1 .. n : step[<<w, k>>] = SplitLine(w, diff[k])  OBVIOUS
<1> HIDE DEF step, n
<1>5. PICK g : Solves(g, n, SplitState, Nothing, step)  BY <1>1, <1>3, SplitLineTypes, AlongExists
<1>6. \A s \in SUBSET (1 .. n) : g[s] = Body(g, s)  BY <1>4, <1>5 DEF Solves
<1>7. g = [s \in SUBSET (1 .. n) |-> Body(g, s)]  BY <1>5, <1>6 DEF Solves
<1>8. it = [s \in SUBSET (1 .. n) |-> Body(it, s)]  BY <1>7
<1> HIDE DEF it
<1>9. Along(it, n, SplitState, Nothing, step)
  <2>1. ASSUME NEW s \in SUBSET (1 .. n), s # {}, it[s \ {Max(s)}] \in SplitState
        PROVE  it[s] = step[<<it[s \ {Max(s)}], Max(s)>>]
    <3>1. Max(s) \in 1 .. n  BY <1>1, <2>1, GreatestIsIn
    <3> QED  BY <1>4, <1>8, <2>1, <3>1
  <2> QED  BY <1>8, <2>1 DEF Along
<1>10. PICK st : Walk(st, n, SplitState, Nothing, step, it[1 .. n])
  BY <1>1, <1>3, <1>9, SplitLineTypes, AlongSteps
<1>11. \A k \in 1 .. n : st[k] = SplitLine(st[k - 1], diff[k])
  <2> SUFFICES ASSUME NEW k \in 1 .. n  PROVE  st[k] = SplitLine(st[k - 1], diff[k])  OBVIOUS
  <2>1. k - 1 \in 0 .. n  BY <1>1
  <2> QED  BY <1>4, <1>10, <2>1 DEF Walk
<1> QED  BY <1>2, <1>10, <1>11 DEF Walk, SplitBy, n

\* The diff with one more line is split by one more step.
LEMMA SplitOfAppend ==
  ASSUME NEW diff \in Seq(Line), NEW l \in Line
  PROVE  /\ Split(<<>>) = Nothing /\ Split(diff) \in SplitState
         /\ Split(Append(diff, l)) = SplitLine(Split(diff), l)
<1> DEFINE n == Len(diff)
           long == Append(diff, l)
<1>1. n \in Nat /\ long \in Seq(Line) /\ Len(long) = n + 1 /\ long[n + 1] = l /\ \A i \in 1 .. n : long[i] = diff[i]
  OBVIOUS
<1> HIDE DEF long, n
<1>2. PICK a : SplitBy(a, diff)  BY SplitWalk
<1>3. PICK b : SplitBy(b, long)  BY <1>1, SplitWalk
<1>a. /\ a \in [0 .. n -> SplitState] /\ a[0] = Nothing /\ a[n] = Split(diff)
      /\ \A k \in 1 .. n : a[k] = SplitLine(a[k - 1], diff[k])
  BY <1>2 DEF SplitBy, n
<1>b. /\ b[0] = Nothing /\ b[n + 1] = Split(long)
      /\ \A k \in 1 .. n + 1 : b[k] = SplitLine(b[k - 1], long[k])
  BY <1>1, <1>3 DEF SplitBy
<1>4. Split(<<>>) = Nothing
  <2>1. <<>> \in Seq(Line) /\ Len(<<>>) = 0  OBVIOUS
  <2>2. PICK c : SplitBy(c, <<>>)  BY <2>1, SplitWalk
  <2> QED  BY <2>1, <2>2 DEF SplitBy
<1>5. \A k \in 1 .. n : a[k - 1] = b[k - 1] => a[k] = b[k]
  <2> SUFFICES ASSUME NEW k \in 1 .. n, a[k - 1] = b[k - 1]  PROVE  a[k] = b[k]  OBVIOUS
  <2>1. k \in 1 .. n + 1 /\ long[k] = diff[k]  BY <1>1
  <2> QED  BY <1>a, <1>b, <2>1
<1>c. a[0] = b[0]  BY <1>a, <1>b
<1>6. a[n] = b[n]  BY <1>1, <1>c, <1>5, SameWalk
<1>7. Split(long) = SplitLine(b[n], l)
  <2>1. n + 1 \in 1 .. n + 1 /\ (n + 1) - 1 = n  BY <1>1
  <2> QED  BY <1>1, <1>b, <2>1
<1>8. Split(diff) \in SplitState
  <2>1. n \in 0 .. n  BY <1>1
  <2> QED  BY <1>a, <2>1
<1> QED  BY <1>a, <1>4, <1>6, <1>7, <1>8 DEF long

-----------------------------------------------------------------------------
(* The names of the rules *)

Named(fires, rule) == \A f \in fires : f.rule = rule

CopyRules     == {"CODE_DUP_BLOCK", "CODE_DUP_FUNC", "CODE_MAGIC_NUMBER", "CODE_REPEAT_LITERAL", "CODE_HARDCODED_CONFIG",
                  "CODE_BLANKET_CATCH", "CODE_DOC_SCAFFOLD", "CODE_STYLE_DRIFT"}
TextRules     == {"CODE_PLACEHOLDER", "CODE_COMMENT_RESTATE", "CODE_GENERIC_IDENT", "COMMENT_HEAVY", "WHITESPACE_ONLY"}
PipelineRules == {"PROTECTED_PATH_ONLY", "DOCS_ONLY", "BODY_EMPTY", "TEMPLATE_IGNORED", "BRANCH_DRIVE_BY",
                  "TITLE_UPDATE_FILE", "SINGLE_WEB_COMMIT", "BODY_DIFF_MISMATCH", "DIFF_ENORMOUS", "BODY_TO_DIFF_RATIO",
                  "BEGGING", "USERNAME_PATTERN", "AGENT_BRANCH", "AGENT_ACCOUNT", "BRANCH_GENERATED", "BODY_SCAFFOLD",
                  "GROUNDING_MISS", "AUTHORING_RATE"}

LEMMA WhenNames ==
  /\ \A c, r, n, d : Named(When(c, Fire(r, n, d)), r)
  /\ \A c, r : Named(When(c, Hit(r)), r)
BY DEF When, Fire, Hit, Named

\* The rules of a production source, one by one.
FileRules(prod) ==
  LET funcs == Functions(prod)
  IN  IF CodeLines(prod) < MIN_CODE_LINES THEN {}
      ELSE UNION { DupBlock(prod), DupFunc(funcs), MagicNumber(prod), RepeatedLiteral(prod), HardcodedConfig(prod),
                   BlanketCatch(prod), DocScaffold(funcs), StyleDrift(prod) }

LEMMA FileNames == \A prod : \A f \in FileRules(prod) : f.rule \in CopyRules
<1> SUFFICES ASSUME NEW prod, NEW f \in FileRules(prod)  PROVE  f.rule \in CopyRules  OBVIOUS
<1> DEFINE funcs == Functions(prod)
<1>1. Named(DupBlock(prod), "CODE_DUP_BLOCK")  BY WhenNames DEF DupBlock
<1>2. Named(DupFunc(funcs), "CODE_DUP_FUNC")  BY WhenNames DEF DupFunc
<1>3. Named(MagicNumber(prod), "CODE_MAGIC_NUMBER")  BY WhenNames DEF MagicNumber
<1>4. Named(RepeatedLiteral(prod), "CODE_REPEAT_LITERAL")  BY WhenNames DEF RepeatedLiteral
<1>5. Named(HardcodedConfig(prod), "CODE_HARDCODED_CONFIG")  BY WhenNames DEF HardcodedConfig
<1>6. Named(BlanketCatch(prod), "CODE_BLANKET_CATCH")  BY WhenNames DEF BlanketCatch
<1>7. Named(DocScaffold(funcs), "CODE_DOC_SCAFFOLD")  BY WhenNames DEF DocScaffold
<1>8. Named(StyleDrift(prod), "CODE_STYLE_DRIFT")  BY WhenNames DEF StyleDrift, Named
<1>9. f \in UNION { DupBlock(prod), DupFunc(funcs), MagicNumber(prod), RepeatedLiteral(prod), HardcodedConfig(prod),
                    BlanketCatch(prod), DocScaffold(funcs), StyleDrift(prod) }
  BY DEF FileRules
<1> HIDE DEF funcs
<1> QED  BY <1>1, <1>2, <1>3, <1>4, <1>5, <1>6, <1>7, <1>8, <1>9 DEF Named, CopyRules

\* The structural rules other than that of the dead helpers look at nothing but the
\* production files.
LEMMA StructSplit ==
  ASSUME NEW diff
  PROVE  /\ {f \in StructRules(diff) : f.rule /= "CODE_DEAD_HELPER"} = FileRules(Production(diff))
         /\ Structural(StructRules(diff)) = StructRules(diff)
<1> DEFINE prod  == Production(diff)
           funcs == Functions(prod)
           dead  == DeadHelper(funcs, diff)
<1>1. Named(dead, "CODE_DEAD_HELPER")  BY WhenNames DEF DeadHelper
<1>2. StructRules(diff) = IF CodeLines(prod) < MIN_CODE_LINES THEN {} ELSE FileRules(prod) \cup dead
  <2>1. StructRules(diff) = IF CodeLines(prod) < MIN_CODE_LINES THEN {} ELSE
          UNION { DupBlock(prod), DupFunc(funcs), MagicNumber(prod), RepeatedLiteral(prod), HardcodedConfig(prod),
                  BlanketCatch(prod), DocScaffold(funcs), dead, StyleDrift(prod) }
    BY DEF StructRules
  <2>2. FileRules(prod) = IF CodeLines(prod) < MIN_CODE_LINES THEN {} ELSE
          UNION { DupBlock(prod), DupFunc(funcs), MagicNumber(prod), RepeatedLiteral(prod), HardcodedConfig(prod),
                  BlanketCatch(prod), DocScaffold(funcs), StyleDrift(prod) }
    BY DEF FileRules
  <2> HIDE DEF prod, funcs, dead
  <2> QED  BY <2>1, <2>2
<1>3. CodeLines(prod) < MIN_CODE_LINES => FileRules(prod) = {}  BY DEF FileRules
<1>4. \A f \in FileRules(prod) : f.rule \in CopyRules  BY FileNames
<1> HIDE DEF prod, funcs, dead
<1>5. {f \in StructRules(diff) : f.rule /= "CODE_DEAD_HELPER"} = FileRules(prod)
  BY <1>1, <1>2, <1>3, <1>4 DEF Named, CopyRules
<1>6. \A f \in StructRules(diff) : f.rule \in CopyRules \cup {"CODE_DEAD_HELPER"}
  BY <1>1, <1>2, <1>4 DEF Named
<1>7. Structural(StructRules(diff)) = StructRules(diff)  BY <1>6 DEF Structural, CopyRules
<1> QED  BY <1>5, <1>7 DEF prod

LEMMA TextNames ==
  \A diff : \A f \in SlopRules(diff) \cup CommentDensity(diff) \cup When(WhitespaceOnly(diff), Hit("WHITESPACE_ONLY")) :
    f.rule \in TextRules
<1> SUFFICES ASSUME NEW diff
             PROVE  /\ \A f \in SlopRules(diff) : f.rule \in TextRules
                    /\ \A f \in CommentDensity(diff) : f.rule \in TextRules
                    /\ \A f \in When(WhitespaceOnly(diff), Hit("WHITESPACE_ONLY")) : f.rule \in TextRules
  OBVIOUS
<1>1. \A f \in SlopRules(diff) : f.rule \in TextRules  BY WhenNames DEF SlopRules, Named, TextRules
<1>2. Named(CommentDensity(diff), "COMMENT_HEAVY")  BY WhenNames DEF CommentDensity
<1>3. Named(When(WhitespaceOnly(diff), Hit("WHITESPACE_ONLY")), "WHITESPACE_ONLY")  BY WhenNames
<1> QED  BY <1>1, <1>2, <1>3 DEF Named, TextRules

LEMMA PolicyNames ==
  ASSUME NEW conf, NEW pr, NEW paths, NEW times
  PROVE  /\ Named(TemplateUnfilled(pr.body), "TEMPLATE_UNFILLED")
         /\ TemplateUnfilled(pr.body) \subseteq PolicyRules(conf, pr, paths, times)
         /\ \A f \in PolicyRules(conf, pr, paths, times) : f \in TemplateUnfilled(pr.body) \/ f.rule \in PipelineRules
<1>1. Named(TemplateUnfilled(pr.body), "TEMPLATE_UNFILLED")  BY WhenNames DEF TemplateUnfilled
<1>2. Named(Enormous(pr, paths), "DIFF_ENORMOUS")  BY WhenNames DEF Enormous
<1>3. Named(BodyToDiffRatio(pr), "BODY_TO_DIFF_RATIO")  BY WhenNames DEF BodyToDiffRatio
<1>4. Named(Begging(pr), "BEGGING")  BY WhenNames DEF Begging
<1>5. /\ TemplateUnfilled(pr.body) \subseteq ShapeRules(pr, paths, times)
      /\ \A f \in ShapeRules(pr, paths, times) : f \in TemplateUnfilled(pr.body) \/ f.rule \in PipelineRules
  BY WhenNames, <1>2, <1>3, <1>4 DEF ShapeRules, Named, PipelineRules
<1> QED  BY WhenNames, <1>1, <1>5 DEF PolicyRules, Named, PipelineRules

\* Of the rules of a pull request, the structural ones are those of its diff, and
\* the one of the unfilled template that of its body.
LEMMA LaneSplit ==
  ASSUME NEW conf, NEW pr, NEW diff, NEW paths, NEW times
  PROVE  LET fires == LaneRules(conf, pr, diff, paths, times)
         IN  /\ Structural(fires) = StructRules(diff)
             /\ {f \in fires : f.rule = "TEMPLATE_UNFILLED"} = TemplateUnfilled(pr.body)
<1> DEFINE fires == LaneRules(conf, pr, diff, paths, times)
           text  == SlopRules(diff) \cup CommentDensity(diff) \cup When(WhitespaceOnly(diff), Hit("WHITESPACE_ONLY"))
           rest  == When(GroundingMiss(pr.body, diff, paths), Hit("GROUNDING_MISS")) \cup AuthoringRate(times, pr.additions)
<1>1. fires = PolicyRules(conf, pr, paths, times) \cup text \cup rest \cup StructRules(diff)  BY DEF LaneRules
<1>2. \A f \in text : f.rule \in TextRules  BY TextNames
<1>3. \A f \in rest : f.rule \in PipelineRules
  <2>1. Named(AuthoringRate(times, pr.additions), "AUTHORING_RATE")  BY WhenNames DEF AuthoringRate, Named
  <2>2. Named(When(GroundingMiss(pr.body, diff, paths), Hit("GROUNDING_MISS")), "GROUNDING_MISS")  BY WhenNames
  <2> QED  BY <2>1, <2>2 DEF Named, PipelineRules
<1>4. \A f \in StructRules(diff) : f.rule \in CopyRules \cup {"CODE_DEAD_HELPER"}
  BY StructSplit DEF Structural, CopyRules
<1> HIDE DEF fires, text, rest
<1>5. Structural(fires) = Structural(StructRules(diff))
  BY <1>1, <1>2, <1>3, PolicyNames DEF Structural, TextRules, PipelineRules, Named
<1>6. {f \in fires : f.rule = "TEMPLATE_UNFILLED"} = TemplateUnfilled(pr.body)
  BY <1>1, <1>2, <1>3, <1>4, PolicyNames DEF TextRules, PipelineRules, CopyRules, Named
<1>7. Structural(fires) = StructRules(diff)  BY <1>5, StructSplit
<1> QED  BY <1>6, <1>7 DEF fires

-----------------------------------------------------------------------------
(* The production files of a diff *)

LEMMA ProductionOfAppend ==
  ASSUME NEW files \in Seq(FileDiff), NEW f \in FileDiff
  PROVE  ProductionAmong(Append(files, f))
           = IF IsProductionSource(f.path) THEN Append(ProductionAmong(files), f) ELSE ProductionAmong(files)
<1> DEFINE long == Append(files, f)
           few  == {k \in DOMAIN files : IsProductionSource(files[k].path)}
           more == {k \in DOMAIN long : IsProductionSource(long[k].path)}
           n    == Len(files)
<1>1. n \in Nat /\ DOMAIN files = 1 .. n /\ DOMAIN long = 1 .. n + 1 /\ long[n + 1] = f
      /\ \A i \in 1 .. n : long[i] = files[i]
  OBVIOUS
<1>2. ProductionAmong(long) = Kept(long, more) /\ ProductionAmong(files) = Kept(files, few)  BY DEF ProductionAmong
<1> HIDE DEF long
<1>3. \A i \in 1 .. n : i \in few <=> i \in more  BY <1>1
<1>4. n + 1 \in more <=> IsProductionSource(f.path)  BY <1>1
<1> HIDE DEF few, more
<1>5. Kept(long, more) = IF n + 1 \in more THEN Append(Kept(files, few), f) ELSE Kept(files, few)
  BY <1>3, KeptOfAppend DEF long
<1> QED  BY <1>2, <1>4, <1>5 DEF long

\* A header closes the file before it, if there is one.
LEMMA HeaderStep ==
  ASSUME NEW split \in SplitState, NEW l \in Line, l.sign = "diff", split = Nothing \/ Begun(split.cur)
  PROVE  SplitLine(split, l) = [files |-> Closed(split), cur |-> [Unnamed EXCEPT !.path = l.path]]
<1>1. CASE Begun(split.cur)  BY <1>1 DEF SplitLine, FileMarker, Skipped, Closed
<1>2. CASE ~Begun(split.cur)
  <2>1. split = Nothing  BY <1>2
  <2>2. SplitLine(split, l) = [split EXCEPT !.cur.path = l.path]  BY <1>2 DEF SplitLine, FileMarker, Skipped
  <2>3. Closed(split) = <<>>  BY <1>2, <2>1 DEF Closed, Nothing
  <2> QED  BY <2>1, <2>2, <2>3 DEF Nothing, Unnamed
<1> QED  BY <1>1, <1>2

\* What a line that is no header makes of the file it is in.
Grown(cur, l) == SplitLine([files |-> <<>>, cur |-> cur], l).cur

LEMMA LineStep ==
  ASSUME NEW split \in SplitState, NEW l \in Line, l.sign # "diff", split.cur.path # NoPath
  PROVE  /\ SplitLine(split, l) = [files |-> split.files, cur |-> Grown(split.cur, l)]
         /\ Grown(split.cur, l).path = split.cur.path
<1> DEFINE files == split.files
           cur == split.cur
           lone == [files |-> <<>>, cur |-> cur]
<1>1. split = [files |-> files, cur |-> cur]  BY DEF SplitState
<1>2. DOMAIN cur = {"path", "added", "existing"}  BY DEF SplitState, FileDiff
<1>3. l.sign \in {"diff", "+++", "@@", "+", "-", " "}  BY DEF Line
<1>4. CASE FileMarker(l) \/ Skipped(l)
  <2>1. SplitLine(split, l) = split  BY <1>4 DEF SplitLine, FileMarker, Skipped
  <2>2. SplitLine(lone, l) = lone  BY <1>4 DEF SplitLine, FileMarker, Skipped
  <2> QED  BY <1>1, <2>1, <2>2 DEF Grown
<1>5. CASE l.sign = "+" /\ ~FileMarker(l)
  <2>1. SplitLine(split, l) = [split EXCEPT !.cur.added = Append(@, l.text)]  BY <1>5 DEF SplitLine, FileMarker, Skipped
  <2>2. SplitLine(lone, l) = [lone EXCEPT !.cur.added = Append(@, l.text)]  BY <1>5 DEF SplitLine, FileMarker, Skipped
  <2> QED  BY <1>1, <1>2, <2>1, <2>2 DEF Grown
<1>6. CASE l.sign \in {"-", " "} /\ ~Skipped(l)
  <2>1. SplitLine(split, l) = [split EXCEPT !.cur.existing = Append(@, l.text)]  BY <1>6 DEF SplitLine, FileMarker, Skipped
  <2>2. SplitLine(lone, l) = [lone EXCEPT !.cur.existing = Append(@, l.text)]  BY <1>6 DEF SplitLine, FileMarker, Skipped
  <2> QED  BY <1>1, <1>2, <2>1, <2>2 DEF Grown
<1> QED  BY <1>3, <1>4, <1>5, <1>6 DEF FileMarker, Skipped

\* The header of a line is the line itself, or that of the line before.
LEMMA HeaderSteps ==
  ASSUME NEW diff \in Seq(Line), Headed(diff), NEW k \in 1 .. Len(diff)
  PROVE  /\ diff[k].sign = "diff" => HeaderOf(diff, k) = diff[k] /\ diff[k].path # NoPath
         /\ diff[k].sign # "diff" => k - 1 \in 1 .. Len(diff) /\ HeaderOf(diff, k) = HeaderOf(diff, k - 1)
<1> DEFINE upto(i) == {j \in Headers(diff) : j <= i}
<1>1. Len(diff) \in Nat /\ DOMAIN diff = 1 .. Len(diff)  OBVIOUS
<1>2. CASE diff[k].sign = "diff"
  <2>1. k \in upto(k) /\ \A j \in upto(k) : k >= j  BY <1>1, <1>2 DEF Headers
  <2>2. \A i \in upto(k) : (\A j \in upto(k) : i >= j) => i = k
    <3> SUFFICES ASSUME NEW i \in upto(k), \A j \in upto(k) : i >= j  PROVE  i = k  OBVIOUS
    <3>1. i >= k /\ k >= i /\ i \in 1 .. Len(diff)  BY <1>1, <2>1 DEF Headers
    <3> QED  BY <1>1, <3>1
  <2> HIDE DEF upto
  <2>3. Max(upto(k)) = k  BY <2>1, <2>2 DEF Max
  <2> USE DEF upto
  <2>4. HeaderOf(diff, k) = diff[k]  BY <2>3 DEF HeaderOf
  <2>5. diff[k].path # NoPath  BY <1>1, <1>2 DEF Headed
  <2> QED  BY <1>2, <2>4, <2>5
<1>3. CASE diff[k].sign # "diff"
  <2>1. k # 1  BY <1>1, <1>3 DEF Headed
  <2>2. upto(k) = upto(k - 1)  BY <1>1, <1>3 DEF Headers
  <2>3. HeaderOf(diff, k) = diff[Max(upto(k))] /\ HeaderOf(diff, k - 1) = diff[Max(upto(k - 1))]  BY DEF HeaderOf
  <2> HIDE DEF upto
  <2> QED  BY <1>1, <1>3, <2>1, <2>2, <2>3
<1> QED  BY <1>2, <1>3

\* Where the split of a diff and that of its production files stand, after k lines.
InStep(diff, k, s, t) ==
  /\ s \in SplitState /\ t \in SplitState
  /\ ProductionAmong(Closed(s)) = ProductionAmong(Closed(t))
  /\ t = Nothing \/ t.cur.path # NoPath
  /\ k = 0 => s = Nothing /\ t = Nothing
  /\ k # 0 => /\ s.cur.path = HeaderOf(diff, k).path /\ s.cur.path # NoPath
              /\ IsProductionSource(s.cur.path) =>
                   t.cur = s.cur /\ ProductionAmong(t.files) = ProductionAmong(s.files)

LEMMA ClosedTypes == \A s \in SplitState : Closed(s) \in Seq(FileDiff) /\ s.files \in Seq(FileDiff) /\ s.cur \in FileDiff
<1> SUFFICES ASSUME NEW s \in SplitState  PROVE  Closed(s) \in Seq(FileDiff) /\ s.files \in Seq(FileDiff) /\ s.cur \in FileDiff
  OBVIOUS
<1>1. s.files \in Seq(FileDiff) /\ s.cur \in FileDiff  BY DEF SplitState
<1>2. Append(s.files, s.cur) \in Seq(FileDiff)  BY <1>1, Longer
<1> QED  BY <1>1, <1>2 DEF Closed

\* What is closed of a split whose file has a path.
LEMMA ClosedProduction ==
  ASSUME NEW s \in SplitState, s.cur.path # NoPath
  PROVE  ProductionAmong(Closed(s)) = IF IsProductionSource(s.cur.path) THEN Append(ProductionAmong(s.files), s.cur)
                                      ELSE ProductionAmong(s.files)
<1>1. Closed(s) = Append(s.files, s.cur)  BY DEF Closed, Begun
<1> QED  BY <1>1, ClosedTypes, ProductionOfAppend

LEMMA InStepHeader ==
  ASSUME NEW diff \in Seq(Line), Headed(diff), NEW k \in 1 .. Len(diff), diff[k].sign = "diff",
         NEW s, NEW t, InStep(diff, k - 1, s, t)
  PROVE  InStep(diff, k, SplitLine(s, diff[k]),
                IF IsProductionSource(HeaderOf(diff, k).path) THEN SplitLine(t, diff[k]) ELSE t)
<1> DEFINE l  == diff[k]
           s1 == SplitLine(s, l)
           t1 == IF IsProductionSource(HeaderOf(diff, k).path) THEN SplitLine(t, l) ELSE t
           fresh == [Unnamed EXCEPT !.path = l.path]
<1>1. l \in Line /\ k # 0 /\ Len(diff) \in Nat  OBVIOUS
<1>2. HeaderOf(diff, k) = l /\ l.path # NoPath  BY HeaderSteps
<1>3. s \in SplitState /\ t \in SplitState  BY DEF InStep
<1>4. s1 \in SplitState /\ t1 \in SplitState  BY <1>1, <1>3, SplitLineTypes
<1>5. fresh.path = l.path  BY DEF Unnamed
<1>6. s = Nothing \/ Begun(s.cur)  BY DEF InStep, Begun
<1>7. t = Nothing \/ Begun(t.cur)  BY DEF InStep, Begun
<1>8. s1 = [files |-> Closed(s), cur |-> fresh]  BY <1>1, <1>3, <1>6, HeaderStep
<1>9. IsProductionSource(l.path) => t1 = [files |-> Closed(t), cur |-> fresh]  BY <1>1, <1>2, <1>3, <1>7, HeaderStep
<1>10. ~IsProductionSource(l.path) => t1 = t  BY <1>2
<1>11. ProductionAmong(Closed(s)) = ProductionAmong(Closed(t))  BY DEF InStep
<1> HIDE DEF l, s1, t1, fresh
<1>12. s1.cur.path = HeaderOf(diff, k).path /\ s1.cur.path # NoPath  BY <1>2, <1>5, <1>8
<1>13. t1 = Nothing \/ t1.cur.path # NoPath
  BY <1>2, <1>5, <1>9, <1>10 DEF InStep
<1>14. IsProductionSource(s1.cur.path) => t1.cur = s1.cur /\ ProductionAmong(t1.files) = ProductionAmong(s1.files)
  BY <1>5, <1>8, <1>9, <1>11
<1>15. ProductionAmong(Closed(s1)) = ProductionAmong(Closed(t1))
  <2>1. CASE IsProductionSource(l.path)
    <3>1. ProductionAmong(Closed(s1)) = Append(ProductionAmong(s1.files), s1.cur)
      BY <1>4, <1>5, <1>8, <1>12, <2>1, ClosedProduction
    <3>2. t1.cur = s1.cur /\ ProductionAmong(t1.files) = ProductionAmong(s1.files)  BY <1>5, <1>8, <1>14, <2>1
    <3>3. ProductionAmong(Closed(t1)) = Append(ProductionAmong(t1.files), t1.cur)
      BY <1>4, <1>5, <1>8, <1>12, <2>1, <3>2, ClosedProduction
    <3> QED  BY <3>1, <3>2, <3>3
  <2>2. CASE ~IsProductionSource(l.path)
    <3>1. ProductionAmong(Closed(s1)) = ProductionAmong(s1.files)
      BY <1>4, <1>5, <1>8, <1>12, <2>2, ClosedProduction
    <3> QED  BY <1>8, <1>10, <1>11, <2>2, <3>1
  <2> QED  BY <2>1, <2>2
<1> QED  BY <1>1, <1>4, <1>12, <1>13, <1>14, <1>15 DEF InStep, l, s1, t1

LEMMA InStepLine ==
  ASSUME NEW diff \in Seq(Line), Headed(diff), NEW k \in 1 .. Len(diff), diff[k].sign # "diff",
         NEW s, NEW t, InStep(diff, k - 1, s, t)
  PROVE  InStep(diff, k, SplitLine(s, diff[k]),
                IF IsProductionSource(HeaderOf(diff, k).path) THEN SplitLine(t, diff[k]) ELSE t)
<1> DEFINE l  == diff[k]
           s1 == SplitLine(s, l)
           t1 == IF IsProductionSource(HeaderOf(diff, k).path) THEN SplitLine(t, l) ELSE t
<1>1. l \in Line /\ k # 0 /\ k - 1 # 0 /\ HeaderOf(diff, k) = HeaderOf(diff, k - 1)  BY HeaderSteps
<1>2. s \in SplitState /\ t \in SplitState  BY DEF InStep
<1>3. s1 \in SplitState /\ t1 \in SplitState  BY <1>1, <1>2, SplitLineTypes
<1>4. s.cur.path = HeaderOf(diff, k).path /\ s.cur.path # NoPath  BY <1>1 DEF InStep
<1>5. s1 = [files |-> s.files, cur |-> Grown(s.cur, l)] /\ Grown(s.cur, l).path = s.cur.path  BY <1>1, <1>2, <1>4, LineStep
<1>6. IsProductionSource(s.cur.path) => t.cur = s.cur /\ ProductionAmong(t.files) = ProductionAmong(s.files)
  BY <1>1 DEF InStep
<1>7. IsProductionSource(s.cur.path) => t1 = [files |-> t.files, cur |-> Grown(s.cur, l)]
  BY <1>1, <1>2, <1>4, <1>6, LineStep
<1>8. ~IsProductionSource(s.cur.path) => t1 = t  BY <1>4
<1>9. ProductionAmong(Closed(s)) = ProductionAmong(Closed(t)) /\ (t = Nothing \/ t.cur.path # NoPath)  BY DEF InStep
<1> HIDE DEF l, s1, t1
<1>10. s1.cur.path = s.cur.path /\ s1.files = s.files  BY <1>5
<1>11. t1 = Nothing \/ t1.cur.path # NoPath  BY <1>4, <1>5, <1>7, <1>8, <1>9
<1>12. IsProductionSource(s1.cur.path) => t1.cur = s1.cur /\ ProductionAmong(t1.files) = ProductionAmong(s1.files)
  BY <1>5, <1>6, <1>7, <1>10
<1>13. ProductionAmong(Closed(s1)) = ProductionAmong(Closed(t1))
  <2>1. CASE IsProductionSource(s.cur.path)
    <3>1. ProductionAmong(Closed(s1)) = Append(ProductionAmong(s1.files), s1.cur)
      BY <1>3, <1>4, <1>10, <2>1, ClosedProduction
    <3>2. t1.cur = s1.cur /\ ProductionAmong(t1.files) = ProductionAmong(s1.files)  BY <1>10, <1>12, <2>1
    <3>3. ProductionAmong(Closed(t1)) = Append(ProductionAmong(t1.files), t1.cur)
      BY <1>3, <1>4, <1>10, <2>1, <3>2, ClosedProduction
    <3> QED  BY <3>1, <3>2, <3>3
  <2>2. CASE ~IsProductionSource(s.cur.path)
    <3>1. ProductionAmong(Closed(s1)) = ProductionAmong(s1.files)
      BY <1>3, <1>4, <1>10, <2>2, ClosedProduction
    <3>2. ProductionAmong(Closed(s)) = ProductionAmong(s.files)
      BY <1>2, <1>4, <2>2, ClosedProduction
    <3> QED  BY <1>8, <1>9, <1>10, <2>2, <3>1, <3>2
  <2> QED  BY <2>1, <2>2
<1> QED  BY <1>1, <1>3, <1>4, <1>10, <1>11, <1>12, <1>13 DEF InStep, l, s1, t1

\* The production files of a diff are those of the diff without its other files.
LEMMA ProductionAlone ==
  ASSUME NEW diff \in Seq(Line), Headed(diff)
  PROVE  Production(diff) = Production(ProductionOf(diff))
<1> DEFINE n == Len(diff)
           places == {i \in DOMAIN diff : IsProductionSource(HeaderOf(diff, i).path)}
<1>1. n \in Nat /\ DOMAIN diff = 1 .. n /\ \A k \in 1 .. n : diff[k] \in Line  OBVIOUS
<1>2. \A k \in 1 .. n : k \in places <=> IsProductionSource(HeaderOf(diff, k).path)  BY <1>1
<1>3. ProductionOf(diff) = Kept(diff, places)  BY DEF ProductionOf
<1> HIDE DEF places
<1>4. PICK a : SplitBy(a, diff)  BY SplitWalk
<1>5. PICK b : KeptBy(b, Line, diff, places)  BY KeptWalk
<1> HIDE DEF n
<1>6. /\ a[0] = Nothing /\ a[n] = Split(diff)
      /\ \A k \in 1 .. n : a[k] = SplitLine(a[k - 1], diff[k])
  BY <1>4 DEF SplitBy, n
<1>7. /\ b \in [0 .. n -> Seq(Line)] /\ b[0] = <<>> /\ b[n] = ProductionOf(diff)
      /\ \A k \in 1 .. n : b[k] = IF k \in places THEN Append(b[k - 1], diff[k]) ELSE b[k - 1]
  BY <1>3, <1>5 DEF KeptBy, KeptStep, n
<1>8. \A k \in 1 .. n : Split(b[k]) = IF k \in places THEN SplitLine(Split(b[k - 1]), diff[k]) ELSE Split(b[k - 1])
  <2> SUFFICES ASSUME NEW k \in 1 .. n
               PROVE  Split(b[k]) = IF k \in places THEN SplitLine(Split(b[k - 1]), diff[k]) ELSE Split(b[k - 1])
    OBVIOUS
  <2>1. k - 1 \in 0 .. n  BY <1>1
  <2>2. b[k - 1] \in Seq(Line) /\ diff[k] \in Line  BY <1>1, <1>7, <2>1
  <2>3. Split(Append(b[k - 1], diff[k])) = SplitLine(Split(b[k - 1]), diff[k])  BY <2>2, SplitOfAppend
  <2> QED  BY <1>7, <2>3
<1> DEFINE Here(k) == InStep(diff, k, a[k], Split(b[k]))
           C == {k \in 0 .. n : Here(k)}
<1>9. Here(0)
  <2>1. Split(<<>>) = Nothing
    <3>1. <<>> \in Seq(Line)  OBVIOUS
    <3>2. CASE n = 0
      <4>1. diff = <<>>  BY <3>2 DEF n
      <4> QED  BY <1>6, <3>2, <4>1
    <3>3. CASE n # 0
      <4>1. diff[1] \in Line  BY <1>1, <3>3
      <4> QED  BY <3>1, <4>1, SplitOfAppend
    <3> QED  BY <3>2, <3>3
  <2> QED  BY <1>6, <1>7, <2>1, SplitLineTypes DEF InStep
<1>10. ASSUME NEW k \in 1 .. n, Here(k - 1)  PROVE  Here(k)
  <2>1. k \in 1 .. Len(diff)  BY DEF n
  <2>2. InStep(diff, k, SplitLine(a[k - 1], diff[k]),
               IF IsProductionSource(HeaderOf(diff, k).path) THEN SplitLine(Split(b[k - 1]), diff[k]) ELSE Split(b[k - 1]))
    BY <1>10, <2>1, InStepHeader, InStepLine
  <2> QED  BY <1>2, <1>6, <1>8, <2>2
<1>11. n \in C
  <2>1. 0 \in C /\ \A k \in 1 .. n : k - 1 \in C => k \in C  BY <1>1, <1>9, <1>10
  <2> HIDE DEF C
  <2> QED  BY <1>1, <2>1, Upward
<1>12. ProductionAmong(Closed(Split(diff))) = ProductionAmong(Closed(Split(ProductionOf(diff))))
  BY <1>6, <1>7, <1>11 DEF InStep
<1> QED  BY <1>12 DEF Production, SplitFiles

-----------------------------------------------------------------------------
(* The comments of a body *)

LEMMA LeastIsIn == \A s \in SUBSET Nat : s # {} => Min(s) \in s /\ \A i \in s : Min(s) <= i
<1>1. ASSUME NEW s \in SUBSET Nat, s # {}  PROVE  Min(s) \in s /\ \A i \in s : Min(s) <= i
  <2>1. \E x \in s : \A y \in s : x <= y  BY <1>1, LeastNatural
  <2> QED  BY <2>1 DEF Min
<1> QED  BY <1>1

\* The characters at the places, one by one.
Pieces(tokens, places) == UNION {{i} \X (1 .. CharsOf(tokens[i])) : i \in places}

LEMMA PiecesFinite ==
  ASSUME NEW tokens \in Seq(Token), NEW places \in SUBSET DOMAIN tokens
  PROVE  /\ IsFiniteSet(Pieces(tokens, places)) /\ CharsAt(tokens, places) \in Nat
         /\ CharsAt(tokens, places) = Cardinality(Pieces(tokens, places))
         /\ \A p \in Pieces(tokens, places) : p[1] \in places
         /\ \A i \in places : <<i, 1>> \in Pieces(tokens, places)
<1> DEFINE n == Len(tokens)
<1>1. n \in Nat /\ DOMAIN tokens = 1 .. n /\ \A i \in 1 .. n : tokens[i] \in Token  OBVIOUS
<1>2. \A i \in 1 .. n : CharsOf(tokens[i]) \in 1 .. 5  BY <1>1 DEF CharsOf, Token
<1> HIDE DEF n
<1>3. IsFiniteSet((1 .. n) \X (1 .. 5))
  <2>1. n \in Int /\ 1 \in Int /\ 5 \in Int  BY <1>1
  <2>2. IsFiniteSet(1 .. n) /\ IsFiniteSet(1 .. 5)  BY <2>1, FS_Interval
  <2> QED  BY <2>2, FS_Product
<1>4. \A p \in Pieces(tokens, places) : p[1] \in places /\ p \in (1 .. n) \X (1 .. 5)
  <2> SUFFICES ASSUME NEW i \in places, NEW p \in {i} \X (1 .. CharsOf(tokens[i]))
               PROVE  p[1] \in places /\ p \in (1 .. n) \X (1 .. 5)
    BY DEF Pieces
  <2>1. i \in 1 .. n /\ CharsOf(tokens[i]) \in 1 .. 5  BY <1>1, <1>2
  <2> QED  BY <2>1
<1>5. IsFiniteSet(Pieces(tokens, places))
  <2>1. Pieces(tokens, places) \subseteq (1 .. n) \X (1 .. 5)  BY <1>4
  <2> QED  BY <1>3, <2>1, FS_Subset
<1>6. \A i \in places : <<i, 1>> \in Pieces(tokens, places)
  <2> SUFFICES ASSUME NEW i \in places  PROVE  <<i, 1>> \in Pieces(tokens, places)  OBVIOUS
  <2>1. CharsOf(tokens[i]) \in 1 .. 5  BY <1>1, <1>2
  <2>2. <<i, 1>> \in {i} \X (1 .. CharsOf(tokens[i]))  BY <2>1
  <2> QED  BY <2>2 DEF Pieces
<1>7. CharsAt(tokens, places) = Cardinality(Pieces(tokens, places))  BY DEF CharsAt, Pieces
<1> QED  BY <1>4, <1>5, <1>6, <1>7, FS_CardinalityType

\* The characters at different places add up.
LEMMA CharsAddUp ==
  ASSUME NEW tokens \in Seq(Token), NEW a \in SUBSET DOMAIN tokens, NEW b \in SUBSET DOMAIN tokens, a \cap b = {}
  PROVE  CharsAt(tokens, a \cup b) = CharsAt(tokens, a) + CharsAt(tokens, b)
<1>1. Pieces(tokens, a \cup b) = Pieces(tokens, a) \cup Pieces(tokens, b)  BY DEF Pieces
<1>2. Pieces(tokens, a) \cap Pieces(tokens, b) = {}  BY PiecesFinite
<1>3. /\ IsFiniteSet(Pieces(tokens, a)) /\ IsFiniteSet(Pieces(tokens, b))
      /\ CharsAt(tokens, a) = Cardinality(Pieces(tokens, a)) /\ CharsAt(tokens, b) = Cardinality(Pieces(tokens, b))
      /\ CharsAt(tokens, a) \in Nat /\ CharsAt(tokens, b) \in Nat
      /\ CharsAt(tokens, a \cup b) = Cardinality(Pieces(tokens, a \cup b))
  BY PiecesFinite
<1>4. Cardinality(Pieces(tokens, a) \cup Pieces(tokens, b))
        = CharsAt(tokens, a) + CharsAt(tokens, b) - Cardinality({})
  BY <1>2, <1>3, FS_Union
<1>5. Cardinality({}) = 0  BY FS_EmptySet
<1>6. CharsAt(tokens, a) + CharsAt(tokens, b) - 0 = CharsAt(tokens, a) + CharsAt(tokens, b)  BY <1>3
<1>7. CharsAt(tokens, a \cup b) = Cardinality(Pieces(tokens, a) \cup Pieces(tokens, b))  BY <1>1, <1>3
<1> QED  BY <1>4, <1>5, <1>6, <1>7

LEMMA CharsOfNone == \A tokens \in Seq(Token) : CharsAt(tokens, {}) = 0 /\ (Chars(tokens) > 0 <=> tokens # <<>>)
<1> SUFFICES ASSUME NEW tokens \in Seq(Token)
             PROVE  CharsAt(tokens, {}) = 0 /\ (Chars(tokens) > 0 <=> tokens # <<>>)
  OBVIOUS
<1>1. CharsAt(tokens, {}) = 0
  <2>1. Pieces(tokens, {}) = {}  BY DEF Pieces
  <2> QED  BY <2>1, PiecesFinite, FS_EmptySet
<1>2. CASE tokens = <<>>  BY <1>1, <1>2 DEF Chars
<1>3. CASE tokens # <<>>
  <2>1. 1 \in DOMAIN tokens  BY <1>3
  <2>2. Pieces(tokens, DOMAIN tokens) # {}  BY <2>1, PiecesFinite
  <2>3. IsFiniteSet(Pieces(tokens, DOMAIN tokens)) /\ Chars(tokens) = Cardinality(Pieces(tokens, DOMAIN tokens))
          /\ Chars(tokens) \in Nat
    BY PiecesFinite DEF Chars
  <2>4. Chars(tokens) # 0  BY <2>2, <2>3, FS_EmptySet
  <2> QED  BY <1>1, <1>3, <2>3, <2>4
<1> QED  BY <1>2, <1>3

\* The places from r on that are in a comment opened at r or later.
CommentedFrom(tokens, r) ==
  {i \in r .. Len(tokens) : \E j \in r .. i : Opening(tokens[j]) /\ \A k \in j .. i - 1 : ~Closing(tokens[k])}

Opens(tokens, r) == {i \in r .. Len(tokens) : Opening(tokens[i])}

LEMMA FirstComment ==
  ASSUME NEW tokens \in Seq(Token), NEW r \in 1 .. Len(tokens) + 1
  PROVE  /\ CommentedFrom(tokens, r) \in SUBSET DOMAIN tokens
         /\ Opens(tokens, r) = {} => CommentedFrom(tokens, r) = {}
         /\ Opens(tokens, r) # {} =>
              LET start == Min(Opens(tokens, r))
                  end   == CommentEnd(tokens, start)
              IN  /\ start .. end \in SUBSET DOMAIN tokens /\ end + 1 \in r + 1 .. Len(tokens) + 1
                  /\ CommentedFrom(tokens, r) = (start .. end) \cup CommentedFrom(tokens, end + 1)
                  /\ (start .. end) \cap CommentedFrom(tokens, end + 1) = {}
<1> DEFINE n == Len(tokens)
<1>1. n \in Nat /\ DOMAIN tokens = 1 .. n /\ r \in Nat /\ r >= 1  OBVIOUS
<1>2. CommentedFrom(tokens, r) \in SUBSET DOMAIN tokens  BY <1>1 DEF CommentedFrom
<1>3. Opens(tokens, r) = {} => CommentedFrom(tokens, r) = {}  BY <1>1 DEF CommentedFrom, Opens
<1>4. ASSUME Opens(tokens, r) # {}, NEW start, start = Min(Opens(tokens, r)), NEW end, end = CommentEnd(tokens, start)
      PROVE  /\ start .. end \in SUBSET DOMAIN tokens /\ end + 1 \in r + 1 .. Len(tokens) + 1
             /\ CommentedFrom(tokens, r) = (start .. end) \cup CommentedFrom(tokens, end + 1)
             /\ (start .. end) \cap CommentedFrom(tokens, end + 1) = {}
  <2>1. start \in r .. n /\ Opening(tokens[start]) /\ \A i \in r .. n : Opening(tokens[i]) => start <= i
    <3>1. Opens(tokens, r) \in SUBSET Nat  BY <1>1 DEF Opens
    <3>2. start \in Opens(tokens, r) /\ \A i \in Opens(tokens, r) : start <= i  BY <1>4, <3>1, LeastIsIn
    <3> QED  BY <3>2 DEF Opens
  <2>2. /\ end \in start .. n /\ \A k \in start .. end - 1 : ~Closing(tokens[k])
        /\ end # n => Closing(tokens[end])
    <3>1. CASE Closes(tokens, start) = {}
      <4>1. end = n  BY <1>4, <3>1 DEF CommentEnd
      <4>2. \A k \in start .. n : ~Closing(tokens[k])  BY <3>1 DEF Closes
      <4> QED  BY <1>1, <2>1, <4>1, <4>2
    <3>2. CASE Closes(tokens, start) # {}
      <4>1. end = Min(Closes(tokens, start))  BY <1>4, <3>2 DEF CommentEnd
      <4>2. Closes(tokens, start) \in SUBSET Nat  BY <1>1, <2>1 DEF Closes
      <4>3. end \in Closes(tokens, start) /\ \A i \in Closes(tokens, start) : end <= i  BY <3>2, <4>1, <4>2, LeastIsIn
      <4>4. end \in start .. n /\ Closing(tokens[end])  BY <4>3 DEF Closes
      <4>5. ASSUME NEW k \in start .. end - 1, Closing(tokens[k])  PROVE  FALSE
        <5>1. k \in Closes(tokens, start)  BY <1>1, <2>1, <4>4, <4>5 DEF Closes
        <5> QED  BY <1>1, <2>1, <4>3, <4>4, <4>5, <5>1
      <4> QED  BY <4>4, <4>5
    <3> QED  BY <3>1, <3>2
  <2> HIDE DEF n
  <2>3. start .. end \in SUBSET DOMAIN tokens /\ end + 1 \in r + 1 .. n + 1  BY <1>1, <2>1, <2>2
  <2>4. (start .. end) \cap CommentedFrom(tokens, end + 1) = {}  BY <1>1, <2>1, <2>2 DEF CommentedFrom
  <2>5. ASSUME NEW i \in start .. end  PROVE  i \in CommentedFrom(tokens, r)
    <3>1. i \in r .. n /\ start \in r .. i  BY <1>1, <2>1, <2>2, <2>5
    <3>2. \A k \in start .. i - 1 : ~Closing(tokens[k])  BY <1>1, <2>1, <2>2, <2>5
    <3> QED  BY <2>1, <3>1, <3>2 DEF CommentedFrom, n
  <2>6. ASSUME NEW i \in CommentedFrom(tokens, end + 1)  PROVE  i \in CommentedFrom(tokens, r)
    <3>1. i \in end + 1 .. n  BY <2>6 DEF CommentedFrom, n
    <3>2. PICK j \in end + 1 .. i : Opening(tokens[j]) /\ \A k \in j .. i - 1 : ~Closing(tokens[k])
      BY <2>6 DEF CommentedFrom
    <3>3. i \in r .. n /\ j \in r .. i  BY <1>1, <2>1, <2>2, <3>1, <3>2
    <3> QED  BY <3>2, <3>3 DEF CommentedFrom, n
  <2>7. ASSUME NEW i \in CommentedFrom(tokens, r), i \notin start .. end  PROVE  i \in CommentedFrom(tokens, end + 1)
    <3>1. i \in r .. n  BY <2>7 DEF CommentedFrom, n
    <3>2. PICK j \in r .. i : Opening(tokens[j]) /\ \A k \in j .. i - 1 : ~Closing(tokens[k])
      BY <2>7 DEF CommentedFrom
    <3>3. j \in r .. n  BY <1>1, <3>1, <3>2
    <3>4. start <= j  BY <2>1, <3>2, <3>3
    <3>5. i > end  BY <1>1, <2>1, <2>2, <2>7, <3>1, <3>2, <3>4
    <3>6. Closing(tokens[end])  BY <1>1, <2>2, <3>1, <3>5
    <3>7. j > end
      <4>1. j <= end => end \in j .. i - 1  BY <1>1, <2>1, <2>2, <3>1, <3>2, <3>5
      <4> QED  BY <1>1, <2>1, <2>2, <3>2, <3>3, <3>6, <4>1
    <3>8. i \in end + 1 .. n /\ j \in end + 1 .. i  BY <1>1, <2>1, <2>2, <3>1, <3>2, <3>5, <3>7
    <3> QED  BY <3>2, <3>8 DEF CommentedFrom, n
  <2>8. CommentedFrom(tokens, r) = (start .. end) \cup CommentedFrom(tokens, end + 1)  BY <2>5, <2>6, <2>7
  <2> QED  BY <2>3, <2>4, <2>8 DEF n
<1> QED  BY <1>2, <1>3, <1>4

\* Slice by slice the code counts the characters in comments, each once.
LEMMA CommentedIsInside ==
  ASSUME NEW tokens \in Seq(Token)
  PROVE  Commented(tokens) = CharsAt(tokens, {i \in DOMAIN tokens : InComment(tokens, i)})
<1> DEFINE n == Len(tokens)
           Body(g, r) == IF Opens(tokens, r) = {} THEN 0
                         ELSE LET start == Min(Opens(tokens, r))
                                  end   == CommentEnd(tokens, start)
                              IN  CharsAt(tokens, start .. end) + g[end + 1]
           inside == CHOOSE g : g = [r \in 1 .. n + 1 |-> Body(g, r)]
           count == [r \in 1 .. n + 1 |-> CharsAt(tokens, CommentedFrom(tokens, r))]
           End(r) == CommentEnd(tokens, Min(Opens(tokens, r)))
<1>1. n \in Nat /\ DOMAIN tokens = 1 .. n  OBVIOUS
<1>2. Commented(tokens) = inside[1]  BY DEF Commented, Opens
<1>3. ASSUME NEW r \in 1 .. n + 1, Opens(tokens, r) # {}
      PROVE  /\ End(r) + 1 \in r + 1 .. n + 1
             /\ count[r] = CharsAt(tokens, Min(Opens(tokens, r)) .. End(r)) + count[End(r) + 1]
  <2>1. PICK start : start = Min(Opens(tokens, r))  OBVIOUS
  <2>2. PICK end : end = CommentEnd(tokens, start)  OBVIOUS
  <2>3. /\ start .. end \in SUBSET DOMAIN tokens /\ end + 1 \in r + 1 .. n + 1
        /\ CommentedFrom(tokens, r) = (start .. end) \cup CommentedFrom(tokens, end + 1)
        /\ (start .. end) \cap CommentedFrom(tokens, end + 1) = {}
    BY <1>3, <2>1, <2>2, FirstComment
  <2> HIDE DEF n
  <2>4. end + 1 \in 1 .. n + 1  BY <1>1, <2>3
  <2>5. CommentedFrom(tokens, end + 1) \in SUBSET DOMAIN tokens  BY <2>4, FirstComment DEF n
  <2>6. CharsAt(tokens, CommentedFrom(tokens, r))
          = CharsAt(tokens, start .. end) + CharsAt(tokens, CommentedFrom(tokens, end + 1))
    <3>1. PICK a, b : a = start .. end /\ b = CommentedFrom(tokens, end + 1)  OBVIOUS
    <3>2. a \in SUBSET DOMAIN tokens /\ b \in SUBSET DOMAIN tokens /\ a \cap b = {}  BY <2>3, <2>5, <3>1
    <3>3. CharsAt(tokens, a \cup b) = CharsAt(tokens, a) + CharsAt(tokens, b)  BY <3>2, CharsAddUp
    <3> QED  BY <2>3, <3>1, <3>3
  <2> QED  BY <2>1, <2>2, <2>3, <2>4, <2>6
<1>4. ASSUME NEW r \in 1 .. n + 1, Opens(tokens, r) = {}  PROVE  count[r] = 0
  <2>1. CommentedFrom(tokens, r) = {}  BY <1>4, FirstComment
  <2> QED  BY <2>1, CharsOfNone
<1> HIDE DEF n, count
<1>5. \A r \in 1 .. n + 1 : count[r] = Body(count, r)  BY <1>3, <1>4
<1>6. count = [r \in 1 .. n + 1 |-> Body(count, r)]  BY <1>5 DEF count
<1>7. inside = [r \in 1 .. n + 1 |-> Body(inside, r)]  BY <1>6
<1> HIDE DEF inside
<1>8. \A r \in 1 .. n + 1 : inside[r] = Body(inside, r)  BY <1>7
<1> DEFINE Same(k) == \A r \in n + 1 - k .. n + 1 : r \in 1 .. n + 1 => inside[r] = count[r]
           C == {k \in 0 .. n : Same(k)}
<1>9. ASSUME NEW r \in 1 .. n + 1, \A q \in r + 1 .. n + 1 : inside[q] = count[q]  PROVE  inside[r] = count[r]
  <2>1. CASE Opens(tokens, r) = {}  BY <1>4, <1>8, <2>1
  <2>2. CASE Opens(tokens, r) # {}
    <3>1. inside[End(r) + 1] = count[End(r) + 1]  BY <1>3, <1>9, <2>2
    <3>2. inside[r] = CharsAt(tokens, Min(Opens(tokens, r)) .. End(r)) + inside[End(r) + 1]  BY <1>8, <2>2
    <3> QED  BY <1>3, <2>2, <3>1, <3>2
  <2> QED  BY <2>1, <2>2
<1> HIDE DEF Body
<1>10. Same(0)
  <2>1. \A r \in n + 1 - 0 .. n + 1 : r = n + 1  BY <1>1
  <2>2. n + 1 \in 1 .. n + 1 /\ \A q \in (n + 1) + 1 .. n + 1 : inside[q] = count[q]  BY <1>1
  <2> QED  BY <1>9, <2>1, <2>2
<1>11. ASSUME NEW k \in 1 .. n, Same(k - 1)  PROVE  Same(k)
  <2>1. PICK m : m = n + 1 - k  OBVIOUS
  <2>2. m \in 1 .. n + 1 /\ n + 1 - (k - 1) = m + 1  BY <1>1, <2>1
  <2>3. \A q \in m + 1 .. n + 1 : inside[q] = count[q]  BY <1>1, <1>11, <2>2
  <2>4. inside[m] = count[m]  BY <1>9, <2>2, <2>3
  <2>5. \A r \in m .. n + 1 : r = m \/ r \in m + 1 .. n + 1  BY <1>1, <2>2
  <2> QED  BY <2>1, <2>3, <2>4, <2>5
<1>12. n \in C
  <2> HIDE DEF Same
  <2>1. 0 \in C /\ \A k \in 1 .. n : k - 1 \in C => k \in C  BY <1>1, <1>10, <1>11
  <2> HIDE DEF C
  <2> QED  BY <1>1, <2>1, Upward
<1>13. inside[1] = count[1]
  <2>1. n + 1 - n = 1 /\ 1 \in 1 .. n + 1  BY <1>1
  <2> QED  BY <1>12, <2>1
<1>14. CommentedFrom(tokens, 1) = {i \in DOMAIN tokens : InComment(tokens, i)}
  BY <1>1 DEF CommentedFrom, InComment, n
<1>15. 1 \in 1 .. n + 1  BY <1>1
<1> QED  BY <1>2, <1>13, <1>14, <1>15 DEF count

LEMMA UnfilledShare ==
  ASSUME NEW body, body.tokens \in Seq(Token)
  PROVE  LET tokens == body.tokens
             inside == CharsAt(tokens, {i \in DOMAIN tokens : InComment(tokens, i)})
         IN  TemplateUnfilled(body)
               = When(tokens /= <<>> /\ 10 * inside >= 6 * Chars(tokens), Fire("TEMPLATE_UNFILLED", inside, Chars(tokens)))
<1>1. Commented(body.tokens) = CharsAt(body.tokens, {i \in DOMAIN body.tokens : InComment(body.tokens, i)})
  BY CommentedIsInside
<1>2. Chars(body.tokens) > 0 <=> body.tokens # <<>>  BY CharsOfNone
<1> QED  BY <1>1, <1>2 DEF TemplateUnfilled, When

-----------------------------------------------------------------------------
(* Rearrangements *)

OneToOne(f, S, T) ==
  /\ f \in [S -> T]
  /\ \A a, b \in S : f[a] = f[b] => a = b
  /\ \A t \in T : \E s \in S : f[s] = t

\* t has the values of s, elsewhere: f says where.
Rearranged(s, t, f) == OneToOne(f, DOMAIN s, DOMAIN t) /\ \A k \in DOMAIN s : t[f[k]] = s[k]

\* A set that goes one to one to another has its size.
LEMMA SameSize ==
  ASSUME NEW f, NEW S, NEW T, OneToOne(f, S, T), IsFiniteSet(S)
  PROVE  IsFiniteSet(T) /\ Cardinality(T) = Cardinality(S)
<1>1. f \in Bijection(S, T)  BY Fun_IsBij DEF OneToOne
<1> QED  BY <1>1, FS_Bijection DEF ExistsBijection

\* A rearrangement has the same values.
LEMMA SameRange == \A s, t, f : Rearranged(s, t, f) => Range(s) = Range(t)
BY DEF Rearranged, OneToOne, Range

\* As many places of one kind.
LEMMA SameCount ==
  ASSUME NEW s, NEW t, NEW f, Rearranged(s, t, f), NEW A \in SUBSET DOMAIN s, NEW B \in SUBSET DOMAIN t, IsFiniteSet(A),
         \A k \in DOMAIN s : k \in A <=> f[k] \in B
  PROVE  Cardinality(A) = Cardinality(B) /\ (A = {} <=> B = {})
<1> DEFINE g == [k \in A |-> f[k]]
<1>1. OneToOne(g, A, B)  BY DEF Rearranged, OneToOne
<1>2. A = {} <=> B = {}  BY DEF Rearranged, OneToOne
<1> HIDE DEF g
<1> QED  BY <1>1, <1>2, SameSize

\* As many pairs of places.
Pairs(R) == {{q[1], q[2]} : q \in R}

Among(A, X) == A \in SUBSET (X \X X)

LEMMA PairsIn ==
  ASSUME NEW X, NEW A, Among(A, X)
  PROVE  /\ \A p \in Pairs(A) : \E x, y \in X : p = {x, y} /\ <<x, y>> \in A
         /\ \A x, y : <<x, y>> \in A => {x, y} \in Pairs(A)
<1>1. ASSUME NEW q \in A  PROVE  \E x, y \in X : {q[1], q[2]} = {x, y} /\ <<x, y>> \in A
  <2>1. q \in X \X X  BY DEF Among
  <2>2. q[1] \in X /\ q[2] \in X /\ q = <<q[1], q[2]>>  BY <2>1
  <2> QED  BY <2>2
<1>2. ASSUME NEW x, NEW y, <<x, y>> \in A  PROVE  {x, y} \in Pairs(A)
  <2>1. <<x, y>>[1] = x /\ <<x, y>>[2] = y  OBVIOUS
  <2> QED  BY <1>2, <2>1 DEF Pairs
<1> QED  BY <1>1, <1>2 DEF Pairs

LEMMA SamePairs ==
  ASSUME NEW s, NEW t, NEW f, Rearranged(s, t, f), IsFiniteSet(DOMAIN s),
         NEW A, Among(A, DOMAIN s), NEW B, Among(B, DOMAIN t),
         \A x, y \in DOMAIN s : <<x, y>> \in A <=> <<f[x], f[y]>> \in B
  PROVE  Cardinality(Pairs(A)) = Cardinality(Pairs(B)) /\ (Pairs(A) = {} <=> Pairs(B) = {})
<1> DEFINE image(p) == {f[x] : x \in p}
           g == [p \in Pairs(A) |-> image(p)]
<1>1. /\ \A a, b \in DOMAIN s : f[a] = f[b] => a = b
      /\ \A a \in DOMAIN s : f[a] \in DOMAIN t
      /\ \A b \in DOMAIN t : \E a \in DOMAIN s : f[a] = b
  BY DEF Rearranged, OneToOne
<1>2. \A x, y \in DOMAIN s : image({x, y}) = {f[x], f[y]}  OBVIOUS
<1>3. \A p \in Pairs(A) : \E x, y \in DOMAIN s : p = {x, y} /\ <<x, y>> \in A  BY PairsIn
<1>4. \A p \in Pairs(B) : \E u, v \in DOMAIN t : p = {u, v} /\ <<u, v>> \in B  BY PairsIn
<1>5. \A x, y : <<x, y>> \in A => {x, y} \in Pairs(A)  BY PairsIn
<1>6. \A u, v : <<u, v>> \in B => {u, v} \in Pairs(B)  BY PairsIn
<1>7. g \in [Pairs(A) -> Pairs(B)]
  <2> SUFFICES ASSUME NEW p \in Pairs(A)  PROVE  image(p) \in Pairs(B)  OBVIOUS
  <2>1. PICK x, y \in DOMAIN s : p = {x, y} /\ <<x, y>> \in A  BY <1>3
  <2>2. image(p) = {f[x], f[y]}  BY <1>2, <2>1
  <2>3. <<f[x], f[y]>> \in B  BY <2>1
  <2> HIDE DEF image
  <2> QED  BY <1>6, <2>2, <2>3
<1>8. ASSUME NEW p \in Pairs(A), NEW q \in Pairs(A), g[p] = g[q]  PROVE  p = q
  <2>1. PICK x, y \in DOMAIN s : p = {x, y}  BY <1>3
  <2>2. PICK u, v \in DOMAIN s : q = {u, v}  BY <1>3
  <2>3. {f[x], f[y]} = {f[u], f[v]}  BY <1>2, <1>8, <2>1, <2>2
  <2> QED  BY <1>1, <2>1, <2>2, <2>3
<1>9. ASSUME NEW r \in Pairs(B)  PROVE  \E p \in Pairs(A) : g[p] = r
  <2>1. PICK u, v \in DOMAIN t : r = {u, v} /\ <<u, v>> \in B  BY <1>4
  <2>2. PICK x, y \in DOMAIN s : f[x] = u /\ f[y] = v  BY <1>1, <2>1
  <2>3. <<x, y>> \in A  BY <2>1, <2>2
  <2>4. {x, y} \in Pairs(A) /\ image({x, y}) = r  BY <1>2, <1>5, <2>1, <2>2, <2>3
  <2> QED  BY <2>4
<1>10. OneToOne(g, Pairs(A), Pairs(B))
  <2> HIDE DEF g
  <2> QED  BY <1>7, <1>8, <1>9 DEF OneToOne
<1>11. IsFiniteSet(Pairs(A))
  <2>1. Pairs(A) \in SUBSET (SUBSET DOMAIN s)
    <3> SUFFICES ASSUME NEW p \in Pairs(A)  PROVE  p \in SUBSET DOMAIN s  OBVIOUS
    <3>1. PICK x, y \in DOMAIN s : p = {x, y}  BY <1>3
    <3> QED  BY <3>1
  <2>2. IsFiniteSet(SUBSET DOMAIN s)  BY FS_SUBSET
  <2> QED  BY <2>1, <2>2, FS_Subset
<1>12. Pairs(A) = {} <=> Pairs(B) = {}  BY <1>7, <1>9
<1> HIDE DEF g
<1> QED  BY <1>10, <1>11, <1>12, SameSize

\* The elements of finite sets, one beside the other.
LEMMA SpotsFinite ==
  ASSUME NEW a, IsFiniteSet(DOMAIN a), \A k \in DOMAIN a : IsFiniteSet(a[k])
  PROVE  /\ IsFiniteSet(Spots(a))
         /\ \A p \in Spots(a) : p = <<p[1], p[2]>> /\ p[1] \in DOMAIN a /\ p[2] \in a[p[1]]
         /\ \A k \in DOMAIN a : \A i \in a[k] : <<k, i>> \in Spots(a)
<1> DEFINE D == DOMAIN a
           I == {{k} \X a[k] : k \in D}
           h == [k \in D |-> {k} \X a[k]]
<1>1. IsFiniteSet(I)
  <2>1. h \in Surjection(D, I)  BY DEF Surjection
  <2> QED  BY <2>1, FS_Surjection
<1>2. \A T \in I : IsFiniteSet(T)
  <2> SUFFICES ASSUME NEW k \in D  PROVE  IsFiniteSet({k} \X a[k])  OBVIOUS
  <2>1. IsFiniteSet({k})  BY FS_Singleton
  <2> QED  BY <2>1, FS_Product
<1>3. IsFiniteSet(Spots(a))
  <2>1. Spots(a) = UNION I  BY DEF Spots
  <2> HIDE DEF I
  <2> QED  BY <1>1, <1>2, <2>1, FS_UNION
<1>4. \A p \in Spots(a) : p = <<p[1], p[2]>> /\ p[1] \in D /\ p[2] \in a[p[1]]
  <2> SUFFICES ASSUME NEW k \in D, NEW p \in {k} \X a[k]  PROVE  p = <<p[1], p[2]>> /\ p[1] \in D /\ p[2] \in a[p[1]]
    BY DEF Spots
  <2> QED  OBVIOUS
<1>5. \A k \in D : \A i \in a[k] : <<k, i>> \in Spots(a)
  <2> SUFFICES ASSUME NEW k \in D, NEW i \in a[k]  PROVE  <<k, i>> \in Spots(a)  OBVIOUS
  <2>1. <<k, i>> \in {k} \X a[k]  OBVIOUS
  <2> QED  BY <2>1 DEF Spots
<1> QED  BY <1>3, <1>4, <1>5

\* Where an element goes when the sets change places.
Moved(a, f) == [p \in Spots(a) |-> <<f[p[1]], p[2]>>]

LEMMA SpotsMoved ==
  ASSUME NEW a, NEW b, NEW f, Rearranged(a, b, f), IsFiniteSet(DOMAIN a), \A k \in DOMAIN a : IsFiniteSet(a[k])
  PROVE  /\ OneToOne(Moved(a, f), Spots(a), Spots(b))
         /\ Cardinality(Spots(b)) = Cardinality(Spots(a))
<1>1. /\ \A k \in DOMAIN a : f[k] \in DOMAIN b /\ b[f[k]] = a[k]
      /\ \A k, l \in DOMAIN a : f[k] = f[l] => k = l
      /\ \A k \in DOMAIN b : \E l \in DOMAIN a : f[l] = k
  BY DEF Rearranged, OneToOne
<1>2. IsFiniteSet(DOMAIN b)  BY SameSize DEF Rearranged
<1>3. \A k \in DOMAIN b : IsFiniteSet(b[k])  BY <1>1
<1>4. /\ IsFiniteSet(Spots(a))
      /\ \A p \in Spots(a) : p = <<p[1], p[2]>> /\ p[1] \in DOMAIN a /\ p[2] \in a[p[1]]
      /\ \A k \in DOMAIN a : \A i \in a[k] : <<k, i>> \in Spots(a)
  BY SpotsFinite
<1>5. /\ \A p \in Spots(b) : p = <<p[1], p[2]>> /\ p[1] \in DOMAIN b /\ p[2] \in b[p[1]]
      /\ \A k \in DOMAIN b : \A i \in b[k] : <<k, i>> \in Spots(b)
  BY <1>2, <1>3, SpotsFinite
<1> DEFINE g == Moved(a, f)
<1>6. \A p \in Spots(a) : g[p] = <<f[p[1]], p[2]>> /\ g[p] \in Spots(b)  BY <1>1, <1>4, <1>5 DEF Moved
<1>7. \A p, q \in Spots(a) : g[p] = g[q] => p = q
  <2> SUFFICES ASSUME NEW p \in Spots(a), NEW q \in Spots(a), g[p] = g[q]  PROVE  p = q  OBVIOUS
  <2>1. f[p[1]] = f[q[1]] /\ p[2] = q[2]  BY <1>6
  <2>2. p[1] = q[1]  BY <1>1, <1>4, <2>1
  <2>3. p = <<p[1], p[2]>> /\ q = <<q[1], q[2]>>  BY <1>4
  <2> QED  BY <2>1, <2>2, <2>3
<1>8. \A r \in Spots(b) : \E p \in Spots(a) : g[p] = r
  <2> SUFFICES ASSUME NEW r \in Spots(b)  PROVE  \E p \in Spots(a) : g[p] = r  OBVIOUS
  <2>1. r = <<r[1], r[2]>> /\ r[1] \in DOMAIN b /\ r[2] \in b[r[1]]  BY <1>5
  <2>2. PICK l \in DOMAIN a : f[l] = r[1]  BY <1>1, <2>1
  <2>3. <<l, r[2]>> \in Spots(a)  BY <1>1, <1>4, <2>1, <2>2
  <2>4. g[<<l, r[2]>>] = <<f[l], r[2]>>  BY <1>6, <2>3
  <2>5. g[<<l, r[2]>>] = r  BY <2>1, <2>2, <2>4
  <2> QED  BY <2>3, <2>5
<1>9. g \in [Spots(a) -> Spots(b)]  BY <1>6 DEF Moved
<1>10. OneToOne(g, Spots(a), Spots(b))
  <2> HIDE DEF g
  <2> QED  BY <1>7, <1>8, <1>9 DEF OneToOne
<1> QED  BY <1>4, <1>10, SameSize

\* Two parts of a sequence that are next to each other change places.
LEMMA PartsExchanged ==
  ASSUME NEW T, NEW a \in Seq(T), NEW b \in Seq(T), NEW c \in Seq(T), NEW e \in Seq(T)
  PROVE  \E f : Rearranged(a \o b \o c \o e, a \o c \o b \o e, f)
<1> DEFINE i == Len(a)
           j == Len(b)
           k == Len(c)
           n == i + j + k + Len(e)
           s == a \o b \o c \o e
           t == a \o c \o b \o e
           f == [x \in 1 .. n |-> IF x <= i \/ x > i + j + k THEN x ELSE IF x <= i + j THEN x + k ELSE x - j]
<1>1. i \in Nat /\ j \in Nat /\ k \in Nat /\ Len(e) \in Nat  OBVIOUS
<1>2. DOMAIN s = 1 .. n /\ DOMAIN t = 1 .. n  OBVIOUS
<1>3. \A x \in 1 .. n : s[x] = IF x <= i THEN a[x] ELSE IF x <= i + j THEN b[x - i]
                               ELSE IF x <= i + j + k THEN c[x - (i + j)] ELSE e[x - (i + j + k)]
  OBVIOUS
<1>4. \A x \in 1 .. n : t[x] = IF x <= i THEN a[x] ELSE IF x <= i + k THEN c[x - i]
                               ELSE IF x <= i + k + j THEN b[x - (i + k)] ELSE e[x - (i + k + j)]
  OBVIOUS
<1> HIDE DEF i, j, k, s, t
<1>5. PICK m \in Nat : m = Len(e)  BY <1>1
<1>6. n = i + j + k + m  BY <1>5
<1> HIDE DEF n
<1>7. \A x \in 1 .. n : f[x] \in 1 .. n  BY <1>1, <1>5, <1>6
<1>8. \A x, y \in 1 .. n : f[x] = f[y] => x = y  BY <1>1, <1>5, <1>6
<1>9. \A y \in 1 .. n : \E x \in 1 .. n : f[x] = y
  <2> SUFFICES ASSUME NEW y \in 1 .. n  PROVE  \E x \in 1 .. n : f[x] = y  OBVIOUS
  <2>1. CASE y <= i \/ y > i + j + k
    <3>1. f[y] = y  BY <2>1
    <3> QED  BY <3>1
  <2>2. CASE y > i /\ y <= i + k
    <3>1. y + j \in 1 .. n /\ f[y + j] = y  BY <1>1, <1>5, <1>6, <2>2
    <3> QED  BY <3>1
  <2>3. CASE y > i + k /\ y <= i + j + k
    <3>1. y - k \in 1 .. n /\ f[y - k] = y  BY <1>1, <1>5, <1>6, <2>3
    <3> QED  BY <3>1
  <2> QED  BY <1>1, <1>6, <2>1, <2>2, <2>3
<1>10. \A x \in 1 .. n : t[f[x]] = s[x]
  <2> SUFFICES ASSUME NEW x \in 1 .. n  PROVE  t[f[x]] = s[x]  OBVIOUS
  <2>1. CASE x <= i  BY <1>1, <1>3, <1>4, <1>5, <1>6, <2>1
  <2>2. CASE x > i /\ x <= i + j
    <3>1. f[x] = x + k /\ x + k \in 1 .. n /\ ~(x + k <= i) /\ ~(x + k <= i + k) /\ x + k <= i + k + j
      BY <1>1, <1>5, <1>6, <2>2
    <3>2. t[x + k] = b[(x + k) - (i + k)]  BY <1>4, <3>1
    <3>3. s[x] = b[x - i] /\ (x + k) - (i + k) = x - i  BY <1>1, <1>3, <2>2
    <3> QED  BY <3>1, <3>2, <3>3
  <2>3. CASE x > i + j /\ x <= i + j + k
    <3>1. f[x] = x - j /\ x - j \in 1 .. n /\ ~(x - j <= i) /\ x - j <= i + k  BY <1>1, <1>5, <1>6, <2>3
    <3>2. t[x - j] = c[(x - j) - i]  BY <1>4, <3>1
    <3>3. s[x] = c[x - (i + j)] /\ (x - j) - i = x - (i + j)  BY <1>1, <1>3, <2>3
    <3> QED  BY <3>1, <3>2, <3>3
  <2>4. CASE x > i + j + k
    <3>1. f[x] = x  BY <2>4
    <3>2. ~(x <= i) /\ ~(x <= i + k) /\ ~(x <= i + k + j) /\ ~(x <= i + j)  BY <1>1, <2>4
    <3>3. t[x] = e[x - (i + k + j)]  BY <1>4, <3>2
    <3>4. s[x] = e[x - (i + j + k)] /\ i + k + j = i + j + k  BY <1>1, <1>3, <2>4, <3>2
    <3> QED  BY <3>1, <3>3, <3>4
  <2> QED  BY <1>1, <2>1, <2>2, <2>3, <2>4
<1>11. f \in [1 .. n -> 1 .. n]  BY <1>7
<1> HIDE DEF f
<1>12. Rearranged(s, t, f)  BY <1>2, <1>8, <1>9, <1>10, <1>11, <1>6 DEF Rearranged, OneToOne, n
<1> QED  BY <1>12 DEF s, t

-----------------------------------------------------------------------------
(* Diffs one after the other *)

\* A file at the end of two sequences of files.
LEMMA FilesAppended == \A x, y \in Seq(FileDiff), z \in FileDiff : Append(x \o y, z) = x \o Append(y, z)
<1> SUFFICES ASSUME NEW x \in Seq(FileDiff), NEW y \in Seq(FileDiff), NEW z \in FileDiff
             PROVE  Append(x \o y, z) = x \o Append(y, z)
  OBVIOUS
<1> HIDE DEF FileDiff
<1> DEFINE n == Len(x)
           m == Len(y)
           s == Append(x \o y, z)
           t == x \o Append(y, z)
<1>1. n \in Nat /\ m \in Nat /\ Len(s) = n + m + 1 /\ Len(t) = n + m + 1
      /\ s \in Seq(FileDiff) /\ t \in Seq(FileDiff)
  OBVIOUS
<1>2. \A i \in 1 .. n + m + 1 : s[i] = t[i]  OBVIOUS
<1> HIDE DEF s, t
<1>3. s = [i \in 1 .. n + m + 1 |-> s[i]] /\ t = [i \in 1 .. n + m + 1 |-> t[i]]  BY <1>1
<1> QED  BY <1>2, <1>3 DEF s, t

\* A diff that another follows begins with a header, and its headers have paths.
LEMMA HeadedJoined ==
  ASSUME NEW a \in Seq(Line), NEW b \in Seq(Line), Headed(a), Headed(b)
  PROVE  a \o b \in Seq(Line) /\ Headed(a \o b)
<1> DEFINE n == Len(a)
           m == Len(b)
           ab == a \o b
<1>1. /\ n \in Nat /\ m \in Nat /\ DOMAIN a = 1 .. n /\ DOMAIN b = 1 .. m /\ DOMAIN ab = 1 .. n + m /\ ab \in Seq(Line)
      /\ \A i \in 1 .. n : ab[i] = a[i]
      /\ \A i \in n + 1 .. n + m : ab[i] = b[i - n]
      /\ (n = 0 <=> a = <<>>) /\ (m = 0 <=> b = <<>>) /\ (n + m = 0 <=> ab = <<>>)
  OBVIOUS
<1> HIDE DEF n, m, ab
<1>2. ASSUME ab /= <<>>  PROVE  ab[1].sign = "diff"
  <2>1. CASE n # 0
    <3>1. 1 \in 1 .. n /\ a /= <<>>  BY <1>1, <2>1
    <3> QED  BY <1>1, <3>1 DEF Headed
  <2>2. CASE n = 0
    <3>1. 1 \in n + 1 .. n + m /\ b /= <<>> /\ 1 - n = 1  BY <1>1, <1>2, <2>2
    <3> QED  BY <1>1, <3>1 DEF Headed
  <2> QED  BY <2>1, <2>2
<1>3. ASSUME NEW i \in DOMAIN ab, ab[i].sign = "diff"  PROVE  ab[i].path /= NoPath
  <2>1. CASE i \in 1 .. n  BY <1>1, <1>3, <2>1 DEF Headed
  <2>2. CASE i \in n + 1 .. n + m
    <3>1. i - n \in DOMAIN b /\ ab[i] = b[i - n]  BY <1>1, <2>2
    <3> QED  BY <1>3, <3>1 DEF Headed
  <2> QED  BY <1>1, <2>1, <2>2
<1> QED  BY <1>1, <1>2, <1>3 DEF Headed, ab

\* Along a headed diff every line is in a file with a path.
LEMMA SplitHeaded ==
  ASSUME NEW b \in Seq(Line), Headed(b), NEW w, SplitBy(w, b), NEW k \in 1 .. Len(b)
  PROVE  w[k].cur.path # NoPath
<1> DEFINE m == Len(b)
           C == {j \in 0 .. k : j # 0 => w[j].cur.path # NoPath}
<1>1. /\ m \in Nat /\ w \in [0 .. m -> SplitState] /\ w[0] = Nothing
      /\ \A j \in 1 .. m : w[j] = SplitLine(w[j - 1], b[j]) /\ b[j] \in Line /\ w[j - 1] \in SplitState
  <2>1. m \in Nat /\ \A j \in 1 .. m : j - 1 \in 0 .. m /\ b[j] \in Line  OBVIOUS
  <2> HIDE DEF m
  <2> QED  BY <2>1 DEF SplitBy, m
<1>2. ASSUME NEW j \in 1 .. k, j - 1 \in C  PROVE  j \in C
  <2>1. j \in 1 .. m /\ j # 0  BY <1>1
  <2>2. w[j - 1] = Nothing \/ w[j - 1].cur.path # NoPath  BY <1>1, <1>2
  <2>3. CASE b[j].sign = "diff"
    <3>1. w[j].cur = [Unnamed EXCEPT !.path = b[j].path]
      BY <1>1, <2>1, <2>2, <2>3, HeaderStep DEF Begun
    <3>2. b[j].path # NoPath  BY <2>1, <2>3 DEF Headed
    <3> QED  BY <3>1, <3>2 DEF Unnamed
  <2>4. CASE b[j].sign # "diff"
    <3>1. j # 1  BY <2>1, <2>4 DEF Headed
    <3>2. w[j - 1].cur.path # NoPath  BY <1>2, <3>1
    <3>3. w[j].cur.path = w[j - 1].cur.path  BY <1>1, <2>1, <2>4, <3>2, LineStep
    <3> QED  BY <3>2, <3>3
  <2> QED  BY <2>3, <2>4
<1>3. 0 \in C /\ k \in Nat  OBVIOUS
<1> HIDE DEF C
<1>4. k \in C  BY <1>2, <1>3, Upward
<1> QED  BY <1>4 DEF C

\* Where the split of a diff ends: in a file with a path, if there is one.
LEMMA SplitEnds ==
  ASSUME NEW a \in Seq(Line), Headed(a)
  PROVE  Split(a) \in SplitState /\ (a = <<>> => Split(a) = Nothing) /\ (a # <<>> => Split(a).cur.path # NoPath)
<1>1. PICK w : SplitBy(w, a)  BY SplitWalk
<1>2. w[Len(a)] = Split(a) /\ w[0] = Nothing /\ Split(a) \in SplitState  BY <1>1 DEF SplitBy
<1>3. a = <<>> => Len(a) = 0  OBVIOUS
<1>4. a # <<>> => Len(a) \in 1 .. Len(a)  OBVIOUS
<1> QED  BY <1>1, <1>2, <1>3, <1>4, SplitHeaded

\* A header begins anew: the files of a diff that another follows are those of the
\* one and those of the other.
LEMMA SplitJoined ==
  ASSUME NEW a \in Seq(Line), NEW b \in Seq(Line), Headed(a), Headed(b)
  PROVE  SplitFiles(a \o b) = SplitFiles(a) \o SplitFiles(b)
<1> DEFINE n == Len(a)
           m == Len(b)
           ab == a \o b
           before == Closed(Split(a))
<1>1. /\ n \in Nat /\ m \in Nat /\ ab \in Seq(Line) /\ Len(ab) = n + m
      /\ \A i \in 1 .. n : ab[i] = a[i]
      /\ \A i \in 1 .. m : ab[n + i] = b[i] /\ b[i] \in Line
      /\ m = 0 => b = <<>> /\ ab = a
  OBVIOUS
<1>2. PICK u : SplitBy(u, a)  BY SplitWalk
<1>3. PICK w : SplitBy(w, b)  BY SplitWalk
<1> HIDE DEF ab, n
<1>4. PICK v : SplitBy(v, ab)  BY <1>1, SplitWalk
<1>5. /\ u[0] = Nothing /\ u[n] = Split(a)
      /\ \A k \in 1 .. n : u[k] = SplitLine(u[k - 1], a[k])
  BY <1>2 DEF SplitBy, n
<1>6. /\ w \in [0 .. m -> SplitState] /\ w[0] = Nothing /\ w[m] = Split(b)
      /\ \A k \in 1 .. m : w[k] = SplitLine(w[k - 1], b[k])
  BY <1>3 DEF SplitBy
<1>7. /\ v \in [0 .. n + m -> SplitState] /\ v[0] = Nothing /\ v[n + m] = Split(ab)
      /\ \A k \in 1 .. n + m : v[k] = SplitLine(v[k - 1], ab[k])
  BY <1>1, <1>4 DEF SplitBy
<1>8. v[n] = Split(a)
  <2>1. \A k \in 1 .. n : u[k - 1] = v[k - 1] => u[k] = v[k]  BY <1>1, <1>5, <1>7
  <2>2. u[0] = v[0]  BY <1>5, <1>7
  <2>3. u[n] = v[n]  BY <1>1, <2>1, <2>2, SameWalk
  <2> QED  BY <1>5, <2>3
<1>9. Split(a) \in SplitState /\ (Split(a) = Nothing \/ Split(a).cur.path # NoPath)  BY SplitEnds
<1>10. before \in Seq(FileDiff)  BY <1>9, ClosedTypes
<1>a. \A x, y \in Seq(FileDiff), z \in FileDiff : Append(x \o y, z) = x \o Append(y, z)  BY FilesAppended
<1> DEFINE Joined(k) == v[n + k] = [files |-> before \o w[k].files, cur |-> w[k].cur]
<1>11. ASSUME NEW k \in 1 .. m, k # 1 => Joined(k - 1)  PROVE  Joined(k)
  <2>1. /\ v[n + k] = SplitLine(v[n + (k - 1)], b[k]) /\ v[n + (k - 1)] \in SplitState
        /\ w[k] = SplitLine(w[k - 1], b[k]) /\ w[k - 1] \in SplitState /\ b[k] \in Line
    <3>1. n + k \in 1 .. n + m /\ (n + k) - 1 = n + (k - 1) /\ n + (k - 1) \in 0 .. n + m /\ k - 1 \in 0 .. m
      BY <1>1
    <3> HIDE DEF m
    <3> QED  BY <1>1, <1>6, <1>7, <3>1
  <2>2. CASE k = 1
    <3>1. b[1].sign = "diff"  BY <2>2 DEF Headed
    <3>2. v[n + 0] = Split(a) /\ w[0] = Nothing  BY <1>1, <1>6, <1>8
    <3>3. v[n + 1] = [files |-> before, cur |-> [Unnamed EXCEPT !.path = b[1].path]]
      BY <1>9, <2>1, <2>2, <3>1, <3>2, HeaderStep DEF Begun
    <3>4. w[1] = [files |-> Closed(Nothing), cur |-> [Unnamed EXCEPT !.path = b[1].path]]
      BY <2>1, <2>2, <3>1, <3>2, HeaderStep
    <3>5. Closed(Nothing) = <<>>  BY DEF Closed, Nothing, Begun, Unnamed
    <3>6. before \o <<>> = before  BY <1>10
    <3> HIDE DEF before
    <3> QED  BY <2>2, <3>3, <3>4, <3>5, <3>6
  <2>3. CASE k # 1
    <3> DEFINE s == w[k - 1]
               t == v[n + (k - 1)]
    <3>1. s.cur.path # NoPath
      <4>1. k - 1 \in 1 .. Len(b)  BY <2>3
      <4> QED  BY <1>3, <4>1, SplitHeaded
    <3>2. t = [files |-> before \o s.files, cur |-> s.cur]  BY <1>11, <2>3
    <3>3. s.files \in Seq(FileDiff) /\ s.cur \in FileDiff  BY <2>1, ClosedTypes
    <3>4. s \in SplitState /\ t \in SplitState /\ b[k] \in Line /\ w[k] = SplitLine(s, b[k]) /\ v[n + k] = SplitLine(t, b[k])
      BY <2>1
    <3> HIDE DEF s, t, before, m
    <3>5. CASE b[k].sign = "diff"
      <4>1. v[n + k] = [files |-> Closed(t), cur |-> [Unnamed EXCEPT !.path = b[k].path]]
        BY <3>1, <3>2, <3>4, <3>5, HeaderStep DEF Begun
      <4>2. w[k] = [files |-> Closed(s), cur |-> [Unnamed EXCEPT !.path = b[k].path]]
        BY <3>1, <3>4, <3>5, HeaderStep DEF Begun
      <4>3. Closed(s) = Append(s.files, s.cur)  BY <3>1 DEF Closed, Begun
      <4>4. Closed(t) = Append(before \o s.files, s.cur)  BY <3>1, <3>2 DEF Closed, Begun
      <4>5. Append(before \o s.files, s.cur) = before \o Append(s.files, s.cur)  BY <1>10, <1>a, <3>3
      <4> QED  BY <4>1, <4>2, <4>3, <4>4, <4>5
    <3>6. CASE b[k].sign # "diff"
      <4>1. v[n + k] = [files |-> t.files, cur |-> Grown(t.cur, b[k])]  BY <3>1, <3>2, <3>4, <3>6, LineStep
      <4>2. w[k] = [files |-> s.files, cur |-> Grown(s.cur, b[k])]  BY <3>1, <3>4, <3>6, LineStep
      <4> QED  BY <3>2, <4>1, <4>2
    <3> QED  BY <3>5, <3>6
  <2> QED  BY <2>2, <2>3
<1>12. m # 0 => Joined(m)
  <2> DEFINE C == {k \in 0 .. m : k # 0 => Joined(k)}
  <2>1. 0 \in C /\ \A k \in 1 .. m : k - 1 \in C => k \in C
    <3> HIDE DEF Joined
    <3> QED  BY <1>1, <1>11
  <2> HIDE DEF C
  <2>2. m \in C  BY <1>1, <2>1, Upward
  <2> QED  BY <1>1, <2>2 DEF C
<1>13. CASE m = 0
  <2>1. SplitFiles(b) = <<>>
    <3>1. Split(b) = Nothing  BY <1>6, <1>13
    <3> QED  BY <3>1 DEF SplitFiles, Closed, Begun, Nothing, Unnamed
  <2>2. SplitFiles(ab) = SplitFiles(a) /\ SplitFiles(a) \in Seq(FileDiff)  BY <1>1, <1>10, <1>13 DEF SplitFiles
  <2> QED  BY <2>1, <2>2 DEF ab
<1>14. CASE m # 0
  <2> DEFINE s == Split(b)
             t == Split(ab)
  <2>1. t = [files |-> before \o s.files, cur |-> s.cur]  BY <1>6, <1>7, <1>12, <1>14
  <2>2. s.cur.path # NoPath /\ s \in SplitState  BY <1>1, <1>14, SplitEnds
  <2>3. s.files \in Seq(FileDiff) /\ s.cur \in FileDiff  BY <2>2, ClosedTypes
  <2> HIDE DEF s, t, before
  <2>4. Closed(s) = Append(s.files, s.cur) /\ Closed(t) = Append(before \o s.files, s.cur)
    BY <2>1, <2>2 DEF Closed, Begun
  <2>5. Closed(t) = before \o Closed(s)  BY <1>10, <1>a, <2>3, <2>4
  <2> QED  BY <2>5 DEF SplitFiles, s, t, before, ab
<1> QED  BY <1>13, <1>14

LEMMA ProductionTypes == \A x \in Seq(FileDiff) : ProductionAmong(x) \in Seq(FileDiff)
<1> SUFFICES ASSUME NEW x \in Seq(FileDiff)  PROVE  ProductionAmong(x) \in Seq(FileDiff)  OBVIOUS
<1>1. \A places : Kept(x, places) \in Seq(FileDiff)
  <2> SUFFICES ASSUME NEW places  PROVE  Kept(x, places) \in Seq(FileDiff)  OBVIOUS
  <2>1. PICK st : KeptBy(st, FileDiff, x, places)  BY KeptWalk
  <2>2. Len(x) \in 0 .. Len(x)  OBVIOUS
  <2> QED  BY <2>1, <2>2 DEF KeptBy
<1> QED  BY <1>1 DEF ProductionAmong

\* Parts of a sequence that follow one another.
LEMMA PartsJoined ==
  ASSUME NEW T, NEW d \in Seq(T), NEW i \in 1 .. Len(d) + 1, NEW j \in i .. Len(d) + 1, NEW k \in j .. Len(d) + 1
  PROVE  SubSeq(d, i, j - 1) \o SubSeq(d, j, k - 1) = SubSeq(d, i, k - 1)
<1> DEFINE s == SubSeq(d, i, j - 1) \o SubSeq(d, j, k - 1)
           t == SubSeq(d, i, k - 1)
           a == SubSeq(d, i, j - 1)
           b == SubSeq(d, j, k - 1)
<1>1. /\ a \in Seq(T) /\ Len(a) = j - i /\ \A m \in 1 .. j - i : a[m] = d[i + m - 1]
      /\ b \in Seq(T) /\ Len(b) = k - j /\ \A m \in 1 .. k - j : b[m] = d[j + m - 1]
      /\ t \in Seq(T) /\ Len(t) = k - i /\ \A m \in 1 .. k - i : t[m] = d[i + m - 1]
  OBVIOUS
<1> HIDE DEF a, b
<1>a. a \in Seq(T) /\ b \in Seq(T)  BY <1>1
<1>2. a \o b \in Seq(T) /\ Len(a \o b) = k - i
      /\ \A m \in 1 .. k - i : (a \o b)[m] = IF m <= j - i THEN a[m] ELSE b[m - (j - i)]
  <2>1. /\ a \o b \in Seq(T) /\ Len(a \o b) = Len(a) + Len(b)
        /\ \A m \in 1 .. Len(a) + Len(b) : (a \o b)[m] = IF m <= Len(a) THEN a[m] ELSE b[m - Len(a)]
    BY <1>a
  <2>2. Len(a) = j - i /\ Len(b) = k - j /\ (j - i) + (k - j) = k - i  BY <1>1
  <2> QED  BY <2>1, <2>2
<1>3. s = a \o b  BY DEF a, b
<1> HIDE DEF s, t
<1>4. \A m \in 1 .. k - i : s[m] = t[m]
  <2> SUFFICES ASSUME NEW m \in 1 .. k - i  PROVE  s[m] = t[m]  OBVIOUS
  <2>1. CASE m <= j - i  BY <1>1, <1>2, <1>3, <2>1
  <2>2. CASE ~(m <= j - i)
    <3>1. m - (j - i) \in 1 .. k - j /\ j + (m - (j - i)) - 1 = i + m - 1  BY <2>2
    <3> QED  BY <1>1, <1>2, <1>3, <2>2, <3>1
  <2> QED  BY <2>1, <2>2
<1>5. s \in Seq(T) /\ t \in Seq(T) /\ Len(s) = k - i /\ Len(t) = k - i  BY <1>1, <1>2, <1>3
<1>6. s = [m \in 1 .. k - i |-> s[m]] /\ t = [m \in 1 .. k - i |-> t[m]]  BY <1>5
<1>7. s = t  BY <1>4, <1>6
<1> QED  BY <1>7 DEF s, t

\* A prefix is the shorter one and its last element.
LEMMA LongerPrefix ==
  ASSUME NEW T, NEW y \in Seq(T), NEW k \in 1 .. Len(y)
  PROVE  /\ SubSeq(y, 1, k - 1) \in Seq(T) /\ y[k] \in T
         /\ SubSeq(y, 1, k) = Append(SubSeq(y, 1, k - 1), y[k])
         /\ SubSeq(y, 1, 0) = <<>> /\ SubSeq(y, 1, Len(y)) = y
<1> DEFINE s == SubSeq(y, 1, k)
           t == Append(SubSeq(y, 1, k - 1), y[k])
<1>1. s \in Seq(T) /\ t \in Seq(T) /\ Len(s) = k /\ Len(t) = k  OBVIOUS
<1>2. \A i \in 1 .. k : s[i] = t[i]  OBVIOUS
<1> HIDE DEF s, t
<1>3. s = [i \in 1 .. k |-> s[i]] /\ t = [i \in 1 .. k |-> t[i]]  BY <1>1
<1>4. s = t  BY <1>2, <1>3
<1>5. SubSeq(y, 1, Len(y)) = y /\ SubSeq(y, 1, 0) = <<>> /\ SubSeq(y, 1, k - 1) \in Seq(T) /\ y[k] \in T  OBVIOUS
<1> QED  BY <1>4, <1>5 DEF s, t

\* The production files among two sequences of files are those of the one and those of the other.
LEMMA ProductionOfJoined ==
  ASSUME NEW x \in Seq(FileDiff), NEW y \in Seq(FileDiff)
  PROVE  ProductionAmong(x \o y) = ProductionAmong(x) \o ProductionAmong(y)
<1> DEFINE n == Len(y)
           upto(k) == SubSeq(y, 1, k)
           Joined(k) == ProductionAmong(x \o upto(k)) = ProductionAmong(x) \o ProductionAmong(upto(k))
           C == {k \in 0 .. n : Joined(k)}
<1>1. n \in Nat /\ upto(0) = <<>> /\ upto(n) = y /\ x \o <<>> = x  OBVIOUS
<1>2. \A a, b \in Seq(FileDiff), c \in FileDiff : Append(a \o b, c) = a \o Append(b, c)  BY FilesAppended
<1>3. ProductionAmong(x) \in Seq(FileDiff)  BY ProductionTypes
<1>4. ProductionAmong(<<>>) = <<>>
  <2>1. <<>> \in Seq(FileDiff) /\ Len(<<>>) = 0  OBVIOUS
  <2>2. \A places : Kept(<<>>, places) = <<>>
    <3> SUFFICES ASSUME NEW places  PROVE  Kept(<<>>, places) = <<>>  OBVIOUS
    <3>1. PICK st : KeptBy(st, FileDiff, <<>>, places)  BY <2>1, KeptWalk
    <3> QED  BY <2>1, <3>1 DEF KeptBy
  <2> QED  BY <2>2 DEF ProductionAmong
<1>5. Joined(0)
  <2>1. ProductionAmong(x) \o <<>> = ProductionAmong(x)  BY <1>3
  <2> QED  BY <1>1, <1>4, <2>1
<1>6. ASSUME NEW k \in 1 .. n, Joined(k - 1)  PROVE  Joined(k)
  <2> DEFINE s == upto(k - 1)
             g == y[k]
  <2>1. s \in Seq(FileDiff) /\ g \in FileDiff /\ upto(k) = Append(s, g)  BY LongerPrefix
  <2>2. x \o upto(k) = Append(x \o s, g) /\ x \o s \in Seq(FileDiff)  BY <1>2, <2>1
  <2>3. ProductionAmong(x \o s) = ProductionAmong(x) \o ProductionAmong(s)  BY <1>6
  <2> HIDE DEF s, g, upto
  <2>4. ProductionAmong(Append(x \o s, g))
          = IF IsProductionSource(g.path) THEN Append(ProductionAmong(x \o s), g) ELSE ProductionAmong(x \o s)
    BY <2>1, <2>2, ProductionOfAppend
  <2>5. ProductionAmong(Append(s, g))
          = IF IsProductionSource(g.path) THEN Append(ProductionAmong(s), g) ELSE ProductionAmong(s)
    BY <2>1, ProductionOfAppend
  <2>6. ProductionAmong(s) \in Seq(FileDiff)  BY <2>1, ProductionTypes
  <2>7. Append(ProductionAmong(x) \o ProductionAmong(s), g) = ProductionAmong(x) \o Append(ProductionAmong(s), g)
    BY <1>2, <1>3, <2>1, <2>6
  <2> QED  BY <2>1, <2>2, <2>3, <2>4, <2>5, <2>7
<1>7. n \in C
  <2>1. 0 \in C /\ \A k \in 1 .. n : k - 1 \in C => k \in C
    <3> HIDE DEF Joined
    <3> QED  BY <1>1, <1>5, <1>6
  <2> HIDE DEF C
  <2> QED  BY <1>1, <2>1, Upward
<1> QED  BY <1>1, <1>7

\* Of two diffs, the production files of the one and those of the other.
LEMMA ProductionJoined ==
  ASSUME NEW a \in Seq(Line), NEW b \in Seq(Line), Headed(a), Headed(b)
  PROVE  /\ Production(a) \in Seq(FileDiff) /\ Production(b) \in Seq(FileDiff)
         /\ Production(a \o b) = Production(a) \o Production(b)
<1>1. SplitFiles(a) \in Seq(FileDiff) /\ SplitFiles(b) \in Seq(FileDiff)  BY SplitEnds, ClosedTypes DEF SplitFiles
<1>2. SplitFiles(a \o b) = SplitFiles(a) \o SplitFiles(b)  BY SplitJoined
<1> QED  BY <1>1, <1>2, ProductionTypes, ProductionOfJoined DEF Production

-----------------------------------------------------------------------------
(* The rules and the order of the files *)

LEMMA FilesFinite ==
  \A p \in Seq(FileDiff) :
    /\ IsFiniteSet(DOMAIN p)
    /\ \A k \in DOMAIN p : p[k].added \in Seq(Text) /\ IsFiniteSet(DOMAIN p[k].added)
<1>1. ASSUME NEW T, NEW s \in Seq(T)  PROVE  IsFiniteSet(DOMAIN s)
  <2>1. DOMAIN s = 1 .. Len(s) /\ Len(s) \in Int /\ 1 \in Int  OBVIOUS
  <2> QED  BY <2>1, FS_Interval
<1>2. ASSUME NEW p \in Seq(FileDiff), NEW k \in DOMAIN p  PROVE  p[k].added \in Seq(Text)
  <2>1. p[k] \in FileDiff  OBVIOUS
  <2> QED  BY <2>1 DEF FileDiff
<1> QED  BY <1>1, <1>2

\* As many added lines of a kind in both.
LEMMA AddedSame ==
  ASSUME NEW p \in Seq(FileDiff), NEW q, NEW f, Rearranged(p, q, f), NEW a, NEW b, DOMAIN a = DOMAIN p, DOMAIN b = DOMAIN q,
         \A k \in DOMAIN p : a[k] \subseteq DOMAIN p[k].added /\ b[f[k]] = a[k]
  PROVE  Cardinality(Spots(b)) = Cardinality(Spots(a))
<1>1. Rearranged(a, b, f)  BY DEF Rearranged
<1>2. \A k \in DOMAIN a : IsFiniteSet(a[k])  BY FilesFinite, FS_Subset
<1>3. IsFiniteSet(DOMAIN a)  BY FilesFinite
<1> QED  BY <1>1, <1>2, <1>3, SpotsMoved

\* The kinds of line that are counted.
IsMagic(t)   == IsCode(t) /\ t.marks \cap {"declaration", "constant"} = {} /\ \E l \in t.literals : l.kind = "n"
IsConfig(t)  == IsCode(t) /\ t.marks \cap {"CONFIG_SOURCE", "CONFIG_MARKERS"} = {"CONFIG_MARKERS"}
IsBroad(t)   == "BROAD_CATCH" \in t.marks
Holds(t, l)  == IsCode(t) /\ ~IsDeclaration(t) /\ l \in t.literals

\* The rules that count lines do not see the order of the files.
LEMMA LinesSame ==
  ASSUME NEW p \in Seq(FileDiff), NEW q, NEW f, Rearranged(p, q, f)
  PROVE  /\ CodeLines(p) = CodeLines(q)
         /\ MagicNumber(p) = MagicNumber(q)
         /\ HardcodedConfig(p) = HardcodedConfig(q)
         /\ BlanketCatch(p) = BlanketCatch(q)
         /\ RepeatedLiteral(p) = RepeatedLiteral(q)
<1>1. \A k \in DOMAIN p : f[k] \in DOMAIN q /\ q[f[k]] = p[k]  BY DEF Rearranged, OneToOne
<1>2. CodeLines(p) = CodeLines(q)
  <2> DEFINE a(r) == [k \in DOMAIN r |-> {i \in DOMAIN r[k].added : IsCode(r[k].added[i])}]
  <2>1. CodeLines(p) = Cardinality(Spots(a(p))) /\ CodeLines(q) = Cardinality(Spots(a(q)))
    BY DEF CodeLines, Added, Mapped, Places
  <2>2. /\ DOMAIN a(p) = DOMAIN p /\ DOMAIN a(q) = DOMAIN q
        /\ \A k \in DOMAIN p : a(p)[k] \subseteq DOMAIN p[k].added /\ a(q)[f[k]] = a(p)[k]
    BY <1>1
  <2> HIDE DEF a
  <2> QED  BY <2>1, <2>2, AddedSame
<1>3. MagicNumber(p) = MagicNumber(q)
  <2> DEFINE a(r) == [k \in DOMAIN r |-> {i \in DOMAIN r[k].added : IsMagic(r[k].added[i])}]
             fire(hits, lines) == When(10 * hits >= lines, Fire("CODE_MAGIC_NUMBER", 2 * hits, lines))
  <2>1. /\ MagicNumber(p) = fire(Cardinality(Spots(a(p))), CodeLines(p))
        /\ MagicNumber(q) = fire(Cardinality(Spots(a(q))), CodeLines(q))
    BY DEF MagicNumber, Added, Mapped, Places, IsMagic
  <2>2. /\ DOMAIN a(p) = DOMAIN p /\ DOMAIN a(q) = DOMAIN q
        /\ \A k \in DOMAIN p : a(p)[k] \subseteq DOMAIN p[k].added /\ a(q)[f[k]] = a(p)[k]
    BY <1>1
  <2> HIDE DEF a
  <2>3. Cardinality(Spots(a(q))) = Cardinality(Spots(a(p)))  BY <2>2, AddedSame
  <2> QED  BY <1>2, <2>1, <2>3
<1>4. HardcodedConfig(p) = HardcodedConfig(q)
  <2> DEFINE a(r) == [k \in DOMAIN r |-> {i \in DOMAIN r[k].added : IsConfig(r[k].added[i])}]
             fire(hits) == When(hits >= 2, Fire("CODE_HARDCODED_CONFIG", hits, 4))
  <2>1. /\ HardcodedConfig(p) = fire(Cardinality(Spots(a(p))))
        /\ HardcodedConfig(q) = fire(Cardinality(Spots(a(q))))
    BY DEF HardcodedConfig, Added, Mapped, Places, IsConfig
  <2>2. /\ DOMAIN a(p) = DOMAIN p /\ DOMAIN a(q) = DOMAIN q
        /\ \A k \in DOMAIN p : a(p)[k] \subseteq DOMAIN p[k].added /\ a(q)[f[k]] = a(p)[k]
    BY <1>1
  <2> HIDE DEF a
  <2>3. Cardinality(Spots(a(q))) = Cardinality(Spots(a(p)))  BY <2>2, AddedSame
  <2> QED  BY <2>1, <2>3
<1>5. BlanketCatch(p) = BlanketCatch(q)
  <2> DEFINE a(r) == [k \in DOMAIN r |-> {i \in DOMAIN r[k].added : IsBroad(r[k].added[i])}]
             b(r) == [k \in DOMAIN r |-> {i \in {j \in DOMAIN r[k].added : IsBroad(r[k].added[j])} : Swallowed(r[k].added, i)}]
             fire(broads, swallowed) == When(broads >= 2, Fire("CODE_BLANKET_CATCH", broads + swallowed, 4))
  <2>1. /\ BlanketCatch(p) = fire(Cardinality(Spots(a(p))), Cardinality(Spots(b(p))))
        /\ BlanketCatch(q) = fire(Cardinality(Spots(a(q))), Cardinality(Spots(b(q))))
    BY DEF BlanketCatch, Mapped, Places, IsBroad
  <2>2. /\ DOMAIN a(p) = DOMAIN p /\ DOMAIN a(q) = DOMAIN q
        /\ \A k \in DOMAIN p : a(p)[k] \subseteq DOMAIN p[k].added /\ a(q)[f[k]] = a(p)[k]
    BY <1>1
  <2>3. /\ DOMAIN b(p) = DOMAIN p /\ DOMAIN b(q) = DOMAIN q
        /\ \A k \in DOMAIN p : b(p)[k] \subseteq DOMAIN p[k].added /\ b(q)[f[k]] = b(p)[k]
    BY <1>1
  <2> HIDE DEF a, b
  <2>4. Cardinality(Spots(a(q))) = Cardinality(Spots(a(p)))  BY <2>2, AddedSame
  <2>5. Cardinality(Spots(b(q))) = Cardinality(Spots(b(p)))  BY <2>3, AddedSame
  <2> QED  BY <2>1, <2>4, <2>5
<1>6. RepeatedLiteral(p) = RepeatedLiteral(q)
  <2> DEFINE a(r, l) == [k \in DOMAIN r |-> {i \in DOMAIN r[k].added : Holds(r[k].added[i], l)}]
             all(r) == UNION {UNION {t.literals : t \in Range(g.added)} : g \in Range(r)}
             repeated(r) == {l \in all(r) : Cardinality(Spots(a(r, l))) >= 3}
             fire(set) == When(set /= {}, Fire("CODE_REPEAT_LITERAL", Cardinality(set), 3))
  <2>1. RepeatedLiteral(p) = fire(repeated(p)) /\ RepeatedLiteral(q) = fire(repeated(q))
    BY DEF RepeatedLiteral, Added, Mapped, Places, Holds
  <2>2. \A l : Cardinality(Spots(a(q, l))) = Cardinality(Spots(a(p, l)))
    <3> SUFFICES ASSUME NEW l  PROVE  Cardinality(Spots(a(q, l))) = Cardinality(Spots(a(p, l)))  OBVIOUS
    <3>1. /\ DOMAIN a(p, l) = DOMAIN p /\ DOMAIN a(q, l) = DOMAIN q
          /\ \A k \in DOMAIN p : a(p, l)[k] \subseteq DOMAIN p[k].added /\ a(q, l)[f[k]] = a(p, l)[k]
      BY <1>1
    <3> HIDE DEF a
    <3> QED  BY <3>1, AddedSame
  <2>3. all(p) = all(q)
    <3>1. Range(p) = Range(q)  BY SameRange
    <3> QED  BY <3>1
  <2> HIDE DEF a, all
  <2>4. repeated(p) = repeated(q)  BY <2>2, <2>3
  <2> HIDE DEF repeated
  <2> QED  BY <2>1, <2>4
<1> QED  BY <1>2, <1>3, <1>4, <1>5, <1>6

\* Nor does the rule of the widest gap.
LEMMA DriftSame == \A p, q, f : Rearranged(p, q, f) => StyleDrift(p) = StyleDrift(q)
<1> SUFFICES ASSUME NEW p, NEW q, NEW f, Rearranged(p, q, f)  PROVE  StyleDrift(p) = StyleDrift(q)  OBVIOUS
<1>1. Range(p) = Range(q)  BY SameRange
<1> QED  BY <1>1 DEF StyleDrift

\* A file has finitely many windows.
LEMMA WindowsFinite ==
  ASSUME NEW lines \in Seq(Text)
  PROVE  IsFiniteSet(DOMAIN WindowsOf(lines))
<1> DEFINE code == Kept(lines, Places(lines, LAMBDA t : IsCode(t) /\ t.form /= NoForm))
           norm == BodyLines(lines)
           n    == Len(code)
           domain == {k \in 1 .. n - WINDOW + 1 : Cardinality(Range(SubSeq(norm, k, k + WINDOW - 1))) >= Least.variety}
<1>1. code \in Seq(Text)
  <2>1. \A places : Kept(lines, places) \in Seq(Text)
    <3> SUFFICES ASSUME NEW places  PROVE  Kept(lines, places) \in Seq(Text)  OBVIOUS
    <3>1. PICK st : KeptBy(st, Text, lines, places)  BY KeptWalk
    <3>2. Len(lines) \in 0 .. Len(lines)  OBVIOUS
    <3> QED  BY <3>1, <3>2 DEF KeptBy
  <2> QED  BY <2>1
<1>2. norm = [i \in 1 .. n |-> code[i].form]
  <2>1. norm = [i \in DOMAIN code |-> code[i].form]  BY DEF BodyLines, Mapped
  <2> QED  BY <1>1, <2>1
<1> HIDE DEF code, norm
<1>3. n \in Nat /\ \A i \in 1 .. n : code[i].form \in STRING
  <2>1. n \in Nat /\ \A i \in 1 .. n : code[i] \in Text  BY <1>1
  <2> QED  BY <2>1 DEF Text
<1> HIDE DEF n
<1>4. Len(norm) = n  BY <1>2, <1>3
<1>5. DOMAIN WindowsOf(lines) = domain  BY <1>4 DEF WindowsOf, norm
<1>6. IsFiniteSet(1 .. n - WINDOW + 1)
  <2>1. 1 \in Int /\ n - WINDOW + 1 \in Int  BY <1>3, StructureAssumption
  <2> QED  BY <2>1, FS_Interval
<1>7. domain \subseteq 1 .. n - WINDOW + 1  OBVIOUS
<1> QED  BY <1>5, <1>6, <1>7, FS_Subset

\* A copy counts whichever file it is in.
LEMMA CopiesSame ==
  ASSUME NEW p \in Seq(FileDiff), NEW q, NEW f, Rearranged(p, q, f)
  PROVE  DupBlock(p) = DupBlock(q)
<1> DEFINE w(r) == [k \in DOMAIN r |-> WindowsOf(r[k].added)]
           a(r) == [k \in DOMAIN r |-> DOMAIN WindowsOf(r[k].added)]
           distinct(r) == UNION {Range(x) : x \in Range(w(r))}
           fire(all, repeats) == When(all >= Least.windows /\ 100 * repeats >= 15 * all, Fire("CODE_DUP_BLOCK", 2 * repeats, all))
           copies(r) == fire(Cardinality(Spots(a(r))), Cardinality(Spots(a(r))) - Cardinality(distinct(r)))
<1>1. \A k \in DOMAIN p : f[k] \in DOMAIN q /\ q[f[k]] = p[k]  BY DEF Rearranged, OneToOne
<1>2. ASSUME NEW r  PROVE  DupBlock(r) = copies(r)
  <2>1. Windows(r) = w(r)  BY DEF Windows, Mapped
  <2>2. Mapped(w(r), LAMBDA x : DOMAIN x) = a(r)  BY DEF Mapped
  <2>3. DupBlock(r) = fire(Cardinality(Spots(Mapped(Windows(r), LAMBDA x : DOMAIN x))),
                           Cardinality(Spots(Mapped(Windows(r), LAMBDA x : DOMAIN x)))
                             - Cardinality(UNION {Range(x) : x \in Range(Windows(r))}))
    BY DEF DupBlock
  <2> HIDE DEF w, a, fire
  <2> QED  BY <2>1, <2>2, <2>3
<1>3. Rearranged(w(p), w(q), f) /\ Rearranged(a(p), a(q), f)  BY <1>1 DEF Rearranged
<1>4. Range(w(p)) = Range(w(q))  BY <1>3, SameRange
<1>5. IsFiniteSet(DOMAIN a(p)) /\ \A k \in DOMAIN a(p) : IsFiniteSet(a(p)[k])  BY FilesFinite, WindowsFinite
<1> HIDE DEF w, a, fire
<1>6. Cardinality(Spots(a(q))) = Cardinality(Spots(a(p)))  BY <1>3, <1>5, SpotsMoved
<1>7. distinct(p) = distinct(q)  BY <1>4
<1> HIDE DEF distinct
<1>8. copies(p) = copies(q)  BY <1>6, <1>7
<1> QED  BY <1>2, <1>8

\* Before a function there are fewer than there are in all.
LEMMA AllFunctions ==
  ASSUME NEW r, IsFiniteSet(AllStarts(r)), Cardinality(AllStarts(r)) <= MAX_FUNCS,
         \A x \in AllStarts(r) : x[1] \in Int /\ x[2] \in Int
  PROVE  Functions(r) = [x \in AllStarts(r) |-> FunctionAt(r[x[1]], x[2])]
<1> DEFINE A == AllStarts(r)
<1>1. ASSUME NEW x \in A  PROVE  Cardinality({y \in A : Before(y, x)}) < MAX_FUNCS
  <2> DEFINE S == {y \in A : Before(y, x)}
  <2>1. S \in SUBSET (A \ {x})  BY DEF Before
  <2> HIDE DEF S
  <2>2. IsFiniteSet(A \ {x}) /\ Cardinality(A \ {x}) = Cardinality(A) - 1  BY FS_RemoveElement
  <2>3. IsFiniteSet(S) /\ Cardinality(S) <= Cardinality(A \ {x})  BY <2>1, <2>2, FS_Subset
  <2>4. Cardinality(S) \in Nat /\ Cardinality(A) \in Nat /\ MAX_FUNCS \in Nat
    BY <2>3, FS_CardinalityType, StructureAssumption
  <2>5. Cardinality(S) < MAX_FUNCS  BY <2>2, <2>3, <2>4
  <2> QED  BY <2>5 DEF S
<1>2. {x \in A : Cardinality({y \in A : Before(y, x)}) < MAX_FUNCS} = A  BY <1>1
<1> HIDE DEF A
<1> QED  BY <1>2 DEF Functions, A

\* The functions move with their files.
LEMMA FunctionsMoved ==
  ASSUME NEW p \in Seq(FileDiff), NEW q \in Seq(FileDiff), NEW f, Rearranged(p, q, f), Cardinality(AllStarts(p)) <= MAX_FUNCS
  PROVE  /\ IsFiniteSet(DOMAIN Functions(p))
         /\ \E g : Rearranged(Functions(p), Functions(q), g)
<1> DEFINE a(r) == [k \in DOMAIN r |-> Starts(r[k])]
           g == Moved(a(p), f)
           A == AllStarts(p)
           B == AllStarts(q)
<1>1. \A k \in DOMAIN p : f[k] \in DOMAIN q /\ q[f[k]] = p[k]  BY DEF Rearranged, OneToOne
<1>2. \A r : AllStarts(r) = Spots(a(r))  BY DEF AllStarts, Mapped
<1>3. Rearranged(a(p), a(q), f)  BY <1>1 DEF Rearranged
<1>4. ASSUME NEW r \in Seq(FileDiff)
      PROVE  /\ IsFiniteSet(DOMAIN a(r)) /\ DOMAIN a(r) \subseteq Int
             /\ \A k \in DOMAIN a(r) : IsFiniteSet(a(r)[k]) /\ a(r)[k] \subseteq Int
  <2>1. \A k \in DOMAIN r : Starts(r[k]) \subseteq DOMAIN r[k].added  BY DEF Starts, Places
  <2>2. \A k \in DOMAIN r : DOMAIN r[k].added \subseteq Int
    <3> SUFFICES ASSUME NEW k \in DOMAIN r  PROVE  DOMAIN r[k].added \subseteq Int  OBVIOUS
    <3>1. r[k].added \in Seq(Text)  BY FilesFinite
    <3> QED  BY <3>1
  <2>3. DOMAIN r \subseteq Int  OBVIOUS
  <2> QED  BY <2>1, <2>2, <2>3, FilesFinite, FS_Subset
<1> HIDE DEF a
<1>5. ASSUME NEW r \in Seq(FileDiff)
      PROVE  IsFiniteSet(AllStarts(r)) /\ \A x \in AllStarts(r) : x[1] \in Int /\ x[2] \in Int
  <2>1. IsFiniteSet(Spots(a(r))) /\ \A x \in Spots(a(r)) : x[1] \in DOMAIN a(r) /\ x[2] \in a(r)[x[1]]
    BY <1>4, SpotsFinite
  <2> QED  BY <1>2, <1>4, <2>1
<1>6. OneToOne(g, A, B) /\ Cardinality(B) = Cardinality(A)  BY <1>2, <1>3, <1>4, SpotsMoved
<1>7. Functions(p) = [x \in A |-> FunctionAt(p[x[1]], x[2])]  BY <1>5, AllFunctions
<1>8. Functions(q) = [x \in B |-> FunctionAt(q[x[1]], x[2])]  BY <1>5, <1>6, AllFunctions
<1>9. ASSUME NEW x \in A  PROVE  g[x] \in B /\ Functions(q)[g[x]] = Functions(p)[x]
  <2>1. g[x] = <<f[x[1]], x[2]>>  BY <1>2 DEF Moved
  <2>2. g[x] \in B  BY <1>6 DEF OneToOne
  <2>3. x[1] \in DOMAIN a(p)  BY <1>2, <1>4, SpotsFinite
  <2>4. x[1] \in DOMAIN p  BY <2>3 DEF a
  <2>5. q[f[x[1]]] = p[x[1]]  BY <1>1, <2>4
  <2> HIDE DEF g, A, B
  <2> QED  BY <1>7, <1>8, <2>1, <2>2, <2>5
<1> HIDE DEF g
<1>10. Rearranged(Functions(p), Functions(q), g)
  <2>1. DOMAIN Functions(p) = A /\ DOMAIN Functions(q) = B  BY <1>7, <1>8
  <2> QED  BY <1>6, <1>9, <2>1 DEF Rearranged
<1> QED  BY <1>5, <1>7, <1>10

\* The rules of the functions look at what each is and not at where it is.
LEMMA FunctionRulesSame ==
  ASSUME NEW p, NEW q, NEW g, Rearranged(p, q, g), IsFiniteSet(DOMAIN p),
         NEW d, NEW e, \A name : Called(d, name) <=> Called(e, name)
  PROVE  DupFunc(p) = DupFunc(q) /\ DocScaffold(p) = DocScaffold(q) /\ DeadHelper(p, d) = DeadHelper(q, e)
<1>1. \A x \in DOMAIN p : g[x] \in DOMAIN q /\ q[g[x]] = p[x]  BY DEF Rearranged, OneToOne
<1>2. \A x, y \in DOMAIN p : g[x] = g[y] => x = y  BY DEF Rearranged, OneToOne
<1>a. \A A \in SUBSET DOMAIN p : IsFiniteSet(A)  BY FS_Subset
<1>3. DupFunc(p) = DupFunc(q)
  <2> DEFINE long(r) == {x \in DOMAIN r : Len(r[x].body) >= Least.body}
             alike(r) == {x \in long(r) \X long(r) : x[1] /= x[2] /\ Alike(r[x[1]].body, r[x[2]].body)}
             fire(pairs) == When(pairs /= {}, Fire("CODE_DUP_FUNC", Cardinality(pairs), 3))
  <2>1. \A r : DupFunc(r) = fire(Pairs(alike(r)))  BY DEF DupFunc, Pairs
  <2>2. \A r : Among(alike(r), DOMAIN r)  BY DEF Among
  <2>3. ASSUME NEW x \in DOMAIN p, NEW y \in DOMAIN p
        PROVE  <<x, y>> \in alike(p) <=> <<g[x], g[y]>> \in alike(q)
    BY <1>1, <1>2
  <2> HIDE DEF alike
  <2>4. Cardinality(Pairs(alike(p))) = Cardinality(Pairs(alike(q))) /\ (Pairs(alike(p)) = {} <=> Pairs(alike(q)) = {})
    BY <2>2, <2>3, SamePairs
  <2> QED  BY <2>1, <2>4 DEF When
<1>4. DocScaffold(p) = DocScaffold(q)
  <2> DEFINE doc(r) == {x \in DOMAIN r : r[x].documented}
             fire(documented, all) == When(documented >= 2 /\ 10 * documented >= 6 * all, Fire("CODE_DOC_SCAFFOLD", documented, all))
  <2>1. \A r : DocScaffold(r) = fire(Cardinality(doc(r)), Cardinality(DOMAIN r))  BY DEF DocScaffold
  <2>2. doc(p) \in SUBSET DOMAIN p /\ doc(q) \in SUBSET DOMAIN q /\ \A x \in DOMAIN p : x \in doc(p) <=> g[x] \in doc(q)
    BY <1>1
  <2> HIDE DEF doc, fire
  <2>3. Cardinality(doc(p)) = Cardinality(doc(q))  BY <1>a, <2>2, SameCount
  <2>4. Cardinality(DOMAIN p) = Cardinality(DOMAIN q)  BY SameSize DEF Rearranged
  <2> QED  BY <2>1, <2>3, <2>4
<1>5. DeadHelper(p, d) = DeadHelper(q, e)
  <2> DEFINE judged(r) == {x \in DOMAIN r : r[x].def.kind /= "hook"}
             wired(r, l) == {x \in judged(r) : Called(l, r[x].def.name)}
             dead(r, l) == {x \in judged(r) \ wired(r, l) : ~r[x].def.exported /\ r[x].def.kind /= "entry"}
             fire(n, none) == When(n >= 2 /\ ~none, Fire("CODE_DEAD_HELPER", n, 3))
  <2>1. \A r, l : DeadHelper(r, l) = fire(Cardinality(dead(r, l)), wired(r, l) = {})  BY DEF DeadHelper
  <2>2. /\ wired(p, d) \in SUBSET DOMAIN p /\ wired(q, e) \in SUBSET DOMAIN q
        /\ \A x \in DOMAIN p : x \in wired(p, d) <=> g[x] \in wired(q, e)
    BY <1>1
  <2>3. /\ dead(p, d) \in SUBSET DOMAIN p /\ dead(q, e) \in SUBSET DOMAIN q
        /\ \A x \in DOMAIN p : x \in dead(p, d) <=> g[x] \in dead(q, e)
    BY <1>1
  <2> HIDE DEF wired, dead
  <2>4. wired(p, d) = {} <=> wired(q, e) = {}
    <3>1. IsFiniteSet(wired(p, d))  BY <1>a, <2>2
    <3>2. Cardinality(wired(p, d)) = Cardinality(wired(q, e)) /\ (wired(p, d) = {} <=> wired(q, e) = {})
      BY <2>2, <3>1, SameCount
    <3> QED  BY <3>2
  <2>5. Cardinality(dead(p, d)) = Cardinality(dead(q, e))  BY <1>a, <2>3, SameCount
  <2> QED  BY <2>1, <2>4, <2>5 DEF When
<1> QED  BY <1>3, <1>4, <1>5

\* A call counts whatever line it is on.
LEMMA CalledSame ==
  ASSUME NEW d \in Seq(Line), NEW e, NEW f, Rearranged(d, e, f), NEW name
  PROVE  Called(d, name) <=> Called(e, name)
<1> DEFINE a(r) == [k \in DOMAIN r |-> {i \in DOMAIN r[k].text.names : r[k].text.names[i] = name}]
<1>1. \A k \in DOMAIN d : f[k] \in DOMAIN e /\ e[f[k]] = d[k]  BY DEF Rearranged, OneToOne
<1>2. \A r : Called(r, name) <=> Cardinality(Spots(a(r))) > 1  BY DEF Called, Mapped, Places
<1>3. Rearranged(a(d), a(e), f)  BY <1>1 DEF Rearranged
<1>4. IsFiniteSet(DOMAIN a(d)) /\ \A k \in DOMAIN a(d) : IsFiniteSet(a(d)[k])
  <2>1. ASSUME NEW T, NEW s \in Seq(T)  PROVE  IsFiniteSet(DOMAIN s)
    <3>1. DOMAIN s = 1 .. Len(s) /\ Len(s) \in Int /\ 1 \in Int  OBVIOUS
    <3> QED  BY <3>1, FS_Interval
  <2>2. ASSUME NEW k \in DOMAIN d  PROVE  d[k].text.names \in Seq(STRING)
    <3>1. d[k] \in Line  OBVIOUS
    <3>2. d[k].text \in Text  BY <3>1 DEF Line
    <3> QED  BY <3>2 DEF Text
  <2>3. \A k \in DOMAIN d : a(d)[k] \subseteq DOMAIN d[k].text.names  OBVIOUS
  <2>4. \A k \in DOMAIN d : IsFiniteSet(a(d)[k])  BY <2>1, <2>2, <2>3, FS_Subset
  <2> QED  BY <2>1, <2>4
<1> HIDE DEF a
<1> QED  BY <1>2, <1>3, <1>4, SpotsMoved

\* A diff whose files are rearranged.
LEMMA RulesRearranged ==
  ASSUME NEW d \in Seq(Line), NEW e, NEW f, Rearranged(d, e, f),
         Production(d) \in Seq(FileDiff), Production(e) \in Seq(FileDiff),
         NEW g, Rearranged(Production(d), Production(e), g),
         Cardinality(AllStarts(Production(d))) <= MAX_FUNCS
  PROVE  StructRules(d) = StructRules(e)
<1> DEFINE p == Production(d)
           q == Production(e)
<1>1. /\ CodeLines(p) = CodeLines(q) /\ MagicNumber(p) = MagicNumber(q) /\ HardcodedConfig(p) = HardcodedConfig(q)
      /\ BlanketCatch(p) = BlanketCatch(q) /\ RepeatedLiteral(p) = RepeatedLiteral(q)
  BY LinesSame
<1>2. DupBlock(p) = DupBlock(q)  BY CopiesSame
<1>3. StyleDrift(p) = StyleDrift(q)  BY DriftSame
<1>4. PICK h : IsFiniteSet(DOMAIN Functions(p)) /\ Rearranged(Functions(p), Functions(q), h)  BY FunctionsMoved
<1>5. \A name : Called(d, name) <=> Called(e, name)  BY CalledSame
<1>6. /\ DupFunc(Functions(p)) = DupFunc(Functions(q)) /\ DocScaffold(Functions(p)) = DocScaffold(Functions(q))
      /\ DeadHelper(Functions(p), d) = DeadHelper(Functions(q), e)
  BY <1>4, <1>5, FunctionRulesSame
<1> QED  BY <1>1, <1>2, <1>3, <1>6 DEF StructRules

\* From one header to the next, or to the end.
LEMMA HeadedPart ==
  ASSUME NEW d \in Seq(Line), Headed(d), NEW i \in 1 .. Len(d) + 1, NEW j \in 1 .. Len(d) + 1, i <= j,
         i \in DOMAIN d => d[i].sign = "diff"
  PROVE  SubSeq(d, i, j - 1) \in Seq(Line) /\ Headed(SubSeq(d, i, j - 1))
<1> DEFINE s == SubSeq(d, i, j - 1)
<1>1. /\ s \in Seq(Line) /\ Len(s) = j - i /\ DOMAIN s = 1 .. j - i
      /\ \A k \in 1 .. j - i : s[k] = d[i + k - 1] /\ i + k - 1 \in DOMAIN d
  OBVIOUS
<1>2. s /= <<>> => 1 \in 1 .. j - i /\ i + 1 - 1 = i  BY <1>1
<1> HIDE DEF s
<1>3. s /= <<>> => s[1].sign = "diff"  BY <1>1, <1>2
<1>4. \A k \in DOMAIN s : s[k].sign = "diff" => s[k].path /= NoPath  BY <1>1 DEF Headed
<1> QED  BY <1>1, <1>3, <1>4 DEF Headed, s

LEMMA FileOrder ==
  ASSUME NEW d \in Seq(Line), Headed(d), Cardinality(AllStarts(Production(d))) <= MAX_FUNCS,
         NEW i \in Headers(d), NEW j \in Headers(d), NEW k \in Headers(d) \cup {Len(d) + 1}, i < j, j < k
  PROVE  StructRules(d) = StructRules(Exchanged(d, i, j, k))
<1> DEFINE a == SubSeq(d, 1, i - 1)
           b == SubSeq(d, i, j - 1)
           c == SubSeq(d, j, k - 1)
           e == SubSeq(d, k, Len(d))
           n == Len(d)
<1>1. /\ n \in Nat /\ DOMAIN d = 1 .. n
      /\ i \in 1 .. n /\ d[i].sign = "diff" /\ j \in 1 .. n /\ d[j].sign = "diff"
      /\ k \in 1 .. n + 1 /\ (k \in 1 .. n => d[k].sign = "diff")
      /\ 1 \in 1 .. n => d[1].sign = "diff"
  <2>1. n \in Nat /\ DOMAIN d = 1 .. n /\ (1 \in 1 .. n => d # <<>>)  OBVIOUS
  <2> HIDE DEF n
  <2> QED  BY <2>1 DEF Headers, Headed, n
<1>2. /\ a \in Seq(Line) /\ Headed(a) /\ b \in Seq(Line) /\ Headed(b)
      /\ c \in Seq(Line) /\ Headed(c) /\ e \in Seq(Line) /\ Headed(e)
  <2>1. 1 \in 1 .. n + 1 /\ i \in 1 .. n + 1 /\ j \in 1 .. n + 1 /\ n + 1 \in 1 .. n + 1 /\ (n + 1) - 1 = n
        /\ 1 <= i /\ i <= j /\ j <= k /\ k <= n + 1
    BY <1>1
  <2>2. a \in Seq(Line) /\ Headed(a)  BY <1>1, <2>1, HeadedPart
  <2>3. b \in Seq(Line) /\ Headed(b)  BY <1>1, <2>1, HeadedPart
  <2>4. c \in Seq(Line) /\ Headed(c)  BY <1>1, <2>1, HeadedPart
  <2>5. SubSeq(d, k, (n + 1) - 1) \in Seq(Line) /\ Headed(SubSeq(d, k, (n + 1) - 1))  BY <1>1, <2>1, HeadedPart
  <2> QED  BY <2>1, <2>2, <2>3, <2>4, <2>5
<1>3. d = a \o b \o c \o e
  <2>1. 1 \in 1 .. n + 1 /\ i \in 1 .. n + 1 /\ j \in i .. n + 1 /\ k \in j .. n + 1 /\ n + 1 \in k .. n + 1 /\ (n + 1) - 1 = n
        /\ j \in 1 .. n + 1 /\ k \in 1 .. n + 1
    BY <1>1
  <2>2. a \o b = SubSeq(d, 1, j - 1)  BY <2>1, PartsJoined
  <2>3. SubSeq(d, 1, j - 1) \o c = SubSeq(d, 1, k - 1)  BY <2>1, PartsJoined
  <2>4. SubSeq(d, 1, k - 1) \o SubSeq(d, k, (n + 1) - 1) = SubSeq(d, 1, (n + 1) - 1)  BY <2>1, PartsJoined
  <2>5. SubSeq(d, 1, n) = d  OBVIOUS
  <2> QED  BY <2>1, <2>2, <2>3, <2>4, <2>5
<1>4. Exchanged(d, i, j, k) = a \o c \o b \o e  BY DEF Exchanged
<1> HIDE DEF a, b, c, e, n
<1> DEFINE x == a \o b \o c \o e
           y == a \o c \o b \o e
<1>5. PICK f : Rearranged(x, y, f)  BY <1>2, PartsExchanged
<1>6. /\ Production(x) = Production(a) \o Production(b) \o Production(c) \o Production(e)
      /\ Production(a) \in Seq(FileDiff) /\ Production(b) \in Seq(FileDiff)
      /\ Production(c) \in Seq(FileDiff) /\ Production(e) \in Seq(FileDiff) /\ Production(x) \in Seq(FileDiff)
  <2>1. a \o b \in Seq(Line) /\ Headed(a \o b)  BY <1>2, HeadedJoined
  <2>2. a \o b \o c \in Seq(Line) /\ Headed(a \o b \o c)  BY <1>2, <2>1, HeadedJoined
  <2>3. Production(a \o b) = Production(a) \o Production(b)  BY <1>2, ProductionJoined
  <2>4. Production(a \o b \o c) = Production(a \o b) \o Production(c)  BY <1>2, <2>1, ProductionJoined
  <2>5. Production(x) = Production(a \o b \o c) \o Production(e)  BY <1>2, <2>2, ProductionJoined
  <2>6. x \in Seq(Line) /\ Headed(x)  BY <1>2, <2>2, HeadedJoined
  <2> HIDE DEF x
  <2> QED  BY <1>2, <2>3, <2>4, <2>5, <2>6, ProductionJoined
<1>7. Production(y) = Production(a) \o Production(c) \o Production(b) \o Production(e) /\ Production(y) \in Seq(FileDiff)
  <2>1. a \o c \in Seq(Line) /\ Headed(a \o c)  BY <1>2, HeadedJoined
  <2>2. a \o c \o b \in Seq(Line) /\ Headed(a \o c \o b)  BY <1>2, <2>1, HeadedJoined
  <2>3. Production(a \o c) = Production(a) \o Production(c)  BY <1>2, ProductionJoined
  <2>4. Production(a \o c \o b) = Production(a \o c) \o Production(b)  BY <1>2, <2>1, ProductionJoined
  <2>5. Production(y) = Production(a \o c \o b) \o Production(e)  BY <1>2, <2>2, ProductionJoined
  <2>6. y \in Seq(Line) /\ Headed(y)  BY <1>2, <2>2, HeadedJoined
  <2> HIDE DEF y
  <2> QED  BY <2>3, <2>4, <2>5, <2>6, ProductionJoined
<1>8. PICK g : Rearranged(Production(x), Production(y), g)  BY <1>6, <1>7, PartsExchanged
<1>9. x = d  BY <1>3
<1>10. y = Exchanged(d, i, j, k)  BY <1>4
<1> HIDE DEF x, y
<1>11. StructRules(x) = StructRules(y)  BY <1>5, <1>6, <1>7, <1>8, <1>9, RulesRearranged
<1> QED  BY <1>9, <1>10, <1>11

-----------------------------------------------------------------------------
(* The last push *)

Reading == {"files", "commits", "judge"}

\* The handler of the push of version p, and what it has read is current.
Follows(task, p) ==
  /\ task.stage \in {"diff"} \cup Reading
  /\ task.event.at = p
  /\ task.stage \in Reading => task.diff = Pull.diff
  /\ task.stage \in {"commits", "judge"} => task.paths = FirstPage(Pull.paths)

Awaited(p)   == \E e \in events : e.at = p /\ e.action \in {"opened", "synchronize"}
Handled(p)   == \E t \in Tasks : Follows(tasks[t], p)
Dropped(p)   == \E e \in lost : e.at = p
Unscored     == config.exempt \/ config.mirror
JudgedNow    == \E v \in Scored : v.diff = Pull.diff /\ v.paths = FirstPage(Pull.paths)
Tracked(p)   == Awaited(p) \/ Handled(p) \/ Dropped(p) \/ Unscored \/ JudgedNow

ShapeInv == DOMAIN tasks = Tasks /\ at \in 1 .. Len(history)
GivenInv == \E c \in Cases : config = c.config /\ history = c.history
PushInv  == \E p \in 1 .. at : IsLastPush(p) /\ Tracked(p)

LanesInv == ShapeInv /\ GivenInv /\ PushInv

-----------------------------------------------------------------------------

\* A history is a sequence with a first version, and its paths follow the diff.
LEMMA HistoryShape ==
  ASSUME GivenInv
  PROVE  /\ Len(history) \in Nat /\ Len(history) >= 1
         /\ DOMAIN history = 1 .. Len(history)
         /\ \A i, j \in 1 .. Len(history) : history[i].diff = history[j].diff => history[i].paths = history[j].paths
<1>1. PICK c \in Cases : config = c.config /\ history = c.history  BY DEF GivenInv
<1>2. history \in Seq(Range(history)) /\ history /= <<>>  BY <1>1, LanesAssumption
<1>3. Len(history) \in Nat /\ DOMAIN history = 1 .. Len(history)  BY <1>2
<1>4. Len(history) >= 1  BY <1>2, <1>3
<1>5. ASSUME NEW i \in 1 .. Len(history), NEW j \in 1 .. Len(history), history[i].diff = history[j].diff
      PROVE  history[i].paths = history[j].paths
  <2>1. history[i] \in Range(history) /\ history[j] \in Range(history)  BY <1>3 DEF Range
  <2> QED  BY <2>1, <1>1, <1>5, LanesAssumption
<1> QED  BY <1>3, <1>4, <1>5

LEMMA InitLanes == Init => LanesInv
<1> SUFFICES ASSUME Init PROVE LanesInv  OBVIOUS
<1>1. GivenInv  BY DEF Init, GivenInv
<1>2. ShapeInv  BY <1>1, HistoryShape DEF Init, ShapeInv
<1>3. IsLastPush(1)  BY DEF Init, IsLastPush, Pushed
<1>4. Awaited(1)  BY DEF Init, Awaited, Event
<1> QED  BY <1>1, <1>2, <1>3, <1>4 DEF LanesInv, PushInv, Tracked, Init

-----------------------------------------------------------------------------
(* Steps of the service *)

\* While GitHub stands still it is enough that what is tracked stays tracked.
LEMMA StayTracked ==
  ASSUME LanesInv, UNCHANGED <<config, history, at>>, DOMAIN tasks' = Tasks,
         \A p \in 1 .. at : Tracked(p) => Tracked(p)'
  PROVE  LanesInv'
<1>1. PICK p \in 1 .. at : IsLastPush(p) /\ Tracked(p)  BY DEF LanesInv, PushInv
<1>2. IsLastPush(p)'  BY <1>1 DEF IsLastPush, Pushed
<1>3. ShapeInv' /\ GivenInv'  BY DEF LanesInv, ShapeInv, GivenInv
<1> QED  BY <1>1, <1>2, <1>3 DEF LanesInv, PushInv

\* A handler other than t goes on as it was.
LEMMA OthersFollow ==
  ASSUME NEW t \in Tasks, NEW u \in Tasks, NEW p, ShapeInv, UNCHANGED <<config, history, at>>,
         DOMAIN tasks' = Tasks, tasks'[u] = tasks[u], Follows(tasks[u], p)
  PROVE  Handled(p)'
BY DEF Handled, Follows, Pull

\* What no step of a handler takes away.
LEMMA StandingTracked ==
  ASSUME NEW p, UNCHANGED <<config, history, at>>, verdicts \subseteq verdicts', lost \subseteq lost',
         Dropped(p) \/ Unscored \/ JudgedNow
  PROVE  Tracked(p)'
<1>1. CASE Dropped(p)
  BY <1>1 DEF Dropped, Tracked
<1>2. CASE Unscored
  BY <1>2 DEF Unscored, Tracked
<1>3. CASE JudgedNow
  BY <1>3 DEF JudgedNow, Scored, Pull, Tracked
<1> QED  BY <1>1, <1>2, <1>3

LEMMA ReceiveTracks == ASSUME LanesInv, NEW t \in Tasks, Receive(t) PROVE LanesInv'
<1>1. PICK e \in events :
        /\ tasks[t] = Idle
        /\ events' = events \ {e}
        /\ tasks' = IF IsScorable(e.action) THEN [tasks EXCEPT ![t] = Start(e)] ELSE tasks
        /\ UNCHANGED <<config, history, at, verdicts, lost>>
  BY DEF Receive
<1>2. DOMAIN tasks = Tasks /\ DOMAIN tasks' = Tasks  BY <1>1 DEF LanesInv, ShapeInv
<1>3. ASSUME NEW p \in 1 .. at, Awaited(p) PROVE Tracked(p)'
  <2>1. PICK d \in events : d.at = p /\ d.action \in {"opened", "synchronize"}  BY <1>3 DEF Awaited
  <2>2. CASE d = e
    <3>1. tasks'[t] = Start(e)  BY <1>1, <1>2, <2>1, <2>2 DEF IsScorable
    <3>2. Follows(tasks[t], p)'  BY <3>1, <2>1, <2>2 DEF Follows, Start, Task, Reading
    <3> QED  BY <3>2 DEF Tracked, Handled
  <2>3. CASE d /= e
    BY <1>1, <2>1, <2>3 DEF Tracked, Awaited
  <2> QED  BY <2>2, <2>3
<1>4. ASSUME NEW p \in 1 .. at, Handled(p) PROVE Tracked(p)'
  <2>1. PICK u \in Tasks : Follows(tasks[u], p)  BY <1>4 DEF Handled
  <2>2. u /= t  BY <1>1, <2>1 DEF Follows, Idle, Task, Reading
  <2>3. tasks'[u] = tasks[u]  BY <1>1, <1>2, <2>2
  <2>4. Handled(p)'  BY <1>1, <1>2, <2>1, <2>3, OthersFollow DEF LanesInv
  <2> QED  BY <2>4 DEF Tracked
<1>5. ASSUME NEW p \in 1 .. at, Tracked(p) PROVE Tracked(p)'
  BY <1>1, <1>3, <1>4, <1>5, StandingTracked DEF Tracked
<1> QED  BY <1>1, <1>2, <1>5, StayTracked

\* A read: what the handler has is GitHub's as it is.
LEMMA ReadTracks ==
  ASSUME LanesInv, NEW t \in Tasks, ReadDiff(t) \/ ReadFiles(t) \/ ReadCommits(t)
  PROVE  LanesInv'
<1>1. UNCHANGED <<config, history, at, events, verdicts, lost>>
  BY DEF ReadDiff, ReadFiles, ReadCommits
<1>2. /\ DOMAIN tasks = Tasks /\ DOMAIN tasks' = Tasks
      /\ \A u \in Tasks : u /= t => tasks'[u] = tasks[u]
  BY DEF LanesInv, ShapeInv, ReadDiff, ReadFiles, ReadCommits
<1>3. ASSUME NEW p \in 1 .. at, Follows(tasks[t], p) PROVE Follows(tasks[t], p)'
  <2>1. CASE ReadDiff(t)
    <3>1. tasks'[t] = Task("files", tasks[t].event, Pull.diff, tasks[t].paths, tasks[t].times)
      BY <1>2, <2>1 DEF ReadDiff
    <3> QED  BY <3>1, <1>1, <1>3 DEF Follows, Task, Reading, Pull
  <2>2. CASE ReadFiles(t)
    <3>1. tasks'[t] = Task("commits", tasks[t].event, tasks[t].diff, FirstPage(Pull.paths), tasks[t].times)
      BY <1>2, <2>2 DEF ReadFiles
    <3>2. tasks[t].diff = Pull.diff  BY <2>2, <1>3 DEF Follows, Reading, ReadFiles
    <3> QED  BY <3>1, <3>2, <1>1, <1>3 DEF Follows, Task, Reading, Pull
  <2>3. CASE ReadCommits(t)
    <3>1. tasks'[t] = Task("judge", tasks[t].event, tasks[t].diff, tasks[t].paths, FirstPage(Pull.commits))
      BY <1>2, <2>3 DEF ReadCommits
    <3>2. tasks[t].diff = Pull.diff /\ tasks[t].paths = FirstPage(Pull.paths)
      BY <2>3, <1>3 DEF Follows, Reading, ReadCommits
    <3> QED  BY <3>1, <3>2, <1>1, <1>3 DEF Follows, Task, Reading, Pull
  <2> QED  BY <2>1, <2>2, <2>3
<1>4. ASSUME NEW p \in 1 .. at, Handled(p) PROVE Tracked(p)'
  <2>1. PICK u \in Tasks : Follows(tasks[u], p)  BY <1>4 DEF Handled
  <2>2. CASE u = t
    <3>1. Follows(tasks[t], p)'  BY <2>1, <2>2, <1>3
    <3> QED  BY <3>1 DEF Tracked, Handled
  <2>3. CASE u /= t
    <3>1. Handled(p)'  BY <1>1, <1>2, <2>1, <2>3, OthersFollow DEF LanesInv
    <3> QED  BY <3>1 DEF Tracked
  <2> QED  BY <2>2, <2>3
<1>5. ASSUME NEW p \in 1 .. at, Tracked(p) PROVE Tracked(p)'
  <2>1. Awaited(p) => Awaited(p)'  BY <1>1 DEF Awaited
  <2> QED  BY <1>1, <1>4, <1>5, <2>1, StandingTracked DEF Tracked
<1> QED  BY <1>1, <1>2, <1>5, StayTracked

\* A handler that fails gives its event up for lost.
LEMMA FailTracks == ASSUME LanesInv, NEW t \in Tasks, Fail(t) PROVE LanesInv'
<1>1. UNCHANGED <<config, history, at, events, verdicts>> /\ lost' = lost \cup {tasks[t].event}
  BY DEF Fail
<1>2. /\ DOMAIN tasks = Tasks /\ DOMAIN tasks' = Tasks
      /\ \A u \in Tasks : u /= t => tasks'[u] = tasks[u]
  BY DEF LanesInv, ShapeInv, Fail
<1>3. ASSUME NEW p \in 1 .. at, Handled(p) PROVE Tracked(p)'
  <2>1. PICK u \in Tasks : Follows(tasks[u], p)  BY <1>3 DEF Handled
  <2>2. CASE u = t
    <3>1. Dropped(p)'  BY <1>1, <2>1, <2>2 DEF Dropped, Follows
    <3> QED  BY <3>1 DEF Tracked
  <2>3. CASE u /= t
    <3>1. Handled(p)'  BY <1>1, <1>2, <2>1, <2>3, OthersFollow DEF LanesInv
    <3> QED  BY <3>1 DEF Tracked
  <2> QED  BY <2>2, <2>3
<1>4. ASSUME NEW p \in 1 .. at, Tracked(p) PROVE Tracked(p)'
  <2>1. Awaited(p) => Awaited(p)'  BY <1>1 DEF Awaited
  <2> QED  BY <1>1, <1>3, <1>4, <2>1, StandingTracked DEF Tracked
<1> QED  BY <1>1, <1>2, <1>4, StayTracked

\* A handler that judges leaves a verdict on what it read.
LEMMA JudgeTracks == ASSUME LanesInv, NEW t \in Tasks, Judge(t) PROVE LanesInv'
<1>1. /\ tasks[t].stage = "judge"
      /\ UNCHANGED <<config, history, at, events, lost>>
      /\ verdicts' = verdicts \cup {Outcome(tasks[t])}
  BY DEF Judge
<1>2. /\ DOMAIN tasks = Tasks /\ DOMAIN tasks' = Tasks
      /\ \A u \in Tasks : u /= t => tasks'[u] = tasks[u]
  BY DEF LanesInv, ShapeInv, Judge
<1>3. ASSUME NEW p \in 1 .. at, Follows(tasks[t], p), ~Unscored PROVE JudgedNow'
  <2>1. tasks[t].diff = Pull.diff /\ tasks[t].paths = FirstPage(Pull.paths)
    BY <1>1, <1>3 DEF Follows, Reading
  <2>2. Outcome(tasks[t]).kind = "scored" /\ Outcome(tasks[t]).diff = tasks[t].diff
          /\ Outcome(tasks[t]).paths = tasks[t].paths
    BY <1>3 DEF Outcome, Unscored
  <2>3. Outcome(tasks[t]) \in Scored'  BY <1>1, <2>2 DEF Scored
  <2> QED  BY <1>1, <2>1, <2>2, <2>3 DEF JudgedNow, Pull
<1>4. ASSUME NEW p \in 1 .. at, Handled(p) PROVE Tracked(p)'
  <2>1. PICK u \in Tasks : Follows(tasks[u], p)  BY <1>4 DEF Handled
  <2>2. CASE u = t
    <3>1. CASE Unscored
      BY <3>1, <1>1 DEF Unscored, Tracked
    <3>2. CASE ~Unscored
      BY <3>2, <2>1, <2>2, <1>3 DEF Tracked
    <3> QED  BY <3>1, <3>2
  <2>3. CASE u /= t
    <3>1. Handled(p)'  BY <1>1, <1>2, <2>1, <2>3, OthersFollow DEF LanesInv
    <3> QED  BY <3>1 DEF Tracked
  <2> QED  BY <2>2, <2>3
<1>5. ASSUME NEW p \in 1 .. at, Tracked(p) PROVE Tracked(p)'
  <2>1. Awaited(p) => Awaited(p)'  BY <1>1 DEF Awaited
  <2> QED  BY <1>1, <1>4, <1>5, <2>1, StandingTracked DEF Tracked
<1> QED  BY <1>1, <1>2, <1>5, StayTracked

-----------------------------------------------------------------------------
(* Steps of GitHub *)

\* A push brings its event; any other change leaves the code as it is.
LEMMA ChangeTracks == ASSUME LanesInv, Change PROVE LanesInv'
<1>0. PICK n : n = at + 1  OBVIOUS
<1>1. /\ at < Len(history) /\ at' = n
      /\ UNCHANGED <<config, history, tasks, verdicts, lost>>
      /\ \E action \in ActionsOf(history[at], history[n]) : events' = events \cup {Event(action, n)}
  BY <1>0 DEF Change
<1>2. /\ Len(history) \in Nat
      /\ \A i, j \in 1 .. Len(history) : history[i].diff = history[j].diff => history[i].paths = history[j].paths
  BY HistoryShape DEF LanesInv
<1>3. at \in 1 .. Len(history) /\ n \in 1 .. Len(history) /\ n - 1 = at  BY <1>0, <1>1, <1>2 DEF LanesInv, ShapeInv
<1>4. ShapeInv' /\ GivenInv'  BY <1>1, <1>3 DEF LanesInv, ShapeInv, GivenInv
<1>5. CASE history[at].diff /= history[n].diff
  <2>1. events' = events \cup {Event("synchronize", n)}  BY <1>1, <1>5 DEF ActionsOf
  <2>2. Awaited(n)'
    <3> DEFINE push == Event("synchronize", n)
    <3>1. push.at = n /\ push.action = "synchronize"  BY DEF Event
    <3>2. push \in events'  BY <2>1
    <3> HIDE DEF push
    <3> QED  BY <3>1, <3>2 DEF Awaited
  <2>3. IsLastPush(n)'  BY <1>1, <1>3, <1>5 DEF IsLastPush, Pushed
  <2> QED  BY <1>1, <1>3, <1>4, <2>2, <2>3 DEF LanesInv, PushInv, Tracked
<1>6. CASE history[at].diff = history[n].diff
  <2>1. PICK p \in 1 .. at : IsLastPush(p) /\ Tracked(p)  BY DEF LanesInv, PushInv
  <2>2. IsLastPush(p)'
    <3>1. ~Pushed(n)'  BY <1>1, <1>3, <1>6 DEF Pushed
    <3>2. \A i \in p + 1 .. at : ~Pushed(i)'  BY <1>1, <2>1 DEF IsLastPush, Pushed
    <3>3. Pushed(p)'  BY <1>1, <2>1 DEF IsLastPush, Pushed
    <3> QED  BY <1>0, <1>1, <1>3, <2>1, <3>1, <3>2, <3>3 DEF IsLastPush
  <2>3. Pull'.diff = Pull.diff /\ Pull'.paths = Pull.paths  BY <1>1, <1>2, <1>3, <1>6 DEF Pull
  <2>4. Tracked(p)'
    <3>1. CASE Awaited(p)
      BY <3>1, <1>1 DEF Awaited, Tracked
    <3>2. CASE Handled(p)
      BY <3>2, <1>1, <2>3 DEF Handled, Follows, Tracked
    <3>3. CASE Dropped(p) \/ Unscored
      BY <3>3, <1>1 DEF Dropped, Unscored, Tracked
    <3>4. CASE JudgedNow
      BY <3>4, <1>1, <2>3 DEF JudgedNow, Scored, Tracked
    <3> QED  BY <2>1, <3>1, <3>2, <3>3, <3>4 DEF Tracked
  <2>5. p \in 1 .. at'  BY <1>0, <1>1, <1>3, <2>1
  <2> QED  BY <1>4, <2>2, <2>4, <2>5 DEF LanesInv, PushInv
<1> QED  BY <1>5, <1>6

-----------------------------------------------------------------------------
(* The theorems *)

LEMMA StepLanes == LanesInv /\ [Next]_vars => LanesInv'
<1> SUFFICES ASSUME LanesInv, [Next]_vars PROVE LanesInv'  OBVIOUS
<1>1. CASE Change
  BY <1>1, ChangeTracks
<1>2. ASSUME NEW t \in Tasks, Receive(t) \/ ReadDiff(t) \/ ReadFiles(t) \/ ReadCommits(t) \/ Fail(t) \/ Judge(t)
      PROVE  LanesInv'
  BY <1>2, ReceiveTracks, ReadTracks, FailTracks, JudgeTracks
<1>3. CASE UNCHANGED vars
  <2>1. \A p \in 1 .. at : Tracked(p) => Tracked(p)'
    BY <1>3 DEF vars, Tracked, Awaited, Handled, Follows, Pull, Dropped, Unscored, JudgedNow, Scored
  <2> QED  BY <1>3, <2>1, StayTracked DEF vars, LanesInv, ShapeInv
<1> QED  BY <1>1, <1>2, <1>3 DEF Next

\* Of the last push, there is at every moment the event, a handler that has read
\* nothing older, a failed handler or a verdict (webhook.rs, score_and_act).
THEOREM PushIsTracked == Spec => []LanesInv
BY InitLanes, StepLanes, PTL DEF Spec

LEMMA TrackedIsJudged == LanesInv => LastPushJudged
<1> SUFFICES ASSUME LanesInv, Settled, ~config.exempt, ~config.mirror, \A e \in lost : ~IsLastPush(e.at)
             PROVE  \E v \in Scored : v.diff = Pull.diff /\ v.paths = FirstPage(Pull.paths)
  BY DEF LastPushJudged
<1>1. PICK p \in 1 .. at : IsLastPush(p) /\ Tracked(p)  BY DEF LanesInv, PushInv
<1>2. ~Awaited(p)  BY DEF Awaited, Settled
<1>3. ~Handled(p)  BY DEF Handled, Settled, Follows, Idle, Task, Reading
<1>4. ~Dropped(p)  BY <1>1 DEF Dropped
<1>5. ~Unscored  BY DEF Unscored
<1> QED  BY <1>1, <1>2, <1>3, <1>4, <1>5 DEF Tracked, JudgedNow

\* Once nothing is under way the code on GitHub has been judged, unless the
\* handler of the last push failed, however many handlers run at one time.
THEOREM LastPushIsJudged == Spec => []LastPushJudged
BY PushIsTracked, TrackedIsJudged, PTL

-----------------------------------------------------------------------------
(* What is judged *)

Versions == 1 .. Len(history)

\* A diff that was on GitHub.
Seen(diff) == \E i \in Versions : diff = history[i].diff

AskedInv   == \A e \in events : e.at \in Versions
ReadInv    == \A t \in Tasks : tasks[t] # Idle =>
                /\ tasks[t].event.at \in Versions
                /\ tasks[t].stage # "diff" => Seen(tasks[t].diff)
VerdictInv == \A v \in Scored :
                /\ v.event.at \in Versions /\ Seen(v.diff)
                /\ \E times : v.fires = LaneRules(config, history[v.event.at], v.diff, v.paths, times)

JudgedInv == AskedInv /\ ReadInv /\ VerdictInv

LEMMA InitJudged == Init => JudgedInv
<1> SUFFICES ASSUME Init  PROVE  JudgedInv  OBVIOUS
<1>1. GivenInv  BY DEF Init, GivenInv
<1>2. 1 \in Versions  BY <1>1, HistoryShape DEF Versions
<1>3. AskedInv  BY <1>2 DEF Init, AskedInv, Event
<1>4. ReadInv  BY DEF Init, ReadInv
<1>5. VerdictInv  BY DEF Init, VerdictInv, Scored
<1> QED  BY <1>3, <1>4, <1>5 DEF JudgedInv

LEMMA StepJudged == LanesInv /\ JudgedInv /\ [Next]_vars => JudgedInv'
<1> SUFFICES ASSUME LanesInv, JudgedInv, [Next]_vars  PROVE  JudgedInv'  OBVIOUS
<1>0. /\ Len(history) \in Nat /\ at \in Versions /\ DOMAIN tasks = Tasks
      /\ \A i \in Versions : history[i].diff = history[i].diff
  BY HistoryShape DEF LanesInv, ShapeInv, Versions
<1>a. AskedInv /\ ReadInv /\ VerdictInv  BY DEF JudgedInv
<1>1. CASE Change
  <2>1. /\ at < Len(history) /\ UNCHANGED <<config, history, tasks, verdicts>>
        /\ \E action : events' = events \cup {Event(action, at + 1)}
    BY <1>1 DEF Change
  <2>2. at + 1 \in Versions  BY <1>0, <2>1 DEF Versions
  <2>3. AskedInv'  BY <1>a, <2>1, <2>2 DEF AskedInv, Versions, Event
  <2>4. ReadInv' /\ VerdictInv'  BY <1>a, <2>1 DEF ReadInv, VerdictInv, Scored, Seen, Versions
  <2> QED  BY <2>3, <2>4 DEF JudgedInv
<1>2. ASSUME NEW t \in Tasks, Receive(t)  PROVE  JudgedInv'
  <2>1. PICK e \in events :
          /\ events' = events \ {e}
          /\ tasks' = IF IsScorable(e.action) THEN [tasks EXCEPT ![t] = Start(e)] ELSE tasks
          /\ UNCHANGED <<config, history, verdicts>>
    BY <1>2 DEF Receive
  <2>2. e.at \in Versions  BY <1>a DEF AskedInv
  <2>3. \A u \in Tasks : tasks'[u] = tasks[u] \/ tasks'[u] = Start(e)  BY <1>0, <2>1
  <2>4. ReadInv'  BY <1>a, <2>1, <2>2, <2>3 DEF ReadInv, Seen, Versions, Start, Task
  <2>5. AskedInv' /\ VerdictInv'  BY <1>a, <2>1 DEF AskedInv, VerdictInv, Scored, Seen, Versions
  <2> QED  BY <2>4, <2>5 DEF JudgedInv
<1>3. ASSUME NEW t \in Tasks, ReadDiff(t) \/ ReadFiles(t) \/ ReadCommits(t) \/ Fail(t)  PROVE  JudgedInv'
  <2>1. UNCHANGED <<config, history, events, verdicts>>  BY <1>3 DEF ReadDiff, ReadFiles, ReadCommits, Fail
  <2>2. \A u \in Tasks : u # t => tasks'[u] = tasks[u]  BY <1>0, <1>3 DEF ReadDiff, ReadFiles, ReadCommits, Fail
  <2>3. tasks'[t] = Idle \/ /\ tasks'[t].event.at \in Versions
                            /\ Seen(tasks'[t].diff)
    <3>1. CASE ReadDiff(t)
      <4>1. tasks'[t] = Task("files", tasks[t].event, Pull.diff, tasks[t].paths, tasks[t].times)
        BY <1>0, <3>1 DEF ReadDiff
      <4>2. tasks[t] # Idle  BY <3>1 DEF ReadDiff, Idle, Task
      <4> QED  BY <1>0, <1>a, <4>1, <4>2 DEF ReadInv, Task, Seen, Pull
    <3>2. CASE ReadFiles(t)
      <4>1. tasks'[t] = Task("commits", tasks[t].event, tasks[t].diff, FirstPage(Pull.paths), tasks[t].times)
        BY <1>0, <3>2 DEF ReadFiles
      <4>2. tasks[t] # Idle /\ tasks[t].stage # "diff"  BY <3>2 DEF ReadFiles, Idle, Task
      <4> QED  BY <1>a, <4>1, <4>2 DEF ReadInv, Task
    <3>3. CASE ReadCommits(t)
      <4>1. tasks'[t] = Task("judge", tasks[t].event, tasks[t].diff, tasks[t].paths, FirstPage(Pull.commits))
        BY <1>0, <3>3 DEF ReadCommits
      <4>2. tasks[t] # Idle /\ tasks[t].stage # "diff"  BY <3>3 DEF ReadCommits, Idle, Task
      <4> QED  BY <1>a, <4>1, <4>2 DEF ReadInv, Task
    <3>4. CASE Fail(t)  BY <1>0, <3>4 DEF Fail
    <3> QED  BY <1>3, <3>1, <3>2, <3>3, <3>4
  <2>4. ReadInv'  BY <1>a, <2>1, <2>2, <2>3 DEF ReadInv, Seen, Versions
  <2>5. AskedInv' /\ VerdictInv'  BY <1>a, <2>1 DEF AskedInv, VerdictInv, Scored, Seen, Versions
  <2> QED  BY <2>4, <2>5 DEF JudgedInv
<1>4. ASSUME NEW t \in Tasks, Judge(t)  PROVE  JudgedInv'
  <2>1. /\ tasks[t].stage = "judge" /\ UNCHANGED <<config, history, events>>
        /\ verdicts' = verdicts \cup {Outcome(tasks[t])}
        /\ tasks' = [tasks EXCEPT ![t] = Idle]
    BY <1>4 DEF Judge
  <2>2. \A u \in Tasks : tasks'[u] = tasks[u] \/ tasks'[u] = Idle  BY <1>0, <2>1
  <2>3. ReadInv'  BY <1>a, <2>1, <2>2 DEF ReadInv, Seen, Versions
  <2>4. tasks[t].event.at \in Versions /\ Seen(tasks[t].diff)
    <3>1. tasks[t] # Idle /\ tasks[t].stage # "diff"  BY <2>1 DEF Idle, Task
    <3> QED  BY <1>a, <3>1 DEF ReadInv
  <2>5. ASSUME NEW v, v = Outcome(tasks[t]), v.kind = "scored"
        PROVE  /\ v.event.at \in Versions /\ Seen(v.diff)
               /\ \E times : v.fires = LaneRules(config, history[v.event.at], v.diff, v.paths, times)
    <3>1. CASE config.exempt
      <4>1. v = [kind |-> "exempt"]  BY <2>5, <3>1 DEF Outcome
      <4> QED  BY <2>5, <4>1
    <3>2. CASE ~config.exempt /\ config.mirror
      <4>1. v = [kind |-> "policy-close"]  BY <2>5, <3>2 DEF Outcome
      <4> QED  BY <2>5, <4>1
    <3>3. CASE ~config.exempt /\ ~config.mirror
      <4>1. v = [ kind  |-> "scored", event |-> tasks[t].event, diff |-> tasks[t].diff, paths |-> tasks[t].paths,
                  fires |-> LaneRules(config, history[tasks[t].event.at], tasks[t].diff, tasks[t].paths, tasks[t].times) ]
        BY <2>5, <3>3 DEF Outcome
      <4> QED  BY <2>4, <4>1
    <3> QED  BY <3>1, <3>2, <3>3
  <2>6. VerdictInv'  BY <1>a, <2>1, <2>5 DEF VerdictInv, Scored, Seen, Versions
  <2>7. AskedInv'  BY <1>a, <2>1 DEF AskedInv, Versions
  <2> QED  BY <2>3, <2>6, <2>7 DEF JudgedInv
<1>5. CASE UNCHANGED vars
  BY <1>a, <1>5 DEF vars, JudgedInv, AskedInv, ReadInv, VerdictInv, Scored, Seen, Versions
<1> QED  BY <1>1, <1>2, <1>3, <1>4, <1>5 DEF Next

\* A version of the pull request is what the assumption says of it.
LEMMA VersionShape ==
  ASSUME GivenInv, NEW i \in Versions
  PROVE  history[i].diff \in Seq(Line) /\ Headed(history[i].diff) /\ history[i].body.tokens \in Seq(Token)
<1>1. PICK c \in Cases : config = c.config /\ history = c.history  BY DEF GivenInv
<1>2. history[i] \in Range(history)  BY HistoryShape DEF Range, Versions
<1> QED  BY <1>1, <1>2, LanesAssumption

LEMMA JudgedRight == LanesInv /\ JudgedInv => ProductionOnly /\ FileOrderIsNoEvidence /\ UnfilledIsTheCommentedShare
<1> SUFFICES ASSUME LanesInv, JudgedInv  PROVE  ProductionOnly /\ FileOrderIsNoEvidence /\ UnfilledIsTheCommentedShare
  OBVIOUS
<1>1. GivenInv  BY DEF LanesInv
<1>2. ASSUME NEW v \in Scored
      PROVE  {f \in Structural(v.fires) : f.rule /= "CODE_DEAD_HELPER"}
               = {f \in StructRules(ProductionOf(v.diff)) : f.rule /= "CODE_DEAD_HELPER"}
  <2>1. PICK times : v.fires = LaneRules(config, history[v.event.at], v.diff, v.paths, times)
    BY <1>2 DEF JudgedInv, VerdictInv
  <2>2. v.diff \in Seq(Line) /\ Headed(v.diff)
    <3>1. Seen(v.diff)  BY <1>2 DEF JudgedInv, VerdictInv
    <3> QED  BY <1>1, <3>1, VersionShape DEF Seen
  <2>3. Structural(v.fires) = StructRules(v.diff)  BY <2>1, LaneSplit
  <2>4. Production(v.diff) = Production(ProductionOf(v.diff))  BY <2>2, ProductionAlone
  <2> QED  BY <2>3, <2>4, StructSplit
<1>3. ASSUME NEW v \in Scored
      PROVE  LET tokens == history[v.event.at].body.tokens
                 inside == CharsAt(tokens, {i \in DOMAIN tokens : InComment(tokens, i)})
             IN  {f \in v.fires : f.rule = "TEMPLATE_UNFILLED"}
                   = When(tokens /= <<>> /\ 10 * inside >= 6 * Chars(tokens),
                          Fire("TEMPLATE_UNFILLED", inside, Chars(tokens)))
  <2>1. PICK times : v.fires = LaneRules(config, history[v.event.at], v.diff, v.paths, times)
    BY <1>3 DEF JudgedInv, VerdictInv
  <2>2. history[v.event.at].body.tokens \in Seq(Token)
    BY <1>1, <1>3, VersionShape DEF JudgedInv, VerdictInv
  <2>3. {f \in v.fires : f.rule = "TEMPLATE_UNFILLED"} = TemplateUnfilled(history[v.event.at].body)
    BY <2>1, LaneSplit
  <2> QED  BY <2>2, <2>3, UnfilledShare
<1>4. ProductionOnly  BY <1>2 DEF ProductionOnly
<1>5. UnfilledIsTheCommentedShare  BY <1>3 DEF UnfilledIsTheCommentedShare
<1>6. FileOrderIsNoEvidence
  <2> SUFFICES ASSUME NEW v \in Scored, Cardinality(AllStarts(Production(v.diff))) <= MAX_FUNCS,
                      NEW i \in Headers(v.diff), NEW j \in Headers(v.diff),
                      NEW k \in Headers(v.diff) \cup {Len(v.diff) + 1}, i < j, j < k
               PROVE  Structural(v.fires) = StructRules(Exchanged(v.diff, i, j, k))
    BY DEF FileOrderIsNoEvidence
  <2>1. PICK times : v.fires = LaneRules(config, history[v.event.at], v.diff, v.paths, times)
    BY DEF JudgedInv, VerdictInv
  <2>2. v.diff \in Seq(Line) /\ Headed(v.diff)
    <3>1. Seen(v.diff)  BY DEF JudgedInv, VerdictInv
    <3> QED  BY <1>1, <3>1, VersionShape DEF Seen
  <2>3. Structural(v.fires) = StructRules(v.diff)  BY <2>1, LaneSplit
  <2>4. StructRules(v.diff) = StructRules(Exchanged(v.diff, i, j, k))  BY <2>2, FileOrder
  <2> QED  BY <2>3, <2>4
<1> QED  BY <1>4, <1>5, <1>6

\* A verdict is of a diff that was on GitHub and of the payload of its event, and
\* its fires are those of the rules on them (webhook.rs, process).
THEOREM VerdictsAreRead == Spec => [](LanesInv /\ JudgedInv)
<1>1. Init => LanesInv /\ JudgedInv  BY InitLanes, InitJudged
<1>2. (LanesInv /\ JudgedInv) /\ [Next]_vars => (LanesInv /\ JudgedInv)'  BY StepLanes, StepJudged
<1> QED  BY <1>1, <1>2, PTL DEF Spec

\* The files that are no production source change nothing in the structural rules,
\* wherever they stand in the diff and whatever their lines look like (split,
\* is_production_source), for every diff that git writes.
THEOREM ProductionIsJudged == Spec => []ProductionOnly
BY VerdictsAreRead, JudgedRight, PTL

\* Whichever file of a diff comes first, the structural rules fire alike: no window,
\* body, handler or literal count reaches from one file into the next, for every
\* diff of up to MAX_FUNCS functions (codestruct.rs).
THEOREM FileOrderIsJudged == Spec => []FileOrderIsNoEvidence
BY VerdictsAreRead, JudgedRight, PTL

\* html_comment_fraction counts each character of a comment once and no other: for
\* every body, with comments that are nested, adjacent or never closed.
THEOREM CommentsAreCounted == Spec => []UnfilledIsTheCommentedShare
BY VerdictsAreRead, JudgedRight, PTL
=============================================================================
