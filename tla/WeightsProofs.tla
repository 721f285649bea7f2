---------------------------- MODULE WeightsProofs ----------------------------
(***************************************************************************)
(* Proofs about Weights, for any number of replicas and any bounds: one    *)
(* version is active, promotions replace what they saw, and the memory of  *)
(* a serving pod is a version of the database.                             *)
(***************************************************************************)
EXTENDS Weights, SequenceTheorems, TLAPS

-----------------------------------------------------------------------------
(* Type correctness *)

LEMMA TableTypes == NoTable \in Table /\ \A n \in Nat : Embedded(n) \in Table /\ Learned(n) \in Table
BY DEF NoTable, Table, Embedded, Learned

LEMMA PodTypes ==
  /\ \A table \in Table : Down(table) \in Pod
  /\ \A pod \in Pod : Failed(pod) \in Pod
<1>1. ASSUME NEW table \in Table PROVE Down(table) \in Pod
  BY TableTypes DEF Down, Pod, Jobs
<1>2. ASSUME NEW pod \in Pod PROVE Failed(pod) \in Pod
  <2>1. pod.embedded \in Table
    BY DEF Pod
  <2>2. [pod EXCEPT !.pc = "up", !.plan = NoTable, !.seen = 0, !.held = 0] \in Pod
    BY TableTypes DEF Pod, Jobs
  <2>3. QED
    BY <1>1, <2>1, <2>2 DEF Failed
<1>3. QED
  BY <1>1, <1>2

\* Deactivating one row changes no table and no other row.
LEMMA Deactivated ==
  ASSUME rows \in Seq(Row), NEW i
  PROVE  /\ Deactivate(i) \in Seq(Row) /\ Len(Deactivate(i)) = Len(rows)
         /\ \A j \in DOMAIN rows : /\ Deactivate(i)[j].table = rows[j].table
                                   /\ Deactivate(i)[j].active <=> rows[j].active /\ j # i
<1>1. ASSUME NEW j \in DOMAIN rows
      PROVE  /\ Deactivate(i)[j] \in Row
             /\ Deactivate(i)[j].table = rows[j].table
             /\ Deactivate(i)[j].active <=> rows[j].active /\ j # i
  <2>1. rows[j] \in Row
    OBVIOUS
  <2>2. CASE j = i
    <3>1. Deactivate(i)[j] = [rows[j] EXCEPT !.active = FALSE]
      BY <2>2 DEF Deactivate
    <3>2. QED
      BY <2>1, <2>2, <3>1 DEF Row
  <2>3. CASE j # i
    BY <2>1, <2>3 DEF Deactivate
  <2>4. QED
    BY <2>2, <2>3
<1>2. DOMAIN Deactivate(i) = 1 .. Len(rows)
  BY DEF Deactivate
<1>3. Deactivate(i) \in [1 .. Len(rows) -> Row]
  BY <1>1, <1>2 DEF Deactivate
<1>4. Deactivate(i) \in Seq(Row) /\ Len(Deactivate(i)) = Len(rows)
  BY <1>2, <1>3
<1>5. QED
  BY <1>1, <1>4

\* A committed promotion: the table is appended and is the only active row.
LEMMA Committed ==
  ASSUME TypeOK, NEW i, NEW table \in Table, ActiveRows \subseteq {i},
         rows' = Append(Deactivate(i), [table |-> table, active |-> TRUE])
  PROVE  /\ rows' \in Seq(Row) /\ Len(rows') = Len(rows) + 1
         /\ \A j \in DOMAIN rows : rows'[j].table = rows[j].table
         /\ rows'[Len(rows) + 1].table = table
         /\ ActiveRows' = {Len(rows) + 1}
<1> DEFINE new == [table |-> table, active |-> TRUE]
           old == Deactivate(i)
<1>0. rows \in Seq(Row) /\ new \in Row
  BY DEF TypeOK, Row
<1>1. /\ old \in Seq(Row) /\ Len(old) = Len(rows)
      /\ \A j \in DOMAIN rows : /\ old[j].table = rows[j].table
                                /\ old[j].active <=> rows[j].active /\ j # i
  BY <1>0, Deactivated
<1>2. new.table = table /\ new.active
  OBVIOUS
<1>3. rows' = Append(old, new)
  OBVIOUS
<1> HIDE DEF old, new
<1>4. /\ rows' \in Seq(Row) /\ Len(rows') = Len(rows) + 1
      /\ rows'[Len(rows) + 1] = new
      /\ \A j \in 1 .. Len(rows) : rows'[j] = old[j]
  <2>1. new \in Row /\ old \in Seq(Row) /\ Len(old) = Len(rows)
    BY <1>0, <1>1
  <2>2. /\ Append(old, new) \in Seq(Row) /\ Len(Append(old, new)) = Len(old) + 1
        /\ \A j \in 1 .. Len(old) : Append(old, new)[j] = old[j]
        /\ Append(old, new)[Len(old) + 1] = new
    BY <2>1, AppendProperties
  <2>3. QED
    BY <1>3, <2>1, <2>2
<1>5. \A j \in DOMAIN rows : ~old[j].active
  BY <1>1 DEF ActiveRows
<1>6. ActiveRows' = {Len(rows) + 1}
  <2>1. ActiveRows' = {j \in 1 .. Len(rows) + 1 : rows'[j].active}
    BY <1>4 DEF ActiveRows
  <2>2. \A j \in 1 .. Len(rows) : ~rows'[j].active
    BY <1>0, <1>4, <1>5
  <2>3. rows'[Len(rows) + 1].active
    BY <1>2, <1>4
  <2>4. Len(rows) \in Nat
    BY <1>0
  <2>5. QED
    BY <2>1, <2>2, <2>3, <2>4
<1>7. QED
  BY <1>0, <1>1, <1>2, <1>4, <1>6

\* A rollback: no table changes and one row is active.
LEMMA Flipped ==
  ASSUME TypeOK, NEW i \in DOMAIN rows,
         rows' = [j \in DOMAIN rows |-> [rows[j] EXCEPT !.active = (j = i)]]
  PROVE  /\ rows' \in Seq(Row) /\ DOMAIN rows' = DOMAIN rows
         /\ \A j \in DOMAIN rows : rows'[j].table = rows[j].table
         /\ ActiveRows' = {i}
<1>0. rows \in Seq(Row)
  BY DEF TypeOK
<1>1. ASSUME NEW j \in DOMAIN rows
      PROVE  rows'[j] \in Row /\ rows'[j].table = rows[j].table /\ rows'[j].active = (j = i)
  <2>1. rows[j] \in Row /\ rows'[j] = [rows[j] EXCEPT !.active = (j = i)]
    BY <1>0
  <2>2. (j = i) \in BOOLEAN
    OBVIOUS
  <2>3. QED
    BY <2>1, <2>2 DEF Row
<1>2. DOMAIN rows' = DOMAIN rows
  OBVIOUS
<1>3. rows' \in [1 .. Len(rows) -> Row]
  BY <1>0, <1>1, <1>2
<1>4. rows' \in Seq(Row)
  BY <1>0, <1>3
<1>5. ActiveRows' = {i}
  BY <1>1, <1>2 DEF ActiveRows
<1>6. QED
  BY <1>1, <1>2, <1>4, <1>5

LEMMA InitType == Init => TypeOK
BY TableTypes, PodTypes, EmptySeq DEF Init, TypeOK

LEMMA NextType == TypeOK /\ [Next]_vars => TypeOK'
<1> SUFFICES ASSUME TypeOK, [Next]_vars PROVE TypeOK'
  OBVIOUS
<1>0. /\ rows \in Seq(Row) /\ pods \in [Pods -> Pod] /\ release \in Table
      /\ fits \in Nat /\ flips \in Nat /\ faults \in Nat
      /\ \A i \in DOMAIN rows : rows[i].table \in Table
      /\ DOMAIN rows \subseteq Nat
  <2>1. /\ rows \in Seq(Row) /\ pods \in [Pods -> Pod] /\ release \in Table
        /\ fits \in Nat /\ flips \in Nat /\ faults \in Nat
    BY DEF TypeOK
  <2>2. \A i \in DOMAIN rows : rows[i] \in Row
    BY <2>1
  <2>3. QED
    BY <2>1, <2>2 DEF Row
<1>j. Jobs = {"down", "boot", "up", "update", "lock", "insert", "swap"}
  BY DEF Jobs
<1>1. ASSUME NEW p \in Pods, Start(p) PROVE TypeOK'
  <2>1. pods' \in [Pods -> Pod]
    BY <1>0, <1>j, <1>1 DEF Start, Pod
  <2>2. QED
    BY <1>0, <1>1, <2>1 DEF Start, TypeOK
<1>2. ASSUME NEW p \in Pods, NEW i \in 0 .. Len(rows), Boot(p, i) PROVE TypeOK'
  <2>1. pods[p].embedded \in Table
    BY <1>0 DEF Pod
  <2>2. pods' \in [Pods -> Pod]
    <3>1. CASE pods' = [pods EXCEPT ![p].pc = "update", ![p].plan = pods[p].embedded]
      <4>1. PICK table \in Table : table = pods[p].embedded
        BY <2>1
      <4>2. pods' = [pods EXCEPT ![p].pc = "update", ![p].plan = table]
        BY <3>1, <4>1
      <4>3. QED
        BY <1>0, <1>j, <4>2 DEF Pod
    <3>2. CASE /\ i \in DOMAIN rows
               /\ pods' = [pods EXCEPT ![p].pc = "up", ![p].serving = TRUE, ![p].mem = rows[i].table]
      <4>1. PICK table \in Table : table = rows[i].table
        BY <1>0, <3>2
      <4>2. [pods[p] EXCEPT !.pc = "up", !.serving = TRUE, !.mem = table] \in Pod
        BY <1>0, <1>j DEF Pod
      <4>3. QED
        BY <1>0, <3>2, <4>1, <4>2
    <3>3. QED
      BY <1>2, <3>1, <3>2 DEF Boot, FindsActive, ActiveRows
  <2>3. QED
    BY <1>0, <1>2, <2>2 DEF Boot, TypeOK
<1>3. ASSUME NEW p \in Pods, NEW i \in 0 .. Len(rows), Update(p, i) PROVE TypeOK'
  <2>1. i \in Nat
    BY <1>0
  <2>2. pods' \in [Pods -> Pod]
    BY <1>0, <1>j, <1>3, <2>1 DEF Update, Pod
  <2>3. QED
    BY <1>0, <1>3, <2>2 DEF Update, TypeOK
<1>4. ASSUME NEW p \in Pods, Lock(p) PROVE TypeOK'
  <2>1. PICK held \in Nat : pods' = [pods EXCEPT ![p].pc = "insert", ![p].held = held]
    BY <1>0, <1>4 DEF Lock, Pod
  <2>2. pods' \in [Pods -> Pod]
    BY <1>0, <1>j, <2>1 DEF Pod
  <2>3. QED
    BY <1>0, <1>4, <2>2 DEF Lock, TypeOK
<1>5. ASSUME NEW p \in Pods, Insert(p) PROVE TypeOK'
  <2>1. pods[p] \in Pod /\ pods[p].plan \in Table
    BY <1>0 DEF Pod
  <2>2. rows' \in Seq(Row)
    <3>1. CASE /\ ActiveRows \subseteq {pods[p].held}
               /\ rows' = Append(Deactivate(pods[p].held), [table |-> pods[p].plan, active |-> TRUE])
      BY <2>1, <3>1, Committed
    <3>2. CASE rows' = rows
      BY <1>0, <3>2
    <3>3. QED
      BY <1>5, <3>1, <3>2 DEF Insert
  <2>3. pods' \in [Pods -> Pod]
    <3>1. CASE pods' = [pods EXCEPT ![p].pc = "swap", ![p].held = 0, ![p].seen = 0]
      <4>1. [pods[p] EXCEPT !.pc = "swap", !.held = 0, !.seen = 0] \in Pod
        BY <1>j, <2>1 DEF Pod
      <4>2. QED
        BY <1>0, <3>1, <4>1
    <3>2. CASE pods' = [pods EXCEPT ![p] = Failed(@)]
      BY <1>0, <2>1, <3>2, PodTypes
    <3>3. QED
      BY <1>5, <3>1, <3>2 DEF Insert
  <2>4. QED
    BY <1>0, <1>5, <2>2, <2>3 DEF Insert, TypeOK
<1>6. ASSUME NEW p \in Pods, Swap(p) PROVE TypeOK'
  <2>1. pods[p].plan \in Table
    BY <1>0 DEF Pod
  <2>2. pods' \in [Pods -> Pod]
    <3>1. PICK table \in Table : table = pods[p].plan
      BY <2>1
    <3>2. [pods[p] EXCEPT !.pc = "up", !.serving = TRUE, !.mem = table, !.plan = NoTable] \in Pod
      BY <1>0, <1>j, TableTypes DEF Pod
    <3>3. QED
      BY <1>0, <1>6, <3>1, <3>2 DEF Swap
  <2>3. QED
    BY <1>0, <1>6, <2>2 DEF Swap, TypeOK
<1>7. ASSUME NEW p \in Pods, Learn(p) PROVE TypeOK'
  <2>0. fits + 1 \in Nat /\ Learned(fits + 1) \in Table
    BY <1>0, TableTypes
  <2>1. PICK table \in Table : pods' = [pods EXCEPT ![p].pc = "update", ![p].plan = table]
    BY <1>7, <2>0 DEF Learn
  <2>2. pods' \in [Pods -> Pod]
    BY <1>0, <1>j, <2>1 DEF Pod
  <2>3. QED
    BY <1>0, <1>7, <2>2 DEF Learn, TypeOK
<1>8. ASSUME NEW p \in Pods, NEW i \in DOMAIN rows, PollRead(p, i) PROVE TypeOK'
  <2>1. PICK table \in Table : pods' = [pods EXCEPT ![p].polled = table]
    BY <1>0, <1>8 DEF PollRead
  <2>2. pods' \in [Pods -> Pod]
    BY <1>0, <2>1 DEF Pod
  <2>3. QED
    BY <1>0, <1>8, <2>2 DEF PollRead, TypeOK
<1>9. ASSUME NEW p \in Pods, PollWrite(p) PROVE TypeOK'
  <2>1. pods[p].polled \in Table
    BY <1>0 DEF Pod
  <2>2. pods' \in [Pods -> Pod]
    BY <1>0, <1>9, <2>1, TableTypes DEF PollWrite, Pod
  <2>3. QED
    BY <1>0, <1>9, <2>2 DEF PollWrite, TypeOK
<1>10. CASE Release
  BY <1>0, <1>10, TableTypes DEF Release, TypeOK
<1>11. ASSUME NEW p \in Pods, NEW embedded \in Table, Crash(p, embedded) PROVE TypeOK'
  <2>1. pods' \in [Pods -> Pod]
    BY <1>0, <1>11, PodTypes DEF Crash
  <2>2. QED
    BY <1>0, <1>11, <2>1 DEF Crash, Fault, TypeOK
<1>12. ASSUME NEW p \in Pods, PromoteFails(p) PROVE TypeOK'
  <2>1. pods' \in [Pods -> Pod]
    BY <1>0, <1>12, PodTypes DEF PromoteFails
  <2>2. QED
    BY <1>0, <1>12, <2>1 DEF PromoteFails, Fault, TypeOK
<1>13. ASSUME NEW i \in DOMAIN rows, Flip(i) PROVE TypeOK'
  <2>1. rows' \in Seq(Row)
    BY <1>13, Flipped DEF Flip
  <2>2. QED
    BY <1>0, <1>13, <2>1 DEF Flip, TypeOK
<1>14. CASE UNCHANGED vars
  BY <1>14 DEF vars, TypeOK
<1>15. \A p \in Pods : pods[p].embedded \in Table
  BY <1>0 DEF Pod
<1>16. QED
  BY <1>0, <1>1, <1>2, <1>3, <1>4, <1>5, <1>6, <1>7, <1>8, <1>9, <1>10, <1>11, <1>12, <1>13,
     <1>14, <1>15 DEF Next, Job, Promote, Poll

\* The versions and the pods are well typed, whatever starts, learns, reloads, is
\* released, rolled back or killed.
THEOREM TypeCorrect == Spec => []TypeOK
<1>1. QED
  BY InitType, NextType, PTL DEF Spec

-----------------------------------------------------------------------------
(* The versions *)

\* The versions change by a promotion that commits or by a rollback.
LEMMA RowsStep ==
  ASSUME TypeOK, [Next]_vars
  PROVE  \/ rows' = rows
         \/ \E p \in Pods :
              /\ Insert(p) /\ pods[p].plan \in Table
              /\ ActiveRows \subseteq {pods[p].held}
              /\ rows' = Append(Deactivate(pods[p].held), [table |-> pods[p].plan, active |-> TRUE])
         \/ \E i \in DOMAIN rows : Flip(i)
<1>1. \A p \in Pods : pods[p].plan \in Table
  BY DEF TypeOK, Pod
<1>2. CASE \E p \in Pods : Insert(p)
  BY <1>1, <1>2 DEF Insert
<1>3. CASE ~\E p \in Pods : Insert(p)
  BY <1>3 DEF vars, Next, Job, Promote, Poll, Start, Boot, Update, Lock, Swap, Learn, PollRead,
     PollWrite, Release, Crash, PromoteFails
<1>4. QED
  BY <1>2, <1>3

\* No version is ever removed or rewritten.
LEMMA VersionsStay ==
  ASSUME TypeOK, [Next]_vars
  PROVE  /\ DOMAIN rows \subseteq DOMAIN rows'
         /\ \A table : IsVersion(table) => IsVersion(table)'
<1>0. rows \in Seq(Row) /\ rows' \in Seq(Row)
  BY NextType DEF TypeOK
<1>1. SUFFICES /\ DOMAIN rows \subseteq DOMAIN rows'
               /\ \A j \in DOMAIN rows : rows'[j].table = rows[j].table
  BY DEF IsVersion
<1>2. CASE rows' = rows
  BY <1>2
<1>3. ASSUME NEW p \in Pods, pods[p].plan \in Table, ActiveRows \subseteq {pods[p].held},
             rows' = Append(Deactivate(pods[p].held), [table |-> pods[p].plan, active |-> TRUE])
      PROVE  /\ DOMAIN rows \subseteq DOMAIN rows'
             /\ \A j \in DOMAIN rows : rows'[j].table = rows[j].table
  <2>1. Len(rows') = Len(rows) + 1 /\ \A j \in DOMAIN rows : rows'[j].table = rows[j].table
    BY <1>3, Committed
  <2>2. QED
    BY <1>0, <2>1
<1>4. ASSUME NEW i \in DOMAIN rows, Flip(i)
      PROVE  /\ DOMAIN rows \subseteq DOMAIN rows'
             /\ \A j \in DOMAIN rows : rows'[j].table = rows[j].table
  BY <1>4, Flipped DEF Flip
<1>5. QED
  BY <1>2, <1>3, <1>4, RowsStep

LEMMA OneActiveStep == TypeOK /\ OneActive /\ [Next]_vars => OneActive'
<1> SUFFICES ASSUME TypeOK, OneActive, [Next]_vars PROVE OneActive'
  OBVIOUS
<1>1. CASE rows' = rows
  BY <1>1 DEF OneActive, ActiveRows
<1>2. ASSUME NEW p \in Pods, pods[p].plan \in Table, ActiveRows \subseteq {pods[p].held},
             rows' = Append(Deactivate(pods[p].held), [table |-> pods[p].plan, active |-> TRUE])
      PROVE  OneActive'
  <2>1. rows' \in Seq(Row) /\ Len(rows') = Len(rows) + 1 /\ ActiveRows' = {Len(rows) + 1}
    BY <1>2, Committed
  <2>2. Len(rows) + 1 \in DOMAIN rows'
    BY <2>1 DEF TypeOK
  <2>3. QED
    BY <2>1, <2>2 DEF OneActive
<1>3. ASSUME NEW i \in DOMAIN rows, Flip(i) PROVE OneActive'
  BY <1>3, Flipped DEF Flip, OneActive
<1>4. QED
  BY <1>1, <1>2, <1>3, RowsStep

\* From the first promotion on exactly one version is active: the unique index
\* allows one at most, and whoever deactivates one activates another in the
\* same transaction.
THEOREM OneVersionActive == Spec => []OneActive
<1>1. Init => OneActive
  BY DEF Init, OneActive
<1>2. QED
  BY <1>1, InitType, NextType, OneActiveStep, PTL DEF Spec

-----------------------------------------------------------------------------
(* What pods serve *)

\* A pod that did not move keeps its sources, and one that restarts or drops a
\* promotion has no new ones.
LEMMA SourcedKept ==
  ASSUME TypeOK, [Next]_vars, NEW pod \in Pod, Sourced(pod)
  PROVE  Sourced(pod)' /\ Sourced(Failed(pod))'
<1>1. Sourced(pod)'
  BY VersionsStay DEF Sourced
<1>2. Sourced(Failed(pod))'
  <2>1. CASE pod.serving
    <3>1. PICK failed : failed = [pod EXCEPT !.pc = "up", !.plan = NoTable, !.seen = 0, !.held = 0]
      OBVIOUS
    <3>2. /\ failed.pc = "up" /\ failed.serving = pod.serving /\ failed.mem = pod.mem
          /\ failed.polled = pod.polled
      BY <3>1 DEF Pod
    <3>3. Failed(pod) = failed
      BY <2>1, <3>1 DEF Failed
    <3>4. QED
      BY <1>1, <3>2, <3>3 DEF Sourced
  <2>2. CASE ~pod.serving
    BY <2>2 DEF Failed, Down, Sourced
  <2>3. QED
    BY <2>1, <2>2
<1>3. QED
  BY <1>1, <1>2

LEMMA SourcesStep == TypeOK /\ MemorySources /\ [Next]_vars => MemorySources'
<1> SUFFICES ASSUME TypeOK, MemorySources, [Next]_vars, NEW q \in Pods PROVE Sourced(pods[q])'
  BY DEF MemorySources
<1>0. /\ pods \in [Pods -> Pod] /\ pods[q] \in Pod /\ Sourced(pods[q])
      /\ \A table : IsVersion(table) => IsVersion(table)'
  BY VersionsStay DEF TypeOK, MemorySources
<1>k. PICK old \in Pod : old = pods[q] /\ Sourced(old)' /\ Sourced(Failed(old))'
  BY <1>0, SourcedKept
<1>1. CASE pods'[q] = pods[q]
  BY <1>k, <1>1 DEF Sourced
<1>2. CASE \E table : pods'[q] = Down(table)
  BY <1>2 DEF Down, Sourced
<1>3. CASE pods'[q] = Failed(pods[q])
  BY <1>k, <1>3 DEF Sourced
<1>4. ASSUME Start(q) \/ (\E i \in 0 .. Len(rows) : Update(q, i)) \/ Lock(q) \/ Learn(q)
      PROVE  Sourced(pods[q])'
  <2>1. /\ pods'[q].pc # "swap" /\ pods'[q].serving = pods[q].serving
        /\ pods'[q].mem = pods[q].mem /\ pods'[q].polled = pods[q].polled
    BY <1>0, <1>4 DEF Start, Update, Lock, Learn, Pod
  <2>2. QED
    BY <1>0, <2>1 DEF Sourced
<1>5. ASSUME NEW i \in 0 .. Len(rows), Boot(q, i) PROVE Sourced(pods[q])'
  <2>1. CASE pods' = [pods EXCEPT ![q].pc = "update", ![q].plan = pods[q].embedded]
    <3>1. /\ pods'[q].pc = "update" /\ pods'[q].serving = pods[q].serving
          /\ pods'[q].mem = pods[q].mem /\ pods'[q].polled = pods[q].polled
      BY <1>0, <2>1 DEF Pod
    <3>2. QED
      BY <1>0, <3>1 DEF Sourced
  <2>2. CASE /\ i \in DOMAIN rows
             /\ pods' = [pods EXCEPT ![q].pc = "up", ![q].serving = TRUE, ![q].mem = rows[i].table]
    <3>1. PICK table : table = rows[i].table
      OBVIOUS
    <3>2. IsVersion(table)'
      BY <1>0, <2>2, <3>1 DEF IsVersion
    <3>3. pods'[q].pc = "up" /\ pods'[q].mem = table /\ pods'[q].polled = pods[q].polled
      BY <1>0, <2>2, <3>1 DEF Pod
    <3>4. QED
      BY <1>0, <3>2, <3>3 DEF Sourced
  <2>3. QED
    BY <1>5, <2>1, <2>2 DEF Boot, FindsActive, ActiveRows
<1>6. ASSUME Insert(q), pods' = [pods EXCEPT ![q].pc = "swap", ![q].held = 0, ![q].seen = 0],
             ActiveRows \subseteq {pods[q].held},
             rows' = Append(Deactivate(pods[q].held), [table |-> pods[q].plan, active |-> TRUE])
      PROVE  Sourced(pods[q])'
  <2>1. PICK plan \in Table : plan = pods[q].plan
    BY <1>0 DEF Pod
  <2>2. /\ rows' \in Seq(Row) /\ Len(rows') = Len(rows) + 1
        /\ rows'[Len(rows) + 1].table = plan
    BY <1>6, <2>1, Committed
  <2>3. Len(rows) + 1 \in DOMAIN rows'
    BY <2>2 DEF TypeOK
  <2>4. IsVersion(plan)'
    BY <2>2, <2>3 DEF IsVersion
  <2>5. /\ pods'[q].plan = plan /\ pods'[q].serving = pods[q].serving
        /\ pods'[q].mem = pods[q].mem /\ pods'[q].polled = pods[q].polled
    BY <1>0, <1>6, <2>1 DEF Pod
  <2>6. QED
    BY <1>0, <2>4, <2>5 DEF Sourced
<1>7. CASE Swap(q)
  <2>1. PICK plan : plan = pods[q].plan
    OBVIOUS
  <2>2. IsVersion(plan)'
    BY <1>0, <1>7, <2>1 DEF Swap, Running, Sourced
  <2>3. pods'[q].pc = "up" /\ pods'[q].mem = plan /\ pods'[q].polled = pods[q].polled
    BY <1>0, <1>7, <2>1 DEF Swap, Pod
  <2>4. QED
    BY <1>0, <2>2, <2>3 DEF Sourced
<1>8. ASSUME NEW i \in DOMAIN rows, PollRead(q, i) PROVE Sourced(pods[q])'
  <2>1. PICK table : table = rows[i].table
    OBVIOUS
  <2>2. IsVersion(table)'
    BY <1>0, <2>1 DEF IsVersion
  <2>3. /\ pods'[q].pc = pods[q].pc /\ pods'[q].serving = pods[q].serving
        /\ pods'[q].mem = pods[q].mem /\ pods'[q].polled = table /\ pods'[q].plan = pods[q].plan
    BY <1>0, <1>8, <2>1 DEF PollRead, Pod
  <2>4. QED
    BY <1>0, <2>2, <2>3 DEF Sourced
<1>9. CASE PollWrite(q)
  <2>1. PICK table : table = pods[q].polled
    OBVIOUS
  <2>2. IsVersion(table)'
    BY <1>0, <1>9, <2>1 DEF PollWrite, Sourced
  <2>3. /\ pods'[q].pc = pods[q].pc /\ pods'[q].mem = table /\ pods'[q].polled = NoTable
        /\ pods'[q].plan = pods[q].plan
    BY <1>0, <1>9, <2>1 DEF PollWrite, Pod
  <2>4. QED
    BY <1>0, <2>2, <2>3 DEF Sourced
<1>10. CASE pods' = pods
  BY <1>1, <1>10
<1>11. ASSUME NEW p \in Pods, Job(p) \/ Learn(p) \/ Poll(p) \/ PromoteFails(p)
                              \/ Crash(p, pods[p].embedded) \/ Crash(p, release)
       PROVE  Sourced(pods[q])'
  <2>1. CASE p # q
    <3>1. pods'[q] = pods[q]
      BY <1>0, <1>11, <2>1 DEF Job, Promote, Poll, Start, Boot, Update, Lock, Insert, Swap, Learn,
         PollRead, PollWrite, PromoteFails, Crash
    <3>2. QED
      BY <1>1, <3>1
  <2>2. CASE p = q
    <3>1. CASE PromoteFails(q) \/ Crash(q, pods[q].embedded) \/ Crash(q, release)
      BY <1>0, <1>2, <1>3, <3>1 DEF PromoteFails, Crash
    <3>2. CASE Insert(q)
      BY <1>0, <1>3, <1>6, <3>2 DEF Insert
    <3>3. QED
      BY <1>4, <1>5, <1>7, <1>8, <1>9, <1>11, <2>2, <3>1, <3>2 DEF Job, Promote, Poll
  <2>3. QED
    BY <2>1, <2>2
<1>12. QED
  BY <1>10, <1>11 DEF vars, Next, Release, Flip

\* A serving pod scores only with a table that is a version of the database.
THEOREM PodsServeVersions == Spec => []ServesPromoted
<1>1. Init => MemorySources
  <2> SUFFICES ASSUME Init, NEW p \in Pods PROVE Sourced(pods[p])
    BY DEF MemorySources
  <2>1. pods[p].serving = FALSE /\ pods[p].polled = NoTable /\ pods[p].pc = "down"
    BY DEF Init, Down
  <2>2. QED
    BY <2>1 DEF Sourced
<1>2. MemorySources => ServesPromoted
  BY DEF MemorySources, Sourced, ServesPromoted, IsVersion
<1>3. QED
  BY <1>1, <1>2, InitType, NextType, SourcesStep, PTL DEF Spec

-----------------------------------------------------------------------------
(* Concurrent promotions *)

\* A step that keeps the versions, after which q is as it was, holds nothing,
\* or holds the row it saw with nobody else holding it.
LEMMA LocksKept ==
  ASSUME TypeOK, Locks, NEW p \in Pods, ActiveRows' = ActiveRows, DOMAIN rows' = DOMAIN rows,
         \A q \in Pods \ {p} : pods'[q].pc = pods[q].pc /\ pods'[q].seen = pods[q].seen
                                                        /\ pods'[q].held = pods[q].held,
         pods'[p].seen = 0 \/ pods'[p].seen \in DOMAIN rows,
         pods'[p].held # 0 => /\ pods'[p].pc = "insert" /\ pods'[p].held = pods'[p].seen
                              /\ pods'[p].held \in ActiveRows
                              /\ \A q \in Pods \ {p} : pods[q].held # pods'[p].held
  PROVE  Locks'
<1>1. \A q \in Pods : Holds(pods[q])'
  BY DEF Locks, Holds
<1>2. \A q, r \in Pods : q # r /\ pods'[q].held # 0 => pods'[q].held # pods'[r].held
  BY DEF Locks
<1>3. QED
  BY <1>1, <1>2 DEF Locks

\* The steps of one pod, and what it has seen and holds after them.
LEMMA PodLocks ==
  ASSUME TypeOK, Locks, OneActive, NEW p \in Pods,
         Job(p) \/ Learn(p) \/ Poll(p) \/ PromoteFails(p) \/ Crash(p, pods[p].embedded)
                \/ Crash(p, release)
  PROVE  Locks'
<1>0. /\ pods \in [Pods -> Pod] /\ pods[p] \in Pod /\ Holds(pods[p]) /\ rows \in Seq(Row)
  BY DEF TypeOK, Locks
<1>1. \A q \in Pods \ {p} : pods'[q] = pods[q]
  BY <1>0 DEF Job, Promote, Poll, Start, Boot, Update, Lock, Insert, Swap, Learn, PollRead, PollWrite,
     PromoteFails, Crash
<1>2. ASSUME ActiveRows' = ActiveRows, DOMAIN rows' = DOMAIN rows,
             pods'[p].seen = 0 \/ pods'[p].seen \in DOMAIN rows, pods'[p].held = 0
      PROVE  Locks'
  BY <1>1, <1>2, LocksKept
<1>3. ASSUME Start(p) \/ (\E i \in 0 .. Len(rows) : Boot(p, i)) \/ Swap(p) \/ Learn(p) PROVE Locks'
  <2>1. pods[p].held = 0
    BY <1>0, <1>3 DEF Start, Boot, Swap, Learn, Running, Holds
  <2>2. /\ rows' = rows /\ pods'[p].seen = pods[p].seen /\ pods'[p].held = pods[p].held
    BY <1>0, <1>3 DEF Start, Boot, Swap, Learn, Pod
  <2>3. QED
    BY <1>0, <1>2, <2>1, <2>2 DEF Holds, ActiveRows
<1>4. ASSUME NEW i \in 0 .. Len(rows), Update(p, i) PROVE Locks'
  <2>1. pods[p].held = 0
    BY <1>0, <1>4 DEF Update, Running, Holds
  <2>2. rows' = rows /\ pods'[p].seen = i /\ pods'[p].held = pods[p].held
    BY <1>0, <1>4 DEF Update, Pod
  <2>3. i = 0 \/ i \in DOMAIN rows
    BY <1>0
  <2>4. QED
    BY <1>2, <2>1, <2>2, <2>3 DEF ActiveRows
<1>5. CASE Lock(p)
  <2>1. PICK row : row = pods[p].seen
    OBVIOUS
  <2>2. PICK held : held = IF row \in ActiveRows THEN row ELSE 0
    OBVIOUS
  <2>3. /\ row # 0 => \A q \in Pods : pods[q].held # row
        /\ pods' = [pods EXCEPT ![p].pc = "insert", ![p].held = held]
        /\ rows' = rows
    BY <1>5, <2>1, <2>2 DEF Lock
  <2>4. pods'[p].pc = "insert" /\ pods'[p].held = held /\ pods'[p].seen = row
    BY <1>0, <2>1, <2>3 DEF Pod
  <2>5. row = 0 \/ row \in DOMAIN rows
    BY <1>0, <2>1 DEF Holds
  <2>6. held # 0 => held = row /\ held \in ActiveRows
    BY <2>2
  <2>7. QED
    BY <1>1, <2>3, <2>4, <2>5, <2>6, LocksKept DEF ActiveRows
<1>6. CASE Insert(p) /\ ActiveRows \subseteq {pods[p].held}
  <2>1. /\ rows' = Append(Deactivate(pods[p].held), [table |-> pods[p].plan, active |-> TRUE])
        /\ pods' = [pods EXCEPT ![p].pc = "swap", ![p].held = 0, ![p].seen = 0]
    BY <1>6 DEF Insert
  <2>2. pods[p].plan \in Table
    BY <1>0 DEF Pod
  <2>3. rows' \in Seq(Row) /\ Len(rows') = Len(rows) + 1
    BY <1>6, <2>1, <2>2, Committed
  <2>4. DOMAIN rows \subseteq DOMAIN rows'
    BY <1>0, <2>3
  <2>5. pods'[p].held = 0 /\ pods'[p].seen = 0
    BY <1>0, <2>1 DEF Pod
  <2>6. \A q \in Pods \ {p} : pods[q].held = 0
    BY <1>6 DEF Locks, Holds
  <2>7. \A q \in Pods : pods'[q].held = 0 /\ (pods'[q].seen = 0 \/ pods'[q].seen \in DOMAIN rows')
    BY <1>1, <2>4, <2>5, <2>6 DEF Locks, Holds
  <2>8. QED
    BY <2>7 DEF Locks, Holds
<1>7. CASE pods' = [pods EXCEPT ![p] = Failed(@)] /\ rows' = rows
  <2>1. pods'[p] = Failed(pods[p])
    BY <1>0, <1>7
  <2>2. Failed(pods[p]).seen = 0 /\ Failed(pods[p]).held = 0
    <3>1. CASE pods[p].serving
      BY <1>0, <3>1 DEF Failed, Pod
    <3>2. CASE ~pods[p].serving
      BY <3>2 DEF Failed, Down
    <3>3. QED
      BY <3>1, <3>2
  <2>3. QED
    BY <1>2, <1>7, <2>1, <2>2 DEF ActiveRows
<1>8. CASE Crash(p, pods[p].embedded) \/ Crash(p, release)
  <2>1. pods'[p].seen = 0 /\ pods'[p].held = 0 /\ rows' = rows
    BY <1>0, <1>8 DEF Crash, Down
  <2>2. QED
    BY <1>2, <2>1 DEF ActiveRows
<1>9. CASE Poll(p)
  <2>1. /\ pods'[p].pc = pods[p].pc /\ pods'[p].seen = pods[p].seen
        /\ pods'[p].held = pods[p].held /\ rows' = rows
    BY <1>0, <1>9 DEF Poll, PollRead, PollWrite, Pod
  <2>2. \A q \in Pods : pods'[q].pc = pods[q].pc /\ pods'[q].seen = pods[q].seen
                                                 /\ pods'[q].held = pods[q].held
    BY <1>1, <2>1
  <2>3. QED
    BY <2>1, <2>2 DEF Locks, Holds, ActiveRows
<1>10. CASE Insert(p) \/ PromoteFails(p)
  BY <1>6, <1>7, <1>10 DEF Insert, PromoteFails
<1>11. QED
  BY <1>3, <1>4, <1>5, <1>8, <1>9, <1>10 DEF Job, Promote

LEMMA LocksStep == TypeOK /\ Locks /\ OneActive /\ [Next]_vars => Locks'
<1> SUFFICES ASSUME TypeOK, Locks, OneActive, [Next]_vars PROVE Locks'
  OBVIOUS
<1>1. CASE rows' = rows /\ pods' = pods
  BY <1>1 DEF Locks, Holds, ActiveRows
<1>2. ASSUME NEW i \in DOMAIN rows, Flip(i) PROVE Locks'
  <2>1. DOMAIN rows' = DOMAIN rows /\ pods' = pods /\ \A p \in Pods : pods[p].held = 0
    BY <1>2, Flipped DEF Flip
  <2>2. QED
    BY <2>1 DEF Locks, Holds
<1>3. QED
  BY <1>1, <1>2, PodLocks DEF Next, vars, Release

\* The insert that commits finds active exactly what its UPDATE saw.
LEMMA CommitSaw ==
  ASSUME TypeOK, Locks, OneActive, NEW p \in Pods, Insert(p), ActiveRows \subseteq {pods[p].held}
  PROVE  ActiveRows = {pods[p].seen} \ {0}
<1>0. Holds(pods[p]) /\ rows \in Seq(Row) /\ 0 \notin ActiveRows
  BY DEF Locks, TypeOK, ActiveRows
<1>1. CASE pods[p].held = 0
  <2>1. ActiveRows = {}
    BY <1>0, <1>1
  <2>2. rows = << >>
    BY <2>1 DEF OneActive
  <2>3. pods[p].seen = 0
    BY <1>0, <2>2 DEF Holds
  <2>4. QED
    BY <2>1, <2>3
<1>2. CASE pods[p].held # 0
  BY <1>0, <1>2 DEF Holds
<1>3. QED
  BY <1>1, <1>2

LEMMA PromotionStep ==
  ASSUME TypeOK, Locks, OneActive, [Next]_vars, NEW p \in Pods,
         Running(p, "insert"), pods'[p].pc = "swap"
  PROVE  ActiveRows = {pods[p].seen} \ {0}
<1>0. pods \in [Pods -> Pod] /\ pods[p] \in Pod /\ pods[p].pc = "insert"
  BY DEF TypeOK, Running
<1>1. ~(PromoteFails(p) \/ Crash(p, pods[p].embedded) \/ Crash(p, release))
  <2>1. Failed(pods[p]).pc # "swap"
    BY <1>0 DEF Failed, Down, Pod
  <2>2. \A table : Down(table).pc # "swap"
    BY DEF Down
  <2>3. QED
    BY <1>0, <2>1, <2>2 DEF PromoteFails, Crash
<1>2. ~Poll(p)
  BY <1>0 DEF Poll, PollRead, PollWrite, Pod
<1>3. ASSUME NEW q \in Pods, q # p, Job(q) \/ Learn(q) \/ Poll(q) \/ PromoteFails(q)
                                         \/ Crash(q, pods[q].embedded) \/ Crash(q, release)
      PROVE  FALSE
  <2>1. pods'[p] = pods[p]
    BY <1>0, <1>3 DEF Job, Promote, Poll, Start, Boot, Update, Lock, Insert, Swap, Learn, PollRead,
       PollWrite, PromoteFails, Crash
  <2>2. QED
    BY <1>0, <2>1
<1>4. pods' # pods
  BY <1>0
<1>5. Insert(p)
  BY <1>0, <1>1, <1>2, <1>3, <1>4 DEF Next, vars, Job, Promote, Start, Boot, Update, Lock, Swap,
     Learn, Release, Flip, Running
<1>6. ActiveRows \subseteq {pods[p].held}
  <2>1. Failed(pods[p]).pc # "swap"
    BY <1>0 DEF Failed, Down, Pod
  <2>2. QED
    BY <1>0, <1>5, <2>1 DEF Insert
<1>7. QED
  BY <1>5, <1>6, CommitSaw

\* Of two concurrent promotions none buries what the other made active: the one
\* that commits replaces what it saw.
THEOREM PromotionsAreSerial == Spec => PromotionsSerialize
<1>1. Init => Locks /\ OneActive
  <2> SUFFICES ASSUME Init PROVE Locks /\ OneActive
    OBVIOUS
  <2>1. \A p \in Pods : pods[p].seen = 0 /\ pods[p].held = 0
    BY DEF Init, Down
  <2>2. QED
    BY <2>1 DEF Init, Locks, Holds, OneActive
<1>2. TypeOK /\ Locks /\ OneActive /\ [Next]_vars =>
        [\A p \in Pods : Running(p, "insert") /\ pods'[p].pc = "swap" =>
           ActiveRows = {pods[p].seen} \ {0}]_vars
  BY PromotionStep
<1>3. QED
  BY <1>1, <1>2, InitType, NextType, OneActiveStep, LocksStep, PTL DEF Spec, PromotionsSerialize

=============================================================================
