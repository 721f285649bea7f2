------------------------------ MODULE Weights ------------------------------
(***************************************************************************)
(* The life of the weight tables: the versions in the database             *)
(* (weights_versions, of which weights_one_active lets one be active), the *)
(* table each running pod scores with, and what replaces them: a pod's     *)
(* start, its nightly learner, its minutely reload, a deploy with a newly  *)
(* fitted embedded table, an operator's rollback.                          *)
(*                                                                         *)
(* A table is the number of the fit that made it, counting all fits ever   *)
(* made, and whether its meta says when: tables that the learner fits      *)
(* carry no meta.  The database runs at READ COMMITTED: an UPDATE works on *)
(* the rows its snapshot saw and waits for the row locks of others.        *)
(***************************************************************************)
EXTENDS Integers, Sequences

CONSTANTS
  Pods,      \* the replicas of the service
  MaxFits,   \* bound: tables ever fitted, the first release's included
  MaxFlips,  \* bound: rollbacks by the operator
  MaxFaults  \* bound: crashes, redeploys and failed database calls

ASSUME PodsAssumption == Pods # {}
ASSUME WeightsBounds == MaxFits \in Nat \ {0} /\ MaxFlips \in Nat /\ MaxFaults \in Nat

VARIABLES
  rows,      \* weights_versions, committed, oldest first
  pods,      \* the replicas
  release,   \* the embedded table of the newest release
  fits,      \* fits made so far
  flips,     \* rollbacks so far
  faults     \* faults so far

vars == <<rows, pods, release, fits, flips, faults>>

Table == [born : Nat, dated : BOOLEAN]
NoTable == [born |-> 0, dated |-> FALSE]

Embedded(n) == [born |-> n, dated |-> TRUE]

Learned(n) == [born |-> n, dated |-> FALSE]

Row == [table : Table, active : BOOLEAN]

\* Where the boot or the learner of a pod is.  promote_weights is the steps
\* update, lock and insert; swap writes the memory after the commit.
Jobs == {"down", "boot", "up", "update", "lock", "insert", "swap"}

Pod == [pc       : Jobs,
        serving  : BOOLEAN,    \* main has reached axum::serve: learner and reload run
        embedded : Table,      \* what is compiled into its binary
        mem      : Table,      \* AppState.weights
        plan     : Table,      \* the table it is promoting
        seen     : Nat,        \* the active row of the UPDATE's snapshot; 0: none
        held     : Nat,        \* the row it has deactivated and locked; 0: none
        polled   : Table]      \* what the reload has read; NoTable: nothing

TypeOK ==
  /\ rows \in Seq(Row)
  /\ pods \in [Pods -> Pod]
  /\ release \in Table
  /\ fits \in Nat /\ flips \in Nat /\ faults \in Nat

Down(embedded) ==
  [pc |-> "down", serving |-> FALSE, embedded |-> embedded, mem |-> NoTable, plan |-> NoTable,
   seen |-> 0, held |-> 0, polled |-> NoTable]

Init ==
  /\ rows = << >>
  /\ release = Embedded(1)
  /\ pods = [p \in Pods |-> Down(release)]
  /\ fits = 1 /\ flips = 0 /\ faults = 0

-----------------------------------------------------------------------------
(* Helpers *)

\* newer_fit_than: an undated table is never newer, and any dated one is newer
\* than an undated one.
NewerFitThan(a, b) == a.dated /\ (b.dated => a.born > b.born)

ActiveRows == {i \in DOMAIN rows : rows[i].active}

\* What SELECT ... WHERE active finds: a committed active row, or 0.
FindsActive(i) == i \in ActiveRows \/ (i = 0 /\ ActiveRows = {})

Running(p, pc) == pods[p].pc = pc

Fault == faults < MaxFaults /\ faults' = faults + 1

\* A promotion that failed: at startup main returns the error and the process
\* exits; the learner logs it and waits for the next night.
Failed(pod) ==
  IF pod.serving THEN [pod EXCEPT !.pc = "up", !.plan = NoTable, !.seen = 0, !.held = 0]
  ELSE Down(pod.embedded)

-----------------------------------------------------------------------------
(* Startup *)

Start(p) ==
  /\ Running(p, "down")
  /\ pods' = [pods EXCEPT ![p].pc = "boot"]
  /\ UNCHANGED <<rows, release, fits, flips, faults>>

\* The active row is loaded, unless there is none or the embedded table is a
\* newer fit: then the embedded table is promoted.
Boot(p, i) ==
  /\ Running(p, "boot") /\ FindsActive(i)
  /\ pods' = IF i = 0 \/ NewerFitThan(pods[p].embedded, rows[i].table)
             THEN [pods EXCEPT ![p].pc = "update", ![p].plan = pods[p].embedded]
             ELSE [pods EXCEPT ![p].pc = "up", ![p].serving = TRUE, ![p].mem = rows[i].table]
  /\ UNCHANGED <<rows, release, fits, flips, faults>>

-----------------------------------------------------------------------------
(* The learner *)

\* A mutant: the candidate goes live before it is promoted.
LearnLive(p) ==
  /\ Running(p, "up")
  /\ fits < MaxFits
  /\ fits' = fits + 1
  /\ pods' = [pods EXCEPT ![p].pc = "update", ![p].plan = Learned(fits + 1),
                          ![p].mem = Learned(fits + 1)]
  /\ UNCHANGED <<rows, release, flips, faults>>

\* learn fits a candidate anchored to the table in memory; when a guardrail
\* refuses it nothing happens.
Learn(p) ==
  /\ Running(p, "up")
  /\ fits < MaxFits
  /\ fits' = fits + 1
  /\ pods' = [pods EXCEPT ![p].pc = "update", ![p].plan = Learned(fits + 1)]
  /\ UNCHANGED <<rows, release, flips, faults>>

-----------------------------------------------------------------------------
(* promote_weights: one transaction *)

\* UPDATE ... SET active = FALSE WHERE active takes its snapshot.
Update(p, i) ==
  /\ Running(p, "update") /\ FindsActive(i)
  /\ pods' = [pods EXCEPT ![p].pc = "lock", ![p].seen = i]
  /\ UNCHANGED <<rows, release, fits, flips, faults>>

\* It waits for the lock of the row it saw, and skips the row when it is no
\* longer active.
Lock(p) ==
  LET row == pods[p].seen
  IN  /\ Running(p, "lock")
      /\ row # 0 => \A q \in Pods : pods[q].held # row
      /\ pods' = [pods EXCEPT ![p].pc = "insert",
                              ![p].held = IF row \in ActiveRows THEN row ELSE 0]
      /\ UNCHANGED <<rows, release, fits, flips, faults>>

Deactivate(i) == [j \in DOMAIN rows |-> IF j = i THEN [rows[j] EXCEPT !.active = FALSE] ELSE rows[j]]

\* Mutants: without the unique index an insert never fails; without a
\* transaction the rows are deactivated at once.
InsertUnchecked(p) ==
  /\ Running(p, "insert")
  /\ rows' = Append(Deactivate(pods[p].held), [table |-> pods[p].plan, active |-> TRUE])
  /\ pods' = [pods EXCEPT ![p].pc = "swap", ![p].held = 0, ![p].seen = 0]
  /\ UNCHANGED <<release, fits, flips, faults>>

InsertOverAll(p) ==
  /\ Running(p, "insert")
  /\ rows' = Append([j \in DOMAIN rows |-> [rows[j] EXCEPT !.active = FALSE]],
                    [table |-> pods[p].plan, active |-> TRUE])
  /\ pods' = [pods EXCEPT ![p].pc = "swap", ![p].held = 0, ![p].seen = 0]
  /\ UNCHANGED <<release, fits, flips, faults>>

\* INSERT and COMMIT.  weights_one_active refuses a second active row, which
\* aborts the transaction and undoes the UPDATE.
Insert(p) ==
  /\ Running(p, "insert")
  /\ IF ActiveRows \subseteq {pods[p].held}
     THEN /\ rows' = Append(Deactivate(pods[p].held), [table |-> pods[p].plan, active |-> TRUE])
          /\ pods' = [pods EXCEPT ![p].pc = "swap", ![p].held = 0, ![p].seen = 0]
     ELSE /\ pods' = [pods EXCEPT ![p] = Failed(@)]
          /\ UNCHANGED rows
  /\ UNCHANGED <<release, fits, flips, faults>>

\* After the commit the promoted table goes live in this pod; at startup the
\* pod begins to serve.
Swap(p) ==
  /\ Running(p, "swap")
  /\ pods' = [pods EXCEPT ![p].pc = "up", ![p].serving = TRUE,
                          ![p].mem = pods[p].plan, ![p].plan = NoTable]
  /\ UNCHANGED <<rows, release, fits, flips, faults>>

-----------------------------------------------------------------------------
(* Hot reload: a task of its own beside the learner *)

PollRead(p, i) ==
  /\ pods[p].serving /\ pods[p].polled = NoTable
  /\ i \in ActiveRows
  /\ pods' = [pods EXCEPT ![p].polled = rows[i].table]
  /\ UNCHANGED <<rows, release, fits, flips, faults>>

\* A mutant: only a newer fit is swapped in.
PollWriteNewer(p) ==
  /\ pods[p].polled # NoTable
  /\ pods' = [pods EXCEPT ![p].polled = NoTable,
                          ![p].mem = IF NewerFitThan(pods[p].polled, @) THEN pods[p].polled ELSE @]
  /\ UNCHANGED <<rows, release, fits, flips, faults>>

\* The table read a moment ago replaces the one in memory when they differ.
PollWrite(p) ==
  /\ pods[p].polled # NoTable
  /\ pods' = [pods EXCEPT ![p].mem = pods[p].polled, ![p].polled = NoTable]
  /\ UNCHANGED <<rows, release, fits, flips, faults>>

-----------------------------------------------------------------------------
(* Deploys, faults and the operator *)

\* A release carries a table fitted offline, with its date.
Release ==
  /\ fits < MaxFits
  /\ fits' = fits + 1
  /\ release' = Embedded(fits + 1)
  /\ UNCHANGED <<rows, pods, flips, faults>>

\* A pod is killed, wherever it is, and comes back as the same binary or as
\* the newest release.  Its open transaction is rolled back.
Crash(p, embedded) ==
  /\ Fault
  /\ pods' = [pods EXCEPT ![p] = Down(embedded)]
  /\ UNCHANGED <<rows, release, fits, flips>>

\* A database call of a promotion fails, or its answer is lost: after the
\* commit (swap) the row stays.
PromoteFails(p) ==
  /\ pods[p].pc \in {"update", "lock", "insert", "swap"}
  /\ Fault
  /\ pods' = [pods EXCEPT ![p] = Failed(@)]
  /\ UNCHANGED <<rows, release, fits, flips>>

\* The operator rolls back: another version becomes the active one.
Flip(i) ==
  /\ flips < MaxFlips /\ flips' = flips + 1
  /\ i \notin ActiveRows
  /\ \A p \in Pods : pods[p].held = 0
  /\ rows' = [j \in DOMAIN rows |-> [rows[j] EXCEPT !.active = (j = i)]]
  /\ UNCHANGED <<pods, release, fits, faults>>

-----------------------------------------------------------------------------

Promote(p) == (\E i \in 0 .. Len(rows) : Update(p, i)) \/ Lock(p) \/ Insert(p) \/ Swap(p)
Job(p)     == Start(p) \/ (\E i \in 0 .. Len(rows) : Boot(p, i)) \/ Promote(p)
Poll(p)    == (\E i \in DOMAIN rows : PollRead(p, i)) \/ PollWrite(p)

Next ==
  \/ \E p \in Pods : Job(p) \/ Learn(p) \/ Poll(p)
  \/ Release
  \/ \E p \in Pods : PromoteFails(p) \/ Crash(p, pods[p].embedded) \/ Crash(p, release)
  \/ \E i \in DOMAIN rows : Flip(i)

Spec == Init /\ [][Next]_vars

\* The runtime polls both tasks of every pod, the database answers and the
\* orchestrator restarts a pod that exited.  Nobody has to learn or release.
Fairness == \A p \in Pods : WF_vars(Job(p)) /\ WF_vars(Poll(p))

FairSpec == Spec /\ Fairness
-----------------------------------------------------------------------------
(* Properties *)

\* From the first promotion on exactly one version is active, whichever pods
\* start and learn at the same time and wherever they die.
OneActive == rows # << >> => \E i \in DOMAIN rows : ActiveRows = {i}

\* A promotion that commits replaces the version its UPDATE saw: of two
\* concurrent promotions the later one fails, and never buries the other.
PromotionsSerialize ==
  [][\A p \in Pods : Running(p, "insert") /\ pods'[p].pc = "swap" =>
       ActiveRows = {pods[p].seen} \ {0}]_vars

\* "Weights never mutate live": a pod scores only with tables that are
\* versions in the database.
ServesPromoted ==
  \A p \in Pods : pods[p].serving => \E i \in DOMAIN rows : rows[i].table = pods[p].mem

\* What a promotion in flight knows: the row it deactivated is the one its
\* snapshot saw, still active to everybody else, and locked against the others.
Holds(pod) ==
  /\ pod.seen = 0 \/ pod.seen \in DOMAIN rows
  /\ pod.held # 0 => pod.pc = "insert" /\ pod.held = pod.seen /\ pod.held \in ActiveRows

Locks ==
  /\ \A p \in Pods : Holds(pods[p])
  /\ \A p, q \in Pods : p # q /\ pods[p].held # 0 => pods[p].held # pods[q].held

\* A table in a pod's memory, or on its way there, is a version: the reload
\* read it, or the promotion about to swap it in has committed it.
IsVersion(table) == \E i \in DOMAIN rows : rows[i].table = table

Sourced(pod) ==
  /\ pod.serving => IsVersion(pod.mem)
  /\ pod.polled # NoTable => IsVersion(pod.polled)
  /\ pod.pc = "swap" => IsVersion(pod.plan)

MemorySources == \A p \in Pods : Sourced(pods[p])

\* "The active row is the record and reaches running pods without a restart":
\* when promotions, rollbacks and faults stop, every pod comes to serve the
\* active table and stays with it, whatever reload, learner and start left in
\* its memory.
Converges ==
  <>[](\A p \in Pods : pods[p].serving /\ \E i \in ActiveRows : rows[i].table = pods[p].mem)

\* "An older or equal embedded fit defers to the database" (design.md): what a
\* starting pod promotes replaces only tables that were fitted before it.
EmbeddedDefers ==
  [][\A p \in Pods : ~pods[p].serving /\ Running(p, "insert") /\ pods'[p].pc = "swap" =>
       \A i \in ActiveRows : rows[i].table.born < pods[p].plan.born]_vars
=============================================================================
