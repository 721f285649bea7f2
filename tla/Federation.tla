----------------------------- MODULE Federation -----------------------------
(***************************************************************************)
(* federation.rs: author verdicts, exchanged through one JSONL file for    *)
(* each installation, and the corroboration that makes them bind.          *)
(*                                                                         *)
(* exchange::publish reads the file, appends in memory and writes the      *)
(* whole back with fs::write, which truncates before it writes.  An        *)
(* installation may publish from several tasks at once, and a process may  *)
(* die in between.  exchange::poll reads one file after another.  All      *)
(* envelopes are signed by who sends them; a record is the author verdict  *)
(* in it.                                                                  *)
(***************************************************************************)
EXTENDS Integers, Sequences, FiniteSets, SequencesExt

CONSTANTS
  Installations,    \* installation ids
  Owner,            \* installation_owner of each
  Verdicts,         \* records: [installation, author, strength, expires]
  Author,           \* the author the subscriber asks about
  CORROBORATION_N,  \* independent owners that must agree: 3
  Publishers,       \* tasks that call publish
  MaxPublishes,     \* bound: calls of publish
  MaxTime,          \* bound: the clock
  MaxFaults         \* bound: publishers that die, reads that fail

ASSUME FederationAssumption ==
  /\ Verdicts \subseteq [installation : Installations, author : STRING, strength : Nat, expires : Nat]
  /\ CORROBORATION_N \in Nat \ {0}
  /\ MaxPublishes \in Nat /\ MaxTime \in Nat /\ MaxFaults \in Nat

VARIABLES
  files,      \* the directory: each installation's lines
  tasks,      \* the publishers
  poll,       \* the subscriber's poll
  binding,    \* the strength that its last complete poll gave the author
  now,        \* the clock
  called,     \* the verdicts that publish was ever called with
  returned,   \* those whose publish returned Ok
  disturbed,  \* installations whose publishers ever overlapped or died
  calls, faults

vars == <<files, tasks, poll, binding, now, called, returned, disturbed, calls, faults>>

\* What is left of a line that another write cut through, and the end of a
\* file whose writer died within a line: that one has no line feed.
Fragment == [installation |-> "fragment"]
Torn     == [installation |-> "torn"]

Lines == Verdicts \cup {Fragment, Torn}

\* Strengths are summed and averaged over owners: a strength of sum / owners.
NotBinding == [sum |-> 0, owners |-> 0, at |-> 0, from |-> << >>]

Idle == [pc |-> "idle"]

TypeOK ==
  /\ files \in [Installations -> Seq(Lines)]
  /\ \A p \in Publishers :
       \/ tasks[p] = Idle
       \/ tasks[p].pc \in {"read", "truncate", "write"} /\ tasks[p].verdict \in Verdicts
                                                       /\ tasks[p].existing \in Seq(Lines)
  /\ poll.left \subseteq Installations /\ poll.out \in Seq(Verdicts)
  /\ binding.sum \in Nat /\ binding.owners \in Nat /\ binding.at \in 0 .. MaxTime
  /\ now \in 0 .. MaxTime
  /\ returned \subseteq called /\ called \subseteq Verdicts
  /\ disturbed \subseteq Installations
  /\ calls \in 0 .. MaxPublishes /\ faults \in 0 .. MaxFaults

Init ==
  /\ files = [i \in Installations |-> << >>]
  /\ tasks = [p \in Publishers |-> Idle]
  /\ poll = [left |-> {}, out |-> << >>]
  /\ binding = NotBinding
  /\ now = 0
  /\ called = {} /\ returned = {} /\ disturbed = {}
  /\ calls = 0 /\ faults = 0

-----------------------------------------------------------------------------
(* exchange::publish *)

Publishing(i) == {p \in Publishers : tasks[p] # Idle /\ tasks[p].verdict.installation = i}

Call(p, verdict) ==
  /\ tasks[p] = Idle
  /\ calls < MaxPublishes
  /\ calls' = calls + 1
  /\ tasks' = [tasks EXCEPT ![p] = [pc |-> "read", verdict |-> verdict, existing |-> << >>]]
  /\ called' = called \cup {verdict}
  /\ disturbed' = IF Publishing(verdict.installation) = {} THEN disturbed
                  ELSE disturbed \cup {verdict.installation}
  /\ UNCHANGED <<files, poll, binding, now, returned, faults>>

\* A mutant: the file is replaced by the new line.
ReadNothing(p) ==
  /\ tasks[p].pc = "read"
  /\ tasks' = [tasks EXCEPT ![p].pc = "truncate", ![p].existing = <<tasks[p].verdict>>]
  /\ UNCHANGED <<files, poll, binding, now, called, returned, disturbed, calls, faults>>

\* The line is pushed to what was read: to a torn end it is glued.
Pushed(existing, line) ==
  IF existing # << >> /\ Last(existing) = Torn THEN Append(Front(existing), Fragment)
  ELSE Append(existing, line)

Read(p) ==
  /\ tasks[p].pc = "read"
  /\ tasks' = [tasks EXCEPT ![p].pc = "truncate",
                            ![p].existing = Pushed(files[tasks[p].verdict.installation], tasks[p].verdict)]
  /\ UNCHANGED <<files, poll, binding, now, called, returned, disturbed, calls, faults>>

\* read_to_string fails: unwrap_or_default goes on as if there were no file.
ReadFails(p) ==
  /\ tasks[p].pc = "read"
  /\ faults < MaxFaults
  /\ faults' = faults + 1
  /\ tasks' = [tasks EXCEPT ![p].pc = "truncate", ![p].existing = <<tasks[p].verdict>>]
  /\ disturbed' = disturbed \cup {tasks[p].verdict.installation}
  /\ UNCHANGED <<files, poll, binding, now, called, returned, calls>>

\* fs::write opens the file, which empties it ...
Truncate(p) ==
  /\ tasks[p].pc = "truncate"
  /\ tasks' = [tasks EXCEPT ![p].pc = "write"]
  /\ files' = [files EXCEPT ![tasks[p].verdict.installation] = << >>]
  /\ UNCHANGED <<poll, binding, now, called, returned, disturbed, calls, faults>>

\* ... and writes from its beginning: what another task wrote meanwhile stays
\* where it is longer, beginning within a line.
Written(new, old) ==
  LET rest(n) == SubSeq(old, n, Len(old))
  IN  IF new = << >> THEN {old}
      ELSE IF Len(old) < Len(new) THEN {new}
      ELSE IF Last(new) = Torn THEN {Front(new) \o <<Fragment>> \o rest(Len(new) + 1)}
      ELSE {new \o rest(Len(new) + 1), new \o <<Fragment>> \o rest(Len(new) + 2)}

Write(p) ==
  /\ tasks[p].pc = "write"
  /\ LET i == tasks[p].verdict.installation
     IN  \E content \in Written(tasks[p].existing, files[i]) : files' = [files EXCEPT ![i] = content]
  /\ tasks' = [tasks EXCEPT ![p] = Idle]
  /\ returned' = returned \cup {tasks[p].verdict}
  /\ UNCHANGED <<poll, binding, now, called, disturbed, calls, faults>>

\* What a write can have done when its process dies: some lines, and perhaps
\* a part of the next.
Begun(content) ==
  {SubSeq(content, 1, n) : n \in 0 .. Len(content)} \cup
  {Append(SubSeq(content, 1, n), Torn) : n \in 0 .. Len(content) - 1}

Die(p) ==
  /\ tasks[p] # Idle
  /\ faults < MaxFaults
  /\ faults' = faults + 1
  /\ tasks' = [tasks EXCEPT ![p] = Idle]
  /\ LET i == tasks[p].verdict.installation
     IN  /\ disturbed' = disturbed \cup {i}
         /\ \E content \in IF tasks[p].pc # "write" THEN {files[i]}
                            ELSE UNION {Written(begun, files[i]) : begun \in Begun(tasks[p].existing)} :
              files' = [files EXCEPT ![i] = content]
  /\ UNCHANGED <<poll, binding, now, called, returned, calls>>

-----------------------------------------------------------------------------
(* corroborated_strength *)

Counts(v, at) == v.author = Author /\ v.expires > at

\* entry(o).or_insert(0.0), raised to a greater strength
Raised(by_owner, o, strength) ==
  [k \in DOMAIN by_owner \cup {o} |->
     IF k # o THEN by_owner[k]
     ELSE IF o \in DOMAIN by_owner /\ by_owner[o] > strength THEN by_owner[o] ELSE strength]

\* A mutant: one verdict for each installation.
ByInstallation(verdicts, at) ==
  FoldLeft(LAMBDA by_owner, v : IF Counts(v, at) THEN Raised(by_owner, v.installation, v.strength) ELSE by_owner,
           << >>, verdicts)

\* A mutant: an owner's last verdict counts.
ByOwnerLast(verdicts, at) ==
  FoldLeft(LAMBDA by_owner, v : IF Counts(v, at) THEN (Owner[v.installation] :> v.strength) @@ by_owner ELSE by_owner,
           << >>, verdicts)

\* The strongest unexpired verdict on the author of each owner, in one pass.
ByOwner(verdicts, at) ==
  FoldLeft(LAMBDA by_owner, v : IF Counts(v, at) THEN Raised(by_owner, Owner[v.installation], v.strength) ELSE by_owner,
           << >>, verdicts)

CorroboratedStrength(verdicts, at) ==
  LET by_owner == ByOwner(verdicts, at)
      owners   == Cardinality(DOMAIN by_owner)
      total    == SumFunction(by_owner)
  IN  IF owners < CORROBORATION_N THEN [sum |-> 0, owners |-> 0, at |-> at, from |-> verdicts]
      ELSE [sum |-> total, owners |-> owners, at |-> at, from |-> verdicts]

-----------------------------------------------------------------------------
(* exchange::poll, and what the subscriber makes of it *)

\* A mutant: a damaged line is taken.
TakesAny(line) == TRUE

Parses(line) == line \notin {Fragment, Torn}

\* The lines of one more file that parse are pushed to those of the others.
Parsed(out, file) == FoldLeft(LAMBDA lines, line : IF Parses(line) THEN Append(lines, line) ELSE lines, out, file)

StartPoll ==
  /\ poll.left = {}
  /\ poll' = [left |-> Installations, out |-> << >>]
  /\ UNCHANGED <<files, tasks, binding, now, called, returned, disturbed, calls, faults>>

\* One file is read; after the last the strength is computed.
PollFile(i) ==
  /\ i \in poll.left
  /\ LET out == Parsed(poll.out, files[i])
     IN  /\ poll' = [left |-> poll.left \ {i}, out |-> IF poll.left = {i} THEN << >> ELSE out]
         /\ binding' = IF poll.left = {i} THEN CorroboratedStrength(out, now) ELSE binding
  /\ UNCHANGED <<files, tasks, now, called, returned, disturbed, calls, faults>>

\* An error ends the poll; the strength stays what it was.
PollFails ==
  /\ poll.left # {}
  /\ faults < MaxFaults
  /\ faults' = faults + 1
  /\ poll' = [left |-> {}, out |-> << >>]
  /\ UNCHANGED <<files, tasks, binding, now, called, returned, disturbed, calls>>

Tick ==
  /\ now < MaxTime
  /\ now' = now + 1
  /\ UNCHANGED <<files, tasks, poll, binding, called, returned, disturbed, calls, faults>>

Next ==
  \/ \E p \in Publishers : (\E v \in Verdicts : Call(p, v)) \/ Read(p) \/ ReadFails(p) \/ Truncate(p) \/ Write(p) \/ Die(p)
  \/ StartPoll \/ PollFails
  \/ \E i \in Installations : PollFile(i)
  \/ Tick

Spec == Init /\ [][Next]_vars

-----------------------------------------------------------------------------
(* Properties *)

Against(at) == {v \in called : Counts(v, at)}

\* An author's verdict binds only when enough independent owners published
\* one that had not expired, whatever the interleaving of publishers and
\* polls, torn files and crashes: stacked verdicts of one owner count once.
BindsOnlyCorroborated ==
  binding.owners > 0 =>
    Cardinality({Owner[v.installation] : v \in Against(binding.at)}) >= CORROBORATION_N

\* The strength is a matter of which verdicts were polled, not of the order of
\* files and lines: the sum over owners of the strongest verdict of each.
StrengthOfTheSet ==
  binding.owners > 0 =>
    LET polled == {v \in ToSet(binding.from) : Counts(v, binding.at)}
        owners == {Owner[v.installation] : v \in polled}
        of(o)  == {v.strength : v \in {w \in polled : Owner[w.installation] = o}}
    IN  /\ binding.owners = Cardinality(owners)
        /\ binding.sum = SumFunction([o \in owners |-> Max(of(o))])

\* An installation that publishes one record at a time, never dies in the
\* middle and can read its file keeps every record it published.
SerialPublishesKept ==
  \A i \in Installations \ disturbed :
    Publishing(i) = {} => {v \in returned : v.installation = i} = ToSet(files[i])
=============================================================================
