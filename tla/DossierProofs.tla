---------------------------- MODULE DossierProofs ----------------------------
(***************************************************************************)
(* The shared dossier, for any number of repositories, handlers, pull      *)
(* requests and deeds, any TTL and any page.                               *)
(***************************************************************************)
EXTENDS Dossier, FiniteSetTheorems, TLAPS

USE DossierAssumption

-----------------------------------------------------------------------------
(* Types *)

LEMMA DomainOfPrs ==
  ASSUME TypeOK
  PROVE  /\ Len(prs) \in Nat /\ DOMAIN prs = 1 .. Len(prs) /\ DOMAIN prs \subseteq 1 .. MaxPrs
         /\ \A i \in DOMAIN prs : prs[i] \in Pr
BY DEF TypeOK

\* What parse_dossier returns is a dossier.
LEMMA ParsedFacts ==
  ASSUME TypeOK, NEW at \in 0 .. MaxTime
  PROVE  ParseDossier(at) \in Facts
<1> DEFINE opened == {i \in Told(at) : prs[i].state = "open"}
<1>1. Told(at) \subseteq 1 .. Len(prs) /\ Told(at) \in SUBSET (1 .. MaxPrs)
  BY DomainOfPrs DEF Told
<1>2. \A i \in Told(at) : PriorOf(prs[i]) \in PriorPr
  <2>1. ASSUME NEW i \in Told(at) PROVE PriorOf(prs[i]) \in PriorPr
    <3>1. prs[i] \in Pr
      BY <1>1, DomainOfPrs
    <3>2. FollowedUp(prs[i]) \in BOOLEAN
      BY DEF FollowedUp
    <3>3. prs[i].spam \in BOOLEAN /\ prs[i].repo \in Repos
      BY <3>1 DEF Pr
    <3>4. QED
      BY <3>2, <3>3 DEF PriorOf, PriorPr
  <2>2. QED
    BY <2>1
<1>3. [i \in Told(at) |-> PriorOf(prs[i])] \in [Told(at) -> PriorPr]
  BY <1>2
<1>4. Cardinality(opened) \in Nat
  <2>1. IsFiniteSet(1 .. Len(prs)) /\ opened \subseteq 1 .. Len(prs)
    BY <1>1, DomainOfPrs, FS_Interval
  <2>2. QED
    BY <2>1, FS_Subset, FS_CardinalityType
<1>5. QED
  BY <1>1, <1>3, <1>4 DEF ParseDossier, Facts

\* Of a handler's record, by its place.
LEMMA TaskShape ==
  ASSUME TypeOK, NEW t \in Tasks
  PROVE  /\ tasks[t].pc \in {"get", "query"} => tasks[t] \in Asking
         /\ tasks[t].pc \in {"put", "judged"} => tasks[t] \in Holding
         /\ tasks[t].pc \in {"idle", "dead", "get", "query", "put", "judged"}
BY DEF TypeOK, Idle, Dead, Asking, Holding

\* The step of a handler that stays within the types.
LEMMA HandlerTypes ==
  ASSUME TypeOK, NEW t \in Tasks, NEW task,
         task \in {Idle, Dead} \cup Asking \cup Holding,
         task.pc \notin {"idle", "dead"} => task.pr \in DOMAIN prs,
         task.pc = "judged" => task.facts.repo \in Repos,
         tasks' = [tasks EXCEPT ![t] = task],
         row' \in Seq(Rows), Len(row') <= 1,
         UNCHANGED <<prs, now, deeds>>
  PROVE  TypeOK'
BY DEF TypeOK

LEMMA ProcessTypes ==
  ASSUME TypeOK, NEW t \in Tasks, tasks[t].pc \in {"get", "put"}, NEW facts \in Facts
  PROVE  /\ Process(tasks[t], facts) \in Holding
         /\ Process(tasks[t], facts).pc = "judged"
         /\ Process(tasks[t], facts).pr = tasks[t].pr
         /\ Process(tasks[t], facts).at = tasks[t].at
         /\ Process(tasks[t], facts).facts.prior = facts.prior
         /\ Process(tasks[t], facts).facts.repo = prs[tasks[t].pr].repo
         /\ Process(tasks[t], facts).facts.marker = (facts.marker \/ prs[tasks[t].pr].marker)
         /\ prs[tasks[t].pr].repo \in Repos
<1>1. tasks[t].pr \in DOMAIN prs /\ tasks[t].pr \in 1 .. MaxPrs /\ tasks[t].at \in 0 .. MaxTime
  BY TaskShape DEF TypeOK, Asking, Holding
<1>2. prs[tasks[t].pr].repo \in Repos /\ prs[tasks[t].pr].marker \in BOOLEAN
  BY <1>1, DomainOfPrs DEF Pr
<1>3. /\ Completed(tasks[t], facts) \in Facts
      /\ Completed(tasks[t], facts).prior = facts.prior
      /\ Completed(tasks[t], facts).repo = prs[tasks[t].pr].repo
      /\ Completed(tasks[t], facts).marker = (facts.marker \/ prs[tasks[t].pr].marker)
  BY <1>2 DEF Completed, Facts
<1>4. QED
  BY <1>1, <1>2, <1>3 DEF Process, With, Holding

LEMMA DeedTypes ==
  ASSUME TypeOK, NEW i \in DOMAIN prs, NEW changed \in Pr, Deed(i, changed)
  PROVE  TypeOK'
<1>1. prs' \in Seq(Pr) /\ Len(prs') = Len(prs) /\ DOMAIN prs' = DOMAIN prs
  BY DEF Deed, TypeOK
<1>2. deeds' \in 0 .. MaxDeeds
  BY DEF Deed, TypeOK
<1>3. QED
  BY <1>1, <1>2 DEF Deed, TypeOK

LEMMA WorldTypes ==
  ASSUME TypeOK, TheWorld
  PROVE  TypeOK'
<1>1. ASSUME NEW repo \in Repos, NEW marker \in BOOLEAN, Open(repo, marker) PROVE TypeOK'
  <2> DEFINE opened == [repo |-> repo, opened |-> now, state |-> "open", settled |-> now,
                        thread |-> << >>, reviews |-> {}, spam |-> FALSE, marker |-> marker]
  <2>1. << >> \in Seq([who : People, at : 0 .. MaxTime])
    OBVIOUS
  <2>2. opened \in Pr
    BY <2>1 DEF TypeOK, Pr
  <2>3. prs' \in Seq(Pr) /\ Len(prs') = Len(prs) + 1 /\ DOMAIN prs \subseteq DOMAIN prs'
    BY <1>1, <2>2 DEF Open, TypeOK
  <2>4. Len(prs') <= MaxPrs
    BY <1>1, <2>3 DEF Open, TypeOK
  <2>5. QED
    BY <1>1, <2>3, <2>4 DEF Open, TypeOK
<1>2. ASSUME NEW i \in DOMAIN prs, NEW who \in People, Comment(i, who) PROVE TypeOK'
  <2>1. prs[i] \in Pr /\ [who |-> who, at |-> now] \in [who : People, at : 0 .. MaxTime]
    BY DomainOfPrs DEF TypeOK
  <2>2. Append(prs[i].thread, [who |-> who, at |-> now]) \in Seq([who : People, at : 0 .. MaxTime])
    BY <2>1 DEF Pr
  <2>3. [prs[i] EXCEPT !.thread = Append(@, [who |-> who, at |-> now])] \in Pr
    BY <2>1, <2>2 DEF Pr
  <2>4. QED
    BY <1>2, <2>3, DeedTypes DEF Comment
<1>3. ASSUME NEW i \in DOMAIN prs, NEW who \in People, Review(i, who) PROVE TypeOK'
  <2>1. [prs[i] EXCEPT !.reviews = @ \cup {who}] \in Pr
    BY DomainOfPrs DEF Pr
  <2>2. QED
    BY <1>3, <2>1, DeedTypes DEF Review
<1>4. ASSUME NEW i \in DOMAIN prs, NEW state \in {"merged", "closed"}, Settle(i, state) PROVE TypeOK'
  <2>1. [prs[i] EXCEPT !.state = state, !.settled = now] \in Pr
    BY DomainOfPrs DEF Pr, TypeOK
  <2>2. QED
    BY <1>4, <2>1, DeedTypes DEF Settle
<1>5. ASSUME NEW i \in DOMAIN prs, LabelSpam(i) PROVE TypeOK'
  <2>1. [prs[i] EXCEPT !.spam = TRUE] \in Pr
    BY DomainOfPrs DEF Pr
  <2>2. QED
    BY <1>5, <2>1, DeedTypes DEF LabelSpam
<1>6. CASE Tick
  BY <1>6 DEF Tick, TypeOK
<1>7. QED
  BY <1>1, <1>2, <1>3, <1>4, <1>5, <1>6 DEF TheWorld

LEMMA RowShape ==
  ASSUME TypeOK, row # << >>
  PROVE  1 \in DOMAIN row /\ row[1].facts \in Facts /\ row[1].fetched_at \in 0 .. MaxTime
<1>1. row \in Seq(Rows)
  BY DEF TypeOK
<1>2. Len(row) \in Nat /\ Len(row) # 0 /\ DOMAIN row = 1 .. Len(row)
  BY <1>1
<1>3. 1 \in DOMAIN row /\ row[1] \in Rows
  BY <1>1, <1>2
<1>4. QED
  BY <1>3 DEF Rows

LEMMA HandlerKeepsTypes ==
  ASSUME TypeOK, NEW t \in Tasks, Handler(t)
  PROVE  TypeOK'
<1>0. row \in Seq(Rows) /\ Len(row) <= 1
  BY DEF TypeOK
<1>1. ASSUME NEW i \in DOMAIN prs, Begin(t, i) PROVE TypeOK'
  <2> DEFINE task == [pc |-> "get", pr |-> i, at |-> now]
  <2>1. task \in Asking
    BY DomainOfPrs DEF TypeOK, Asking
  <2>2. QED
    BY <1>0, <1>1, <2>1, HandlerTypes DEF Begin
<1>2. ASSUME GetDossier(t), FreshRow(tasks[t].at) PROVE TypeOK'
  <2>1. row[1].facts \in Facts
    BY <1>2, RowShape DEF FreshRow
  <2>2. tasks' = [tasks EXCEPT ![t] = Process(tasks[t], row[1].facts)] /\ UNCHANGED <<prs, row, now, deeds>>
    BY <1>2 DEF GetDossier, TypeOK
  <2>3. tasks[t].pc = "get" /\ tasks[t].pr \in DOMAIN prs
    BY <1>2 DEF GetDossier, TypeOK
  <2> DEFINE task == Process(tasks[t], row[1].facts)
  <2>4. task \in Holding /\ task.pr \in DOMAIN prs /\ task.facts.repo \in Repos
    BY <2>1, <2>3, ProcessTypes
  <2> HIDE DEF task
  <2>5. QED
    BY <1>0, <2>2, <2>4, HandlerTypes DEF task
<1>3. ASSUME GetDossier(t), ~FreshRow(tasks[t].at) PROVE TypeOK'
  <2> DEFINE task == [pc |-> "query", pr |-> tasks[t].pr, at |-> tasks[t].at]
  <2>1. tasks' = [tasks EXCEPT ![t] = task] /\ UNCHANGED <<prs, row, now, deeds>>
    BY <1>3 DEF GetDossier, TypeOK
  <2>2. tasks[t] \in Asking /\ tasks[t].pr \in DOMAIN prs
    BY <1>3, TaskShape DEF GetDossier, TypeOK
  <2>3. task \in Asking
    BY <2>2 DEF Asking
  <2>4. QED
    BY <1>0, <2>1, <2>2, <2>3, HandlerTypes
<1>4. ASSUME Query(t) PROVE TypeOK'
  <2> DEFINE task == With(tasks[t], "put", ParseDossier(tasks[t].at))
  <2>1. tasks' = [tasks EXCEPT ![t] = task] /\ UNCHANGED <<prs, row, now, deeds>>
    BY <1>4 DEF Query, TypeOK
  <2>2. tasks[t] \in Asking /\ tasks[t].pr \in DOMAIN prs /\ tasks[t].at \in 0 .. MaxTime
    BY <1>4, TaskShape DEF Query, TypeOK, Asking
  <2>3. task \in Holding /\ task.pc = "put" /\ task.pr \in DOMAIN prs
    BY <2>2, ParsedFacts DEF With, Asking, Holding
  <2> HIDE DEF task
  <2>4. QED
    BY <1>0, <2>1, <2>3, HandlerTypes
<1>5. ASSUME PutDossier(t) PROVE TypeOK'
  <2> DEFINE task == Process(tasks[t], tasks[t].facts)
  <2>1. tasks' = [tasks EXCEPT ![t] = task] /\ UNCHANGED <<prs, now, deeds>>
    BY <1>5 DEF PutDossier, TypeOK
  <2>2. tasks[t].pc = "put" /\ tasks[t].pr \in DOMAIN prs /\ tasks[t].facts \in Facts /\ tasks[t].at \in 0 .. MaxTime
    BY <1>5, TaskShape DEF PutDossier, TypeOK, Holding
  <2>3. row' \in Seq(Rows) /\ Len(row') <= 1
    BY <1>5, <2>2 DEF PutDossier, Rows
  <2>4. task \in Holding /\ task.pr \in DOMAIN prs /\ task.facts.repo \in Repos
    BY <2>2, ProcessTypes
  <2> HIDE DEF task
  <2>5. QED
    BY <2>1, <2>3, <2>4, HandlerTypes
<1>6. ASSUME Fail(t) PROVE TypeOK'
  BY <1>0, <1>6, HandlerTypes DEF Fail, Dead
<1>7. QED
  BY <1>1, <1>2, <1>3, <1>4, <1>5, <1>6 DEF Handler

\* The type invariant, for all constants.
THEOREM TypeCorrect == Spec => []TypeOK
<1>1. Init => TypeOK
  BY DEF Init, TypeOK, Idle
<1>2. TypeOK /\ [Next]_vars => TypeOK'
  <2> SUFFICES ASSUME TypeOK, [Next]_vars PROVE TypeOK'
    OBVIOUS
  <2>1. CASE TheWorld
    BY <2>1, WorldTypes
  <2>2. ASSUME NEW t \in Tasks, Handler(t) PROVE TypeOK'
    BY <2>2, HandlerKeepsTypes
  <2>3. CASE UNCHANGED vars
    BY <2>3 DEF vars, TypeOK
  <2>4. QED
    BY <2>1, <2>2, <2>3 DEF Next
<1>3. QED
  BY <1>1, <1>2, PTL DEF Spec

-----------------------------------------------------------------------------
(* What people do does not change what was so before a time d that has come *)

AnsweredBefore(pr, d) ==
  \E k \in Others(pr), l \in DOMAIN pr.thread : l > k /\ pr.thread[l].who = "author" /\ pr.thread[l].at < d

Knows(list, facts, d) ==
  \A i \in DOMAIN list :
    list[i].opened < d /\ Len(list) - i < Page =>
      /\ i \in DOMAIN facts.prior
      /\ list[i].state # "open" /\ list[i].settled < d =>
           /\ facts.prior[i].merged = (list[i].state = "merged")
           /\ facts.prior[i].closed_unmerged = (list[i].state = "closed")
      /\ AnsweredBefore(list[i], d) => facts.prior[i].author_followed_up

\* One pull request, before a step and after it.
Kept(old, new, d) ==
  /\ new.repo = old.repo /\ new.marker = old.marker /\ new.opened = old.opened
  /\ new.state # "open" /\ new.settled < d => old.state = new.state /\ old.settled < d
  /\ AnsweredBefore(new, d) => AnsweredBefore(old, d)

Grown(old, new, d) ==
  /\ Len(old) <= Len(new) /\ DOMAIN old \subseteq DOMAIN new
  /\ \A i \in DOMAIN old : Kept(old[i], new[i], d)
  /\ \A i \in DOMAIN new \ DOMAIN old : new[i].opened >= d

LEMMA Member ==
  ASSUME NEW S, NEW s \in Seq(S), NEW k \in DOMAIN s
  PROVE  s[k] \in S
OBVIOUS

\* The longer the past that a dossier must know, the more it knows.
LEMMA KnowsLess ==
  ASSUME TypeOK, NEW facts \in Facts, NEW d \in Int, NEW e \in Int, e <= d, Knows(prs, facts, d)
  PROVE  Knows(prs, facts, e)
<1>1. ASSUME NEW i \in DOMAIN prs, AnsweredBefore(prs[i], e) PROVE AnsweredBefore(prs[i], d)
  <2>1. PICK k \in Others(prs[i]), l \in DOMAIN prs[i].thread :
               l > k /\ prs[i].thread[l].who = "author" /\ prs[i].thread[l].at < e
    BY <1>1 DEF AnsweredBefore
  <2>2. prs[i].thread \in Seq([who : People, at : 0 .. MaxTime])
    BY DomainOfPrs DEF Pr
  <2>3. prs[i].thread[l].at \in Int
    <3>1. prs[i].thread[l] \in [who : People, at : 0 .. MaxTime]
      BY <2>1, <2>2, Member
    <3>2. QED
      BY <3>1
  <2>4. prs[i].thread[l].at < d
    BY <2>1, <2>3
  <2>5. QED
    BY <2>1, <2>4 DEF AnsweredBefore
<1>2. \A i \in DOMAIN prs : prs[i].opened \in Int /\ prs[i].settled \in Int
  BY DomainOfPrs DEF Pr
<1>3. \A i \in DOMAIN prs : /\ prs[i].opened < e => prs[i].opened < d
                            /\ prs[i].settled < e => prs[i].settled < d
  BY <1>2
<1>4. QED
  BY <1>1, <1>3 DEF Knows

LEMMA KnowsKept ==
  ASSUME TypeOK, TypeOK', NEW facts, NEW d \in Int, Grown(prs, prs', d), Knows(prs, facts, d)
  PROVE  Knows(prs', facts, d)
<1> SUFFICES ASSUME NEW i \in DOMAIN prs', prs'[i].opened < d, Len(prs') - i < Page
    PROVE  /\ i \in DOMAIN facts.prior
           /\ prs'[i].state # "open" /\ prs'[i].settled < d =>
                /\ facts.prior[i].merged = (prs'[i].state = "merged")
                /\ facts.prior[i].closed_unmerged = (prs'[i].state = "closed")
           /\ AnsweredBefore(prs'[i], d) => facts.prior[i].author_followed_up
  BY DEF Knows
<1>1. i \in DOMAIN prs
  <2>1. prs' \in Seq(Pr)
    BY DEF TypeOK
  <2>2. prs'[i] \in Pr
    BY <2>1
  <2>3. prs'[i].opened \in Int
    BY <2>2 DEF Pr
  <2>4. QED
    BY <2>3 DEF Grown
<1>2. Kept(prs[i], prs'[i], d)
  BY <1>1 DEF Grown
<1>3. Len(prs) - i < Page
  <2>1. prs \in Seq(Pr) /\ prs' \in Seq(Pr)
    BY DEF TypeOK
  <2>2. Len(prs) \in Nat /\ Len(prs') \in Nat /\ i \in Int /\ Len(prs) <= Len(prs')
    BY <2>1, <1>1 DEF Grown
  <2>3. QED
    BY <2>2
<1>4. prs[i].opened < d
  BY <1>2 DEF Kept
<1>5. QED
  BY <1>1, <1>2, <1>3, <1>4 DEF Kept, Knows

LEMMA DeedGrows ==
  ASSUME TypeOK, NEW i \in DOMAIN prs, NEW changed, Deed(i, changed), NEW d \in Int, Kept(prs[i], changed, d)
  PROVE  Grown(prs, prs', d)
<1>1. prs' = [prs EXCEPT ![i] = changed] /\ prs \in Seq(Pr)
  BY DEF Deed, TypeOK
<1>2. DOMAIN prs' = DOMAIN prs /\ Len(prs') = Len(prs) /\ Len(prs) \in Nat
  BY <1>1
<1>3. \A j \in DOMAIN prs : Kept(prs[j], prs[j], d)
  BY DEF Kept
<1>4. QED
  BY <1>1, <1>2, <1>3 DEF Grown

\* A comment made now is none from before d.
LEMMA CommentKept ==
  ASSUME TypeOK, NEW i \in DOMAIN prs, NEW who \in People, NEW d \in Int, d <= now
  PROVE  Kept(prs[i], [prs[i] EXCEPT !.thread = Append(@, [who |-> who, at |-> now])], d)
<1> DEFINE new == [prs[i] EXCEPT !.thread = Append(@, [who |-> who, at |-> now])]
           thread == prs[i].thread
<1>1. prs[i] \in Pr /\ thread \in Seq([who : People, at : 0 .. MaxTime]) /\ now \in Int
  <2>1. prs[i] \in Pr
    BY DomainOfPrs
  <2>2. now \in Int
    BY DEF TypeOK
  <2>3. QED
    BY <2>1, <2>2 DEF Pr
<1>2. /\ new.repo = prs[i].repo /\ new.marker = prs[i].marker /\ new.opened = prs[i].opened
      /\ new.state = prs[i].state /\ new.settled = prs[i].settled
      /\ new.thread = Append(thread, [who |-> who, at |-> now])
  BY <1>1 DEF Pr
<1> HIDE DEF new
<1>3. /\ DOMAIN new.thread = 1 .. (Len(thread) + 1) /\ DOMAIN thread = 1 .. Len(thread) /\ Len(thread) \in Nat
      /\ new.thread[Len(thread) + 1] = [who |-> who, at |-> now]
      /\ \A j \in 1 .. Len(thread) : new.thread[j] = thread[j]
  BY <1>1, <1>2
<1> HIDE DEF thread
<1>4. ASSUME AnsweredBefore(new, d) PROVE AnsweredBefore(prs[i], d)
  <2>1. PICK k \in Others(new), l \in DOMAIN new.thread :
               l > k /\ new.thread[l].who = "author" /\ new.thread[l].at < d
    BY <1>4 DEF AnsweredBefore
  <2>2. l # Len(thread) + 1
    BY <1>1, <1>3, <2>1
  <2>3. l \in 1 .. Len(thread) /\ k \in DOMAIN new.thread /\ new.thread[k].who # "author"
    BY <1>3, <2>1, <2>2 DEF Others
  <2>4. k \in 1 .. Len(thread)
    BY <1>3, <2>1, <2>3
  <2>5. k \in Others(prs[i]) /\ l \in DOMAIN prs[i].thread
    BY <1>3, <2>3, <2>4 DEF Others, thread
  <2>6. thread[l].who = "author" /\ thread[l].at < d
    BY <1>3, <2>1, <2>3
  <2>7. QED
    BY <2>1, <2>5, <2>6 DEF AnsweredBefore, thread
<1>5. QED
  BY <1>2, <1>4 DEF Kept, new

\* Changes of fields that the threads do not depend on.
LEMMA SameThread ==
  ASSUME NEW old, NEW new, new.thread = old.thread, NEW d
  PROVE  AnsweredBefore(new, d) <=> AnsweredBefore(old, d)
BY DEF AnsweredBefore, Others

LEMMA WorldGrows ==
  ASSUME TypeOK, TheWorld, NEW d \in Int, d <= now
  PROVE  Grown(prs, prs', d)
<1>0. prs \in Seq(Pr) /\ now \in Int
  BY DEF TypeOK
<1>1. ASSUME NEW repo \in Repos, NEW marker \in BOOLEAN, Open(repo, marker) PROVE Grown(prs, prs', d)
  <2> DEFINE opened == [repo |-> repo, opened |-> now, state |-> "open", settled |-> now,
                        thread |-> << >>, reviews |-> {}, spam |-> FALSE, marker |-> marker]
  <2>1. prs' = Append(prs, opened) /\ opened.opened = now
    BY <1>1 DEF Open
  <2> HIDE DEF opened
  <2>2. /\ Len(prs) \in Nat /\ Len(prs') = Len(prs) + 1
        /\ DOMAIN prs = 1 .. Len(prs) /\ DOMAIN prs' = 1 .. (Len(prs) + 1)
        /\ \A i \in DOMAIN prs : prs'[i] = prs[i]
        /\ prs'[Len(prs) + 1] = opened
    BY <1>0, <2>1
  <2>3. \A i \in DOMAIN prs : Kept(prs[i], prs'[i], d)
    BY <2>2 DEF Kept
  <2>4. \A i \in DOMAIN prs' \ DOMAIN prs : prs'[i].opened >= d
    BY <1>0, <2>1, <2>2
  <2>5. QED
    BY <2>2, <2>3, <2>4 DEF Grown
<1>2. ASSUME NEW i \in DOMAIN prs, NEW who \in People, Comment(i, who) PROVE Grown(prs, prs', d)
  BY <1>2, CommentKept, DeedGrows DEF Comment
<1>3. ASSUME NEW i \in DOMAIN prs, NEW who \in People, Review(i, who) PROVE Grown(prs, prs', d)
  <2> DEFINE new == [prs[i] EXCEPT !.reviews = @ \cup {who}]
  <2>1. /\ new.repo = prs[i].repo /\ new.marker = prs[i].marker /\ new.opened = prs[i].opened
        /\ new.state = prs[i].state /\ new.settled = prs[i].settled /\ new.thread = prs[i].thread
    BY DomainOfPrs DEF Pr
  <2>2. Kept(prs[i], new, d)
    BY <2>1, SameThread DEF Kept
  <2>3. QED
    BY <1>3, <2>2, DeedGrows DEF Review
<1>4. ASSUME NEW i \in DOMAIN prs, NEW state \in {"merged", "closed"}, Settle(i, state) PROVE Grown(prs, prs', d)
  <2> DEFINE new == [prs[i] EXCEPT !.state = state, !.settled = now]
  <2>1. /\ new.repo = prs[i].repo /\ new.marker = prs[i].marker /\ new.opened = prs[i].opened
        /\ new.settled = now /\ new.thread = prs[i].thread
    BY DomainOfPrs DEF Pr
  <2>2. ~(new.settled < d)
    BY <1>0, <2>1
  <2>3. Kept(prs[i], new, d)
    BY <2>1, <2>2, SameThread DEF Kept
  <2>4. QED
    BY <1>4, <2>3, DeedGrows DEF Settle
<1>5. ASSUME NEW i \in DOMAIN prs, LabelSpam(i) PROVE Grown(prs, prs', d)
  <2> DEFINE new == [prs[i] EXCEPT !.spam = TRUE]
  <2>1. /\ new.repo = prs[i].repo /\ new.marker = prs[i].marker /\ new.opened = prs[i].opened
        /\ new.state = prs[i].state /\ new.settled = prs[i].settled /\ new.thread = prs[i].thread
    BY DomainOfPrs DEF Pr
  <2>2. Kept(prs[i], new, d)
    BY <2>1, SameThread DEF Kept
  <2>3. QED
    BY <1>5, <2>2, DeedGrows DEF LabelSpam
<1>6. ASSUME prs' = prs PROVE Grown(prs, prs', d)
  BY <1>0, <1>6 DEF Grown, Kept
<1>7. QED
  BY <1>1, <1>2, <1>3, <1>4, <1>5, <1>6 DEF TheWorld, Tick

-----------------------------------------------------------------------------
(* The invariant *)

\* A dossier tells of pull requests that exist, and of their repositories.
Tells(list, facts) ==
  /\ DOMAIN facts.prior \subseteq DOMAIN list
  /\ \A i \in DOMAIN facts.prior : facts.prior[i].repo_key = list[i].repo

\* A dossier that is nobody's yet: as it was fetched, for an event at d.
Fetched(list, facts, d) == facts.marker = FALSE /\ Tells(list, facts) /\ Knows(list, facts, d)

\* A dossier completed for the pull request pr, a week after what it must know.
CompletedFor(list, facts, pr, d) ==
  /\ facts.repo = list[pr].repo /\ facts.marker = list[pr].marker
  /\ Tells(list, facts) /\ Knows(list, facts, d)

RowInv == \A k \in DOMAIN row : row[k].fetched_at <= now /\ Fetched(prs, row[k].facts, row[k].fetched_at)

Soundly(list, task) ==
  /\ task.pc \notin {"idle", "dead"} => task.at <= now
  /\ task.pc = "put" => Fetched(list, task.facts, task.at)
  /\ task.pc = "judged" => CompletedFor(list, task.facts, task.pr, task.at - TTL + 1)

TaskInv == \A t \in Tasks : Soundly(prs, tasks[t])

DossierInv == RowInv /\ TaskInv

LEMMA TellsKept ==
  ASSUME NEW facts, NEW d, Grown(prs, prs', d), Tells(prs, facts)
  PROVE  Tells(prs', facts)
BY DEF Tells, Grown, Kept

LEMMA WorldKeeps ==
  ASSUME TypeOK, TypeOK', DossierInv, TheWorld
  PROVE  DossierInv'
<1>1. now \in Int /\ now' \in Int /\ now <= now' /\ row' = row /\ tasks' = tasks
  <2>1. now \in Int /\ now' \in Int
    BY DEF TypeOK
  <2>2. now' = now \/ now' = now + 1
    BY DEF TheWorld, Open, Comment, Review, Settle, LabelSpam, Deed, Tick
  <2>3. row' = row /\ tasks' = tasks
    BY DEF TheWorld, Open, Comment, Review, Settle, LabelSpam, Deed, Tick
  <2>4. QED
    BY <2>1, <2>2, <2>3
<1>2. ASSUME NEW facts, NEW d \in Int, d <= now, Fetched(prs, facts, d) PROVE Fetched(prs', facts, d)
  BY <1>2, WorldGrows, KnowsKept, TellsKept DEF Fetched
<1>3. RowInv'
  <2>1. SUFFICES ASSUME NEW k \in DOMAIN row
                 PROVE  row[k].fetched_at <= now' /\ Fetched(prs', row[k].facts, row[k].fetched_at)
    BY <1>1 DEF RowInv
  <2>2. row[k].fetched_at \in Int
    <3>1. row \in Seq(Rows)
      BY DEF TypeOK
    <3>2. row[k] \in Rows
      BY <3>1
    <3>3. QED
      BY <3>2 DEF Rows
  <2>3. row[k].fetched_at <= now /\ Fetched(prs, row[k].facts, row[k].fetched_at)
    BY DEF DossierInv, RowInv
  <2>4. QED
    BY <1>1, <1>2, <2>2, <2>3
<1>4. ASSUME NEW t \in Tasks PROVE Soundly(prs, tasks[t])'
  <2>1. Soundly(prs, tasks[t])
    BY DEF DossierInv, TaskInv
  <2>2. CASE tasks[t].pc \in {"idle", "dead"}
    BY <1>1, <2>2 DEF Soundly
  <2>3. CASE tasks[t].pc \in {"get", "query"}
    <3>1. tasks[t].at \in Int
      BY <2>3, TaskShape DEF Asking
    <3>2. QED
      BY <1>1, <2>1, <2>3, <3>1 DEF Soundly
  <2>4. CASE tasks[t].pc = "put"
    <3>1. tasks[t].at \in Int
      BY <2>4, TaskShape DEF Holding
    <3>2. tasks[t].at <= now /\ Fetched(prs, tasks[t].facts, tasks[t].at)
      BY <2>1, <2>4 DEF Soundly
    <3>3. Fetched(prs', tasks[t].facts, tasks[t].at)
      BY <1>2, <3>1, <3>2
    <3>4. QED
      BY <1>1, <2>4, <3>1, <3>2, <3>3 DEF Soundly
  <2>5. CASE tasks[t].pc = "judged"
    <3> DEFINE d == tasks[t].at - TTL + 1
               facts == tasks[t].facts
               pr == tasks[t].pr
    <3>1. tasks[t].at \in Int /\ tasks[t].at <= now /\ d \in Int /\ d <= now
      <4>1. tasks[t].at \in Int
        BY <2>5, TaskShape DEF Holding
      <4>2. QED
        BY <1>1, <2>1, <2>5, <4>1 DEF Soundly
    <3>2. CompletedFor(prs, facts, pr, d)
      BY <2>1, <2>5 DEF Soundly
    <3> HIDE DEF d
    <3>3. Grown(prs, prs', d)
      BY <3>1, WorldGrows
    <3>4. pr \in DOMAIN prs
      BY <2>5 DEF TypeOK
    <3>5. CompletedFor(prs', facts, pr, d)
      <4>1. Tells(prs', facts) /\ Knows(prs', facts, d)
        BY <3>1, <3>2, <3>3, KnowsKept, TellsKept DEF CompletedFor
      <4>2. prs'[pr].repo = prs[pr].repo /\ prs'[pr].marker = prs[pr].marker
        BY <3>3, <3>4 DEF Grown, Kept
      <4>3. QED
        BY <3>2, <4>1, <4>2 DEF CompletedFor
    <3>6. tasks[t].at <= now'
      BY <1>1, <3>1
    <3>7. QED
      BY <1>1, <2>5, <3>5, <3>6 DEF Soundly, d
  <2>6. QED
    BY <2>2, <2>3, <2>4, <2>5, TaskShape
<1>5. QED
  BY <1>3, <1>4 DEF DossierInv, TaskInv

\* One handler moves; pull requests and the clock stay.
LEMMA OneMoves ==
  ASSUME TypeOK, TaskInv, NEW t \in Tasks, NEW task, Soundly(prs, task),
         tasks' = [tasks EXCEPT ![t] = task], prs' = prs, now' = now
  PROVE  TaskInv'
<1>1. \A s \in Tasks : tasks'[s] = IF s = t THEN task ELSE tasks[s]
  BY DEF TypeOK
<1>3. ASSUME NEW s \in Tasks PROVE Soundly(prs, tasks[s])'
  <2>1. CASE s = t
    BY <1>1, <2>1 DEF Soundly
  <2>2. CASE s # t
    BY <1>1, <2>2 DEF Soundly, TaskInv
  <2>3. QED
    BY <2>1, <2>2
<1>4. QED
  BY <1>3 DEF TaskInv

\* parse_dossier knows what was so before the event.
LEMMA ParsedKnows ==
  ASSUME TypeOK, NEW at \in 0 .. MaxTime
  PROVE  Fetched(prs, ParseDossier(at), at)
<1> DEFINE facts == ParseDossier(at)
<1>1. /\ facts.marker = FALSE /\ DOMAIN facts.prior = Told(at)
      /\ \A i \in Told(at) : facts.prior[i] = PriorOf(prs[i])
  BY DEF ParseDossier
<1> HIDE DEF facts
<1>2. Tells(prs, facts)
  <2>1. Told(at) \subseteq DOMAIN prs
    BY DEF Told
  <2>2. \A i \in Told(at) : PriorOf(prs[i]).repo_key = prs[i].repo
    BY DEF PriorOf
  <2>3. QED
    BY <1>1, <2>1, <2>2 DEF Tells
<1>3. ASSUME NEW i \in DOMAIN prs, prs[i].opened < at, Len(prs) - i < Page
      PROVE  /\ i \in Told(at)
             /\ facts.prior[i].merged = (prs[i].state = "merged")
             /\ facts.prior[i].closed_unmerged = (prs[i].state = "closed")
             /\ AnsweredBefore(prs[i], at) => facts.prior[i].author_followed_up
  <2>1. i \in Told(at)
    <3>1. Len(prs) \in Nat /\ i \in Int /\ Page \in Int
      BY DomainOfPrs
    <3>2. i > Len(prs) - Page
      BY <1>3, <3>1
    <3>3. QED
      BY <1>3, <3>2 DEF Told
  <2>2. facts.prior[i] = PriorOf(prs[i])
    BY <1>1, <2>1
  <2>3. AnsweredBefore(prs[i], at) => FollowedUp(prs[i])
    BY DEF AnsweredBefore, FollowedUp
  <2>4. QED
    BY <2>1, <2>2, <2>3 DEF PriorOf
<1>4. Knows(prs, facts, at)
  BY <1>1, <1>3 DEF Knows
<1>5. QED
  BY <1>1, <1>2, <1>4 DEF Fetched, facts

\* A handler that completes what was fetched at d, within TTL of its event.
LEMMA ProcessSound ==
  ASSUME TypeOK, NEW t \in Tasks, tasks[t].pc \in {"get", "put"}, tasks[t].at <= now,
         NEW facts \in Facts, NEW d \in Int, tasks[t].at - TTL < d, Fetched(prs, facts, d)
  PROVE  Soundly(prs, Process(tasks[t], facts))
<1> DEFINE task == Process(tasks[t], facts)
<1>1. /\ task.pc = "judged" /\ task.pr = tasks[t].pr /\ task.at = tasks[t].at
      /\ task.facts.prior = facts.prior /\ task.facts.repo = prs[tasks[t].pr].repo
      /\ task.facts.marker = (facts.marker \/ prs[tasks[t].pr].marker)
  BY ProcessTypes
<1> HIDE DEF task
<1>2. tasks[t].at \in Int /\ TTL \in Int
  BY TaskShape DEF Asking, Holding
<1>3. tasks[t].at - TTL + 1 \in Int /\ tasks[t].at - TTL + 1 <= d
  BY <1>2
<1>4. Knows(prs, facts, tasks[t].at - TTL + 1)
  BY <1>3, KnowsLess DEF Fetched
<1>5. Knows(prs, task.facts, tasks[t].at - TTL + 1) /\ Tells(prs, task.facts)
  BY <1>1, <1>4 DEF Knows, Tells, Fetched
<1>6. task.facts.marker = prs[tasks[t].pr].marker
  <2>1. prs[tasks[t].pr].marker \in BOOLEAN
    BY DomainOfPrs DEF TypeOK, Pr
  <2>2. QED
    BY <1>1, <2>1 DEF Fetched
<1>7. QED
  BY <1>1, <1>5, <1>6 DEF Soundly, CompletedFor, task

LEMMA HandlerKeeps ==
  ASSUME TypeOK, DossierInv, NEW t \in Tasks, Handler(t)
  PROVE  DossierInv'
<1>0. TaskInv /\ RowInv /\ Soundly(prs, tasks[t]) /\ now \in Int
  BY DEF DossierInv, TaskInv, TypeOK
<1>r. ASSUME UNCHANGED <<prs, row, now>> PROVE RowInv'
  BY <1>0, <1>r DEF RowInv, Fetched, Tells, Knows
<1>1. ASSUME NEW i \in DOMAIN prs, Begin(t, i) PROVE DossierInv'
  <2> DEFINE task == [pc |-> "get", pr |-> i, at |-> now]
  <2>1. Soundly(prs, task)
    BY <1>0 DEF Soundly
  <2>2. tasks' = [tasks EXCEPT ![t] = task] /\ UNCHANGED <<prs, row, now>>
    BY <1>1 DEF Begin
  <2> HIDE DEF task
  <2>3. QED
    BY <1>0, <1>r, <2>1, <2>2, OneMoves DEF DossierInv
<1>2. ASSUME GetDossier(t), FreshRow(tasks[t].at) PROVE DossierInv'
  <2> DEFINE task == Process(tasks[t], row[1].facts)
  <2>1. 1 \in DOMAIN row /\ row[1].facts \in Facts /\ row[1].fetched_at \in Int
    BY <1>2, RowShape DEF FreshRow
  <2>2. tasks[t].pc = "get" /\ tasks[t].at <= now
    BY <1>0, <1>2 DEF GetDossier, Soundly
  <2>3. tasks[t].at \in Int
    BY <2>2, TaskShape DEF Asking
  <2>4. tasks[t].at - TTL < row[1].fetched_at
    BY <1>2, <2>1, <2>3 DEF FreshRow
  <2>5. Fetched(prs, row[1].facts, row[1].fetched_at)
    BY <1>0, <2>1 DEF RowInv
  <2>6. Soundly(prs, task)
    BY <2>1, <2>2, <2>4, <2>5, ProcessSound
  <2>7. tasks' = [tasks EXCEPT ![t] = task] /\ UNCHANGED <<prs, row, now>>
    BY <1>2 DEF GetDossier, TypeOK
  <2> HIDE DEF task
  <2>8. QED
    BY <1>0, <1>r, <2>6, <2>7, OneMoves DEF DossierInv
<1>3. ASSUME GetDossier(t), ~FreshRow(tasks[t].at) PROVE DossierInv'
  <2> DEFINE task == [pc |-> "query", pr |-> tasks[t].pr, at |-> tasks[t].at]
  <2>1. Soundly(prs, task)
    BY <1>0, <1>3 DEF Soundly, GetDossier
  <2>2. tasks' = [tasks EXCEPT ![t] = task] /\ UNCHANGED <<prs, row, now>>
    BY <1>3 DEF GetDossier, TypeOK
  <2> HIDE DEF task
  <2>3. QED
    BY <1>0, <1>r, <2>1, <2>2, OneMoves DEF DossierInv
<1>4. ASSUME Query(t) PROVE DossierInv'
  <2> DEFINE task == With(tasks[t], "put", ParseDossier(tasks[t].at))
  <2>1. tasks[t].at \in 0 .. MaxTime
    BY <1>4, TaskShape DEF Query, Asking
  <2>2. Fetched(prs, ParseDossier(tasks[t].at), tasks[t].at)
    BY <2>1, ParsedKnows
  <2>3. task.pc = "put" /\ task.at = tasks[t].at /\ task.facts = ParseDossier(tasks[t].at)
    BY DEF With
  <2>4. tasks[t].at <= now
    BY <1>0, <1>4 DEF Query, Soundly
  <2>5. tasks' = [tasks EXCEPT ![t] = task] /\ UNCHANGED <<prs, row, now>>
    BY <1>4 DEF Query, TypeOK
  <2> HIDE DEF task
  <2>6. Soundly(prs, task)
    BY <2>2, <2>3, <2>4 DEF Soundly
  <2>7. QED
    BY <1>0, <1>r, <2>5, <2>6, OneMoves DEF DossierInv
<1>5. ASSUME PutDossier(t) PROVE DossierInv'
  <2> DEFINE task == Process(tasks[t], tasks[t].facts)
  <2>1. tasks[t].pc = "put" /\ tasks[t].facts \in Facts /\ tasks[t].at \in Int
    BY <1>5, TaskShape DEF PutDossier, Holding
  <2>2. Fetched(prs, tasks[t].facts, tasks[t].at) /\ tasks[t].at <= now
    BY <1>0, <2>1 DEF Soundly
  <2>3. tasks[t].at - TTL < tasks[t].at
    BY <2>1
  <2>4. Soundly(prs, task)
    BY <2>1, <2>2, <2>3, ProcessSound
  <2>5. tasks' = [tasks EXCEPT ![t] = task] /\ UNCHANGED <<prs, now>>
    BY <1>5 DEF PutDossier, TypeOK
  <2> HIDE DEF task
  <2>6. TaskInv'
    BY <1>0, <2>4, <2>5, OneMoves
  <2>7. RowInv'
    <3>1. row' = <<[facts |-> tasks[t].facts, fetched_at |-> tasks[t].at]>>
      BY <1>5 DEF PutDossier
    <3>2. \A k \in DOMAIN row' : row'[k].facts = tasks[t].facts /\ row'[k].fetched_at = tasks[t].at
      BY <3>1
    <3>3. prs' = prs /\ now' = now
      BY <2>5
    <3>4. QED
      BY <2>2, <3>2, <3>3 DEF RowInv
  <2>8. QED
    BY <2>6, <2>7 DEF DossierInv
<1>6. ASSUME Fail(t) PROVE DossierInv'
  <2>1. Soundly(prs, Dead)
    BY DEF Soundly, Dead
  <2>2. tasks' = [tasks EXCEPT ![t] = Dead] /\ UNCHANGED <<prs, row, now>>
    BY <1>6 DEF Fail
  <2>3. QED
    BY <1>0, <1>r, <2>1, <2>2, OneMoves DEF DossierInv
<1>7. QED
  BY <1>1, <1>2, <1>3, <1>4, <1>5, <1>6 DEF Handler

\* The invariant, of any number of handlers that share the row.
THEOREM DossierCorrect == Spec => [](TypeOK /\ DossierInv)
<1>1. Init => TypeOK /\ DossierInv
  <2>1. Init => TypeOK
    BY DEF Init, TypeOK, Idle
  <2>2. Init => RowInv
    BY DEF Init, RowInv
  <2>3. Init => TaskInv
    BY DEF Init, TaskInv, Soundly, Idle
  <2>4. QED
    BY <2>1, <2>2, <2>3 DEF DossierInv
<1>2. TypeOK /\ DossierInv /\ [Next]_vars => (TypeOK /\ DossierInv)'
  <2> SUFFICES ASSUME TypeOK, DossierInv, [Next]_vars PROVE (TypeOK /\ DossierInv)'
    OBVIOUS
  <2>1. CASE TheWorld
    BY <2>1, WorldTypes, WorldKeeps
  <2>2. ASSUME NEW t \in Tasks, Handler(t) PROVE (TypeOK /\ DossierInv)'
    BY <2>2, HandlerKeepsTypes, HandlerKeeps
  <2>3. CASE UNCHANGED vars
    BY <2>3 DEF vars, TypeOK, DossierInv, RowInv, TaskInv, Soundly, CompletedFor, Fetched, Tells, Knows
  <2>4. QED
    BY <2>1, <2>2, <2>3 DEF Next
<1>3. QED
  BY <1>1, <1>2, PTL DEF Spec

\* Of two handlers that fetch, complete and put the one row in any order, and of
\* rows of any age under the TTL (get_dossier, put_dossier): none makes a handler
\* miss what was so a TTL before its event.
THEOREM KnowsTheWeek == Spec => []KnowsTheWeekBefore
<1>1. TypeOK /\ DossierInv => KnowsTheWeekBefore
  <2> SUFFICES ASSUME TypeOK, DossierInv, NEW t \in Judged, NEW i \in DOMAIN prs,
                      prs[i].opened <= tasks[t].at - TTL, Len(prs) - i < Page
      PROVE  /\ i \in DOMAIN tasks[t].facts.prior
             /\ prs[i].state # "open" /\ prs[i].settled <= tasks[t].at - TTL =>
                  /\ tasks[t].facts.prior[i].merged = (prs[i].state = "merged")
                  /\ tasks[t].facts.prior[i].closed_unmerged = (prs[i].state = "closed")
             /\ (\E k \in Others(prs[i]), l \in DOMAIN prs[i].thread :
                   l > k /\ prs[i].thread[l].who = "author" /\ prs[i].thread[l].at <= tasks[t].at - TTL)
                  => tasks[t].facts.prior[i].author_followed_up
    BY DEF KnowsTheWeekBefore
  <2>1. t \in Tasks /\ tasks[t].pc = "judged" /\ tasks[t].at \in Int /\ TTL \in Int
    BY TaskShape DEF Judged, Holding
  <2>2. Knows(prs, tasks[t].facts, tasks[t].at - TTL + 1)
    BY <2>1 DEF DossierInv, TaskInv, Soundly, CompletedFor
  <2>3. prs[i].opened \in Int /\ prs[i].settled \in Int
    BY DomainOfPrs DEF Pr
  <2>4. prs[i].opened < tasks[t].at - TTL + 1
    BY <2>1, <2>3
  <2>5. prs[i].settled <= tasks[t].at - TTL => prs[i].settled < tasks[t].at - TTL + 1
    BY <2>1, <2>3
  <2>6. ASSUME NEW k \in Others(prs[i]), NEW l \in DOMAIN prs[i].thread,
               l > k, prs[i].thread[l].who = "author", prs[i].thread[l].at <= tasks[t].at - TTL
        PROVE  AnsweredBefore(prs[i], tasks[t].at - TTL + 1)
    <3>1. prs[i].thread \in Seq([who : People, at : 0 .. MaxTime])
      BY DomainOfPrs DEF Pr
    <3>2. prs[i].thread[l].at \in Int
      <4>1. prs[i].thread[l] \in [who : People, at : 0 .. MaxTime]
        BY <3>1, Member
      <4>2. QED
        BY <4>1
    <3>3. prs[i].thread[l].at < tasks[t].at - TTL + 1
      BY <2>1, <2>6, <3>2
    <3>4. QED
      BY <2>6, <3>3 DEF AnsweredBefore
  <2>7. QED
    BY <2>2, <2>4, <2>5, <2>6 DEF Knows
<1>2. QED
  BY <1>1, DossierCorrect, PTL

\* Which facts make the two rules fire.
LEMMA RuleFires ==
  ASSUME NEW facts
  PROVE  /\ (\E fire \in Rules(facts) : fire.rule = "AGENT_EMAIL") <=> (facts.marker = TRUE)
         /\ (\E fire \in Rules(facts) : fire.rule = "TRUST_REPO_HISTORY")
              <=> \E i \in DOMAIN facts.prior : facts.prior[i].repo_key = facts.repo
<1> DEFINE
      all       == DOMAIN facts.prior
      Those(f)  == {i \in all : facts.prior[i][f]}
      reviewed  == Those("received_review")
      followed  == reviewed \cap Those("author_followed_up")
      here      == {i \in all : facts.prior[i].repo_key = facts.repo}
      elsewhere == Those("merged") \ here
      keys      == {facts.prior[i].repo_key : i \in all}
      Answers   == When(Cardinality(reviewed) >= MinReviewed,
                        {Share("DOSSIER_ABANDONMENT", reviewed \ followed, reviewed),
                         Share("TRUST_FOLLOW_UP", followed, reviewed)})
      Closed    == When(Cardinality(all) >= MinTotal,
                        {Share("DOSSIER_CLOSED_RATIO", Those("closed_unmerged"), all)})
      Spread    == When(Cardinality(all) >= MinTotal /\ 5 * Cardinality(keys) > 4 * Cardinality(all),
                        {Share("UNRELATED_SPREAD", keys, all)})
      Spam      == When(Those("spam_labeled") # {}, {Share("DOSSIER_SPAM_LABELS", Those("spam_labeled"), {})})
      Marked    == When(facts.marker, {Share("AGENT_EMAIL", {}, {})})
      Several   == When(facts.concurrent_open >= Fleet,
                        {[rule |-> "DOSSIER_CONCURRENT_OPEN", num |-> facts.concurrent_open - Fleet + 1, den |-> 0]})
      Merged    == When(elsewhere # {}, {Share("TRUST_MERGED_ELSEWHERE", elsewhere, {})})
      History   == When(here # {}, {Share("TRUST_REPO_HISTORY", here, {})})
      Other(S)  == \A fire \in S : fire.rule # "AGENT_EMAIL" /\ fire.rule # "TRUST_REPO_HISTORY"
<1>1. Rules(facts) = Answers \cup Closed \cup Spread \cup Spam \cup Marked \cup Several \cup Merged \cup History
  BY DEF Rules
<1>2. ASSUME NEW rule, NEW some, NEW total PROVE Share(rule, some, total).rule = rule
  BY DEF Share
<1>3. /\ Other(Answers) /\ Other(Closed) /\ Other(Spread) /\ Other(Spam)
      /\ Other(Several) /\ Other(Merged)
  <2>1. ASSUME NEW c, NEW S, Other(S) PROVE Other(When(c, S))
    BY <2>1 DEF When
  <2>2. ASSUME NEW fire, fire.rule # "AGENT_EMAIL", fire.rule # "TRUST_REPO_HISTORY" PROVE Other({fire})
    BY <2>2
  <2>3. ASSUME NEW rule \in {"DOSSIER_CLOSED_RATIO", "UNRELATED_SPREAD", "DOSSIER_SPAM_LABELS", "TRUST_MERGED_ELSEWHERE"},
               NEW some, NEW total, NEW c
        PROVE  Other(When(c, {Share(rule, some, total)}))
    BY <1>2, <2>1, <2>2
  <2>4. Other(Closed) /\ Other(Spread) /\ Other(Spam) /\ Other(Merged)
    BY <2>3
  <2>5. ASSUME NEW n PROVE Other({[rule |-> "DOSSIER_CONCURRENT_OPEN", num |-> n, den |-> 0]})
    OBVIOUS
  <2>6. Other(Several)
    BY <2>1, <2>5
  <2>7. ASSUME NEW some, NEW rest, NEW total
        PROVE  Other({Share("DOSSIER_ABANDONMENT", rest, total), Share("TRUST_FOLLOW_UP", some, total)})
    BY <1>2
  <2>8. Other(Answers)
    BY <2>1, <2>7
  <2>9. QED
    BY <2>4, <2>6, <2>8
<1>4. \A fire : fire \in Marked <=> (facts.marker = TRUE) /\ fire = Share("AGENT_EMAIL", {}, {})
  BY DEF When
<1>5. \A fire : fire \in History <=> here # {} /\ fire = Share("TRUST_REPO_HISTORY", here, {})
  BY DEF When
<1>6. here # {} <=> \E i \in DOMAIN facts.prior : facts.prior[i].repo_key = facts.repo
  OBVIOUS
<1> HIDE DEF Answers, Closed, Spread, Spam, Marked, Several, Merged, History, here
<1>7. (\E fire \in Rules(facts) : fire.rule = "AGENT_EMAIL") <=> (facts.marker = TRUE)
  BY <1>1, <1>2, <1>3, <1>4, <1>5
<1>8. (\E fire \in Rules(facts) : fire.rule = "TRUST_REPO_HISTORY") <=> here # {}
  BY <1>1, <1>2, <1>3, <1>4, <1>5
<1>9. QED
  BY <1>6, <1>7, <1>8

\* The row that all handlers of an author share holds nothing of the pull request
\* it was fetched for (put_dossier before process completes a copy), so markers
\* and repository history are those of the pull request judged.
THEOREM EachJudgedForItself == Spec => []JudgedForItself
<1>1. TypeOK /\ DossierInv => JudgedForItself
  <2> SUFFICES ASSUME TypeOK, DossierInv, NEW t \in Judged
      PROVE  /\ Fired(t, "AGENT_EMAIL") <=> prs[tasks[t].pr].marker
             /\ Fired(t, "TRUST_REPO_HISTORY")
                  <=> \E i \in DOMAIN tasks[t].facts.prior : prs[i].repo = prs[tasks[t].pr].repo
    BY DEF JudgedForItself
  <2>1. t \in Tasks /\ tasks[t].pc = "judged" /\ tasks[t].pr \in DOMAIN prs
    BY DEF Judged, TypeOK
  <2>2. CompletedFor(prs, tasks[t].facts, tasks[t].pr, tasks[t].at - TTL + 1)
    BY <2>1 DEF DossierInv, TaskInv, Soundly
  <2>3. prs[tasks[t].pr].marker \in BOOLEAN
    BY <2>1, DomainOfPrs DEF Pr
  <2>4. Fired(t, "AGENT_EMAIL") <=> tasks[t].facts.marker = TRUE
    BY RuleFires DEF Fired
  <2>5. Fired(t, "TRUST_REPO_HISTORY")
          <=> \E i \in DOMAIN tasks[t].facts.prior : tasks[t].facts.prior[i].repo_key = tasks[t].facts.repo
    BY RuleFires DEF Fired
  <2>6. tasks[t].facts.marker = prs[tasks[t].pr].marker /\ tasks[t].facts.repo = prs[tasks[t].pr].repo
    BY <2>2 DEF CompletedFor
  <2>7. \A i \in DOMAIN tasks[t].facts.prior : tasks[t].facts.prior[i].repo_key = prs[i].repo
    BY <2>2 DEF CompletedFor, Tells
  <2>8. Fired(t, "AGENT_EMAIL") <=> prs[tasks[t].pr].marker
    BY <2>3, <2>4, <2>6
  <2>9. Fired(t, "TRUST_REPO_HISTORY")
          <=> \E i \in DOMAIN tasks[t].facts.prior : prs[i].repo = prs[tasks[t].pr].repo
    BY <2>5, <2>6, <2>7
  <2>10. QED
    BY <2>8, <2>9
<1>2. QED
  BY <1>1, DossierCorrect, PTL
=============================================================================
