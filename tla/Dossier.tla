------------------------------- MODULE Dossier -------------------------------
(***************************************************************************)
(* The author's dossier (dossier.rs) and its cache (store.rs), as          *)
(* score_and_act uses them: handlers of the pull requests of one author    *)
(* share a row that is good for TTL; the author and the maintainers go on  *)
(* meanwhile.  Rows of different authors do not meet.                      *)
(*                                                                         *)
(* Of a dossier, the history of pull requests and the markers are here;    *)
(* the account's own data (age, bio, followers), titles, and what needs    *)
(* other queries (latency, entropy, fork age) are not.  A rule's value is  *)
(* a share [num, den] of pull requests, before it is scaled to [0, 1].     *)
(***************************************************************************)
EXTENDS Integers, Sequences, FiniteSets

CONSTANTS
  Repos,         \* repositories
  Tasks,         \* handlers, each of one webhook
  TTL,           \* DOSSIER_TTL_DAYS
  Page,          \* the pull requests that the query asks for: 50
  MinReviewed,   \* reviewed pull requests that make a ratio: 3
  MinTotal,      \* pull requests that make a ratio: 5
  Fleet,         \* open pull requests that make a fleet: 3
  MaxPrs,        \* bound: pull requests
  MaxDeeds,      \* bound: what the people do to them
  MaxTime        \* bound: the clock

ASSUME DossierAssumption ==
  /\ TTL \in Nat \ {0} /\ Page \in Nat \ {0} /\ MinReviewed \in Nat \ {0} /\ MinTotal \in Nat \ {0}
  /\ Fleet \in Nat \ {0} /\ MaxPrs \in Nat /\ MaxDeeds \in Nat /\ MaxTime \in Nat

VARIABLES
  prs,       \* the author's pull requests at GitHub, in the order of opening
  row,       \* the row of the table dossiers: empty, or one
  tasks,     \* the handlers
  now,       \* the clock
  deeds

vars == <<prs, row, tasks, now, deeds>>

People == {"author", "maintainer"}

\* A thread is the comments in their order; reviews are by whoever wrote them.
Pr == [repo : Repos, opened : 0 .. MaxTime, state : {"open", "merged", "closed"}, settled : 0 .. MaxTime,
       thread : Seq([who : People, at : 0 .. MaxTime]), reviews : SUBSET People,
       spam : BOOLEAN, marker : BOOLEAN]

PriorPr == [merged : BOOLEAN, closed_unmerged : BOOLEAN, spam_labeled : BOOLEAN,
            received_review : BOOLEAN, author_followed_up : BOOLEAN, repo_key : Repos]

NoRepo == "none"

\* prior is indexed by the pull requests it tells of.
Facts == [repo : Repos \cup {NoRepo}, marker : BOOLEAN, concurrent_open : Nat,
          prior : UNION {[told -> PriorPr] : told \in SUBSET (1 .. MaxPrs)}]

Rows == [facts : Facts, fetched_at : 0 .. MaxTime]

Idle == [pc |-> "idle"]
Dead == [pc |-> "dead"]

\* at is the time of the event; the facts are there once they were read.
Asking  == [pc : {"get", "query"}, pr : 1 .. MaxPrs, at : 0 .. MaxTime]
Holding == [pc : {"put", "judged"}, pr : 1 .. MaxPrs, at : 0 .. MaxTime, facts : Facts]

TypeOK ==
  /\ prs \in Seq(Pr) /\ Len(prs) <= MaxPrs
  /\ row \in Seq(Rows) /\ Len(row) <= 1
  /\ tasks \in [Tasks -> {Idle, Dead} \cup Asking \cup Holding]
  /\ \A t \in Tasks :
       /\ tasks[t].pc \notin {"idle", "dead"} => tasks[t].pr \in DOMAIN prs
       /\ tasks[t].pc = "judged" => tasks[t].facts.repo \in Repos
  /\ now \in 0 .. MaxTime /\ deeds \in 0 .. MaxDeeds

Init ==
  /\ prs = << >> /\ row = << >>
  /\ tasks = [t \in Tasks |-> Idle]
  /\ now = 0 /\ deeds = 0

-----------------------------------------------------------------------------
(* The author and the maintainers *)

Open(repo, marker) ==
  /\ Len(prs) < MaxPrs
  /\ prs' = Append(prs, [repo |-> repo, opened |-> now, state |-> "open", settled |-> now,
                         thread |-> << >>, reviews |-> {}, spam |-> FALSE, marker |-> marker])
  /\ UNCHANGED <<row, tasks, now, deeds>>

Deed(i, changed) ==
  /\ deeds < MaxDeeds /\ changed # prs[i]
  /\ deeds' = deeds + 1
  /\ prs' = [prs EXCEPT ![i] = changed]
  /\ UNCHANGED <<row, tasks, now>>

Comment(i, who) == Deed(i, [prs[i] EXCEPT !.thread = Append(@, [who |-> who, at |-> now])])

Review(i, who) == Deed(i, [prs[i] EXCEPT !.reviews = @ \cup {who}])

Settle(i, state) == prs[i].state = "open" /\ Deed(i, [prs[i] EXCEPT !.state = state, !.settled = now])

LabelSpam(i) == Deed(i, [prs[i] EXCEPT !.spam = TRUE])

Tick ==
  /\ now < MaxTime
  /\ now' = now + 1
  /\ UNCHANGED <<prs, row, tasks, deeds>>

-----------------------------------------------------------------------------
(* parse_dossier *)

Others(pr) == {k \in DOMAIN pr.thread : pr.thread[k].who # "author"}

\* The author commented after the first comment of somebody else.
FollowedUp(pr) ==
  \E k \in Others(pr) : \E l \in DOMAIN pr.thread : l > k /\ pr.thread[l].who = "author"

PriorOf(pr) ==
  [merged |-> pr.state = "merged", closed_unmerged |-> pr.state = "closed", spam_labeled |-> pr.spam,
   received_review |-> pr.reviews # {} \/ Others(pr) # {}, author_followed_up |-> FollowedUp(pr),
   repo_key |-> pr.repo]

\* The newest pull requests, those aside that are not older than the event.
Told(at) == {i \in DOMAIN prs : i > Len(prs) - Page /\ prs[i].opened < at}

ParseDossier(at) ==
  [repo |-> NoRepo, marker |-> FALSE,
   concurrent_open |-> Cardinality({i \in Told(at) : prs[i].state = "open"}),
   prior |-> [i \in Told(at) |-> PriorOf(prs[i])]]

-----------------------------------------------------------------------------
(* DossierFacts::rules *)

Share(rule, some, all) == [rule |-> rule, num |-> Cardinality(some), den |-> Cardinality(all)]

When(condition, fires) == IF condition THEN fires ELSE {}

Rules(facts) ==
  LET all       == DOMAIN facts.prior
      Those(f)  == {i \in all : facts.prior[i][f]}
      reviewed  == Those("received_review")
      followed  == reviewed \cap Those("author_followed_up")
      here      == {i \in all : facts.prior[i].repo_key = facts.repo}
      elsewhere == Those("merged") \ here
      keys      == {facts.prior[i].repo_key : i \in all}
  IN  When(Cardinality(reviewed) >= MinReviewed,
           {Share("DOSSIER_ABANDONMENT", reviewed \ followed, reviewed), Share("TRUST_FOLLOW_UP", followed, reviewed)})
      \cup When(Cardinality(all) >= MinTotal, {Share("DOSSIER_CLOSED_RATIO", Those("closed_unmerged"), all)})
      \cup When(Cardinality(all) >= MinTotal /\ 5 * Cardinality(keys) > 4 * Cardinality(all),
                {Share("UNRELATED_SPREAD", keys, all)})
      \cup When(Those("spam_labeled") # {}, {Share("DOSSIER_SPAM_LABELS", Those("spam_labeled"), {})})
      \cup When(facts.marker, {Share("AGENT_EMAIL", {}, {})})
      \cup When(facts.concurrent_open >= Fleet,
                {[rule |-> "DOSSIER_CONCURRENT_OPEN", num |-> facts.concurrent_open - Fleet + 1, den |-> 0]})
      \cup When(elsewhere # {}, {Share("TRUST_MERGED_ELSEWHERE", elsewhere, {})})
      \cup When(here # {}, {Share("TRUST_REPO_HISTORY", here, {})})

-----------------------------------------------------------------------------
(* A handler: score_and_act from the webhook to the verdict *)

Begin(t, i) ==
  /\ tasks[t] = Idle
  /\ prs[i].state = "open"
  /\ tasks' = [tasks EXCEPT ![t] = [pc |-> "get", pr |-> i, at |-> now]]
  /\ UNCHANGED <<prs, row, now, deeds>>

\* A mutant: a row is good for ever.
AnyRow(at) == row # << >>

\* fetched_at > now - TTL
FreshRow(at) == row # << >> /\ row[1].fetched_at > at - TTL

With(task, pc, facts) == [pc |-> pc, pr |-> task.pr, at |-> task.at, facts |-> facts]

\* The pipeline completes a copy with this pull request's markers and its
\* repository.  It reads nothing that others write, so it is one step with the
\* call before it.
Completed(task, facts) == [facts EXCEPT !.repo = prs[task.pr].repo, !.marker = @ \/ prs[task.pr].marker]

Process(task, facts) == With(task, "judged", Completed(task, facts))

GetDossier(t) ==
  /\ tasks[t].pc = "get"
  /\ tasks' = [tasks EXCEPT ![t] = IF FreshRow(tasks[t].at) THEN Process(@, row[1].facts)
                                   ELSE [pc |-> "query", pr |-> @.pr, at |-> @.at]]
  /\ UNCHANGED <<prs, row, now, deeds>>

Query(t) ==
  /\ tasks[t].pc = "query"
  /\ tasks' = [tasks EXCEPT ![t] = With(@, "put", ParseDossier(@.at))]
  /\ UNCHANGED <<prs, row, now, deeds>>

\* A mutant: the facts are kept as the pipeline completes them.
PutCompleted(t) ==
  /\ tasks[t].pc = "put"
  /\ row' = <<[facts |-> Completed(tasks[t], tasks[t].facts), fetched_at |-> tasks[t].at]>>
  /\ tasks' = [tasks EXCEPT ![t] = Process(@, @.facts)]
  /\ UNCHANGED <<prs, now, deeds>>

\* The row is dated by the event, not by the query.
PutDossier(t) ==
  /\ tasks[t].pc = "put"
  /\ row' = <<[facts |-> tasks[t].facts, fetched_at |-> tasks[t].at]>>
  /\ tasks' = [tasks EXCEPT ![t] = Process(@, @.facts)]
  /\ UNCHANGED <<prs, now, deeds>>

\* A call fails, or the process ends.
Fail(t) ==
  /\ tasks[t].pc \in {"get", "query", "put"}
  /\ tasks' = [tasks EXCEPT ![t] = Dead]
  /\ UNCHANGED <<prs, row, now, deeds>>

TheWorld ==
  \/ \E repo \in Repos, marker \in BOOLEAN : Open(repo, marker)
  \/ \E i \in DOMAIN prs :
       \/ \E who \in People : Comment(i, who) \/ Review(i, who)
       \/ \E state \in {"merged", "closed"} : Settle(i, state)
       \/ LabelSpam(i)
  \/ Tick

Handler(t) ==
  (\E i \in DOMAIN prs : Begin(t, i)) \/ GetDossier(t) \/ Query(t) \/ PutDossier(t) \/ Fail(t)

Next == TheWorld \/ \E t \in Tasks : Handler(t)

Spec == Init /\ [][Next]_vars

-----------------------------------------------------------------------------
(* Properties *)

Judged == {t \in Tasks : tasks[t].pc = "judged"}

\* What was so a week before the event, the dossier knows, whichever handler
\* fetched it and whatever row a slower one put over a newer: the pull requests
\* opened by then, their outcome, and that the author answered.
KnowsTheWeekBefore ==
  \A t \in Judged :
    LET before == tasks[t].at - TTL
        prior  == tasks[t].facts.prior
    IN  \A i \in DOMAIN prs :
          prs[i].opened <= before /\ Len(prs) - i < Page =>
            /\ i \in DOMAIN prior
            /\ prs[i].state # "open" /\ prs[i].settled <= before =>
                 prior[i].merged = (prs[i].state = "merged") /\ prior[i].closed_unmerged = (prs[i].state = "closed")
            /\ (\E k \in Others(prs[i]), l \in DOMAIN prs[i].thread :
                   l > k /\ prs[i].thread[l].who = "author" /\ prs[i].thread[l].at <= before)
                 => prior[i].author_followed_up

Fired(t, rule) == \E fire \in Rules(tasks[t].facts) : fire.rule = rule

\* What one pull request gave away is not held against the author's next, nor
\* the history in one repository taken for that in another: the row that all
\* handlers share holds nothing of the pull request it was fetched for.
JudgedForItself ==
  \A t \in Judged :
    LET pr == prs[tasks[t].pr]
    IN  /\ Fired(t, "AGENT_EMAIL") <=> pr.marker
        /\ Fired(t, "TRUST_REPO_HISTORY") <=> \E i \in DOMAIN tasks[t].facts.prior : prs[i].repo = pr.repo
=============================================================================
