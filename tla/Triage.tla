------------------------------- MODULE Triage -------------------------------
(***************************************************************************)
(* The service of src/src/main.rs: webhooks are answered at once and each  *)
(* is handled by a task of its own (tokio::spawn), which runs              *)
(*   - score_and_act for a pull request event: read the configuration and  *)
(*     the diff, judge, save the verdict, execute the planned action;      *)
(*   - handle_reply for a comment: read the pending challenge, evaluate    *)
(*     the reply, store the outcome, close on the canary.                  *)
(* Every await of a handler is a step of its own, so the tasks interleave  *)
(* with each other, with the people who push, reply, reopen and configure, *)
(* and with failed calls, crashes, lost and repeated deliveries.           *)
(*                                                                         *)
(* Data is abstracted to what the properties tell apart: a verdict is its  *)
(* tier, chosen freely; a comment is the kind of its body; a revision of   *)
(* a pull request is a number.                                             *)
(***************************************************************************)
EXTENDS Integers, Sequences, Challenge, Actions

CONSTANTS
  PRs,        \* the pull requests
  Tasks,      \* slots for the handlers that run at the same time (a bound)
  Configs,    \* the configurations the repository may be given
  Page,       \* comments on the first page find_comment reads (100 in the code)
  EchoesOwn,  \* whether GitHub delivers the App's own comments back to it
  MaxEnv,     \* bound: what people do, in all
  MaxFaults   \* bound: failed calls, crashes, lost and repeated deliveries

\* Authors: one of the bots that RepoConfig::default exempts, or anybody else.
\* Labels: those that a configuration may exempt.
Authors == {"bot", "person"}
Labels  == {"pullsift-override"}

\* RepoConfig, reduced to what the service branches on: mirror stands for the
\* MirrorNoPrs archetype.
RepoConfig == [dry_run : BOOLEAN, score_comments : BOOLEAN, challenge : BOOLEAN, mirror : BOOLEAN,
               exempt_users : SUBSET Authors, exempt_labels : SUBSET Labels]

\* RepoConfig::default, in force when pullsift.yml is absent or does not parse.
DefaultConfig ==
  [dry_run |-> TRUE, score_comments |-> TRUE, challenge |-> TRUE, mirror |-> FALSE,
   exempt_users |-> {"bot"}, exempt_labels |-> {"pullsift-override"}]

ASSUME PRsAssumption == PRs # {}
ASSUME ConfigsAssumption == Configs \subseteq RepoConfig
ASSUME PageAssumption == Page \in Nat \ {0}
ASSUME BoundsAssumption == MaxEnv \in Nat /\ MaxFaults \in Nat
ASSUME EchoAssumption == EchoesOwn \in BOOLEAN

VARIABLES
  (* GitHub and the people who use it *)
  config,     \* .github/pullsift.yml on the default branch
  gh,         \* the state of each pull request
  comments,   \* the comments on each pull request, oldest first
  hooks,      \* webhooks on their way: no order among them
  (* the process *)
  tasks,      \* the handler in each slot
  (* the database *)
  events,     \* pr_events
  verdicts,   \* verdicts
  log,        \* actions_log
  challenge,  \* challenges: the row of each pull request, or NoRow
  (* history and bounds *)
  acted,      \* what the bot has ever done to each pull request
  live,       \* has dry_run ever been off?
  overlapped, \* have two handlers of the pull request ever run at the same time?
  shield,     \* the exemptions that have applied to it at every moment so far
  env,        \* steps people have taken
  faults      \* faults that have happened

github   == <<config, gh, comments>>
database == <<events, verdicts, log, challenge>>
history  == <<acted, live, overlapped, shield>>
vars     == <<config, gh, comments, hooks, tasks, events, verdicts, log, challenge,
              acted, live, overlapped, shield, env, faults>>

NoRow == "no_row"

\* A mutant: a push is not an event to score.
OpenedOnly == {"opened", "reopened", "ready_for_review"}

\* The pull request actions the pipeline scores.
Scorable == {"opened", "reopened", "synchronize", "ready_for_review"}

\* Pull request actions that are delivered and not scored (examples).
Unscored == {"closed", "labeled", "unlabeled"}

\* A webhook after parse: for a pull_request event what it is and the payload's
\* snapshot (author, labels, the revision it describes); for an issue_comment
\* event the body.
Hook ==
  [event : {"pull_request"}, pr : PRs, what : Scorable \cup Unscored,
   author : Authors, labels : SUBSET Labels, head : Nat]
  \cup
  [event : {"issue_comment"}, pr : PRs, what : Bodies]

PullRequestHook(p, action, pull) ==
  [event |-> "pull_request", pr |-> p, what |-> action,
   author |-> pull.author, labels |-> pull.labels, head |-> pull.head]

CommentHook(p, body) == [event |-> "issue_comment", pr |-> p, what |-> body]

\* What of a snapshot (of a payload, or of the pull request itself) a
\* configuration exempts: the author, if listed, and the labels that are.
Exemptions(cfg, snapshot) ==
  ({snapshot.author} \cap cfg.exempt_users) \cup (snapshot.labels \cap cfg.exempt_labels)

IsExempt(cfg, snapshot) == Exemptions(cfg, snapshot) # {}

\* The actions log_action is called with.
ExecuteNames == {"none", "comment", "label", "hold", "close"}
PolicyNames  == {"close-by-policy", "close-by-policy(dry)"}
ReplyNames   == {"close-canary", "challenge-passed"}
ActionNames  == ExecuteNames \cup PolicyNames \cup ReplyNames

PCs == {"idle", "config", "assess", "save", "find", "upsert", "label", "draft", "evidence",
        "challenge", "pending", "closing", "close", "log", "reply", "answer"}

\* A handler: where it is, and its locals.
Task == [pc     : PCs,
         pr     : PRs,
         author : Authors,            \* the payload's snapshot
         labels : SUBSET Labels,
         body   : Bodies,             \* the comment's body (handle_reply)
         cfg    : RepoConfig,         \* the configuration it read
         head   : Nat,                \* the payload's revision, then that of the diff it read
         tier   : Tiers,              \* its verdict
         act    : ActionNames,        \* the action it executes and logs
         probe  : BOOLEAN,            \* does the hold carry a challenge?
         found  : Nat,                \* the score comment it found; 0: none
         next   : ChallengeState]     \* the outcome of the reply

Idle == [pc |-> "idle", pr |-> CHOOSE p \in PRs : TRUE, author |-> "person", labels |-> {},
         body |-> "short", cfg |-> DefaultConfig, head |-> 0, tier |-> "pass", act |-> "none", probe |-> FALSE,
         found |-> 0, next |-> "pending"]

PullRequest == [open : BOOLEAN, draft : BOOLEAN, suspect : BOOLEAN,
                author : Authors, labels : SUBSET Labels, head : Nat]
Comment     == [body : Bodies, head : Nat]

TypeOK ==
  /\ config \in RepoConfig
  /\ gh \in [PRs -> PullRequest]
  /\ comments \in [PRs -> Seq(Comment)]
  /\ hooks \subseteq Hook
  /\ tasks \in [Tasks -> Task]
  /\ events \subseteq PRs \X Scorable
  /\ verdicts \subseteq [pr : PRs, tier : Tiers, head : Nat]
  /\ log \subseteq [pr : PRs, action : ActionNames, dry_run : BOOLEAN]
  /\ challenge \in [PRs -> ChallengeState \cup {NoRow}]
  /\ acted \in [PRs -> SUBSET {"label", "draft", "close"}]
  /\ live \in BOOLEAN
  /\ overlapped \in [PRs -> BOOLEAN]
  /\ shield \in [PRs -> SUBSET (Authors \cup Labels)]
  /\ env \in Nat
  /\ faults \in Nat

\* Every pull request has just been opened, by anybody and with any labels, and its
\* webhook is on its way; the process has started and its tables are empty.
Init ==
  /\ config \in Configs
  /\ \E author \in [PRs -> Authors], labels \in [PRs -> SUBSET Labels] :
       gh = [p \in PRs |-> [open |-> TRUE, draft |-> FALSE, suspect |-> FALSE,
                            author |-> author[p], labels |-> labels[p], head |-> 1]]
  /\ comments = [p \in PRs |-> << >>]
  /\ hooks = {PullRequestHook(p, "opened", gh[p]) : p \in PRs}
  /\ tasks = [t \in Tasks |-> Idle]
  /\ events = {} /\ verdicts = {} /\ log = {}
  /\ challenge = [p \in PRs |-> NoRow]
  /\ acted = [p \in PRs |-> {}]
  /\ live = ~config.dry_run
  /\ overlapped = [p \in PRs |-> FALSE]
  /\ shield = [p \in PRs |-> Exemptions(config, gh[p])]
  /\ env = 0 /\ faults = 0

-----------------------------------------------------------------------------
(* Helpers *)

Goto(t, pc) == tasks' = [tasks EXCEPT ![t].pc = pc]
Finish(t)   == tasks' = [tasks EXCEPT ![t] = Idle]
Running(t, pc) == tasks[t].pc = pc

Did(p, effect) == acted' = [acted EXCEPT ![p] = @ \cup {effect}]

\* post_comment: the comment is appended, and GitHub delivers it like any other.
PostComment(p, body, head) ==
  /\ comments' = [comments EXCEPT ![p] = Append(@, [body |-> body, head |-> head])]
  /\ hooks' = IF EchoesOwn THEN hooks \cup {CommentHook(p, body)} ELSE hooks

HasComment(p, body) == \E i \in DOMAIN comments[p] : comments[p][i].body = body

-----------------------------------------------------------------------------
(* Intake: handle_webhook and dispatch *)

\* A delivery is consumed, or GitHub (or an operator) delivers it once more.
Consume(h) ==
  \/ hooks' = hooks \ {h} /\ UNCHANGED faults
  \/ faults < MaxFaults /\ faults' = faults + 1 /\ UNCHANGED hooks

Start(t, task) ==
  /\ Running(t, "idle")
  /\ tasks' = [tasks EXCEPT ![t] = task]
  /\ overlapped' = [overlapped EXCEPT ![task.pr] =
                      @ \/ \E u \in Tasks : ~Running(u, "idle") /\ tasks[u].pr = task.pr]

\* A pull request event: record_event, then the task scores it.  (When
\* record_event fails nothing was done: that is LoseHook.)
TakePullRequest(t, h) ==
  /\ h.event = "pull_request" /\ h.what \in Scorable
  /\ Start(t, [Idle EXCEPT !.pc = "config", !.pr = h.pr, !.author = h.author,
                        !.labels = h.labels, !.head = h.head])
  /\ events' = events \cup {<<h.pr, h.what>>}
  /\ Consume(h)
  /\ UNCHANGED <<github, verdicts, log, challenge, acted, live, shield, env>>

\* A created comment on a pull request, whoever wrote it.
TakeComment(t, h) ==
  /\ h.event = "issue_comment"
  /\ Start(t, [Idle EXCEPT !.pc = "reply", !.pr = h.pr, !.body = h.what])
  /\ Consume(h)
  /\ UNCHANGED <<github, database, acted, live, shield, env>>

\* Any other event is answered 202 and dropped.
Ignore(h) ==
  /\ h.event = "pull_request" /\ h.what \notin Scorable
  /\ hooks' = hooks \ {h}
  /\ UNCHANGED <<github, tasks, database, history, env, faults>>
-----------------------------------------------------------------------------
(* score_and_act *)

\* The configuration comes from the default branch, now.
ReadConfig(t) ==
  /\ Running(t, "config")
  /\ tasks' = [tasks EXCEPT ![t].pc = "assess", ![t].cfg = config]
  /\ UNCHANGED <<github, hooks, database, history, env, faults>>

\* Mutants: the payload's revision is judged, not the live diff; an exemption
\* is not looked at.
JudgesPayload(t, tier) ==
  LET task == tasks[t]
      plan == Plan(tier, task.cfg.challenge /\ tier = "hold", task.cfg.dry_run,
                   task.cfg.score_comments)
  IN  /\ Running(t, "assess") /\ ~IsExempt(task.cfg, task) /\ ~task.cfg.mirror
      /\ tasks' = [tasks EXCEPT ![t].pc = "save", ![t].tier = tier,
                                ![t].act = plan.act, ![t].probe = plan.probe]
      /\ UNCHANGED <<github, hooks, database, history, env, faults>>

IgnoresExemption(t, tier) ==
  LET task == tasks[t]
      plan == Plan(tier, task.cfg.challenge /\ tier = "hold", task.cfg.dry_run,
                   task.cfg.score_comments)
  IN  /\ Running(t, "assess") /\ ~task.cfg.mirror
      /\ tasks' = [tasks EXCEPT ![t].pc = "save", ![t].tier = tier, ![t].head = gh[task.pr].head,
                                ![t].act = plan.act, ![t].probe = plan.probe]
      /\ UNCHANGED <<github, hooks, database, history, env, faults>>

\* The diff, the files and the commits are read from the live pull request,
\* then pipeline::process judges it.  Any tier can come out: the verdict also
\* depends on the author's dossier, the cluster store and the weights.
Assess(t, tier) ==
  LET task == tasks[t]
      plan == Plan(tier, task.cfg.challenge /\ tier = "hold", task.cfg.dry_run,
                   task.cfg.score_comments)
  IN  /\ Running(t, "assess") /\ ~IsExempt(task.cfg, task) /\ ~task.cfg.mirror
      /\ tasks' = [tasks EXCEPT ![t].pc = "save", ![t].tier = tier, ![t].head = gh[task.pr].head,
                                ![t].act = plan.act, ![t].probe = plan.probe]
      /\ UNCHANGED <<github, hooks, database, history, env, faults>>

\* Outcome::Exempt: by the lists of the configuration that was read, for the
\* author and the labels of the payload.  Nothing more is done.
Exempt(t) ==
  /\ Running(t, "assess") /\ IsExempt(tasks[t].cfg, tasks[t])
  /\ Finish(t)
  /\ UNCHANGED <<github, hooks, database, history, env, faults>>

\* Outcome::PolicyClose: in dry run only the log row is written.
PolicyClose(t) ==
  /\ Running(t, "assess") /\ ~IsExempt(tasks[t].cfg, tasks[t]) /\ tasks[t].cfg.mirror
  /\ tasks' = IF tasks[t].cfg.dry_run
              THEN [tasks EXCEPT ![t].pc = "log", ![t].act = "close-by-policy(dry)"]
              ELSE [tasks EXCEPT ![t].pc = "closing", ![t].act = "close-by-policy"]
  /\ UNCHANGED <<github, hooks, database, history, env, faults>>

\* Where execute starts for each planned action.
FirstCall(act) ==
  IF act = "none" THEN "log"
  ELSE IF act = "comment" THEN "find"
  ELSE IF act = "close" THEN "closing" ELSE "label"

\* A mutant: a verdict past the close threshold closes without a message.
ClosesUnexplained(t) ==
  /\ Running(t, "save")
  /\ verdicts' = verdicts \cup {[pr |-> tasks[t].pr, tier |-> tasks[t].tier,
                                head |-> tasks[t].head]}
  /\ Goto(t, IF tasks[t].act = "close" THEN "close" ELSE FirstCall(tasks[t].act))
  /\ UNCHANGED <<github, hooks, events, log, challenge, history, env, faults>>

\* save_verdict (the row's evidence is of the diff that was read, here by its
\* revision), then the first call of the planned action.
SaveVerdict(t) ==
  /\ Running(t, "save")
  /\ verdicts' = verdicts \cup {[pr |-> tasks[t].pr, tier |-> tasks[t].tier,
                                head |-> tasks[t].head]}
  /\ Goto(t, FirstCall(tasks[t].act))
  /\ UNCHANGED <<github, hooks, events, log, challenge, history, env, faults>>

-----------------------------------------------------------------------------
(* execute: one step per call *)

\* A mutant: only the newest comment is looked at.
FindNewestScore(t) ==
  LET p == tasks[t].pr
      n == Len(comments[p])
  IN  /\ Running(t, "find")
      /\ tasks' = [tasks EXCEPT ![t].pc = "upsert",
                                ![t].found = IF n > 0 /\ comments[p][n].body = "score" THEN n ELSE 0]
      /\ UNCHANGED <<github, hooks, database, history, env, faults>>

\* find_comment: the first comment on the first page that has the marker.
FindScore(t) ==
  LET cs     == comments[tasks[t].pr]
      marked == {i \in DOMAIN cs : i <= Page /\ cs[i].body = "score"}
  IN  /\ Running(t, "find")
      /\ \E first \in marked \cup {0} :
           /\ first = 0 <=> marked = {}
           /\ \A i \in marked : first <= i
           /\ tasks' = [tasks EXCEPT ![t].pc = "upsert", ![t].found = first]
      /\ UNCHANGED <<github, hooks, database, history, env, faults>>

\* upsert_comment: the comment found is edited (GitHub delivers "edited",
\* which parse drops); otherwise a new one is posted.
UpsertScore(t) ==
  LET task == tasks[t]
  IN  /\ Running(t, "upsert")
      /\ \/ /\ task.found # 0
            /\ comments' = [comments EXCEPT ![task.pr][task.found].head = task.head]
            /\ UNCHANGED hooks
         \/ /\ task.found = 0
            /\ PostComment(task.pr, "score", task.head)
      /\ Goto(t, "log")
      /\ UNCHANGED <<config, gh, database, history, env, faults>>

\* A mutant: a hold labels and comments, and forgets the draft.
LabelWithoutDraft(t) ==
  /\ Running(t, "label")
  /\ gh' = [gh EXCEPT ![tasks[t].pr].suspect = TRUE]
  /\ Did(tasks[t].pr, "label")
  /\ Goto(t, "evidence")
  /\ UNCHANGED <<config, comments, hooks, database, live, overlapped, shield, env, faults>>

AddLabel(t) ==
  /\ Running(t, "label")
  /\ gh' = [gh EXCEPT ![tasks[t].pr].suspect = TRUE]
  /\ Did(tasks[t].pr, "label")
  /\ Goto(t, IF tasks[t].act = "hold" THEN "draft" ELSE "evidence")
  /\ UNCHANGED <<config, comments, hooks, database, live, overlapped, shield, env, faults>>

ConvertToDraft(t) ==
  /\ Running(t, "draft")
  /\ gh' = [gh EXCEPT ![tasks[t].pr].draft = TRUE]
  /\ Did(tasks[t].pr, "draft")
  /\ Goto(t, "evidence")
  /\ UNCHANGED <<config, comments, hooks, database, live, overlapped, shield, env, faults>>

\* A mutant: the challenge row is stored before the challenge is posted.
RowBeforeQuestion(t) ==
  /\ Running(t, "evidence")
  /\ PostComment(tasks[t].pr, "evidence", 0)
  /\ Goto(t, IF tasks[t].probe THEN "pending" ELSE "log")
  /\ UNCHANGED <<config, gh, database, history, env, faults>>

PostEvidence(t) ==
  /\ Running(t, "evidence")
  /\ PostComment(tasks[t].pr, "evidence", 0)
  /\ Goto(t, IF tasks[t].probe THEN "challenge" ELSE "log")
  /\ UNCHANGED <<config, gh, database, history, env, faults>>

PostChallenge(t) ==
  /\ Running(t, "challenge")
  /\ PostComment(tasks[t].pr, "challenge", 0)
  /\ Goto(t, "pending")
  /\ UNCHANGED <<config, gh, database, history, env, faults>>

\* put_challenge overwrites whatever row is there.
PutPending(t) ==
  /\ Running(t, "pending")
  /\ challenge' = [challenge EXCEPT ![tasks[t].pr] = "pending"]
  /\ Goto(t, "log")
  /\ UNCHANGED <<github, hooks, events, verdicts, log, history, env, faults>>

\* The closing messages of execute, of the policy lane and of handle_reply.
PostClosing(t) ==
  /\ Running(t, "closing")
  /\ PostComment(tasks[t].pr, "closing", 0)
  /\ Goto(t, "close")
  /\ UNCHANGED <<config, gh, database, history, env, faults>>

ClosePr(t) ==
  /\ Running(t, "close")
  /\ gh' = [gh EXCEPT ![tasks[t].pr].open = FALSE]
  /\ Did(tasks[t].pr, "close")
  /\ Goto(t, "log")
  /\ UNCHANGED <<config, comments, hooks, database, live, overlapped, shield, env, faults>>

\* log_action, the last call of every handler that acts.  handle_reply logs
\* dry_run = false whatever the configuration says.
LogAction(t) ==
  LET task == tasks[t]
  IN  /\ Running(t, "log")
      /\ log' = log \cup {[pr |-> task.pr, action |-> task.act,
                           dry_run |-> task.act \notin ReplyNames /\ task.cfg.dry_run]}
      /\ Finish(t)
      /\ UNCHANGED <<github, hooks, events, verdicts, challenge, history, env, faults>>
-----------------------------------------------------------------------------
(* handle_reply *)

\* get_challenge and evaluate_reply: without a row, or when the reply changes
\* nothing, the handler returns.
GetChallenge(t) ==
  LET row  == challenge[tasks[t].pr]
      next == EvaluateReply(row, tasks[t].body)
  IN  /\ Running(t, "reply")
      /\ \/ /\ row = NoRow \/ next = row
            /\ Finish(t)
         \/ /\ row # NoRow /\ next # row
            /\ tasks' = [tasks EXCEPT ![t].pc = "answer", ![t].next = next]
      /\ UNCHANGED <<github, hooks, database, history, env, faults>>

\* A mutant: the outcome is stored and the close is left to the next event.
StoresOnly(t) ==
  LET task == tasks[t]
  IN  /\ Running(t, "answer")
      /\ challenge' = [challenge EXCEPT ![task.pr] = task.next]
      /\ tasks' = [tasks EXCEPT ![t].pc = "log",
                                ![t].act = IF task.next = "failed_canary" THEN "close-canary"
                                           ELSE "challenge-passed"]
      /\ UNCHANGED <<github, hooks, events, verdicts, log, history, env, faults>>

\* put_challenge with the outcome, over whatever the row has become since; the
\* canary closes, a human answer is only logged.
PutAnswer(t) ==
  LET task == tasks[t]
  IN  /\ Running(t, "answer")
      /\ challenge' = [challenge EXCEPT ![task.pr] = task.next]
      /\ tasks' = IF task.next = "failed_canary"
                  THEN [tasks EXCEPT ![t].pc = "closing", ![t].act = "close-canary"]
                  ELSE [tasks EXCEPT ![t].pc = "log", ![t].act = "challenge-passed"]
      /\ UNCHANGED <<github, hooks, events, verdicts, log, history, env, faults>>

-----------------------------------------------------------------------------
(* Faults.  A call that took effect but whose answer was lost is the effect *)
(* followed by Fail: the handler returns the error and the rest is skipped. *)

Fault == faults < MaxFaults /\ faults' = faults + 1

\* A call of the handler fails: the error is logged and the task is gone.
Fail(t) ==
  /\ ~Running(t, "idle")
  /\ Fault
  /\ Finish(t)
  /\ UNCHANGED <<github, hooks, database, history, env>>

\* The process dies with every task it runs.  The database survives.
Crash ==
  /\ \E t \in Tasks : ~Running(t, "idle")
  /\ Fault
  /\ tasks' = [t \in Tasks |-> Idle]
  /\ UNCHANGED <<github, hooks, database, history, env>>

\* A webhook that is not answered is not delivered again by itself.
LoseHook(h) ==
  /\ Fault
  /\ hooks' = hooks \ {h}
  /\ UNCHANGED <<github, tasks, database, history, env>>

-----------------------------------------------------------------------------
(* People *)

Person == env < MaxEnv /\ env' = env + 1

Emit(hook) == hooks' = hooks \cup {hook}

Push(p) ==
  /\ gh[p].open
  /\ Person
  /\ gh' = [gh EXCEPT ![p].head = @ + 1]
  /\ Emit(PullRequestHook(p, "synchronize", gh'[p]))
  /\ UNCHANGED <<config, comments, tasks, database, history, faults>>

Reopen(p) ==
  /\ ~gh[p].open
  /\ Person
  /\ gh' = [gh EXCEPT ![p].open = TRUE]
  /\ Emit(PullRequestHook(p, "reopened", gh'[p]))
  /\ UNCHANGED <<config, comments, tasks, database, history, faults>>

MarkReady(p) ==
  /\ gh[p].open /\ gh[p].draft
  /\ Person
  /\ gh' = [gh EXCEPT ![p].draft = FALSE]
  /\ Emit(PullRequestHook(p, "ready_for_review", gh'[p]))
  /\ UNCHANGED <<config, comments, tasks, database, history, faults>>

Close(p) ==
  /\ gh[p].open
  /\ Person
  /\ gh' = [gh EXCEPT ![p].open = FALSE]
  /\ Emit(PullRequestHook(p, "closed", gh'[p]))
  /\ UNCHANGED <<config, comments, tasks, database, history, faults>>

\* A maintainer adds a label, or takes it off.
AddOverride(p, label) ==
  /\ label \notin gh[p].labels
  /\ Person
  /\ gh' = [gh EXCEPT ![p].labels = @ \cup {label}]
  /\ Emit(PullRequestHook(p, "labeled", gh'[p]))
  /\ UNCHANGED <<config, comments, tasks, database, history, faults>>

\* What has applied to each pull request at every moment, this one included.
StillShielded == shield' = [p \in PRs |-> shield[p] \cap Exemptions(config', gh'[p])]

RemoveOverride(p, label) ==
  /\ label \in gh[p].labels
  /\ Person
  /\ gh' = [gh EXCEPT ![p].labels = @ \ {label}]
  /\ Emit(PullRequestHook(p, "unlabeled", gh'[p]))
  /\ UNCHANGED config
  /\ StillShielded
  /\ UNCHANGED <<comments, tasks, database, acted, live, overlapped, faults>>

\* Somebody comments.  The canary cannot be guessed: repeating it takes a
\* challenge on the same pull request.
Reply(p, body) ==
  /\ body = "parrot" => HasComment(p, "challenge")
  /\ Person
  /\ comments' = [comments EXCEPT ![p] = Append(@, [body |-> body, head |-> 0])]
  /\ Emit(CommentHook(p, body))
  /\ UNCHANGED <<config, gh, tasks, database, history, faults>>

\* pullsift.yml is edited, the lists of who is exempt with it; one that does not
\* parse is DefaultConfig.
Configure(c) ==
  /\ c # config
  /\ Person
  /\ config' = c
  /\ live' = (live \/ ~c.dry_run)
  /\ UNCHANGED gh
  /\ StillShielded
  /\ UNCHANGED <<comments, hooks, tasks, database, acted, overlapped, faults>>

-----------------------------------------------------------------------------

ScoreStep(t) ==
  \/ ReadConfig(t)
  \/ \E tier \in Tiers : Assess(t, tier)
  \/ Exempt(t) \/ PolicyClose(t) \/ SaveVerdict(t)
  \/ FindScore(t) \/ UpsertScore(t)
  \/ AddLabel(t) \/ ConvertToDraft(t) \/ PostEvidence(t) \/ PostChallenge(t) \/ PutPending(t)
  \/ PostClosing(t) \/ ClosePr(t) \/ LogAction(t)

ReplyStep(t) == GetChallenge(t) \/ PutAnswer(t)

Step(t) == ScoreStep(t) \/ ReplyStep(t)

Intake == \E h \in hooks :
  \/ \E t \in Tasks : TakePullRequest(t, h) \/ TakeComment(t, h)
  \/ Ignore(h)

Faulty ==
  \/ \E t \in Tasks : Fail(t)
  \/ Crash
  \/ \E h \in hooks : LoseHook(h)

People ==
  \/ \E p \in PRs : Push(p) \/ Reopen(p) \/ MarkReady(p) \/ Close(p)
  \/ \E p \in PRs, label \in Labels : AddOverride(p, label) \/ RemoveOverride(p, label)
  \/ \E p \in PRs, body \in PeopleBodies : Reply(p, body)
  \/ \E c \in Configs : Configure(c)

Next ==
  \/ Intake
  \/ \E t \in Tasks : Step(t)
  \/ Faulty
  \/ People

Spec == Init /\ [][Next]_vars

\* The runtime keeps polling every task and GitHub keeps delivering.
\* Nobody has to push, reply or configure.
Fairness ==
  /\ WF_vars(Intake)
  /\ \A t \in Tasks : WF_vars(Step(t))

FairSpec == Spec /\ Fairness
-----------------------------------------------------------------------------
(* Safety *)

\* A pull request is never closed in silence: whichever of the three paths
\* closed it (verdict, policy, canary), and whatever calls failed on the way,
\* the comment that explains the close and how to appeal is already there.
ExplainedClose ==
  \A p \in PRs : "close" \in acted[p] => HasComment(p, "closing")

\* actions_log never claims more than was done: a row is written after every
\* call of its action, so a crash or a failed call can lose a row but never
\* leave one for an enforcement that did not happen.
Judged(p)    == \E v \in verdicts : v.pr = p
LabelDone(p) == "label" \in acted[p] /\ HasComment(p, "evidence")
CloseDone(p) == "close" \in acted[p] /\ HasComment(p, "closing")
Closing      == {"close", "close-by-policy", "close-canary"}

IsTrue(action, p) ==
  /\ action = "comment" => HasComment(p, "score")
  /\ action \in {"label", "hold"} => LabelDone(p)
  /\ action = "hold" => "draft" \in acted[p]
  /\ action \in Closing => CloseDone(p)
  /\ action \in ExecuteNames => Judged(p)

LogIsTrue == \A row \in log : IsTrue(row.action, row.pr)

\* A reply is only ever judged against a question that was asked: a challenge
\* row exists only for a pull request on which the challenge was posted.
AskedBeforeJudged ==
  \A p \in PRs : challenge[p] # NoRow => HasComment(p, "challenge")

\* As long as the repository has never left dry run, the most that happens to
\* a pull request is a label and annotations: no draft, no close, no closing
\* message, and no challenge that a later reply could act on.
DryRunHarmless ==
  ~live => \A p \in PRs : /\ acted[p] \subseteq {"label"}
                          /\ ~HasComment(p, "closing")
                          /\ challenge[p] = NoRow

\* Rescores edit the one score comment: a second one takes two handlers of the
\* same pull request at the same time, or a first page filled by other comments.
OneScore(p) ==
  \A i, j \in DOMAIN comments[p] :
    comments[p][i].body = "score" /\ comments[p][j].body = "score" => i = j

OneScoreComment == \A p \in PRs : ~overlapped[p] /\ Len(comments[p]) <= Page => OneScore(p)

\* "Users never acted on", "a PR carrying any of these labels is never acted
\* on" (config.rs 51-53), as far as the code keeps it: a pull request to which
\* one and the same exemption has applied at every moment (its author, or a
\* label it carries, listed by every configuration so far, a broken file's
\* defaults included) is never touched, whatever is pushed, reopened, replied,
\* reconfigured or delivered twice.  Exemptions that take turns do not do:
\* the lists are of the handler's time and the labels of the payload's.  Nor
\* does one that comes after a challenge: handle_reply looks at none.
Untouched(p) ==
  /\ acted[p] = {}
  /\ \A i \in DOMAIN comments[p] : comments[p][i].body \notin BotBodies

ExemptUntouched == \A p \in PRs : shield[p] # {} => Untouched(p)

-----------------------------------------------------------------------------
(* The inductive invariant: what each handler has already done when it reaches a step *)

\* Before the evidence: the verdict is saved, the labels and the draft are on.
Annotates(task) ==
  /\ task.act \in {"label", "hold"}
  /\ Judged(task.pr)
  /\ task.pc # "label" => "label" \in acted[task.pr]
  /\ task.pc = "draft" => task.act = "hold"
  /\ task.pc \notin {"label", "draft"} /\ task.act = "hold" => "draft" \in acted[task.pr]

Progress(task) ==
  /\ task.pc = "save" => task.act \in ExecuteNames
  /\ task.pc \in {"find", "upsert"} => task.act = "comment" /\ Judged(task.pr)
  /\ task.pc = "upsert" /\ task.found # 0 => HasComment(task.pr, "score")
  /\ task.pc \in {"label", "draft", "evidence", "challenge", "pending"} => Annotates(task)
  /\ task.pc \in {"challenge", "pending"} => HasComment(task.pr, "evidence")
  /\ task.pc = "pending" => HasComment(task.pr, "challenge")
  /\ task.pc \in {"closing", "close"} =>
       task.act \in Closing /\ (task.act \in ExecuteNames => Judged(task.pr))
  /\ task.pc = "close" => HasComment(task.pr, "closing")
  /\ task.pc = "log" => IsTrue(task.act, task.pr)
  /\ task.pc = "answer" => challenge[task.pr] # NoRow

\* Every handler has done what its place says, the log is true, every close is
\* explained and every challenge row was asked.
ProgressInv ==
  /\ \A t \in Tasks : Progress(tasks[t])
  /\ LogIsTrue /\ ExplainedClose /\ AskedBeforeJudged

\* In a repository that never left dry run no handler is on the way to a
\* draft, a challenge, a close or the outcome of a reply.
DryTask(task) ==
  /\ task.cfg.dry_run
  /\ task.pc \notin {"draft", "challenge", "pending", "closing", "close", "answer"}
  /\ task.pc \in {"save", "label", "evidence"} =>
       task.act \in {"none", "comment", "label"} /\ ~task.probe

DryInv == ~live => config.dry_run /\ (\A t \in Tasks : DryTask(tasks[t])) /\ DryRunHarmless

\* The reasons in why are on a payload: its author, or labels it lists.
Carries(snapshot, why) == why \subseteq {snapshot.author} \cup snapshot.labels

\* A handler that got no further than what it is exempted by, for the reasons in why:
\* its payload carries them, and the configuration it read lists them.
ExemptTask(task, why) ==
  \/ task.pc \in {"idle", "reply"}
  \/ task.pc = "config" /\ Carries(task, why)
  \/ task.pc = "assess" /\ why \subseteq Exemptions(task.cfg, task)

\* Nothing was done to p, the configuration and p's webhooks have what shields it, and
\* a comment on it finds no challenge row.
LeftAlone(p) ==
  /\ Untouched(p)
  /\ challenge[p] = NoRow
  /\ shield[p] \subseteq Exemptions(config, gh[p])
  /\ \A h \in hooks : h.pr = p /\ h.event = "pull_request" => Carries(h, shield[p])
  /\ \A t \in Tasks : tasks[t].pr = p => ExemptTask(tasks[t], shield[p])

ExemptInv == \A p \in PRs : shield[p] # {} => LeftAlone(p)

\* At most one handler of p runs.
Busy(t, p) == ~Running(t, "idle") /\ tasks[t].pr = p
Alone(p)   == \A t, u \in Tasks : Busy(t, p) /\ Busy(u, p) => t = u

ScoresUpTo(p, head) ==
  \A i \in DOMAIN comments[p] : comments[p][i].body = "score" => comments[p][i].head <= head

\* What the only handler of a pull request may rely on: the challenge is still
\* pending when it has an outcome to store, no score is of a newer revision than
\* the one it judged, and where it found no score comment there is none.
Sole(task) ==
  /\ task.pc = "answer" => challenge[task.pr] = "pending"
  /\ task.pc \in {"save", "find", "upsert"} => ScoresUpTo(task.pr, task.head)
  /\ task.pc = "upsert" /\ task.found = 0 /\ Len(comments[task.pr]) <= Page =>
       ~HasComment(task.pr, "score")

Sound(task) ==
  /\ task.pc \in {"save", "find", "upsert"} => task.head <= gh[task.pr].head
  /\ ~overlapped[task.pr] => Sole(task)

\* Scores are of revisions that were pushed, and as long as handlers of a pull
\* request never overlapped there is at most one, which relies on what is so.
SoleInv ==
  /\ \A p \in PRs : ScoresUpTo(p, gh[p].head)
  /\ \A p \in PRs : ~overlapped[p] => Alone(p)
  /\ \A t \in Tasks : Sound(tasks[t])
  /\ OneScoreComment

-----------------------------------------------------------------------------
(* Action properties *)

\* A rescore never replaces the score of a newer revision by that of an older
\* one, although events arrive in any order and more than once: the revision
\* is read when the handler runs.  (Two handlers of one pull request at the
\* same time can.)
ScoreNeverGoesBack ==
  [][\A p \in PRs : ~overlapped'[p] =>
       \A i \in DOMAIN comments[p] :
         comments[p][i].body = "score" => comments'[p][i].head >= comments[p][i].head]_vars

\* Outside of overlapping handlers, a reply changes a challenge only while it
\* is pending, and a decided challenge only becomes pending again, when a
\* rescore holds the pull request anew.
DecidedOnce ==
  [][\A p \in PRs : ~overlapped'[p] /\ challenge[p] \in {"passed", "failed_canary"} =>
       challenge'[p] \in {challenge[p], "pending"}]_vars

-----------------------------------------------------------------------------
(* Liveness, when nothing fails *)

Substantial == Bodies \ {"short"}

\* Every push that GitHub tells of is judged, it or a newer one, whichever
\* handlers run meanwhile and whatever they read, unless a configuration
\* exempts the payload or closes by policy.  (A delivery that is lost is not
\* made again: main.rs answers 202 before it records.)
Judges(c, h) == ~c.mirror /\ ~IsExempt(c, h)

PushIsJudged ==
  \A p \in PRs, n \in 2 .. MaxEnv + 1 :
    (\E h \in hooks : /\ h.event = "pull_request" /\ h.pr = p
                     /\ h.what = "synchronize" /\ h.head = n
                     /\ \A c \in Configs : Judges(c, h))
      ~> (\E v \in verdicts : v.pr = p /\ v.head >= n)

\* A reply of substance that is on its way while the challenge is pending
\* takes the challenge out of pending.
AnswerResolves ==
  \A p \in PRs :
    (/\ challenge[p] = "pending"
     /\ \E h \in hooks : h.event = "issue_comment" /\ h.pr = p /\ h.what \in Substantial)
      ~> (challenge[p] # "pending")

\* A challenge failed on the canary closes the pull request.
CanaryCloses ==
  \A p \in PRs : (challenge[p] = "failed_canary") ~> ("close" \in acted[p])

-----------------------------------------------------------------------------
(* What documents and comments of the repository say, and the code does not *)

\* "Author replies on held PRs resolve pending challenges" (main.rs:425), by
\* repeating the canary or not: a challenge failed on the canary has a reply
\* that repeats it.
OnlyRepliesFailTheCanary ==
  \A p \in PRs : challenge[p] = "failed_canary" => HasComment(p, "parrot")
=============================================================================
