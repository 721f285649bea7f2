---------------------------- MODULE TriageProofs ----------------------------
(***************************************************************************)
(* Proofs about Triage, for any pull requests, any number of handlers and  *)
(* any bounds: first its types, then that what it does is explained, then  *)
(* what it never does.                                                     *)
(***************************************************************************)
EXTENDS Triage, SequenceTheorems, TLAPS

-----------------------------------------------------------------------------
(* Type correctness *)

LEMMA IdleType == Idle \in Task
<1>1. (CHOOSE p \in PRs : TRUE) \in PRs
  BY PRsAssumption
<1>2. DefaultConfig \in RepoConfig
  BY DEF DefaultConfig, RepoConfig, Authors, Labels
<1>3. "person" \in Authors
  BY DEF Authors
<1>4. QED
  BY <1>1, <1>2, <1>3 DEF Idle, Task, PCs, Bodies, BotBodies, PeopleBodies, Tiers,
       ActionNames, ExecuteNames, PolicyNames, ReplyNames, ChallengeState

LEMMA ExemptionsType ==
  ASSUME NEW cfg, NEW pull, pull.author \in Authors, pull.labels \subseteq Labels
  PROVE  Exemptions(cfg, pull) \subseteq Authors \cup Labels
BY DEF Exemptions

\* What plan returns is a planned action, whatever the configuration.
LEMMA PlanType ==
  ASSUME NEW tier \in Tiers, NEW probe \in BOOLEAN, NEW dry_run \in BOOLEAN,
         NEW score_comments \in BOOLEAN
  PROVE  Plan(tier, probe, dry_run, score_comments) \in PlannedAction
BY DEF Plan, Intended, Planned, PlannedAction, Tiers

\* A reply is evaluated to a challenge state, or leaves the missing row missing.
LEMMA ReplyType ==
  ASSUME NEW state \in ChallengeState \cup {NoRow}, NEW body \in Bodies
  PROVE  EvaluateReply(state, body) \in ChallengeState \cup {NoRow}
BY DEF EvaluateReply, ChallengeState

LEMMA HookTypes ==
  ASSUME NEW p \in PRs
  PROVE  /\ \A what \in Scorable \cup Unscored, pull \in PullRequest :
               PullRequestHook(p, what, pull) \in Hook
         /\ \A body \in Bodies : CommentHook(p, body) \in Hook
BY DEF PullRequestHook, CommentHook, Hook, PullRequest

\* What the handler of a pull request event takes from its payload.
LEMMA PayloadType ==
  ASSUME NEW h \in Hook, h.event = "pull_request"
  PROVE  h.pr \in PRs /\ h.author \in Authors /\ h.labels \in SUBSET Labels /\ h.head \in Nat
BY DEF Hook

LEMMA GotoType ==
  ASSUME TypeOK, NEW t \in Tasks, NEW pc \in PCs, Goto(t, pc)
  PROVE  tasks' \in [Tasks -> Task]
BY DEF TypeOK, Goto, Task

LEMMA FinishType ==
  ASSUME TypeOK, NEW t \in Tasks, Finish(t)
  PROVE  tasks' \in [Tasks -> Task]
BY IdleType DEF TypeOK, Finish

LEMMA DidType ==
  ASSUME TypeOK, NEW p \in PRs, NEW effect \in {"label", "draft", "close"}, Did(p, effect)
  PROVE  acted' \in [PRs -> SUBSET {"label", "draft", "close"}]
BY DEF TypeOK, Did

LEMMA PostType ==
  ASSUME TypeOK, NEW p \in PRs, NEW body \in Bodies, NEW head \in Nat, PostComment(p, body, head)
  PROVE  comments' \in [PRs -> Seq(Comment)] /\ hooks' \subseteq Hook
<1>1. comments' \in [PRs -> Seq(Comment)]
  <2>1. [body |-> body, head |-> head] \in Comment
    BY DEF Comment
  <2>2. Append(comments[p], [body |-> body, head |-> head]) \in Seq(Comment)
    BY <2>1, AppendProperties DEF TypeOK
  <2>3. QED
    BY <2>2 DEF TypeOK, PostComment
<1>2. hooks' \subseteq Hook
  BY HookTypes DEF TypeOK, PostComment
<1>3. QED
  BY <1>1, <1>2

LEMMA InitType == Init => TypeOK
<1> SUFFICES ASSUME Init PROVE TypeOK
  OBVIOUS
<1>1. tasks \in [Tasks -> Task]
  BY IdleType DEF Init
<1>2. gh \in [PRs -> PullRequest]
  BY DEF Init, PullRequest
<1>3. ASSUME NEW h \in hooks PROVE h \in Hook
  <2>1. PICK p \in PRs : h = PullRequestHook(p, "opened", gh[p])
    BY DEF Init
  <2>2. gh[p] \in PullRequest
    BY <1>2
  <2>3. QED
    BY <2>1, <2>2, HookTypes DEF Scorable
<1>5. shield \in [PRs -> SUBSET (Authors \cup Labels)]
  BY <1>2, ExemptionsType DEF Init, PullRequest
<1>4. QED
  BY <1>1, <1>2, <1>3, <1>5, ConfigsAssumption DEF Init, TypeOK, RepoConfig

\* The steps of intake.
LEMMA IntakeType == TypeOK /\ Intake => TypeOK'
<1> SUFFICES ASSUME TypeOK, NEW h \in hooks,
                    (\E t \in Tasks : TakePullRequest(t, h) \/ TakeComment(t, h)) \/ Ignore(h)
             PROVE  TypeOK'
  BY DEF Intake
<1>1. h \in Hook
  BY DEF TypeOK
<1>2. ASSUME NEW t \in Tasks, TakePullRequest(t, h) PROVE TypeOK'
  <2>1. [Idle EXCEPT !.pc = "config", !.pr = h.pr, !.author = h.author,
                !.labels = h.labels, !.head = h.head] \in Task
    <3>1. h.pr \in PRs /\ h.author \in Authors /\ h.labels \in SUBSET Labels /\ h.head \in Nat
      BY <1>1, <1>2, PayloadType DEF TakePullRequest
    <3>2. QED
      BY <3>1, IdleType DEF Task, PCs
  <2>2. tasks' \in [Tasks -> Task] /\ overlapped' \in [PRs -> BOOLEAN]
    BY <1>2, <2>1 DEF TypeOK, TakePullRequest, Start
  <2>3. events' \subseteq PRs \X Scorable
    BY <1>1, <1>2 DEF TypeOK, TakePullRequest, Hook
  <2>4. hooks' \subseteq Hook /\ faults' \in Nat
    BY <1>2 DEF TypeOK, TakePullRequest, Consume
  <2>5. QED
    BY <1>2, <2>2, <2>3, <2>4 DEF TypeOK, TakePullRequest, github
<1>3. ASSUME NEW t \in Tasks, TakeComment(t, h) PROVE TypeOK'
  <2>1. [Idle EXCEPT !.pc = "reply", !.pr = h.pr, !.body = h.what] \in Task
    BY <1>1, <1>3, IdleType DEF Task, Hook, PCs, TakeComment
  <2>2. tasks' \in [Tasks -> Task] /\ overlapped' \in [PRs -> BOOLEAN]
    BY <1>3, <2>1 DEF TypeOK, TakeComment, Start
  <2>3. hooks' \subseteq Hook /\ faults' \in Nat
    BY <1>3 DEF TypeOK, TakeComment, Consume
  <2>4. QED
    BY <1>3, <2>2, <2>3 DEF TypeOK, TakeComment, github, database
<1>4. CASE Ignore(h)
  BY <1>4 DEF TypeOK, Ignore, github, database, history
<1>5. QED
  BY <1>2, <1>3, <1>4
\* Editing the score in place keeps the comments well typed.
LEMMA EditType ==
  ASSUME TypeOK, NEW p \in PRs, NEW i \in Nat, NEW head \in Nat,
         comments' = [comments EXCEPT ![p][i].head = head]
  PROVE  comments' \in [PRs -> Seq(Comment)]
<1>1. comments[p] \in Seq(Comment)
  BY DEF TypeOK
<1> DEFINE cs     == comments[p]
           edited == [cs EXCEPT ![i] = [@ EXCEPT !.head = head]]
<1>2. edited \in Seq(Comment)
  <2>1. CASE i \in 1 .. Len(cs)
    <3> DEFINE comment == [cs[i] EXCEPT !.head = head]
    <3>0. cs[i] \in Comment
      BY <1>1, <2>1
    <3>1. comment \in Comment
      BY <3>0 DEF Comment
    <3>2. edited = [cs EXCEPT ![i] = comment]
      OBVIOUS
    <3> HIDE DEF comment, edited
    <3>3. QED
      BY <1>1, <2>1, <3>1, <3>2, ExceptSeq
  <2>2. CASE i \notin 1 .. Len(cs)
    <3>1. edited = cs
      BY <1>1, <2>2
    <3>2. QED
      BY <1>1, <3>1
  <2>3. QED
    BY <2>1, <2>2
<1>3. comments' = [comments EXCEPT ![p] = edited]
  OBVIOUS
<1>4. QED
  BY <1>2, <1>3 DEF TypeOK

\* The steps of score_and_act and execute.
LEMMA ScoreType ==
  ASSUME TypeOK, NEW t \in Tasks, ScoreStep(t)
  PROVE  TypeOK'
<1> DEFINE p == tasks[t].pr
<1>0. tasks \in [Tasks -> Task] /\ tasks[t] \in Task /\ p \in PRs
  BY DEF TypeOK, Task
<1>p. {"assess", "save", "upsert", "log", "closing"} \subseteq PCs
  BY DEF PCs
<1>1. CASE ReadConfig(t)
  <2>1. tasks' = [tasks EXCEPT ![t].pc = "assess", ![t].cfg = config] /\ config \in RepoConfig
    BY <1>1 DEF ReadConfig, TypeOK
  <2>. tasks' \in [Tasks -> Task]
    BY <1>0, <1>p, <2>1 DEF Task
  <2>2. QED
    BY <1>1 DEF ReadConfig, TypeOK, github, database, history
<1>2. ASSUME NEW tier \in Tiers, Assess(t, tier) PROVE TypeOK'
  <2> DEFINE plan == Plan(tier, tasks[t].cfg.challenge /\ tier = "hold", tasks[t].cfg.dry_run,
                          tasks[t].cfg.score_comments)
  <2>1. plan \in PlannedAction
    BY <1>0, PlanType DEF Task, RepoConfig
  <2>2. gh[p].head \in Nat
    BY <1>0 DEF TypeOK, PullRequest
  <2> HIDE DEF plan
  <2>3. plan.act \in ActionNames /\ plan.probe \in BOOLEAN
    BY <2>1 DEF PlannedAction, ActionNames, ExecuteNames
  <2>4. tasks' = [tasks EXCEPT ![t].pc = "save", ![t].tier = tier, ![t].head = gh[p].head,
                                ![t].act = plan.act, ![t].probe = plan.probe]
    BY <1>2 DEF Assess, plan
  <2>5. tasks' \in [Tasks -> Task]
    BY <1>0, <1>p, <2>2, <2>3, <2>4 DEF Task
  <2>6. QED
    BY <1>2, <2>5 DEF Assess, TypeOK, github, database, history
<1>3. CASE Exempt(t)
  BY <1>3, FinishType DEF Exempt, TypeOK, github, database, history
<1>4. CASE PolicyClose(t)
  <2>0. {"close-by-policy", "close-by-policy(dry)"} \subseteq ActionNames
    BY DEF ActionNames, PolicyNames
  <2>1. tasks' \in [Tasks -> Task]
    <3>1. CASE tasks' = [tasks EXCEPT ![t].pc = "log", ![t].act = "close-by-policy(dry)"]
      BY <1>0, <1>p, <2>0, <3>1 DEF Task
    <3>2. CASE tasks' = [tasks EXCEPT ![t].pc = "closing", ![t].act = "close-by-policy"]
      BY <1>0, <1>p, <2>0, <3>2 DEF Task
    <3>3. QED
      BY <1>4, <3>1, <3>2 DEF PolicyClose
  <2>2. QED
    BY <1>4, <2>1 DEF PolicyClose, TypeOK, github, database, history
<1>5. CASE SaveVerdict(t)
  <2>1. tasks' \in [Tasks -> Task]
    BY <1>5, GotoType DEF SaveVerdict, FirstCall, PCs
  <2>2. verdicts' \subseteq [pr : PRs, tier : Tiers, head : Nat]
    BY <1>0, <1>5 DEF SaveVerdict, TypeOK, Task
  <2>3. QED
    BY <1>5, <2>1, <2>2 DEF SaveVerdict, TypeOK, github, history
<1>6. CASE FindScore(t)
  <2>1. PICK first \in Nat : tasks' = [tasks EXCEPT ![t].pc = "upsert", ![t].found = first]
    <3>1. comments[p] \in Seq(Comment)
      BY <1>0 DEF TypeOK
    <3> DEFINE marked == {i \in DOMAIN comments[p] : i <= Page /\ comments[p][i].body = "score"}
    <3>2. marked \cup {0} \subseteq Nat
      BY <3>1
    <3>3. \E first \in marked \cup {0} :
            tasks' = [tasks EXCEPT ![t].pc = "upsert", ![t].found = first]
      BY <1>6 DEF FindScore
    <3>4. QED
      BY <3>2, <3>3
  <2>2. tasks' \in [Tasks -> Task]
    BY <1>0, <1>p, <2>1 DEF Task
  <2>3. QED
    BY <1>6, <2>2 DEF FindScore, TypeOK, github, database, history
<1>7. CASE UpsertScore(t)
  <2>1. tasks' \in [Tasks -> Task]
    BY <1>7, GotoType DEF UpsertScore, PCs
  <2>2. comments' \in [PRs -> Seq(Comment)] /\ hooks' \subseteq Hook
    <3>1. tasks[t].found \in Nat /\ tasks[t].head \in Nat
      BY <1>0 DEF Task
    <3>2. CASE tasks[t].found # 0
      <4>1. comments' = [comments EXCEPT ![p][tasks[t].found].head = tasks[t].head]
        BY <1>7, <3>2 DEF UpsertScore
      <4>2. comments' \in [PRs -> Seq(Comment)]
        BY <1>0, <3>1, <4>1, EditType
      <4>3. hooks' \subseteq Hook
        BY <1>7, <3>2 DEF UpsertScore, TypeOK
      <4>4. QED
        BY <4>2, <4>3
    <3>3. CASE tasks[t].found = 0
      BY <1>0, <1>7, <3>1, <3>3, PostType DEF UpsertScore, Bodies, BotBodies
    <3>4. QED
      BY <3>2, <3>3
  <2>3. QED
    BY <1>7, <2>1, <2>2 DEF UpsertScore, TypeOK, database, history
<1>8. CASE AddLabel(t)
  <2>1. gh' \in [PRs -> PullRequest]
    BY <1>0, <1>8 DEF AddLabel, TypeOK, PullRequest
  <2>2. tasks' \in [Tasks -> Task]
    BY <1>8, GotoType DEF AddLabel, PCs
  <2>3. QED
    BY <1>0, <1>8, <2>1, <2>2, DidType DEF AddLabel, TypeOK, database
<1>9. CASE ConvertToDraft(t)
  <2>1. gh' \in [PRs -> PullRequest]
    BY <1>0, <1>9 DEF ConvertToDraft, TypeOK, PullRequest
  <2>2. tasks' \in [Tasks -> Task]
    BY <1>9, GotoType DEF ConvertToDraft, PCs
  <2>3. QED
    BY <1>0, <1>9, <2>1, <2>2, DidType DEF ConvertToDraft, TypeOK, database
<1>10. CASE PostEvidence(t)
  <2>1. tasks' \in [Tasks -> Task]
    BY <1>10, GotoType DEF PostEvidence, PCs
  <2>2. comments' \in [PRs -> Seq(Comment)] /\ hooks' \subseteq Hook
    BY <1>0, <1>10, PostType DEF PostEvidence, Bodies, BotBodies
  <2>3. QED
    BY <1>10, <2>1, <2>2 DEF PostEvidence, TypeOK, database, history
<1>11. CASE PostChallenge(t)
  <2>1. tasks' \in [Tasks -> Task]
    BY <1>11, GotoType DEF PostChallenge, PCs
  <2>2. comments' \in [PRs -> Seq(Comment)] /\ hooks' \subseteq Hook
    BY <1>0, <1>11, PostType DEF PostChallenge, Bodies, BotBodies
  <2>3. QED
    BY <1>11, <2>1, <2>2 DEF PostChallenge, TypeOK, database, history
<1>12. CASE PutPending(t)
  <2>1. tasks' \in [Tasks -> Task]
    BY <1>12, GotoType DEF PutPending, PCs
  <2>2. QED
    BY <1>0, <1>12, <2>1 DEF PutPending, TypeOK, ChallengeState, github, history
<1>13. CASE PostClosing(t)
  <2>1. tasks' \in [Tasks -> Task]
    BY <1>13, GotoType DEF PostClosing, PCs
  <2>2. comments' \in [PRs -> Seq(Comment)] /\ hooks' \subseteq Hook
    BY <1>0, <1>13, PostType DEF PostClosing, Bodies, BotBodies
  <2>3. QED
    BY <1>13, <2>1, <2>2 DEF PostClosing, TypeOK, database, history
<1>14. CASE ClosePr(t)
  <2>1. gh' \in [PRs -> PullRequest]
    BY <1>0, <1>14 DEF ClosePr, TypeOK, PullRequest
  <2>2. tasks' \in [Tasks -> Task]
    BY <1>14, GotoType DEF ClosePr, PCs
  <2>3. QED
    BY <1>0, <1>14, <2>1, <2>2, DidType DEF ClosePr, TypeOK, database
<1>15. CASE LogAction(t)
  <2>1. log' \subseteq [pr : PRs, action : ActionNames, dry_run : BOOLEAN]
    <3> DEFINE dry_run == tasks[t].act \notin ReplyNames /\ tasks[t].cfg.dry_run
    <3>1. dry_run \in BOOLEAN
      OBVIOUS
    <3>2. tasks[t].act \in ActionNames
      BY <1>0 DEF Task
    <3>3. log' = log \cup {[pr |-> p, action |-> tasks[t].act, dry_run |-> dry_run]}
      BY <1>15 DEF LogAction
    <3> HIDE DEF dry_run
    <3>4. QED
      BY <1>0, <3>1, <3>2, <3>3 DEF TypeOK
  <2>2. QED
    BY <1>15, <2>1, FinishType DEF LogAction, TypeOK, github, history
<1>16. QED
  BY <1>1, <1>2, <1>3, <1>4, <1>5, <1>6, <1>7, <1>8, <1>9, <1>10, <1>11, <1>12, <1>13, <1>14,
     <1>15 DEF ScoreStep

\* The steps of handle_reply.
LEMMA ReplyStepType ==
  ASSUME TypeOK, NEW t \in Tasks, ReplyStep(t)
  PROVE  TypeOK'
<1> DEFINE p == tasks[t].pr
<1>0. tasks \in [Tasks -> Task] /\ tasks[t] \in Task /\ p \in PRs
  BY DEF TypeOK, Task
<1>p. {"answer", "closing", "log"} \subseteq PCs
  BY DEF PCs
<1>1. CASE GetChallenge(t)
  <2> DEFINE next == EvaluateReply(challenge[p], tasks[t].body)
  <2>1. tasks' \in [Tasks -> Task]
    <3>1. CASE Finish(t)
      BY <3>1, FinishType
    <3>2. CASE challenge[p] # NoRow /\ tasks' = [tasks EXCEPT ![t].pc = "answer", ![t].next = next]
      <4>1. challenge[p] \in ChallengeState
        BY <1>0, <3>2 DEF TypeOK
      <4>2. next \in ChallengeState
        BY <4>1 DEF EvaluateReply, ChallengeState
      <4> HIDE DEF next
      <4>3. QED
        BY <1>0, <1>p, <3>2, <4>2 DEF Task
    <3>3. QED
      BY <1>1, <3>1, <3>2 DEF GetChallenge
  <2>2. QED
    BY <1>1, <2>1 DEF GetChallenge, TypeOK, github, database, history
<1>2. CASE PutAnswer(t)
  <2>1. {"close-canary", "challenge-passed"} \subseteq ActionNames
    BY DEF ActionNames, ReplyNames
  <2>2. tasks' \in [Tasks -> Task]
    <3>1. CASE tasks' = [tasks EXCEPT ![t].pc = "closing", ![t].act = "close-canary"]
      BY <1>0, <1>p, <2>1, <3>1 DEF Task
    <3>2. CASE tasks' = [tasks EXCEPT ![t].pc = "log", ![t].act = "challenge-passed"]
      BY <1>0, <1>p, <2>1, <3>2 DEF Task
    <3>3. QED
      BY <1>2, <3>1, <3>2 DEF PutAnswer
  <2>3. challenge' \in [PRs -> ChallengeState \cup {NoRow}]
    BY <1>0, <1>2 DEF PutAnswer, TypeOK, Task
  <2>4. QED
    BY <1>2, <2>2, <2>3 DEF PutAnswer, TypeOK, github, history
<1>3. QED
  BY <1>1, <1>2 DEF ReplyStep

\* Failed calls, crashes and lost deliveries.
LEMMA FaultyType == TypeOK /\ Faulty => TypeOK'
<1> SUFFICES ASSUME TypeOK, Faulty PROVE TypeOK'
  OBVIOUS
<1>1. ASSUME NEW t \in Tasks, Fail(t) PROVE TypeOK'
  BY <1>1, FinishType DEF Fail, Fault, TypeOK, github, database, history
<1>2. CASE Crash
  BY <1>2, IdleType DEF Crash, Fault, TypeOK, github, database, history
<1>3. ASSUME NEW h \in hooks, LoseHook(h) PROVE TypeOK'
  BY <1>3 DEF LoseHook, Fault, TypeOK, github, database, history
<1>4. QED
  BY <1>1, <1>2, <1>3 DEF Faulty

\* What people do to a pull request keeps it well typed, and the hook it emits.
LEMMA GhType ==
  ASSUME TypeOK, NEW p \in PRs, gh' \in [PRs -> PullRequest],
         NEW what \in Scorable \cup Unscored, Emit(PullRequestHook(p, what, gh'[p]))
  PROVE  hooks' \subseteq Hook
<1>1. gh'[p] \in PullRequest
  OBVIOUS
<1>2. PullRequestHook(p, what, gh'[p]) \in Hook
  BY <1>1, HookTypes
<1>3. QED
  BY <1>2 DEF Emit, TypeOK

LEMMA PeopleType == TypeOK /\ People => TypeOK'
<1> SUFFICES ASSUME TypeOK, People PROVE TypeOK'
  OBVIOUS
<1>0. Scorable \cup Unscored = {"opened", "reopened", "synchronize", "ready_for_review", "closed",
                                "labeled", "unlabeled"}
  BY DEF Scorable, Unscored
<1>1. ASSUME NEW p \in PRs, Push(p) PROVE TypeOK'
  <2>1. gh' \in [PRs -> PullRequest]
    <3>1. gh \in [PRs -> PullRequest] /\ gh' = [gh EXCEPT ![p].head = gh[p].head + 1]
      BY <1>1 DEF Push, TypeOK
    <3>2. gh[p].head + 1 \in Nat
      BY <3>1 DEF PullRequest
    <3>3. QED
      BY <3>1, <3>2 DEF PullRequest
  <2>2. hooks' \subseteq Hook
    BY <1>0, <1>1, <2>1, GhType DEF Push
  <2>3. QED
    BY <1>1, <2>1, <2>2 DEF Push, Person, TypeOK, database, history
<1>2. ASSUME NEW p \in PRs, Reopen(p) PROVE TypeOK'
  <2>1. gh' \in [PRs -> PullRequest]
    BY <1>2 DEF Reopen, TypeOK, PullRequest
  <2>2. hooks' \subseteq Hook
    BY <1>0, <1>2, <2>1, GhType DEF Reopen
  <2>3. QED
    BY <1>2, <2>1, <2>2 DEF Reopen, Person, TypeOK, database, history
<1>3. ASSUME NEW p \in PRs, MarkReady(p) PROVE TypeOK'
  <2>1. gh' \in [PRs -> PullRequest]
    BY <1>3 DEF MarkReady, TypeOK, PullRequest
  <2>2. hooks' \subseteq Hook
    BY <1>0, <1>3, <2>1, GhType DEF MarkReady
  <2>3. QED
    BY <1>3, <2>1, <2>2 DEF MarkReady, Person, TypeOK, database, history
<1>4. ASSUME NEW p \in PRs, Close(p) PROVE TypeOK'
  <2>1. gh' \in [PRs -> PullRequest]
    BY <1>4 DEF Close, TypeOK, PullRequest
  <2>2. hooks' \subseteq Hook
    BY <1>0, <1>4, <2>1, GhType DEF Close
  <2>3. QED
    BY <1>4, <2>1, <2>2 DEF Close, Person, TypeOK, database, history
<1>5. ASSUME NEW p \in PRs, NEW label \in Labels,
             AddOverride(p, label) \/ RemoveOverride(p, label)
      PROVE  TypeOK'
  <2>1. gh' \in [PRs -> PullRequest]
    <3>1. gh \in [PRs -> PullRequest]
      BY DEF TypeOK
    <3>2. PICK labels \in SUBSET Labels : gh' = [gh EXCEPT ![p].labels = labels]
      BY <1>5, <3>1 DEF AddOverride, RemoveOverride, PullRequest
    <3>3. QED
      BY <3>1, <3>2 DEF PullRequest
  <2>2. hooks' \subseteq Hook
    BY <1>0, <1>5, <2>1, GhType DEF AddOverride, RemoveOverride
  <2>3. shield' \in [PRs -> SUBSET (Authors \cup Labels)]
    BY <1>5 DEF AddOverride, RemoveOverride, StillShielded, TypeOK, history
  <2>4. QED
    BY <1>5, <2>1, <2>2, <2>3 DEF AddOverride, RemoveOverride, Person, TypeOK, database, history
<1>6. ASSUME NEW p \in PRs, NEW body \in PeopleBodies, Reply(p, body) PROVE TypeOK'
  <2>1. body \in Bodies
    BY DEF Bodies
  <2>2. comments' \in [PRs -> Seq(Comment)]
    <3>1. [body |-> body, head |-> 0] \in Comment
      BY <2>1 DEF Comment
    <3>2. Append(comments[p], [body |-> body, head |-> 0]) \in Seq(Comment)
      BY <3>1, AppendProperties DEF TypeOK
    <3>3. QED
      BY <1>6, <3>2 DEF Reply, TypeOK
  <2>3. hooks' \subseteq Hook
    BY <1>6, <2>1, HookTypes DEF Reply, Emit, TypeOK
  <2>4. QED
    BY <1>6, <2>2, <2>3 DEF Reply, Person, TypeOK, database, history
<1>7. ASSUME NEW c \in Configs, Configure(c) PROVE TypeOK'
  <2>1. shield' \in [PRs -> SUBSET (Authors \cup Labels)]
    BY <1>7 DEF Configure, StillShielded, TypeOK
  <2>2. config' \in RepoConfig /\ live' \in BOOLEAN
    BY <1>7, ConfigsAssumption DEF Configure, RepoConfig
  <2>3. QED
    BY <1>7, <2>1, <2>2 DEF Configure, Person, TypeOK, database
<1>8. QED
  BY <1>1, <1>2, <1>3, <1>4, <1>5, <1>6, <1>7 DEF People

\* Every step keeps the types.
LEMMA NextType == TypeOK /\ [Next]_vars => TypeOK'
<1> SUFFICES ASSUME TypeOK, [Next]_vars PROVE TypeOK'
  OBVIOUS
<1>1. CASE Intake
  BY <1>1, IntakeType
<1>2. ASSUME NEW t \in Tasks, Step(t) PROVE TypeOK'
  BY <1>2, ScoreType, ReplyStepType DEF Step
<1>3. CASE Faulty
  BY <1>3, FaultyType
<1>4. CASE People
  BY <1>4, PeopleType
<1>5. CASE UNCHANGED vars
  BY <1>5 DEF vars, TypeOK
<1>6. QED
  BY <1>1, <1>2, <1>3, <1>4, <1>5 DEF Next

\* The service's state is well typed whatever its handlers, GitHub and people
\* do, in any order and with any faults.
THEOREM TypeCorrect == Spec => []TypeOK
<1>1. QED
  BY InitType, NextType, PTL DEF Spec

-----------------------------------------------------------------------------
(***************************************************************************)
(* The safety of Triage, for any pull requests, any number of handlers and *)
(* any bounds: ProgressInv is inductive relative to the types, and with it *)
(* every close is explained, the log is true and every challenge row was   *)
(* asked.                                                                  *)
(*                                                                         *)
(* The argument: what has been done is never undone (Grows), so what a     *)
(* handler established on its way to a step still holds at the step, and   *)
(* what a log row claimed still holds later, whatever the other handlers,  *)
(* the people and the faults do in between.                                *)
(***************************************************************************)

(* What is never undone *)

Grows ==
  \A p \in PRs :
    /\ \A body \in Bodies : HasComment(p, body) => HasComment(p, body)'
    /\ acted[p] \subseteq acted'[p]
    /\ Judged(p) => Judged(p)'
    /\ challenge[p] # NoRow => challenge'[p] # NoRow

\* What a step adds to the log, to the closed and to the challenged is justified.
Justified ==
  /\ \A row \in log' : row \in log \/ IsTrue(row.action, row.pr)'
  /\ \A p \in PRs :
       /\ "close" \in acted'[p] => "close" \in acted[p] \/ HasComment(p, "closing")'
       /\ challenge'[p] # NoRow => challenge[p] # NoRow \/ HasComment(p, "challenge")'

\* A new comment is added after the others.
LEMMA AppendKeeps ==
  ASSUME TypeOK, NEW p \in PRs, NEW new \in Comment,
         comments' = [comments EXCEPT ![p] = Append(@, new)]
  PROVE  /\ HasComment(p, new.body)'
         /\ \A q \in PRs, body \in Bodies : HasComment(q, body) => HasComment(q, body)'
<1> DEFINE cs == comments[p]
<1>0. cs \in Seq(Comment) /\ comments \in [PRs -> Seq(Comment)]
  BY DEF TypeOK
<1>1. comments'[p] = Append(cs, new)
  BY <1>0
<1>2. /\ DOMAIN comments'[p] = 1 .. Len(cs) + 1
      /\ comments'[p][Len(cs) + 1] = new
      /\ \A i \in DOMAIN cs : comments'[p][i] = cs[i]
  BY <1>0, <1>1
<1>3. HasComment(p, new.body)'
  BY <1>0, <1>2 DEF HasComment
<1>4. ASSUME NEW q \in PRs, NEW body \in Bodies, HasComment(q, body) PROVE HasComment(q, body)'
  <2>1. CASE q = p
    <3>1. PICK i \in DOMAIN cs : cs[i].body = body
      BY <1>4, <2>1 DEF HasComment
    <3>2. i \in DOMAIN comments'[p] /\ comments'[p][i].body = body
      BY <1>0, <1>2, <3>1
    <3>3. QED
      BY <2>1, <3>2 DEF HasComment
  <2>2. CASE q # p
    <3>1. comments'[q] = comments[q]
      BY <1>0, <2>2
    <3>2. QED
      BY <1>4, <3>1 DEF HasComment
  <2>3. QED
    BY <2>1, <2>2
<1>5. QED
  BY <1>3, <1>4

LEMMA PostKeeps ==
  ASSUME TypeOK, NEW p \in PRs, NEW body \in Bodies, NEW head \in Nat, PostComment(p, body, head)
  PROVE  /\ HasComment(p, body)'
         /\ \A q \in PRs, b \in Bodies : HasComment(q, b) => HasComment(q, b)'
<1> DEFINE new == [body |-> body, head |-> head]
<1>1. new \in Comment /\ new.body = body
  BY DEF Comment
<1>2. comments' = [comments EXCEPT ![p] = Append(@, new)]
  BY DEF PostComment
<1> HIDE DEF new
<1>3. QED
  BY <1>1, <1>2, AppendKeeps

\* An edit of the score changes no comment's kind.
LEMMA EditKeeps ==
  ASSUME TypeOK, NEW p \in PRs, NEW i \in Nat, NEW head \in Nat,
         comments' = [comments EXCEPT ![p][i].head = head]
  PROVE  \A q \in PRs, body \in Bodies : HasComment(q, body) <=> HasComment(q, body)'
<1>0. comments \in [PRs -> Seq(Comment)] /\ comments[p] \in Seq(Comment)
  BY DEF TypeOK
<1> DEFINE edited == [comments[p] EXCEPT ![i] = [@ EXCEPT !.head = head]]
<1>1. comments' = [comments EXCEPT ![p] = edited]
  OBVIOUS
<1>2. DOMAIN edited = DOMAIN comments[p]
  OBVIOUS
<1>3. ASSUME NEW j \in DOMAIN comments[p] PROVE edited[j].body = comments[p][j].body
  <2>0. comments[p][j] \in Comment
    BY <1>0
  <2>1. CASE j = i
    <3>1. edited[j] = [comments[p][j] EXCEPT !.head = head]
      BY <2>1
    <3>2. QED
      BY <2>0, <3>1 DEF Comment
  <2>2. CASE j # i
    <3>1. edited[j] = comments[p][j]
      BY <2>2
    <3>2. QED
      BY <3>1
  <2>3. QED
    BY <2>1, <2>2
<1> HIDE DEF edited
<1>4. \A q \in PRs : DOMAIN comments'[q] = DOMAIN comments[q]
  BY <1>0, <1>1, <1>2
<1>5. \A q \in PRs : \A j \in DOMAIN comments[q] : comments'[q][j].body = comments[q][j].body
  BY <1>0, <1>1, <1>3
<1>6. QED
  BY <1>4, <1>5 DEF HasComment

-----------------------------------------------------------------------------
(* What is true stays true *)

LEMMA IsTrueKept ==
  ASSUME Grows, NEW action \in ActionNames, NEW p \in PRs, IsTrue(action, p)
  PROVE  IsTrue(action, p)'
<1>1. {"score", "evidence", "closing"} \subseteq Bodies
  BY DEF Bodies, BotBodies
<1>2. QED
  BY <1>1 DEF Grows, IsTrue, LabelDone, CloseDone

LEMMA ProgressKept ==
  ASSUME TypeOK, Grows, NEW u \in Tasks, Progress(tasks[u]), tasks'[u] = tasks[u]
  PROVE  Progress(tasks[u])'
<1> DEFINE task == tasks[u]
<1>1. task.pr \in PRs /\ task.act \in ActionNames
  BY DEF TypeOK, Task
<1>2. {"score", "evidence", "closing", "challenge"} \subseteq Bodies
  BY DEF Bodies, BotBodies
<1>3. task.pc = "log" => IsTrue(task.act, task.pr)'
  BY <1>1, IsTrueKept DEF Progress
<1>4. Judged(task.pr) => Judged(task.pr)'
  BY <1>1 DEF Grows
<1>5. \A effect : effect \in acted[task.pr] => effect \in acted'[task.pr]
  BY <1>1 DEF Grows
<1>6. \A body \in Bodies : HasComment(task.pr, body) => HasComment(task.pr, body)'
  BY <1>1 DEF Grows
<1>7. challenge[task.pr] # NoRow => challenge'[task.pr] # NoRow
  BY <1>1 DEF Grows
<1>8. Annotates(task) => Annotates(task)'
  BY <1>4, <1>5 DEF Annotates
<1>9. QED
  BY <1>2, <1>3, <1>4, <1>6, <1>7, <1>8 DEF Progress

\* A step keeps the invariant when it undoes nothing, what it adds is
\* justified, and every handler it moves has done what its new place says.
LEMMA Kept ==
  ASSUME TypeOK, ProgressInv, Grows, Justified,
         \A u \in Tasks : tasks'[u] = tasks[u] \/ Progress(tasks[u])'
  PROVE  ProgressInv'
<1>1. \A u \in Tasks : Progress(tasks[u])'
  BY ProgressKept DEF ProgressInv
<1>2. LogIsTrue'
  <2> SUFFICES ASSUME NEW row \in log' PROVE IsTrue(row.action, row.pr)'
    BY DEF LogIsTrue
  <2>1. CASE row \in log
    <3>1. row.action \in ActionNames /\ row.pr \in PRs
      BY <2>1 DEF TypeOK
    <3>2. IsTrue(row.action, row.pr)
      BY <2>1 DEF ProgressInv, LogIsTrue
    <3>3. QED
      BY <3>1, <3>2, IsTrueKept
  <2>2. QED
    BY <2>1 DEF Justified
<1>3. "closing" \in Bodies /\ "challenge" \in Bodies
  BY DEF Bodies, BotBodies
<1>4. ExplainedClose'
  BY <1>3 DEF ProgressInv, ExplainedClose, Grows, Justified
<1>5. AskedBeforeJudged'
  BY <1>3 DEF ProgressInv, AskedBeforeJudged, Grows, Justified
<1>6. QED
  BY <1>1, <1>2, <1>4, <1>5 DEF ProgressInv

\* A handler that is idle has nothing to account for.
LEMMA IdleProgress ==
  ASSUME NEW u \in Tasks, tasks'[u].pc \in {"idle", "config", "reply", "assess"}
  PROVE  Progress(tasks[u])'
BY DEF Progress

\* A step that leaves GitHub's comments and effects and the database alone.
LEMMA Quiet ==
  ASSUME comments' = comments, acted' = acted, verdicts' = verdicts, log' = log,
         challenge' = challenge
  PROVE  Grows /\ Justified
BY DEF Grows, Justified, HasComment, Judged

\* A step that posts a comment and leaves the effects and the database alone.
LEMMA Posting ==
  ASSUME TypeOK, NEW p \in PRs, NEW body \in Bodies, NEW head \in Nat,
         PostComment(p, body, head), acted' = acted, verdicts' = verdicts, log' = log,
         challenge' = challenge
  PROVE  Grows /\ Justified /\ HasComment(p, body)'
<1>1. HasComment(p, body)' /\ \A q \in PRs, b \in Bodies : HasComment(q, b) => HasComment(q, b)'
  BY PostKeeps
<1>2. QED
  BY <1>1 DEF Grows, Justified, Judged

-----------------------------------------------------------------------------
(* The handler's steps *)

\* Only the handler that steps moves.
LEMMA Moved ==
  ASSUME TypeOK, NEW t \in Tasks, NEW pc, Goto(t, pc)
  PROVE  /\ tasks'[t].pc = pc
         /\ tasks'[t].pr = tasks[t].pr /\ tasks'[t].act = tasks[t].act
         /\ tasks'[t].probe = tasks[t].probe /\ tasks'[t].cfg = tasks[t].cfg
         /\ \A u \in Tasks \ {t} : tasks'[u] = tasks[u]
<1>1. tasks \in [Tasks -> Task] /\ tasks' = [tasks EXCEPT ![t].pc = pc]
  BY DEF TypeOK, Goto
<1>2. QED
  BY <1>1 DEF Task

LEMMA MovedAct ==
  ASSUME TypeOK, NEW t \in Tasks, NEW pc, NEW act,
         tasks' = [tasks EXCEPT ![t].pc = pc, ![t].act = act]
  PROVE  /\ tasks'[t].pc = pc /\ tasks'[t].act = act
         /\ tasks'[t].pr = tasks[t].pr
         /\ \A u \in Tasks \ {t} : tasks'[u] = tasks[u]
<1>1. tasks \in [Tasks -> Task]
  BY DEF TypeOK
<1>2. QED
  BY <1>1 DEF Task

LEMMA Finished ==
  ASSUME TypeOK, NEW t \in Tasks, Finish(t)
  PROVE  \A u \in Tasks : tasks'[u] = tasks[u] \/ Progress(tasks[u])'
<1>1. tasks'[t] = Idle /\ \A u \in Tasks \ {t} : tasks'[u] = tasks[u]
  BY DEF TypeOK, Finish
<1>2. Progress(tasks[t])'
  BY <1>1, IdleProgress DEF Idle
<1>3. QED
  BY <1>1, <1>2

\* score_and_act up to the verdict.
LEMMA JudgeProgress ==
  ASSUME TypeOK, ProgressInv, NEW t \in Tasks,
         ReadConfig(t) \/ (\E tier \in Tiers : Assess(t, tier)) \/ Exempt(t) \/ PolicyClose(t)
  PROVE  ProgressInv'
<1> DEFINE p == tasks[t].pr
<1>0. tasks \in [Tasks -> Task] /\ tasks[t] \in Task /\ p \in PRs
  BY DEF TypeOK, Task
<1>q. Grows /\ Justified
  BY Quiet DEF ReadConfig, Assess, Exempt, PolicyClose, github, database, history
<1>1. CASE ReadConfig(t)
  <2>1. tasks'[t].pc = "assess" /\ \A u \in Tasks \ {t} : tasks'[u] = tasks[u]
    BY <1>0, <1>1 DEF ReadConfig, Task
  <2>2. QED
    BY <1>q, <2>1, IdleProgress, Kept
<1>2. ASSUME NEW tier \in Tiers, Assess(t, tier) PROVE ProgressInv'
  <2> DEFINE plan == Plan(tier, tasks[t].cfg.challenge /\ tier = "hold", tasks[t].cfg.dry_run,
                          tasks[t].cfg.score_comments)
  <2>1. plan \in PlannedAction
    BY <1>0, PlanType DEF Task, RepoConfig
  <2> HIDE DEF plan
  <2>2. plan.act \in ExecuteNames
    BY <2>1 DEF PlannedAction, ExecuteNames
  <2>3. tasks' = [tasks EXCEPT ![t].pc = "save", ![t].tier = tier, ![t].head = gh[p].head,
                                ![t].act = plan.act, ![t].probe = plan.probe]
    BY <1>2 DEF Assess, plan
  <2>4. /\ tasks'[t].pc = "save" /\ tasks'[t].act = plan.act
        /\ \A u \in Tasks \ {t} : tasks'[u] = tasks[u]
    BY <1>0, <2>3 DEF Task
  <2>5. Progress(tasks[t])'
    BY <2>2, <2>4 DEF Progress
  <2>6. QED
    BY <1>q, <2>4, <2>5, Kept
<1>3. CASE Exempt(t)
  BY <1>q, <1>3, Finished, Kept DEF Exempt
<1>4. CASE PolicyClose(t)
  <2>1. \A u \in Tasks \ {t} : tasks'[u] = tasks[u]
    BY <1>4, MovedAct DEF PolicyClose
  <2>2. Progress(tasks[t])'
    <3>1. CASE tasks' = [tasks EXCEPT ![t].pc = "log", ![t].act = "close-by-policy(dry)"]
      <4>1. tasks'[t].pc = "log" /\ tasks'[t].act = "close-by-policy(dry)"
        BY <3>1, MovedAct
      <4>2. QED
        BY <4>1 DEF Progress, IsTrue, Closing, ExecuteNames
    <3>2. CASE tasks' = [tasks EXCEPT ![t].pc = "closing", ![t].act = "close-by-policy"]
      <4>1. tasks'[t].pc = "closing" /\ tasks'[t].act = "close-by-policy"
        BY <3>2, MovedAct
      <4>2. QED
        BY <4>1 DEF Progress, Closing, ExecuteNames
    <3>3. QED
      BY <1>4, <3>1, <3>2 DEF PolicyClose
  <2>3. QED
    BY <1>q, <2>1, <2>2, Kept
<1>5. QED
  BY <1>1, <1>2, <1>3, <1>4

LEMMA SaveProgress ==
  ASSUME TypeOK, ProgressInv, NEW t \in Tasks, SaveVerdict(t)
  PROVE  ProgressInv'
<1>0. PICK p \in PRs : p = tasks[t].pr
  BY DEF TypeOK, Task
<1>2. PICK act \in ExecuteNames : act = tasks[t].act
  BY DEF SaveVerdict, Running, ProgressInv, Progress
<1>1. Grows /\ Justified /\ Judged(p)'
  <2>1. PICK v \in [pr : PRs, tier : Tiers, head : Nat] : v.pr = p /\ verdicts' = verdicts \cup {v}
    BY <1>0 DEF SaveVerdict, TypeOK, Task
  <2>2. Judged(p)' /\ \A q \in PRs : Judged(q) => Judged(q)'
    BY <2>1 DEF Judged
  <2>3. comments' = comments /\ acted' = acted /\ log' = log /\ challenge' = challenge
    BY DEF SaveVerdict, github, history
  <2>4. QED
    BY <2>2, <2>3 DEF Grows, Justified, HasComment
<1>3. Goto(t, FirstCall(act))
  BY <1>2 DEF SaveVerdict
<1>4. /\ tasks'[t].pc = FirstCall(act) /\ tasks'[t].pr = p /\ tasks'[t].act = act
      /\ \A u \in Tasks \ {t} : tasks'[u] = tasks[u]
  BY <1>0, <1>2, <1>3, Moved
<1>5. Progress(tasks[t])'
  <2>1. CASE act = "none"
    BY <1>1, <1>4, <2>1 DEF Progress, FirstCall, IsTrue, Closing
  <2>2. CASE act = "comment"
    BY <1>1, <1>4, <2>2 DEF Progress, FirstCall
  <2>3. CASE act \in {"label", "hold"}
    BY <1>1, <1>4, <2>3 DEF Progress, FirstCall, Annotates
  <2>4. CASE act = "close"
    BY <1>1, <1>4, <2>4 DEF Progress, FirstCall, Closing
  <2>5. QED
    BY <2>1, <2>2, <2>3, <2>4 DEF ExecuteNames
<1>6. QED
  BY <1>1, <1>4, <1>5, Kept

\* The score comment.
LEMMA ScoreProgress ==
  ASSUME TypeOK, ProgressInv, NEW t \in Tasks, FindScore(t) \/ UpsertScore(t)
  PROVE  ProgressInv'
<1>0. PICK p \in PRs : p = tasks[t].pr
  BY DEF TypeOK, Task
<1>1. Progress(tasks[t])
  BY DEF ProgressInv
<1>2. CASE FindScore(t)
  <2>1. Grows /\ Justified
    BY <1>2, Quiet DEF FindScore, github, database, history
  <2>2. PICK first : /\ tasks' = [tasks EXCEPT ![t].pc = "upsert", ![t].found = first]
                     /\ first # 0 => HasComment(p, "score")
    BY <1>0, <1>2 DEF FindScore, HasComment
  <2>3. /\ tasks'[t].pc = "upsert" /\ tasks'[t].pr = p /\ tasks'[t].act = tasks[t].act
        /\ tasks'[t].found = first
        /\ \A u \in Tasks \ {t} : tasks'[u] = tasks[u]
    <3>1. tasks \in [Tasks -> Task]
      BY DEF TypeOK
    <3>2. QED
      BY <1>0, <2>2, <3>1 DEF Task
  <2>4. tasks[t].act = "comment" /\ Judged(p)
    BY <1>0, <1>1, <1>2 DEF FindScore, Running, Progress
  <2>5. Judged(p)' /\ (first # 0 => HasComment(p, "score")')
    BY <2>1, <2>2, <2>4 DEF Grows, Bodies, BotBodies
  <2>6. Progress(tasks[t])'
    BY <2>3, <2>4, <2>5 DEF Progress
  <2>7. QED
    BY <2>1, <2>3, <2>6, Kept
<1>3. CASE UpsertScore(t)
  <2>1. Grows /\ Justified /\ HasComment(p, "score")'
    <3>0. /\ acted' = acted /\ verdicts' = verdicts /\ log' = log /\ challenge' = challenge
      BY <1>3 DEF UpsertScore, database, history
    <3>1. tasks[t].found \in Nat /\ tasks[t].head \in Nat /\ "score" \in Bodies
      BY DEF TypeOK, Task, Bodies, BotBodies
    <3>2. CASE tasks[t].found = 0
      BY <1>0, <1>3, <3>0, <3>1, <3>2, Posting DEF UpsertScore
    <3>3. CASE tasks[t].found # 0
      <4>1. HasComment(p, "score")
        BY <1>0, <1>1, <1>3, <3>3 DEF UpsertScore, Running, Progress
      <4>2. comments' = [comments EXCEPT ![p][tasks[t].found].head = tasks[t].head]
        BY <1>0, <1>3, <3>3 DEF UpsertScore
      <4>3. \A q \in PRs, body \in Bodies : HasComment(q, body) <=> HasComment(q, body)'
        BY <3>1, <4>2, EditKeeps
      <4>4. QED
        BY <3>0, <3>1, <4>1, <4>3 DEF Grows, Justified, Judged
    <3>4. QED
      BY <3>2, <3>3
  <2>2. Goto(t, "log")
    BY <1>3 DEF UpsertScore
  <2>3. tasks'[t].pc = "log" /\ tasks'[t].pr = p /\ tasks'[t].act = "comment"
        /\ \A u \in Tasks \ {t} : tasks'[u] = tasks[u]
    BY <1>0, <1>1, <1>3, <2>2, Moved DEF UpsertScore, Running, Progress
  <2>4. Judged(p)'
    BY <1>0, <1>1, <1>3, <2>1 DEF UpsertScore, Running, Progress, Grows
  <2>5. Progress(tasks[t])'
    BY <2>1, <2>3, <2>4 DEF Progress, IsTrue, Closing
  <2>6. QED
    BY <2>1, <2>3, <2>5, Kept
<1>4. QED
  BY <1>2, <1>3

\* The effects on the pull request: label, draft, close.
LEMMA DidGrows ==
  ASSUME TypeOK, NEW p \in PRs, NEW effect \in {"label", "draft", "close"}, Did(p, effect),
         effect = "close" => HasComment(p, "closing"),
         comments' = comments, verdicts' = verdicts, log' = log, challenge' = challenge
  PROVE  Grows /\ Justified /\ effect \in acted'[p]
<1>1. /\ acted'[p] = acted[p] \cup {effect}
      /\ \A q \in PRs : q # p => acted'[q] = acted[q]
  BY DEF TypeOK, Did
<1>2. \A q \in PRs : acted[q] \subseteq acted'[q]
  BY <1>1
<1>3. ASSUME NEW q \in PRs, "close" \in acted'[q], "close" \notin acted[q]
      PROVE  HasComment(q, "closing")'
  BY <1>1, <1>3 DEF HasComment
<1>4. QED
  BY <1>1, <1>2, <1>3 DEF Grows, Justified, HasComment, Judged

LEMMA EffectProgress ==
  ASSUME TypeOK, ProgressInv, NEW t \in Tasks, AddLabel(t) \/ ConvertToDraft(t) \/ ClosePr(t)
  PROVE  ProgressInv'
<1>0. PICK p \in PRs : p = tasks[t].pr
  BY DEF TypeOK, Task
<1>p. PICK act \in ActionNames : act = tasks[t].act
  BY DEF TypeOK, Task
<1>1. Progress(tasks[t])
  BY DEF ProgressInv
<1>e. /\ comments' = comments /\ verdicts' = verdicts /\ log' = log /\ challenge' = challenge
  BY DEF AddLabel, ConvertToDraft, ClosePr, database
<1>2. CASE AddLabel(t)
  <2>1. act \in {"label", "hold"} /\ Judged(p)
    BY <1>0, <1>p, <1>1, <1>2 DEF AddLabel, Running, Progress, Annotates
  <2>2. Grows /\ Justified /\ "label" \in acted'[p]
    BY <1>0, <1>2, <1>e, DidGrows DEF AddLabel
  <2>3. Judged(p)'
    BY <2>1, <2>2 DEF Grows
  <2>4. Goto(t, IF act = "hold" THEN "draft" ELSE "evidence")
    BY <1>p, <1>2 DEF AddLabel
  <2>5. /\ tasks'[t].pc = IF act = "hold" THEN "draft" ELSE "evidence"
        /\ tasks'[t].pr = p /\ tasks'[t].act = act
        /\ \A u \in Tasks \ {t} : tasks'[u] = tasks[u]
    BY <1>0, <1>p, <2>4, Moved
  <2>6. Progress(tasks[t])'
    BY <2>1, <2>2, <2>3, <2>5 DEF Progress, Annotates
  <2>7. QED
    BY <2>2, <2>5, <2>6, Kept
<1>3. CASE ConvertToDraft(t)
  <2>1. act = "hold" /\ Judged(p) /\ "label" \in acted[p]
    BY <1>0, <1>p, <1>1, <1>3 DEF ConvertToDraft, Running, Progress, Annotates
  <2>2. Grows /\ Justified /\ "draft" \in acted'[p]
    BY <1>0, <1>3, <1>e, DidGrows DEF ConvertToDraft
  <2>3. Judged(p)' /\ "label" \in acted'[p]
    BY <2>1, <2>2 DEF Grows
  <2>4. Goto(t, "evidence")
    BY <1>3 DEF ConvertToDraft
  <2>5. /\ tasks'[t].pc = "evidence" /\ tasks'[t].pr = p /\ tasks'[t].act = act
        /\ \A u \in Tasks \ {t} : tasks'[u] = tasks[u]
    BY <1>0, <1>p, <2>4, Moved
  <2>6. Progress(tasks[t])'
    BY <2>1, <2>2, <2>3, <2>5 DEF Progress, Annotates
  <2>7. QED
    BY <2>2, <2>5, <2>6, Kept
<1>4. CASE ClosePr(t)
  <2>1. act \in Closing /\ (act \in ExecuteNames => Judged(p)) /\ HasComment(p, "closing")
    BY <1>0, <1>p, <1>1, <1>4 DEF ClosePr, Running, Progress
  <2>2. Grows /\ Justified /\ "close" \in acted'[p]
    BY <1>0, <1>4, <1>e, <2>1, DidGrows DEF ClosePr
  <2>3. (act \in ExecuteNames => Judged(p)') /\ HasComment(p, "closing")'
    BY <2>1, <2>2 DEF Grows, Bodies, BotBodies
  <2>4. Goto(t, "log")
    BY <1>4 DEF ClosePr
  <2>5. /\ tasks'[t].pc = "log" /\ tasks'[t].pr = p /\ tasks'[t].act = act
        /\ \A u \in Tasks \ {t} : tasks'[u] = tasks[u]
    BY <1>0, <1>p, <2>4, Moved
  <2>6. IsTrue(act, p)'
    BY <2>1, <2>2, <2>3 DEF IsTrue, Closing, CloseDone
  <2>7. Progress(tasks[t])'
    BY <2>5, <2>6 DEF Progress
  <2>8. QED
    BY <2>2, <2>5, <2>7, Kept
<1>5. QED
  BY <1>2, <1>3, <1>4

\* The comments of a hold or a label, and the message of a close.
LEMMA PostProgress ==
  ASSUME TypeOK, ProgressInv, NEW t \in Tasks,
         PostEvidence(t) \/ PostChallenge(t) \/ PostClosing(t)
  PROVE  ProgressInv'
<1>0. PICK p \in PRs : p = tasks[t].pr
  BY DEF TypeOK, Task
<1>p. PICK act \in ActionNames : act = tasks[t].act
  BY DEF TypeOK, Task
<1>1. Progress(tasks[t])
  BY DEF ProgressInv
<1>b. {"evidence", "challenge", "closing"} \subseteq Bodies
  BY DEF Bodies, BotBodies
<1>e. acted' = acted /\ verdicts' = verdicts /\ log' = log /\ challenge' = challenge
  BY DEF PostEvidence, PostChallenge, PostClosing, database, history
<1>2. CASE PostEvidence(t)
  <2>1. /\ act \in {"label", "hold"} /\ Judged(p) /\ "label" \in acted[p]
        /\ act = "hold" => "draft" \in acted[p]
    BY <1>0, <1>p, <1>1, <1>2 DEF PostEvidence, Running, Progress, Annotates
  <2>2. Grows /\ Justified /\ HasComment(p, "evidence")'
    BY <1>0, <1>2, <1>b, <1>e, Posting DEF PostEvidence
  <2>3. Judged(p)' /\ "label" \in acted'[p] /\ (act = "hold" => "draft" \in acted'[p])
    BY <2>1, <2>2 DEF Grows
  <2>4. PICK pc \in {"challenge", "log"} : Goto(t, pc)
    BY <1>2 DEF PostEvidence
  <2>5. /\ tasks'[t].pc = pc /\ tasks'[t].pr = p /\ tasks'[t].act = act
        /\ \A u \in Tasks \ {t} : tasks'[u] = tasks[u]
    BY <1>0, <1>p, <2>4, Moved
  <2>6. IsTrue(act, p)'
    BY <2>1, <2>2, <2>3 DEF IsTrue, LabelDone, Closing
  <2>7. Progress(tasks[t])'
    BY <2>1, <2>2, <2>3, <2>5, <2>6 DEF Progress, Annotates
  <2>8. QED
    BY <2>2, <2>5, <2>7, Kept
<1>3. CASE PostChallenge(t)
  <2>1. /\ act \in {"label", "hold"} /\ Judged(p) /\ "label" \in acted[p]
        /\ act = "hold" => "draft" \in acted[p]
        /\ HasComment(p, "evidence")
    BY <1>0, <1>p, <1>1, <1>3 DEF PostChallenge, Running, Progress, Annotates
  <2>2. Grows /\ Justified /\ HasComment(p, "challenge")'
    BY <1>0, <1>3, <1>b, <1>e, Posting DEF PostChallenge
  <2>3. /\ Judged(p)' /\ "label" \in acted'[p] /\ (act = "hold" => "draft" \in acted'[p])
        /\ HasComment(p, "evidence")'
    BY <1>b, <2>1, <2>2 DEF Grows
  <2>4. Goto(t, "pending")
    BY <1>3 DEF PostChallenge
  <2>5. /\ tasks'[t].pc = "pending" /\ tasks'[t].pr = p /\ tasks'[t].act = act
        /\ \A u \in Tasks \ {t} : tasks'[u] = tasks[u]
    BY <1>0, <1>p, <2>4, Moved
  <2>6. Progress(tasks[t])'
    BY <2>1, <2>2, <2>3, <2>5 DEF Progress, Annotates
  <2>7. QED
    BY <2>2, <2>5, <2>6, Kept
<1>4. CASE PostClosing(t)
  <2>1. act \in Closing /\ (act \in ExecuteNames => Judged(p))
    BY <1>0, <1>p, <1>1, <1>4 DEF PostClosing, Running, Progress
  <2>2. Grows /\ Justified /\ HasComment(p, "closing")'
    BY <1>0, <1>4, <1>b, <1>e, Posting DEF PostClosing
  <2>3. act \in ExecuteNames => Judged(p)'
    BY <2>1, <2>2 DEF Grows
  <2>4. Goto(t, "close")
    BY <1>4 DEF PostClosing
  <2>5. /\ tasks'[t].pc = "close" /\ tasks'[t].pr = p /\ tasks'[t].act = act
        /\ \A u \in Tasks \ {t} : tasks'[u] = tasks[u]
    BY <1>0, <1>p, <2>4, Moved
  <2>6. Progress(tasks[t])'
    BY <2>1, <2>2, <2>3, <2>5 DEF Progress
  <2>7. QED
    BY <2>2, <2>5, <2>6, Kept
<1>5. QED
  BY <1>2, <1>3, <1>4

\* The challenge row is stored after the challenge was posted.
LEMMA PendingProgress ==
  ASSUME TypeOK, ProgressInv, NEW t \in Tasks, PutPending(t)
  PROVE  ProgressInv'
<1>0. PICK p \in PRs : p = tasks[t].pr
  BY DEF TypeOK, Task
<1>p. PICK act \in ActionNames : act = tasks[t].act
  BY DEF TypeOK, Task
<1>1. Progress(tasks[t])
  BY DEF ProgressInv
<1>2. /\ act \in {"label", "hold"} /\ Judged(p) /\ "label" \in acted[p]
      /\ act = "hold" => "draft" \in acted[p]
      /\ HasComment(p, "evidence") /\ HasComment(p, "challenge")
  BY <1>0, <1>p, <1>1 DEF PutPending, Running, Progress, Annotates
<1>3. Grows /\ Justified
  <2>1. challenge' = [challenge EXCEPT ![p] = "pending"] /\ challenge \in [PRs -> ChallengeState \cup {NoRow}]
    BY <1>0 DEF PutPending, TypeOK
  <2>2. comments' = comments /\ acted' = acted /\ verdicts' = verdicts /\ log' = log
    BY DEF PutPending, github, history
  <2>3. "pending" # NoRow
    BY DEF NoRow
  <2>4. QED
    BY <1>2, <2>1, <2>2, <2>3 DEF Grows, Justified, HasComment, Judged
<1>4. /\ Judged(p)' /\ "label" \in acted'[p] /\ (act = "hold" => "draft" \in acted'[p])
      /\ HasComment(p, "evidence")'
  BY <1>2, <1>3 DEF Grows, Bodies, BotBodies
<1>5. Goto(t, "log")
  BY DEF PutPending
<1>6. /\ tasks'[t].pc = "log" /\ tasks'[t].pr = p /\ tasks'[t].act = act
      /\ \A u \in Tasks \ {t} : tasks'[u] = tasks[u]
  BY <1>0, <1>p, <1>5, Moved
<1>7. Progress(tasks[t])'
  BY <1>2, <1>4, <1>6 DEF Progress, IsTrue, LabelDone, Closing
<1>8. QED
  BY <1>3, <1>6, <1>7, Kept

LEMMA LogProgress ==
  ASSUME TypeOK, ProgressInv, NEW t \in Tasks, LogAction(t)
  PROVE  ProgressInv'
<1>0. PICK p \in PRs : p = tasks[t].pr
  BY DEF TypeOK, Task
<1>p. PICK act \in ActionNames : act = tasks[t].act
  BY DEF TypeOK, Task
<1>1. IsTrue(act, p)
  BY <1>0, <1>p DEF LogAction, Running, ProgressInv, Progress
<1>2. comments' = comments /\ acted' = acted /\ verdicts' = verdicts /\ challenge' = challenge
  BY DEF LogAction, github, history
<1>3. Grows
  BY <1>2 DEF Grows, HasComment, Judged
<1>4. IsTrue(act, p)'
  BY <1>1, <1>3, IsTrueKept
<1>5. PICK dry_run : log' = log \cup {[pr |-> p, action |-> act, dry_run |-> dry_run]}
  BY <1>0, <1>p DEF LogAction
<1>6. Justified
  BY <1>2, <1>4, <1>5 DEF Justified
<1>7. QED
  BY <1>3, <1>6, Finished, Kept DEF LogAction

\* handle_reply.
LEMMA ReplyProgress ==
  ASSUME TypeOK, ProgressInv, NEW t \in Tasks, ReplyStep(t)
  PROVE  ProgressInv'
<1>0. PICK p \in PRs : p = tasks[t].pr
  BY DEF TypeOK, Task
<1>1. CASE GetChallenge(t)
  <2>1. Grows /\ Justified
    BY <1>1, Quiet DEF GetChallenge, github, database, history
  <2>2. CASE Finish(t)
    BY <2>1, <2>2, Finished, Kept
  <2>3. CASE ~Finish(t)
    <3>1. PICK next : challenge[p] # NoRow /\ tasks' = [tasks EXCEPT ![t].pc = "answer", ![t].next = next]
      BY <1>0, <1>1, <2>3 DEF GetChallenge
    <3>2. /\ tasks'[t].pc = "answer" /\ tasks'[t].pr = p
          /\ \A u \in Tasks \ {t} : tasks'[u] = tasks[u]
      <4>1. tasks \in [Tasks -> Task]
        BY DEF TypeOK
      <4>2. QED
        BY <1>0, <3>1, <4>1 DEF Task
    <3>3. Progress(tasks[t])'
      BY <2>1, <3>1, <3>2 DEF Progress, Grows
    <3>4. QED
      BY <2>1, <3>2, <3>3, Kept
  <2>4. QED
    BY <2>2, <2>3
<1>2. CASE PutAnswer(t)
  <2>1. challenge[p] # NoRow /\ HasComment(p, "challenge")
    BY <1>0, <1>2 DEF PutAnswer, Running, ProgressInv, Progress, AskedBeforeJudged
  <2>2. comments' = comments /\ acted' = acted /\ verdicts' = verdicts /\ log' = log
    BY <1>2 DEF PutAnswer, github, history
  <2>3. PICK next \in ChallengeState : challenge' = [challenge EXCEPT ![p] = next]
    BY <1>0, <1>2 DEF PutAnswer, TypeOK, Task
  <2>4. next # NoRow
    BY DEF ChallengeState, NoRow
  <2>5. Grows /\ Justified
    <3>1. challenge \in [PRs -> ChallengeState \cup {NoRow}]
      BY DEF TypeOK
    <3>2. QED
      BY <2>1, <2>2, <2>3, <2>4, <3>1 DEF Grows, Justified, HasComment, Judged
  <2>6. \A u \in Tasks \ {t} : tasks'[u] = tasks[u]
    BY <1>2, MovedAct DEF PutAnswer
  <2>7. Progress(tasks[t])'
    <3>1. CASE tasks' = [tasks EXCEPT ![t].pc = "closing", ![t].act = "close-canary"]
      <4>1. tasks'[t].pc = "closing" /\ tasks'[t].act = "close-canary"
        BY <3>1, MovedAct
      <4>2. QED
        BY <4>1 DEF Progress, Closing, ExecuteNames
    <3>2. CASE tasks' = [tasks EXCEPT ![t].pc = "log", ![t].act = "challenge-passed"]
      <4>1. tasks'[t].pc = "log" /\ tasks'[t].act = "challenge-passed"
        BY <3>2, MovedAct
      <4>2. QED
        BY <4>1 DEF Progress, IsTrue, Closing, ExecuteNames
    <3>3. QED
      BY <1>2, <3>1, <3>2 DEF PutAnswer
  <2>8. QED
    BY <2>5, <2>6, <2>7, Kept
<1>3. QED
  BY <1>1, <1>2 DEF ReplyStep

LEMMA StepProgress ==
  ASSUME TypeOK, ProgressInv, NEW t \in Tasks, Step(t)
  PROVE  ProgressInv'
BY JudgeProgress, SaveProgress, ScoreProgress, EffectProgress, PostProgress, PendingProgress,
   LogProgress, ReplyProgress DEF Step, ScoreStep

-----------------------------------------------------------------------------
(* Intake, faults and people *)

LEMMA IntakeProgress == TypeOK /\ ProgressInv /\ Intake => ProgressInv'
<1> SUFFICES ASSUME TypeOK, ProgressInv, NEW h \in hooks,
                    (\E t \in Tasks : TakePullRequest(t, h) \/ TakeComment(t, h)) \/ Ignore(h)
             PROVE  ProgressInv'
  BY DEF Intake
<1>1. Grows /\ Justified
  BY Quiet DEF TakePullRequest, TakeComment, Ignore, github, database, history
<1>2. ASSUME NEW t \in Tasks, NEW task,
             task.pc \in {"config", "reply"}, Start(t, task)
      PROVE  ProgressInv'
  <2>1. tasks'[t] = task /\ \A u \in Tasks \ {t} : tasks'[u] = tasks[u]
    BY <1>2 DEF Start, TypeOK
  <2>2. Progress(tasks[t])'
    BY <1>2, <2>1, IdleProgress
  <2>3. QED
    BY <1>1, <2>1, <2>2, Kept
<1>3. ASSUME NEW t \in Tasks, TakePullRequest(t, h) PROVE ProgressInv'
  <2>1. PICK task : task = [Idle EXCEPT !.pc = "config", !.pr = h.pr, !.author = h.author,
                !.labels = h.labels, !.head = h.head]
    OBVIOUS
  <2>2. task.pc = "config"
    BY <2>1, IdleType DEF Task
  <2>3. Start(t, task)
    BY <1>3, <2>1 DEF TakePullRequest
  <2>4. QED
    BY <1>2, <2>2, <2>3
<1>4. ASSUME NEW t \in Tasks, TakeComment(t, h) PROVE ProgressInv'
  <2>1. PICK task : task = [Idle EXCEPT !.pc = "reply", !.pr = h.pr, !.body = h.what]
    OBVIOUS
  <2>2. task.pc = "reply"
    BY <2>1, IdleType DEF Task
  <2>3. Start(t, task)
    BY <1>4, <2>1 DEF TakeComment
  <2>4. QED
    BY <1>2, <2>2, <2>3
<1>5. CASE Ignore(h)
  BY <1>1, <1>5, Kept DEF Ignore
<1>6. QED
  BY <1>3, <1>4, <1>5

LEMMA FaultyProgress == TypeOK /\ ProgressInv /\ Faulty => ProgressInv'
<1> SUFFICES ASSUME TypeOK, ProgressInv, Faulty PROVE ProgressInv'
  OBVIOUS
<1>1. Grows /\ Justified
  BY Quiet DEF Faulty, Fail, Crash, LoseHook, github, database, history
<1>2. \A u \in Tasks : tasks'[u] = tasks[u] \/ Progress(tasks[u])'
  <2>1. ASSUME NEW t \in Tasks, Fail(t)
        PROVE  \A u \in Tasks : tasks'[u] = tasks[u] \/ Progress(tasks[u])'
    BY <2>1, Finished DEF Fail
  <2>2. CASE Crash
    <3>1. ASSUME NEW u \in Tasks PROVE Progress(tasks[u])'
      <4>1. tasks'[u] = Idle
        BY <2>2 DEF Crash
      <4>2. QED
        BY <4>1, IdleProgress DEF Idle
    <3>2. QED
      BY <3>1
  <2>3. CASE \E h \in hooks : LoseHook(h)
    BY <2>3 DEF LoseHook
  <2>4. QED
    BY <2>1, <2>2, <2>3 DEF Faulty
<1>3. QED
  BY <1>1, <1>2, Kept

LEMMA PeopleProgress == TypeOK /\ ProgressInv /\ People => ProgressInv'
<1> SUFFICES ASSUME TypeOK, ProgressInv, People PROVE ProgressInv'
  OBVIOUS
<1>1. acted' = acted /\ verdicts' = verdicts /\ log' = log /\ challenge' = challenge /\ tasks' = tasks
  BY DEF People, Push, Reopen, MarkReady, Close, AddOverride, RemoveOverride, Reply, Configure, database, history
<1>2. \A q \in PRs, b \in Bodies : HasComment(q, b) => HasComment(q, b)'
  <2>1. CASE comments' = comments
    BY <2>1 DEF HasComment
  <2>2. ASSUME NEW p \in PRs, NEW body \in PeopleBodies, Reply(p, body)
        PROVE  \A q \in PRs, b \in Bodies : HasComment(q, b) => HasComment(q, b)'
    <3> DEFINE new == [body |-> body, head |-> 0]
    <3>1. new \in Comment
      BY DEF Comment, Bodies
    <3>2. comments' = [comments EXCEPT ![p] = Append(@, new)]
      BY <2>2 DEF Reply
    <3> HIDE DEF new
    <3>3. QED
      BY <3>1, <3>2, AppendKeeps
  <2>3. QED
    BY <2>1, <2>2 DEF People, Push, Reopen, MarkReady, Close, AddOverride, RemoveOverride, Configure
<1>3. Grows /\ Justified
  BY <1>1, <1>2 DEF Grows, Justified, Judged
<1>4. QED
  BY <1>1, <1>3, Kept

-----------------------------------------------------------------------------
(* The theorems *)

LEMMA InitProgress == Init => ProgressInv
<1> SUFFICES ASSUME Init PROVE ProgressInv
  OBVIOUS
<1>1. ASSUME NEW t \in Tasks PROVE Progress(tasks[t])
  BY DEF Init, Idle, Progress
<1>2. QED
  BY <1>1 DEF Init, ProgressInv, LogIsTrue, ExplainedClose, AskedBeforeJudged

LEMMA NextProgress == TypeOK /\ ProgressInv /\ [Next]_vars => ProgressInv'
<1> SUFFICES ASSUME TypeOK, ProgressInv, [Next]_vars PROVE ProgressInv'
  OBVIOUS
<1>1. CASE UNCHANGED vars
  <2>1. Grows /\ Justified
    BY <1>1, Quiet DEF vars
  <2>2. QED
    BY <1>1, <2>1, Kept DEF vars
<1>2. QED
  BY <1>1, IntakeProgress, StepProgress, FaultyProgress, PeopleProgress DEF Next

\* Every handler has done what its place says: the inductive invariant holds.
THEOREM ProgressCorrect == Spec => []ProgressInv
<1>1. QED
  BY InitType, NextType, InitProgress, NextProgress, PTL DEF Spec

\* Whatever path closes a pull request and whatever fails on the way, the
\* comment that explains the close is there first.
THEOREM CloseIsExplained == Spec => []ExplainedClose
<1>1. ProgressInv => ExplainedClose
  BY DEF ProgressInv
<1>2. QED
  BY <1>1, ProgressCorrect, PTL

\* actions_log never claims an enforcement that did not happen.
THEOREM LogNeverLies == Spec => []LogIsTrue
<1>1. ProgressInv => LogIsTrue
  BY DEF ProgressInv
<1>2. QED
  BY <1>1, ProgressCorrect, PTL

\* No reply is judged against a challenge that was not posted.
THEOREM ChallengeWasAsked == Spec => []AskedBeforeJudged
<1>1. ProgressInv => AskedBeforeJudged
  BY DEF ProgressInv
<1>2. QED
  BY <1>1, ProgressCorrect, PTL

-----------------------------------------------------------------------------
(***************************************************************************)
(* What Triage never does, for any pull requests, any number of handlers   *)
(* and any bounds: in dry run nothing goes further than a label, a pull    *)
(* request that one exemption has covered all along is never acted on, and *)
(* where handlers of a pull request never overlapped its one score comment *)
(* never goes back and its challenge is decided once.                      *)
(*                                                                         *)
(* The first two invariants bound how far a handler can get, by the        *)
(* configuration it read, for the second together with the payload of its  *)
(* event, and both need that a reply finds no challenge row to act on.     *)
(* The third says what a handler that is alone may rely on from one await  *)
(* to the next.                                                            *)
(***************************************************************************)

(* What a comment adds *)

\* Posting adds nothing but the comment posted.
LEMMA AppendAdds ==
  ASSUME TypeOK, NEW p \in PRs, NEW new, comments' = [comments EXCEPT ![p] = Append(@, new)]
  PROVE  \A q \in PRs : \A b : HasComment(q, b)' => HasComment(q, b) \/ (q = p /\ b = new.body)
<1> DEFINE cs == comments[p]
<1>0. cs \in Seq(Comment) /\ comments \in [PRs -> Seq(Comment)]
  BY DEF TypeOK
<1>1. comments'[p] = Append(cs, new) /\ \A q \in PRs : q # p => comments'[q] = comments[q]
  BY <1>0
<1>2. ASSUME NEW i \in DOMAIN comments'[p]
      PROVE  comments'[p][i] = new \/ (i \in DOMAIN cs /\ comments'[p][i] = cs[i])
  BY <1>0, <1>1
<1>3. QED
  BY <1>1, <1>2 DEF HasComment

-----------------------------------------------------------------------------
(* Dry run *)

\* In dry run a plan is silence, a score or a label, and never carries a challenge.
LEMMA DryPlan ==
  ASSUME NEW tier \in Tiers, NEW probe, NEW score_comments \in BOOLEAN
  PROVE  LET plan == Plan(tier, probe, TRUE, score_comments)
         IN  plan.act \in {"none", "comment", "label"} /\ plan.probe = FALSE
BY DEF Plan, Intended, Planned, Tiers

LEMMA IdleDry == DryTask(Idle)
<1>1. Idle.pc = "idle" /\ Idle.cfg = DefaultConfig
  BY DEF Idle
<1>2. QED
  BY <1>1 DEF DryTask, DefaultConfig

\* A step keeps the invariant when the handlers it moves stay on the dry
\* course and what it does to a pull request is a label or an annotation.
LEMMA DryKept ==
  ASSUME TypeOK, DryInv, ~live, config' = config, challenge' = challenge,
         \A u \in Tasks : tasks'[u] = tasks[u] \/ DryTask(tasks'[u]),
         \A p \in PRs : acted'[p] \subseteq acted[p] \cup {"label"},
         \A p \in PRs : HasComment(p, "closing")' => HasComment(p, "closing")
  PROVE  DryInv'
<1>1. \A u \in Tasks : DryTask(tasks'[u])
  BY DEF DryInv
<1>2. QED
  BY <1>1 DEF DryInv, DryRunHarmless

\* A handler gone idle, and a handler that only moves on.
LEMMA FinishedDry ==
  ASSUME TypeOK, NEW t \in Tasks, Finish(t)
  PROVE  \A u \in Tasks : tasks'[u] = tasks[u] \/ DryTask(tasks'[u])
<1>1. tasks'[t] = Idle /\ \A u \in Tasks \ {t} : tasks'[u] = tasks[u]
  BY DEF TypeOK, Finish
<1>2. QED
  BY <1>1, IdleDry

LEMMA MovedDry ==
  ASSUME TypeOK, DryInv, ~live, NEW t \in Tasks, NEW pc, Goto(t, pc),
         \/ pc \in {"log", "find", "upsert"}
         \/ pc \in {"label", "evidence"} /\ tasks[t].act \in {"none", "comment", "label"}
                                         /\ ~tasks[t].probe
  PROVE  \A u \in Tasks : tasks'[u] = tasks[u] \/ DryTask(tasks'[u])
<1>1. DryTask(tasks[t])
  BY DEF DryInv
<1>2. DryTask(tasks'[t])
  BY <1>1, Moved DEF DryTask
<1>3. QED
  BY <1>2, Moved

\* score_and_act up to the verdict: the plan is made for dry run.
LEMMA JudgeDry ==
  ASSUME TypeOK, DryInv, ~live, NEW t \in Tasks,
         ReadConfig(t) \/ (\E tier \in Tiers : Assess(t, tier)) \/ Exempt(t) \/ PolicyClose(t)
  PROVE  DryInv'
<1>0. tasks \in [Tasks -> Task] /\ tasks[t] \in Task /\ DryTask(tasks[t]) /\ config.dry_run
  BY DEF TypeOK, DryInv
<1>q. /\ config' = config /\ challenge' = challenge /\ acted' = acted
      /\ \A p \in PRs : HasComment(p, "closing")' => HasComment(p, "closing")
  BY DEF ReadConfig, Assess, Exempt, PolicyClose, github, database, history, HasComment
<1>s. SUFFICES \A u \in Tasks : tasks'[u] = tasks[u] \/ DryTask(tasks'[u])
  BY <1>q, DryKept
<1>1. CASE ReadConfig(t)
  <2>1. /\ tasks'[t].pc = "assess" /\ tasks'[t].cfg = config
        /\ \A u \in Tasks \ {t} : tasks'[u] = tasks[u]
    BY <1>0, <1>1 DEF ReadConfig, Task
  <2>2. DryTask(tasks'[t])
    BY <1>0, <2>1 DEF DryTask
  <2>3. QED
    BY <2>1, <2>2
<1>2. ASSUME NEW tier \in Tiers, Assess(t, tier)
      PROVE  \A u \in Tasks : tasks'[u] = tasks[u] \/ DryTask(tasks'[u])
  <2> DEFINE plan == Plan(tier, tasks[t].cfg.challenge /\ tier = "hold", tasks[t].cfg.dry_run,
                          tasks[t].cfg.score_comments)
  <2>0. tasks[t].cfg.dry_run = TRUE /\ tasks[t].cfg.score_comments \in BOOLEAN
    BY <1>0 DEF Task, RepoConfig, DryTask
  <2>1. plan.act \in {"none", "comment", "label"} /\ plan.probe = FALSE
    BY <2>0, DryPlan
  <2> HIDE DEF plan
  <2>2. tasks' = [tasks EXCEPT ![t].pc = "save", ![t].tier = tier,
                               ![t].head = gh[tasks[t].pr].head,
                               ![t].act = plan.act, ![t].probe = plan.probe]
    BY <1>2 DEF Assess, plan
  <2>3. /\ tasks'[t].pc = "save" /\ tasks'[t].act = plan.act /\ tasks'[t].probe = plan.probe
        /\ tasks'[t].cfg = tasks[t].cfg
        /\ \A u \in Tasks \ {t} : tasks'[u] = tasks[u]
    BY <1>0, <2>2 DEF Task
  <2>4. DryTask(tasks'[t])
    BY <1>0, <2>1, <2>3 DEF DryTask
  <2>5. QED
    BY <2>3, <2>4
<1>3. CASE Exempt(t)
  BY <1>3, FinishedDry DEF Exempt
<1>4. CASE PolicyClose(t)
  <2>1. tasks' = [tasks EXCEPT ![t].pc = "log", ![t].act = "close-by-policy(dry)"]
    BY <1>0, <1>4 DEF PolicyClose, DryTask
  <2>2. /\ tasks'[t].pc = "log" /\ tasks'[t].cfg = tasks[t].cfg
        /\ \A u \in Tasks \ {t} : tasks'[u] = tasks[u]
    BY <1>0, <2>1 DEF Task
  <2>3. DryTask(tasks'[t])
    BY <1>0, <2>2 DEF DryTask
  <2>4. QED
    BY <2>2, <2>3
<1>5. QED
  BY <1>1, <1>2, <1>3, <1>4

\* What execute does with such a plan, and handle_reply without a row.
LEMMA ActDry ==
  ASSUME TypeOK, DryInv, ~live, NEW t \in Tasks,
         \/ SaveVerdict(t) \/ FindScore(t) \/ UpsertScore(t) \/ AddLabel(t) \/ PostEvidence(t)
         \/ LogAction(t) \/ GetChallenge(t)
  PROVE  DryInv'
<1>0. /\ tasks \in [Tasks -> Task] /\ tasks[t] \in Task /\ DryTask(tasks[t])
      /\ tasks[t].pr \in PRs /\ challenge[tasks[t].pr] = NoRow
  BY DEF TypeOK, DryInv, DryRunHarmless, Task
<1>1. config' = config /\ challenge' = challenge
  BY DEF SaveVerdict, FindScore, UpsertScore, AddLabel, PostEvidence, LogAction, GetChallenge,
         github, database
<1>2. \A p \in PRs : acted'[p] \subseteq acted[p] \cup {"label"}
  <2>1. CASE AddLabel(t)
    BY <1>0, <2>1 DEF AddLabel, Did, TypeOK
  <2>2. CASE acted' = acted
    BY <2>2
  <2>3. QED
    BY <2>1, <2>2 DEF SaveVerdict, FindScore, UpsertScore, PostEvidence, LogAction, GetChallenge,
       history
<1>3. \A p \in PRs : HasComment(p, "closing")' => HasComment(p, "closing")
  <2>1. CASE comments' = comments
    BY <2>1 DEF HasComment
  <2>2. ASSUME NEW body \in {"score", "evidence"}, NEW head, PostComment(tasks[t].pr, body, head)
        PROVE  \A p \in PRs : HasComment(p, "closing")' => HasComment(p, "closing")
    <3> DEFINE new == [body |-> body, head |-> head]
    <3>1. comments' = [comments EXCEPT ![tasks[t].pr] = Append(@, new)] /\ new.body # "closing"
      BY <2>2 DEF PostComment
    <3> HIDE DEF new
    <3>2. QED
      BY <1>0, <3>1, AppendAdds
  <2>3. CASE comments' = [comments EXCEPT ![tasks[t].pr][tasks[t].found].head = tasks[t].head]
    <3>1. tasks[t].found \in Nat /\ tasks[t].head \in Nat /\ "closing" \in Bodies
      BY <1>0 DEF Task, Bodies, BotBodies
    <3>2. QED
      BY <1>0, <2>3, <3>1, EditKeeps
  <2>4. QED
    BY <2>1, <2>2, <2>3 DEF SaveVerdict, FindScore, UpsertScore, AddLabel, PostEvidence, LogAction,
       GetChallenge, github
<1>4. \A u \in Tasks : tasks'[u] = tasks[u] \/ DryTask(tasks'[u])
  <2>1. CASE SaveVerdict(t)
    <3>1. Goto(t, FirstCall(tasks[t].act)) /\ tasks[t].act \in {"none", "comment", "label"}
                                           /\ ~tasks[t].probe
      BY <1>0, <2>1 DEF SaveVerdict, Running, DryTask
    <3>2. FirstCall(tasks[t].act) \in {"log", "find", "label"}
      BY <3>1 DEF FirstCall
    <3>3. QED
      BY <3>1, <3>2, MovedDry
  <2>2. CASE FindScore(t)
    <3>1. PICK first : tasks' = [tasks EXCEPT ![t].pc = "upsert", ![t].found = first]
      BY <2>2 DEF FindScore
    <3>2. /\ tasks'[t].pc = "upsert" /\ tasks'[t].cfg = tasks[t].cfg
          /\ \A u \in Tasks \ {t} : tasks'[u] = tasks[u]
      BY <1>0, <3>1 DEF Task
    <3>3. DryTask(tasks'[t])
      BY <1>0, <3>2 DEF DryTask
    <3>4. QED
      BY <3>2, <3>3
  <2>3. CASE UpsertScore(t)
    BY <2>3, MovedDry DEF UpsertScore
  <2>4. CASE AddLabel(t)
    BY <1>0, <2>4, MovedDry DEF AddLabel, Running, DryTask
  <2>5. CASE PostEvidence(t)
    BY <1>0, <2>5, MovedDry DEF PostEvidence, Running, DryTask
  <2>6. CASE LogAction(t)
    BY <2>6, FinishedDry DEF LogAction
  <2>7. CASE GetChallenge(t)
    BY <1>0, <2>7, FinishedDry DEF GetChallenge
  <2>8. QED
    BY <2>1, <2>2, <2>3, <2>4, <2>5, <2>6, <2>7
<1>5. QED
  BY <1>1, <1>2, <1>3, <1>4, DryKept

\* No handler is at any of the other steps.
LEMMA StepDry ==
  ASSUME TypeOK, DryInv, ~live, NEW t \in Tasks, Step(t)
  PROVE  DryInv'
<1>1. DryTask(tasks[t])
  BY DEF DryInv
<1>2. ~(ConvertToDraft(t) \/ PostChallenge(t) \/ PutPending(t) \/ PostClosing(t) \/ ClosePr(t)
        \/ PutAnswer(t))
  BY <1>1 DEF ConvertToDraft, PostChallenge, PutPending, PostClosing, ClosePr, PutAnswer, Running,
       DryTask
<1>3. QED
  BY <1>2, JudgeDry, ActDry DEF Step, ScoreStep, ReplyStep

LEMMA RestDry ==
  ASSUME TypeOK, DryInv, ~live, ~live', Intake \/ Faulty \/ People
  PROVE  DryInv'
<1>i. ASSUME NEW p \in PRs, HasComment(p, "closing")' , comments' = comments
      PROVE  HasComment(p, "closing")
  BY <1>i DEF HasComment
<1>1. CASE Intake
  <2>1. config' = config /\ challenge' = challenge /\ acted' = acted /\ comments' = comments
    BY <1>1 DEF Intake, TakePullRequest, TakeComment, Ignore, github, database, history
  <2>2. ASSUME NEW t \in Tasks, NEW task, Start(t, task), DryTask(task)
        PROVE  \A u \in Tasks : tasks'[u] = tasks[u] \/ DryTask(tasks'[u])
    <3>1. tasks'[t] = task /\ \A u \in Tasks \ {t} : tasks'[u] = tasks[u]
      BY <2>2 DEF Start, TypeOK
    <3>2. QED
      BY <2>2, <3>1
  <2>3. ASSUME NEW h \in hooks, NEW t \in Tasks, TakePullRequest(t, h) \/ TakeComment(t, h)
        PROVE  \E task : Start(t, task) /\ DryTask(task)
    <3>1. CASE TakePullRequest(t, h)
      <4>1. PICK task : task = [Idle EXCEPT !.pc = "config", !.pr = h.pr, !.author = h.author,
                                          !.labels = h.labels,
                                            !.head = h.head]
        OBVIOUS
      <4>2. task.pc = "config" /\ task.cfg = Idle.cfg
        BY <4>1, IdleType DEF Task
      <4>3. DryTask(task)
        BY <4>2, IdleDry DEF DryTask
      <4>4. QED
        BY <3>1, <4>1, <4>3 DEF TakePullRequest
    <3>2. CASE TakeComment(t, h)
      <4>1. PICK task : task = [Idle EXCEPT !.pc = "reply", !.pr = h.pr, !.body = h.what]
        OBVIOUS
      <4>2. task.pc = "reply" /\ task.cfg = Idle.cfg
        BY <4>1, IdleType DEF Task
      <4>3. DryTask(task)
        BY <4>2, IdleDry DEF DryTask
      <4>4. QED
        BY <3>2, <4>1, <4>3 DEF TakeComment
    <3>3. QED
      BY <2>3, <3>1, <3>2
  <2>4. \A u \in Tasks : tasks'[u] = tasks[u] \/ DryTask(tasks'[u])
    <3>1. CASE \E h \in hooks : Ignore(h)
      BY <3>1 DEF Ignore
    <3>2. QED
      BY <1>1, <2>2, <2>3, <3>1 DEF Intake
  <2>5. QED
    BY <1>i, <2>1, <2>4, DryKept
<1>2. CASE Faulty
  <2>1. config' = config /\ challenge' = challenge /\ acted' = acted /\ comments' = comments
    BY <1>2 DEF Faulty, Fail, Crash, LoseHook, github, database, history
  <2>2. \A u \in Tasks : tasks'[u] = tasks[u] \/ DryTask(tasks'[u])
    <3>1. ASSUME NEW t \in Tasks, Fail(t)
          PROVE  \A u \in Tasks : tasks'[u] = tasks[u] \/ DryTask(tasks'[u])
      BY <3>1, FinishedDry DEF Fail
    <3>2. CASE Crash
      BY <3>2, IdleDry DEF Crash
    <3>3. CASE \E h \in hooks : LoseHook(h)
      BY <3>3 DEF LoseHook
    <3>4. QED
      BY <1>2, <3>1, <3>2, <3>3 DEF Faulty
  <2>3. QED
    BY <1>i, <2>1, <2>2, DryKept
<1>3. CASE People
  <2>1. tasks' = tasks /\ challenge' = challenge /\ acted' = acted
    BY <1>3 DEF People, Push, Reopen, MarkReady, Close, AddOverride, RemoveOverride, Reply, Configure, database, history
  <2>2. \A p \in PRs : HasComment(p, "closing")' => HasComment(p, "closing")
    <3>1. CASE comments' = comments
      BY <1>i, <3>1
    <3>2. ASSUME NEW q \in PRs, NEW body \in PeopleBodies, Reply(q, body)
          PROVE  \A p \in PRs : HasComment(p, "closing")' => HasComment(p, "closing")
      <4> DEFINE new == [body |-> body, head |-> 0]
      <4>1. comments' = [comments EXCEPT ![q] = Append(@, new)] /\ new.body # "closing"
        BY <3>2 DEF Reply, PeopleBodies
      <4> HIDE DEF new
      <4>2. QED
        BY <4>1, AppendAdds
    <3>3. QED
      BY <1>3, <3>1, <3>2 DEF People, Push, Reopen, MarkReady, Close, AddOverride, RemoveOverride, Configure
  <2>3. config'.dry_run
    <3>1. CASE config' = config
      BY <3>1 DEF DryInv
    <3>2. ASSUME NEW c \in Configs, Configure(c) PROVE config'.dry_run
      BY <3>2 DEF Configure
    <3>3. QED
      BY <1>3, <3>1, <3>2 DEF People, Push, Reopen, MarkReady, Close, AddOverride, RemoveOverride, Reply
  <2>4. QED
    BY <2>1, <2>2, <2>3 DEF DryInv, DryRunHarmless
<1>4. QED
  BY <1>1, <1>2, <1>3

LEMMA InitDry == Init => DryInv
<1> SUFFICES ASSUME Init PROVE DryInv
  OBVIOUS
<1>1. config \in RepoConfig
  BY ConfigsAssumption DEF Init
<1>2. \A t \in Tasks : DryTask(tasks[t])
  BY IdleDry DEF Init
<1>3. DryRunHarmless
  BY DEF Init, DryRunHarmless, HasComment
<1>4. ~live => config.dry_run
  BY <1>1 DEF Init, RepoConfig
<1>5. QED
  BY <1>2, <1>3, <1>4 DEF DryInv

LEMMA NextDry == TypeOK /\ DryInv /\ [Next]_vars => DryInv'
<1> SUFFICES ASSUME TypeOK, DryInv, [Next]_vars PROVE DryInv'
  OBVIOUS
<1>1. CASE live'
  BY <1>1 DEF DryInv, DryRunHarmless
<1>2. CASE ~live'
  <2>1. ~live
    BY <1>2 DEF vars, Next, Intake, TakePullRequest, TakeComment, Ignore, Step, ScoreStep, ReplyStep,
       ReadConfig, Assess, Exempt, PolicyClose, SaveVerdict, FindScore, UpsertScore, AddLabel,
       ConvertToDraft, PostEvidence, PostChallenge, PutPending, PostClosing, ClosePr, LogAction,
       GetChallenge, PutAnswer, Faulty, Fail, Crash, LoseHook, People, Push, Reopen, MarkReady,
       Close, AddOverride, RemoveOverride, Reply, Configure, history
  <2>2. CASE UNCHANGED vars
    <3>1. /\ config' = config /\ tasks' = tasks /\ acted' = acted /\ comments' = comments
          /\ challenge' = challenge
      BY <2>2 DEF vars, github, history
    <3>2. \A p \in PRs : HasComment(p, "closing")' => HasComment(p, "closing")
      BY <3>1 DEF HasComment
    <3>3. QED
      BY <2>1, <3>1, <3>2, DryKept
  <2>3. QED
    BY <1>2, <2>1, <2>2, StepDry, RestDry DEF Next
<1>3. QED
  BY <1>1, <1>2

\* In a repository that never left dry run, the most the service does to a
\* pull request is a label and annotations, in any order of events and with
\* any faults: no draft, no close and nothing a later reply could act on.
THEOREM DryRunIsHarmless == Spec => []DryRunHarmless
<1>1. DryInv => DryRunHarmless
  BY DEF DryInv, DryRunHarmless
<1>2. QED
  BY <1>1, InitType, NextType, InitDry, NextDry, PTL DEF Spec

-----------------------------------------------------------------------------
(* Exemptions *)

\* A snapshot that carries reasons which a configuration lists is exempted for them:
\* no author is a label.
LEMMA CarriedIsExempt ==
  ASSUME NEW cfg \in RepoConfig, NEW pull, NEW x, NEW why,
         x.author \in Authors, x.labels \subseteq Labels,
         pull.author \in Authors, pull.labels \subseteq Labels,
         why \subseteq Exemptions(cfg, pull), Carries(x, why)
  PROVE  why \subseteq Exemptions(cfg, x)
<1>1. cfg.exempt_users \subseteq Authors /\ cfg.exempt_labels \subseteq Labels
  BY DEF RepoConfig
<1>2. Authors \cap Labels = {}
  BY DEF Authors, Labels
<1>3. QED
  BY <1>1, <1>2, Zenon DEF Exemptions, Carries

\* What shields p only ever gets less, and it applies after every step as it did before.
LEMMA ShieldHolds ==
  ASSUME TypeOK, NEW p \in PRs, [Next]_vars, shield[p] \subseteq Exemptions(config, gh[p])
  PROVE  shield'[p] \subseteq shield[p] /\ shield'[p] \subseteq Exemptions(config', gh'[p])
<1>0. gh \in [PRs -> PullRequest]
  BY DEF TypeOK
<1>1. CASE StillShielded
  BY <1>1 DEF StillShielded
<1>2. ASSUME shield' = shield, config' = config, gh'[p].author = gh[p].author,
             gh[p].labels \subseteq gh'[p].labels
      PROVE  shield'[p] \subseteq shield[p] /\ shield'[p] \subseteq Exemptions(config', gh'[p])
  BY <1>2 DEF Exemptions
<1>3. CASE shield' = shield /\ config' = config /\ gh' = gh
  BY <1>2, <1>3
<1>4. ASSUME NEW q \in PRs,
             \/ Push(q) \/ Reopen(q) \/ MarkReady(q) \/ Close(q)
             \/ \E label \in Labels : AddOverride(q, label)
      PROVE  /\ shield' = shield /\ config' = config
             /\ gh'[p].author = gh[p].author /\ gh[p].labels \subseteq gh'[p].labels
  BY <1>0, <1>4 DEF Push, Reopen, MarkReady, Close, AddOverride, PullRequest, history
<1>5. ASSUME NEW t \in Tasks, AddLabel(t) \/ ConvertToDraft(t) \/ ClosePr(t)
      PROVE  /\ shield' = shield /\ config' = config
             /\ gh'[p].author = gh[p].author /\ gh[p].labels \subseteq gh'[p].labels
  BY <1>0, <1>5 DEF AddLabel, ConvertToDraft, ClosePr, PullRequest
<1>6. CASE People
  BY <1>1, <1>2, <1>3, <1>4, <1>6 DEF People, RemoveOverride, Reply, Configure, history
<1>7. CASE Intake \/ Faulty \/ UNCHANGED vars
  BY <1>3, <1>7 DEF Intake, TakePullRequest, TakeComment, Ignore, Faulty, Fail, Crash, LoseHook,
     vars, github, history
<1>8. ASSUME NEW t \in Tasks, Step(t)
      PROVE  shield'[p] \subseteq shield[p] /\ shield'[p] \subseteq Exemptions(config', gh'[p])
  BY <1>2, <1>3, <1>5, <1>8 DEF Step, ScoreStep, ReplyStep, ReadConfig, Assess, Exempt, PolicyClose,
     SaveVerdict, FindScore, UpsertScore, PostEvidence, PostChallenge, PutPending, PostClosing,
     LogAction, GetChallenge, PutAnswer, github, history
<1>9. QED
  BY <1>6, <1>7, <1>8 DEF Next

\* A step leaves p alone when it does nothing to p, when what it emits for p
\* carries what shields it, and when the handlers of p it moves stay exempt.
LEMMA AloneKept ==
  ASSUME TypeOK, NEW p \in PRs, LeftAlone(p), acted'[p] = acted[p], challenge'[p] = challenge[p],
         \A b \in BotBodies : HasComment(p, b)' => HasComment(p, b),
         shield'[p] \subseteq shield[p], shield'[p] \subseteq Exemptions(config', gh'[p]),
         \A h \in hooks' : \/ h \in hooks \/ h.event = "issue_comment" \/ h.pr # p
                          \/ Carries(h, shield'[p]),
         \A u \in Tasks : \/ tasks'[u] = tasks[u] \/ tasks'[u].pr # p
                         \/ ExemptTask(tasks'[u], shield[p])
  PROVE  LeftAlone(p)'
<1>1. Untouched(p)'
  <2>1. \A b \in BotBodies : ~HasComment(p, b)
    BY DEF LeftAlone, Untouched, HasComment
  <2>2. \A b \in BotBodies : ~HasComment(p, b)'
    BY <2>1
  <2>3. QED
    BY <2>2 DEF LeftAlone, Untouched, HasComment
<1>2. ASSUME NEW h \in hooks', h.pr = p, h.event = "pull_request" PROVE Carries(h, shield'[p])
  BY <1>2 DEF LeftAlone, Carries
<1>3. ASSUME NEW u \in Tasks, tasks'[u].pr = p PROVE ExemptTask(tasks'[u], shield'[p])
  <2>1. ExemptTask(tasks'[u], shield[p])
    BY <1>3 DEF LeftAlone
  <2>2. QED
    BY <2>1 DEF ExemptTask, Carries
<1>4. QED
  BY <1>1, <1>2, <1>3 DEF LeftAlone

LEMMA IdleExempt == \A why : ExemptTask(Idle, why)
BY DEF Idle, ExemptTask

\* The steps of p's own handlers: a configuration that is read now lists what shields
\* p, the payload carries it, and that stops them before the verdict.
LEMMA OwnStepAlone ==
  ASSUME TypeOK, NEW p \in PRs, LeftAlone(p), NEW t \in Tasks, tasks[t].pr = p, Step(t),
         shield[p] # {}
  PROVE  LeftAlone(p)'
<1>0. /\ tasks \in [Tasks -> Task] /\ challenge[p] = NoRow
      /\ ExemptTask(tasks[t], shield[p])
  BY DEF TypeOK, LeftAlone
<1>e. tasks[t].pc = "assess" => IsExempt(tasks[t].cfg, tasks[t])
  BY <1>0 DEF ExemptTask, IsExempt
<1>1. ReadConfig(t) \/ Exempt(t) \/ GetChallenge(t)
  BY <1>0, <1>e DEF Step, ScoreStep, ReplyStep, ExemptTask, Running, Assess, PolicyClose, SaveVerdict,
     FindScore, UpsertScore, AddLabel, ConvertToDraft, PostEvidence, PostChallenge, PutPending,
     PostClosing, ClosePr, LogAction, PutAnswer
<1>2. /\ comments' = comments /\ hooks' = hooks /\ acted' = acted /\ challenge' = challenge
      /\ shield' = shield /\ config' = config /\ gh' = gh
  BY <1>1 DEF ReadConfig, Exempt, GetChallenge, github, database, history
<1>3. \A u \in Tasks : tasks'[u] = tasks[u] \/ ExemptTask(tasks'[u], shield[p])
  <2>1. CASE ReadConfig(t)
    <3>0. tasks[t] \in Task /\ tasks[t].pc = "config"
      BY <1>0, <2>1 DEF ReadConfig, Running
    <3>1. /\ tasks'[t] = [tasks[t] EXCEPT !.pc = "assess", !.cfg = config]
          /\ \A u \in Tasks \ {t} : tasks'[u] = tasks[u]
      BY <1>0, <2>1 DEF ReadConfig
    <3>2. /\ tasks'[t].pc = "assess" /\ tasks'[t].cfg = config
          /\ tasks'[t].author = tasks[t].author /\ tasks'[t].labels = tasks[t].labels
      BY <3>0, <3>1 DEF Task
    <3>3. Carries(tasks'[t], shield[p])
      BY <1>0, <3>0, <3>2 DEF ExemptTask, Carries
    <3>4. config \in RepoConfig /\ gh[p] \in PullRequest
      BY DEF TypeOK
    <3>5. shield[p] \subseteq Exemptions(config, gh[p])
      BY DEF LeftAlone
    <3>6. shield[p] \subseteq Exemptions(config, tasks'[t])
      BY <3>0, <3>2, <3>3, <3>4, <3>5, CarriedIsExempt DEF Task, PullRequest
    <3>7. ExemptTask(tasks'[t], shield[p])
      BY <3>2, <3>6 DEF ExemptTask
    <3>8. QED
      BY <3>1, <3>7
  <2>2. CASE Finish(t)
    <3>1. tasks'[t] = Idle /\ \A u \in Tasks \ {t} : tasks'[u] = tasks[u]
      BY <1>0, <2>2 DEF Finish
    <3>2. QED
      BY <3>1, IdleExempt
  <2>3. QED
    BY <1>0, <1>1, <2>1, <2>2 DEF Exempt, GetChallenge
<1>4. \A b \in BotBodies : HasComment(p, b)' => HasComment(p, b)
  BY <1>2 DEF HasComment
<1>5. /\ shield'[p] \subseteq shield[p] /\ shield'[p] \subseteq Exemptions(config', gh'[p])
  BY <1>2 DEF LeftAlone
<1>6. QED
  BY <1>2, <1>3, <1>4, <1>5, AloneKept

\* A step of a handler touches nothing of other pull requests, and of the
\* handlers only itself: it goes on, or it ends.
LEMMA StepTouchesItsOwn ==
  ASSUME TypeOK, NEW t \in Tasks, Step(t)
  PROVE  /\ \A p \in PRs : p # tasks[t].pr =>
              acted'[p] = acted[p] /\ challenge'[p] = challenge[p] /\ comments'[p] = comments[p]
         /\ \A h \in hooks' : h \in hooks \/ h.event = "issue_comment"
         /\ \A u \in Tasks \ {t} : tasks'[u] = tasks[u]
         /\ tasks'[t] = Idle \/ tasks'[t].pr = tasks[t].pr
<1>0. /\ tasks \in [Tasks -> Task] /\ comments \in [PRs -> Seq(Comment)]
      /\ acted \in [PRs -> SUBSET {"label", "draft", "close"}]
      /\ challenge \in [PRs -> ChallengeState \cup {NoRow}]
  BY DEF TypeOK
<1>1. ASSUME NEW p \in PRs, p # tasks[t].pr PROVE acted'[p] = acted[p]
  <2>1. CASE \E effect : Did(tasks[t].pr, effect)
    BY <1>0, <1>1, <2>1 DEF Did
  <2>2. CASE acted' = acted
    BY <2>2
  <2>3. QED
    BY <2>1, <2>2 DEF Step, ScoreStep, ReplyStep, ReadConfig, Assess, Exempt, PolicyClose,
       SaveVerdict, FindScore, UpsertScore, AddLabel, ConvertToDraft, PostEvidence, PostChallenge,
       PutPending, PostClosing, ClosePr, LogAction, GetChallenge, PutAnswer, history
<1>2. ASSUME NEW p \in PRs, p # tasks[t].pr PROVE challenge'[p] = challenge[p]
  BY <1>0, <1>2 DEF Step, ScoreStep, ReplyStep, ReadConfig, Assess, Exempt, PolicyClose,
     SaveVerdict, FindScore, UpsertScore, AddLabel, ConvertToDraft, PostEvidence, PostChallenge,
     PutPending, PostClosing, ClosePr, LogAction, GetChallenge, PutAnswer, database
<1>3. /\ \A p \in PRs : p # tasks[t].pr => comments'[p] = comments[p]
      /\ \A h \in hooks' : h \in hooks \/ h.event = "issue_comment"
  <2>1. CASE comments' = comments /\ hooks' = hooks
    BY <2>1
  <2>2. CASE \E body, head : PostComment(tasks[t].pr, body, head)
    BY <1>0, <2>2 DEF PostComment, CommentHook
  <2>3. CASE UpsertScore(t) /\ tasks[t].found # 0
    <3>1. /\ comments' = [comments EXCEPT ![tasks[t].pr][tasks[t].found].head = tasks[t].head]
          /\ hooks' = hooks
      BY <2>3 DEF UpsertScore
    <3>2. QED
      BY <1>0, <3>1
  <2>4. QED
    BY <2>1, <2>2, <2>3 DEF Step, ScoreStep, ReplyStep, ReadConfig, Assess, Exempt, PolicyClose,
       SaveVerdict, FindScore, UpsertScore, AddLabel, ConvertToDraft, PostEvidence, PostChallenge,
       PutPending, PostClosing, ClosePr, LogAction, GetChallenge, PutAnswer, github
<1>4. ASSUME NEW u \in Tasks, u # t PROVE tasks'[u] = tasks[u]
  BY <1>0, <1>4 DEF Step, ScoreStep, ReplyStep, ReadConfig, Assess, Exempt, PolicyClose,
     SaveVerdict, FindScore, UpsertScore, AddLabel, ConvertToDraft, PostEvidence, PostChallenge,
     PutPending, PostClosing, ClosePr, LogAction, GetChallenge, PutAnswer, Goto, Finish
<1>5. tasks'[t] = Idle \/ tasks'[t].pr = tasks[t].pr
  <2>1. CASE Finish(t)
    BY <1>0, <2>1 DEF Finish
  <2>2. CASE \E pc : Goto(t, pc)
    BY <2>2, Moved
  <2>3. CASE \E pc, act : tasks' = [tasks EXCEPT ![t].pc = pc, ![t].act = act]
    BY <2>3, MovedAct
  <2>4. CASE ReadConfig(t)
    BY <1>0, <2>4 DEF ReadConfig, Task
  <2>5. ASSUME NEW tier \in Tiers, Assess(t, tier) PROVE tasks'[t].pr = tasks[t].pr
    <3>1. PICK head, act, probe :
            tasks' = [tasks EXCEPT ![t].pc = "save", ![t].tier = tier, ![t].head = head,
                                   ![t].act = act, ![t].probe = probe]
      BY <2>5 DEF Assess
    <3>2. QED
      BY <1>0, <3>1 DEF Task
  <2>6. CASE \E first : tasks' = [tasks EXCEPT ![t].pc = "upsert", ![t].found = first]
    BY <1>0, <2>6 DEF Task
  <2>7. CASE \E next : tasks' = [tasks EXCEPT ![t].pc = "answer", ![t].next = next]
    BY <1>0, <2>7 DEF Task
  <2>8. QED
    BY <2>1, <2>2, <2>3, <2>4, <2>5, <2>6, <2>7 DEF Step, ScoreStep, ReplyStep, Exempt,
       PolicyClose, SaveVerdict, FindScore, UpsertScore, AddLabel, ConvertToDraft, PostEvidence,
       PostChallenge, PutPending, PostClosing, ClosePr, LogAction, GetChallenge, PutAnswer
<1>6. QED
  BY <1>1, <1>2, <1>3, <1>4, <1>5

\* A handler of another pull request leaves p alone.
LEMMA OtherStepAlone ==
  ASSUME TypeOK, NEW p \in PRs, LeftAlone(p), NEW t \in Tasks, tasks[t].pr # p, Step(t),
         shield'[p] \subseteq shield[p], shield'[p] \subseteq Exemptions(config', gh'[p])
  PROVE  LeftAlone(p)'
<1>1. /\ acted'[p] = acted[p] /\ challenge'[p] = challenge[p] /\ comments'[p] = comments[p]
      /\ \A h \in hooks' : h \in hooks \/ h.event = "issue_comment"
  BY StepTouchesItsOwn
<1>2. \A u \in Tasks : tasks'[u] = tasks[u] \/ tasks'[u].pr # p \/ ExemptTask(tasks'[u], shield[p])
  BY StepTouchesItsOwn, IdleExempt
<1>3. \A b \in BotBodies : HasComment(p, b)' => HasComment(p, b)
  BY <1>1 DEF HasComment
<1>4. QED
  BY <1>1, <1>2, <1>3, AloneKept

\* What people do to a pull request is delivered with what still shields it, and their
\* comments are not the bot's.
LEMMA PeopleAlone ==
  ASSUME TypeOK, NEW p \in PRs, LeftAlone(p), People,
         shield'[p] \subseteq shield[p], shield'[p] \subseteq Exemptions(config', gh'[p])
  PROVE  LeftAlone(p)'
<1>1. tasks' = tasks /\ challenge' = challenge /\ acted' = acted
  BY DEF People, Push, Reopen, MarkReady, Close, AddOverride, RemoveOverride, Reply, Configure, database, history
<1>2. \A h \in hooks' : \/ h \in hooks \/ h.event = "issue_comment" \/ h.pr # p
                         \/ Carries(h, shield'[p])
  <2>1. ASSUME NEW q \in PRs, NEW what, Emit(PullRequestHook(q, what, gh'[q]))
        PROVE  \A h \in hooks' : h \in hooks \/ h.pr # p \/ Carries(h, shield'[p])
    <3>1. PICK hook : hook = PullRequestHook(q, what, gh'[q])
      OBVIOUS
    <3>2. hook.pr = q /\ hook.author = gh'[q].author /\ hook.labels = gh'[q].labels
      BY <3>1, Zenon DEF PullRequestHook
    <3>5. q = p => Carries(hook, shield'[p])
      BY <3>2 DEF Carries, Exemptions
    <3>3. \A h \in hooks' : h \in hooks \/ h = hook
      BY <2>1, <3>1 DEF Emit
    <3>4. QED
      BY <3>2, <3>3, <3>5
  <2>2. ASSUME NEW q \in PRs, NEW body, Emit(CommentHook(q, body))
        PROVE  \A h \in hooks' : h \in hooks \/ h.event = "issue_comment"
    BY <2>2 DEF Emit, CommentHook
  <2>3. CASE hooks' = hooks
    BY <2>3
  <2>4. QED
    BY <2>1, <2>2, <2>3 DEF People, Push, Reopen, MarkReady, Close, AddOverride, RemoveOverride, Reply, Configure
<1>3. \A b \in BotBodies : HasComment(p, b)' => HasComment(p, b)
  <2>1. CASE comments' = comments
    BY <2>1 DEF HasComment
  <2>2. ASSUME NEW q \in PRs, NEW body \in PeopleBodies, Reply(q, body)
        PROVE  \A b \in BotBodies : HasComment(p, b)' => HasComment(p, b)
    <3> DEFINE new == [body |-> body, head |-> 0]
    <3>1. comments' = [comments EXCEPT ![q] = Append(@, new)] /\ new.body \notin BotBodies
      BY <2>2 DEF Reply, PeopleBodies, BotBodies
    <3> HIDE DEF new
    <3>2. QED
      BY <3>1, AppendAdds
  <2>3. QED
    BY <2>1, <2>2 DEF People, Push, Reopen, MarkReady, Close, AddOverride, RemoveOverride, Configure
<1>4. QED
  BY <1>1, <1>2, <1>3, AloneKept

\* Intake and faults: a handler starts from a webhook, with what that carries.
LEMMA DeliveryAlone ==
  ASSUME TypeOK, NEW p \in PRs, LeftAlone(p), Intake \/ Faulty,
         shield'[p] \subseteq shield[p], shield'[p] \subseteq Exemptions(config', gh'[p])
  PROVE  LeftAlone(p)'
<1>1. /\ comments' = comments /\ acted' = acted /\ challenge' = challenge /\ hooks' \subseteq hooks
  BY DEF Intake, TakePullRequest, TakeComment, Ignore, Consume, Faulty, Fail, Crash, LoseHook,
     github, database, history
<1>2. ASSUME NEW t \in Tasks, NEW task, Start(t, task), task.pr # p \/ ExemptTask(task, shield[p])
      PROVE  \A u \in Tasks : tasks'[u] = tasks[u] \/ tasks'[u].pr # p \/ ExemptTask(tasks'[u], shield[p])
  <2>1. tasks'[t] = task /\ \A u \in Tasks \ {t} : tasks'[u] = tasks[u]
    BY <1>2 DEF Start, TypeOK
  <2>2. QED
    BY <1>2, <2>1
<1>3. ASSUME NEW h \in hooks, NEW t \in Tasks, TakePullRequest(t, h) \/ TakeComment(t, h)
      PROVE  \E task : Start(t, task) /\ (task.pr # p \/ ExemptTask(task, shield[p]))
  <2>1. CASE TakePullRequest(t, h)
    <3>1. PICK task : task = [Idle EXCEPT !.pc = "config", !.pr = h.pr, !.author = h.author,
                                          !.labels = h.labels, !.head = h.head]
      OBVIOUS
    <3>2. task.pc = "config" /\ task.pr = h.pr /\ task.author = h.author /\ task.labels = h.labels
      BY <3>1, IdleType DEF Task
    <3>3. task.pr # p \/ ExemptTask(task, shield[p])
      BY <2>1, <3>2 DEF TakePullRequest, LeftAlone, ExemptTask, Carries
    <3>4. QED
      BY <2>1, <3>1, <3>3 DEF TakePullRequest
  <2>2. CASE TakeComment(t, h)
    <3>1. PICK task : task = [Idle EXCEPT !.pc = "reply", !.pr = h.pr, !.body = h.what]
      OBVIOUS
    <3>2. ExemptTask(task, shield[p])
      BY <3>1, IdleType DEF Task, ExemptTask
    <3>3. QED
      BY <2>2, <3>1, <3>2 DEF TakeComment
  <2>3. QED
    BY <1>3, <2>1, <2>2
<1>4. \A u \in Tasks : tasks'[u] = tasks[u] \/ tasks'[u].pr # p \/ ExemptTask(tasks'[u], shield[p])
  <2>1. CASE tasks' = tasks
    BY <2>1
  <2>2. ASSUME NEW t \in Tasks, Fail(t)
        PROVE  \A u \in Tasks : tasks'[u] = tasks[u] \/ ExemptTask(tasks'[u], shield[p])
    <3>1. tasks'[t] = Idle /\ \A u \in Tasks \ {t} : tasks'[u] = tasks[u]
      BY <2>2 DEF Fail, Finish, TypeOK
    <3>2. QED
      BY <3>1, IdleExempt
  <2>3. CASE Crash
    BY <2>3, IdleExempt DEF Crash
  <2>4. QED
    BY <1>2, <1>3, <2>1, <2>2, <2>3 DEF Intake, Ignore, Faulty, LoseHook
<1>5. \A b \in BotBodies : HasComment(p, b)' => HasComment(p, b)
  BY <1>1 DEF HasComment
<1>6. QED
  BY <1>1, <1>4, <1>5, AloneKept

LEMMA InitExempt == Init => ExemptInv
<1> SUFFICES ASSUME Init, NEW p \in PRs PROVE LeftAlone(p)
  BY DEF ExemptInv
<1>0. shield[p] = Exemptions(config, gh[p])
  BY DEF Init
<1>1. ASSUME NEW h \in hooks, h.pr = p PROVE Carries(h, shield[p])
  <2>1. h.author = gh[p].author /\ h.labels = gh[p].labels
    BY <1>1 DEF Init, PullRequestHook
  <2>2. QED
    BY <1>0, <2>1 DEF Carries, Exemptions
<1>2. \A t \in Tasks : ExemptTask(tasks[t], shield[p])
  BY IdleExempt DEF Init
<1>3. Untouched(p) /\ challenge[p] = NoRow
  BY DEF Init, Untouched
<1>4. QED
  BY <1>0, <1>1, <1>2, <1>3 DEF LeftAlone

LEMMA NextExempt == TypeOK /\ ExemptInv /\ [Next]_vars => ExemptInv'
<1> SUFFICES ASSUME TypeOK, ExemptInv, [Next]_vars, NEW p \in PRs, shield'[p] # {}
             PROVE  LeftAlone(p)'
  BY DEF ExemptInv
<1>1. shield[p] = {} \/ LeftAlone(p)
  BY DEF ExemptInv
<1>2. shield'[p] \subseteq shield[p] /\ shield'[p] \subseteq Exemptions(config', gh'[p])
  BY <1>1, ShieldHolds DEF LeftAlone
<1>3. LeftAlone(p) /\ shield[p] # {}
  BY <1>1, <1>2
<1>4. CASE UNCHANGED vars
  <2>1. /\ tasks' = tasks /\ acted' = acted /\ comments' = comments /\ challenge' = challenge
        /\ hooks' = hooks
    BY <1>4 DEF vars, github, history
  <2>2. \A b \in BotBodies : HasComment(p, b)' => HasComment(p, b)
    BY <2>1 DEF HasComment
  <2>3. QED
    BY <1>2, <1>3, <2>1, <2>2, AloneKept
<1>5. CASE Intake \/ Faulty
  BY <1>2, <1>3, <1>5, DeliveryAlone
<1>6. CASE People
  BY <1>2, <1>3, <1>6, PeopleAlone
<1>7. ASSUME NEW t \in Tasks, Step(t) PROVE LeftAlone(p)'
  BY <1>2, <1>3, <1>7, OwnStepAlone, OtherStepAlone
<1>8. QED
  BY <1>4, <1>5, <1>6, <1>7 DEF Next

\* A pull request to which one exemption of the configuration has applied at every
\* moment gets no label, no draft, no close and none of the bot's comments, whatever
\* happens to it, to the others or to the rest of the configuration.
THEOREM ExemptIsUntouched == Spec => []ExemptUntouched
<1>1. ExemptInv => ExemptUntouched
  BY DEF ExemptInv, ExemptUntouched, LeftAlone
<1>2. QED
  BY <1>1, InitType, NextType, InitExempt, NextExempt, PTL DEF Spec

-----------------------------------------------------------------------------
(* A handler alone *)

Writing == {"save", "find", "upsert"}

\* A step adds no score to p's comments and changes none.
NoNewScore(p) ==
  /\ Len(comments[p]) <= Len(comments'[p])
  /\ \A i \in DOMAIN comments'[p] : comments'[p][i].body = "score" =>
       i \in DOMAIN comments[p] /\ comments[p][i] = comments'[p][i]

LEMMA SameComments ==
  ASSUME TypeOK, NEW p \in PRs, comments'[p] = comments[p]
  PROVE  NoNewScore(p)
<1>1. comments[p] \in Seq(Comment)
  BY DEF TypeOK
<1>2. QED
  BY <1>1 DEF NoNewScore

\* A new comment that is no score.
LEMMA OtherComment ==
  ASSUME TypeOK, NEW p \in PRs, NEW new \in Comment, new.body # "score",
         comments' = [comments EXCEPT ![p] = Append(@, new)]
  PROVE  \A q \in PRs : NoNewScore(q)
<1> DEFINE cs == comments[p]
<1>0. cs \in Seq(Comment) /\ comments \in [PRs -> Seq(Comment)]
  BY DEF TypeOK
<1>1. comments'[p] = Append(cs, new) /\ \A q \in PRs : q # p => comments'[q] = comments[q]
  BY <1>0
<1>2. NoNewScore(p)
  BY <1>0, <1>1 DEF NoNewScore
<1>3. QED
  BY <1>1, <1>2, SameComments

LEMMA OtherPost ==
  ASSUME TypeOK, NEW p \in PRs, NEW body \in Bodies \ {"score"}, PostComment(p, body, 0)
  PROVE  \A q \in PRs : NoNewScore(q)
<1> DEFINE new == [body |-> body, head |-> 0]
<1>1. new \in Comment /\ new.body # "score"
  BY DEF Comment
<1>2. comments' = [comments EXCEPT ![p] = Append(@, new)]
  BY DEF PostComment
<1> HIDE DEF new
<1>3. QED
  BY <1>1, <1>2, OtherComment

\* Where no score is added, what was so of the scores is so.
LEMMA ScoresKept ==
  ASSUME TypeOK, TypeOK', NEW p \in PRs, NoNewScore(p)
  PROVE  /\ \A head, later \in Nat : head <= later /\ ScoresUpTo(p, head) => ScoresUpTo(p, later)'
         /\ OneScore(p) => OneScore(p)'
         /\ HasComment(p, "score")' => HasComment(p, "score")
         /\ Len(comments'[p]) <= Page => Len(comments[p]) <= Page
<1>1. comments[p] \in Seq(Comment) /\ comments'[p] \in Seq(Comment) /\ Page \in Nat
  BY PageAssumption DEF TypeOK
<1>2. ASSUME NEW head \in Nat, NEW later \in Nat, head <= later, ScoresUpTo(p, head)
      PROVE  ScoresUpTo(p, later)'
  <2> SUFFICES ASSUME NEW i \in DOMAIN comments'[p], comments'[p][i].body = "score"
               PROVE  comments'[p][i].head <= later
    BY DEF ScoresUpTo
  <2>1. i \in DOMAIN comments[p] /\ comments[p][i] = comments'[p][i]
    BY DEF NoNewScore
  <2>2. comments[p][i].head <= head
    BY <1>2, <2>1 DEF ScoresUpTo
  <2>3. comments[p][i] \in Comment
    BY <1>1, <2>1
  <2>4. comments[p][i].head \in Nat
    BY <2>3 DEF Comment
  <2>5. QED
    BY <1>2, <2>1, <2>2, <2>4
<1>3. OneScore(p) => OneScore(p)'
  BY DEF OneScore, NoNewScore
<1>4. HasComment(p, "score")' => HasComment(p, "score")
  BY DEF HasComment, NoNewScore
<1>5. Len(comments'[p]) <= Page => Len(comments[p]) <= Page
  BY <1>1 DEF NoNewScore
<1>6. QED
  BY <1>2, <1>3, <1>4, <1>5

\* A handler that has nothing to rely on.
LEMMA SoundElsewhere ==
  ASSUME NEW u \in Tasks, tasks'[u].pc \notin Writing \cup {"answer"}
  PROVE  Sound(tasks[u])'
BY DEF Sound, Sole, Writing

\* A handler whose pull request others may have touched, but not its scores
\* and, if it has an outcome to store, not its challenge.
LEMMA SoundKept ==
  ASSUME TypeOK, TypeOK', NEW u \in Tasks, NEW p \in PRs, tasks[u].pr = p, Sound(tasks[u]),
         tasks'[u] = tasks[u], gh[p].head <= gh'[p].head, ~overlapped'[p] => ~overlapped[p],
         NoNewScore(p),
         tasks[u].pc = "answer" /\ ~overlapped'[p] => challenge'[p] = challenge[p]
  PROVE  Sound(tasks[u])'
<1>1. tasks[u] \in Task /\ gh[p] \in PullRequest /\ gh'[p] \in PullRequest
  BY DEF TypeOK
<1>2. PICK head \in Nat : head = tasks[u].head
  BY <1>1 DEF Task
<1>3. tasks[u].pc \in Writing => head <= gh'[p].head
  BY <1>1, <1>2 DEF Sound, Writing, PullRequest
<1>4. ASSUME ~overlapped'[p] PROVE Sole(tasks[u])'
  <2>1. Sole(tasks[u])
    BY <1>4 DEF Sound
  <2>2. tasks[u].pc \in Writing => ScoresUpTo(p, head)'
    BY <1>2, <2>1, ScoresKept DEF Sole, Writing
  <2>3. tasks[u].pc = "upsert" /\ tasks[u].found = 0 /\ Len(comments'[p]) <= Page
          => ~HasComment(p, "score")'
    BY <2>1, ScoresKept DEF Sole
  <2>4. QED
    BY <1>2, <1>4, <2>1, <2>2, <2>3 DEF Sole, Writing
<1>5. QED
  BY <1>2, <1>3, <1>4 DEF Sound, Writing

\* A step that adds no score keeps the invariant when the handlers it moves
\* are sound and it starts none beside another.
LEMMA SoleKept ==
  ASSUME TypeOK, TypeOK', SoleInv,
         \A p \in PRs : /\ NoNewScore(p)
                        /\ gh[p].head <= gh'[p].head
                        /\ ~overlapped'[p] => ~overlapped[p] /\ Alone(p)',
         \A u \in Tasks : \/ Sound(tasks[u])'
                          \/ /\ tasks'[u] = tasks[u]
                             /\ tasks[u].pc = "answer" /\ ~overlapped'[tasks[u].pr] =>
                                  challenge'[tasks[u].pr] = challenge[tasks[u].pr]
  PROVE  SoleInv'
<1>1. ASSUME NEW p \in PRs PROVE ScoresUpTo(p, gh[p].head)'
  <2>1. PICK head \in Nat, later \in Nat : head = gh[p].head /\ later = gh'[p].head
    BY DEF TypeOK, PullRequest
  <2>2. ScoresUpTo(p, later)'
    BY <2>1, ScoresKept DEF SoleInv
  <2>3. QED
    BY <2>1, <2>2 DEF ScoresUpTo
<1>2. ASSUME NEW u \in Tasks PROVE Sound(tasks[u])'
  <2>1. tasks[u].pr \in PRs
    BY DEF TypeOK, Task
  <2>2. QED
    BY <2>1, SoundKept DEF SoleInv
<1>3. OneScoreComment'
  BY ScoresKept DEF SoleInv, OneScoreComment
<1>4. QED
  BY <1>1, <1>2, <1>3 DEF SoleInv

\* A handler's step leaves the pull request with no more handlers, and no
\* other handler sound or not where there are two.
LEMMA StepIsAlone ==
  ASSUME TypeOK, NEW t \in Tasks, Step(t)
  PROVE  /\ overlapped' = overlapped
         /\ \A p \in PRs : gh'[p].head = gh[p].head
         /\ \A p \in PRs : Alone(p) => Alone(p)'
         /\ Alone(tasks[t].pr) =>
              \A u \in Tasks \ {t} : tasks[u].pr = tasks[t].pr => tasks[u].pc = "idle"
<1>0. tasks \in [Tasks -> Task] /\ gh \in [PRs -> PullRequest]
  BY DEF TypeOK
<1>1. overlapped' = overlapped /\ ~Running(t, "idle")
  BY DEF Step, ScoreStep, ReplyStep, ReadConfig, Assess, Exempt, PolicyClose, SaveVerdict,
     FindScore, UpsertScore, AddLabel, ConvertToDraft, PostEvidence, PostChallenge, PutPending,
     PostClosing, ClosePr, LogAction, GetChallenge, PutAnswer, Running, history
<1>2. ASSUME NEW p \in PRs PROVE gh'[p].head = gh[p].head
  <2>1. CASE gh' = gh
    BY <2>1
  <2>2. CASE AddLabel(t) \/ ConvertToDraft(t) \/ ClosePr(t)
    BY <1>0, <2>2 DEF AddLabel, ConvertToDraft, ClosePr, PullRequest
  <2>3. QED
    BY <2>1, <2>2 DEF Step, ScoreStep, ReplyStep, ReadConfig, Assess, Exempt, PolicyClose, SaveVerdict,
       FindScore, UpsertScore, PostEvidence, PostChallenge, PutPending, PostClosing, LogAction,
       GetChallenge, PutAnswer, github
<1>3. ASSUME NEW p \in PRs, NEW u \in Tasks, Busy(u, p)' PROVE Busy(u, p)
  <2>1. CASE u # t
    BY <1>3, <2>1, StepTouchesItsOwn DEF Busy, Running
  <2>2. CASE u = t
    <3>1. tasks'[t] # Idle
      BY <1>3, <2>2 DEF Busy, Running, Idle
    <3>2. QED
      BY <1>1, <1>3, <2>2, <3>1, StepTouchesItsOwn DEF Busy, Running
  <2>3. QED
    BY <2>1, <2>2
<1>4. \A p \in PRs : Alone(p) => Alone(p)'
  BY <1>3 DEF Alone
<1>5. Alone(tasks[t].pr) =>
        \A u \in Tasks \ {t} : tasks[u].pr = tasks[t].pr => tasks[u].pc = "idle"
  BY <1>1 DEF Alone, Busy, Running
<1>6. QED
  BY <1>1, <1>2, <1>4, <1>5

\* A handler's step that adds no score and leaves the handler sound.
LEMMA StepSole ==
  ASSUME TypeOK, TypeOK', SoleInv, NEW t \in Tasks, Step(t),
         \A p \in PRs : NoNewScore(p), Sound(tasks[t])'
  PROVE  SoleInv'
<1>1. ASSUME NEW p \in PRs
      PROVE  gh[p].head <= gh'[p].head /\ (~overlapped'[p] => ~overlapped[p] /\ Alone(p)')
  <2>1. gh[p].head \in Nat
    BY DEF TypeOK, PullRequest
  <2>2. QED
    BY <2>1, StepIsAlone DEF SoleInv
<1>2. ASSUME NEW u \in Tasks, u # t
      PROVE  /\ tasks'[u] = tasks[u]
             /\ tasks[u].pc = "answer" /\ ~overlapped'[tasks[u].pr] =>
                  challenge'[tasks[u].pr] = challenge[tasks[u].pr]
  <2>1. tasks[u].pr \in PRs /\ tasks[t].pr \in PRs
    BY DEF TypeOK, Task
  <2>2. CASE tasks[u].pr = tasks[t].pr
    BY <1>2, <2>1, <2>2, StepIsAlone, StepTouchesItsOwn DEF SoleInv
  <2>3. CASE tasks[u].pr # tasks[t].pr
    BY <1>2, <2>1, <2>3, StepTouchesItsOwn
  <2>4. QED
    BY <2>2, <2>3
<1>3. QED
  BY <1>1, <1>2, SoleKept

\* The steps after which a handler has nothing to rely on.
LEMMA QuietSole ==
  ASSUME TypeOK, TypeOK', SoleInv, NEW t \in Tasks,
         \/ ReadConfig(t) \/ Exempt(t) \/ PolicyClose(t) \/ AddLabel(t) \/ ConvertToDraft(t)
         \/ PostEvidence(t) \/ PostChallenge(t) \/ PutPending(t) \/ PostClosing(t) \/ ClosePr(t)
         \/ LogAction(t) \/ PutAnswer(t)
  PROVE  SoleInv'
<1>0. tasks \in [Tasks -> Task] /\ tasks[t].pr \in PRs /\ Step(t)
  BY DEF TypeOK, Task, Step, ScoreStep, ReplyStep
<1>1. \A p \in PRs : NoNewScore(p)
  <2>1. CASE comments' = comments
    BY <2>1, SameComments
  <2>2. CASE \E body \in Bodies \ {"score"} : PostComment(tasks[t].pr, body, 0)
    BY <1>0, <2>2, OtherPost
  <2>3. {"evidence", "challenge", "closing"} \subseteq Bodies \ {"score"}
    BY DEF Bodies, BotBodies
  <2>4. QED
    BY <2>1, <2>2, <2>3 DEF ReadConfig, Exempt, PolicyClose, AddLabel, ConvertToDraft, PostEvidence,
       PostChallenge, PutPending, PostClosing, ClosePr, LogAction, PutAnswer, github
<1>2. tasks'[t].pc \notin Writing \cup {"answer"}
  <2>1. CASE Finish(t)
    BY <1>0, <2>1 DEF Finish, Idle, Writing
  <2>2. CASE \E pc \in {"draft", "evidence", "challenge", "pending", "close", "log"} : Goto(t, pc)
    BY <2>2, Moved DEF Writing
  <2>3. CASE \E pc \in {"closing", "log"} : \E act : tasks' = [tasks EXCEPT ![t].pc = pc, ![t].act = act]
    BY <2>3, MovedAct DEF Writing
  <2>4. CASE ReadConfig(t)
    BY <1>0, <2>4 DEF ReadConfig, Task, Writing
  <2>5. QED
    BY <2>1, <2>2, <2>3, <2>4 DEF Exempt, PolicyClose, AddLabel, ConvertToDraft, PostEvidence,
       PostChallenge, PutPending, PostClosing, ClosePr, LogAction, PutAnswer
<1>3. QED
  BY <1>0, <1>1, <1>2, SoundElsewhere, StepSole

\* The handler judges a revision that is on GitHub, and finds what there is.
LEMMA JudgeSole ==
  ASSUME TypeOK, TypeOK', SoleInv, NEW t \in Tasks,
         (\E tier \in Tiers : Assess(t, tier)) \/ SaveVerdict(t) \/ FindScore(t)
  PROVE  SoleInv'
<1>0. tasks \in [Tasks -> Task] /\ gh \in [PRs -> PullRequest] /\ comments \in [PRs -> Seq(Comment)]
  BY DEF TypeOK
<1>1. PICK p \in PRs : p = tasks[t].pr
  BY <1>0 DEF Task
<1>2. Step(t) /\ comments' = comments /\ gh' = gh /\ overlapped' = overlapped
  BY DEF Step, ScoreStep, Assess, SaveVerdict, FindScore, github, history
<1>3. \A q \in PRs : NoNewScore(q)
  BY <1>2, SameComments
<1>4. \A head : ScoresUpTo(p, head) => ScoresUpTo(p, head)'
  BY <1>2 DEF ScoresUpTo
<1>5. ScoresUpTo(p, gh[p].head) /\ Sound(tasks[t])
  BY DEF SoleInv
<1>6. ASSUME NEW tier \in Tiers, Assess(t, tier) PROVE Sound(tasks[t])'
  <2>1. PICK act, probe :
          tasks' = [tasks EXCEPT ![t].pc = "save", ![t].tier = tier, ![t].head = gh[p].head,
                                 ![t].act = act, ![t].probe = probe]
    BY <1>1, <1>6 DEF Assess
  <2>2. tasks'[t].pc = "save" /\ tasks'[t].pr = p /\ tasks'[t].head = gh[p].head
    BY <1>0, <1>1, <2>1 DEF Task
  <2>3. PICK head \in Nat : head = gh[p].head
    BY <1>0 DEF PullRequest
  <2>4. ScoresUpTo(p, head)'
    BY <1>4, <1>5, <2>3
  <2>5. QED
    BY <1>2, <2>2, <2>3, <2>4 DEF Sound, Sole
<1>7. ASSUME SaveVerdict(t) PROVE Sound(tasks[t])'
  <2>1. /\ tasks'[t].pc \notin {"answer", "save", "upsert"}
        /\ tasks'[t].pr = p /\ tasks'[t].head = tasks[t].head
    <3>1. PICK pc : Goto(t, pc) /\ pc \in {"log", "find", "closing", "label"}
      BY <1>7 DEF SaveVerdict, FirstCall
    <3>2. QED
      BY <1>0, <1>1, <3>1 DEF Goto, Task
  <2>2. tasks[t].pc = "save"
    BY <1>7 DEF SaveVerdict, Running
  <2>3. PICK head \in Nat : head = tasks[t].head
    BY <1>0 DEF Task
  <2>4. head <= gh'[p].head /\ (~overlapped'[p] => ScoresUpTo(p, head)')
    BY <1>1, <1>2, <1>4, <1>5, <2>2, <2>3 DEF Sound, Sole
  <2>5. QED
    BY <2>1, <2>3, <2>4 DEF Sound, Sole
<1>8. ASSUME FindScore(t) PROVE Sound(tasks[t])'
  <2>1. PICK first : /\ tasks' = [tasks EXCEPT ![t].pc = "upsert", ![t].found = first]
                     /\ first = 0 => \A i \in DOMAIN comments[p] : i > Page \/ comments[p][i].body # "score"
    <3>1. \A i \in DOMAIN comments[p] : i <= Page \/ i > Page
      BY <1>0, PageAssumption
    <3>2. QED
      BY <1>1, <1>8, <3>1 DEF FindScore
  <2>2. tasks'[t].pc = "upsert" /\ tasks'[t].pr = p /\ tasks'[t].head = tasks[t].head
        /\ tasks'[t].found = first
    BY <1>0, <1>1, <2>1 DEF Task
  <2>3. tasks[t].pc = "find"
    BY <1>8 DEF FindScore, Running
  <2>4. PICK head \in Nat : head = tasks[t].head
    BY <1>0 DEF Task
  <2>5. head <= gh'[p].head /\ (~overlapped'[p] => ScoresUpTo(p, head)')
    BY <1>1, <1>2, <1>4, <1>5, <2>3, <2>4 DEF Sound, Sole
  <2>6. first = 0 /\ Len(comments'[p]) <= Page => ~HasComment(p, "score")'
    <3>1. \A i \in DOMAIN comments[p] : i <= Len(comments[p]) /\ i \in Nat /\ Len(comments[p]) \in Nat
      BY <1>0
    <3>2. QED
      BY <1>2, <2>1, <3>1, PageAssumption DEF HasComment
  <2>7. QED
    BY <2>2, <2>4, <2>5, <2>6 DEF Sound, Sole
<1>9. QED
  BY <1>2, <1>3, <1>6, <1>7, <1>8, StepSole

\* A reply changes a challenge that is pending, and only that.
LEMMA ReplySole ==
  ASSUME TypeOK, TypeOK', SoleInv, NEW t \in Tasks, GetChallenge(t)
  PROVE  SoleInv'
<1>0. tasks \in [Tasks -> Task]
  BY DEF TypeOK
<1>1. Step(t) /\ comments' = comments /\ challenge' = challenge
  BY DEF Step, ReplyStep, GetChallenge, github, database
<1>2. \A q \in PRs : NoNewScore(q)
  BY <1>1, SameComments
<1>3. CASE Finish(t)
  <2>1. tasks'[t].pc = "idle"
    BY <1>0, <1>3 DEF Finish, Idle
  <2>2. QED
    BY <1>1, <1>2, <2>1, SoundElsewhere, StepSole DEF Writing
<1>4. CASE ~Finish(t)
  <2>1. PICK next : tasks' = [tasks EXCEPT ![t].pc = "answer", ![t].next = next]
    BY <1>4 DEF GetChallenge
  <2>2. challenge[tasks[t].pr] = "pending"
    BY <1>4 DEF GetChallenge, EvaluateReply
  <2>3. tasks'[t].pc = "answer" /\ tasks'[t].pr = tasks[t].pr
    BY <1>0, <2>1 DEF Task
  <2>4. Sound(tasks[t])'
    BY <1>1, <2>2, <2>3 DEF Sound, Sole
  <2>5. QED
    BY <1>1, <1>2, <2>4, StepSole
<1>5. QED
  BY <1>3, <1>4

\* The score is edited where it is, or posted where there is none.
LEMMA UpsertedScores ==
  ASSUME TypeOK, SoleInv, NEW t \in Tasks, UpsertScore(t), NEW p \in PRs, p = tasks[t].pr
  PROVE  /\ ScoresUpTo(p, gh[p].head)'
         /\ ~overlapped[p] /\ Len(comments'[p]) <= Page => OneScore(p)'
<1> DEFINE cs == comments[p]
<1>0. /\ comments \in [PRs -> Seq(Comment)] /\ cs \in Seq(Comment) /\ Len(cs) \in Nat
      /\ DOMAIN cs = 1 .. Len(cs) /\ Page \in Nat
  BY PageAssumption DEF TypeOK
<1>1. PICK head \in Nat, later \in Nat, found \in Nat :
        head = tasks[t].head /\ later = gh[p].head /\ found = tasks[t].found
  BY DEF TypeOK, Task, PullRequest
<1>2. head <= later /\ ScoresUpTo(p, later) /\ gh' = gh /\ tasks[t].pc = "upsert"
  BY <1>1 DEF SoleInv, Sound, UpsertScore, Running
<1>3. /\ ~overlapped[p] /\ found = 0 /\ Len(cs) <= Page => ~HasComment(p, "score")
      /\ ~overlapped[p] /\ Len(cs) <= Page => OneScore(p)
  BY <1>1, <1>2 DEF SoleInv, Sound, Sole, OneScoreComment
<1>4. CASE found = 0
  <2> DEFINE new == [body |-> "score", head |-> head]
  <2>1. comments'[p] = Append(cs, new) /\ new.head = head
    BY <1>0, <1>1, <1>4 DEF UpsertScore, PostComment
  <2> HIDE DEF new
  <2>2. /\ DOMAIN comments'[p] = 1 .. Len(cs) + 1 /\ Len(comments'[p]) = Len(cs) + 1
        /\ comments'[p][Len(cs) + 1] = new
        /\ \A i \in DOMAIN cs : comments'[p][i] = cs[i]
    BY <1>0, <2>1
  <2>3. ScoresUpTo(p, later)'
    BY <1>0, <1>2, <2>1, <2>2 DEF ScoresUpTo
  <2>4. ASSUME ~overlapped[p], Len(comments'[p]) <= Page PROVE OneScore(p)'
    <3>1. ~HasComment(p, "score")
      BY <1>0, <1>3, <1>4, <2>2, <2>4
    <3>2. ASSUME NEW i \in DOMAIN comments'[p], comments'[p][i].body = "score" PROVE i = Len(cs) + 1
      <4>1. i \notin DOMAIN cs
        BY <2>2, <3>1, <3>2 DEF HasComment
      <4>2. QED
        BY <1>0, <2>2, <3>2, <4>1
    <3>3. QED
      BY <3>2 DEF OneScore
  <2>5. QED
    BY <1>1, <1>2, <2>3, <2>4 DEF ScoresUpTo
<1>5. CASE found # 0
  <2> DEFINE edited == [cs EXCEPT ![found] = [@ EXCEPT !.head = head]]
  <2>1. comments'[p] = edited
    BY <1>0, <1>1, <1>5 DEF UpsertScore
  <2>2. DOMAIN edited = DOMAIN cs /\ Len(edited) = Len(cs)
    BY <1>0
  <2>3. ASSUME NEW i \in DOMAIN cs
        PROVE  edited[i].body = cs[i].body /\ (edited[i] = cs[i] \/ edited[i].head = head)
    <3>0. cs[i] \in Comment
      BY <1>0
    <3>1. CASE i = found
      <4>1. edited[i] = [cs[i] EXCEPT !.head = head]
        BY <3>1
      <4>2. QED
        BY <3>0, <4>1 DEF Comment
    <3>2. CASE i # found
      BY <3>2
    <3>3. QED
      BY <3>1, <3>2
  <2> HIDE DEF edited
  <2>4. ScoresUpTo(p, later)'
    BY <1>2, <2>1, <2>2, <2>3 DEF ScoresUpTo
  <2>5. ~overlapped[p] /\ Len(comments'[p]) <= Page => OneScore(p)'
    BY <1>3, <2>1, <2>2, <2>3 DEF OneScore
  <2>6. QED
    BY <1>1, <1>2, <2>4, <2>5 DEF ScoresUpTo
<1>6. QED
  BY <1>4, <1>5

LEMMA UpsertSole ==
  ASSUME TypeOK, TypeOK', SoleInv, NEW t \in Tasks, UpsertScore(t)
  PROVE  SoleInv'
<1>0. PICK p \in PRs : p = tasks[t].pr
  BY DEF TypeOK, Task
<1>1. /\ Step(t) /\ gh' = gh /\ overlapped' = overlapped /\ challenge' = challenge
      /\ Goto(t, "log")
  BY DEF Step, ScoreStep, UpsertScore, database, history
<1>2. \A q \in PRs : q # p => NoNewScore(q)
  BY <1>0, <1>1, StepTouchesItsOwn, SameComments
<1>3. ASSUME NEW q \in PRs, q # p
      PROVE  /\ ScoresUpTo(q, gh[q].head)'
             /\ ~overlapped'[q] /\ Len(comments'[q]) <= Page => OneScore(q)'
  <2>1. PICK head \in Nat : head = gh[q].head
    BY DEF TypeOK, PullRequest
  <2>2. ScoresUpTo(q, head)'
    BY <1>2, <1>3, <2>1, ScoresKept DEF SoleInv
  <2>3. QED
    BY <1>1, <1>2, <1>3, <2>1, <2>2, ScoresKept DEF SoleInv, OneScoreComment
<1>4. ASSUME NEW u \in Tasks PROVE Sound(tasks[u])'
  <2>0. tasks[u].pr \in PRs /\ Sound(tasks[u])
    BY DEF TypeOK, Task, SoleInv
  <2>1. CASE u = t
    BY <1>1, <2>1, Moved, SoundElsewhere DEF Writing
  <2>2. CASE u # t /\ tasks[u].pr # p
    <3>1. tasks'[u] = tasks[u]
      BY <1>1, <2>2, StepTouchesItsOwn
    <3>2. gh[tasks[u].pr].head <= gh'[tasks[u].pr].head
      BY <1>1, <2>0 DEF TypeOK, PullRequest
    <3>3. QED
      BY <1>1, <1>2, <2>0, <2>2, <3>1, <3>2, SoundKept
  <2>3. CASE u # t /\ tasks[u].pr = p
    <3>1. tasks'[u] = tasks[u]
      BY <1>1, <2>3, StepTouchesItsOwn
    <3>2. ~overlapped[p] => tasks[u].pc = "idle"
      BY <1>0, <1>1, <2>3, StepIsAlone DEF SoleInv
    <3>3. QED
      BY <1>1, <2>0, <2>3, <3>1, <3>2 DEF Sound, Sole
  <2>4. QED
    BY <2>1, <2>2, <2>3
<1>5. \A q \in PRs : ~overlapped'[q] => Alone(q)'
  BY <1>1, StepIsAlone DEF SoleInv
<1>6. QED
  BY <1>0, <1>1, <1>3, <1>4, <1>5, UpsertedScores DEF SoleInv, OneScoreComment

\* Intake and faults: a handler that starts beside another is an overlap, and
\* one that starts or ends relies on nothing.
LEMMA DeliverySole ==
  ASSUME TypeOK, TypeOK', SoleInv, Intake \/ Faulty
  PROVE  SoleInv'
<1>0. tasks \in [Tasks -> Task] /\ overlapped \in [PRs -> BOOLEAN]
  BY DEF TypeOK
<1>1. comments' = comments /\ gh' = gh /\ challenge' = challenge
  BY DEF Intake, TakePullRequest, TakeComment, Ignore, Faulty, Fail, Crash, LoseHook, github, database
<1>2. \A p \in PRs : NoNewScore(p)
  BY <1>1, SameComments
<1>3. \A p \in PRs : gh[p].head <= gh'[p].head
  BY <1>1 DEF TypeOK, PullRequest
<1>4. ASSUME NEW t \in Tasks, NEW task \in Task, Start(t, task), task.pc \in {"config", "reply"}
      PROVE  SoleInv'
  <2>1. tasks'[t] = task /\ \A u \in Tasks \ {t} : tasks'[u] = tasks[u]
    BY <1>0, <1>4 DEF Start
  <2>2. Sound(tasks[t])'
    BY <1>4, <2>1, SoundElsewhere DEF Writing
  <2>3. ASSUME NEW p \in PRs, ~overlapped'[p] PROVE ~overlapped[p] /\ Alone(p)'
    <3>1. ~overlapped[p] /\ (task.pr = p => \A u \in Tasks : ~Busy(u, p))
      BY <1>0, <1>4, <2>3 DEF Start, Busy, Running, Task
    <3>2. Alone(p)
      BY <3>1 DEF SoleInv
    <3>3. \A u \in Tasks \ {t} : Busy(u, p)' => Busy(u, p)
      BY <2>1 DEF Busy, Running
    <3>4. Busy(t, p)' => task.pr = p
      BY <2>1 DEF Busy
    <3>5. QED
      BY <3>1, <3>2, <3>3, <3>4 DEF Alone
  <2>4. QED
    BY <1>1, <1>2, <1>3, <2>1, <2>2, <2>3, SoleKept
<1>5. ASSUME overlapped' = overlapped, \A u \in Tasks : tasks'[u] = tasks[u] \/ tasks'[u] = Idle
      PROVE  SoleInv'
  <2>1. \A u \in Tasks : tasks'[u] = tasks[u] \/ Sound(tasks[u])'
    <3>1. Idle.pc \notin Writing \cup {"answer"}
      BY DEF Idle, Writing
    <3>2. QED
      BY <1>5, <3>1, SoundElsewhere
  <2>2. ASSUME NEW p \in PRs, ~overlapped'[p] PROVE ~overlapped[p] /\ Alone(p)'
    <3>1. Idle.pc = "idle"
      BY DEF Idle
    <3>2. \A u \in Tasks : Busy(u, p)' => Busy(u, p)
      BY <1>5, <3>1 DEF Busy, Running
    <3>3. QED
      BY <1>5, <2>2, <3>2 DEF SoleInv, Alone
  <2>3. QED
    BY <1>1, <1>2, <1>3, <2>1, <2>2, SoleKept
<1>6. ASSUME NEW h \in hooks, NEW t \in Tasks, TakePullRequest(t, h) PROVE SoleInv'
  <2>1. PICK task : task = [Idle EXCEPT !.pc = "config", !.pr = h.pr, !.author = h.author,
                                          !.labels = h.labels, !.head = h.head]
    OBVIOUS
  <2>2. h.pr \in PRs /\ h.author \in Authors /\ h.labels \in SUBSET Labels /\ h.head \in Nat
    BY <1>6, PayloadType DEF TypeOK, TakePullRequest
  <2>3. task \in Task /\ task.pc = "config"
    BY <2>1, <2>2, IdleType DEF Task, PCs
  <2>4. QED
    BY <1>4, <1>6, <2>1, <2>3 DEF TakePullRequest
<1>7. ASSUME NEW h \in hooks, NEW t \in Tasks, TakeComment(t, h) PROVE SoleInv'
  <2>1. PICK task : task = [Idle EXCEPT !.pc = "reply", !.pr = h.pr, !.body = h.what]
    OBVIOUS
  <2>2. h \in Hook /\ h.event = "issue_comment"
    BY <1>7 DEF TypeOK, TakeComment
  <2>3. task \in Task /\ task.pc = "reply"
    BY <2>1, <2>2, IdleType DEF Task, Hook, PCs
  <2>4. QED
    BY <1>4, <1>7, <2>1, <2>3 DEF TakeComment
<1>8. CASE (\E h \in hooks : Ignore(h) \/ LoseHook(h)) \/ (\E t \in Tasks : Fail(t)) \/ Crash
  <2>1. overlapped' = overlapped
    BY <1>8 DEF Ignore, LoseHook, Fail, Crash, history
  <2>2. \A u \in Tasks : tasks'[u] = tasks[u] \/ tasks'[u] = Idle
    BY <1>0, <1>8 DEF Ignore, LoseHook, Fail, Finish, Crash
  <2>3. QED
    BY <1>5, <2>1, <2>2
<1>9. QED
  BY <1>6, <1>7, <1>8 DEF Intake, Faulty

\* People push newer revisions and write no scores.
LEMMA PeopleSole ==
  ASSUME TypeOK, TypeOK', SoleInv, People
  PROVE  SoleInv'
<1>1. tasks' = tasks /\ challenge' = challenge /\ overlapped' = overlapped
  BY DEF People, Push, Reopen, MarkReady, Close, AddOverride, RemoveOverride, Reply, Configure, database, history
<1>2. ASSUME NEW p \in PRs PROVE NoNewScore(p)
  <2>1. CASE comments' = comments
    BY <2>1, SameComments
  <2>2. ASSUME NEW q \in PRs, NEW body \in PeopleBodies, Reply(q, body) PROVE NoNewScore(p)
    <3> DEFINE new == [body |-> body, head |-> 0]
    <3>1. new \in Comment /\ new.body # "score"
      BY DEF Comment, PeopleBodies, Bodies
    <3>2. comments' = [comments EXCEPT ![q] = Append(@, new)]
      BY <2>2 DEF Reply
    <3> HIDE DEF new
    <3>3. QED
      BY <3>1, <3>2, OtherComment
  <2>3. QED
    BY <2>1, <2>2 DEF People, Push, Reopen, MarkReady, Close, AddOverride, RemoveOverride, Configure
<1>3. ASSUME NEW p \in PRs PROVE gh[p].head <= gh'[p].head
  <2>0. gh \in [PRs -> PullRequest] /\ gh[p].head \in Nat
    BY DEF TypeOK, PullRequest
  <2>1. CASE gh' = gh
    BY <2>0, <2>1
  <2>2. ASSUME NEW q \in PRs, \/ Push(q) \/ Reopen(q) \/ MarkReady(q) \/ Close(q)
                             \/ (\E label \in Labels : AddOverride(q, label) \/ RemoveOverride(q, label))
        PROVE  gh[p].head <= gh'[p].head
    BY <2>0, <2>2 DEF Push, Reopen, MarkReady, Close, AddOverride, RemoveOverride, PullRequest
  <2>3. QED
    BY <2>1, <2>2 DEF People, Reply, Configure
<1>4. \A p \in PRs : ~overlapped'[p] => ~overlapped[p] /\ Alone(p)'
  BY <1>1 DEF SoleInv, Alone, Busy, Running
<1>5. QED
  BY <1>1, <1>2, <1>3, <1>4, SoleKept

LEMMA InitSole == Init => SoleInv
<1> SUFFICES ASSUME Init PROVE SoleInv
  OBVIOUS
<1>1. \A t \in Tasks : tasks[t].pc = "idle"
  BY DEF Init, Idle
<1>2. \A p \in PRs : comments[p] = << >>
  BY DEF Init
<1>3. \A t \in Tasks : Sound(tasks[t])
  BY <1>1 DEF Sound, Sole
<1>4. QED
  BY <1>1, <1>2, <1>3 DEF SoleInv, ScoresUpTo, Alone, Busy, Running, OneScoreComment, OneScore

LEMMA NextSole == TypeOK /\ SoleInv /\ [Next]_vars => SoleInv'
<1> SUFFICES ASSUME TypeOK, SoleInv, [Next]_vars PROVE SoleInv'
  OBVIOUS
<1>0. TypeOK'
  BY NextType
<1>1. CASE UNCHANGED vars
  <2>1. comments' = comments /\ gh' = gh /\ tasks' = tasks /\ overlapped' = overlapped
        /\ challenge' = challenge
    BY <1>1 DEF vars
  <2>2. QED
    BY <2>1 DEF SoleInv, ScoresUpTo, Alone, Busy, Running, Sound, Sole, HasComment, OneScoreComment,
       OneScore
<1>2. ASSUME NEW t \in Tasks, Step(t) PROVE SoleInv'
  BY <1>0, <1>2, QuietSole, JudgeSole, ReplySole, UpsertSole DEF Step, ScoreStep, ReplyStep
<1>3. QED
  BY <1>0, <1>1, <1>2, DeliverySole, PeopleSole DEF Next

\* Outside of overlapping handlers, and as long as the comments fit on the first
\* page, a pull request has one score comment at most.
THEOREM ScoreIsOne == Spec => []OneScoreComment
<1>1. SoleInv => OneScoreComment
  BY DEF SoleInv
<1>2. QED
  BY <1>1, InitType, NextType, InitSole, NextSole, PTL DEF Spec

\* What a step does to the comments: an edit by an upsert, or none but a new one.
LEMMA CommentSteps ==
  ASSUME TypeOK, [Next]_vars
  PROVE  \/ comments' = comments
         \/ \E p \in PRs : \E new : comments' = [comments EXCEPT ![p] = Append(@, new)]
         \/ \E t \in Tasks : UpsertScore(t) /\ tasks[t].found # 0
<1>1. ASSUME NEW p \in PRs, NEW body, NEW head, PostComment(p, body, head)
      PROVE  \E new : comments' = [comments EXCEPT ![p] = Append(@, new)]
  BY <1>1 DEF PostComment
<1>2. ASSUME NEW t \in Tasks, Step(t)
      PROVE  \/ comments' = comments
             \/ \E body, head : PostComment(tasks[t].pr, body, head)
             \/ UpsertScore(t) /\ tasks[t].found # 0
  BY <1>2 DEF Step, ScoreStep, ReplyStep, ReadConfig, Assess, Exempt, PolicyClose, SaveVerdict,
     FindScore, UpsertScore, AddLabel, ConvertToDraft, PostEvidence, PostChallenge, PutPending,
     PostClosing, ClosePr, LogAction, GetChallenge, PutAnswer, github
<1>3. \A t \in Tasks : tasks[t].pr \in PRs
  BY DEF TypeOK, Task
<1>4. CASE \E t \in Tasks : Step(t)
  BY <1>1, <1>2, <1>3, <1>4
<1>5. CASE People
  BY <1>5 DEF People, Push, Reopen, MarkReady, Close, AddOverride, RemoveOverride, Reply, Configure
<1>6. CASE Intake \/ Faulty \/ UNCHANGED vars
  BY <1>6 DEF Intake, TakePullRequest, TakeComment, Ignore, Faulty, Fail, Crash, LoseHook, github, vars
<1>7. QED
  BY <1>4, <1>5, <1>6 DEF Next

\* Handlers of a pull request that never overlapped never put the score of an
\* older revision over that of a newer one.
LEMMA ScoreGoesOn ==
  TypeOK /\ SoleInv /\ [Next]_vars =>
    \A p \in PRs : ~overlapped'[p] =>
      \A i \in DOMAIN comments[p] :
        comments[p][i].body = "score" => comments'[p][i].head >= comments[p][i].head
<1> SUFFICES ASSUME TypeOK, SoleInv, [Next]_vars, NEW p \in PRs, ~overlapped'[p],
                    NEW i \in DOMAIN comments[p], comments[p][i].body = "score"
             PROVE  comments'[p][i].head >= comments[p][i].head
  OBVIOUS
<1>0. /\ comments \in [PRs -> Seq(Comment)] /\ comments[p] \in Seq(Comment)
      /\ comments[p][i] \in Comment /\ comments[p][i].head \in Nat
  <2>1. comments[p] \in Seq(Comment)
    BY DEF TypeOK
  <2>2. comments[p][i] \in Comment
    BY <2>1
  <2>3. QED
    BY <2>1, <2>2 DEF TypeOK, Comment
<1>1. CASE comments' = comments
  BY <1>0, <1>1
<1>2. ASSUME NEW q \in PRs, NEW new, comments' = [comments EXCEPT ![q] = Append(@, new)]
      PROVE  comments'[p][i] = comments[p][i]
  BY <1>0, <1>2
<1>3. ASSUME NEW t \in Tasks, UpsertScore(t), tasks[t].found # 0
      PROVE  comments'[p][i].head >= comments[p][i].head
  <2>0. PICK q \in PRs, head \in Nat, found \in Nat :
          q = tasks[t].pr /\ head = tasks[t].head /\ found = tasks[t].found
    BY DEF TypeOK, Task
  <2>1. comments' = [comments EXCEPT ![q][found].head = head]
    BY <1>3, <2>0 DEF UpsertScore
  <2>2. CASE p = q /\ i = found
    <3>1. overlapped' = overlapped /\ tasks[t].pc = "upsert"
      BY <1>3 DEF UpsertScore, Running, history
    <3>2. Sole(tasks[t])
      BY <2>0, <2>2, <3>1 DEF SoleInv, Sound
    <3>3. comments[p][i].head <= head
      BY <2>0, <2>2, <3>1, <3>2 DEF Sole, ScoresUpTo
    <3>4. comments'[p][i] = [comments[p][i] EXCEPT !.head = head]
      BY <1>0, <2>1, <2>2
    <3>5. comments'[p][i].head = head
      BY <1>0, <3>4 DEF Comment
    <3>6. QED
      BY <1>0, <3>3, <3>5
  <2>3. CASE p # q \/ i # found
    <3>1. comments'[p][i] = comments[p][i]
      BY <1>0, <2>1, <2>3
    <3>2. QED
      BY <1>0, <3>1
  <2>4. QED
    BY <2>2, <2>3
<1>4. QED
  BY <1>0, <1>1, <1>2, <1>3, CommentSteps

\* Outside of overlapping handlers the score comment never goes back to an older
\* revision, in whatever order the events arrive.
THEOREM ScoresGoOn == Spec => ScoreNeverGoesBack
<1>1. TypeOK /\ SoleInv /\ [Next]_vars =>
        [\A p \in PRs : ~overlapped'[p] =>
           \A i \in DOMAIN comments[p] :
             comments[p][i].body = "score" => comments'[p][i].head >= comments[p][i].head]_vars
  BY ScoreGoesOn
<1>2. QED
  BY <1>1, InitType, NextType, InitSole, NextSole, PTL DEF Spec, ScoreNeverGoesBack

\* A step outside of overlaps decides no challenge a second time.
LEMMA ChallengeStep ==
  TypeOK /\ SoleInv /\ [Next]_vars =>
    \A p \in PRs : ~overlapped'[p] /\ challenge[p] \in {"passed", "failed_canary"} =>
      challenge'[p] \in {challenge[p], "pending"}
<1> SUFFICES ASSUME TypeOK, SoleInv, [Next]_vars, NEW p \in PRs, ~overlapped'[p],
                    challenge[p] \in {"passed", "failed_canary"}
             PROVE  challenge'[p] \in {challenge[p], "pending"}
  OBVIOUS
<1>0. challenge \in [PRs -> ChallengeState \cup {NoRow}]
  BY DEF TypeOK
<1>1. CASE challenge' = challenge
  BY <1>1
<1>2. ASSUME NEW t \in Tasks, PutPending(t) PROVE challenge'[p] \in {challenge[p], "pending"}
  BY <1>0, <1>2 DEF PutPending
<1>3. ASSUME NEW t \in Tasks, PutAnswer(t) PROVE challenge'[p] = challenge[p]
  <2>1. overlapped' = overlapped /\ tasks[t].pc = "answer"
    BY <1>3 DEF PutAnswer, Running, history
  <2>2. tasks[t].pr # p
    BY <2>1 DEF SoleInv, Sound, Sole
  <2>3. QED
    BY <1>0, <1>3, <2>2 DEF PutAnswer
<1>4. \/ challenge' = challenge
      \/ \E t \in Tasks : PutPending(t) \/ PutAnswer(t)
  BY DEF Next, vars, Intake, TakePullRequest, TakeComment, Ignore, Step, ScoreStep, ReplyStep,
     ReadConfig, Assess, Exempt, PolicyClose, SaveVerdict, FindScore, UpsertScore, AddLabel,
     ConvertToDraft, PostEvidence, PostChallenge, PostClosing, ClosePr, LogAction, GetChallenge,
     Faulty, Fail, Crash, LoseHook, People, Push, Reopen, MarkReady, Close, AddOverride, RemoveOverride, Reply,
     Configure, database
<1>5. QED
  BY <1>1, <1>2, <1>3, <1>4

\* Outside of overlapping handlers a challenge is decided once, and then only a
\* rescore asks again.
THEOREM ChallengeIsDecidedOnce == Spec => DecidedOnce
<1>1. TypeOK /\ SoleInv /\ [Next]_vars =>
        [\A p \in PRs : ~overlapped'[p] /\ challenge[p] \in {"passed", "failed_canary"} =>
           challenge'[p] \in {challenge[p], "pending"}]_vars
  BY ChallengeStep
<1>2. QED
  BY <1>1, InitType, NextType, InitSole, NextSole, PTL DEF Spec, DecidedOnce

=============================================================================
