# Pullsift: a TLA+ verification project

Pullsift (`src/`, Rust) is a GitHub App that scores pull requests for
machine-made or unanswered spam and labels, holds (as a draft, with a question
to the author) or closes them. This directory holds TLA+ models of the parts of
it whose correctness depends on the order of things, the TLC configurations
that check them on small instances, and theorems about them that TLAPS checks
for every value of the constants.

Paths are relative to the repository's root; `main.rs` is `src/main.rs` of the
crate (here `src/src/main.rs`), and so on.

## 1. The system

| component | state it keeps | operations | modelled in |
|---|---|---|---|
| webhook service, `main.rs` | one task per delivery (locals only) | `handle_webhook`, `dispatch`, `score_and_act`, `execute`, `handle_reply` | `Triage` |
| challenge, `challenge.rs` | row per pull request: pending, passed, failed | `evaluate_reply`, `evaluate_timeout` | `Challenge` |
| action planning, `actions.rs` | none | `plan`, `action_name` | `Actions` |
| GitHub client, `github.rs` | none; the pull requests and comments live at GitHub | `file`, `find_comment`, `upsert_comment`, `add_label`, `convert_to_draft`, `post_comment`, `close_pr` | `Triage` |
| store, `store.rs`, `migrations/` | events, verdicts, actions log, challenges, weight versions, dossier cache, feedback | inserts, upserts, `promote_weights` | `Triage`, `Weights`, `Dossier` |
| weights' life, `main.rs`, `store.rs`, `engine.rs` | table in each pod, `weights_versions` | startup promotion, learner, reload | `Weights` |
| clustering, `cluster.rs`, `diffsig.rs`, `textsig.rs` | entries, union-find forest, diff index, text buckets for each repository | `insert`, `view_of`, `prune`, `cluster_rules` | `Clusters`, `Campaigns` |
| pipeline, `pipeline.rs` | none | exempt, policy, lanes, score, plan | its order in `Triage`, its rules in `Policy` |
| configuration and policy, `config.rs`, `policy.rs` | `.github/pullsift.yml`, read at each event | `parse`, `is_exempt`, `thresholds`, `evaluate`, `shape_rules` | `Triage`, `Engine`, `Policy` |
| code rules, `codestruct.rs`, `codeslop.rs` | none | `split_files`, `functions`, `rules` | `Structure`, under the handlers of `Lanes` |
| engine, fit, learner, `engine.rs`, `fit.rs`, `learn.rs` | none | `score`, `tier`, `fit`, `thresholds_from_negatives`, `learn` | `Engine`, `Fitting`, `Scoring` |
| dossier, `dossier.rs` | a row for each author, good for a week | `parse_dossier`, `rules`, `get_dossier`, `put_dossier` | `Dossier` |
| federation, `federation.rs` | JSONL files | `publish`, `poll`, `corroborated_strength` | `Federation` (the service does not call it) |
| offline tuner, `bin/tune.rs` | `weights/default.json`, `weights/tokens.json`, which the next build embeds | `load`, `replay`, `cross_validate`, the final fit | `Tuner` |
| prose rules, scripts, chart, site | none that is shared | | not modelled, see 7 |

How they interact. GitHub delivers webhooks in no particular order, sometimes
more than once, and never again after an error. `handle_webhook` answers 202 at
once and spawns a task; nothing serialises the tasks of one pull request. Each
task talks to GitHub and to Postgres with one `await` after another and stops
at the first error. The tasks share the cluster stores (a mutex), the weight
table (a read-write lock) and the database. Two more tasks run in each pod, the
nightly learner and the minutely reload of the weights; several pods may share
a database. People push, reopen, reply, label and edit `pullsift.yml` meanwhile.

What is hard, then: overlapping handlers of one pull request; rescores after
every push; the service's own comments among those it is told of; configuration
and exemptions that change while a handler runs; failure of one call of
several; lost and repeated deliveries; concurrent promotions of weights, and a
table in memory that lags the active row; a union-find whose entries expire and
arrive out of order; one cached dossier under all handlers of an author; caps
and thresholds that are set by different parts at different times; files that
are rewritten while they are read; a diff, a file list and commits that are fetched
apart while the author pushes; a diff whose files end where a line says so; and a
tuner whose numbers are only worth something if what judges a record was not fitted on
it. `PROJECT.json` lists each hazard at its line with the properties that cover it, and
a note where they cover part of it.

## 2. The modules

| module | what it is |
|---|---|
| `Challenge`, `Actions` | pure operators: the challenge's states, the planned actions |
| `Triage` | the service: handlers, GitHub, database, people, faults |
| `TriageProofs` | theorems about `Triage`: types and progress, what is safe, what is held back |
| `MCTriage` | instances of `Triage` for TLC |
| `Weights`, `MCWeights` | weight versions, pods, promotions, reload |
| `WeightsProofs` | theorems about `Weights` |
| `Signatures` | the near-duplicate relation and time windows |
| `Campaigns` | abstract: what clustering promises, by connected components |
| `Clusters`, `MCClusters` | the union-find store and its handlers; implements `Campaigns` |
| `ClustersProofs` | theorems about `Clusters`, the refinement of `Campaigns` among them |
| `Engine`, `Fitting` | pure operators: score, cap, tiers, stance, overrides; thresholds and AUC of a fit |
| `Scoring`, `MCScoring` | events scored under tables that the learner replaces |
| `ScoringProofs` | theorems about thresholds, scores and what is learned |
| `Dossier`, `MCDossier` | the author's dossier, its cache and the handlers that share it |
| `DossierProofs` | theorems about `Dossier` |
| `Federation`, `MCFederation` | publishers and a subscriber over the exchange's files |
| `FederationProofs` | theorems about `Federation` |
| `Structure` | pure operators: the files of a diff and the lexical rules over them |
| `Policy` | pure operators, on top of it: the policy lane and the pipeline's own rules |
| `Lanes`, `MCLanes` | a pull request that changes while handlers read and judge it by these |
| `LanesProofs` | theorems about `Lanes` |
| `Tuner`, `MCTuner` | the offline tuner, as what was trained on what |
| `TunerProofs` | theorems about `Tuner` |

**Triage.** `tasks[t]` is a handler: where it is (`pc`, one value for each await
that matters) and its locals. `score_and_act` is `TakePullRequest`, `ReadConfig`,
`Assess`/`Exempt`/`PolicyClose`, `SaveVerdict`; `execute` is one action for each
call (`FindScore`, `UpsertScore`, `AddLabel`, `ConvertToDraft`, `PostEvidence`,
`PostChallenge`, `PutPending`, `PostClosing`, `ClosePr`, `LogAction`);
`handle_reply` is `TakeComment`, `GetChallenge`, `PutAnswer` and the same closing
steps. `Fail` is a call that returns an error (with `?` the handler ends there; a
call that took effect and whose answer was lost is the effect followed by
`Fail`), `Crash` the end of the process, `LoseHook` a delivery that never reaches
`record_event`, and `Consume` may leave a delivery to come again. A verdict is
its tier, chosen freely, since it depends on weights, clusters and the author's
record; a comment is the kind of its body (`Challenge`: what `evaluate_reply`
can tell apart); a revision is a number. The calls that only read and whose
result is folded into the tier (template, files, commits, dossier, detector)
are one step with the reading of the diff. An author and the labels are part of a
pull request and of its webhooks' payloads; whether they exempt it is decided in
`Assess`, as in `process`, by the lists of the configuration that the handler has read
(`Exemptions`). `Configure` changes the lists with the rest of the file, and a file that
does not parse has those of `DefaultConfig`. `acted`, `live`, `overlapped` and `shield`
are history: what was ever done to a pull request, whether dry run was ever off,
whether two handlers of it ever ran at once, and which exemptions have applied to it
at every moment so far.

**Weights.** A table is the number of its fit and whether its meta dates it.
`promote_weights` is a transaction at READ COMMITTED: `Update` takes the
snapshot, `Lock` waits for the row's lock and looks at the row again, `Insert`
meets the unique index `weights_one_active` and commits, `Swap` writes the
memory. `Boot` decides as `main` does, `Learn` is a candidate that passed the
guardrails, `PollRead` and `PollWrite` are the two halves of the reload.
`Release`, `Crash`, `PromoteFails` and `Flip` (an operator's rollback) are the
world's.

**Clusters.** `Begin` captures the time as `score_and_act` does on entry;
`Process` is the block under the lock: `Prune`, `Insert`, `ViewOf`. `Find` is the
loop of `find`, as a fold of its rounds (`Halved`) over as many rounds as there
are nodes, which end it; `UnionAll` unites the hits in some order, since the code's
order decides only who becomes a root. `DiffHits` goes through the diff index's own ids and
`diff_owner`. Two channel values are linked when at most one apart: that keeps
what matters of "shares a band and verifies", namely that it is reflexive and
symmetric and not transitive. `Campaigns` says the same with no forest and no
index: a campaign is the intersection of the sets that are closed under
nearness, a connected component of what is remembered. `KeepsPromise`
is `Campaigns!Spec` under the mapping that forgets forest and index.

**Engine, Fitting, Scoring.** The engine on integers: a logit is a number of
units, a rule's value a number of steps, and since `sigmoid` is increasing and
probabilities are only compared, a probability is represented by its logit.
`Score` is the capped sum as `engine::score` computes it (each family's
contributions scaled to the cap), `Stance` and `Overridden` what a repository's
configuration does to the table, `ThresholdsFromNegatives` the cuts of `fit.rs`
with the rule of three, the allowance and the raising of the upper tiers.
`Scoring` is one event after another (`Event` is `pipeline::process`) with `Learn`
between them: a fit is any table of a given set that the code's sign and
anchoring constraints allow, and everything after the optimizer (thresholds,
`validate`, the AUC guardrail, promotion) is as in `learn.rs`.

**Dossier.** A handler is `Begin` (it takes its time, as `score_and_act` does on
entry), `GetDossier`, `Query` with `ParseDossier`, `PutDossier`; the pipeline's
completion of a copy is part of the step before it, since it reads nothing that
others write. `fetched_at` is the time of the event, not of the query. The author
and the maintainers open, comment, review, merge, close and label meanwhile. A
dossier is the history of pull requests with the markers, and `Rules` are the
rules over these; `prior` is a function of the pull requests it tells of where
the code has a vector.

**Federation.** `publish` is three steps, as `fs::write` truncates before it
writes: `Read`, `Truncate`, `Write`. `Written` is what is in the file when two
of them overlap, `Begun` what a process that dies has written of it. A line that
another cut through is `Fragment`, a last line without its end `Torn`.
`poll` is `StartPoll` and one `PollFile` for each file; the last computes
`CorroboratedStrength`.

**Structure, Policy, Lanes.** `Structure` is the rules of `codestruct.rs` and
`codeslop.rs` over a diff, from `SplitFiles` to `StructRules` and `SlopRules`. A line
is a record of what the rules read off it: its sign, its shape, its normal form, what
it defines, its literals, the lists of markers that it matches; control is as in the
code, down to the added line that looks like a file's header. `Policy` is `evaluate`
and `shape_rules` with the pipeline's `grounding_miss` and `authoring_rate`; a body
has its tokens where comments are counted and the set of phrases that it matches
elsewhere. Values are fractions, kept as pairs, so that no rounding comes in; two
logarithms are replaced by the ratio of what they are taken of, which orders in the
same way. `Lanes` puts both under the handlers: `Receive`, `ReadDiff`, `ReadFiles`,
`ReadCommits`, `Judge`, or `Fail` at any of the fetches, while `Change` takes the pull
request through its versions. Title, body and size are those of the event, diff,
files and commits those of the moment at which they are fetched. What follows from
the verdict is in `Triage`.

**Tuner.** A run is `Load`, one `Replay` for each record, `Replayed`, a
`CrossValidate` for each fold and grouping, `HoldOutSources`, `FinalFit`, `Emit`,
`WriteWeights`, `WriteTokens`; `Rerun` is a build that embeds whatever the files are
by then, and the next run. Every number is represented by its lineage, the records
that had a say in it: `trained` for the fit and the token table of a prediction,
`seen` for the stores that the trainers were replayed against, where their `CLUSTER_*`
fires come from, `prior` for all that had a say in the table that anchors the fit. Who
is a stranger is read off `history`, what the dossier recorded with a record has:
complete, cut off, or empty where there is none. The hash of `fold_of` is any function
of the account.

## 3. The runs

| run | instance | what it shows |
|---|---|---|
| `triage` | 1 pull request, 2 handlers, 5 configurations, 2 steps by people, 1 fault | the safety of section 4 |
| `triage_live` | the same with 2 configurations, no fault | `PushIsJudged`, `AnswerResolves`, `CanaryCloses` |
| `weights` | 2 pods, 3 fits, 1 rollback, 2 faults | `OneActive`, `ServesPromoted`, `PromotionsSerialize`, `Converges` |
| `clusters` | 1 repository, 2 handlers, 5 signatures, 4 arrivals, 3 times, TTL 1, window 0, 1 restart | `ClustersAreComponents`, `KeepsPromise` |
| `scoring` | 7 rules, 5 families, 16 pull requests, 7 configurations, 1 fit of 3 tables, 1 to 3 held-out negatives | the cap, the stance, the overrides, the learned thresholds |
| `dossier` | 2 repositories, 2 handlers, 2 pull requests, 2 deeds, 3 times, TTL 2, page 2 | `KnowsTheWeekBefore`, `JudgedForItself` |
| `federation` | 3 installations of 2 owners, 2 needed, 2 publishers, 3 calls, 2 times, 1 fault | `BindsOnlyCorroborated`, `StrengthOfTheSet`, `SerialPublishesKept` |
| `lanes` | 21,940 histories of a pull request: every diff of up to six lines over three alphabets, every body of up to five tokens, pushes and edits; 2 handlers, page 2 | `LastPushJudged`, `ProductionOnly`, `FileOrderIsNoEvidence`, `UnfilledIsTheCommentedShare` |
| `tuner` | 3 corpora of 4 records, 3 accounts of which one is spelled in two ways, 2 repositories, 2 sources, 2 folds, every hash, 1 rerun | `HeldOutIsUnseen`, `CrossFitted`, `CutsHeldOut`, `OnePredictionEach`, `ReplaySeesThePast` |
| `own_challenge`, `learned_lost`, `lone_family` | the smallest that shows it | a disagreement of code and documents, each |

*Bounds.* Two handlers are enough for every pairwise overlap, and a third slot
would only let a third overlap; with one pull request every conflict is there,
since no step reads another pull request's state. Two steps by people allow
push-then-reply, close-then-reopen, reply-then-configure; `Page = 3` (100 in the
code) lets three comments push the score comment off the first page. Three fits
are a release, what was learned from it and a second of either kind; two faults
a crash and a failed call. Four arrivals make a tree of depth two, which is
what path halving needs, and with TTL 1 the middle of a chain expires before
its ends. `scoring`'s table is the released one rounded to eighths of a logit, and
its targets are larger than the code's, so that two and three negatives certify
a tier and one does not. Two pull requests are one that is judged and one of the
author's past, in the same repository or in another; with TTL 2 and three times
a row is fresh, on the edge and expired. Two owners needed of two, one of which
has two installations, is the smallest instance where counting installations
and counting owners differ. In `lanes` the minima of the code (20 lines, windows of
5, 60 functions, 100 files on a page) are scaled to the length of the diffs, so that
every rule fires, abstains and is at its edge somewhere; the diffs are all
sequences over lines that can be confused (headers, files of other kinds, lines that
look like markers), so what they say does not hang on chosen examples. In `tuner` the four
records have both labels, two records of one account under two spellings, one whose
pull request has no date and one that is decided without a score; in one corpus there
is one repository only, so that the folds by repository are one; in the third an account
comes back to a repository twice, once without a dossier and once with one that has the
first of its pull requests there and lacks the second; a rerun is enough for what is embedded to
come from the same corpus. The `cfg` files with `CHECK_DEADLOCK FALSE` are those
where people may do nothing more and the bounds run out: the service then
rightly waits.

*Fairness.* `triage_live`: the tokio runtime polls every task (`WF` on each handler's
next step) and GitHub delivers what it holds (`WF(Intake)`). Nobody has
to push, reply or configure, and faults are off: with one, nothing retries, and a lost
event stays lost. `Converges` assumes `WF` of each pod's startup and promotion and of
its reload; not that anybody learns or releases.

## 4. What the passing runs say

- `ExplainedClose`, `LogIsTrue`: no close without its comment, no log row for
  what was not done, whatever call fails and wherever the process dies.
- `AskedBeforeJudged`, `DecidedOnce`: a reply is judged only against a challenge
  that was posted; a decided challenge changes only when a rescore asks again.
- `DryRunHarmless`: a repository that never left dry run is labelled and
  annotated, nothing else. `ExemptUntouched`: a pull request to which one and the
  same exemption has applied at every moment is left alone, whatever people push,
  label, reply and configure. An exemption that comes later, or takes turns with
  another, is not one (section 5).
- `OneScoreComment`, `ScoreNeverGoesBack`: outside of overlapping handlers and
  overlong pages a rescore edits the one score comment, and never with an older
  revision's score.
  They say what events out of order and deliveries twice cannot do; overlapping
  handlers of one pull request can, by the code, and are left out (of
  `DecidedOnce` too).
- `PushIsJudged`, `AnswerResolves`, `CanaryCloses`: while nothing fails, a revision that
  is pushed is judged, it or a newer one, unless it is exempt or closed by policy; a
  reply of substance ends the wait, and a failed canary closes.
- `OneActive`, `PromotionsSerialize`: one version is active, and concurrent
  promotions replace one another in an order. `ServesPromoted`, `Converges`: a
  pod scores with a version of the database, and in the end with the active one.
- `ClustersAreComponents`, `KeepsPromise`: the forest is the components at every
  moment, and each view and each rule is the one they imply.
- `ScoredAsFitted`: the engine, which scales a family's contributions, and the
  fit, which clamps the family's sum, mean the same score.
  `FamilyMovesAtMostTheCap`: no family moves a score by more than the cap, to
  either side. `WelcomeIgnoresAi`: where AI is welcome the score is that without
  rules about AI. `MoreEvidenceNeverHelps`: a rescore with more against the author
  does not end in a milder tier, overrides and learned tables included; the one
  exception, a marker that discloses, is meant by the code.
- `TargetsHold`: learned thresholds keep their targets on the held-out negatives
  under ties (that their order needs no refusal is proved, see 6).
- `KnowsTheWeekBefore`: whichever handler fetched a dossier, and when a slower one
  put its older row over a newer, a verdict knows what was so a week before its
  event. `JudgedForItself`: the markers and the repository of one pull request do
  not follow the author to the next.
- `BindsOnlyCorroborated`, `StrengthOfTheSet`: an author's verdict binds on enough
  independent owners, with a strength that depends on the set of verdicts, not on
  the order of files. `SerialPublishesKept`: an installation that publishes one
  record at a time and does not die in the middle loses none.
- `LastPushJudged`: when nothing is under way any more, the code that is on GitHub
  was judged, diff and files by one handler, although handlers of earlier events may
  have mixed two versions; a failed fetch of the last push's handler is the one way
  to miss it, since nothing is tried again.
- `ProductionOnly`: the structural rules of a diff are those of its production files
  alone, also where a file has no added line, or lines that look like another file's
  header; `CODE_DEAD_HELPER` is the exception, see 5.
  `FileOrderIsNoEvidence`: they do not change when neighbouring runs of files change
  places, and so in no order of the files: nothing is seen across the end of a file.
  `UnfilledIsTheCommentedShare`: the share of comments, taken slice by slice in the
  code, is the one of the characters that are in a comment.
- `HeldOutIsUnseen`, `CrossFitted`: no example that a fold is fitted on and no token
  table is of the account, repository or source that is held out, and no example's
  token score is of a table that its account built, the one that an earlier run
  embedded included. `CutsHeldOut`: the thresholds are set on all the negatives, each
  as such a fold predicted it; its account can have had a say through a store or
  through the weights of an earlier run (section 5), and in no other way. On the first
  run it is the stores alone.
  `OnePredictionEach`: the benchmark gets a prediction for each record, but where
  all are in one fold. `ReplaySeesThePast`: replay shows a record the past of its
  repository and no future, and takes nobody for a stranger whose earlier pull request
  both the store and the dossier have.

## 5. Where code and documents disagree

Each is a finding in `PROJECT.json`, those with a run have a counterexample.

- `OnlyRepliesFailTheCanary` (`own_challenge`): the App's own challenge comment,
  delivered to it after the challenge's row is stored, is judged as a reply; it
  contains the canary, so the service closes the pull request.
- `EmbeddedDefers` (`learned_lost`): a learned table has no `fitted_at`, so a
  restart promotes the older embedded table over it.
- `CloseIsCorroborated` (`lone_family`): the learner sets the close threshold by
  the negatives alone, so a promoted table may bring it within the cap's reach,
  and one family then closes.
- Without a run, on the service: one cluster store for each repository, so
  `CLUSTER_XREPO` cannot fire; the stores are not rebuilt at startup; the learner is
  anchored to the table in memory; threshold overrides are not validated.
  `evaluate_timeout` has no caller, so silence closes nothing, and a reply that passes
  the challenge leaves the pull request a draft; `handle_reply` reads no
  configuration, so it closes with `dry_run` on, and closes what was exempted since
  the challenge. The labels that exempt are those of the payload, so one that was set
  since does not count.
- Without a run, on the rules: the scored pull request is in its own dossier, so
  a stranger's first one has `TRUST_REPO_HISTORY` and counts as open beside itself
  (`Told` is what `parse_dossier` keeps); reviews are anybody's and answers are to
  comments only; policy rules are refitted; `publish` rewrites what is called
  append-only; `burst_score`'s comment has another constant.
- Without a run, on the lanes: the pattern `docs/*` matches `docsify.js`; one axis is
  enough for `CODE_STYLE_DRIFT` and any mention in the diff is a call for
  `CODE_DEAD_HELPER`; an added line that starts with `++ ` is taken for a file's
  header; rules about all files are judged on the first hundred.
- Without a run, on the tuner: replay never prunes; an author without a recorded
  dossier is a stranger at every pull request; the prior of every fold was
  fitted on the authors that the fold holds out, and the stores behind its examples
  held their pull requests.

## 6. What is proved

The theorems about `Triage!Spec` (`TriageProofs`) are for any set of pull requests, any number of
handlers, any configurations, page size and bounds, with faults and with or
without the App's own comments coming back. They assume of the constants what
`Triage` names: there is a pull request, `Configs` are configurations, `Page` is
positive, the bounds are numbers.

- `TypeCorrect`: `TypeOK` is inductive by itself. Each action has
  its step; what needed lemmas are the comments, where a post appends a record
  and a rescore edits one in place at an index a previous step found.
- `ProgressCorrect`: `ProgressInv` is inductive relative to the
  types. The safety properties are not: that a close is explained at `ClosePr`
  depends on what this handler did one step, and any number of other handlers'
  steps, earlier. `Progress(task)` therefore says for each `pc` what the handler
  has done to get there. The argument is in three parts. *Grows*: no step takes
  back a comment's kind, an effect, a verdict or a challenge row, so what one
  handler established survives the others. *Justified*: what a step adds to the
  log, the effects and the challenges is explained by the `Progress` of the
  handler that takes it. `Kept` puts the two together once for all actions, and
  each action then shows only that and the `Progress` of the handler it moves.
  `CloseIsExplained`, `LogNeverLies` and `ChallengeWasAsked` follow.
- `DryRunIsHarmless`: by `DryInv`. While dry run was never off,
  every handler holds a configuration with `dry_run`, so `plan` gave it a label at
  most and no challenge, so it is at none of the steps that draft, close or ask;
  and a reply finds no challenge row, which is what closes the circle, since
  `handle_reply` does not look at the configuration.
- `ExemptIsUntouched`: by `ExemptInv`, for the reasons in `shield`. Webhooks carry
  the author and the labels among them (`Carries`: they were there when the webhook was
  made), every configuration that a handler can read lists them, so `Assess` stops there;
  replies find no challenge row, and handlers of other pull requests touch nothing of
  it. When `Configure` or an unlabelling takes a reason away, it is in `shield` no longer.
- `ScoreIsOne`, `ScoresGoOn`, `ChallengeIsDecidedOnce`: by `SoleInv`,
  which says what a handler that is alone on its pull request may rely on across its
  awaits (`Sole`): the row it judged is still pending when it stores the outcome, no
  score is newer than the revision it judged, and where `find_comment` found nothing
  there is no score yet. `StepTouchesItsOwn` says that other pull requests' handlers
  change none of it, `StepIsAlone` that there is no second handler of this one, and
  `NoNewScore` that people and the other comments of the bot add no score. An edit needs
  beside it that the revision judged was pushed (`Sound`), since that is what the
  next rescore compares with.

So every safety and action property of `Triage` is proved.

The theorems about `Weights!Spec` (`WeightsProofs`) are for any set of pods, any
number of fits, rollbacks and faults; they assume of the constants only that the
bounds are numbers.

- `TypeCorrect`, and `OneVersionActive` from it: `OneActive` is inductive, because
  a promotion deactivates and inserts in one commit.
- `PromotionsAreSerial`: by `Locks`. A pod whose transaction holds the row's lock
  is the only one, and the row it saw is active until it commits; a second
  promotion that waited sees that its row is no longer active and inserts
  against the unique index, which refuses it.
- `PodsServeVersions`: by `MemorySources`: whatever a pod carries (the table in
  memory, the candidate of a promotion after its insert, the row a reload has
  read) is a row of `weights_versions`, and no step deletes a row.

The theorems about the thresholds and about `Scoring!Spec` (`ScoringProofs`) are for any
finite table of rules, any families, tables, caps, configurations and overrides, any
target rates and any number of negatives and fits.

- `ThresholdsAreOrdered`, `TargetsAreKept`, `UncertifiedTiersCoincide` need no
  invariant: the first is what raising the upper tiers does, the second says that the
  negatives that reach a cut are those before the index it was taken at (`Floor` and
  `ProductOrder` bound the allowance), the third that label, hold and close lie within
  two of the smallest steps where the negatives certify no tier: what should be
  labelled is closed.
- `ScoringInvariant`: `ScoringInv`. The weights are signed (at most zero for
  rules of the exonerating families, at least zero for all others), and the verdict in force is `Judged`:
  what `process` makes of some pull request under some signed table. Signs are the part
  that a promotion must keep and that nothing else in a state says.
- `EvidenceAddsUp`, `FamiliesAreCapped`, `WelcomeIsBlind`: about sums over rules and over
  families. `SumsExist` to `SumOfGreater` say of `SumFunction` what one knows of sums: a
  point's share, equal sums, multiples, order. `ShownIsClamped` is the heart: what is
  left of a family after each of its contributions is scaled by cap over sum adds up to
  the clamped sum, on either side of zero; `OneFamilyMoves` that the others stay.
- `LearnedTargetsHold`: `TargetsAreKept` along the specification, with `SortedIs`, which
  says that the negatives `Learn` hands on are in descending order.
- `EvidenceNeverHelps`: `ScoreIsMonotonic` (the cap of a monotonic sum is monotonic),
  `TierIsMonotonic` (for thresholds in any order, since overrides may cross them) and
  `StanceIsMonotonic` (the stance zeroes a rule's weight or adds one that fires).

They assume that the rule table is finite (it is an array in the code), that the shipped
table is signed (`weights/default.json` is what `fit` wrote), that the two rules of the
stance are not among what the lanes fire (`process` appends them), and the families of
markers and detector as `Family::of` has them.

The theorems about `Clusters!Spec` (`ClustersProofs`) are for any repositories, accounts,
signatures, times, TTL and window, any number of handlers, arrivals and restarts.

- `StoresAreGood`: `ClusterInv`. Every store is `Good`: its forest has depths that
  decrease on the way to a root, its trees are `Classes` of nearness, its diff index has an
  id for each entry with a diff and describes the entry it names, and handlers carry the
  time at which they started. `FewDepths` says that fewer depths than nodes do, so
  `FindIs`: as many rounds of `Halved` as there are nodes end at the root and change no
  tree. `UnionIs` merges two trees, `UnionAllIs` all that were hit, in any order;
  `ClassesGrow` is the argument of the module: uniting the new entry with everything
  near it, and nothing else, makes the trees of the old entries those of the
  new ones. `InsertIs`, `ViewedIs` and `PruneIs`, which inserts the rest into an
  empty store, keep a store good. The lemmas on folds and finite sets (`FoldExists`,
  `Along`, `Upward`, `Subsets`) carry the inductions.
- `StoresFitTogether` and `TreesAreComponents` follow: two entries have one root exactly
  when every set closed under nearness that has one has the other (`ComponentIs`).
- `StoresKeepThePromise` is the refinement: `Init` maps to `Campaigns!Init`, `Process`
  to `Arrive` or `Age`, `Restart` to `Forget`, everything else stutters. `ViewIs` says that
  the view read off the forest is the component's, `PruneIs` that what is kept is
  `Remembered`. The invariant is needed, since a step of a store whose forest is not the
  components would be no step of `Campaigns`.

`ClusterInv` says that depths exist, and a run would have to search for them; TLC checks
`ClustersAreComponents`, `TypeOK` and `KeepsPromise`, which is what it implies.

The theorems about `Dossier!Spec` (`DossierProofs`) are for any repositories,
handlers, pull requests and deeds, any positive TTL and page.

- `TypeCorrect`: `TypeOK` is inductive, with a lemma on what `ParseDossier` returns.
- `DossierCorrect`: `DossierInv`, which both properties need, since a verdict rests
  on a row that another handler fetched, put, and perhaps put late. It gives every
  dossier a time d before which it knows everything (`Knows`): d is `fetched_at`
  for the row, the handler's time before the put, and the event less the TTL, plus
  one, once it is judged. `Grown` says why people cannot disturb it: what they do is
  dated now, and now is not before d. `KnowsLess` is the step from the row's d to
  the handler's, which is the comparison in `get_dossier`.
- `KnowsTheWeek` and `EachJudgedForItself` follow; the second needs in the invariant
  that row and unput dossiers have no marker, and `RuleFires` on the rule set.

The theorems about `Tuner!Spec` (`TunerProofs`) are for any corpora, accounts, hashes,
numbers of folds, sources and runs; they assume of the constants what `Tuner` names.

- `TypeCorrect`: `TypeOK` is inductive, with a lemma for each kind of lineage.
- `JudgedUnseen` and `TokensAreCrossFitted`: what the two properties say is inductive
  by itself once `FoldApart` shows, for a whole step of the cross-validation, that
  what a fold fits on and what it predicts share no group (`CrossfitApart` is that for
  the inner folds of the tokens), and that records of one account share their group.
- `FoldsCorrect`: `FoldsInv`, since a cut is set and the predictions are emitted long
  after the folds that made them. `Staged` says what is there at which `pc`;
  `Predicted`, of which folds `oof` holds the predictions and that a record has one for
  each grouping; `Kept`, what `cuts` and `emitted` were made from.
  `BenchmarkIsComplete` follows.
- `ReplayIsInOrder`: by `Replaying`. Nothing that is replayed comes after a record that
  is left, so the store a record is shown is the past of its repository.
- `CutsAreHeldOut`: from all of these and `Traced`, which goes back from what a
  prediction has `seen` to a record that its fold was trained on, in the same repository
  and not earlier, and from its prior to a run that has written.

The theorems about `Lanes!Spec` (`LanesProofs`) are for any number of handlers, any
page, and any histories in which equal diffs have equal files and every diff is as git
writes it: each file opens with a header that has a name (`Headed`); of the constants
of the rules, that a window has a line and `MAX_FUNCS` is not 0 (`StructureAssumption`).

- `PushIsTracked`: `LanesInv`. The last push, of all versions so far the one after
  which the code did not change, is waiting as an event, or with a handler, or
  judged, or lost; and a handler that took it has read only what is still there,
  because a further push would be the last one instead. `LastPushIsJudged` is that
  with nothing waiting and nobody at work.
- `VerdictsAreRead`: with `JudgedInv`, a verdict is about a diff that was on GitHub and
  the payload of its own event, and its fires are `LaneRules` of them. The three theorems
  below are that and a fact about every diff or every body; `LaneSplit` says which rule
  a fire of `LaneRules` comes from.
- `ProductionIsJudged`: `ProductionAlone`. The diff and the diff without its other
  files are split side by side, one line at a time. `InStep` is what holds between the
  two: the production files closed so far are the same, and while a production file is
  open it is the same in both. It needs that after the first line there is always a
  file with a path, which is `Headed`; then no line can move a file's boundary.
- `FileOrderIsJudged`: `FileOrder`. A diff that begins with a header begins a file of its
  own, so the files of two diffs, one after the other, are those of the one and then
  those of the other (`SplitJoined`), and so are their production files. Exchanging two
  runs of files therefore is a one-to-one `Rearranged` of the production files, and of the
  lines (`PartsExchanged`). Then one lemma per kind of rule: what a rule counts (lines,
  windows, functions, pairs of functions, calls) goes one to one to what it counts in the
  other diff (`SpotsMoved`, `SamePairs`), and the windows, literals and gaps that it
  compares are the same set. It needs `MAX_FUNCS` as a bound on the functions: past it the
  first files decide which functions are looked at, and the order does matter.
- `CommentsAreCounted`: `CommentedIsInside`. `FirstComment` cuts the rest of a body
  into what precedes the first comment, the comment and the rest, whose characters add
  up (`CharsAddUp`); the recursion of the code has one solution, and the count of
  characters in comments from a position on is one.

The theorems about `Federation!Spec` (`FederationProofs`) are for any installations and
owners, publishers, calls, faults and times; they assume that a verdict is a record of
its installation, author, strength and expiry, and that at least one owner is needed.

- `FederationTypes`: `KnownInv`. Whatever is in a file, with a publisher or in the poll is
  a verdict that somebody called `publish` with, a fragment or a torn line; a step that
  cuts through a line makes no verdict of it (`PushedLines`, `BegunLines`,
  `WrittenLines`), and `poll` takes only verdicts (`ParsedLines`).
- `BindingIsCorroborated`, `StrengthIsOfTheSet`: with `BoundInv`, what binds is
  `CorroboratedStrength` of what that poll read. `ByOwnerTallied` is the loop over the
  verdicts: at each of them an owner has the greatest strength it has said so far, which
  neither order nor repetition changes; `CorroboratedIs` counts the owners and sums.
- `SerialPublishersKeep`: `SerialInv`. At an installation that nothing has disturbed
  one publisher is at work at most, what it read is the file, and the file holds every
  record whose call returned, also between truncation and write, when they are with the
  publisher only.

*What stays with TLC.* Liveness under fairness and `ENABLED` are beyond TLAPS:
`PushIsJudged`, `AnswerResolves`, `CanaryCloses`, `Converges`. The runs that expect a
violation are by nature TLC's. Every safety invariant and action property of the passing
runs is stated by a theorem; `TypeOK` of `Triage`, `Weights` and `Dossier` is proved and
not part of a run. The library's induction theorems are of no use, since they take an
operator; every induction in the modules is by the least counterexample (`LeastNatural`,
`Upward`) or by removing elements (`Subsets`). What a fold or a recursive function
computes is proved by showing that the defining equation has a solution and following it
element by element (`AlongExists` and `AlongSteps` in `LanesProofs`, `FoldExists`
elsewhere).

## 7. Not modelled

- The prose rules (`stylometry.rs`, `tokenscore.rs`): stateless functions of text to
  a value in [0, 1]. `Scoring` chooses the values of rules, `Triage` the tier.
- Characters: how `codestruct.rs` normalises a line, finds a definition or a literal
  in it, and which words are on which list is given with the line.
- 72 hours of silence: no code looks at the clock of a challenge, so there is no step.
- Of the tuner, what is only printed, the detector's sidecar, and the numbers.
- Floating point: rounding, and a `sigmoid` that reaches 1.0, where a threshold is
  capped by `min(1.0)`; `Scoring` is about scores below that.
- Gradient descent and bagging: `Learn` takes any table that the constraints on
  signs and anchoring allow. Minimum sample sizes are left out.
- Of a dossier: the account's own data, titles, reply latency, commit hours, fork
  age, the cap of 50 comments of a thread, and network verdicts.
- The signatures of the federation's envelopes: each record is its sender's.
- HTTP, JSON, HMAC, JWT, the hashes of the signatures and the texts of the
  comments, except for what of them is a guard somewhere (the canary, the
  marker of the score comment).
- Style cohesion and the Poisson formula: `Clusters` has the count of arrivals
  in the window that the burst is computed from.
- `MemStore`, `fake_github.rs`, `tests/`: test doubles. `scripts/`, `bench/`,
  `deploy/`, `site/`: tools around the service.

## 8. Plan

Done: `Challenge`, `Actions`, `Triage`; `Weights`; `Signatures`, `Campaigns`, `Clusters`;
`Engine`, `Fitting`, `Scoring`; `Dossier`; `Federation`; `Structure`, `Policy`, `Lanes`;
`Tuner`; and theorems about each of them. In this order to come:

1. An abstract specification of a decision (asked, judged, acted, logged) that
   `Triage` implements, checked as a property and then proved step by step.
2. An active row that does not decode (`store.rs` 402) in `Weights`.
