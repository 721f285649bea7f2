------------------------------- MODULE Tuner -------------------------------
(***************************************************************************)
(* The offline tuner (bin/tune.rs): which records had a say in each number *)
(* that it writes.  A token table, a fit or a prediction is represented by *)
(* its lineage, the sets of those records; the arithmetic is left out, and *)
(* every record that may have had a say is taken to have had it.           *)
(*                                                                         *)
(* A run replays the corpus, cross-validates, fits and writes two files,   *)
(* which the next build embeds: the next run starts from them.             *)
(***************************************************************************)
EXTENDS Integers, Sequences, FiniteSets

CONSTANTS
  Logins,     \* the authors' logins, as they are spelled in the corpus
  Account,    \* to_lowercase: the account of each
  Repos,      \* the repositories
  Sources,    \* how records were mined
  Corpora,    \* the corpora: sequences of records, in the order of the files' lines
  FOLDS,      \* the number of folds
  MinSource,  \* the slop records that make a source worth holding out: 15
  MaxRuns     \* bound: runs of the tuner

Accounts == {Account[l] : l \in Logins}

\* created is 0 where a record, or a pull request of a dossier, has no date.
\* history is what the dossier that was mined with the record has: of the
\* author's pull requests the last 50, or none where there is no dossier, no
\* such user (a bot) or no list; decided is what the pipeline makes of the record.
Record == [slop : BOOLEAN, source : Sources, repo : Repos, author : Logins, created : Nat,
           history : SUBSET [repo : Repos, created : Nat],
           decided : {"scored", "exempt", "policy-close"}]

ASSUME TunerAssumption ==
  /\ DOMAIN Account = Logins
  /\ Corpora \subseteq Seq(Record)
  /\ FOLDS \in Nat \ {0} /\ MinSource \in Nat \ {0} /\ MaxRuns \in Nat

Folds == 0 .. FOLDS - 1

VARIABLES
  corpus,    \* the archive's lines
  hash,      \* fnv1a64 modulo FOLDS, of an author, of "inner:" and an author, of a repository
  mode,      \* the flags of this run
  pc,        \* the stage of the run; a grouping while cross_validate runs with it
  fold,      \* the fold of cross_validate
  loaded,    \* load: the records that parse
  evidence,  \* replay: what each scored record was judged on
  decided,   \* replay: the records that the pipeline decided without a score
  examples,  \* the training examples of the last fit
  oof,       \* cross_validate: the predictions of the folds, of both groupings
  held,      \* the sources held out so far, with the model that judged each
  cuts,      \* the predictions the thresholds were set on
  emitted,   \* the predictions written for the benchmark
  files,     \* weights/default.json and weights/tokens.json
  shipped,   \* what the binary has embedded
  runs       \* runs of the tuner so far

constants == <<corpus, hash>>
replayed  == <<evidence, decided>>
results   == <<loaded, replayed, examples, oof, held, cuts, emitted>>
vars      == <<constants, mode, pc, fold, results, files, shipped, runs>>

Ids     == DOMAIN corpus
Lineage == SUBSET Ids

Modes      == {"fit", "dry", "score-only"}
Groupings  == {"author", "repo"}
Example    == [record : Ids, tokens : Lineage]

\* trained: the examples and their tables; seen: what the replayed stores held
\* when the examples were scored; prior: all that had a say in the prior.
Model      == [trained : Lineage, seen : Lineage, prior : Lineage]
Prediction == [grouping : Groupings \cup {"none"}, record : Ids,
               trained : Lineage, seen : Lineage, prior : Lineage]
Evidence   == [seen : Lineage, stranger : BOOLEAN, tokens : Lineage]

Nothing == [i \in {} |-> {}]

Cleared ==
  /\ loaded' = {} /\ evidence' = Nothing /\ decided' = {} /\ examples' = {} /\ oof' = {} /\ held' = Nothing
  /\ cuts' = {} /\ emitted' = {}

Stages ==
  {"load", "replay", "sources", "final", "emit", "write", "tokens", "done"} \cup Groupings

GivenOK ==
  /\ corpus \in Corpora
  /\ hash \in [author : [Accounts -> Folds], inner : [Accounts -> Folds], repo : [Repos -> Folds]]

StageOK == mode \in Modes /\ pc \in Stages /\ fold \in Folds /\ runs \in 0 .. MaxRuns

ReplayOK ==
  /\ {loaded, decided, DOMAIN evidence} \subseteq Lineage
  /\ evidence \in [DOMAIN evidence -> Evidence]

FitsOK ==
  /\ examples \subseteq Example
  /\ oof \cup cuts \cup emitted \subseteq Prediction
  /\ DOMAIN held \subseteq Sources /\ held \in [DOMAIN held -> Model]

FilesOK == {files, shipped} \subseteq [weights : Model, tokens : Lineage]

TypeOK == GivenOK /\ StageOK /\ ReplayOK /\ FitsOK /\ FilesOK

Untrained == [weights |-> [trained |-> {}, seen |-> {}, prior |-> {}], tokens |-> {}]

Init ==
  /\ corpus \in Corpora
  /\ hash \in [author : [Accounts -> Folds], inner : [Accounts -> Folds], repo : [Repos -> Folds]]
  /\ mode \in Modes
  /\ pc = "load" /\ fold = 0
  /\ loaded = {} /\ evidence = Nothing /\ decided = {} /\ examples = {} /\ oof = {} /\ held = Nothing
  /\ cuts = {} /\ emitted = {}
  /\ files = Untrained /\ shipped = Untrained
  /\ runs = 0

AuthorOf(i) == Account[corpus[i].author]
RepoOf(i)   == corpus[i].repo
Slop(i)     == corpus[i].slop
Dated(i)    == corpus[i].created > 0

-----------------------------------------------------------------------------
(* load and replay *)

\* A line that does not parse is skipped, a file that is missing too.
Load ==
  /\ pc = "load"
  /\ loaded' \in {Ids, {i \in Ids : Slop(i)}, {i \in Ids : ~Slop(i)}} \cup {Ids \ {i} : i \in Ids}
  /\ pc' = "replay"
  /\ UNCHANGED <<constants, fold, mode, replayed, examples, oof, held, cuts, emitted, files, shipped, runs>>

Scored == DOMAIN evidence

\* A mutant: the records in the order of their lines.
ByLine(i, j) == i < j

\* By date within a repository; the sort is stable, and no date comes first.
\* The stores of the repositories are apart, so their order says nothing.
Before(i, j) ==
  \/ corpus[i].created < corpus[j].created
  \/ corpus[i].created = corpus[j].created /\ i < j

Left == loaded \ (Scored \cup decided)

\* point_in_time_association: no pull request that the record's own dossier
\* has, which may be of later, is of its repository and earlier.
Stranger(i) ==
  ~\E pr \in corpus[i].history : /\ pr.repo = RepoOf(i) /\ pr.created > 0 /\ Dated(i)
                                 /\ pr.created < corpus[i].created

\* What the store of its repository holds when i arrives.
Store(i) == {j \in Scored : RepoOf(j) = RepoOf(i)}

\* process, with the token score of the table that is embedded.
Judge(i) == [seen |-> Store(i), stranger |-> Stranger(i), tokens |-> shipped.tokens]

\* The next record is scored on that and joins it, unless the pipeline decides
\* without a score.
Replay(i) ==
  /\ pc = "replay"
  /\ \A j \in Left \ {i} : Before(i, j)
  /\ IF corpus[i].decided = "scored"
     THEN /\ evidence' = [j \in Scored \cup {i} |->
                            IF j = i THEN Judge(i) ELSE evidence[j]]
          /\ UNCHANGED decided
     ELSE /\ decided' = decided \cup {i}
          /\ UNCHANGED evidence
  /\ UNCHANGED <<constants, fold, mode, pc, loaded, examples, oof, held, cuts, emitted, files, shipped, runs>>

Replayed ==
  /\ pc = "replay"
  /\ Left = {}
  /\ pc' = IF mode = "score-only" THEN "emit" ELSE "author"
  /\ UNCHANGED <<constants, fold, mode, results, files, shipped, runs>>

-----------------------------------------------------------------------------
(* Tables, examples and fits *)

\* train_table: empty unless both classes are there.
TrainTable(ids) == IF (\E i \in ids : Slop(i)) /\ (\E i \in ids : ~Slop(i)) THEN ids ELSE {}

\* A mutant: the token score of the replay stays.
UnstrippedExamples(ids, table) == {[record |-> i, tokens |-> table \cup evidence[i].tokens] : i \in ids}

\* token_examples: the given table's token score is put in the place of the
\* embedded one's.
TokenExamples(ids, table) == {[record |-> i, tokens |-> table] : i \in ids}

\* crossfit_token_examples: by an inner fold.
CrossfitExamples(ids) ==
  UNION {LET inner == {i \in ids : hash.inner[AuthorOf(i)] = k}
         IN  TokenExamples(inner, TrainTable(ids \ inner)) : k \in Folds}

Tokens(trainers) == UNION {e.tokens : e \in trainers}

\* fit, anchored to a table that was fitted before.  An example's CLUSTER_*
\* fires are of the store that it was replayed against.
Fit(trainers, prior) ==
  [trained |-> {e.record : e \in trainers} \cup Tokens(trainers),
   seen    |-> UNION {evidence[e.record].seen : e \in trainers},
   prior   |-> prior.trained \cup prior.seen \cup prior.prior]

Predict(grouping, model, example) ==
  [grouping |-> grouping, record |-> example.record, trained |-> model.trained \cup example.tokens,
   seen |-> model.seen, prior |-> model.prior]

\* A mutant: the hash of the login as it is spelled, another one for each.
FoldOfSpelling(grouping, i) ==
  IF grouping = "repo" THEN hash.repo[RepoOf(i)]
  ELSE (hash.author[AuthorOf(i)] + IF corpus[i].author = AuthorOf(i) THEN 0 ELSE 1) % FOLDS

\* fold_of
FoldOf(grouping, i) == IF grouping = "repo" THEN hash.repo[RepoOf(i)] ELSE hash.author[AuthorOf(i)]

\* A mutant: one fold too many.
OneFoldMore == (fold + 1) % (FOLDS + 1)

NextFold == (fold + 1) % FOLDS

AfterFolds(grouping) == IF grouping = "author" THEN "repo" ELSE "sources"

\* One fold of cross_validate: none of its records is predicted where there is
\* nothing to train on.
CrossValidate(grouping) ==
  /\ pc = grouping
  /\ LET eval     == {i \in Scored : FoldOf(grouping, i) = fold}
         train    == {i \in Scored : FoldOf(grouping, i) # fold}
         trainers == CrossfitExamples(train)
         cand     == Fit(trainers, shipped.weights)
     IN  IF eval = {} \/ train = {} THEN UNCHANGED <<examples, oof>>
         ELSE /\ examples' = trainers
              /\ oof' = oof \cup {Predict(grouping, cand, e) : e \in TokenExamples(eval, TrainTable(train))}
  /\ fold' = NextFold
  /\ pc' = IF fold' = 0 THEN AfterFolds(grouping) ELSE pc
  /\ UNCHANGED <<constants, mode, loaded, replayed, held, cuts, emitted, files, shipped, runs>>

-----------------------------------------------------------------------------
(* The rest of main *)

OfSource(s) == {i \in Scored : Slop(i) /\ corpus[i].source = s}

\* What a source is judged by: everything but its slop.
TrainWithout(s) == Scored \ OfSource(s)

\* The sources with enough slop are held out, each in turn.
HoldOutSources ==
  /\ pc = "sources"
  /\ LET enough == {s \in Sources : Cardinality(OfSource(s)) >= MinSource}
     IN  held' = [s \in enough |->
                    LET model == Fit(CrossfitExamples(TrainWithout(s)), shipped.weights)
                    IN  [model EXCEPT !.trained = @ \cup TrainTable(TrainWithout(s))]]
  /\ pc' = "final"
  /\ UNCHANGED <<constants, fold, mode, loaded, replayed, examples, oof, cuts, emitted, files, shipped, runs>>

FinalWeights == Fit(CrossfitExamples(Scored), shipped.weights)

\* A mutant: the thresholds of the fit itself, in sample.
InSampleCuts ==
  {Predict("author", FinalWeights, e) : e \in {x \in CrossfitExamples(Scored) : ~Slop(x.record)}}

\* The negatives among the predictions of the author-grouped folds.
OutOfFoldCuts == {p \in oof : p.grouping = "author" /\ ~Slop(p.record)}

FinalFit ==
  /\ pc = "final"
  /\ examples' = CrossfitExamples(Scored)
  /\ cuts' = OutOfFoldCuts
  /\ pc' = "emit"
  /\ UNCHANGED <<constants, fold, mode, loaded, replayed, oof, held, emitted, files, shipped, runs>>

Unjudged(i) == [grouping |-> "none", record |-> i, trained |-> {}, seen |-> {}, prior |-> {}]

\* A mutant: what the pipeline decided is left out.
ScoredPredictions ==
  IF mode = "score-only"
  THEN {Predict("none", shipped.weights, e) : e \in TokenExamples(Scored, shipped.tokens)}
  ELSE {p \in oof : p.grouping = "author"}

\* A prediction for every record: by the shipped table when nothing is fitted,
\* out of fold otherwise; what was decided without a score is 0 or 1.  Written
\* only to a path that was given.
Predictions ==
  (IF mode = "score-only"
   THEN {Predict("none", shipped.weights, e) : e \in TokenExamples(Scored, shipped.tokens)}
   ELSE {p \in oof : p.grouping = "author"})
  \cup {Unjudged(i) : i \in decided}

Emit ==
  /\ pc = "emit"
  /\ emitted' \in {Predictions, {}}
  /\ pc' = IF mode = "fit" THEN "write" ELSE "done"
  /\ UNCHANGED <<constants, fold, mode, loaded, replayed, examples, oof, held, cuts, files, shipped, runs>>

WriteWeights ==
  /\ pc = "write"
  /\ files' = [files EXCEPT !.weights = FinalWeights]
  /\ pc' = "tokens"
  /\ UNCHANGED <<constants, fold, mode, results, shipped, runs>>

WriteTokens ==
  /\ pc = "tokens"
  /\ files' = [files EXCEPT !.tokens = TrainTable(Scored)]
  /\ pc' = "done"
  /\ UNCHANGED <<constants, fold, mode, results, shipped, runs>>

\* The next run, after a build that embeds the files, whether this one came to
\* its end or not.
Rerun ==
  /\ runs < MaxRuns
  /\ runs' = runs + 1
  /\ shipped' = files
  /\ mode' \in Modes
  /\ pc' = "load" /\ fold' = 0
  /\ Cleared
  /\ UNCHANGED <<constants, files>>

Next ==
  \/ Load \/ \E i \in Left : Replay(i)
  \/ Replayed
  \/ \E grouping \in Groupings : CrossValidate(grouping)
  \/ HoldOutSources \/ FinalFit \/ Emit \/ WriteWeights \/ WriteTokens
  \/ Rerun

Spec == Init /\ [][Next]_vars

-----------------------------------------------------------------------------
(* Properties *)

Together(grouping, i, j) == IF grouping = "repo" THEN RepoOf(i) = RepoOf(j) ELSE AuthorOf(i) = AuthorOf(j)

\* No prediction of a fold is by a model, or by a token table, that was trained
\* on a record of the account (of the repository) that the fold holds out, and
\* no source is judged by what was trained on its slop: fold_of lowercases, so
\* an account that is spelled in two ways is in one fold.  What the prior was
\* fitted on, and what the stores held that its examples were replayed against,
\* is not counted.
HeldOutIsUnseen ==
  /\ \A p \in oof : \A i \in p.trained : ~Together(p.grouping, i, p.record)
  /\ \A s \in DOMAIN held : \A i \in held[s].trained : ~(Slop(i) /\ corpus[i].source = s)

\* The token score that a training example carries is of a table that was built
\* without any record of its account, the embedded table's included, which an
\* earlier run built from the same corpus (crossfit_token_examples).
CrossFitted == \A e \in examples : \A i \in e.tokens : AuthorOf(i) # AuthorOf(e.record)

\* All that is scored is in one fold: cross_validate has nothing to train on.
OneFold == \A i, j \in Scored : FoldOf("author", i) = FoldOf("author", j)

\* The thresholds are set on the negatives that are scored, all of them unless
\* they are in one fold, each as a fold predicted it whose examples and token
\* tables had no record of its account.  That account can have had a say in two
\* ways, no more: by a store, where an earlier pull request of its was in the
\* repository of a record that the fold trained on; and by the prior, which
\* knows no record before an earlier run has fitted what is embedded now.
CutsHeldOut ==
  /\ \A p \in cuts :
       /\ ~Slop(p.record)
       /\ \A i \in p.trained : AuthorOf(i) # AuthorOf(p.record)
       /\ \A i \in p.seen : \E j \in p.trained :
            RepoOf(j) = RepoOf(i) /\ corpus[i].created <= corpus[j].created
       /\ p.prior # {} => runs > 0
  /\ pc = "write" => OneFold \/ {p.record : p \in cuts} = {i \in Scored : ~Slop(i)}

\* The benchmark has one prediction for every record that was loaded, which is
\* what bench/score.py asks for, unless all the scored ones are in one fold.
OnePredictionEach ==
  emitted # {} =>
    \/ OneFold
    \/ /\ {p.record : p \in emitted} = loaded
       /\ \A p, q \in emitted : p.record = q.record => p = q

\* A record is replayed against every scored record of its repository that was
\* opened before it and against none that was opened later; and where its store
\* and its dossier both have an earlier pull request of the account, it is not
\* a stranger's.  A dossier may miss what the store has: then it is.
ReplaySeesThePast ==
  \A i \in Scored : LET seen == evidence[i].seen IN
    /\ \A j \in Scored : RepoOf(j) = RepoOf(i) =>
         /\ corpus[j].created < corpus[i].created => j \in seen
         /\ corpus[j].created > corpus[i].created => j \notin seen
    /\ \A j \in seen :
         /\ RepoOf(j) = RepoOf(i)
         /\ Dated(j) /\ corpus[j].created < corpus[i].created /\ AuthorOf(j) = AuthorOf(i)
              /\ [repo |-> RepoOf(j), created |-> corpus[j].created] \in corpus[i].history
              => ~evidence[i].stranger
=============================================================================
