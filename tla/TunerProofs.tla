----------------------------- MODULE TunerProofs -----------------------------
(***************************************************************************)
(* Proofs about Tuner, for any corpus, any number of folds and any hash:   *)
(* no fold is judged by what trained on it, the replay of each repository  *)
(* is in the order of its history, and what the thresholds are set on can  *)
(* have known the account only by a store or by an earlier run's weights.  *)
(***************************************************************************)
EXTENDS Tuner, FiniteSetTheorems, TLAPS

USE TunerAssumption

-----------------------------------------------------------------------------
(* Tables, examples and fits *)

LEMMA Parts == TypeOK <=> GivenOK /\ StageOK /\ ReplayOK /\ FitsOK /\ FilesOK
BY DEF TypeOK

\* Every record has an account and a repository, and its folds are folds.
LEMMA RecordTypes ==
  ASSUME TypeOK, NEW i \in Ids
  PROVE  /\ corpus[i] \in Record /\ AuthorOf(i) \in Accounts /\ RepoOf(i) \in Repos
         /\ Slop(i) \in BOOLEAN /\ corpus[i].created \in Nat /\ i \in Nat
         /\ hash.inner[AuthorOf(i)] \in Folds
<1>1. corpus \in Seq(Record)
  BY DEF TypeOK, GivenOK
<1>2. corpus[i] \in Record /\ i \in Nat
  BY <1>1 DEF Ids
<1>3. AuthorOf(i) \in Accounts
  BY <1>2 DEF AuthorOf, Accounts, Record
<1>4. hash.inner \in [Accounts -> Folds]
  BY DEF TypeOK, GivenOK
<1>5. QED
  BY <1>2, <1>3, <1>4 DEF RepoOf, Slop, Record

LEMMA TableOfSome == \A ids : TrainTable(ids) \subseteq ids
BY DEF TrainTable

\* The examples of some records are theirs, one for each, and the tokens of
\* each are of records of other accounts.
LEMMA CrossfitApart ==
  ASSUME TypeOK, NEW ids, ids \subseteq Ids
  PROVE  /\ CrossfitExamples(ids) \subseteq Example
         /\ \A e \in CrossfitExamples(ids) :
              /\ e.record \in ids /\ e.tokens \subseteq ids
              /\ \A i \in e.tokens : AuthorOf(i) # AuthorOf(e.record)
<1> SUFFICES ASSUME NEW e \in CrossfitExamples(ids)
             PROVE  /\ e \in Example /\ e.record \in ids /\ e.tokens \subseteq ids
                    /\ \A i \in e.tokens : AuthorOf(i) # AuthorOf(e.record)
  OBVIOUS
<1>1. PICK k \in Folds :
        LET inner == {i \in ids : hash.inner[AuthorOf(i)] = k}
        IN  e \in TokenExamples(inner, TrainTable(ids \ inner))
  BY DEF CrossfitExamples
<1> DEFINE inner == {i \in ids : hash.inner[AuthorOf(i)] = k}
<1>2. PICK j \in inner : e = [record |-> j, tokens |-> TrainTable(ids \ inner)]
  BY <1>1 DEF TokenExamples
<1>3. e.record = j /\ e.tokens \subseteq ids \ inner
  BY <1>2, TableOfSome
<1>4. \A i \in e.tokens : AuthorOf(i) # AuthorOf(e.record)
  BY <1>3
<1>5. QED
  BY <1>2, <1>3, <1>4 DEF Example, Lineage

\* What a fit was trained on is among the records of its examples.
LEMMA FitOfExamples ==
  ASSUME TypeOK, NEW ids, ids \subseteq Scored, NEW prior \in Model
  PROVE  /\ Fit(CrossfitExamples(ids), prior) \in Model
         /\ Fit(CrossfitExamples(ids), prior).trained \subseteq ids
<1> DEFINE trainers == CrossfitExamples(ids)
<1>0. Scored \subseteq Ids /\ \A i \in Scored : evidence[i].seen \subseteq Ids
  BY DEF TypeOK, ReplayOK, Scored, Evidence, Lineage
<1>1. \A e \in trainers : e.record \in ids /\ e.tokens \subseteq ids
  BY <1>0, CrossfitApart
<1> HIDE DEF trainers
<1>2. {e.record : e \in trainers} \subseteq ids /\ Tokens(trainers) \subseteq ids
  BY <1>1 DEF Tokens
<1>3. UNION {evidence[e.record].seen : e \in trainers} \subseteq Ids
  BY <1>0, <1>1
<1>4. prior.trained \subseteq Ids /\ prior.seen \subseteq Ids /\ prior.prior \subseteq Ids
  BY DEF Model, Lineage
<1>5. Fit(trainers, prior) \in Model /\ Fit(trainers, prior).trained \subseteq ids
  BY <1>0, <1>2, <1>3, <1>4 DEF Fit, Model, Lineage
<1>6. QED
  BY <1>5 DEF trainers

\* A prediction is of its record, by its model and its tokens.
LEMMA PredictionOf ==
  ASSUME NEW grouping \in Groupings \cup {"none"}, NEW model \in Model, NEW e \in Example
  PROVE  /\ Predict(grouping, model, e) \in Prediction
         /\ Predict(grouping, model, e).grouping = grouping
         /\ Predict(grouping, model, e).record = e.record
         /\ Predict(grouping, model, e).trained = model.trained \cup e.tokens
         /\ Predict(grouping, model, e).seen = model.seen
         /\ Predict(grouping, model, e).prior = model.prior
BY DEF Predict, Prediction, Model, Example, Lineage

\* The predictions of a fold: each is by what the other folds were trained on.
FoldPredictions(grouping) ==
  LET eval  == {i \in Scored : FoldOf(grouping, i) = fold}
      train == {i \in Scored : FoldOf(grouping, i) # fold}
  IN  {Predict(grouping, Fit(CrossfitExamples(train), shipped.weights), e) :
         e \in TokenExamples(eval, TrainTable(train))}

LEMMA FoldApart ==
  ASSUME TypeOK, NEW grouping \in Groupings
  PROVE  /\ FoldPredictions(grouping) \subseteq Prediction
         /\ \A p \in FoldPredictions(grouping) :
              /\ p.grouping = grouping
              /\ p.record \in Scored /\ FoldOf(grouping, p.record) = fold
              /\ \A i \in p.trained : FoldOf(grouping, i) # fold
         /\ \A i \in Scored : FoldOf(grouping, i) = fold =>
              \E p \in FoldPredictions(grouping) : p.record = i
         /\ \A p, q \in FoldPredictions(grouping) : p.record = q.record => p = q
<1> DEFINE eval  == {i \in Scored : FoldOf(grouping, i) = fold}
           train == {i \in Scored : FoldOf(grouping, i) # fold}
           model == Fit(CrossfitExamples(train), shipped.weights)
           table == TrainTable(train)
           ex(i) == [record |-> i, tokens |-> table]
<1>1. Scored \subseteq Ids /\ shipped.weights \in Model
  BY DEF TypeOK, ReplayOK, FilesOK, Scored, Lineage
<1>2. model \in Model /\ model.trained \subseteq train /\ table \subseteq train
  BY <1>1, FitOfExamples, TableOfSome
<1> HIDE DEF model, table
<1>3. \A i \in eval : ex(i) \in Example
  BY <1>1, <1>2 DEF Example, Lineage
<1>4. \A i \in eval : /\ Predict(grouping, model, ex(i)) \in Prediction
                      /\ Predict(grouping, model, ex(i)).grouping = grouping
                      /\ Predict(grouping, model, ex(i)).record = i
                      /\ Predict(grouping, model, ex(i)).trained = model.trained \cup table
  BY <1>2, <1>3, PredictionOf
<1>5. FoldPredictions(grouping) = {Predict(grouping, model, ex(i)) : i \in eval}
  <2>1. TokenExamples(eval, table) = {ex(i) : i \in eval}
    BY DEF TokenExamples
  <2>2. FoldPredictions(grouping) = {Predict(grouping, model, e) : e \in TokenExamples(eval, table)}
    BY DEF FoldPredictions, model, table
  <2>3. QED
    BY <2>1, <2>2
<1>6. ASSUME NEW p \in FoldPredictions(grouping)
      PROVE  /\ p \in Prediction /\ p.grouping = grouping
             /\ p.record \in eval /\ p.trained \subseteq train
             /\ p = Predict(grouping, model, ex(p.record))
  <2>1. PICK i \in eval : p = Predict(grouping, model, ex(i))
    BY <1>5
  <2>2. p.record = i
    BY <1>4, <2>1
  <2>3. QED
    BY <1>2, <1>4, <2>1, <2>2
<1>7. ASSUME NEW i \in eval PROVE \E p \in FoldPredictions(grouping) : p.record = i
  BY <1>4, <1>5
<1>8. \A p, q \in FoldPredictions(grouping) : p.record = q.record => p = q
  BY <1>6
<1>9. QED
  BY <1>6, <1>7, <1>8

\* A step of cross_validate adds the predictions of one fold, or none where a
\* side is empty.
LEMMA FoldStep ==
  ASSUME NEW grouping \in Groupings, CrossValidate(grouping)
  PROVE  \/ UNCHANGED <<examples, oof>>
            /\ \/ \A i \in Scored : FoldOf(grouping, i) # fold
               \/ \A i \in Scored : FoldOf(grouping, i) = fold
         \/ /\ oof' = oof \cup FoldPredictions(grouping)
            /\ examples' = CrossfitExamples({i \in Scored : FoldOf(grouping, i) # fold})
BY DEF CrossValidate, FoldPredictions

-----------------------------------------------------------------------------
(* Type correctness *)

LEMMA InitType == Init => TypeOK
<1> SUFFICES ASSUME Init PROVE TypeOK
  OBVIOUS
<1>1. 0 \in Folds /\ 0 \in 0 .. MaxRuns
  BY DEF Folds
<1>2. Untrained \in [weights : Model, tokens : Lineage]
  BY DEF Untrained, Model, Lineage
<1>3. DOMAIN Nothing = {} /\ \A S : Nothing \in [DOMAIN Nothing -> S]
  BY DEF Nothing
<1>4. GivenOK /\ StageOK
  BY <1>1 DEF Init, GivenOK, StageOK, Stages
<1>5. ReplayOK /\ FitsOK
  BY <1>3 DEF Init, ReplayOK, FitsOK, Lineage
<1>6. FilesOK
  BY <1>2 DEF Init, FilesOK
<1>7. QED
  BY <1>4, <1>5, <1>6, Parts

LEMMA ScoredAreRecords == TypeOK => Scored \subseteq Ids /\ decided \subseteq Ids /\ loaded \subseteq Ids
BY DEF TypeOK, ReplayOK, Scored, Lineage

LEMMA FoldTypes == TypeOK => NextFold \in Folds /\ 0 \in Folds
<1> SUFFICES ASSUME TypeOK PROVE NextFold \in Folds /\ 0 \in Folds
  OBVIOUS
<1>1. fold \in Nat /\ FOLDS \in Nat \ {0}
  BY DEF TypeOK, StageOK, Folds
<1>2. (fold + 1) % FOLDS \in 0 .. FOLDS - 1
  BY <1>1
<1>3. QED
  BY <1>1, <1>2 DEF NextFold, Folds

\* The corpus never changes, nor what is said in terms of it.
LEMMA SameData ==
  ASSUME UNCHANGED corpus
  PROVE  /\ Ids' = Ids /\ Lineage' = Lineage /\ Example' = Example /\ Model' = Model
         /\ Prediction' = Prediction /\ Evidence' = Evidence
         /\ \A i : AuthorOf(i)' = AuthorOf(i) /\ RepoOf(i)' = RepoOf(i) /\ Slop(i)' = Slop(i) /\ Dated(i)' = Dated(i)
<1>1. Ids' = Ids
  BY DEF Ids
<1>2. Lineage' = Lineage
  BY <1>1 DEF Lineage
<1>3. QED
  BY <1>1, <1>2 DEF Example, Model, Prediction, Evidence, AuthorOf, RepoOf, Slop, Dated

LEMMA SameParts ==
  ASSUME TypeOK, UNCHANGED constants
  PROVE  /\ GivenOK'
         /\ (UNCHANGED <<mode, runs>> /\ pc' \in Stages /\ fold' \in Folds) => StageOK'
         /\ UNCHANGED <<loaded, evidence, decided>> => ReplayOK'
         /\ UNCHANGED <<examples, oof, held, cuts, emitted>> => FitsOK'
         /\ UNCHANGED <<files, shipped>> => FilesOK'
<1>1. UNCHANGED corpus /\ UNCHANGED hash
  BY DEF constants
<1>2. QED
  BY <1>1, SameData DEF TypeOK, GivenOK, StageOK, ReplayOK, FitsOK, FilesOK

LEMMA LoadType == TypeOK /\ Load => TypeOK'
<1> SUFFICES ASSUME TypeOK, Load PROVE TypeOK'
  OBVIOUS
<1>1. UNCHANGED corpus /\ UNCHANGED constants /\ loaded' \subseteq Ids
  BY DEF Load, constants
<1>2. UNCHANGED <<mode, runs, fold, evidence, decided, examples, oof, held, cuts, emitted, files, shipped>>
  BY DEF Load, replayed
<1>3. ReplayOK'
  BY <1>1, <1>2, SameData DEF TypeOK, ReplayOK, Lineage
<1>4. pc' \in Stages /\ fold' \in Folds
  BY <1>2 DEF Load, Stages, TypeOK, StageOK
<1>5. QED
  BY <1>1, <1>2, <1>3, <1>4, SameParts, Parts DEF TypeOK

LEMMA ReplayType == TypeOK /\ (\E i \in Left : Replay(i)) => TypeOK'
<1> SUFFICES ASSUME TypeOK, NEW i \in Left, Replay(i) PROVE TypeOK'
  OBVIOUS
<1>1. UNCHANGED corpus /\ UNCHANGED constants
  BY DEF Replay, constants
<1>2. UNCHANGED <<mode, runs, pc, fold, loaded, examples, oof, held, cuts, emitted, files, shipped>>
  BY DEF Replay
<1>3. i \in Ids /\ Scored \subseteq Ids /\ decided \subseteq Ids
  BY ScoredAreRecords DEF Left
<1>4. Judge(i) \in Evidence
  <2>1. Store(i) \subseteq Ids /\ Stranger(i) \in BOOLEAN
    BY <1>3 DEF Store, Stranger
  <2>2. shipped.tokens \in Lineage
    BY DEF TypeOK, FilesOK
  <2>3. QED
    BY <2>1, <2>2 DEF Judge, Evidence, Lineage
<1>5. DOMAIN evidence' \subseteq Ids /\ decided' \subseteq Ids /\ evidence' \in [DOMAIN evidence' -> Evidence]
  <2>1. evidence \in [Scored -> Evidence]
    BY DEF TypeOK, ReplayOK, Scored
  <2>2. QED
    BY <1>3, <1>4, <2>1 DEF Replay, Scored
<1>6. ReplayOK'
  BY <1>1, <1>2, <1>5, SameData DEF TypeOK, ReplayOK, Lineage
<1>7. QED
  BY <1>1, <1>2, <1>6, SameParts, Parts DEF TypeOK, StageOK

LEMMA FoldType == TypeOK /\ (\E grouping \in Groupings : CrossValidate(grouping)) => TypeOK'
<1> SUFFICES ASSUME TypeOK, NEW grouping \in Groupings, CrossValidate(grouping) PROVE TypeOK'
  OBVIOUS
<1>1. UNCHANGED corpus /\ UNCHANGED constants
  BY DEF CrossValidate, constants
<1>2. UNCHANGED <<mode, runs, loaded, evidence, decided, held, cuts, emitted, files, shipped>>
  BY DEF CrossValidate, replayed
<1>3. examples' \subseteq Example /\ oof' \subseteq Prediction
  <2>1. {i \in Scored : FoldOf(grouping, i) # fold} \subseteq Ids
    BY ScoredAreRecords
  <2>2. CrossfitExamples({i \in Scored : FoldOf(grouping, i) # fold}) \subseteq Example
    BY <2>1, CrossfitApart
  <2>3. FoldPredictions(grouping) \subseteq Prediction
    BY FoldApart
  <2>4. examples \subseteq Example /\ oof \subseteq Prediction
    BY DEF TypeOK, FitsOK
  <2>5. QED
    BY <2>2, <2>3, <2>4, FoldStep
<1>4. FitsOK'
  BY <1>1, <1>2, <1>3, SameData DEF TypeOK, FitsOK
<1>5. pc' \in Stages /\ fold' \in Folds
  BY FoldTypes DEF CrossValidate, AfterFolds, Stages, Groupings, TypeOK, StageOK
<1>6. QED
  BY <1>1, <1>2, <1>4, <1>5, SameParts, Parts DEF TypeOK

\* A source that is held out is judged by what no slop of it has trained.
LEMMA SourceApart ==
  ASSUME TypeOK, HoldOutSources
  PROVE  /\ DOMAIN held' \subseteq Sources
         /\ \A s \in DOMAIN held' : held'[s] \in Model /\ held'[s].trained \subseteq TrainWithout(s)
<1> DEFINE enough == {s \in Sources : Cardinality(OfSource(s)) >= MinSource}
           model(s) == Fit(CrossfitExamples(TrainWithout(s)), shipped.weights)
           judge(s) == [model(s) EXCEPT !.trained = @ \cup TrainTable(TrainWithout(s))]
<1>1. held' = [s \in enough |-> judge(s)]
  BY DEF HoldOutSources
<1>2. ASSUME NEW s \in Sources PROVE judge(s) \in Model /\ judge(s).trained \subseteq TrainWithout(s)
  <2>1. TrainWithout(s) \subseteq Scored /\ TrainWithout(s) \subseteq Ids /\ shipped.weights \in Model
    BY ScoredAreRecords DEF TrainWithout, TypeOK, FilesOK
  <2>2. model(s) \in Model /\ model(s).trained \subseteq TrainWithout(s)
    BY <2>1, FitOfExamples
  <2>3. TrainTable(TrainWithout(s)) \subseteq TrainWithout(s)
    BY TableOfSome
  <2> HIDE DEF model
  <2>4. QED
    BY <2>1, <2>2, <2>3 DEF Model, Lineage
<1> HIDE DEF judge
<1>3. QED
  BY <1>1, <1>2

LEMMA SourcesType == TypeOK /\ HoldOutSources => TypeOK'
<1> SUFFICES ASSUME TypeOK, HoldOutSources PROVE TypeOK'
  OBVIOUS
<1>1. UNCHANGED corpus /\ UNCHANGED constants
  BY DEF HoldOutSources, constants
<1>2. UNCHANGED <<mode, runs, fold, loaded, evidence, decided, examples, oof, cuts, emitted, files, shipped>>
  BY DEF HoldOutSources, replayed
<1>3. held' \in [DOMAIN held' -> Model] /\ DOMAIN held' \subseteq Sources
  <2>1. held' = [s \in DOMAIN held' |-> held'[s]]
    BY DEF HoldOutSources
  <2>2. QED
    BY <2>1, SourceApart
<1>4. FitsOK'
  BY <1>1, <1>2, <1>3, SameData DEF TypeOK, FitsOK
<1>5. pc' \in Stages /\ fold' \in Folds
  BY <1>2 DEF HoldOutSources, Stages, TypeOK, StageOK
<1>6. QED
  BY <1>1, <1>2, <1>4, <1>5, SameParts, Parts DEF TypeOK

LEMMA FinalType == TypeOK /\ FinalFit => TypeOK'
<1> SUFFICES ASSUME TypeOK, FinalFit PROVE TypeOK'
  OBVIOUS
<1>1. UNCHANGED corpus /\ UNCHANGED constants
  BY DEF FinalFit, constants
<1>2. UNCHANGED <<mode, runs, fold, loaded, evidence, decided, oof, held, emitted, files, shipped>>
  BY DEF FinalFit, replayed
<1>3. examples' \subseteq Example
  BY ScoredAreRecords, CrossfitApart DEF FinalFit
<1>4. cuts' \subseteq Prediction
  BY DEF FinalFit, OutOfFoldCuts, TypeOK, FitsOK
<1>5. FitsOK'
  BY <1>1, <1>2, <1>3, <1>4, SameData DEF TypeOK, FitsOK
<1>6. pc' \in Stages /\ fold' \in Folds
  BY <1>2 DEF FinalFit, Stages, TypeOK, StageOK
<1>7. QED
  BY <1>1, <1>2, <1>5, <1>6, SameParts, Parts DEF TypeOK

LEMMA FinalWeightsType == TypeOK => FinalWeights \in Model /\ TrainTable(Scored) \in Lineage
BY ScoredAreRecords, FitOfExamples, TableOfSome DEF FinalWeights, TypeOK, FilesOK, Lineage

LEMMA EmitType == TypeOK /\ Emit => TypeOK'
<1> SUFFICES ASSUME TypeOK, Emit PROVE TypeOK'
  OBVIOUS
<1>1. UNCHANGED corpus /\ UNCHANGED constants
  BY DEF Emit, constants
<1>2. UNCHANGED <<mode, runs, fold, loaded, evidence, decided, examples, oof, held, cuts, files, shipped>>
  BY DEF Emit, replayed
<1>3. Predictions \subseteq Prediction
  <2>1. {p \in oof : p.grouping = "author"} \subseteq Prediction
    BY DEF TypeOK, FitsOK
  <2>2. {Predict("none", shipped.weights, e) : e \in TokenExamples(Scored, shipped.tokens)} \subseteq Prediction
    <3>1. shipped.weights \in Model /\ TokenExamples(Scored, shipped.tokens) \subseteq Example
      BY ScoredAreRecords DEF TypeOK, FilesOK, TokenExamples, Example
    <3>2. \A e \in TokenExamples(Scored, shipped.tokens) : Predict("none", shipped.weights, e) \in Prediction
      BY <3>1, PredictionOf
    <3>3. QED
      BY <3>2
  <2>3. {Unjudged(i) : i \in decided} \subseteq Prediction
    BY ScoredAreRecords DEF Unjudged, Prediction, Lineage
  <2>4. QED
    BY <2>1, <2>2, <2>3 DEF Predictions
<1>4. FitsOK'
  BY <1>1, <1>2, <1>3, SameData DEF Emit, TypeOK, FitsOK
<1>5. pc' \in Stages /\ fold' \in Folds
  BY <1>2 DEF Emit, Stages, TypeOK, StageOK
<1>6. QED
  BY <1>1, <1>2, <1>4, <1>5, SameParts, Parts DEF TypeOK

LEMMA WriteType == TypeOK /\ (WriteWeights \/ WriteTokens) => TypeOK'
<1> SUFFICES ASSUME TypeOK, WriteWeights \/ WriteTokens PROVE TypeOK'
  OBVIOUS
<1>1. UNCHANGED corpus /\ UNCHANGED constants
  BY DEF WriteWeights, WriteTokens, constants
<1>2. UNCHANGED <<mode, runs, fold, loaded, evidence, decided, examples, oof, held, cuts, emitted, shipped>>
  BY DEF WriteWeights, WriteTokens, results, replayed
<1>3. FilesOK'
  <2>1. files' \in [weights : Model, tokens : Lineage]
    BY FinalWeightsType DEF WriteWeights, WriteTokens, TypeOK, FilesOK
  <2>2. QED
    BY <1>1, <1>2, <2>1, SameData DEF TypeOK, FilesOK
<1>4. pc' \in Stages /\ fold' \in Folds
  BY <1>2 DEF WriteWeights, WriteTokens, Stages, TypeOK, StageOK
<1>5. QED
  BY <1>1, <1>2, <1>3, <1>4, SameParts, Parts DEF TypeOK

LEMMA ReplayedType == TypeOK /\ Replayed => TypeOK'
<1> SUFFICES ASSUME TypeOK, Replayed PROVE TypeOK'
  OBVIOUS
<1>1. UNCHANGED constants
  BY DEF Replayed
<1>2. UNCHANGED <<mode, runs, fold, loaded, evidence, decided, examples, oof, held, cuts, emitted, files, shipped>>
  BY DEF Replayed, results, replayed
<1>3. pc' \in Stages /\ fold' \in Folds
  BY <1>2 DEF Replayed, Stages, Groupings, TypeOK, StageOK
<1>4. QED
  BY <1>1, <1>2, <1>3, SameParts, Parts DEF TypeOK

LEMMA RerunType == TypeOK /\ Rerun => TypeOK'
<1> SUFFICES ASSUME TypeOK, Rerun PROVE TypeOK'
  OBVIOUS
<1>1. UNCHANGED corpus /\ UNCHANGED constants /\ UNCHANGED files /\ shipped' = files
  BY DEF Rerun, constants
<1>2. DOMAIN Nothing = {} /\ \A S : Nothing \in [DOMAIN Nothing -> S]
  BY DEF Nothing
<1>3. ReplayOK' /\ FitsOK'
  BY <1>2 DEF Rerun, Cleared, ReplayOK, FitsOK, Lineage
<1>4. FilesOK'
  BY <1>1, SameData DEF TypeOK, FilesOK
<1>5. StageOK'
  BY FoldTypes DEF Rerun, TypeOK, StageOK, Stages
<1>6. GivenOK'
  BY <1>1, SameParts
<1>7. QED
  BY <1>3, <1>4, <1>5, <1>6 DEF TypeOK

LEMMA NextType == TypeOK /\ [Next]_vars => TypeOK'
<1> SUFFICES ASSUME TypeOK, [Next]_vars PROVE TypeOK'
  OBVIOUS
<1>1. CASE UNCHANGED vars
  <2>1. UNCHANGED <<constants, mode, pc, fold, loaded, evidence, decided, examples, oof, held, cuts, emitted, files, shipped, runs>>
    BY <1>1 DEF vars, results, replayed
  <2>2. QED
    BY <2>1, SameParts, Parts DEF TypeOK, StageOK
<1>2. CASE Next
  BY <1>2, LoadType, ReplayType, ReplayedType, FoldType, SourcesType, FinalType, EmitType, WriteType, RerunType
     DEF Next
<1>3. QED
  BY <1>1, <1>2

\* The tuner's state is well typed, whatever the corpus and the hashes.
THEOREM TypeCorrect == Spec => []TypeOK
<1>1. QED
  BY InitType, NextType, PTL DEF Spec

-----------------------------------------------------------------------------
(* Nothing is judged by what saw it *)

Unseen == HeldOutIsUnseen /\ CrossFitted

\* Records of one fold's account, or repository, are of that fold.
LEMMA TogetherInAFold ==
  \A grouping \in Groupings : \A i, j : Together(grouping, i, j) => FoldOf(grouping, i) = FoldOf(grouping, j)
BY DEF Together, FoldOf

LEMMA UnseenHolds == TypeOK /\ Unseen /\ [Next]_vars => Unseen'
<1> SUFFICES ASSUME TypeOK, Unseen, [Next]_vars PROVE Unseen'
  OBVIOUS
<1>0. UNCHANGED corpus
  BY DEF Next, vars, constants, Load, Replay, Replayed, CrossValidate, HoldOutSources, FinalFit, Emit,
         WriteWeights, WriteTokens, Rerun
<1>1. \A i, j : \A grouping : Together(grouping, i, j)' = Together(grouping, i, j)
  BY <1>0 DEF Together, RepoOf, AuthorOf
<1>2. ASSUME UNCHANGED <<examples, oof, held>> PROVE Unseen'
  BY <1>0, <1>1, <1>2 DEF Unseen, HeldOutIsUnseen, CrossFitted, Slop, AuthorOf
<1>3. ASSUME NEW grouping \in Groupings, CrossValidate(grouping) PROVE Unseen'
  <2>1. UNCHANGED held
    BY <1>3 DEF CrossValidate
  <2>2. \A p \in FoldPredictions(grouping) : \A i \in p.trained : ~Together(p.grouping, i, p.record)
    BY FoldApart, TogetherInAFold
  <2>3. \A p \in oof' : \A i \in p.trained : ~Together(p.grouping, i, p.record)
    BY <1>3, <2>2, FoldStep DEF Unseen, HeldOutIsUnseen
  <2>4. CrossFitted'
    <3>1. {i \in Scored : FoldOf(grouping, i) # fold} \subseteq Ids
      BY ScoredAreRecords
    <3>2. \A e \in examples' : \A i \in e.tokens : AuthorOf(i) # AuthorOf(e.record)
      <4>1. \A e \in CrossfitExamples({i \in Scored : FoldOf(grouping, i) # fold}) :
              \A i \in e.tokens : AuthorOf(i) # AuthorOf(e.record)
        BY <3>1, CrossfitApart
      <4>2. \A e \in examples : \A i \in e.tokens : AuthorOf(i) # AuthorOf(e.record)
        BY DEF Unseen, CrossFitted
      <4>3. QED
        BY <1>3, <4>1, <4>2, FoldStep
    <3>3. QED
      BY <1>0, <3>2 DEF CrossFitted, AuthorOf
  <2>5. HeldOutIsUnseen'
    BY <1>0, <1>1, <2>1, <2>3 DEF Unseen, HeldOutIsUnseen, Slop
  <2>6. QED
    BY <2>4, <2>5 DEF Unseen
<1>4. CASE HoldOutSources
  <2>1. UNCHANGED <<examples, oof>>
    BY <1>4 DEF HoldOutSources
  <2>2. \A s \in DOMAIN held' : \A i \in held'[s].trained : ~(Slop(i) /\ corpus[i].source = s)
    BY <1>4, SourceApart DEF TrainWithout, OfSource
  <2>3. HeldOutIsUnseen'
    BY <1>0, <1>1, <2>1, <2>2 DEF Unseen, HeldOutIsUnseen, Slop
  <2>4. CrossFitted'
    BY <1>0, <2>1 DEF Unseen, CrossFitted, AuthorOf
  <2>5. QED
    BY <2>3, <2>4 DEF Unseen
<1>5. CASE FinalFit
  <2>1. UNCHANGED <<oof, held>> /\ examples' = CrossfitExamples(Scored)
    BY <1>5 DEF FinalFit
  <2>2. CrossFitted'
    BY <1>0, <2>1, ScoredAreRecords, CrossfitApart DEF CrossFitted, AuthorOf
  <2>3. HeldOutIsUnseen'
    BY <1>0, <1>1, <2>1 DEF Unseen, HeldOutIsUnseen, Slop
  <2>4. QED
    BY <2>2, <2>3 DEF Unseen
<1>6. CASE Rerun
  BY <1>6 DEF Rerun, Cleared, Unseen, HeldOutIsUnseen, CrossFitted, Nothing
<1>7. CASE UNCHANGED vars
  BY <1>2, <1>7 DEF vars, results
<1>8. CASE Load \/ (\E i \in Left : Replay(i)) \/ Emit
  BY <1>2, <1>8 DEF Load, Replay, Emit
<1>9. CASE Replayed \/ WriteWeights \/ WriteTokens
  BY <1>2, <1>9 DEF Replayed, WriteWeights, WriteTokens, results
<1>10. QED
  BY <1>3, <1>4, <1>5, <1>6, <1>7, <1>8, <1>9 DEF Next

LEMMA UnseenAtFirst == Init => Unseen
BY DEF Init, Unseen, HeldOutIsUnseen, CrossFitted, Nothing

\* For any corpus, any number of folds and any hash, no fold's prediction is
\* by a model or a token table that a record of the held-out account, or
\* repository, has trained, and no source is judged by its own slop.
THEOREM JudgedUnseen == Spec => []HeldOutIsUnseen
<1>1. Unseen => HeldOutIsUnseen
  BY DEF Unseen
<1>2. QED
  BY <1>1, UnseenAtFirst, UnseenHolds, TypeCorrect, PTL DEF Spec

\* The token score of a training example is never of a table that a record of
\* its account has built, the table of an earlier run included.
THEOREM TokensAreCrossFitted == Spec => []CrossFitted
<1>1. Unseen => CrossFitted
  BY DEF Unseen
<1>2. QED
  BY <1>1, UnseenAtFirst, UnseenHolds, TypeCorrect, PTL DEF Spec

-----------------------------------------------------------------------------
(* The predictions, fold by fold *)

Late == {"emit", "write", "tokens", "done"}

\* The folds of a grouping that are behind.
Passed(grouping, k) ==
  \/ pc = grouping /\ k < fold
  \/ pc = "repo" /\ grouping = "author"
  \/ pc \in {"sources", "final"}
  \/ pc \in Late /\ mode # "score-only"

Staged ==
  /\ pc \notin Groupings => fold = 0
  /\ mode = "score-only" => pc \in {"load", "replay", "emit", "done"}
  /\ pc \in {"write", "tokens"} => mode = "fit"
  /\ pc = "load" => Scored = {} /\ decided = {}
  /\ Scored \cup decided \subseteq loaded /\ Scored \cap decided = {}
  /\ pc \notin {"load", "replay"} => loaded = Scored \cup decided

Predicted ==
  /\ \A p \in oof : p.grouping \in Groupings /\ p.record \in Scored /\ Passed(p.grouping, FoldOf(p.grouping, p.record))
  /\ \A p, q \in oof : p.grouping = q.grouping /\ p.record = q.record => p = q
  /\ OneFold \/ \A i \in Scored : Passed("author", FoldOf("author", i)) =>
                  \E p \in oof : p.grouping = "author" /\ p.record = i

Kept ==
  /\ cuts = IF pc \in Late /\ mode # "score-only" THEN OutOfFoldCuts ELSE {}
  /\ emitted # {} => pc \in Late /\ emitted = Predictions

FoldsInv == Staged /\ Predicted /\ Kept

LEMMA FoldsAtFirst == Init => FoldsInv
BY DEF Init, FoldsInv, Staged, Predicted, Kept, Nothing, Scored, Passed, Groupings, Late

LEMMA FoldIsANumber ==
  ASSUME TypeOK, NEW grouping \in Groupings, NEW i \in Ids
  PROVE  FoldOf(grouping, i) \in Folds
<1>1. AuthorOf(i) \in Accounts /\ RepoOf(i) \in Repos
  BY RecordTypes
<1>2. QED
  BY <1>1 DEF FoldOf, TypeOK, GivenOK

LEMMA StagedHolds == TypeOK /\ Staged /\ [Next]_vars => Staged'
<1> SUFFICES ASSUME TypeOK, Staged, [Next]_vars PROVE Staged'
  OBVIOUS
<1> USE DEF Staged, Groupings
<1>1. CASE Load
  BY <1>1 DEF Load, replayed, Scored
<1>2. ASSUME NEW i \in Left, Replay(i) PROVE Staged'
  BY <1>2 DEF Replay, Left, Scored
<1>3. CASE Replayed
  BY <1>3 DEF Replayed, results, replayed, Left, Scored
<1>4. ASSUME NEW grouping \in Groupings, CrossValidate(grouping) PROVE Staged'
  BY <1>4 DEF CrossValidate, AfterFolds, replayed, Scored
<1>5. CASE HoldOutSources \/ FinalFit \/ Emit
  BY <1>5 DEF HoldOutSources, FinalFit, Emit, replayed, Scored, TypeOK, StageOK, Modes
<1>6. CASE WriteWeights \/ WriteTokens
  BY <1>6 DEF WriteWeights, WriteTokens, results, replayed, Scored
<1>7. CASE Rerun
  BY <1>7 DEF Rerun, Cleared, Nothing, Scored
<1>8. CASE UNCHANGED vars
  BY <1>8 DEF vars, results, replayed, Scored
<1>9. QED
  BY <1>1, <1>2, <1>3, <1>4, <1>5, <1>6, <1>7, <1>8 DEF Next

\* What the folds are, and whether they are one, hangs on the scored records.
LEMMA SameFolds ==
  ASSUME UNCHANGED <<corpus, hash>>
  PROVE  /\ \A grouping, i : FoldOf(grouping, i)' = FoldOf(grouping, i)
         /\ UNCHANGED evidence => Scored' = Scored /\ OneFold' = OneFold
<1>1. \A grouping, i : FoldOf(grouping, i)' = FoldOf(grouping, i)
  BY DEF FoldOf, AuthorOf, RepoOf
<1>2. QED
  BY <1>1 DEF Scored, OneFold

LEMMA PassedFolds ==
  ASSUME TypeOK, NEW grouping \in Groupings, CrossValidate(grouping),
         NEW other \in Groupings, NEW k \in Folds
  PROVE  Passed(other, k)' <=> Passed(other, k) \/ (other = grouping /\ k = fold)
<1>1. fold \in Nat /\ k \in Nat /\ fold < FOLDS /\ k < FOLDS /\ FOLDS \in Nat \ {0}
  BY DEF TypeOK, StageOK, Folds
<1>2. IF fold + 1 < FOLDS THEN fold' = fold + 1 ELSE fold + 1 = FOLDS /\ fold' = 0
  <2>1. CASE fold + 1 < FOLDS
    BY <1>1, <2>1 DEF CrossValidate, NextFold
  <2>2. CASE fold + 1 = FOLDS
    <3>1. FOLDS % FOLDS = 0
      BY <1>1
    <3>2. QED
      BY <1>1, <2>2, <3>1 DEF CrossValidate, NextFold
  <2>3. QED
    BY <1>1, <2>1, <2>2
<1>3. pc = grouping /\ pc' = IF fold' = 0 THEN AfterFolds(grouping) ELSE pc
  BY DEF CrossValidate
<1>4. CASE fold + 1 < FOLDS
  BY <1>1, <1>2, <1>3, <1>4 DEF Passed, Groupings, Late
<1>5. CASE fold + 1 = FOLDS
  BY <1>1, <1>2, <1>3, <1>5 DEF Passed, AfterFolds, Groupings, Late
<1>6. QED
  BY <1>1, <1>4, <1>5

LEMMA PredictedHolds == TypeOK /\ Staged /\ Predicted /\ [Next]_vars => Predicted'
<1> SUFFICES ASSUME TypeOK, Staged, Predicted, [Next]_vars PROVE Predicted'
  OBVIOUS
<1>0. UNCHANGED <<corpus, hash>>
  BY DEF Next, vars, constants, Load, Replay, Replayed, CrossValidate, HoldOutSources, FinalFit, Emit,
         WriteWeights, WriteTokens, Rerun
<1>1. ASSUME UNCHANGED <<evidence, oof>>,
             \A grouping \in Groupings, k \in Folds : Passed(grouping, k)' <=> Passed(grouping, k)
      PROVE  Predicted'
  <2>1. \A grouping \in Groupings, i \in Scored : FoldOf(grouping, i) \in Folds
    BY ScoredAreRecords, FoldIsANumber
  <2>2. QED
    BY <1>0, <1>1, <2>1, SameFolds DEF Predicted, Groupings
<1>2. ASSUME oof' = {}, \A k \in Folds : ~Passed("author", k)',
             Scored' \subseteq Ids
      PROVE  Predicted'
  <2>1. \A i \in Scored' : FoldOf("author", i) \in Folds
    BY <1>2, FoldIsANumber DEF Groupings
  <2>2. QED
    BY <1>0, <1>2, <2>1, SameFolds DEF Predicted
<1>3. pc \in {"load", "replay"} => oof = {}
  BY DEF Predicted, Passed, Groupings, Late
<1>4. CASE Load
  <2>1. oof' = {} /\ Scored' \subseteq Ids
    BY <1>3, <1>4, ScoredAreRecords DEF Load, replayed, Scored
  <2>2. \A k \in Folds : ~Passed("author", k)'
    BY <1>4 DEF Load, Passed, Late
  <2>3. QED
    BY <1>2, <2>1, <2>2
<1>5. ASSUME NEW i \in Left, Replay(i) PROVE Predicted'
  <2>1. oof' = {} /\ Scored' \subseteq Ids
    BY <1>3, <1>5, ScoredAreRecords DEF Replay, Scored, Left
  <2>2. \A k \in Folds : ~Passed("author", k)'
    BY <1>5 DEF Replay, Passed, Late
  <2>3. QED
    BY <1>2, <2>1, <2>2
<1>6. CASE Replayed
  <2>1. oof' = {} /\ Scored' \subseteq Ids /\ fold' = 0
    BY <1>3, <1>6, ScoredAreRecords DEF Replayed, results, replayed, Scored, Staged, Groupings
  <2>2. \A k \in Folds : ~Passed("author", k)'
    BY <1>6, <2>1 DEF Replayed, Passed, Late, Folds
  <2>3. QED
    BY <1>2, <2>1, <2>2
<1>7. ASSUME NEW grouping \in Groupings, CrossValidate(grouping) PROVE Predicted'
  <2> DEFINE new == FoldPredictions(grouping)
  <2>1. Scored' = Scored /\ OneFold' = OneFold /\ Scored \subseteq Ids
    BY <1>0, <1>7, SameFolds, ScoredAreRecords DEF CrossValidate, replayed
  <2>2. \A g \in Groupings, i \in Scored :
          /\ FoldOf(g, i) \in Folds /\ FoldOf(g, i)' = FoldOf(g, i)
          /\ Passed(g, FoldOf(g, i))' <=> Passed(g, FoldOf(g, i)) \/ (g = grouping /\ FoldOf(g, i) = fold)
    BY <1>0, <1>7, <2>1, FoldIsANumber, SameFolds, PassedFolds
  <2>3. ~Passed(grouping, fold)
    BY <1>7 DEF CrossValidate, Passed, Groupings, Late, TypeOK, StageOK, Folds
  <2>4. \A p \in new : /\ p.grouping = grouping /\ p.record \in Scored
                       /\ FoldOf(grouping, p.record) = fold
    BY FoldApart
  <2>5. \A p, q \in new : p.record = q.record => p = q
    BY FoldApart
  <2>6. \A i \in Scored : FoldOf(grouping, i) = fold => \E p \in new : p.record = i
    BY FoldApart
  <2> HIDE DEF new
  <2>7. CASE oof' = oof \cup new
    <3>1. \A p \in oof' : p.grouping \in Groupings /\ p.record \in Scored /\ Passed(p.grouping, FoldOf(p.grouping, p.record))'
      BY <2>2, <2>4, <2>7 DEF Predicted
    <3>2. \A p, q \in oof' : p.grouping = q.grouping /\ p.record = q.record => p = q
      BY <2>3, <2>4, <2>5, <2>7 DEF Predicted
    <3>3. OneFold \/ \A i \in Scored : Passed("author", FoldOf("author", i))' =>
                       \E p \in oof' : p.grouping = "author" /\ p.record = i
      BY <2>2, <2>4, <2>6, <2>7 DEF Predicted, Groupings
    <3>4. QED
      BY <1>0, <2>1, <2>2, <3>1, <3>2, <3>3, SameFolds DEF Predicted
  <2>8. CASE UNCHANGED oof /\ (\/ \A i \in Scored : FoldOf(grouping, i) # fold
                               \/ \A i \in Scored : FoldOf(grouping, i) = fold)
    <3>1. grouping = "author" /\ (\A i \in Scored : FoldOf(grouping, i) = fold) => OneFold
      BY DEF OneFold
    <3>2. OneFold \/ \A i \in Scored : Passed("author", FoldOf("author", i))' =>
                       \E p \in oof' : p.grouping = "author" /\ p.record = i
      BY <2>2, <2>8, <3>1 DEF Predicted, Groupings
    <3>3. \A p \in oof' : p.grouping \in Groupings /\ p.record \in Scored /\ Passed(p.grouping, FoldOf(p.grouping, p.record))'
      BY <2>2, <2>8 DEF Predicted
    <3>4. QED
      BY <1>0, <2>1, <2>2, <2>8, <3>2, <3>3, SameFolds DEF Predicted
  <2>9. QED
    BY <1>7, <2>7, <2>8, FoldStep DEF new
<1>8. CASE HoldOutSources \/ FinalFit \/ Emit
  <2>1. \A grouping \in Groupings, k \in Folds : Passed(grouping, k)' <=> Passed(grouping, k)
    BY <1>8 DEF HoldOutSources, FinalFit, Emit, Passed, Groupings, Late, Staged
  <2>2. QED
    BY <1>1, <1>8, <2>1 DEF HoldOutSources, FinalFit, Emit, replayed
<1>9. CASE WriteWeights \/ WriteTokens
  <2>1. \A grouping \in Groupings, k \in Folds : Passed(grouping, k)' <=> Passed(grouping, k)
    BY <1>9 DEF WriteWeights, WriteTokens, Passed, Groupings, Late
  <2>2. QED
    BY <1>1, <1>9, <2>1 DEF WriteWeights, WriteTokens, results, replayed
<1>10. CASE Rerun
  <2>1. oof' = {} /\ Scored' \subseteq Ids
    BY <1>10 DEF Rerun, Cleared, Nothing, Scored
  <2>2. \A k \in Folds : ~Passed("author", k)'
    BY <1>10 DEF Rerun, Passed, Late
  <2>3. QED
    BY <1>2, <2>1, <2>2
<1>11. CASE UNCHANGED vars
  <2>1. \A grouping \in Groupings, k \in Folds : Passed(grouping, k)' <=> Passed(grouping, k)
    BY <1>11 DEF vars, Passed
  <2>2. QED
    BY <1>1, <1>11, <2>1 DEF vars, results, replayed
<1>12. QED
  BY <1>4, <1>5, <1>6, <1>7, <1>8, <1>9, <1>10, <1>11 DEF Next

\* What the thresholds and the predictions are made of stays as it is.
LEMMA SameMaterial ==
  ASSUME UNCHANGED <<corpus, mode, evidence, decided, oof, shipped>>
  PROVE  OutOfFoldCuts' = OutOfFoldCuts /\ Predictions' = Predictions
BY DEF OutOfFoldCuts, Predictions, Slop, Scored, TokenExamples, Predict, Unjudged

LEMMA KeptHolds == TypeOK /\ Staged /\ Kept /\ [Next]_vars => Kept'
<1> SUFFICES ASSUME TypeOK, Staged, Kept, [Next]_vars PROVE Kept'
  OBVIOUS
<1> USE DEF Kept, Late
<1>1. CASE Load
  BY <1>1 DEF Load
<1>2. ASSUME NEW i \in Left, Replay(i) PROVE Kept'
  BY <1>2 DEF Replay
<1>3. CASE Replayed
  BY <1>3 DEF Replayed, results, Groupings
<1>4. ASSUME NEW grouping \in Groupings, CrossValidate(grouping) PROVE Kept'
  BY <1>4 DEF CrossValidate, AfterFolds, Groupings
<1>5. CASE HoldOutSources
  BY <1>5 DEF HoldOutSources
<1>6. CASE FinalFit
  <2>1. OutOfFoldCuts' = OutOfFoldCuts
    BY <1>6, SameMaterial DEF FinalFit, constants, replayed
  <2>2. QED
    BY <1>6, <2>1 DEF FinalFit, Staged
<1>7. CASE Emit
  <2>1. OutOfFoldCuts' = OutOfFoldCuts /\ Predictions' = Predictions
    BY <1>7, SameMaterial DEF Emit, constants, replayed
  <2>2. QED
    BY <1>7, <2>1 DEF Emit
<1>8. CASE WriteWeights \/ WriteTokens
  <2>1. OutOfFoldCuts' = OutOfFoldCuts /\ Predictions' = Predictions
    BY <1>8, SameMaterial DEF WriteWeights, WriteTokens, constants, results, replayed
  <2>2. QED
    BY <1>8, <2>1 DEF WriteWeights, WriteTokens, results
<1>9. CASE Rerun
  BY <1>9 DEF Rerun, Cleared
<1>10. CASE UNCHANGED vars
  <2>1. OutOfFoldCuts' = OutOfFoldCuts /\ Predictions' = Predictions
    BY <1>10, SameMaterial DEF vars, constants, results, replayed
  <2>2. QED
    BY <1>10, <2>1 DEF vars, results
<1>11. QED
  BY <1>1, <1>2, <1>3, <1>4, <1>5, <1>6, <1>7, <1>8, <1>9, <1>10 DEF Next

\* The inductive invariant of the folds: what is behind has been predicted
\* once, and the cuts and the benchmark's lines are made of that.
THEOREM FoldsCorrect == Spec => []FoldsInv
<1>1. TypeOK /\ FoldsInv /\ [Next]_vars => FoldsInv'
  BY StagedHolds, PredictedHolds, KeptHolds DEF FoldsInv
<1>2. QED
  BY <1>1, FoldsAtFirst, TypeCorrect, PTL DEF Spec

\* The benchmark gets one prediction for each record that was loaded, for any
\* corpus and hash that do not put everybody in one fold.
THEOREM BenchmarkIsComplete == Spec => []OnePredictionEach
<1>1. TypeOK /\ FoldsInv => OnePredictionEach
  <2> SUFFICES ASSUME TypeOK, FoldsInv, emitted # {}, ~OneFold
               PROVE  /\ {p.record : p \in emitted} = loaded
                      /\ \A p, q \in emitted : p.record = q.record => p = q
    BY DEF OnePredictionEach
  <2> DEFINE told == {Unjudged(i) : i \in decided}
             said == IF mode = "score-only"
                     THEN {Predict("none", shipped.weights, e) : e \in TokenExamples(Scored, shipped.tokens)}
                     ELSE {p \in oof : p.grouping = "author"}
  <2>1. emitted = said \cup told /\ loaded = Scored \cup decided /\ Scored \cap decided = {} /\ pc \in Late
    BY DEF FoldsInv, Kept, Staged, Predictions, Late
  <2>2. {p.record : p \in told} = decided /\ \A p, q \in told : p.record = q.record => p = q
    <3>1. \A i : Unjudged(i).record = i
      BY DEF Unjudged
    <3>2. \A q \in told : q.record \in decided /\ q = Unjudged(q.record)
      BY <3>1
    <3>3. \A i \in decided : Unjudged(i) \in told /\ Unjudged(i).record = i
      BY <3>1
    <3> HIDE DEF told
    <3>4. QED
      BY <3>2, <3>3
  <2>3. {p.record : p \in said} = Scored /\ \A p, q \in said : p.record = q.record => p = q
    <3>1. CASE mode = "score-only"
      <4> DEFINE ex(i) == [record |-> i, tokens |-> shipped.tokens]
      <4>1. said = {Predict("none", shipped.weights, ex(i)) : i \in Scored}
        BY <3>1 DEF TokenExamples
      <4>2. \A i \in Scored : Predict("none", shipped.weights, ex(i)).record = i
        BY DEF Predict
      <4> HIDE DEF said, ex
      <4>3. QED
        BY <4>1, <4>2
    <3>2. CASE mode # "score-only"
      <4>1. \A i \in Scored : Passed("author", FoldOf("author", i))
        BY <2>1, <3>2 DEF Passed, Late
      <4>2. \A i \in Scored : \E p \in oof : p.grouping = "author" /\ p.record = i
        BY <4>1 DEF FoldsInv, Predicted
      <4>3. said = {p \in oof : p.grouping = "author"}
        BY <3>2
      <4>4. /\ \A p \in oof : p.record \in Scored
            /\ \A p, q \in oof : p.grouping = q.grouping /\ p.record = q.record => p = q
        BY DEF FoldsInv, Predicted
      <4> HIDE DEF said
      <4>5. QED
        BY <4>2, <4>3, <4>4
    <3>3. QED
      BY <3>1, <3>2
  <2> HIDE DEF told, said
  <2>4. \A p \in said, q \in told : p.record # q.record
    <3>1. \A p \in said : p.record \in Scored
      BY <2>3
    <3>2. \A q \in told : q.record \in decided
      BY <2>2
    <3>3. QED
      BY <2>1, <3>1, <3>2
  <2>5. QED
    BY <2>1, <2>2, <2>3, <2>4
<1>2. QED
  BY <1>1, TypeCorrect, FoldsCorrect, PTL

-----------------------------------------------------------------------------
(* The replay *)

Replaying ==
  /\ \A i \in Scored \cup decided, j \in Left : ~Before(j, i) /\ i # j
  /\ \A i \in Scored : evidence[i].seen \subseteq Scored
  /\ ReplaySeesThePast

\* The earlier pull request j of its author is in the dossier of the record k.
Returns(j, k) ==
  /\ Dated(j) /\ corpus[j].created < corpus[k].created /\ AuthorOf(j) = AuthorOf(k)
  /\ [repo |-> RepoOf(j), created |-> corpus[j].created] \in corpus[k].history

LEMMA BeforeOrders ==
  ASSUME TypeOK, NEW i \in Ids, NEW j \in Ids, i # j
  PROVE  /\ Before(i, j) <=> ~Before(j, i)
         /\ Before(i, j) => ~(corpus[j].created < corpus[i].created)
BY RecordTypes DEF Before

LEMMA SeenByJudged == \A i : Judge(i).seen = Store(i) /\ Judge(i).stranger = Stranger(i)
BY DEF Judge

LEMMA ReplayStep ==
  ASSUME TypeOK, Staged, Replaying, NEW i \in Left, Replay(i)
  PROVE  Replaying'
<1>0. UNCHANGED corpus /\ UNCHANGED loaded /\ i \in Ids /\ loaded \subseteq Ids /\ i \notin Scored \cup decided
  BY ScoredAreRecords DEF Replay, constants, Left
<1>1. \A j \in Left \ {i} : Before(i, j) /\ ~Before(j, i)
  BY <1>0, BeforeOrders DEF Replay, Left
<1>2. (Scored \cup decided)' = Scored \cup decided \cup {i} /\ Left' = Left \ {i}
  BY <1>0 DEF Replay, Scored, Left
<1>3. \A k \in (Scored \cup decided)', j \in Left' : ~Before(j, k)' /\ k # j
  BY <1>0, <1>1, <1>2 DEF Replaying, Before, Left
<1>4. CASE corpus[i].decided = "scored"
  <2>1. /\ Scored' = Scored \cup {i} /\ evidence'[i] = Judge(i)
        /\ \A j \in Scored : evidence'[j] = evidence[j]
    BY <1>0, <1>4 DEF Replay, Scored
  <2>2. \A j \in Scored : ~(corpus[i].created < corpus[j].created) /\ j \in Ids
    BY <1>0, ScoredAreRecords, BeforeOrders DEF Replaying, Before
  <2>3. \A j \in Scored' : evidence'[j].seen \subseteq Scored
    BY <2>1, SeenByJudged DEF Store, Replaying
  <2>4. ASSUME NEW k \in Scored'
        PROVE  /\ \A j \in Scored' : RepoOf(j) = RepoOf(k) =>
                    /\ corpus[j].created < corpus[k].created => j \in evidence'[k].seen
                    /\ corpus[j].created > corpus[k].created => j \notin evidence'[k].seen
               /\ \A j \in evidence'[k].seen :
                    /\ RepoOf(j) = RepoOf(k)
                    /\ Returns(j, k) => ~evidence'[k].stranger
    <3>1. CASE k = i
      <4>1. evidence'[k].seen = Store(i) /\ evidence'[k].stranger = Stranger(i)
        BY <2>1, <3>1, SeenByJudged
      <4>2. \A j \in Scored : corpus[j].created \in Nat /\ corpus[i].created \in Nat
        BY <1>0, <2>2, RecordTypes
      <4>3. \A j \in Scored' : RepoOf(j) = RepoOf(i) =>
              /\ corpus[j].created < corpus[i].created => j \in Store(i)
              /\ corpus[j].created > corpus[i].created => j \notin Store(i)
        <5>1. corpus[i].created \in Nat
          BY <1>0, RecordTypes
        <5>2. QED
          BY <2>1, <2>2, <4>2, <5>1 DEF Store
      <4>4. \A j \in Store(i) : RepoOf(j) = RepoOf(i)
        BY DEF Store
      <4>5. ASSUME NEW j \in Store(i), Returns(j, i)
            PROVE  ~Stranger(i)
        <5>1. j \in Ids /\ corpus[j].created \in Nat /\ corpus[i].created \in Nat
          BY <1>0, <2>2, RecordTypes DEF Store
        <5>2. Dated(i) /\ corpus[j].created > 0 /\ corpus[j].created < corpus[i].created
          BY <4>5, <5>1 DEF Dated, Returns
        <5>3. [repo |-> RepoOf(i), created |-> corpus[j].created] \in corpus[i].history
          BY <4>4, <4>5 DEF Returns
        <5>4. QED
          BY <5>2, <5>3 DEF Stranger
      <4>6. QED
        BY <3>1, <4>1, <4>3, <4>4, <4>5
    <3>2. CASE k # i
      <4>1. k \in Scored /\ evidence'[k] = evidence[k]
        BY <2>1, <3>2
      <4>2. i \notin evidence'[k].seen /\ ~(corpus[i].created < corpus[k].created)
        BY <1>0, <2>2, <4>1 DEF Replaying
      <4>3. /\ \A j \in Scored : RepoOf(j) = RepoOf(k) =>
                 /\ corpus[j].created < corpus[k].created => j \in evidence[k].seen
                 /\ corpus[j].created > corpus[k].created => j \notin evidence[k].seen
            /\ \A j \in evidence[k].seen :
                 /\ RepoOf(j) = RepoOf(k)
                 /\ Returns(j, k) => ~evidence[k].stranger
        <5>1. ReplaySeesThePast
          BY DEF Replaying
        <5>2. QED
          BY <4>1, <5>1 DEF ReplaySeesThePast, Returns
      <4>4. RepoOf(i) = RepoOf(k) =>
              /\ corpus[i].created < corpus[k].created => i \in evidence[k].seen
              /\ corpus[i].created > corpus[k].created => i \notin evidence[k].seen
        BY <4>1, <4>2
      <4>5. \A j \in Scored' : j \in Scored \/ j = i
        BY <2>1
      <4>6. evidence'[k] = evidence[k]
        BY <4>1
      <4>7. \A j \in Scored' : RepoOf(j) = RepoOf(k) =>
              /\ corpus[j].created < corpus[k].created => j \in evidence[k].seen
              /\ corpus[j].created > corpus[k].created => j \notin evidence[k].seen
        BY <4>3, <4>4, <4>5
      <4>8. QED
        BY <4>3, <4>6, <4>7
    <3>3. QED
      BY <3>1, <3>2
  <2>5. ReplaySeesThePast'
    BY <1>0, <2>4 DEF ReplaySeesThePast, Returns, RepoOf, AuthorOf, Dated
  <2>6. QED
    BY <1>3, <2>1, <2>3, <2>5 DEF Replaying
<1>5. CASE corpus[i].decided # "scored"
  <2>1. UNCHANGED evidence /\ Scored' = Scored
    BY <1>5 DEF Replay, Scored
  <2>2. ReplaySeesThePast'
    BY <1>0, <2>1 DEF Replaying, ReplaySeesThePast, RepoOf, AuthorOf, Dated
  <2>3. QED
    BY <1>3, <2>1, <2>2 DEF Replaying
<1>6. QED
  BY <1>4, <1>5

LEMMA ReplayingHolds == TypeOK /\ Staged /\ Replaying /\ [Next]_vars => Replaying'
<1> SUFFICES ASSUME TypeOK, Staged, Replaying, [Next]_vars PROVE Replaying'
  OBVIOUS
<1>0. UNCHANGED corpus
  BY DEF Next, vars, constants, Load, Replay, Replayed, CrossValidate, HoldOutSources, FinalFit, Emit,
         WriteWeights, WriteTokens, Rerun
<1>1. ASSUME UNCHANGED <<loaded, evidence, decided>> PROVE Replaying'
  BY <1>0, <1>1 DEF Replaying, ReplaySeesThePast, Scored, Left, Before, RepoOf, AuthorOf, Dated
<1>2. CASE Load
  <2>1. Scored' = {} /\ decided' = {}
    BY <1>2 DEF Load, replayed, Staged, Scored
  <2>2. QED
    BY <2>1 DEF Replaying, ReplaySeesThePast
<1>3. CASE Rerun
  <2>1. Scored' = {} /\ decided' = {}
    BY <1>3 DEF Rerun, Cleared, Nothing, Scored
  <2>2. QED
    BY <2>1 DEF Replaying, ReplaySeesThePast
<1>4. CASE \E i \in Left : Replay(i)
  BY <1>4, ReplayStep
<1>5. CASE \E grouping \in Groupings : CrossValidate(grouping)
  BY <1>1, <1>5 DEF CrossValidate, replayed
<1>6. CASE HoldOutSources \/ FinalFit \/ Emit
  BY <1>1, <1>6 DEF HoldOutSources, FinalFit, Emit, replayed
<1>7. CASE Replayed \/ WriteWeights \/ WriteTokens \/ UNCHANGED vars
  BY <1>1, <1>7 DEF Replayed, WriteWeights, WriteTokens, vars, results, replayed
<1>8. QED
  BY <1>2, <1>3, <1>4, <1>5, <1>6, <1>7 DEF Next

\* The inductive invariant of the replay: whoever is left comes after all that
\* have been replayed, so no later arrival was missed.
THEOREM ReplayCorrect == Spec => []Replaying
<1>1. Init => Replaying
  BY DEF Init, Replaying, ReplaySeesThePast, Scored, Nothing
<1>2. FoldsInv => Staged
  BY DEF FoldsInv
<1>3. QED
  BY <1>1, <1>2, ReplayingHolds, TypeCorrect, FoldsCorrect, PTL DEF Spec

\* Every record is replayed against the scored history of its repository and
\* against no future, for any corpus and any dossiers; where its dossier has the
\* earlier pull request that the store has, it is not a stranger's.
THEOREM ReplayIsInOrder == Spec => []ReplaySeesThePast
<1>1. Replaying => ReplaySeesThePast
  BY DEF Replaying
<1>2. QED
  BY <1>1, ReplayCorrect, PTL

-----------------------------------------------------------------------------
(* What the thresholds are set on *)

\* The stores that a prediction hangs on are those of records it was trained
\* on, and what is embedded knows nothing before the first run has written.
Traced ==
  /\ runs = 0 => shipped.weights = Untrained.weights
  /\ \A p \in oof :
       /\ \A i \in p.seen : \E j \in p.trained : RepoOf(j) = RepoOf(i) /\ corpus[i].created <= corpus[j].created
       /\ p.prior # {} => runs > 0

LEMMA FoldTraced ==
  ASSUME TypeOK, Replaying, Traced, NEW grouping \in Groupings, NEW p \in FoldPredictions(grouping)
  PROVE  /\ \A i \in p.seen : \E j \in p.trained : RepoOf(j) = RepoOf(i) /\ corpus[i].created <= corpus[j].created
         /\ p.prior # {} => runs > 0
<1> DEFINE eval  == {i \in Scored : FoldOf(grouping, i) = fold}
           train == {i \in Scored : FoldOf(grouping, i) # fold}
           trainers == CrossfitExamples(train)
           model == Fit(trainers, shipped.weights)
<1>1. PICK e \in TokenExamples(eval, TrainTable(train)) : p = Predict(grouping, model, e)
  BY DEF FoldPredictions
<1>2. p.seen = model.seen /\ p.prior = model.prior /\ model.trained \subseteq p.trained
  BY <1>1 DEF Predict
<1>3. \A x \in trainers : x.record \in train
  BY ScoredAreRecords, CrossfitApart
<1>4. ASSUME NEW i \in p.seen
      PROVE  \E j \in p.trained : RepoOf(j) = RepoOf(i) /\ corpus[i].created <= corpus[j].created
  <2>1. i \in UNION {evidence[x.record].seen : x \in trainers}
    BY <1>2 DEF Fit
  <2>2. PICK x \in trainers : i \in evidence[x.record].seen
    BY <2>1
  <2>3. x.record \in Scored /\ i \in Scored
    BY <1>3, <2>2 DEF Replaying
  <2>4. x.record \in p.trained
    <3>1. x.record \in model.trained
      BY DEF Fit
    <3>2. QED
      BY <1>2, <3>1
  <2>5. RepoOf(i) = RepoOf(x.record) /\ ~(corpus[i].created > corpus[x.record].created)
    BY <2>2, <2>3 DEF Replaying, ReplaySeesThePast
  <2>6. corpus[i].created \in Nat /\ corpus[x.record].created \in Nat
    BY <2>3, ScoredAreRecords, RecordTypes
  <2>7. QED
    BY <2>4, <2>5, <2>6
<1>5. ASSUME runs = 0 PROVE p.prior = {}
  BY <1>2, <1>5 DEF Traced, Fit, Untrained
<1>6. runs \in Nat
  BY DEF TypeOK, StageOK
<1>7. QED
  BY <1>4, <1>5, <1>6

LEMMA TracedHolds == TypeOK /\ Replaying /\ Traced /\ [Next]_vars => Traced'
<1> SUFFICES ASSUME TypeOK, Replaying, Traced, [Next]_vars PROVE Traced'
  OBVIOUS
<1>0. UNCHANGED corpus
  BY DEF Next, vars, constants, Load, Replay, Replayed, CrossValidate, HoldOutSources, FinalFit, Emit,
         WriteWeights, WriteTokens, Rerun
<1>1. ASSUME UNCHANGED <<runs, shipped, oof>> PROVE Traced'
  BY <1>0, <1>1 DEF Traced, RepoOf, Untrained
<1>2. ASSUME NEW grouping \in Groupings, CrossValidate(grouping) PROVE Traced'
  <2>1. UNCHANGED <<runs, shipped>> /\ (oof' = oof \/ oof' = oof \cup FoldPredictions(grouping))
    BY <1>2, FoldStep DEF CrossValidate
  <2>2. \A p \in oof' :
          /\ \A i \in p.seen : \E j \in p.trained : RepoOf(j) = RepoOf(i) /\ corpus[i].created <= corpus[j].created
          /\ p.prior # {} => runs > 0
    BY <2>1, FoldTraced DEF Traced
  <2>3. QED
    BY <1>0, <2>1, <2>2 DEF Traced, RepoOf, Untrained
<1>3. CASE Rerun
  <2>1. runs' > 0 /\ oof' = {}
    BY <1>3 DEF Rerun, Cleared, TypeOK, StageOK
  <2>2. QED
    BY <2>1 DEF Traced
<1>4. CASE Load \/ (\E i \in Left : Replay(i)) \/ HoldOutSources \/ FinalFit \/ Emit
  BY <1>1, <1>4 DEF Load, Replay, HoldOutSources, FinalFit, Emit
<1>5. CASE Replayed \/ WriteWeights \/ WriteTokens \/ UNCHANGED vars
  BY <1>1, <1>5 DEF Replayed, WriteWeights, WriteTokens, vars, results
<1>6. QED
  BY <1>2, <1>3, <1>4, <1>5 DEF Next

\* The thresholds that are written were set on every negative that is scored,
\* each predicted by a fold that trained on no record of its account, for any
\* corpus and hash that do not put everybody in one fold; and the account had a
\* say only by the store of a repository the fold trained on, or by the weights
\* that an earlier run had written.
THEOREM CutsAreHeldOut == Spec => []CutsHeldOut
<1>1. Init => Traced
  BY DEF Init, Traced
<1>2. Spec => []Traced
  BY <1>1, TracedHolds, TypeCorrect, ReplayCorrect, PTL DEF Spec
<1>3. TypeOK /\ FoldsInv /\ HeldOutIsUnseen /\ Traced => CutsHeldOut
  <2> SUFFICES ASSUME TypeOK, FoldsInv, HeldOutIsUnseen, Traced PROVE CutsHeldOut
    OBVIOUS
  <2>1. \A p \in cuts : p \in oof /\ p.grouping = "author" /\ ~Slop(p.record)
    BY DEF FoldsInv, Kept, OutOfFoldCuts
  <2>2. \A p \in cuts :
          /\ \A i \in p.trained : AuthorOf(i) # AuthorOf(p.record)
          /\ \A i \in p.seen : \E j \in p.trained : RepoOf(j) = RepoOf(i) /\ corpus[i].created <= corpus[j].created
          /\ p.prior # {} => runs > 0
    BY <2>1 DEF HeldOutIsUnseen, Together, Traced
  <2>3. ASSUME pc = "write", ~OneFold PROVE {p.record : p \in cuts} = {i \in Scored : ~Slop(i)}
    <3>1. mode # "score-only"
      BY <2>3 DEF FoldsInv, Staged
    <3>2. \A i \in Scored : Passed("author", FoldOf("author", i))
      BY <2>3, <3>1 DEF Passed, Late
    <3>3. \A i \in Scored : \E p \in oof : p.grouping = "author" /\ p.record = i
      BY <2>3, <3>2 DEF FoldsInv, Predicted
    <3>4. cuts = {p \in oof : p.grouping = "author" /\ ~Slop(p.record)} /\ \A p \in oof : p.record \in Scored
      BY <2>3, <3>1 DEF FoldsInv, Kept, Predicted, OutOfFoldCuts, Late
    <3>5. QED
      BY <3>3, <3>4
  <2>4. QED
    BY <2>1, <2>2, <2>3 DEF CutsHeldOut
<1>4. QED
  BY <1>2, <1>3, TypeCorrect, FoldsCorrect, JudgedUnseen, PTL
=============================================================================
