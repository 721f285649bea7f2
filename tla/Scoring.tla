------------------------------ MODULE Scoring ------------------------------
(***************************************************************************)
(* One repository's pull requests under the weights in force.  Each event  *)
(* is scored by pipeline::process with the configuration read for it; the  *)
(* learner (learn.rs) replaces the table between events.                   *)
(*                                                                         *)
(* The optimizer is left out: a fit is any table of FitTables that the     *)
(* code's constraints on signs and on anchoring allow.  What the learner   *)
(* does with it, the thresholds and the guardrails, is here.  Scores stay  *)
(* far below those whose sigmoid rounds to 1.0.                            *)
(***************************************************************************)
EXTENDS Engine, Fitting

CONSTANTS
  Markers,       \* the rules of agent_email, agent_trailer, generation_footer
  Detector,      \* DETECTOR_SCORE
  Suspect,       \* the detector's value from which Disclose asks: 0.7
  Undisclosed,   \* UNDISCLOSED_AI
  Forbidden,     \* AI_FORBIDDEN
  Released,      \* the tables the service may start with
  FitTables,     \* what the optimizer may return: [bias, rules]
  DefaultCap,    \* DEFAULT_FAMILY_CAP
  PullRequests,  \* the fires of the lanes, for the pull requests considered
  Configs,       \* the configurations: [mirror, exempt, ai_policy, overrides]
  Feedback,      \* the fires of the verdicts that got feedback
  Targets,       \* the false-positive targets of the tiers: 5, 1 and 0.1 percent
  MaxHam,        \* bound: held-out examples that are not slop
  MaxFits        \* bound: fits by the learner

Tiers == {"label", "hold", "close"}

RepoConfig == [exempt : BOOLEAN, mirror : BOOLEAN, ai_policy : Policies, overrides : [Tiers -> Int \cup {None}]]

\* A rule that exonerates has no positive weight, any other no negative one.
Signed(rules) == \A r \in Rules : IF Exonerating(Family[r]) THEN rules[r] <= 0 ELSE rules[r] >= 0

\* The lanes fire neither of the two rules of the stance.
ASSUME ScoringAssumption ==
  /\ Markers \subseteq Rules /\ \A r \in Markers : Family[r] = "dossier"
  /\ Detector \in Rules /\ Family[Detector] = "prose" /\ Suspect \in Nat
  /\ Undisclosed \in Rules /\ Forbidden \in Rules
  /\ Family[Undisclosed] = "policy" /\ Family[Forbidden] = "policy"
  /\ Released \subseteq Weights /\ Released # {} /\ \A w \in Released : Signed(w.rules)
  /\ DefaultCap \in Nat
  /\ FitTables \subseteq [bias : Int, rules : [Rules -> Int]]
  /\ PullRequests \subseteq Fires /\ Feedback \subseteq Fires
  /\ \A fires \in PullRequests : fires[Undisclosed] = 0 /\ fires[Forbidden] = 0
  /\ Configs \subseteq RepoConfig
  /\ Targets \in [Tiers -> Rates]
  /\ MaxHam \in Nat \ {0} /\ MaxFits \in Nat

VARIABLES
  weights,   \* AppState.weights
  verdict,   \* the outcome of the last event under them, with what it was judged by
  learned,   \* what the learner last said
  negatives, \* the held-out negatives' scores its thresholds were set on
  fits       \* fits so far

vars == <<weights, verdict, learned, negatives, fits>>

Outcomes == {"none", "exempt", "policy-close", "scored"}

NoVerdict == [outcome |-> "none"]

TypeOK ==
  /\ weights \in Weights
  /\ verdict.outcome \in Outcomes
  /\ verdict.outcome = "scored" =>
       /\ verdict.fires \in Fires /\ verdict.config \in Configs /\ verdict.by \in Weights
       /\ verdict.score \in Int
       /\ verdict.tier = TierOf(verdict.by.thresholds, verdict.score)
  /\ learned \in {"nothing", "promoted", "invalid thresholds", "regressed"}
  /\ negatives \in Seq(Int)
  /\ fits \in 0 .. MaxFits

Init ==
  /\ weights \in Released
  /\ verdict = NoVerdict
  /\ learned = "nothing"
  /\ negatives = << >>
  /\ fits = 0

-----------------------------------------------------------------------------
(* An event *)

HasMarker(fires) == \E r \in Markers : fires[r] > 0

Hit(fires, rule) == [fires EXCEPT ![rule] = Full]

\* The rule the repository's stance adds to those of the lanes.
WithStance(fires, ai_policy) ==
  IF ai_policy = "disclose" /\ ~HasMarker(fires) /\ fires[Detector] >= Suspect THEN Hit(fires, Undisclosed)
  ELSE IF ai_policy = "forbid" /\ HasMarker(fires) THEN Hit(fires, Forbidden)
  ELSE fires

\* The table under which this repository's pull requests are scored.
Scoped(config) ==
  [Stance(weights, config.ai_policy) EXCEPT !.thresholds = Overridden(config.overrides, weights.thresholds)]

\* A mutant: the tier is read off before the overrides are applied.
ProcessAsFitted(fires, config) ==
  LET by    == Scoped(config)
      fired == WithStance(fires, config.ai_policy)
      score == Score(by, fired)
  IN  [outcome |-> "scored", config |-> config, fires |-> fired, by |-> by,
       score |-> score, tier |-> TierOf(weights.thresholds, score)]

\* pipeline::process for a pull request of these lanes' fires
Process(fires, config) ==
  LET by    == Scoped(config)
      fired == WithStance(fires, config.ai_policy)
      score == Score(by, fired)
  IN  [outcome |-> "scored", config |-> config, fires |-> fired, by |-> by,
       score |-> score, tier |-> TierOf(by.thresholds, score)]

Event(fires, config) ==
  /\ verdict' = IF config.exempt THEN [outcome |-> "exempt"]
                ELSE IF config.mirror THEN [outcome |-> "policy-close"]
                ELSE Process(fires, config)
  /\ UNCHANGED <<weights, learned, negatives, fits>>

-----------------------------------------------------------------------------
(* The learner *)

\* A mutant: no rule's weight is held to its sign.
IsUnsigned(rules) == rules \in [Rules -> Int]

\* A fit prices a rule with the sign of its family, or leaves it at the
\* incumbent's weight when it fired too rarely.
IsFit(rules) ==
  \A r \in Rules : rules[r] # weights.rules[r] =>
    IF Exonerating(Family[r]) THEN rules[r] <= 0 ELSE rules[r] >= 0

Scores(by, examples) == [i \in DOMAIN examples |-> Score(by, examples[i])]

\* scores.sort_by: in descending order.
Sorted(scores) ==
  LET ordered(p) == Descending([i \in DOMAIN scores |-> scores[p[i]]])
      order      == CHOOSE p \in Bijection(DOMAIN scores, DOMAIN scores) : ordered(p)
  IN  [i \in DOMAIN scores |-> scores[order[i]]]

\* The candidate: thresholds from the held-out negatives, no provenance.
Candidate(fit, ham) ==
  LET table == [bias |-> fit.bias, rules |-> fit.rules, family_cap |-> DefaultCap,
                thresholds |-> weights.thresholds]
  IN  [table EXCEPT !.thresholds = ThresholdsFromNegatives(Sorted(Scores(table, ham)), Targets)]

\* AUC_SLACK, 0.005 of all pairs
Regresses(candidate, spam, ham) ==
  LET wins(by) == Wins(Scores(by, spam), Scores(by, ham))
  IN  1000 * wins(candidate) < 1000 * wins(weights) - 5 * 2 * Len(spam) * Len(ham)

Learn(fit, spam, ham) ==
  LET candidate == Candidate(fit, ham)
  IN  /\ fits < MaxFits
      /\ IsFit(fit.rules)
      /\ learned' = IF ~Validates(candidate.thresholds) THEN "invalid thresholds"
                    ELSE IF Regresses(candidate, spam, ham) THEN "regressed"
                    ELSE "promoted"
      /\ IF learned' = "promoted"
         THEN weights' = candidate /\ negatives' = Sorted(Scores(candidate, ham)) /\ verdict' = NoVerdict
         ELSE UNCHANGED <<weights, negatives, verdict>>
      /\ fits' = fits + 1

Learner == \E fit \in FitTables, spam \in Feedback, n \in 1 .. MaxHam :
             \E ham \in [1 .. n -> Feedback] : Learn(fit, <<spam>>, ham)

Next ==
  \/ \E fires \in PullRequests, config \in Configs : Event(fires, config)
  \/ Learner

Spec == Init /\ [][Next]_vars

-----------------------------------------------------------------------------
(* Properties *)

Scored == verdict.outcome = "scored"

Without(fires, rules) == [r \in Rules |-> IF r \in rules THEN 0 ELSE fires[r]]

\* fit.rs, fit_once: what a family adds to the score of the model that is
\* fitted, its sum clamped to the cap.
ClampedSum(by, fires, family) ==
  LET sum == FamilySum(Priced(by, fires), family)
      cap == by.family_cap
  IN  IF cap = None \/ ~Capped(family) THEN sum
      ELSE IF sum > cap THEN cap ELSE IF sum < -cap THEN -cap ELSE sum

\* "Family contributions are capped during fitting exactly as the engine caps
\* them at scoring time": the evidence the engine scales down adds up to the
\* score of the model that fit_once fits, which clamps each family's sum.
ScoredAsFitted ==
  Scored => verdict.score = verdict.by.bias
                              + SumFunction([f \in Families |-> ClampedSum(verdict.by, verdict.fires, f)])

\* No capped family moves a score by more than the cap: neither can one lane
\* convict further, nor can trust launder more than that of a campaign.
FamilyMovesAtMostTheCap ==
  Scored /\ verdict.by.family_cap # None =>
    \A f \in {f \in Families : Capped(f)} :
      Abs(verdict.score - Score(verdict.by, Without(verdict.fires, Members(f)))) <= verdict.by.family_cap

\* Where AI is welcome, a verdict is what it would be if no rule about AI had
\* fired, whatever else the family of such a rule holds.
WelcomeIgnoresAi ==
  Scored /\ verdict.config.ai_policy = "welcome" =>
    verdict.score = Score(verdict.by, Without(verdict.fires, AiStyle))

\* fires holds against the author all that old does, and no more in favour.
AtLeastAsBad(fires, old) ==
  \A r \in Rules \ {Undisclosed, Forbidden} :
    IF Exonerating(Family[r]) THEN fires[r] <= old[r] ELSE fires[r] >= old[r]

\* A rescore that finds more against the author, or less in favour, does not
\* end in a milder tier, under whatever table was learned and whichever
\* overrides are set.  The one exception is meant: a marker discloses.
MoreEvidenceNeverHelps ==
  [][(/\ Scored /\ verdict'.outcome = "scored"
      /\ verdict'.config = verdict.config /\ verdict'.by = verdict.by
      /\ AtLeastAsBad(verdict'.fires, verdict.fires)
      /\ verdict.config.ai_policy = "disclose" => HasMarker(verdict'.fires) = HasMarker(verdict.fires))
     => Severity(verdict'.tier) >= Severity(verdict.tier)]_vars

\* The thresholds of a learned table keep each tier's false-positive target on
\* the held-out negatives, ties included, and a tier that these are too few to
\* certify is reached by none of them.
TargetsHold == negatives # << >> => KeepsTargets(negatives, weights.thresholds, Targets)

\* engine.rs: "no single lane can carry a verdict to the close tier alone: a
\* close needs corroboration from at least two families", policy rules apart.
CloseIsCorroborated ==
  Scored /\ verdict.tier = "close" /\ (\A r \in Members("policy") : verdict.fires[r] = 0) =>
    Cardinality({f \in Families : ClampedSum(verdict.by, verdict.fires, f) > 0}) >= 2
=============================================================================
