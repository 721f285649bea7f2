------------------------------- MODULE Engine -------------------------------
(***************************************************************************)
(* engine.rs: from the rules that fired to a score and a tier, and         *)
(* config.rs where a repository's settings change the table first.         *)
(*                                                                         *)
(* Probabilities are represented by their logits: sigmoid is strictly      *)
(* increasing, and only comparisons of probabilities are ever made.  A     *)
(* logit is a number of units, a value in [0, 1] a number of steps of      *)
(* 0 .. Full, a weight the units that one step contributes.                *)
(***************************************************************************)
EXTENDS Integers, FiniteSets, Functions

CONSTANTS
  Rules,     \* the rules, the table's unpriced ones included
  Family,    \* Family::of: the family each belongs to
  AiStyle,   \* RepoConfig::AI_STYLE_RULES
  Full,      \* the steps of a value of 1.0
  None       \* Option::None: no override, no cap

Families == {"cluster", "code", "prose", "shape", "dossier", "trust", "policy"}

ASSUME EngineAssumption ==
  /\ IsFiniteSet(Rules) /\ Family \in [Rules -> Families]
  /\ AiStyle \subseteq Rules /\ Full \in Nat \ {0}

\* The rules that fired, with their values; 0 is a rule that did not fire.
Fires == [Rules -> 0 .. Full]

Thresholds == [label : Int, hold : Int, close : Int]

Weights == [bias : Int, rules : [Rules -> Int], thresholds : Thresholds, family_cap : Nat \cup {None}]

Exonerating(family) == family = "trust"
Capped(family) == family # "policy"

Members(family) == {r \in Rules : Family[r] = family}
Abs(n) == IF n < 0 THEN -n ELSE n

-----------------------------------------------------------------------------
(* Thresholds *)

Validates(thresholds) == thresholds.label < thresholds.hold /\ thresholds.hold < thresholds.close

\* Thresholds::tier: the strictest threshold that the score reaches.
TierOf(thresholds, score) ==
  IF score >= thresholds.close THEN "close"
  ELSE IF score >= thresholds.hold THEN "hold"
  ELSE IF score >= thresholds.label THEN "label"
  ELSE "pass"

Severity(tier) == CASE tier = "pass" -> 0 [] tier = "label" -> 1 [] tier = "hold" -> 2 [] tier = "close" -> 3

\* RepoConfig::thresholds: each override on its own, and nothing validated.
Overridden(overrides, fitted) ==
  [t \in DOMAIN fitted |-> IF overrides[t] = None THEN fitted[t] ELSE overrides[t]]

-----------------------------------------------------------------------------
(* The score *)

\* The contributions before the cap.
Priced(weights, fires) == [r \in Rules |-> weights.rules[r] * fires[r]]

FamilySum(priced, family) == SumFunctionOnSet(priced, Members(family))

\* A mutant: the cap looks at one rule at a time.
ScaleOfEachRule(weights, priced, rule) ==
  LET cap == weights.family_cap
      sum == priced[rule]
  IN  IF cap # None /\ Capped(Family[rule]) /\ Abs(sum) > cap
      THEN [num |-> cap, den |-> Abs(sum)] ELSE [num |-> 1, den |-> 1]

\* A mutant: exonerating sums are never above the cap.
ScaleOfPositive(weights, priced, rule) ==
  LET cap == weights.family_cap
      sum == FamilySum(priced, Family[rule])
  IN  IF cap # None /\ Capped(Family[rule]) /\ sum > cap
      THEN [num |-> cap, den |-> Abs(sum)] ELSE [num |-> 1, den |-> 1]

\* The quotient by which a rule's contribution is scaled down, the same for
\* every rule of a family whose sum exceeds the cap.
Scale(weights, priced, rule) ==
  LET cap == weights.family_cap
      sum == FamilySum(priced, Family[rule])
  IN  IF cap # None /\ Capped(Family[rule]) /\ Abs(sum) > cap
      THEN [num |-> cap, den |-> Abs(sum)] ELSE [num |-> 1, den |-> 1]

\* What the evidence table shows for a rule: an exact fraction.
Evidence(weights, fires) ==
  LET priced == Priced(weights, fires)
  IN  [r \in Rules |-> LET scale == Scale(weights, priced, r)
                       IN  [num |-> priced[r] * scale.num, den |-> scale.den]]

\* The sum of a family's evidence.  Its fractions have one denominator.
Shown(evidence, family) ==
  IF Members(family) = {} THEN 0
  ELSE LET nums == [r \in Members(family) |-> evidence[r].num]
           any  == CHOOSE r \in Members(family) : TRUE
       IN  SumFunction(nums) \div evidence[any].den

\* Weights::score
Score(weights, fires) ==
  LET evidence == Evidence(weights, fires)
  IN  weights.bias + SumFunction([f \in Families |-> Shown(evidence, f)])

-----------------------------------------------------------------------------
(* The repository's stance on AI *)

Policies == {"welcome", "neutral", "disclose", "forbid"}

\* A mutant: the style of the prose keeps its weight.
ForgivesMarkersOnly(weights, ai_policy) ==
  [weights EXCEPT !.rules = [r \in Rules |-> IF ai_policy = "welcome" /\ r \in AiStyle /\ Family[r] = "dossier"
                                             THEN 0 ELSE @[r]]]

\* Where AI is welcome, what only says "AI touched this" carries no weight.
Stance(weights, ai_policy) ==
  [weights EXCEPT !.rules = [r \in Rules |-> IF ai_policy = "welcome" /\ r \in AiStyle THEN 0 ELSE @[r]]]
=============================================================================
