------------------------------ MODULE Fitting ------------------------------
(***************************************************************************)
(* fit.rs: the thresholds at fixed false-positive rates and the AUC, over  *)
(* the scores of the examples.  A target rate is a fraction; the smallest  *)
(* step of a threshold (1e-9 in the code) is one unit, and Logit is what   *)
(* one logit is in units.                                                  *)
(***************************************************************************)
EXTENDS Integers, Sequences, FiniteSets

CONSTANTS
  Logit,         \* one logit, in units
  RuleOfThree,   \* negatives times target that certify it: 3
  NoNegatives    \* the threshold where there is no negative: 0.999

ASSUME FittingAssumption == Logit \in Nat \ {0} /\ RuleOfThree \in Nat \ {0} /\ NoNegatives \in Int

Rates == {r \in Nat \X (Nat \ {0}) : r[1] < r[2]}

Descending(neg) == \A i, j \in DOMAIN neg : i < j => neg[i] >= neg[j]

\* certifiable: the rule of three
Certifiable(n, target) == n * target[1] >= RuleOfThree * target[2]

\* How many of n negatives may reach the threshold: the floor of target * n.
Allowed(n, target) == (n * target[1]) \div target[2]

\* A mutant: the threshold sits on the last negative that is allowed.
CutOnAllowed(neg, target) ==
  LET allowed == Allowed(Len(neg), target)
  IN  IF neg = << >> THEN NoNegatives
      ELSE IF Certifiable(Len(neg), target) /\ allowed > 0 THEN neg[allowed]
      ELSE neg[1] + Logit

\* The threshold of one tier: just above the highest negative that may not
\* reach it, or clear of all of them when they are too few to certify.
Cut(neg, target) ==
  LET allowed == Allowed(Len(neg), target)
  IN  IF neg = << >> THEN NoNegatives
      ELSE IF Certifiable(Len(neg), target) /\ allowed > 0 THEN neg[allowed + 1] + 1
      ELSE neg[1] + Logit

Above(threshold, floor) == IF threshold < floor + 1 THEN floor + 1 ELSE threshold

\* thresholds_from_negatives: ordered by raising the upper tiers.
ThresholdsFromNegatives(neg, targets) ==
  LET label == Cut(neg, targets.label)
      hold  == Above(Cut(neg, targets.hold), label)
      close == Above(Cut(neg, targets.close), hold)
  IN  [label |-> label, hold |-> hold, close |-> close]

\* observed_fpr, as the number of negatives that reach a threshold
Reaching(neg, threshold) == {i \in DOMAIN neg : neg[i] >= threshold}

\* Every tier's threshold keeps its target on these negatives, ties included,
\* and a tier that they are too few to certify is reached by none of them.
KeepsTargets(neg, thresholds, targets) ==
  \A tier \in {"label", "hold", "close"} :
    /\ Cardinality(Reaching(neg, thresholds[tier])) * targets[tier][2] <= targets[tier][1] * Len(neg)
    /\ ~Certifiable(Len(neg), targets[tier]) => Reaching(neg, thresholds[tier]) = {}

-----------------------------------------------------------------------------
(* auc_of counts the pairs a table ranks right, ties by half: here twice    *)
(* that count, of 2 * Len(pos) * Len(neg).                                  *)

Wins(pos, neg) ==
  LET pairs == (DOMAIN pos) \X (DOMAIN neg)
  IN  Cardinality({p \in pairs : pos[p[1]] > neg[p[2]]}) + Cardinality({p \in pairs : pos[p[1]] >= neg[p[2]]})
=============================================================================
