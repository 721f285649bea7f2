----------------------------- MODULE MCScoring -----------------------------
\* Instances of Scoring.  One logit is eight units, a value has two steps; the
\* released table is weights/default.json, rounded.
EXTENDS Scoring

MCRules == {"CLUSTER_BURST", "CLUSTER_SIZE_LOG", "AGENT_EMAIL", "DETECTOR_SCORE", "TRUST_REPO_HISTORY",
            "UNDISCLOSED_AI", "AI_FORBIDDEN"}

MCFamily == [r \in MCRules |->
  CASE r \in {"CLUSTER_BURST", "CLUSTER_SIZE_LOG"} -> "cluster"
    [] r = "AGENT_EMAIL" -> "dossier"
    [] r = "DETECTOR_SCORE" -> "prose"
    [] r = "TRUST_REPO_HISTORY" -> "trust"
    [] OTHER -> "policy"]

\* A function of the rules, in the order of MCRules.
Row(burst, size, email, detector, history, undisclosed, forbidden) ==
  [CLUSTER_BURST |-> burst, CLUSTER_SIZE_LOG |-> size, AGENT_EMAIL |-> email, DETECTOR_SCORE |-> detector,
   TRUST_REPO_HISTORY |-> history, UNDISCLOSED_AI |-> undisclosed, AI_FORBIDDEN |-> forbidden]

MCReleased ==
  {[bias |-> -7, rules |-> Row(14, 8, 3, 0, -8, 8, 16), family_cap |-> 32,
    thresholds |-> [label |-> 3, hold |-> 11, close |-> 37]]}

\* The last one has a wrong sign: the fit's constraint excludes it.
MCFitTables ==
  {[bias |-> -8, rules |-> Row(16, 10, 0, 6, -20, 8, 0)],
   [bias |-> -4, rules |-> Row(10, 12, 7, 0, -8, 8, 16)],
   [bias |-> -4, rules |-> Row(-6, 12, 7, 5, -8, 8, 16)]}

MCPullRequests ==
  {Row(burst, 1, email, detector, history, 0, 0) :
     burst \in {0, 2}, email \in {0, 2}, detector \in {0, 2}, history \in {0, 2}}

MCFeedback == {Row(0, 0, 0, 2, 0, 0, 0), Row(2, 1, 0, 0, 2, 0, 0), Row(0, 1, 2, 0, 0, 0, 2)}

Fitted == [label |-> None, hold |-> None, close |-> None]

Config(ai_policy, overrides) ==
  [exempt |-> FALSE, mirror |-> FALSE, ai_policy |-> ai_policy, overrides |-> overrides]

MCConfigs ==
  {Config(ai_policy, Fitted) : ai_policy \in Policies}
    \cup {Config("neutral", [Fitted EXCEPT !.hold = 30, !.close = 12]),
          [Config("neutral", Fitted) EXCEPT !.mirror = TRUE],
          [Config("neutral", Fitted) EXCEPT !.exempt = TRUE]}

PlainConfigs == {Config("neutral", Fitted)}

\* Rates large enough that two and three negatives certify the lower tiers.
MCTargets == [label |-> <<1, 2>>, hold |-> <<1, 3>>, close |-> <<1, 100>>]
=============================================================================
