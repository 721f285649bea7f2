CONSTANTS
  None = None
  Rules <- MCRules
  Family <- MCFamily
  AiStyle = {"AGENT_EMAIL", "DETECTOR_SCORE"}
  Full = 2
  Logit = 8
  RuleOfThree = 1
  NoNegatives = 55
  Markers = {"AGENT_EMAIL"}
  Detector = "DETECTOR_SCORE"
  Suspect = 2
  Undisclosed = "UNDISCLOSED_AI"
  Forbidden = "AI_FORBIDDEN"
  Released <- MCReleased
  FitTables <- MCFitTables
  DefaultCap = 32
  PullRequests <- MCPullRequests
  Configs <- MCConfigs
  Feedback <- MCFeedback
  Targets <- MCTargets
  MaxHam = 3
  MaxFits = 1
SPECIFICATION Spec
INVARIANTS TypeOK ScoredAsFitted FamilyMovesAtMostTheCap WelcomeIgnoresAi TargetsHold
PROPERTY MoreEvidenceNeverHelps
