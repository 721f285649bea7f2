SPECIFICATION Spec
CONSTANTS
  PRs = {p1}
  Tasks = {t1, t2}
  Configs <- AllConfigs
  Page = 3
  EchoesOwn = FALSE
  MaxEnv = 2
  MaxFaults = 1
SYMMETRY Symmetry
INVARIANTS
  ExplainedClose
  LogIsTrue
  AskedBeforeJudged
  DryRunHarmless
  OneScoreComment
  ExemptUntouched
PROPERTIES
  ScoreNeverGoesBack
  DecidedOnce
CHECK_DEADLOCK FALSE
