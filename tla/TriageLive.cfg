SPECIFICATION FairSpec
CONSTANTS
  PRs = {p1}
  Tasks = {t1, t2}
  Configs <- HoldConfigs
  Page = 3
  EchoesOwn = FALSE
  MaxEnv = 2
  MaxFaults = 0
PROPERTIES
  PushIsJudged
  AnswerResolves
  CanaryCloses
CHECK_DEADLOCK FALSE
