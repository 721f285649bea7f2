SPECIFICATION Spec
CONSTANTS
  PRs = {p1}
  Tasks = {t1, t2}
  Configs <- HoldConfigs
  Page = 3
  EchoesOwn = TRUE
  MaxEnv = 1
  MaxFaults = 0
INVARIANT OnlyRepliesFailTheCanary
CHECK_DEADLOCK FALSE
