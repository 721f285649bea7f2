SPECIFICATION Spec
CONSTANTS
  Logins <- MCLogins
  Account <- MCAccount
  Repos <- MCRepos
  Sources <- MCSources
  Corpora <- MCCorpora
  FOLDS = 2
  MinSource = 1
  MaxRuns = 1
INVARIANTS
  TypeOK
  HeldOutIsUnseen
  CrossFitted
  CutsHeldOut
  OnePredictionEach
  ReplaySeesThePast
CHECK_DEADLOCK FALSE
