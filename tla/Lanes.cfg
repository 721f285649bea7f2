SPECIFICATION Spec
CONSTANTS
  MIN_CODE_LINES = 2
  WINDOW = 2
  MAX_FUNCS = 5
  MAX_BODY = 3
  Least <- MCLeast
  STOPWORDS = {"the"}
  GENERIC_WORDS = {"data"}
  ENORMOUS_FLOOR = 4
  ENORMOUS_CEIL = 8
  MIN_ADDITIONS = 1
  Tasks = {t1, t2}
  PAGE = 2
  Cases <- MCCases
INVARIANTS
  LastPushJudged
  ProductionOnly
  FileOrderIsNoEvidence
  UnfilledIsTheCommentedShare
SYMMETRY Symmetry
CHECK_DEADLOCK FALSE
