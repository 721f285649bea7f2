CONSTANTS
  Installations = {"a1", "a2", "b1"}
  Owner <- MCOwner
  Verdicts <- MCVerdicts
  Author = "ghost"
  CORROBORATION_N = 2
  Publishers = {p1, p2}
  MaxPublishes = 3
  MaxTime = 1
  MaxFaults = 1
SPECIFICATION Spec
INVARIANTS TypeOK BindsOnlyCorroborated StrengthOfTheSet SerialPublishesKept
