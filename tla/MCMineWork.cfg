SPECIFICATION Spec
CONSTANTS
  MaxCounter = 1
  TargetLimit = 3
  HashValues = {0, 1, 2}
  Targets <- MCTargets
  Limits <- MCLimits
INVARIANTS
  NothingSkipped
  AttemptsCounted
  SoundResult
PROPERTIES
  SearchDecides
CHECK_DEADLOCK FALSE
