SPECIFICATION Spec
CONSTANTS
  Thread = {t1, t2}
  NoThread = NoThread
  OpLevels = {0, 1}
  MaxNest = 3
  MaxNoReload = 0
  Kinds = {"mutator"}
INVARIANTS
  InnermostIsTop
CHECK_DEADLOCK TRUE
