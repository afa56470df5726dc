SPECIFICATION Spec
CONSTANTS
  Thread = {t1, t2}
  NoThread = NoThread
  OpLevels = {0, 1, 2}
  MaxNest = 3
  MaxNoReload = 1
  Kinds = {"mutator", "helper", "bypass"}
SYMMETRY Symmetry
INVARIANTS
  CountsMatchScopes
  InnermostWhenNestedDownward
CHECK_DEADLOCK TRUE
