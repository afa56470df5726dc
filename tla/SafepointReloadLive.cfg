SPECIFICATION FairReloadSpec
CONSTANTS
  Thread = {t1, t2}
  NoThread = NoThread
  OpLevels = {1, 2}
  MaxNest = 1
  MaxNoReload = 1
  Kinds = {"mutator"}
PROPERTIES
  OperationStarts
CHECK_DEADLOCK TRUE
