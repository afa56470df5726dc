SPECIFICATION FairDeoptSpec
CONSTANTS
  Thread = {t1, t2}
  NoThread = NoThread
  OpLevels = {0, 1}
  MaxNest = 1
  MaxNoReload = 0
  Kinds = {"mutator", "helper"}
PROPERTIES
  OperationStarts
  WaiterIsNotified
CHECK_DEADLOCK TRUE
