SPECIFICATION Spec
CONSTANTS
  Thread = {t1, t2, t3}
  NoThread = NoThread
  OpLevels = {0, 1, 2}
  MaxNest = 1
  MaxNoReload = 0
  Kinds = {"mutator", "helper", "bypass"}
SYMMETRY Symmetry
INVARIANTS
  MutatorsStopped
  NotParkedIsExact
  RequestHasOwner
  LowerLevelsFree
  OwnerIsNotRequested
  NoLostWakeup
PROPERTY
  StopIsKept
CHECK_DEADLOCK TRUE
