\* Four tasks on up to four workers: unlimited, or at most 1 or 2 at a time.
CONSTANTS
  Worker = {w1, w2, w3, w4}
  Task = {t1, t2, t3, t4}
  MaxPoolSizes = {0, 1, 2}
SPECIFICATION Spec
SYMMETRY Symmetry
INVARIANTS
  TypeOK
  EachTaskIsInOnePlace
  NoStrandedTask
  WorkerPerPendingTask
  JoinedByOne
  ShutdownDrains
