\* Every thread is scheduled and every unblocked task ends; blocked workers
\* may stay blocked.
CONSTANTS
  Worker = {w1, w2, w3}
  Task = {t1, t2, t3}
  MaxPoolSizes = {0, 1, 2}
SPECIFICATION FairWorkers
PROPERTIES
  TaskIsStarted
  ShutdownReturns
