\* Two threads that collect and two marker tasks.
\* A group that has been shut down does nothing more.
CONSTANTS
  Thread = {t1, t2}
  MarkerTask = {k1, k2}
  RootSlices = 2
SPECIFICATION FairSpec
INVARIANTS
  TasksAreExact
  TasksAreHeld
  NoLostWakeup
PROPERTIES
  OperationEnds
  MarkingIsFinalized
CHECK_DEADLOCK FALSE
