\* Three mutators for two slots, and a thread that needs none.
CONSTANTS
  Mutator = {m1, m2, m3}
  Helper = {h1}
  MaxActive = 2
  MaxScopes = 2
SPECIFICATION FairSpec
INVARIANTS
  SlotsAreExact
  NoIdleSlot
  LockIsExact
PROPERTIES
  OperationEnds
