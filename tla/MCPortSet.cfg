\* Six ports, of the form 4 * n + 3 that the mask of AllocatePort leaves, in a
\* table of four slots: it fills up, is flushed and grows.  Callers also ask
\* for ILLEGAL_PORT, for the marker of deleted slots and for another number.
CONSTANTS
  Port = {7, 11, 15, 19, 23, 27}
  Asked = {0, 2, 3, 7, 11, 15, 19, 23, 27}
  kInitialCapacity = 4
SPECIFICATION Spec
INVARIANTS
  CountsAreExact
  ProbesEnd
PROPERTIES
  ImplementsPortTable
