\* The generator may draw the number that marks deleted slots.
CONSTANTS
  Port = {3, 7, 11, 15, 19}
  Asked = {3, 7, 11, 15, 19}
  kInitialCapacity = 4
SPECIFICATION Spec
PROPERTIES
  NoMarkerIsAllocated
