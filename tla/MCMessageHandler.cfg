\* Two normal and two out-of-band messages, an interrupt inside a message.
\* Accepted tasks run, HandleMessage returns, threads in the handler go on.
\* A handler that has been deleted, or that nobody uses, does nothing more.
CONSTANTS
  MaxPosts = 2
  MaxOOB = 2
  MaxPaused = 1
  MaxDepth = 2
SPECIFICATION FairSpec
INVARIANTS
  TypeOK
  OneTask
  NoStrandedMessage
  NoUseAfterDelete
  OOBInterruptsCode
  EventsInOrder
PROPERTIES
  MessageIsTaken
  DeletionHappens
CHECK_DEADLOCK FALSE
