SPECIFICATION FairSpec
CONSTANTS
  None = None
  Scripts <- MCScripts
  Replies <- MCReplies
  Bad <- MCBad
  BufferSize = 2
  MaxTears = 1
  XorOf <- MCXor
CHECK_DEADLOCK FALSE
INVARIANTS
  TypeOK
  NoUseAfterDelete
  DeliveredIsSent
  RepliesInOrder
  SizesReadable
PROPERTIES
  LifeSpec
  AllDelivered
  Freed
