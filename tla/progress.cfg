SPECIFICATION DealtSpec
CONSTANTS
  program = program
  struct = struct
  member = member
  leaf = leaf
  other = other
  None = None
  Keys <- MCKeys
  Child <- MCChild
  Brings <- MCBrings
  KeyLists <- ProgressKeyLists
  Addr = {a1, a2}
  IoThreads = {t1, t2}
  Responders = {p1}
  MaxBatch = 3
  MaxRequests = 2
  MaxSessions = 1
PROPERTIES
  Settled
  HandlersReturn
