SPECIFICATION Spec
CONSTANTS
  program = program
  struct = struct
  member = member
  leaf = leaf
  other = other
  None = None
  Keys <- MCKeys
  Child <- MCChild
  Brings <- MCBrings
  KeyLists <- MCKeyLists
  Addr = {a1}
  IoThreads = {t1}
  Responders = {p1}
  MaxBatch = 3
  MaxRequests = 2
  MaxSessions = 2
INVARIANT RoutedToOwner
