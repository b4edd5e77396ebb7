SPECIFICATION Spec
CONSTANTS
  program = program
  struct = struct
  member = member
  leaf = leaf
  other = other
  None = None
  Keys <- MCKeys
  Child <- MCChild
  Brings <- MCBrings
  KeyLists <- BigKeyLists
  Addr = {a1}
  IoThreads = {t1, t2}
  Responders = {p1}
  MaxBatch = 4
  MaxRequests = 3
  MaxSessions = 2
SYMMETRY Symmetry
INVARIANTS
  UsersAreAlive
  InOrder
  AnswersComplete
  BatchIsRead
PROPERTY ServiceSpec
