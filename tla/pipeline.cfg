SPECIFICATION Spec
CONSTANTS
  program = program
  struct = struct
  member = member
  leaf = leaf
  other = other
  None = None
  Keys <- MCKeys
  Child <- MCChild
  Brings <- MCBrings
  KeyLists <- MCKeyLists
  Addr = {a1, a2}
  IoThreads = {t1, t2}
  Responders = {p1, p2}
  MaxBatch = 3
  MaxRequests = 2
  MaxSessions = 1
SYMMETRY Symmetry
INVARIANTS
  TypeOK
  OnePlace
  DroppedForCause
