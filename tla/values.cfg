SPECIFICATION ServerSpec
CONSTANTS
  None = None
  Node <- TreeNode
  Symbols <- TreeSymbols
  Array <- MCArray
  Property <- MCProperty
  NoGetter <- MCNoGetter
  Place <- MCPlace
  Lower <- MCLower
  Begins <- MCBegins
  Slot <- MCIndex
  Configurations <- MCConfigurations
  NetIdParts = 2
  MaxPart = 3
  Ports = 8
  DefaultAddr <- MCDefaultAddr
  PlcAddrs <- MCPlcAddrs
  PlcName <- MCPlcName
  Index <- MCIndex
  MayFail = {"symbols", "datatypes"}
  KeyLists <- TreeLists
  Messages <- TreeMessages
  Large <- MCLarge
  Responders = {r1}
  MaxRequests = 2
  MaxWrites = 1
  MaxStamp = 1
INVARIANTS
  TypeOK
  AddressesRight
  CompleteIsWhole
  RefusedIsDropped
  EachReadOnce
  PlainAnswersFresh
  AddressWhole
PROPERTY WritesOnlyNamed
