SPECIFICATION ScriptSpec
CONSTANTS
  None = None
  Node <- AnswersNode
  Symbols <- AnswersSymbols
  Array <- MCArray
  Property <- MCProperty
  NoGetter <- MCNoGetter
  Place <- MCPlace
  Lower <- MCLower
  Begins <- MCBegins
  Slot <- Backwards
  Configurations <- MCConfigurations
  NetIdParts = 2
  MaxPart = 3
  Ports = 8
  DefaultAddr <- MCDefaultAddr
  PlcAddrs <- MCPlcAddrs
  PlcName <- MCPlcName
  Index <- MCIndex
  MayFail <- NoFailure
  KeyLists <- AnswersLists
  Messages <- NoMessages
  Large <- MCLarge
  Responders <- Responses
  MaxRequests = 9
  MaxWrites = 1
  MaxStamp = 0
INVARIANT SomeAnswerFresh
