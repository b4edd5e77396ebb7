SPECIFICATION Spec
CONSTANTS
  MaxDepth = 3
  Bits <- MCBits
  Nul = "nul"
  Fill = "x"
  MaxHeaderSize = 55
  MaxLength = 31
  Digits10 = {"1"}
  MaxDigits = 2
  Begins <- MCBegins
  DataTypes <- MCDataTypes
INVARIANTS LoadIsJson RoundTrip ZerosDropped ReadBack ReadAsWritten AssertsHold FoundRightly CacheIsTables
CHECK_DEADLOCK FALSE
