SPECIFICATION Spec
CONSTANTS
  Names = {Token, Sale}
  Accounts = {token, sale}
  NewAddress = NewAddress
  Inner = Inner
  Offset = Offset
  None = None
  Word = 2
  MaxDepth = 3
  MaxLogs = 7
INVARIANTS
  TypeOK
  VerdictExact
  CallCoverageExact
  NoOverflowMissed
PROPERTIES
  CreatedIsRegistered
