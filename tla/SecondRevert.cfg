SPECIFICATION Spec
CONSTANTS
  alice = alice
  bob = bob
  token = token
  list1 = list1
  list2 = list2
  pay = pay
  nop = nop
  fuzz_always_true_cap = fuzz_always_true_cap
  Fallback = Fallback
  None = None
  Accounts = {alice, bob}
  Pooled = {alice}
  Contracts <- OneContract
  Methods <- ThreeMethods
  MethodsOf <- MethodsOfToken
  Payable <- PayableInToken
  FuzzMethods <- Properties
  PoolValues = {0, 1, 2}
  ArgLists = {list1}
  Verdicts <- PlainVerdicts
  OptFlags = {4}
  TimestampLists <- NoTimestamps
  Times = {30, 60}
  WallClock = 25
  InitBalance <- Ether
  Limit = 4
  SubmitPerTimestamp = 2
  SnapshotBit = 2
  MaxDiffDepth = 2
PROPERTIES
  RevertRestores
