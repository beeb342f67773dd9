SPECIFICATION ClockSpec
CONSTANTS
  Times = {10, 20, 30, 40, 50, 60}
  WallClock = 25
INVARIANTS
  ClockTypeOK
  TimestampsSorted
PROPERTIES
  TimeWrapsOnce
  RevertAtLatest
