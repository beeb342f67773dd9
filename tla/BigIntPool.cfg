SPECIFICATION BigSpec
CONSTANTS
  Items = {0, 1, 2, 5}
  NoItem = NoItem
  Balances = {0, 1, 3}
INVARIANTS
  BigTypeOK
  SearchBounded
  AmountAffordable
PROPERTIES
  SearchTerminates
