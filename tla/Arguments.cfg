SPECIFICATION Spec
CONSTANTS
  Widths <- SmallWidths
  Narrowest = 1
  Widest = 3
  Half <- HalfOf
  Powers = {1, 2}
  Amounts = {1}
  BigValues = {1, 3}
  MaxLeaves = 2
  MostEther = 1
  BoolType = BoolType
  BigIntType = BigIntType
  None = None
INVARIANTS
  TypeOK
  ArgsFit
  ReturnedRecurs
