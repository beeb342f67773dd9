SPECIFICATION Spec
CONSTANTS
  Items = {v1, v2, v3, v4}
  NoItem = NoItem
INVARIANTS
  TypeOK
  Deduplicated
PROPERTIES
  ImplementsFairPool
  DrawsComeNearer
