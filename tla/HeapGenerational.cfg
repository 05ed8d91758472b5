SPECIFICATION Spec
CONSTANTS
  Objs = {o1, o2, o3}
  NoObj = NoObj
  Slots = {1, 2}
  ValueSlot = 1
  LeftSlot = 1
  RightSlot = 2
  Generational = TRUE
  MarkModulus = 4
  MaxGenerations = 3
  StringTrees = TRUE
SYMMETRY AddressSymmetry
INVARIANTS
  TypeOK
  NoDanglingPointer
  BarrierComplete
  Bookkeeping
PROPERTIES
  KeepsPromise
  CollectionIsPrecise
CHECK_DEADLOCK FALSE
