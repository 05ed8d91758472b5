SPECIFICATION Spec
CONSTANTS
  Objs = {o1, o2, o3, o4}
  NoObj = NoObj
  Slots = {1, 2}
  ValueSlot = 1
  LeftSlot = 1
  RightSlot = 2
  Generational = FALSE
  MarkModulus = 5
  MaxGenerations = 4
  main = main
  outer = outer
  inner = inner
  Functions <- TopLevel
  MainFunction = main
  NoFunction = NoFunction
  functions_ <- TopLevelNested
  local_vars_ <- TopLevelNone
  local_reference_vars_ <- TopLevelNone
  free_vars_ <- TopLevelNone
  arg_mapping <- TopLevelParameters
  Globals = {g}
  Fields = {1}
  Features = {"builtins", "records", "strings"}
  StringTrees = TRUE
  MachineCode = FALSE
  NestedCalls = TRUE
  MaxFrames = 2
  MaxStack = 3
SYMMETRY AddressSymmetry
INVARIANTS
  NothingInUseDangles
PROPERTIES
  KeepsPromise
  CollectionIsPrecise
CHECK_DEADLOCK FALSE
