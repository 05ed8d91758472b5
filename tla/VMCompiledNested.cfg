SPECIFICATION Spec
CONSTANTS
  Objs = {o1, o2, o3, o4}
  NoObj = NoObj
  Slots = {1, 2}
  ValueSlot = 1
  LeftSlot = 1
  RightSlot = 2
  Generational = FALSE
  MarkModulus = 3
  MaxGenerations = 2
  main = main
  outer = outer
  inner = inner
  Functions <- Plain
  MainFunction = main
  NoFunction = NoFunction
  functions_ <- PlainNested
  local_vars_ <- PlainLocals
  local_reference_vars_ <- PlainNone
  free_vars_ <- PlainNone
  arg_mapping <- PlainParameters
  Globals = {g}
  Fields = {1}
  Features = {"records"}
  StringTrees = FALSE
  MachineCode = TRUE
  NestedCalls = TRUE
  MaxFrames = 2
  MaxStack = 2
SYMMETRY AddressSymmetry
INVARIANTS
  TemporariesSurviveCalls
CHECK_DEADLOCK FALSE
