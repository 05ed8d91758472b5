SPECIFICATION Spec
CONSTANTS
  Objs = {o1, o2, o3, o4}
  NoObj = NoObj
  Slots = {1, 2}
  ValueSlot = 1
  LeftSlot = 1
  RightSlot = 2
  Generational = FALSE
  MarkModulus = 3
  MaxGenerations = 2
  main = main
  outer = outer
  inner = inner
  Functions <- Capturing
  MainFunction = main
  NoFunction = NoFunction
  functions_ <- CapturingNested
  local_vars_ <- CapturingLocals
  local_reference_vars_ <- CapturingReferences
  free_vars_ <- CapturingFree
  arg_mapping <- CapturingParameters
  Globals = {g}
  Fields = {}
  Features = {}
  StringTrees = FALSE
  MachineCode = FALSE
  NestedCalls = TRUE
  MaxFrames = 2
  MaxStack = 2
SYMMETRY AddressSymmetry
PROPERTIES
  RunningClosureExists
CHECK_DEADLOCK FALSE
