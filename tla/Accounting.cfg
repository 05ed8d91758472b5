SPECIFICATION Spec
CONSTANTS
  Objs = {o1, o2, o3, o4}
  SizeOf <- SmallSizes
  PointerSize = 1
  EntrySize = 3
  MaxExcess = 1
  HeapSize = 2
  MaxLength = 1
  MaxCaptured = 1
  MaxEntries = 1
  OVERHEAD_FACTOR = 5
  GC_THRASH_THRESHOLD = 20
  CollectionLimit = 40
  WordModulus = 1024
  TruncModulus = 512
  MaxBytes = 110
  Settings <- AllSettings
SYMMETRY AddressSymmetry
INVARIANTS
  TypeOK
  OverEstimateOfCounted
  CountIsExplained
PROPERTIES
  CollectionLowersCount
CHECK_DEADLOCK FALSE
