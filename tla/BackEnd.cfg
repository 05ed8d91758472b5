SPECIFICATION BackEndSpec
CONSTANTS
    NameOrder <- MCNameOrder
    Programs <- MCBackPrograms
    IntBits = 5
    CalleeRegs <- MCCallee
    CallerRegs <- MCCaller
INVARIANTS PlainCodeAgrees OptimizedCodeAgrees UndefinedIsExplained StackIsBalanced ReservedOnce LiveStoresAreKept RangesCoverReads
PROPERTY MachineFinishes
