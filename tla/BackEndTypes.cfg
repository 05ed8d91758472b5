SPECIFICATION BackEndSpec
CONSTANTS
    NameOrder <- MCNameOrder
    Programs <- Retyped
    IntBits = 5
    CalleeRegs <- MCCallee
    CallerRegs <- MCCaller
INVARIANT TypesAreCertain
