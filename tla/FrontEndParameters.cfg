\* free_vars_ against its comment in Types.h.
SPECIFICATION Spec
CONSTANTS
    NameOrder <- MCNameOrder
    Programs <- MCPrograms
INVARIANT FreeVariablesAreNotLocal
CHECK_DEADLOCK FALSE
