SPECIFICATION Spec
CONSTANTS
    NameOrder <- MCNameOrder
    Programs <- MCPrograms
INVARIANTS TypeOK SameBehaviour SameFailure CapturesAreLexical StatementsLeaveNothing CodeIsVerified
PROPERTIES Finishes
CHECK_DEADLOCK FALSE
