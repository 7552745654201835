SPECIFICATION Spec
CONSTANTS
    GlobalVars <- MCGlobalVars
    Params <- MCParams
    Functions <- MCFunctions
    Known = {"putchar", "both", "next"}
    Stmts <- MCStmts
    MaxStmts = 2
    StackReserve = 3
INVARIANTS
    TypeOK
    ComputesAsWritten
    NothingPending
    OperandsThere
    StackReserved
