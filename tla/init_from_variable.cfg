SPECIFICATION Spec
CONSTANTS
    GlobalVars <- MCGlobalVars
    Params <- MCParams
    Functions <- MCFunctions
    Known = {"putchar", "both", "next"}
    Stmts <- VariableInit
    MaxStmts = 2
    StackReserve = 3
INVARIANT OperandsThere
