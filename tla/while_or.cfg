SPECIFICATION Spec
CONSTANTS
    MaxNodes = 5
    MaxBlock = 1
    MaxElseIf = 0
    Conds <- WhileOrConds
    ContinueIn <- MCContinueIn
    ValueRelations <- NoRelations
    StaleTests = FALSE
PROPERTY RunsAsWritten
