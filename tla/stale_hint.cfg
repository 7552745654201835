SPECIFICATION Spec
CONSTANTS
    MaxNodes = 5
    MaxBlock = 1
    MaxElseIf = 0
    Conds <- ValueConds
    ContinueIn <- MCContinueIn
    ValueRelations <- MCValueRelations
    StaleTests = TRUE
PROPERTY RunsAsWritten
