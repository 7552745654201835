SPECIFICATION Spec
CONSTANTS
    MaxNodes = 7
    MaxBlock = 2
    MaxElseIf = 1
    Conds <- MCConds
    ContinueIn <- MCContinueIn
    ValueRelations <- MCValueRelations
    StaleTests = FALSE
INVARIANTS
    TypeOK
    LoopsCounted
    ScopesBalanced
    LoopContextAgrees
    FreshLabels
    HintOfLastValue
    CodeAssembles
PROPERTY RunsAsWritten
