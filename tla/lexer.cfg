SPECIFICATION Spec
CONSTANTS
    Lines <- MCLines
    MaxRows = 3
INVARIANTS
    TypeOK
    LineCovered
    CommentCarried
    LiteralsClosed
    LongestMatch
    InOrder
PROPERTY Terminates
