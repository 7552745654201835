SPECIFICATION Spec
CONSTANTS
    Lines <- QuoteLines
    MaxRows = 2
INVARIANT CharLiteralsClosed
