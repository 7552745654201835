------------------------------- MODULE Lexer --------------------------------
(***************************************************************************)
(* hzcc::lexical::ParseToToken: the line machine that turns a source file  *)
(* into tokens.  It reads a line at a time and walks a column through it;  *)
(* a handler looks ahead in the line, searches it, and moves the column to *)
(* the last character it consumed.  What is carried from one line to the   *)
(* next is the row and whether a comment is open.                          *)
(*                                                                         *)
(* The file is not fixed in advance: each line read is any line of Lines.  *)
(* The list of tokens only grows and the lexer never reads it, so the      *)
(* tokens of the line being read stand for it.                             *)
(***************************************************************************)
EXTENDS LexicalRules, FiniteSetsExt

CONSTANTS
    Lines,      \* the lines tried
    MaxRows     \* bound on the rows of the file

ASSUME LinesAssumption ==
    MaxRows \in Nat /\ Lines \subseteq Seq(STRING)

VARIABLES
    status,     \* "reading" a line, "lexing" it, "accepted" or "rejected"
    row,        \* row of the line last read
    line,       \* that line
    col,        \* column of the next character
    comment,    \* multi_line_comment
    tokens,     \* what the line adds to the list of tokens
    entered,    \* whether a comment is open where the line begins (history)
    overrun     \* a character past the buffer was read in it (history)

vars == <<status, row, line, col, comment, tokens, entered, overrun>>

C(i) == CharAt(line, i)

\* A token, with the column it is given and the columns of its first and last
\* character.
Token(kind, loc, from, to) ==
    [kind |-> kind, loc |-> loc, from |-> from, to |-> to]

\* Where the search finds the end of a comment from column i on, if anywhere.
CommentEnds(l, i) ==
    {j \in i .. Len(l) : CharAt(l, j) = "*" /\ CharAt(l, j + 1) = "/"}

Init ==
    /\ status = "reading"
    /\ row = 0
    /\ line = <<>>
    /\ col = 0
    /\ comment = FALSE
    /\ tokens = <<>>
    /\ entered = FALSE
    /\ overrun = FALSE

-----------------------------------------------------------------------------
(* The loop over the lines.                                                *)

\* Fault: the search for the end of the comment leaves its "/" to be read.
ReadLineAtSlash ==
    /\ status = "reading"
    /\ row < MaxRows
    /\ row' = row + 1
    /\ line' \in Lines
    /\ status' = "lexing"
    /\ LET ends == CommentEnds(line', 0)
       IN  /\ comment' = (comment /\ ends = {})
           /\ col' = IF ~comment THEN 0
                     ELSE IF ends = {} THEN Len(line') + 1 ELSE Min(ends) + 1
    /\ entered' = comment
    /\ UNCHANGED <<tokens, overrun>>

\* An empty line has nothing to lex, nor has one that does not end the comment
\* it begins in.
ReadLine ==
    /\ status = "reading"
    /\ row < MaxRows
    /\ row' = row + 1
    /\ line' \in Lines
    /\ status' = "lexing"
    /\ LET ends == CommentEnds(line', 0)
       IN  /\ comment' = (comment /\ ends = {})
           /\ col' = IF ~comment THEN 0
                     ELSE IF ends = {} THEN Len(line') + 1 ELSE Min(ends) + 2
    /\ entered' = comment
    /\ UNCHANGED <<tokens, overrun>>

LineDone == status = "lexing" /\ col >= Len(line)

EndLine ==
    /\ LineDone
    /\ status' = "reading"
    /\ line' = <<>>
    /\ col' = 0
    /\ tokens' = <<>>
    /\ entered' = FALSE
    /\ overrun' = FALSE
    /\ UNCHANGED <<row, comment>>

EndOfFile ==
    /\ status = "reading"
    /\ status' = IF comment THEN "rejected" ELSE "accepted"
    /\ UNCHANGED <<row, line, col, comment, tokens, entered, overrun>>

-----------------------------------------------------------------------------
(* The handlers, by the character at the column.                           *)

Lexing  == status = "lexing" /\ col < Len(line)
Carried == UNCHANGED <<row, line, entered>>

\* On to column i, with or without a token.
MoveTo(i) == /\ col' = i
             /\ UNCHANGED <<status, comment, tokens, overrun>> /\ Carried
Put(token, i) == /\ tokens' = Append(tokens, token)
                 /\ col' = i
                 /\ UNCHANGED <<status, comment, overrun>> /\ Carried
Reject == /\ status' = "rejected"
          /\ UNCHANGED <<col, comment, tokens, overrun>> /\ Carried

\* Fault: a character that is ignored is not passed.
SkipInPlace == Lexing /\ C(col) \in Ignored /\ MoveTo(col)

Skip == Lexing /\ C(col) \in Ignored /\ MoveTo(col + 1)

StartsComment == C(col) = "/" /\ C(col + 1) \in {"/", "*"}

LineComment ==
    /\ Lexing /\ StartsComment /\ C(col + 1) = "/"
    /\ MoveTo(Len(line) + 1)

\* Fault: the search begins at the star of the opening.
BlockCommentFromStar ==
    /\ Lexing /\ StartsComment /\ C(col + 1) = "*"
    /\ LET ends == CommentEnds(line, col + 1)
       IN  IF ends # {} THEN MoveTo(Min(ends) + 2)
           ELSE /\ comment' = TRUE
                /\ col' = Len(line) + 1
                /\ UNCHANGED <<status, tokens, overrun>> /\ Carried

BlockComment ==
    /\ Lexing /\ StartsComment /\ C(col + 1) = "*"
    /\ LET ends == CommentEnds(line, col + 2)
       IN  IF ends # {} THEN MoveTo(Min(ends) + 2)
           ELSE /\ comment' = TRUE
                /\ col' = Len(line) + 1
                /\ UNCHANGED <<status, tokens, overrun>> /\ Carried

\* Fault: a slash is a symbol by itself.
SymbolAlone ==
    /\ Lexing /\ C(col) \in Symbols /\ ~StartsComment
    /\ LET last == IF <<C(col), C(col + 1)>> \in LongOperators
                      /\ C(col) # "/" THEN col + 1 ELSE col
       IN  Put(Token("symbol", last, col, last), last + 1)

\* Fault: the second character of an operator is read again.
SymbolReadAgain ==
    /\ Lexing /\ C(col) \in Symbols /\ ~StartsComment
    /\ LET last == IF <<C(col), C(col + 1)>> \in LongOperators THEN col + 1
                                                               ELSE col
       IN  Put(Token("symbol", last, col, last), col + 1)

\* A two-character operator is given the column of its second character.
Symbol ==
    /\ Lexing /\ C(col) \in Symbols /\ ~StartsComment
    /\ LET last == IF <<C(col), C(col + 1)>> \in LongOperators THEN col + 1
                                                               ELSE col
       IN  Put(Token("symbol", last, col, last), last + 1)

\* The column of the quote that ends the string whose text begins at i; past
\* the line if there is none.
StringEnd(i) ==
    LET end[j \in 0 .. Len(line) + 2] ==
          IF j > Len(line) \/ C(j) = Quote THEN j
          ELSE LET next == IF C(j) = "\\" THEN j + 2 ELSE j + 1 IN end[next]
    IN  end[i]

\* Fault: a string that is not closed ends with its line.
StringLiteralUnchecked ==
    /\ Lexing /\ C(col) = Quote
    /\ LET end == StringEnd(col + 1)
       IN  Put(Token("string", col, col, end), end + 1)

StringLiteral ==
    /\ Lexing /\ C(col) = Quote
    /\ LET end == StringEnd(col + 1)
       IN  IF end > Len(line) THEN Reject
           ELSE Put(Token("string", col, col, end), end + 1)

\* The closing quote of a character literal is looked for at one place, which
\* may be past the NUL of the buffer: what stands there is left over from an
\* earlier line.
CharLiteral ==
    /\ Lexing /\ C(col) = "'"
    /\ LET end == col + (IF C(col + 1) = "\\" THEN 3 ELSE 2)
           literal == Token("char", col, col, end)
       IN  \/ /\ end <= Len(line)
              /\ IF C(end) = "'" THEN Put(literal, end + 1) ELSE Reject
           \/ /\ end > Len(line)
              /\ overrun' = TRUE
              /\ \/ /\ tokens' = Append(tokens, literal)
                    /\ col' = end + 1
                    /\ UNCHANGED <<status, comment>> /\ Carried
                 \/ /\ status' = "rejected"
                    /\ UNCHANGED <<col, comment, tokens>> /\ Carried

\* From column i of a number: where it ends, and whether an exponent with a
\* sign makes it real.
NumberEnd(i, real) ==
    LET end[j \in 0 .. Len(line) + 1] ==
          IF j > Len(line) \/ ~InNumber(C(j)) THEN [to |-> j, real |-> real]
          ELSE IF C(j) = "e" /\ C(j + 1) \in {"-", "+"}
               THEN LET rest == end[j + 2] IN [rest EXCEPT !.real = TRUE]
               ELSE end[j + 1]
    IN  end[i]

\* The number at the column: where lexing goes on, and its last character.
Number ==
    LET first  == Min({j \in col .. Len(line) : C(j) \notin Digits})
        at     == IF C(first) \in {"b", "x"} THEN first + 1 ELSE first
        dot    == C(at) = "."
        number == NumberEnd(IF dot THEN at + 1 ELSE at, dot)
        last   == Min({number.to, Len(line)}) - 1
        text   == SubSeq(line, col + 1, last + 1)
    IN  [next |-> number.to, last |-> last,
         ok |-> IF number.real THEN RealOk(text) ELSE IntegerOk(text)]

\* Fault: the column is not moved back to the last digit.
NumberLiteralTooFar ==
    /\ Lexing /\ C(col) \in Digits
    /\ IF Number.ok
       THEN Put(Token("number", col, col, Number.last), Number.next + 1)
       ELSE Reject

NumberLiteral ==
    /\ Lexing /\ C(col) \in Digits
    /\ IF Number.ok
       THEN Put(Token("number", col, col, Number.last), Number.next)
       ELSE Reject

\* A keyword, a type specifier, a qualifier or an identifier.
Word ==
    /\ Lexing
    /\ C(col) \notin Ignored \union Digits \union Symbols \union {Quote, "'"}
    /\ LET ends == {j \in col .. Len(line) - 1 : IsOperator(C(j))}
           end  == IF ends = {} THEN Len(line) ELSE Min(ends)
       IN  Put(Token("word", col, col, end - 1), end)

Done == status \in {"accepted", "rejected"} /\ UNCHANGED vars

Next ==
    \/ ReadLine \/ EndLine \/ EndOfFile
    \/ Skip \/ LineComment \/ BlockComment \/ Symbol
    \/ StringLiteral \/ CharLiteral \/ NumberLiteral \/ Word
    \/ Done

Spec == Init /\ [][Next]_vars /\ WF_vars(Next)

-----------------------------------------------------------------------------
(* Properties.                                                             *)

Reference == INSTANCE CScanner

Expected == Reference!Modes(line, IF entered THEN "block" ELSE "between")

Covering(i) == {t \in DOMAIN tokens : tokens[t].from <= i /\ i <= tokens[t].to}

\* The values the variables range over.  The column passes the NUL of the line
\* only when a character literal has been read beyond it.
TypeOK ==
    /\ status \in {"reading", "lexing", "accepted", "rejected"}
    /\ row \in 0 .. MaxRows
    /\ line \in Seq(STRING)
    /\ col \in 0 .. Len(line) + (IF overrun THEN 2 ELSE 1)
    /\ {comment, entered, overrun} \subseteq BOOLEAN
    /\ \A t \in DOMAIN tokens :
          tokens[t] \in [kind : {"symbol", "string", "char", "number", "word"},
                         loc : Nat, from : Nat, to : Nat]

\* When a line is done, each of its characters that a scanner of C finds in a
\* token of some kind is in exactly one token, of that kind, and no character
\* of a comment or between tokens is in any.
LineCovered ==
    (LineDone /\ ~overrun) =>
        \A i \in 0 .. Len(line) - 1 :
            LET kind == Reference!KindOf(Expected[i + 1])
            IN  IF kind = "none" THEN Covering(i) = {}
                ELSE \E t \in Covering(i) : /\ Covering(i) = {t}
                                            /\ tokens[t].kind = kind

\* A comment is open after a line, and is noticed at the end of the file, if
\* and only if the scanner is in one: over any number of lines.
CommentCarried ==
    /\ LineDone /\ ~overrun => (comment <=> Expected[Len(line)] = "block")
    /\ status = "accepted" => ~comment

\* A string or character literal that is not closed on its line is refused.
\* Only a quote looked for past the end of the buffer may go wrong.
LiteralsClosed ==
    (LineDone /\ ~overrun) =>
        ~Reference!Unterminated(Expected[Len(line)])

\* The test of character literals: one that is not closed is an error.
CharLiteralsClosed ==
    LineDone => ~Reference!Unterminated(Expected[Len(line)])

\* Two symbols that touch never make an operator that was missed.
LongestMatch ==
    \A s, t \in DOMAIN tokens :
        /\ tokens[s].kind = "symbol" /\ tokens[s].from = tokens[s].to
        /\ tokens[t].kind = "symbol" /\ tokens[t].from = tokens[s].to + 1
        => <<C(tokens[s].from), C(tokens[t].from)>> \notin LongOperators

\* The columns of the tokens increase along the line, as the parser and the
\* error messages take for granted.
InOrder ==
    \A s, t \in DOMAIN tokens :
        s < t => /\ tokens[s].loc < tokens[t].loc
                 /\ tokens[s].to < tokens[t].from

\* Every file is accepted or rejected in the end: no handler leaves the column
\* where it was.
Terminates == <>(status \in {"accepted", "rejected"})

=============================================================================
