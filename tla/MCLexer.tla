------------------------------ MODULE MCLexer -------------------------------
(***************************************************************************)
(* Small instances of Lexer.                                               *)
(***************************************************************************)
EXTENDS Lexer

Upto(n, chars) == UNION {[1 .. k -> chars] : k \in 0 .. n}

\* All lines of up to four characters in which comments, literals, words and
\* symbols meet, all lines of up to four characters of a number, and short
\* lines with tabs.
MCLines ==
    Upto(4, {"a", "1", "/", "*", "+", "=", "\"", "'", "\\", " "})
    \union Upto(4, {"0", "8", "x", "b", "e", ".", "-"})
    \union Upto(3, {"a", "\t", " ", "="})

QuoteLines == Upto(3, {"a", "'", "\\"})

=============================================================================
