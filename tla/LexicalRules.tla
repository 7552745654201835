---------------------------- MODULE LexicalRules ----------------------------
(***************************************************************************)
(* The character classes and number formats of the lexer (parser/common    *)
(* and parser/lexical).  A character is a string of length one and a line  *)
(* is a sequence of characters, read with the C++ index of a character; at *)
(* its length stands the NUL that ends the buffer.                         *)
(***************************************************************************)
EXTENDS Naturals, Sequences, FiniteSets

NUL == "NUL"

\* Begins and ends a string literal.
Quote == "\""

CharAt(line, i) == IF i < Len(line) THEN line[i + 1] ELSE NUL

\* kSingleCharSymbol, and the entries of kOperatorTable that two of its
\* characters make up: only they are looked up.
Symbols == {"+", "-", "*", "/", "%", "&", "|", "!", "=", ".", ",", "~",
            "<", ">", "?", ":", ";", "{", "}", "(", ")", "[", "]"}

LongOperators ==
    {<<"=", "=">>, <<"!", "=">>, <<">", "=">>, <<"<", "=">>, <<"+", "+">>,
     <<"-", "-">>, <<"|", "|">>, <<"&", "&">>, <<"<", "<">>, <<">", ">">>,
     <<"+", "=">>, <<"-", "=">>, <<"*", "=">>, <<"/", "=">>, <<"-", ">">>,
     <<"%", "=">>, <<"&", "=">>, <<"|", "=">>}

Digits    == {"0", "1", "2", "3", "4", "5", "6", "7", "8", "9"}
HexDigits == Digits \union {"a", "b", "c", "d", "e", "f"}
Spaces    == {" ", "\t", "\r"}

\* Skipped between tokens.
Ignored == Spaces \union {"@", "backquote"}

\* SymbolUtils::is_operator: where a word ends.
IsOperator(c) == c = " " \/ c \in Symbols

\* What goes on as part of a number.
InNumber(c) == c = "." \/ (c \notin Spaces /\ ~IsOperator(c))

All(text, set) == \A i \in DOMAIN text : text[i] \in set

\* The decimal, hexadecimal and octal formats.  The check of a binary literal
\* converts it without its first character, which fails, so none is accepted.
IntegerOk(text) ==
    \/ All(text, Digits) /\ (text[1] # "0" \/ Len(text) = 1)
    \/ /\ Len(text) >= 2 /\ text[1] = "0"
       /\ \/ All(text, Digits \ {"8", "9"})
          \/ /\ text[2] = "x" /\ Len(text) > 2
             /\ All(SubSeq(text, 3, Len(text)), HexDigits)

\* Digits with at most one point among them, which does not end them, and an
\* exponent or none.
RealOk(text) ==
    LET from(i) == SubSeq(text, i, Len(text))
        upto(i) == SubSeq(text, 1, i)
        Mantissa(t) ==
            /\ t # <<>> /\ t[Len(t)] \in Digits
            /\ All(t, Digits \union {"."})
            /\ Cardinality({i \in DOMAIN t : t[i] = "."}) <= 1
        Exponent(t) ==
            LET d == IF t # <<>> /\ t[1] \in {"-", "+"} THEN Tail(t) ELSE t
            IN  d # <<>> /\ All(d, Digits)
    IN  \/ Mantissa(text)
        \/ \E i \in DOMAIN text : /\ text[i] = "e"
                                  /\ Mantissa(upto(i - 1))
                                  /\ Exponent(from(i + 1))

=============================================================================
