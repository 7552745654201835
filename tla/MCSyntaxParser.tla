-------------------------- MODULE MCSyntaxParser --------------------------
(***************************************************************************)
(* Lists of tokens for the parser, each around one part of the grammar.    *)
(***************************************************************************)
EXTENDS ParserTrees

Input(entry, first, rest, n) == [entry |-> entry, first |-> first, rest |-> rest, limit |-> n]

\* The expression of a return statement.
Returned(rest, n) == Input("Statement", <<"return">>, rest, n)

MCExpressions ==
  { Returned({"x", "+", "*", "(", ")", ";"}, 8),
    Returned({"x", ",", "=", "?", ":", "||", "&&", ";"}, 9),
    Returned({"x", "?", ":", "=", ";"}, 12),
    Returned({"x", "|", "^", "&", "==", "<", "<<", ";"}, 8),
    Returned({"x", "-", "++", "[", "]", "+", ";"}, 7),
    Returned({"x", ",", "(", ")", "=", Str_Lit, ";"}, 8),
    Input("Statement", <<"return", "-", "(">>, {"x", "-", "(", ")", "int", "*", ";"}, 8),
    Input("Statement", <<"return", "sizeof">>, {"x", "-", "(", ")", "int", "*", ";"}, 7),
    Returned({"x", ".", "->", "const", "y", "struct", ";"}, 7) }

MCStatements ==
  { Input("Block", <<>>, {"{", "x"}, 2),
    Input("Block", <<"{">>, {"{", "}", ";", "return", "break", "do", "while", "(", "1", "x"}, 8),
    Input("Block", <<"{">>, {"}", ";", "if", "for", "continue", "(", "do", "struct", "else", "const"}, 6) }

MCDeclarations ==
  { Input("Declaration", <<"struct">>, {"x", "y", "{", "}", "int", "struct", ";", ","}, 13),
    Input("Declaration", <<"struct">>, {"x", "y", "{", "}", "int", "const", "[", "]", ";", "="}, 10),
    Input("Declaration", <<"int">>, {"x", "(", ")", "int", ",", ";", "{", "}"}, 11),
    Input("Declaration", <<"struct", "x", "y", "(">>, {"x", ")", "struct", "{", ";", "}", "return", "1"}, 12),
    Input("Declaration", <<"int", "z", "(", "struct", "x", "y", ")", "{", "return", "-", ")">>,
          {"struct", "enum", "x", "y", ")", "1", "int", "*", ";", "}"}, 19),
    Input("Declaration", <<"int", "(", "(", ")", "{", "return", "-">>,
          {"x", "int", ")", "y", ";", "}"}, 15),
    Input("Declaration", <<>>, {"const", "int", "struct", "enum", "x", "*", "(", "{"}, 6),
    Input("File", <<>>, {";", "int"}, 5) }

MCInputs == MCExpressions \union MCStatements \union MCDeclarations

\* An expression of sums.
MCSums == {Returned({"x", "1", "+", "-", ";"}, 8)}
=============================================================================
