----------------------------- MODULE TokenList -----------------------------
(***************************************************************************)
(* The list of tokens that the parser consumes (utils/cached_list.h) and   *)
(* the classes of tokens (parser/common/token_type.h).  A token stands for *)
(* itself as its spelling, a name as one of a few names.  The list may be  *)
(* any: its tokens are chosen when the parser first looks at them, from an *)
(* alphabet, up to a bound.  Tokens are numbered in the order of the       *)
(* source; all of them are on one line.                                    *)
(***************************************************************************)
EXTENDS Integers, FiniteSetsExt, SequencesExt

VARIABLES tokens,    \* what is left of the list, as far as it is chosen
          ended,     \* nothing follows tokens
          taken,     \* the tokens that were popped, in order
          cached,    \* the qualifiers that pop set aside
          alphabet,  \* the tokens that the rest of the list is made of
          limit      \* the length of the list at most

tokenVars == <<tokens, ended, taken, cached, alphabet, limit>>

-----------------------------------------------------------------------------

kIdentity == {"x", "y", "z"}
Literals == {"1", "'c'", "1.5"}
Str_Lit == "\"s\""

PrimitiveTypes == {"int", "char", "float", "double", "void", "long", "short",
                   "_Bool", "_Complex", "_Imaginary", "signed", "unsigned"}
TypeSpecifiers == PrimitiveTypes \union {"auto"}
Qualifiers == {"const", "volatile", "restrict", "_Atomic"}

\* The spelling is in the table of type specifiers.
is_primitive_type(token) == token \in TypeSpecifiers

Spellings == {"+", "-", "*", "/", "%", "=", "!", "(", ")", "[", "]", ",", ";", ":", ".",
              ">", "<", "{", "}", "?", "&", "|", "~", "^"}
  \union {"==", "!=", ">=", "<=", "++", "--", "||", "&&", "<<", ">>", "+=", "-=", "*=",
          "/=", "->", "%=", "<<=", ">>=", "&=", "^=", "|="}
  \union {"break", "case", "continue", "default", "do", "else", "enum", "extern", "for",
          "goto", "if", "return", "sizeof", "struct", "switch", "typedef", "union",
          "while", "alignas", "alignof"}
  \union kIdentity \union Literals \union {Str_Lit}
  \union TypeSpecifiers \union Qualifiers

-----------------------------------------------------------------------------

\* peek, which returns only when the first token is no qualifier.
Peek == Head(tokens)
PeekReturns == Peek \notin Qualifiers
Peek2 == tokens[2]
Peek3 == tokens[3]

\* The token that is peeked at, with its place in the source.
Here == [is |-> Peek, at |-> Len(taken) + 1]

\* Where the token stands that pop will return: after any qualifiers.
PopsAt == SelectInSeq(tokens, LAMBDA t : t \notin Qualifiers)
Popped == [is |-> tokens[PopsAt], at |-> Len(taken) + PopsAt]

Shift(n) == /\ taken' = taken \o SubSeq(tokens, 1, n)
            /\ tokens' = SubSeq(tokens, n + 1, Len(tokens))
            /\ UNCHANGED <<ended, alphabet, limit>>

Pop == Shift(PopsAt) /\ cached' = cached \o SubSeq(tokens, 1, PopsAt - 1)

\* Pops of n tokens that were peeked at before.
Take(n) == Shift(n) /\ UNCHANGED cached

\* cache_attr_list is only ever called in front of a pop of a peeked token.
TakeCache(n) == Shift(n) /\ cached' = <<>>

\* Whoever wrote the list: one more token, or no more.
Supply ==
  /\ ~ended
  /\ UNCHANGED <<taken, cached, alphabet, limit>>
  /\ \/ /\ Len(taken) + Len(tokens) < limit
        /\ \E t \in alphabet : tokens' = Append(tokens, t)
        /\ UNCHANGED ended
     \/ ended' = TRUE /\ UNCHANGED tokens
=============================================================================
