---------------------------- MODULE ParserWords ----------------------------
(***************************************************************************)
(* What becomes of the words of a list of tokens: where the trees that the *)
(* parser builds have the names, literals and types that it was given.     *)
(***************************************************************************)
EXTENDS SyntaxParser

\* The nodes of some trees, one generation after another.
Generations(roots, n) ==
  LET generation[k \in 0 .. n] ==
        IF k = 0 THEN roots ELSE UNION {Range(node.children) : node \in generation[k - 1]}
  IN generation

\* A token adds no more than two generations to a tree.
Height == 2 * Len(taken)
Subtrees(roots) == UNION {Generations(roots, Height)[k] : k \in 0 .. Height}

\* The type of a cast stands in parentheses.  Elsewhere the token in front of a type
\* is dropped, whatever it is (ParseCastExpr).
CastsInParentheses ==
  \A node \in Subtrees(Range(built)) : node.class = "ExplicitCastExpr" => taken[node.at] = "("

\* A member is named by the token after the next one (ParsePostfixExpr).
NoMember == Range(taken) \intersect {".", "->"} = {}

\* The tokens that say something of their own; string literals in a row are one.
Words == {i \in DOMAIN taken :
  /\ taken[i] \in kIdentity \union Literals \union PrimitiveTypes \union {Str_Lit}
  /\ ~(i > 1 /\ taken[i] = Str_Lit /\ taken[i - 1] = Str_Lit)}

\* The classes of the nodes that have one of these tokens, or name a type.
Speaking == {"DeclRefExpr", "LiteralExpr", "FuncCallStmt", "Type", "VarPack",
             "ParamVarDecl", "FieldDecl", "RecordDecl", "FuncDeclStmt"}

\* Every name, literal and type that was consumed is in the tree, and what the tree
\* says was consumed: nothing is dropped or confused between the functions that hand
\* nodes on.
NothingLost ==
  (Parsed /\ built # <<>> /\ CastsInParentheses /\ NoMember) =>
    LET says == {node \in Subtrees({built[1]}) : node.class \in Speaking}
    IN /\ Words \subseteq {node.at : node \in says}
       /\ \A node \in says : node.says = taken[node.at]
=============================================================================
