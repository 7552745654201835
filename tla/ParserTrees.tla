---------------------------- MODULE ParserTrees ----------------------------
(***************************************************************************)
(* What the trees that the parser builds have to do with the tokens that   *)
(* it was given.                                                           *)
(***************************************************************************)
EXTENDS ParserWords

C == INSTANCE CGrammar

Tokens == [i \in DOMAIN taken |-> [is |-> taken[i], at |-> i]]

Count(token) == Cardinality({i \in DOMAIN taken : taken[i] = token})

\* As many parentheses are closed as opened.  With more closed, a cast was taken
\* for one whose type is not in parentheses (ParseCastExpr).
Balanced == Count("(") = Count(")")

\* The expression of a return statement is the tree that C gives these tokens, but
\* for the grouping of equals: every operator has its operands, whatever unary
\* operators, casts, calls and parentheses stand around it, and what is no operator
\* of theirs is left for the caller (Statement::Parse*Expr).
TreeAsWritten ==
  (Parsed /\ Balanced /\ NoMember /\ built # <<>> /\ built[1].class = "ReturnStmt") =>
    built[1] = ReturnStmt(Head(Tokens),
                          IF Len(taken) = 1 THEN EmptyExpr ELSE C!Tree(Tail(Tokens)))

\* Operators of one precedence are grouped from the left, as the table of the
\* developers' documentation has it for + and -.
LeftAssociative ==
  (Parsed /\ Count("(") = 0) =>
    \A node \in Subtrees(Range(built)) :
      (node.class = "ArithmeticExpr" /\ node.says \in {"ADD", "SUB"}) =>
        node.children[2].says \notin {"ADD", "SUB"}
=============================================================================
