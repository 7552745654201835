----------------------------- MODULE CGrammar -----------------------------
(***************************************************************************)
(* A reference for the parser of expressions: the tree of an expression    *)
(* of C, told from where its operators stand and how tightly they bind and *)
(* not by recursive descent.  All binary operators are grouped from the    *)
(* right, as the parser does.  A token is its spelling and its place.      *)
(***************************************************************************)
EXTENDS SyntaxTree, SequencesExt

\* Binary operators, the loosest first, and the class of their nodes.
Precedence ==
  << <<{","}, "CommaExpr">>,
     <<{"=", "+=", "-=", "*=", "/=", "%=", "<<=", ">>=", "&=", "^=", "|="}, "AssignExpr">>,
     <<{"?"}, "TernaryExpr">>,
     <<{"||"}, "LogicalExpr">>, <<{"&&"}, "LogicalExpr">>,
     <<{"|"}, "BitwiseExpr">>, <<{"^"}, "BitwiseExpr">>, <<{"&"}, "BitwiseExpr">>,
     <<{"==", "!="}, "RelationalExpr">>, <<{"<", "<=", ">", ">="}, "RelationalExpr">>,
     <<{"<<", ">>"}, "BitwiseExpr">>,
     <<{"+", "-"}, "ArithmeticExpr">>, <<{"*", "/", "%"}, "ArithmeticExpr">> >>

Opening == {"(", "[", "?"}
Closing == {")", "]", ":"}

\* How many brackets are open in front of the i-th token; ? and : are brackets.
Depth(ts, i) == Cardinality({j \in 1 .. i - 1 : ts[j].is \in Opening})
              - Cardinality({j \in 1 .. i - 1 : ts[j].is \in Closing})

\* The partner of the bracket at i.
Partner(ts, i) ==
  CHOOSE j \in i + 1 .. Len(ts) : /\ ts[j].is \in Closing /\ Depth(ts, j) = Depth(ts, i) + 1
                                  /\ \A k \in i + 1 .. j - 1 : Depth(ts, k) > Depth(ts, i)

\* The parenthesis at i holds a type.
HoldsType(ts, i) == ts[i].is = "(" /\ ts[i + 1].is \in {"int", "struct"}

\* An operand ends at i: what follows is a binary operator or a suffix.
RECURSIVE EndsOperand(_, _)
EndsOperand(ts, i) ==
  /\ i > 0
  /\ \/ ts[i].is \in {"x", "y", "z", "1", "\"s\"", "]"}
     \/ ts[i].is \in {"++", "--"} /\ EndsOperand(ts, i - 1)
     \/ ts[i].is = ")" /\ \A j \in 1 .. i - 1 :
          (ts[j].is = "(" /\ Partner(ts, j) = i /\ HoldsType(ts, j))
            => j > 1 /\ ts[j - 1].is = "sizeof"

\* Where the operators of a level stand outside all brackets.
Splits(ts, level) ==
  {i \in 2 .. Len(ts) : /\ ts[i].is \in Precedence[level][1]
                        /\ Depth(ts, i) = 0 /\ EndsOperand(ts, i - 1)}

Between(ts, i, j) == SubSeq(ts, i + 1, j - 1)
After(ts, i) == SubSeq(ts, i + 1, Len(ts))

\* The type in the parentheses at i.
TypeAt(ts, i) ==
  LET named == IF ts[i + 1].is = "struct" THEN i + 2 ELSE i + 1
      pointed[n \in Nat] == IF n = 0 THEN Type(ts[named]) ELSE PointerTo(pointed[n - 1])
  IN TypeProxyExpr(ts[i + 1].at, pointed[Partner(ts, i) - named - 1])

\* The parts of a list of arguments, between ( at i and its partner.
Commas(ts, i) == {j \in i + 1 .. Partner(ts, i) - 1 : ts[j].is = "," /\ Depth(ts, j) = Depth(ts, i) + 1}

RECURSIVE Tree(_)

Arguments(ts, i) ==
  LET ends == SetToSortSeq(Commas(ts, i) \union {i, Partner(ts, i)}, <)
  IN IF Partner(ts, i) = i + 1 THEN <<>>
     ELSE [k \in 1 .. Len(ends) - 1 |-> Tree(Between(ts, ends[k], ends[k + 1]))]

\* An expression without binary operators.
Unary(ts) ==
  LET first == ts[1]  last == ts[Len(ts)] IN
  CASE first.is \in {"-", "*", "&", "~", "!", "++", "--"} ->
         LET operand == Tree(Tail(ts)) IN
         IF first.is \in {"++", "--"}
         THEN Node("UnaryOperator", IF first.is = "++" THEN "PRE_INC" ELSE "PRE_DEC", first.at, <<operand>>)
         ELSE Node("UnaryOperator", UnaryType[first.is], first.at, <<operand>>)
    [] first.is = "sizeof" ->
         SizeofExpr(first, IF HoldsType(ts, 2) THEN TypeAt(ts, 2) ELSE Tree(Tail(ts)))
    [] first.is = "(" /\ HoldsType(ts, 1) ->
         ExplicitCastExpr(first.at, Tree(After(ts, Partner(ts, 1))), TypeAt(ts, 1))
    [] first.is = "(" /\ ~HoldsType(ts, 1) /\ Partner(ts, 1) = Len(ts) -> Tree(Between(ts, 1, Len(ts)))
    [] first.is \in {"x", "y", "z"} /\ Len(ts) = 1 -> DeclRefExpr(first)
    [] first.is \in {"x", "y", "z"} /\ Len(ts) > 1 /\ ts[2].is = "(" /\ Partner(ts, 2) = Len(ts) ->
         FuncCallStmt(first, Arguments(ts, 2))
    [] first.is \in {"1", "\"s\""} /\ \A i \in 2 .. Len(ts) : ts[i].is = "\"s\"" -> LiteralExpr(first)
    [] OTHER ->
         IF last.is = "]"
         THEN LET open == CHOOSE i \in 1 .. Len(ts) : ts[i].is = "[" /\ Partner(ts, i) = Len(ts)
              IN ArraySubscriptExpr(ts[open], Tree(SubSeq(ts, 1, open - 1)), Tree(Between(ts, open, Len(ts))))
         ELSE Node("UnaryOperator", IF last.is = "++" THEN "POST_INC" ELSE "POST_DEC", last.at,
                   <<Tree(SubSeq(ts, 1, Len(ts) - 1))>>)

\* An expression is split at the first of its loosest operators.
Tree(ts) ==
  LET levels == {n \in DOMAIN Precedence : Splits(ts, n) # {}} IN
  IF levels = {} THEN Unary(ts)
  ELSE LET level == Min(levels)
           i == Min(Splits(ts, level))
           left == Tree(SubSeq(ts, 1, i - 1))
       IN IF Precedence[level][2] = "TernaryExpr"
          THEN TernaryExpr(ts[i], left, Tree(Between(ts, i, Partner(ts, i))), Tree(After(ts, Partner(ts, i))))
          ELSE Binary(Precedence[level][2], ts[i], left, Tree(After(ts, i)))
=============================================================================
