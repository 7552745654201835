----------------------------- MODULE ExprParser -----------------------------
(***************************************************************************)
(* The parser of expressions, Statement::Parse*Expr in statement_parser.cc.*)
(* Recursive calls are a stack of what is still to do; each action is what *)
(* a function does between two calls.  Nodes that are built wait on a      *)
(* second stack for the function that called.                              *)
(***************************************************************************)
EXTENDS TokenList, SyntaxTree, CompilationUnit

VARIABLES todo,     \* what is left to do, first things first
          built,    \* nodes that were returned, the last one first
          outcome   \* "parsing" until something ends the parse early

controlVars == <<todo, built, outcome>>

NoToken == [is |-> "", at |-> 0]

\* A thing to do; n and m are numbers and op the token it needs later.
Item(does, n, m, op) == [does |-> does, n |-> n, m |-> m, op |-> op]
Do(does) == Item(does, 0, 0, NoToken)
DoWith(does, op) == Item(does, 0, 0, op)

Doing == Head(todo)

\* What only builds, and what pops without a look at the token.
Builds == {"Rhs", "Ternary", "Unary operator", "Sizeof", "Cast operator", "Return", "Parameter",
           "Function body"}
Pops == {"Type name", "Type tag", "Member", "Base type", "Function"}

\* How many tokens the thing to do looks at.
Reads ==
  LET front == IF tokens = <<>> THEN "" ELSE Peek IN
  CASE Doing.does \in Builds -> 0
    [] Doing.does \in Pops ->
         IF PopsAt # 0 THEN PopsAt ELSE Len(tokens) + 1
    [] Doing.does = "Declaration" -> 3
    [] Doing.does \in {"Statement", "Fields"} /\ front = "struct" -> 3
    [] \/ Doing.does = "Sizeof operand" /\ front = "("
       \/ Doing.does = "Cast" /\ front \notin Qualifiers \union {")"}
       \/ Doing.does = "Argument" /\ front = ","
       \/ Doing.does = "Declared" /\ front \notin Qualifiers \union {"*"} -> 2
    [] OTHER -> 1

\* The first token is peeked at; of a declaration, only when it has a body.
Peeks == /\ Doing.does \notin Builds \union Pops
         /\ Doing.does = "Declaration" => Peek3 = "{"

Running == outcome = "parsing" /\ todo # <<>>
Readable == Len(tokens) >= Reads
At(does) == Running /\ Doing.does = does /\ Readable /\ (Peeks => PeekReturns)

Then(items) == todo' = items \o Tail(todo)
Return == Then(<<>>)

\* The node on top of built makes way for one that is made of it, or more.
Replace(n, node) == built' = <<node>> \o SubSeq(built, n + 1, Len(built))
Push(node) == Replace(0, node)
\* The last n nodes in the order in which they were built.
Newest(n) == Reverse(SubSeq(built, 1, n))

Silent == UNCHANGED <<built, outcome>>

\* An error is returned.  Every caller but those that only pass a result on
\* checks it with HZCC_CHECK_OR_ASSIGN, which ends the program (module
\* StatusOr, CheckOrAssign).
Fail == /\ outcome' = IF Tail(todo) = <<>> THEN "error" ELSE "aborted"
        /\ UNCHANGED <<todo, built, tokenVars>>

Fatal == outcome' = "aborted" /\ UNCHANGED <<todo, built, tokenVars>>

\* Parser::Parse of a class that has no parser in the map (parser_factory.h:45).
NoParser == outcome' = "no parser" /\ UNCHANGED <<todo, built, tokenVars>>

\* HZCC_CheckAndConsume_ReturnErr, as the first thing to do.
Expect(token, items) ==
  IF Peek = token THEN Take(1) /\ Then(items) /\ Silent ELSE Fail

-----------------------------------------------------------------------------
(* The levels of binary operators: which operators, and what is built.     *)

Level(operators, class) == [operators |-> operators, class |-> class]

ParseCommaExpr == Level({","}, "CommaExpr")
ParseAssignExpr ==
  Level({"=", "+=", "-=", "*=", "/=", "%=", "<<=", ">>=", "&=", "^=", "|="}, "AssignExpr")
ParseConditionalExpr == Level({"?"}, "TernaryExpr")
ParseLogicalOrExpr == Level({"||"}, "LogicalExpr")
ParseLogicalAndExpr == Level({"&&"}, "LogicalExpr")
ParseBitwiseOrExpr == Level({"|"}, "BitwiseExpr")
ParseBitwiseXorExpr == Level({"^"}, "BitwiseExpr")
ParseBitwiseAndExpr == Level({"&"}, "BitwiseExpr")
ParseEqualityExpr == Level({"==", "!="}, "RelationalExpr")
ParseRelationalExpr == Level({"<", ">", "<=", ">="}, "RelationalExpr")
ParseShiftExpr == Level({"<<", ">>"}, "BitwiseExpr")
ParseAdditiveExpr == Level({"+", "-"}, "ArithmeticExpr")
ParseMultiplicativeExpr == Level({"*", "/", "%"}, "ArithmeticExpr")

\* Fault: equality binds tighter than the other relations.
LevelsEqualityLast ==
  <<ParseCommaExpr, ParseAssignExpr, ParseConditionalExpr, ParseLogicalOrExpr,
    ParseLogicalAndExpr, ParseBitwiseOrExpr, ParseBitwiseXorExpr,
    ParseBitwiseAndExpr, ParseRelationalExpr, ParseEqualityExpr, ParseShiftExpr,
    ParseAdditiveExpr, ParseMultiplicativeExpr>>

\* Each level calls the next one.
Levels == <<ParseCommaExpr, ParseAssignExpr, ParseConditionalExpr, ParseLogicalOrExpr,
            ParseLogicalAndExpr, ParseBitwiseOrExpr, ParseBitwiseXorExpr,
            ParseBitwiseAndExpr, ParseEqualityExpr, ParseRelationalExpr, ParseShiftExpr,
            ParseAdditiveExpr, ParseMultiplicativeExpr>>

Comma == 1
Assign == 2
Conditional == 3

\* The functions of the levels from n on have called each other down to the
\* unary operators; on the way back each looks for one of its operators.
Expr(n) == <<Do("Unary"), Item("Lhs", n, Len(Levels), NoToken)>>

\* The levels below n have found none of theirs, or have built their node.
Outer(n) == IF n = Doing.n THEN <<>> ELSE <<Item("Lhs", Doing.n, n - 1, NoToken)>>

Found == {n \in Doing.n .. Doing.m : Peek \in Levels[n].operators}

NoOperator == At("Lhs") /\ Found = {} /\ Return /\ Silent /\ UNCHANGED tokenVars

\* Each level calls itself for its right operand.
Operator == At("Lhs") /\ \E n \in Found :
  /\ Take(1) /\ Silent
  /\ Then((IF n = Conditional THEN Expr(Conditional) \o <<DoWith("Colon", Here)>>
           ELSE Expr(n) \o <<Item("Rhs", n, 0, Here)>>) \o Outer(n))

BuildBinary == At("Rhs") /\
  /\ Replace(2, Binary(Levels[Doing.n].class, Doing.op, built[2], built[1]))
  /\ Return /\ UNCHANGED <<outcome, tokenVars>>

Colon == At("Colon") /\ Expect(":", Expr(Conditional) \o <<DoWith("Ternary", Doing.op)>>)

BuildTernary == At("Ternary") /\
  /\ Replace(3, TernaryExpr(Doing.op, built[3], built[2], built[1]))
  /\ Return /\ UNCHANGED <<outcome, tokenVars>>

-----------------------------------------------------------------------------
(* Operators before their operand: ParseUnaryExpr.                         *)

PrefixOperators == {"-", "*", "&", "~", "!"}
Increments == {"++", "--"}

BuildUnary == At("Unary operator") /\
  /\ Replace(1, UnaryOperator(Doing.op, built[1]))
  /\ Return /\ UNCHANGED <<outcome, tokenVars>>

PrefixOperator == At("Unary") /\ Peek \in PrefixOperators
  /\ Take(1) /\ Then(<<Do("Cast"), DoWith("Unary operator", Here)>>) /\ Silent

PrefixIncrement == At("Unary") /\ Peek \in Increments
  /\ Take(1) /\ Then(<<Do("Unary"), DoWith("Unary operator", Here)>>) /\ Silent

Sizeof == At("Unary") /\ Peek = "sizeof"
  /\ Take(1) /\ Then(<<DoWith("Sizeof operand", Here)>>) /\ Silent

\* A type in parentheses, where struct is never seen: the test of it asks the
\* parenthesis.
SizeofOperand == At("Sizeof operand") /\ Silent /\
  IF Peek = "(" /\ is_primitive_type(Peek2)
  THEN Take(1) /\ Then(<<Do("Type name"), DoWith("Sizeof type", Doing.op)>>)
  ELSE Then(<<Do("Unary"), DoWith("Sizeof", Doing.op)>>) /\ UNCHANGED tokenVars

SizeofType == At("Sizeof type") /\ Expect(")", <<DoWith("Sizeof", Doing.op)>>)

BuildSizeof == At("Sizeof") /\
  /\ Replace(1, SizeofExpr(Doing.op, built[1]))
  /\ Return /\ UNCHANGED <<outcome, tokenVars>>

\* ParseCastExpr.  What stands before the type is not looked at, or is a closing
\* parenthesis.
Cast == At("Cast") /\ Silent /\
  IF Peek = ")" \/ is_primitive_type(Peek2)
  THEN Take(1) /\ Then(<<Do("Type name"), DoWith("Cast type", Here)>>)
  ELSE Then(<<Do("Unary")>>) /\ UNCHANGED tokenVars

CastType == At("Cast type") /\ Expect(")", <<Do("Cast"), DoWith("Cast operator", Doing.op)>>)

BuildCast == At("Cast operator") /\
  /\ Replace(2, ExplicitCastExpr(Doing.op.at, built[1], built[2]))
  /\ Return /\ UNCHANGED <<outcome, tokenVars>>

\* ParseTypeName.  A struct's name is known if its definition was seen; all other
\* named types are unknown.
TypeName == At("Type name") /\
  \/ /\ is_primitive_type(Popped.is)
     /\ Pop /\ Push(Type(Popped)) /\ Then(<<DoWith("Pointers", Popped)>>) /\ UNCHANGED outcome
  \/ /\ Popped.is \in {"struct", "enum"}
     /\ Pop /\ Then(<<DoWith("Type tag", Popped)>>) /\ Silent
  \/ ~is_primitive_type(Popped.is) /\ Popped.is \notin {"struct", "enum"} /\ Fail

TypeTag == At("Type tag") /\
  IF Doing.op.is = "struct" /\ has_type(Popped.is)
  THEN /\ Pop /\ Push(Type(Popped))
       /\ Then(<<DoWith("Pointers", Doing.op)>>) /\ UNCHANGED outcome
  ELSE Fail

Pointers == At("Pointers") /\ UNCHANGED outcome /\
  IF Peek = "*" THEN Take(1) /\ Replace(1, PointerTo(built[1])) /\ UNCHANGED todo
  ELSE Replace(1, TypeProxyExpr(Doing.op.at, built[1])) /\ Return /\ UNCHANGED tokenVars

-----------------------------------------------------------------------------
(* Operands and what may follow them: ParsePostfixExpr, ParseAccessExpr.   *)

\* An operand, then suffixes of any one kind.
Operand(item) == <<item, Do("Suffix")>>

Parenthesised == At("Unary") /\ Peek = "("
  /\ Take(1) /\ Then(Expr(Comma) \o Operand(Do("Close"))) /\ Silent

Close == At("Close") /\ Expect(")", <<>>)

Identifier == At("Unary") /\ Peek \in kIdentity
  /\ Take(1) /\ Then(Operand(DoWith("Call", Here))) /\ Silent

CallOrVariable == At("Call") /\ UNCHANGED outcome /\
  IF Peek = "(" THEN Take(1) /\ Then(<<DoWith("Arguments", Doing.op)>>) /\ UNCHANGED built
  ELSE Push(DeclRefExpr(Doing.op)) /\ Return /\ UNCHANGED tokenVars

\* n arguments have been parsed.
Arguments == At("Arguments") /\ UNCHANGED outcome /\
  IF Peek = ")" THEN Take(1) /\ Return /\ Replace(Doing.n, FuncCallStmt(Doing.op, Newest(Doing.n)))
  ELSE /\ Then(Expr(Assign) \o <<Item("Argument", Doing.n + 1, 0, Doing.op)>>)
       /\ UNCHANGED <<built, tokenVars>>

MoreArguments == Then(<<Item("Arguments", Doing.n, 0, Doing.op)>>) /\ Silent

AfterArgument == At("Argument") /\
  \/ Peek = ")" /\ MoreArguments /\ UNCHANGED tokenVars
  \/ Peek = "," /\ IF Peek2 = ")" THEN Fail ELSE Take(1) /\ MoreArguments
  \/ Peek \notin {")", ","} /\ Fail

Literal == At("Unary") /\ Peek \in Literals
  /\ Take(1) /\ Push(LiteralExpr(Here)) /\ Then(<<Do("Suffix")>>) /\ UNCHANGED outcome

\* String literals in a row are one.
StringLiteral == At("Unary") /\ Peek = Str_Lit
  /\ Take(1) /\ Push(LiteralExpr(Here)) /\ Then(Operand(Do("Strings"))) /\ UNCHANGED outcome

MoreStrings == At("Strings") /\ Silent /\
  IF Peek = Str_Lit THEN Take(1) /\ UNCHANGED todo ELSE Return /\ UNCHANGED tokenVars

TermExpected == At("Unary") /\ Fail /\ Peek \notin
  PrefixOperators \union Increments \union {"sizeof", "("} \union kIdentity \union Literals \union {Str_Lit}

\* The kinds of suffixes; n is the kind that was met first, after which the
\* others end the operand.
Kinds == <<{"["}, {".", "->"}, Increments>>
Kind == {k \in 1 .. 3 : Doing.n \in {0, k} /\ Peek \in Kinds[k]}

More(k) == Item("Suffix", k, 0, NoToken)

NoSuffix == At("Suffix") /\ Kind = {} /\ Return /\ Silent /\ UNCHANGED tokenVars

Subscript == At("Suffix") /\ Kind = {1}
  /\ Take(1) /\ Silent
  /\ Then(Expr(Comma) \o <<DoWith("Subscript", Here), More(1)>>)

EndSubscript == At("Subscript") /\
  IF Peek = "]" THEN /\ Take(1) /\ Return /\ UNCHANGED outcome
                     /\ Replace(2, ArraySubscriptExpr(Doing.op, built[2], built[1]))
  ELSE Fail

Member == At("Suffix") /\ Kind = {2}
  /\ Take(1) /\ Then(<<DoWith("Member", Here), More(2)>>) /\ Silent

\* Whatever follows the . or -> is taken for it.
MemberOperator == At("Member")
  /\ Pop /\ Silent
  /\ Then(<<Item("Field", IF Popped.is = "->" THEN 1 ELSE 0, 0, Doing.op)>>)

Field == At("Field") /\
  IF Peek \in kIdentity
  THEN /\ Take(1) /\ Return /\ UNCHANGED outcome
       /\ Replace(1, MemberExpr(Doing.n = 1, Doing.op.at, Here, built[1]))
  ELSE Fail

PostfixIncrement == At("Suffix") /\ Kind = {3}
  /\ Take(1) /\ Replace(1, UnaryOperator(Here, built[1])) /\ Then(<<More(3)>>) /\ UNCHANGED outcome

-----------------------------------------------------------------------------

ParseExpr ==
  \/ NoOperator \/ Operator \/ BuildBinary \/ Colon \/ BuildTernary
  \/ PrefixOperator \/ PrefixIncrement \/ BuildUnary
  \/ Sizeof \/ SizeofOperand \/ SizeofType \/ BuildSizeof
  \/ Cast \/ CastType \/ BuildCast \/ TypeName \/ TypeTag \/ Pointers
  \/ Parenthesised \/ Close \/ Identifier \/ CallOrVariable \/ Arguments \/ AfterArgument
  \/ Literal \/ StringLiteral \/ MoreStrings \/ TermExpected
  \/ NoSuffix \/ Subscript \/ EndSubscript \/ Member \/ MemberOperator \/ Field
  \/ PostfixIncrement
=============================================================================
