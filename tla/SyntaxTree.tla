----------------------------- MODULE SyntaxTree -----------------------------
(***************************************************************************)
(* The nodes of the syntax tree and what their constructors make of the    *)
(* parser's arguments (ast/Stmt.h, ast/expr).  A node is its class, what   *)
(* it says (an operator, a name, a literal), its place, and its children   *)
(* in the order of the class's members.  The constructors are those of a   *)
(* build without HZCC_ENABLE_RUNTIME_CHECK.                                *)
(***************************************************************************)
EXTENDS Integers, Sequences, TLC

\* What a node is built from besides its children: a spelling and a place.
Node(class, says, at, children) ==
  [class |-> class, says |-> says, at |-> at, children |-> children]

\* OperatorBase.
OperatorBase(class, says, at, lhs, rhs) == Node(class, says, at, <<lhs, rhs>>)

-----------------------------------------------------------------------------
(* Binary operators.                                                       *)

ArithmeticType == "+" :> "ADD" @@ "-" :> "SUB" @@ "*" :> "MUL" @@ "/" :> "DIV" @@ "%" :> "MOD"

ArithmeticExpr(op, lhs, rhs) ==
  OperatorBase("ArithmeticExpr", ArithmeticType[op.is], op.at, lhs, rhs)

\* The spelling of <<= is given as >>= by the table of operators (enums.h:141);
\* the lexer makes neither.
AssignType == "=" :> "ASSIGN" @@ "+=" :> "ADD" @@ "-=" :> "SUB" @@ "*=" :> "MUL"
  @@ "/=" :> "DIV" @@ "%=" :> "MOD" @@ "<<=" :> "RSHIFT" @@ ">>=" :> "RSHIFT"
  @@ "&=" :> "AND" @@ "|=" :> "OR" @@ "^=" :> "XOR"

AssignExpr(op, lhs, rhs) ==
  OperatorBase("AssignExpr", AssignType[op.is], op.at, lhs, rhs)

BitwiseType == "&" :> "AND" @@ "|" :> "OR" @@ "^" :> "XOR" @@ "<<" :> "LSHIFT" @@ ">>" :> "RSHIFT"

\* The constructor hands its operands to the base class the other way round.
BitwiseExpr(op, left_expr, right_expr) ==
  OperatorBase("BitwiseExpr", BitwiseType[op.is], op.at, right_expr, left_expr)

LogicalType == "&&" :> "AND" @@ "||" :> "OR"

LogicalExpr(op, lhs, rhs) ==
  OperatorBase("LogicalExpr", LogicalType[op.is], op.at, lhs, rhs)

RelationalType == "==" :> "EQ" @@ "!=" :> "NE" @@ "<" :> "LT" @@ "<=" :> "LE"
  @@ ">" :> "GT" @@ ">=" :> "GE"

RelationalExpr(op, lhs, rhs) ==
  OperatorBase("RelationalExpr", RelationalType[op.is], op.at, lhs, rhs)

\* So does the comma, whose type is that of its first child.
CommaExpr(op, lhs, rhs) == OperatorBase("CommaExpr", "", op.at, rhs, lhs)

\* The constructor that a level of the grammar calls, by its class.
Binary(class, op, lhs, rhs) ==
  CASE class = "ArithmeticExpr" -> ArithmeticExpr(op, lhs, rhs)
    [] class = "AssignExpr"     -> AssignExpr(op, lhs, rhs)
    [] class = "BitwiseExpr"    -> BitwiseExpr(op, lhs, rhs)
    [] class = "LogicalExpr"    -> LogicalExpr(op, lhs, rhs)
    [] class = "RelationalExpr" -> RelationalExpr(op, lhs, rhs)
    [] class = "CommaExpr"      -> CommaExpr(op, lhs, rhs)

-----------------------------------------------------------------------------
(* Other expressions.                                                      *)

UnaryType == "-" :> "SUB" @@ "&" :> "ADDR" @@ "*" :> "DEREF" @@ "!" :> "NOT" @@ "~" :> "BIT_NOT"

\* Whether ++ stands before or after its operand is told by their places, which
\* are columns of one line here.
UnaryOperator(op, expr) ==
  Node("UnaryOperator",
       IF op.is \in {"++", "--"}
       THEN (IF op.at < expr.at THEN "PRE_" ELSE "POST_") \o (IF op.is = "++" THEN "INC" ELSE "DEC")
       ELSE UnaryType[op.is],
       op.at, <<expr>>)

TernaryExpr(op, cond, true_expr, false_expr) ==
  Node("TernaryExpr", "", op.at, <<cond, true_expr, false_expr>>)
SizeofExpr(op, expr) == Node("SizeofExpr", "", op.at, <<expr>>)
ExplicitCastExpr(at, expr, type) == Node("ExplicitCastExpr", "", at, <<expr, type>>)
ArraySubscriptExpr(op, array, subscript) == Node("ArraySubscriptExpr", "", op.at, <<array, subscript>>)
MemberExpr(isPtr, at, field, expr) ==
  Node("MemberExpr", IF isPtr THEN "->" ELSE ".", at, <<expr, Node("Field", field.is, field.at, <<>>)>>)
FuncCallStmt(ident, args) == Node("FuncCallStmt", ident.is, ident.at, args)
DeclRefExpr(ident) == Node("DeclRefExpr", ident.is, ident.at, <<>>)
LiteralExpr(value) == Node("LiteralExpr", value.is, value.at, <<>>)
EmptyExpr == Node("EmptyExpr", "", 0, <<>>)

\* A type, by the token that names it, a pointer to a type, and a type as an
\* expression.
Type(token) == Node("Type", token.is, token.at, <<>>)
PointerTo(type) == Node("PointerType", "*", type.at, <<type>>)
TypeProxyExpr(at, type) == Node("TypeProxyExpr", "", at, <<type>>)

-----------------------------------------------------------------------------
(* Statements and declarations.                                            *)

EmptyStmt == Node("EmptyStmt", "", 0, <<>>)
CompoundStmt(at, stmts) == Node("CompoundStmt", "", at, stmts)
ReturnStmt(token, expr) == Node("ReturnStmt", "", token.at, <<expr>>)
BreakStmt(at) == Node("BreakStmt", "", at, <<>>)
ContinueStmt(at) == Node("ContinueStmt", "", at, <<>>)

\* A declared name with its type, as parse_type returns it.
VarPack(name, type) == Node("VarPack", name.is, name.at, <<TypeProxyExpr(name.at, type)>>)
ParamVarDecl(decl) == Node("ParamVarDecl", decl.says, decl.at, decl.children)
FieldDecl(decl) == Node("FieldDecl", decl.says, decl.at, decl.children)
RecordDecl(name, fields) == Node("RecordDecl", name.is, name.at, fields)
\* The parts are its type, its parameters, and its body if it has one.
FuncDeclStmt(name, parts) ==
  Node("FuncDeclStmt", name.is, name.at, <<TypeProxyExpr(name.at, Head(parts))>> \o Tail(parts))
=============================================================================
