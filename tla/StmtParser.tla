---------------------------- MODULE StmtParser ----------------------------
(***************************************************************************)
(* The parser of statements: Statement::parse_impl and the classes of      *)
(* parser/statements, with the static flag by which they know that they    *)
(* are in a loop.  At this commit no parser is registered for Expr, VarDecl*)
(* and DeclStmt, so that a statement with a condition or a declaration     *)
(* ends the program; what would follow is left out.                        *)
(***************************************************************************)
EXTENDS ExprParser

VARIABLE inside_loop

EnterLoop == inside_loop' = TRUE

Parsed == outcome = "parsing" /\ todo = <<>>

\* A loop that tests for the end of the list finds it.
AtEnd(does) == Running /\ Doing.does = does /\ ended /\ tokens = <<>>

-----------------------------------------------------------------------------
(* Statement::parse_impl.                                                  *)

NoLoop == UNCHANGED inside_loop

\* The semicolon is left for the caller.
ParseEmpty == At("Statement") /\ Peek = ";"
  /\ Push(EmptyStmt) /\ Return /\ UNCHANGED <<outcome, tokenVars>> /\ NoLoop

ParseStruct == At("Statement") /\ Peek = "struct" /\ NoLoop /\
  IF Peek3 = "{" THEN NoParser ELSE Then(Expr(Comma)) /\ Silent /\ UNCHANGED tokenVars

ParseReturn == At("Statement") /\ Peek = "return"
  /\ Take(1) /\ Then(<<DoWith("Return value", Here)>>) /\ Silent /\ NoLoop

ReturnValue == At("Return value") /\ UNCHANGED <<outcome, tokenVars>> /\ NoLoop /\
  IF Peek = ";" THEN Push(ReturnStmt(Doing.op, EmptyExpr)) /\ Return
  ELSE Then(Expr(Comma) \o <<DoWith("Return", Doing.op)>>) /\ UNCHANGED built

BuildReturn == At("Return")
  /\ Replace(1, ReturnStmt(Doing.op, built[1])) /\ Return /\ UNCHANGED <<outcome, tokenVars>>
  /\ NoLoop

\* Fault: break and continue may stand anywhere.
ParseJumpAnywhere == At("Statement") /\ Peek \in {"break", "continue"} /\ NoLoop
  /\ Take(1) /\ Then(<<DoWith("Jump", Here)>>) /\ Silent

\* break and continue.
ParseJump == At("Statement") /\ Peek \in {"break", "continue"} /\ NoLoop /\
  IF inside_loop THEN Take(1) /\ Then(<<DoWith("Jump", Here)>>) /\ Silent ELSE Fail

\* They are placed where the next token is.
BuildJump == At("Jump")
  /\ Push(IF Doing.op.is = "break" THEN BreakStmt(Here.at) ELSE ContinueStmt(Here.at))
  /\ Return /\ UNCHANGED <<outcome, tokenVars>> /\ NoLoop

ParseVariable == At("Statement") /\ Peek \in TypeSpecifiers \union kIdentity
  /\ NoParser /\ NoLoop

ParseExprStmt == At("Statement")
  /\ Peek \notin {";", "struct", "return", "break", "continue", "if", "do", "while", "for"}
       \union TypeSpecifiers \union kIdentity
  /\ Then(Expr(Comma)) /\ Silent /\ UNCHANGED tokenVars /\ NoLoop

-----------------------------------------------------------------------------
(* Loops and if.  Entry to a loop is noted before its keyword is consumed.  *)

If == At("Statement") /\ Peek = "if"
  /\ Take(1) /\ Then(<<Do("Condition"), Do("Body")>>) /\ Silent /\ NoLoop

ParseDo == At("Statement") /\ Peek = "do" /\ EnterLoop
  /\ Take(1) /\ Then(<<Do("Body"), Do("Do while")>>) /\ Silent

DoWhile == At("Do while")
  /\ Expect("while", <<Do("Condition"), Do("Exit loop")>>) /\ NoLoop

While == At("Statement") /\ Peek = "while" /\ EnterLoop
  /\ Take(1) /\ Then(<<Do("Condition"), Do("Body"), Do("Exit loop")>>) /\ Silent

For == At("Statement") /\ Peek = "for" /\ EnterLoop
  /\ Take(1) /\ Then(<<Do("For")>>) /\ Silent

\* The scope of the loop is never found.
EnterFor == At("For") /\ NoLoop /\
  IF Peek = "(" /\ ~enter_scope_finds THEN Fatal ELSE Fail

ParseCondition == At("Condition") /\ NoLoop /\ IF Peek = "(" THEN NoParser ELSE Fail

\* ParseBodyStatement.  A block needs a scope, which is never found.
Body == At("Body") /\ NoLoop /\
  IF Peek = "{" /\ ~enter_scope_finds THEN Fatal
  ELSE Then(<<Do("Statement"), Do("End of body")>>) /\ Silent /\ UNCHANGED tokenVars

EndOfBody == At("End of body") /\ NoLoop /\
  IF Peek = ";" THEN /\ Take(1) /\ Return /\ UNCHANGED outcome
                     /\ Replace(1, CompoundStmt(built[1].at, <<built[1]>>))
  ELSE Fail

-----------------------------------------------------------------------------
(* CompoundStatement::parse_impl; n statements have been parsed.           *)

Block == At("Block") /\ Expect("{", <<Item("Statements", 0, 0, Here)>>) /\ NoLoop

Statements == At("Statements") /\ UNCHANGED outcome /\ NoLoop /\
  IF Peek = "}"
  THEN Take(1) /\ Replace(Doing.n, CompoundStmt(Doing.op.at, Newest(Doing.n))) /\ Return
  ELSE /\ Then(<<Do("Statement"), Item("Semicolon", Doing.n + 1, 0, Doing.op)>>)
       /\ UNCHANGED <<built, tokenVars>>

\* None of the statements that would need no semicolon is ever built.
Semicolon == At("Semicolon")
  /\ Expect(";", <<Item("Statements", Doing.n, 0, Doing.op)>>) /\ NoLoop

Unmatched == AtEnd("Statements") /\ Fail /\ NoLoop

ParseStmt ==
  \/ ParseEmpty \/ ParseStruct \/ ParseReturn \/ ReturnValue \/ BuildReturn
  \/ ParseJump \/ BuildJump \/ ParseVariable \/ ParseExprStmt
  \/ If \/ ParseDo \/ DoWhile \/ While \/ For \/ EnterFor \/ ParseCondition \/ Body \/ EndOfBody
  \/ Block \/ Statements \/ Semicolon \/ Unmatched
=============================================================================
