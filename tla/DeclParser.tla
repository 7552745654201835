---------------------------- MODULE DeclParser ----------------------------
(***************************************************************************)
(* The parser of declarations (decl_parser.cc and get_base_type in         *)
(* common_utils.h) and the loop over a file (syntax_impl.cc).  No variable *)
(* or function is ever entered in the unit, so that the tests of earlier   *)
(* declarations of a function find none; a base type is never a pointer or *)
(* an array.                                                               *)
(***************************************************************************)
EXTENDS StmtParser

SameUnit == UNCHANGED unitVars

\* DeclStatement::parse_impl.
Declaration == At("Declaration") /\ SameUnit /\
  IF Peek3 # "{" \/ Peek \notin {"struct", "enum", "union"}
  THEN Then(<<Do("Base type"), Do("Declared")>>) /\ Silent /\ UNCHANGED tokenVars
  ELSE IF Peek = "struct" THEN Then(<<Do("Struct")>>) /\ Silent /\ UNCHANGED tokenVars
  ELSE Fail

Declared == At("Declared") /\ SameUnit /\
  IF Peek = "*" THEN Fail
  ELSE IF Peek2 = "(" THEN Then(<<Do("Function")>>) /\ Silent /\ UNCHANGED tokenVars
  ELSE NoParser

-----------------------------------------------------------------------------
(* get_base_type, which leaves a type among the nodes.                     *)

BaseType == At("Base type") /\ SameUnit /\
  IF Popped.is \in {"enum", "union", "struct"}
  THEN Pop /\ Then(<<Do("Tag")>>) /\ Silent
  ELSE IF Popped.is \in PrimitiveTypes
  THEN Pop /\ Then(<<DoWith("Specifiers", Popped)>>) /\ Silent
  ELSE Fail

\* Types of more than one word are not supported.
Specifiers == At("Specifiers") /\ SameUnit /\
  IF Peek \in TypeSpecifiers THEN Fatal
  ELSE Push(Type(Doing.op)) /\ Return /\ UNCHANGED <<outcome, tokenVars>>

\* The type is new: one that was defined is refused, and qualifiers, those of the
\* type or any set aside before, end the program.
Tag == At("Tag") /\
  IF Peek \notin kIdentity \/ has_type(Peek) THEN Fail /\ SameUnit
  ELSE IF ~CanAddStruct(Peek, cached) THEN Fatal /\ SameUnit
  ELSE /\ add_struct_type(Peek) /\ TakeCache(1)
       /\ Push(Type(Here)) /\ Return /\ UNCHANGED outcome

\* parse_type: a name, perhaps with [], for the type that was parsed last.
Declarator == At("Declarator") /\ SameUnit /\
  IF Peek \in kIdentity
  THEN /\ Take(1) /\ Replace(1, VarPack(Here, built[1])) /\ Then(<<Do("Brackets")>>)
       /\ UNCHANGED outcome
  ELSE Fail

Brackets == At("Brackets") /\ SameUnit /\ Silent /\
  IF Peek = "[" THEN Take(1) /\ Then(<<Do("Array size")>>) ELSE Return /\ UNCHANGED tokenVars

ArraySize == At("Array size") /\ SameUnit /\
  IF Peek = "]" THEN Take(1) /\ Return /\ Silent ELSE NoParser

-----------------------------------------------------------------------------
(* parse_func; n parameters have been parsed and op is the name.           *)

\* Whatever stands before the parenthesis is the name.
Function == At("Function") /\ SameUnit /\
  IF at_root THEN Pop /\ Then(<<DoWith("Parameter list", Popped)>>) /\ Silent ELSE Fail

ParameterList == At("Parameter list") /\ SameUnit
  /\ Expect("(", <<DoWith("First parameter", Doing.op)>>)

FirstParameter == At("First parameter") /\ SameUnit /\
  IF Peek = "," THEN Fail
  ELSE Then(<<DoWith("Parameters", Doing.op)>>) /\ Silent /\ UNCHANGED tokenVars

AParameter ==
  Then(<<Do("Base type"), Do("Declarator"), Item("Parameter", Doing.n + 1, 0, Doing.op)>>)

Parameters == At("Parameters") /\ SameUnit /\
  \/ Peek = ")" /\ Take(1) /\ Then(<<Item("After parameters", Doing.n, 0, Doing.op)>>) /\ Silent
  \/ Peek = "," /\ Take(1) /\ AParameter /\ Silent
  \/ Peek \notin {")", ","} /\ Doing.n = 0 /\ AParameter /\ Silent /\ UNCHANGED tokenVars
  \/ Peek \notin {")", ","} /\ Doing.n > 0 /\ Fail

BuildParameter == At("Parameter") /\ SameUnit
  /\ Replace(1, ParamVarDecl(built[1])) /\ UNCHANGED <<outcome, tokenVars>>
  /\ Then(<<Item("Parameters", Doing.n, 0, Doing.op)>>)

\* The function is known from n nodes, and its type before them.
BuildFunction(n) == Replace(n + 1, FuncDeclStmt(Doing.op, Newest(n + 1)))

AfterParameters == At("After parameters") /\
  \/ /\ Peek = "{"
     /\ create_func(Doing.op.is) /\ Silent /\ UNCHANGED tokenVars
     /\ Then(<<Do("Block"), Item("Function body", Doing.n, 0, Doing.op)>>)
  \/ /\ Peek = ";"
     /\ Take(1) /\ BuildFunction(Doing.n) /\ Return /\ UNCHANGED outcome /\ SameUnit
  \/ Peek \notin {"{", ";"} /\ Fail /\ SameUnit

FunctionBody == At("Function body")
  /\ BuildFunction(Doing.n + 1) /\ leave_scope /\ Return /\ UNCHANGED <<outcome, tokenVars>>

-----------------------------------------------------------------------------
(* parse_struct; n fields have been parsed and op is the name.             *)

Struct == At("Struct") /\ SameUnit /\ Expect("struct", <<Do("Struct name")>>)

StructName == At("Struct name") /\ SameUnit /\
  IF Peek \in kIdentity THEN Take(1) /\ Then(<<DoWith("Struct body", Here)>>) /\ Silent ELSE Fail

\* The type is added before its fields are known.
StructBody == At("Struct body") /\
  IF Peek # "{" THEN Fail /\ SameUnit
  ELSE IF ~CanAddStruct(Doing.op.is, cached) THEN Fatal /\ SameUnit
  ELSE /\ TakeCache(1) /\ add_struct_type(Doing.op.is)
       /\ Then(<<DoWith("Fields", Doing.op)>>) /\ Silent

\* Fault: the fields are not added to the struct.
AFieldUncounted ==
  <<Do("Base type"), Do("Declarator"), Item("Field end", Doing.n, 0, Doing.op)>>

AField == <<Do("Base type"), Do("Declarator"), Item("Field end", Doing.n + 1, 0, Doing.op)>>

Fields == At("Fields") /\ SameUnit /\ UNCHANGED outcome /\
  \/ Peek = "}" /\ Take(1) /\ Replace(Doing.n, RecordDecl(Doing.op, Newest(Doing.n))) /\ Return
  \/ /\ Peek = "struct" /\ Peek3 = "{" /\ UNCHANGED <<built, tokenVars>>
     /\ Then(<<Do("Struct"), Item("Fields", Doing.n + 1, 0, Doing.op)>>)
  \/ /\ Peek # "}" /\ ~(Peek = "struct" /\ Peek3 = "{")
     /\ Then(AField) /\ UNCHANGED <<built, tokenVars>>

\* After a comma the type must be given again.
FieldEnd == At("Field end") /\ SameUnit /\
  \/ /\ Peek \in {",", ";"}
     /\ Take(1) /\ Replace(1, FieldDecl(built[1])) /\ UNCHANGED outcome
     /\ Then(IF Peek = "," THEN AField ELSE <<Item("Fields", Doing.n, 0, Doing.op)>>)
  \/ Peek \notin {",", ";"} /\ Fail

-----------------------------------------------------------------------------
(* GenerateAST.  No parser is registered for a declaration.                *)

\* Fault: the semicolon is not popped.
FileKept == At("File") /\ SameUnit /\
  IF Peek = ";" THEN UNCHANGED <<todo, built, outcome, tokenVars>> ELSE NoParser

File == At("File") /\ SameUnit /\
  IF Peek = ";" THEN Take(1) /\ UNCHANGED <<todo, built, outcome>> ELSE NoParser

EndOfFile == AtEnd("File") /\ Return /\ Silent /\ UNCHANGED tokenVars /\ SameUnit

ParseDecl ==
  \/ Declaration \/ Declared \/ BaseType \/ Specifiers \/ Tag \/ Declarator \/ Brackets \/ ArraySize
  \/ Function \/ ParameterList \/ FirstParameter \/ Parameters \/ BuildParameter
  \/ AfterParameters \/ FunctionBody
  \/ Struct \/ StructName \/ StructBody \/ Fields \/ FieldEnd
  \/ File \/ EndOfFile
=============================================================================
