--------------------------- MODULE ExpressionCode ---------------------------
(***************************************************************************)
(* The expression visitors of Hzcc::Codegen::JVMGenerator and the visitors *)
(* of the statements that hold an expression: a function is analysed, then *)
(* its statements are generated one after another, and the instructions of *)
(* each are run before the next is generated.  The visitors talk to each   *)
(* other through three flags, a stack of variable names and the hint of a  *)
(* comparison, and through what they leave on the operand stack.           *)
(***************************************************************************)
EXTENDS FuncAnalyzer, TLC

CONSTANTS
    Params,        \* the parameters of a function, with their types
    Stmts,         \* the statements a body may have
    Functions,     \* the functions that are called, with their parameters
    Known,         \* those that _function_table has
    MaxStmts       \* bound on the statements of all functions together

ASSUME CallsAssumption == Known \subseteq DOMAIN Functions /\ MaxStmts \in Nat

VARIABLES
    phase,     \* what is done with the function, or how it ended
    body,      \* the statements of the function
    result,    \* the type it returns
    made,      \* how many statements there are in all functions
    analyzer,  \* the FuncAnalyzer of the function
    stmt,      \* the statement being generated or run
    names,     \* _return_stack
    hint,      \* _prevOpType, by how many operands its branch takes
    code,      \* the instructions of the statement
    pc,        \* the next of them to run
    machine    \* the JVM that runs them

genVars == <<phase, body, result, made, analyzer, stmt, names, hint>>
runVars == <<code, pc, machine>>
vars == <<localVars, genVars, runVars>>

-----------------------------------------------------------------------------
(* The visitors.  g is what they change: the instructions so far, the      *)
(* names and the hint.  The context c has the flags _generate_load,        *)
(* _request_leave and _under_compare, which the macros restore.            *)

Flags == NoContext @@ [compare |-> FALSE]
Comparing(c) == [c EXCEPT !.compare = TRUE]
Wanted(c) == c.leave \/ c.compare
Loaded(c) == c.load \/ c.compare

AddToCache(g, instr) == [g EXCEPT !.code = Append(@, instr)]
AddIf(condition, g, instr) == IF condition THEN AddToCache(g, instr) ELSE g
PushReturnStack(g, name) == [g EXCEPT !.names = Append(@, name)]
ConsumeReturnStack(g) == [g EXCEPT !.names = SubSeq(@, 1, Len(@) - 1)]
NameOnTop(g) == g.names[Len(g.names)]
PushConstVal(value, type) == Push(Const(value, type))

RECURSIVE Gen(_, _, _), GenArgs(_, _, _)

\* HZCC_JVM_Use_Deduced_IF_POSSIBLE.
GenDeduced(e, c, g) ==
    IF Deduced(e)
    THEN AddIf(c.leave, g, PushConstVal(Constant(e), e.type))
    ELSE Gen(e, c, g)

GenDeclRef(e, c, g) ==
    IF ~Loaded(c) THEN PushReturnStack(g, e.name)
    ELSE IF ~IsArray(e.type) THEN AddToCache(g, LoadFromVariable(e.name))
    ELSE AddToCache(PushReturnStack(g, e.name),
            IF IsLocalVar(e.name) THEN LoadSlot("a", GetStackID(e.name))
            ELSE IF IsGlobalVar(e.name) THEN GetStatic(e.name) ELSE Abort)

GenSubscript(e, c, g) ==
    LET base == Gen(e.base, Loading(c), g)
        sub  == GenDeduced(e.sub, Leaving(Loading(c)), base)
    IN  AddIf(Loaded(c), sub, ArrayLoad(e.type))

GenArithmetic(e, c, g) ==
    LET inner == Leaving(Loading(c))
    IN  IF ~Wanted(c) THEN g
        ELSE AddToCache(GenDeduced(e.rhs, inner, GenDeduced(e.lhs, inner, g)),
                        Compute(e.fn, Wide(e.type)))

GenCast(e, c, g) ==
    LET inner == Gen(e.expr, c, g)
        from  == Wide(e.expr.type)
    IN  AddIf(c.load /\ from # e.type, inner, Convert(from, e.type))

\* A hint that is pending is reversed, which keeps the number of operands.
GenNegate(e, c, g) ==
    IF Wanted(c) /\ g.hint = 0
    THEN AddToCache(Gen(e.expr, Loading(c), g), Neg(Wide(e.type)))
    ELSE g

GenRelation(e, c, g) ==
    LET inner == Leaving(Loading(c))
        both  == GenDeduced(e.rhs, inner, GenDeduced(e.lhs, inner, g))
    IN  IF e.lhs.type = "f"
        THEN [AddToCache(both, CompareFloats) EXCEPT !.hint = 1]
        ELSE [both EXCEPT !.hint = 2]

\* The old value of a variable that an operation assigns to; that of an
\* element is read where its array and subscript already are on the stack.
GenOldValue(e, name, g) ==
    IF e.lhs.kind = "index"
    THEN AddToCache(AddToCache(g, Instr("dup2")), ArrayLoad(e.type))
    ELSE AddToCache(g, LoadFromVariable(name))

\* Fault: the name is taken after the right-hand side was generated.
GenAssignNameLast(e, c, g) ==
    LET lhs  == Gen(e.lhs, NotLoading(c), g)
        old  == IF e.fn = "none" THEN lhs
                ELSE GenOldValue(e, NameOnTop(lhs), lhs)
        rhs  == GenDeduced(e.rhs, Leaving(Loading(c)), old)
        done == AddIf(e.fn # "none", rhs, Compute(e.fn, Wide(e.type)))
        kept == AddIf(Wanted(c), done,
                      Instr(IF e.lhs.kind = "index" THEN "dup_x2" ELSE "dup"))
    IN  AddToCache(ConsumeReturnStack(kept), SaveToVariable(NameOnTop(kept)))

\* Fault: the old value is loaded after the right-hand side was generated.
GenAssignOldLast(e, c, g) ==
    LET lhs  == Gen(e.lhs, NotLoading(c), g)
        name == NameOnTop(lhs)
        rhs  == GenDeduced(e.rhs, Leaving(Loading(c)), ConsumeReturnStack(lhs))
        old  == IF e.fn = "none" THEN rhs ELSE GenOldValue(e, name, rhs)
        done == AddIf(e.fn # "none", old, Compute(e.fn, Wide(e.type)))
        kept == AddIf(Wanted(c), done,
                      Instr(IF e.lhs.kind = "index" THEN "dup_x2" ELSE "dup"))
    IN  AddToCache(kept, SaveToVariable(name))

\* The case of iinc asks for a left-hand side that is a constant: never so.
GenAssign(e, c, g) ==
    LET lhs  == Gen(e.lhs, NotLoading(c), g)
        name == NameOnTop(lhs)
        old  == IF e.fn = "none" THEN ConsumeReturnStack(lhs)
                ELSE GenOldValue(e, name, ConsumeReturnStack(lhs))
        rhs  == GenDeduced(e.rhs, Leaving(Loading(c)), old)
        done == AddIf(e.fn # "none", rhs, Compute(e.fn, Wide(e.type)))
        kept == AddIf(Wanted(c), done,
                      Instr(IF e.lhs.kind = "index" THEN "dup_x2" ELSE "dup"))
    IN  AddToCache(kept, SaveToVariable(name))

\* ++ and --: iinc for a local int; otherwise load, add one, save.
GenStep(e, c, g) ==
    LET place == Gen(e.expr, NotLoading(c), g)
        name  == NameOnTop(place)
        taken == ConsumeReturnStack(place)
        type  == Wide(e.type)
        load(h) == AddToCache(h, LoadFromVariable(name))
        before(h) == IF Wanted(c) /\ ~e.prefix THEN load(h) ELSE h
        after(h)  == IF Wanted(c) /\ e.prefix  THEN load(h) ELSE h
        old  == AddIf(Wanted(c) /\ ~e.prefix, load(taken), Instr("dup"))
        one  == AddIf(type # "i", AddToCache(old, PushConstVal("1", "i")),
                      Convert("i", type))
        new  == AddIf(Wanted(c) /\ e.prefix,
                      AddToCache(one, Compute(e.fn, type)), Instr("dup"))
    IN  IF ~IsGlobalVar(name) /\ e.expr.type = "i"
        THEN after(AddToCache(before(taken), Increment(e.fn, GetStackID(name))))
        ELSE AddToCache(new, SaveToVariable(name))

GenArgs(args, c, g) ==
    IF args = <<>> THEN g
    ELSE GenArgs(Tail(args), c, GenDeduced(Head(args), Leaving(Loading(c)), g))

\* Fault: a result that nobody wants stays on the stack.
GenCallWithoutPop(e, c, g) ==
    LET args == GenArgs(e.args, c, g)
    IN  AddIf(e.name \in Known, args,
              Invoke(e.name, Functions[e.name], e.type))

\* A function that was not generated yet is not called: its arguments stay.
GenCall(e, c, g) ==
    LET args == GenArgs(e.args, c, g)
        call == AddToCache(args, Invoke(e.name, Functions[e.name], e.type))
    IN  IF e.name \in Known
        THEN AddIf(~c.leave /\ e.type # "v", call, Instr("pop"))
        ELSE args

Gen(e, c, g) ==
    CASE e.kind = "lit"      -> AddToCache(g, PushConstVal(e.value, e.type))
      [] e.kind = "var"      -> GenDeclRef(e, c, g)
      [] e.kind = "index"    -> GenSubscript(e, c, g)
      [] e.kind = "arith"    -> GenArithmetic(e, c, g)
      [] e.kind = "cast"     -> GenCast(e, c, g)
      [] e.kind = "negate"   -> GenNegate(e, c, g)
      [] e.kind = "relation" -> GenRelation(e, c, g)
      [] e.kind = "assign"   -> GenAssign(e, c, g)
      [] e.kind = "step"     -> GenStep(e, c, g)
      [] e.kind = "call"     -> GenCall(e, c, g)

-----------------------------------------------------------------------------
(* The visitors of statements.                                             *)

GenVarDecl(s, g) ==
    CASE s.kind = "declare" -> g
      [] s.kind = "array" ->
            AddToCache(
                AddToCache(AddToCache(g, PushConstVal(s.size, "i")),
                           NewArray(ElementOf(s.type))),
                IF IsGlobalVar(s.name) THEN PutStatic(s.name)
                ELSE StoreSlot("a", GetStackID(s.name)))
      [] s.kind = "initialise" ->
            AddToCache(GenDeduced(s.expr, Leaving(Flags), g),
                       SaveToVariable(s.name))

\* The branch takes the hint that is pending, if any.
GenIf(s, g) ==
    LET cond == Gen(s.expr, Comparing(Flags), g)
    IN  [AddToCache(cond, BranchOn(IF cond.hint = 2 THEN 2 ELSE 1))
            EXCEPT !.hint = 0]

GenReturn(s, g) ==
    AddToCache(GenDeduced(s.expr, Leaving(Loading(Flags)), g),
               ReturnValue(Wide(s.expr.type)))

GenStmt(s, g) ==
    CASE s.kind = "evaluate" -> Gen(s.expr, Flags, g)
      [] s.kind = "return"   -> GenReturn(s, g)
      [] s.kind = "if"       -> GenIf(s, g)
      [] Declares(s)         -> GenVarDecl(s, g)

-----------------------------------------------------------------------------
(* The memory a statement starts in, which may be any.                     *)

Visible == localVars @@ GlobalVars
TypeOf(name) == IF IsLocalVar(name) THEN localVars[name].type
                                    ELSE GlobalVars[name]

HeldIn(name, type) == Term(name, Wide(type), <<>>)
Arrays == {name \in DOMAIN Visible : IsArray(TypeOf(name))}

AnyMachine(stack) ==
    [stack  |-> stack,
     slots  |-> [k \in {localVars[n].slot : n \in DOMAIN localVars} |->
                    LET n == CHOOSE v \in DOMAIN localVars :
                                 localVars[v].slot = k
                    IN  HeldIn(n, localVars[n].type)],
     fields |-> [n \in DOMAIN GlobalVars |-> HeldIn(n, GlobalVars[n])],
     heap   |-> [n \in Arrays \union {"fresh"} |->
                    IF n = "fresh" THEN Term("none", "v", <<>>)
                    ELSE Term(n, TypeOf(n), <<>>)],
     events |-> <<>>,
     ok     |-> TRUE]

\* The same memory, and what C makes of it.
AnyMeaning ==
    [vars   |-> [n \in DOMAIN Visible |->
                    IF IsArray(TypeOf(n)) THEN Term(n, TypeOf(n), <<>>)
                    ELSE HeldIn(n, TypeOf(n))],
     events |-> <<>>,
     value  |-> Term("none", "v", <<>>)]

\* What a variable holds in the machine.
Content(m, name) ==
    LET held == IF IsLocalVar(name) THEN m.slots[GetStackID(name)]
                                    ELSE m.fields[name]
    IN  IF held.type = "a" THEN m.heap[held.op] ELSE held

-----------------------------------------------------------------------------
NoMachine == [stack |-> <<>>, events |-> <<>>, ok |-> TRUE]

Init ==
    /\ phase = "analyse"
    /\ body = <<>>
    /\ result \in {"v", "i"}
    /\ made = 0
    /\ analyzer = NewAnalyzer(Params)
    /\ stmt = 0
    /\ names = <<>>
    /\ hint = 0
    /\ code = <<>>
    /\ pc = 0
    /\ machine = NoMachine
    /\ localVars = [name \in {} |-> name]

\* A name is used after it was declared, and declared once.
Allowed(s) ==
    /\ Declares(s) => ~IsLocal(analyzer, s.name)
    /\ Uses(s) \subseteq DOMAIN LocalsOf(analyzer) \union DOMAIN GlobalVars

AnalyseStmt ==
    /\ phase = "analyse"
    /\ made < MaxStmts
    /\ \E s \in Stmts :
          /\ Allowed(s)
          /\ s.kind = "return" => result = s.expr.type
          /\ body' = Append(body, s)
          /\ analyzer' = Analyse(s, analyzer)
    /\ made' = made + 1
    /\ UNCHANGED <<localVars, phase, result, stmt, names, hint, runVars>>

\* The local variables get their slots in the order in which they were found.
\* A body is not empty: the code reads the last statement of it.
StartGenerate ==
    /\ phase = "analyse"
    /\ body # <<>>
    /\ result = "v" \/ analyzer.hasReturn
    /\ phase' = "generate"
    /\ stmt' = 1
    /\ localVars' = LocalsOf(analyzer)
    /\ machine' = NoMachine
    /\ UNCHANGED <<body, result, made, analyzer, names, hint, code, pc>>

\* A return is missed that is not there, or is inside an if or a loop.
MissingReturn ==
    /\ phase = "analyse"
    /\ result # "v" /\ ~analyzer.hasReturn
    /\ phase' = "failed"
    /\ UNCHANGED <<localVars, body, result, made, analyzer, stmt, names, hint,
                   runVars>>

GenerateStmt ==
    /\ phase = "generate"
    /\ stmt <= Len(body)
    /\ LET g == GenStmt(body[stmt],
                        [code |-> <<>>, names |-> names, hint |-> hint])
       IN  /\ code' = g.code
           /\ names' = g.names
           /\ hint' = g.hint
           /\ phase' = IF Abort \in {g.code[i] : i \in DOMAIN g.code}
                       THEN "aborted" ELSE "run"
    /\ pc' = 1
    /\ machine' = AnyMachine(machine.stack)
    /\ UNCHANGED <<localVars, body, result, made, analyzer, stmt>>

RunInstr ==
    /\ phase = "run"
    /\ pc <= Len(code)
    /\ machine' = Execute(code[pc], machine)
    /\ pc' = pc + 1
    /\ phase' = IF machine'.ok THEN "run" ELSE "refused"
    /\ UNCHANGED <<localVars, body, result, made, analyzer, stmt, names, hint,
                   code>>

EndStmt ==
    /\ phase = "run"
    /\ pc > Len(code)
    /\ phase' = "generate"
    /\ stmt' = stmt + 1
    /\ UNCHANGED <<localVars, body, result, made, analyzer, names, hint,
                   runVars>>

\* The next function has the same generator.
NextFunction ==
    /\ phase = "generate"
    /\ stmt > Len(body)
    /\ made < MaxStmts
    /\ phase' = "analyse"
    /\ body' = <<>>
    /\ result' \in {"v", "i"}
    /\ analyzer' = NewAnalyzer(Params)
    /\ stmt' = 0
    /\ UNCHANGED <<localVars, made, names, hint, runVars>>

Done ==
    /\ \/ phase \in {"failed", "aborted", "refused"}
       \/ phase = "generate" /\ stmt > Len(body) /\ made = MaxStmts
    /\ UNCHANGED vars

Next == \/ AnalyseStmt \/ StartGenerate \/ MissingReturn
        \/ GenerateStmt \/ RunInstr \/ EndStmt \/ NextFunction \/ Done

Spec == Init /\ [][Next]_vars /\ WF_vars(Next)

-----------------------------------------------------------------------------
(* Properties.                                                             *)

\* The values the variables range over; a slot holds values of the type of
\* its variable.
TypeOK ==
    /\ phase \in {"analyse", "generate", "run",
                  "failed", "aborted", "refused"}
    /\ made \in 0 .. MaxStmts /\ Len(body) <= made
    /\ stmt \in 0 .. Len(body) + 1
    /\ analyzer.depth \in Int /\ analyzer.max \in Nat
    /\ \A i \in DOMAIN names :
          names[i] \in DOMAIN GlobalVars \union {p.name : p \in
                           {Params[k] : k \in DOMAIN Params}}
                       \union {s.name : s \in {t \in Stmts : Declares(t)}}
    /\ hint \in 0 .. 2
    /\ pc \in 0 .. Len(code) + 1
    /\ phase = "run" => \A name \in DOMAIN localVars :
          machine.slots[GetStackID(name)].type = Wide(localVars[name].type)

AtEndOfStmt == phase = "run" /\ pc > Len(code)
Meant == MeaningOfStmt(body[stmt], AnyMeaning)

\* The instructions of a statement change the variables that C changes, in
\* the same way, and make the same calls, tests and returns in the same order:
\* the name that a save takes is that of the variable that is assigned.
ComputesAsWritten ==
    AtEndOfStmt =>
        /\ \A name \in DOMAIN Visible : Content(machine, name) = Meant.vars[name]
        /\ machine.events = Meant.events

\* A statement leaves nothing behind for the next one: no operand, no hint.
NothingPending ==
    AtEndOfStmt => machine.stack = <<>> /\ hint = 0

\* Every instruction finds its operands, of its type.
OperandsThere == phase # "refused"

\* The stack never gets deeper than the first pass says.
StackReserved ==
    phase = "run" => Len(machine.stack) <= GetMaxStackSize(analyzer)

=============================================================================
