---------------------------- MODULE FuncAnalyzer ----------------------------
(***************************************************************************)
(* Hzcc::Codegen::JVM::FuncAnalyzer: the first pass over a function, which *)
(* finds its local variables, whether it returns, and how deep its operand *)
(* stack gets.  It visits the statements of the body and not those inside  *)
(* an if or a loop.                                                        *)
(*                                                                         *)
(* An analyser a is a record: the current and the greatest depth, the      *)
(* stack of names that assignments take their variable from, the local     *)
(* variables in the order found, and whether a return was seen.            *)
(***************************************************************************)
EXTENDS StackManager, Integers

CONSTANT StackReserve   \* the 20 that GetMaxStackSize adds

ASSUME ReserveAssumption == StackReserve \in Nat

NewAnalyzer(params) ==
    [depth |-> 0, max |-> 0, names |-> <<>>, locals |-> params,
     hasReturn |-> FALSE]

LocalsOf(a) == TableOf(a.locals)
GetMaxStackSize(a) == a.max + StackReserve

\* Fault: the greatest depth is not kept up.
ModifyDepthOnly(a, size) == [a EXCEPT !.depth = @ + size]

ModifyStackSize(a, size) ==
    [a EXCEPT !.depth = @ + size,
              !.max = IF a.depth + size > @ THEN a.depth + size ELSE @]

DecreaseCurrentStack(a, size) == [a EXCEPT !.depth = @ - size]

PushName(a, name) == [a EXCEPT !.names = Append(@, name)]
ConsumeName(a) == [a EXCEPT !.names = SubSeq(@, 1, Len(@) - 1)]
LastName(a) == a.names[Len(a.names)]

IsLocal(a, name) == name \in DOMAIN LocalsOf(a)

TypeIn(a, name) == IF IsLocal(a, name) THEN LocalsOf(a)[name].type
                                       ELSE GlobalVars[name]

\* What saving and loading do to the depth.
SaveSize(a, name) == IF IsArray(TypeIn(a, name)) THEN -3 ELSE -1
LoadSize(a, name) == IF IsLocal(a, name) /\ IsArray(TypeIn(a, name)) THEN -1
                                                                     ELSE 1

-----------------------------------------------------------------------------
(* The visitors of expressions.  The context c says whether a variable is  *)
(* to be loaded and whether the result is to be left on the stack.         *)

NoContext   == [load |-> FALSE, leave |-> FALSE]
Loading(c)    == [c EXCEPT !.load = TRUE]
NotLoading(c) == [c EXCEPT !.load = FALSE]
Leaving(c)    == [c EXCEPT !.leave = TRUE]

RECURSIVE Count(_, _, _), CountArgs(_, _, _)

CountArgs(args, c, a) ==
    IF args = <<>> THEN a
    ELSE CountArgs(Tail(args), c, Count(Head(args), Loading(c), a))

CountDeclRef(e, c, a) ==
    IF ~c.load THEN PushName(a, e.name)
    ELSE IF IsArray(e.type) THEN PushName(ModifyStackSize(a, 1), e.name)
    ELSE ModifyStackSize(a, LoadSize(a, e.name))

CountSubscript(e, c, a) ==
    LET base == Count(e.base, Loading(c), a)
        sub  == Count(e.sub, Loading(c), base)
    IN  IF c.load THEN ModifyStackSize(sub, -1) ELSE sub

CountArithmetic(e, c, a) ==
    DecreaseCurrentStack(
        Count(e.rhs, Loading(c), Count(e.lhs, Loading(c), a)), 1)

CountRelation(e, c, a) ==
    DecreaseCurrentStack(Count(e.rhs, c, Count(e.lhs, c, a)), 1)

CountAssign(e, c, a) ==
    LET lhs  == Count(e.lhs, NotLoading(c), a)
        name == LastName(lhs)
        old  == IF e.fn = "none" THEN ConsumeName(lhs)
                ELSE ModifyStackSize(ConsumeName(lhs),
                         IF e.lhs.kind = "index" THEN 1 ELSE LoadSize(a, name))
        rhs  == Count(e.rhs, Leaving(Loading(c)), old)
        done == IF e.fn = "none" THEN rhs ELSE ModifyStackSize(rhs, -1)
        kept == IF c.leave THEN ModifyStackSize(done, 1) ELSE done
    IN  ModifyStackSize(kept, SaveSize(a, name))

CountStep(e, c, a) ==
    LET place == Count(e.expr, NotLoading(c), a)
        name  == LastName(place)
        old   == ModifyStackSize(ConsumeName(place), LoadSize(a, name))
    IN  IF ~IsGlobalVar(name) /\ e.expr.type = "i" THEN old
        ELSE ModifyStackSize(ModifyStackSize(old, 3), SaveSize(a, name))

CountCall(e, c, a) ==
    LET args   == CountArgs(e.args, c, a)
        taken  == ModifyStackSize(args, -Len(e.args))
        result == IF e.type = "v" THEN taken ELSE ModifyStackSize(taken, 1)
    IN  IF ~c.load /\ e.type # "v" THEN ModifyStackSize(result, -1) ELSE result

Count(e, c, a) ==
    CASE e.kind = "lit"      -> ModifyStackSize(a, 1)
      [] e.kind = "var"      -> CountDeclRef(e, c, a)
      [] e.kind = "index"    -> CountSubscript(e, c, a)
      [] e.kind = "arith"    -> CountArithmetic(e, c, a)
      [] e.kind = "cast"     -> Count(e.expr, c, a)
      [] e.kind = "negate"   -> Count(e.expr, Loading(c), a)
      [] e.kind = "relation" -> CountRelation(e, c, a)
      [] e.kind = "assign"   -> CountAssign(e, c, a)
      [] e.kind = "step"     -> CountStep(e, c, a)
      [] e.kind = "call"     -> CountCall(e, c, a)

-----------------------------------------------------------------------------
(* The visitors of statements.                                             *)

AddLocalVariable(a, name, type) ==
    [a EXCEPT !.locals = Append(@, [name |-> name, type |-> type])]

Analyse(s, a) ==
    CASE s.kind = "evaluate" -> Count(s.expr, NoContext, a)
      [] s.kind = "return" ->
            [Count(s.expr, Leaving(Loading(NoContext)), a)
                EXCEPT !.hasReturn = TRUE]
      [] s.kind = "if" -> a
      [] s.kind = "declare" -> AddLocalVariable(a, s.name, s.type)
      [] s.kind = "array" ->
            ModifyStackSize(ModifyStackSize(
                AddLocalVariable(a, s.name, s.type), 1), -1)
      [] s.kind = "initialise" ->
            LET b == AddLocalVariable(a, s.name, s.type)
            IN  ModifyStackSize(Count(s.expr, NoContext, b),
                                SaveSize(b, s.name))

=============================================================================
