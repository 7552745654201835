--------------------------- MODULE JVMControlFlow ---------------------------
(***************************************************************************)
(* The statement visitors of Hzcc::Codegen::JVMGenerator: how one function *)
(* becomes labels, branches and gotos, driven through the LabelManager,    *)
(* and what the emitted code then does when it is run.                     *)
(*                                                                         *)
(* The recursion of the visitors is the stack "todo": a visitor replaces   *)
(* itself by the plan of what it emits, in order, and the items of a plan  *)
(* are executed one at a time.  The syntax tree is not fixed in advance:   *)
(* each visit chooses what the visited statement is.  A choice also        *)
(* records, in "flow", what the C statement means, with the points that    *)
(* follow it (next) and that break (brk) and continue (cont) lead to.      *)
(***************************************************************************)
EXTENDS LabelManager, FiniteSets, OpHint, SourcePoint

CONSTANTS
    MaxNodes,      \* bound on the nodes of the syntax tree
    MaxBlock,      \* bound on the statements of one block
    MaxElseIf,     \* bound on the else-if branches of one if
    Conds,         \* the conditions tried at each kind of statement
    ContinueIn,    \* the kinds of loop in which continue is tried
    ValueRelations, \* the relations whose result expressions use as a value
    StaleTests     \* is a value tested while the hint of another is pending

ASSUME BoundsAssumption ==
    /\ MaxNodes \in Nat \ {0} /\ MaxBlock \in Nat \ {0} /\ MaxElseIf \in Nat
    /\ ContinueIn \subseteq LoopType
    /\ StaleTests \in BOOLEAN

VARIABLES
    phase,     \* "gen" or "failed", then "run" and how the run ended
    todo,      \* the visitors' continuation, next item first
    nodes,     \* how many nodes of the syntax tree exist
    opHint,    \* _prevOpType
    valueHint, \* that of the last relation used as a value since the last
               \* branch (history)
    code,      \* the lines written with AddToCache that matter to control
    flow,      \* what the source means (history)
    pc,        \* the instruction about to be executed
    seen       \* the outcome of the last comparison (history)

hints   == <<opHint, valueHint>>
genVars == <<phase, todo, nodes, hints, code, flow>>
runVars == <<pc, seen>>
vars == <<lmVars, genVars, runVars>>

At(point, v) == [p \in {point} |-> v]

And(f, g) == [p \in DOMAIN f \union DOMAIN g |->
                 IF p \in DOMAIN g THEN g[p] ELSE f[p]]

-----------------------------------------------------------------------------
(* The items of a plan.                                                    *)

\* A label is that of the scope that is innermost when the item is executed,
\* or one that a local variable of the visitor holds.
Here(part)   == [saved |-> FALSE, part |-> part, label |-> NoLabel]
Saved(label) == [saved |-> TRUE, part |-> "", label |-> label]

LabelLine(ref)     == [do |-> "label", ref |-> ref]
Goto(ref)          == [do |-> "goto", ref |-> ref]
Branch(table, ref) == [do |-> "branch", table |-> table, ref |-> ref]
NewLabel(name)     == [do |-> "newlabel", name |-> name]
Ask(part)          == [do |-> "ask", part |-> part]
LineNumber         == [do |-> "line"]
Line(point)        == [do |-> "act", point |-> point]
Epilogue(last)     == [do |-> "epilogue", last |-> last]
Function           == [do |-> "function"]

\* A visit to a condition, with the points its two outcomes lead to.
Cond(c, point, yes, no) ==
    [do |-> "cond", cond |-> c, point |-> point, yes |-> yes, no |-> no]

\* Visits to a block and to a statement, which lead on to the point next;
\* ctx is the innermost loop around them.
Block(n, next, ctx) == [do |-> "block", node |-> n, next |-> next, ctx |-> ctx]
Visit(n, next, ctx) == [do |-> "stmt", node |-> n, next |-> next, ctx |-> ctx]

NoLoop == [loop |-> "none", brk |-> NoPoint, cont |-> NoPoint]
InLoop(loop, brk, cont) == [loop |-> loop, brk |-> brk, cont |-> cont]

\* EnterScope, a plan, LeaveScope.  The item that leaves the scope remembers
\* how many scopes were open inside it (history).
InScope(n, type, plan) ==
    [do |-> "scope", node |-> n, type |-> type, plan |-> plan]
Leave(depth) == [do |-> "leave", depth |-> depth]

-----------------------------------------------------------------------------
(* The plans of the visitors.  s is the item being visited; the nodes of   *)
(* its parts are numbered from "nodes" on.                                 *)

\* k statements from node first on, each after its line label.
BlockPlan(first, k, next, ctx) ==
    [i \in 1 .. 2 * k |->
        IF i % 2 = 1 THEN LineNumber
        ELSE Visit(first + (i \div 2) - 1,
                   IF i = 2 * k THEN next ELSE StartOf(first + (i \div 2)),
                   ctx)]

WhilePlan(s, body, c) ==
    <<InScope(s.node, "while",
       <<LabelLine(Here("entry")),
         Cond(c, CondOf(s.node), StartOf(body), s.next),
         Branch("unless", Here("exit")),
         Block(body, CondOf(s.node),
               InLoop("while", s.next, CondOf(s.node))),
         Goto(Here("entry")),
         LabelLine(Here("exit"))>>)>>

\* Fault: no exit label is written.
DoPlanWithoutExit(s, body, c) ==
    <<InScope(s.node, "do",
       <<LabelLine(Here("entry")),
         Block(body, CondOf(s.node), InLoop("do", s.next, CondOf(s.node))),
         Cond(c, CondOf(s.node), StartOf(body), s.next),
         Branch("if", Here("entry"))>>)>>

\* The code tests the condition for the empty statement, which no parser
\* produces for a do loop: it loops forever then.
DoPlan(s, body, c) ==
    <<InScope(s.node, "do",
       <<LabelLine(Here("entry")),
         Block(body, CondOf(s.node), InLoop("do", s.next, CondOf(s.node))),
         Cond(c, CondOf(s.node), StartOf(body), s.next),
         IF c.form = "none" THEN Goto(Here("entry"))
                            ELSE Branch("if", Here("entry")),
         LabelLine(Here("exit"))>>)>>

\* full: the loop has an initialiser and a step.  The initialiser is visited
\* before the scope is entered.
ForPlan(s, body, c, full) ==
    LET forCond == Saved(<<s.node, "for", "for_cond">>)
        Only(when, plan) == IF when THEN plan ELSE <<>>
    IN  Only(full, <<Line(InitOf(s.node))>>) \o
        <<InScope(s.node, "for",
           <<NewLabel("for_cond"), LabelLine(forCond),
             Cond(c, CondOf(s.node), StartOf(body), s.next)>> \o
           Only(c.form # "none", <<Branch("unless", Here("exit"))>>) \o
           <<Block(body, StepOf(s.node),
                   InLoop("for", s.next, StepOf(s.node))),
             LabelLine(Here("entry"))>> \o
           Only(full, <<Line(StepOf(s.node))>>) \o
           <<Goto(forCond), LabelLine(Here("exit"))>>)>>

\* cs is the sequence of the conditions: that of the if, then those of its
\* else-ifs.  The i-th of them has its body in block(i).
IfPlan(s, cs, hasElse) ==
    LET n         == s.node
        branch(i) == IF i = 1 THEN n ELSE nodes + 2 * i - 2
        block(i)  == nodes + 2 * i - 1
        else      == nodes + 2 * Len(cs)
        otherwise(i) == IF i < Len(cs) THEN CondOf(branch(i + 1))
                        ELSE IF hasElse THEN StartOf(else) ELSE s.next
        ifExit == Saved(<<n, "if", "exit">>)
        ifEnd  == Saved(<<n, "if", "stmt_end">>)
        Arm(i, exit) ==
           <<Cond(cs[i], CondOf(branch(i)), StartOf(block(i)), otherwise(i)),
             Branch("unless", exit),
             LabelLine(Here("entry")),
             Block(block(i), s.next, s.ctx),
             Goto(ifEnd),
             LabelLine(exit)>>
        elseIfs == [i \in 1 .. Len(cs) - 1 |->
                      InScope(branch(i + 1), "else_if",
                              Arm(i + 1, Here("exit")))]
    IN  <<InScope(n, "if",
           <<Ask("exit"), NewLabel("stmt_end")>> \o Arm(1, ifExit) \o elseIfs
           \o (IF hasElse THEN <<Block(else, s.next, s.ctx)>> ELSE <<>>)
           \o <<LabelLine(ifEnd)>>)>>

-----------------------------------------------------------------------------
Init ==
    /\ LabelManagerInit
    /\ phase = "gen"
    /\ todo = <<Function>>
    /\ nodes = 0
    /\ opHint = "None"
    /\ valueHint = "None"
    /\ code = <<>>
    /\ flow = <<>>
    /\ pc = 0
    /\ seen = "equal"

-----------------------------------------------------------------------------
(* Generation: one action per kind of item at the head of todo.            *)

Generating == phase = "gen" /\ todo # <<>>
Do(kind)   == Generating /\ Head(todo).do = kind
h          == Head(todo)

Continue(plan) == todo' = plan \o Tail(todo)
Emit(instr)    == code' = Append(code, instr)
Means(f)       == flow' = And(flow, f)

LabelInstr(label)      == [op |-> "label", label |-> label]
GotoInstr(label)       == [op |-> "goto", label |-> label]
BranchInstr(on, label) == [op |-> "branch", on |-> on, label |-> label]
PointInstr(op, point)  == [op |-> op, point |-> point]

\* Visiting an expression for its value.  A relation in it, assigned, returned
\* or passed to a function, sets the hint as one in a condition does, and no
\* branch comes for it.
EvaluateValue ==
    \/ UNCHANGED hints
    \/ \E r \in ValueRelations : opHint' = HintOf(r) /\ valueHint' = HintOf(r)

\* FuncDeclStmt: the labels are reset, then the body is visited; its last
\* statement decides whether a return is added.  An empty body has no last
\* statement, which GetLastStatement reads all the same: it is left out.
StartFunction ==
    /\ Do("function")
    /\ \E k \in 1 .. MaxBlock :
          /\ 1 + k <= MaxNodes
          /\ nodes' = 1 + k
          /\ Continue(BlockPlan(2, k, Halt, NoLoop) \o <<Epilogue(1 + k)>>)
    /\ flow' = At(Root, Alias(StartOf(2)))
    /\ ResetLables
    /\ UNCHANGED <<phase, hints, code, runVars>>

\* A prototype has nothing to generate.
SkipPrototype ==
    /\ Do("function")
    /\ ResetLables
    /\ UNCHANGED <<genVars, runVars>>

\* A function that has to return a value and has no return anywhere.
MissingReturn ==
    /\ Do("function")
    /\ phase' = "failed"
    /\ todo' = <<>>
    /\ ResetLables
    /\ UNCHANGED <<nodes, hints, code, flow, runVars>>

EndFunction ==
    /\ Do("epilogue")
    /\ Continue(<<>>)
    /\ code' = IF flow[StartOf(h.last)].kind = "return" THEN code
               ELSE Append(code, PointInstr("leave", Halt))
    /\ UNCHANGED <<lmVars, phase, nodes, hints, flow, runVars>>

\* A statement that needs no control flow of its own: an expression or a
\* declaration.
VisitSimple ==
    /\ Do("stmt")
    /\ Continue(<<>>)
    /\ EvaluateValue
    /\ Emit(PointInstr("act", StartOf(h.node)))
    /\ Means(At(StartOf(h.node), Act(h.next)))
    /\ UNCHANGED <<lmVars, phase, nodes, runVars>>

VisitReturn ==
    /\ Do("stmt")
    /\ Continue(<<>>)
    /\ EvaluateValue
    /\ Emit(PointInstr("ret", StartOf(h.node)))
    /\ Means(At(StartOf(h.node), Return))
    /\ UNCHANGED <<lmVars, phase, nodes, runVars>>

\* The parser lets break and continue through only inside a loop.
VisitBreak ==
    /\ Do("stmt")
    /\ h.ctx.loop # "none"
    /\ Continue(<<>>)
    /\ Emit(GotoInstr(LoopLabel("exit")))
    /\ Means(At(StartOf(h.node), Alias(h.ctx.brk)))
    /\ UNCHANGED <<lmVars, phase, nodes, hints, runVars>>

VisitContinue ==
    /\ Do("stmt")
    /\ h.ctx.loop \in ContinueIn
    /\ Continue(<<>>)
    /\ Emit(GotoInstr(LoopLabel("entry")))
    /\ Means(At(StartOf(h.node), Alias(h.ctx.cont)))
    /\ UNCHANGED <<lmVars, phase, nodes, hints, runVars>>

VisitIf ==
    /\ Do("stmt")
    /\ \E m \in 0 .. MaxElseIf, c \in Conds["if"], hasElse \in BOOLEAN :
       \E cs \in [1 .. m -> Conds["else_if"]] :
          /\ nodes' = nodes + 2 * m + (IF hasElse THEN 2 ELSE 1)
          /\ nodes' <= MaxNodes
          /\ Continue(IfPlan(h, <<c>> \o cs, hasElse))
    /\ Means(At(StartOf(h.node), Alias(CondOf(h.node))))
    /\ UNCHANGED <<lmVars, phase, hints, code, runVars>>

VisitWhile ==
    /\ Do("stmt")
    /\ nodes < MaxNodes
    /\ nodes' = nodes + 1
    /\ \E c \in Conds["while"] : Continue(WhilePlan(h, nodes', c))
    /\ Means(At(StartOf(h.node), Alias(CondOf(h.node))))
    /\ UNCHANGED <<lmVars, phase, hints, code, runVars>>

VisitDo ==
    /\ Do("stmt")
    /\ nodes < MaxNodes
    /\ nodes' = nodes + 1
    /\ \E c \in Conds["do"] : Continue(DoPlan(h, nodes', c))
    /\ Means(At(StartOf(h.node), Alias(StartOf(nodes'))))
    /\ UNCHANGED <<lmVars, phase, hints, code, runVars>>

VisitFor ==
    /\ Do("stmt")
    /\ nodes < MaxNodes
    /\ nodes' = nodes + 1
    /\ \E c \in Conds["for"], full \in BOOLEAN :
          LET n == h.node
              effect(next) == IF full THEN Act(next) ELSE Alias(next)
          IN  /\ Continue(ForPlan(h, nodes', c, full))
              /\ Means(And(At(StartOf(n), Alias(InitOf(n))),
                       And(At(InitOf(n), effect(CondOf(n))),
                           At(StepOf(n), effect(CondOf(n))))))
    /\ UNCHANGED <<lmVars, phase, hints, code, runVars>>

VisitBlock ==
    /\ Do("block")
    /\ \E k \in 0 .. MaxBlock :
          /\ nodes + k <= MaxNodes
          /\ nodes' = nodes + k
          /\ Continue(BlockPlan(nodes + 1, k, h.next, h.ctx))
          /\ Means(At(StartOf(h.node),
                      Alias(IF k = 0 THEN h.next ELSE StartOf(nodes + 1))))
    /\ UNCHANGED <<lmVars, phase, hints, code, runVars>>

\* A relation pushes its operands and leaves its hint.  A value sets none, but
\* may hold a relation that does; what is pending then is a hint of another.
VisitAtom ==
    /\ Do("cond")
    /\ h.cond.form = "atom"
    /\ Continue(<<>>)
    /\ \/ /\ h.cond.operands = "value"
          /\ EvaluateValue
          /\ StaleTests \/ opHint' = "None"
       \/ /\ h.cond.operands # "value"
          /\ opHint' = HintOf(h.cond)
          /\ UNCHANGED valueHint
    /\ Emit(PointInstr("eval", h.point))
    /\ Means(At(h.point, Test(h.cond.rel, h.yes, h.no)))
    /\ UNCHANGED <<lmVars, phase, nodes, runVars>>

\* LogicalExpr under a comparison: a branch on the left operand to a label of
\* the scope around it, then the right operand.
VisitLogical ==
    /\ Do("cond")
    /\ h.cond.form \in {"and", "or"}
    /\ LET l == Operand(h.point, "l")
           r == Operand(h.point, "r")
       IN  /\ Continue(
                 IF h.cond.form = "and"
                 THEN <<Cond(h.cond.lhs, l, r, h.no),
                        Branch("unless", Here("exit")),
                        Cond(h.cond.rhs, r, h.yes, h.no)>>
                 ELSE <<Cond(h.cond.lhs, l, h.yes, r),
                        Branch("if", Here("entry")),
                        Cond(h.cond.rhs, r, h.yes, h.no)>>)
           /\ Means(At(h.point, Alias(l)))
    /\ UNCHANGED <<lmVars, phase, nodes, hints, code, runVars>>

\* An absent condition of a for, or the constant true of a while, whose code
\* is skipped because its value is deduced.
SkipCond ==
    /\ Do("cond")
    /\ h.cond.form \in {"none", "const"}
    /\ Continue(<<>>)
    /\ Means(At(h.point, Alias(h.yes)))
    /\ UNCHANGED <<lmVars, phase, nodes, hints, code, runVars>>

\* Fault: the scope of an else-if is not left.
OpenScopeLeakingElseIf ==
    /\ Do("scope")
    /\ Continue(h.plan \o (IF h.type = "else_if" THEN <<>>
                           ELSE <<Leave(Len(scopeStack) + 1)>>))
    /\ EnterScope(h.node, h.type)
    /\ UNCHANGED <<phase, nodes, hints, code, flow, runVars>>

OpenScope ==
    /\ Do("scope")
    /\ Continue(h.plan \o <<Leave(Len(scopeStack) + 1)>>)
    /\ EnterScope(h.node, h.type)
    /\ UNCHANGED <<phase, nodes, hints, code, flow, runVars>>

CloseScope ==
    /\ Do("leave")
    /\ Continue(<<>>)
    /\ LeaveScope
    /\ UNCHANGED <<phase, nodes, hints, code, flow, runVars>>

\* A label line, a goto or a branch.  Naming a label of the innermost scope
\* records it; a branch also takes the hint that is pending and clears it.
Resolve(ref) == IF ref.saved THEN ref.label ELSE ScopeLabel(ref.part)
Named(ref)   == IF ref.saved THEN UNCHANGED lmVars ELSE Record(Resolve(ref))

EmitLabel ==
    /\ Do("label")
    /\ Continue(<<>>)
    /\ Named(h.ref)
    /\ Emit(LabelInstr(Resolve(h.ref)))
    /\ UNCHANGED <<phase, nodes, hints, flow, runVars>>

EmitGoto ==
    /\ Do("goto")
    /\ Continue(<<>>)
    /\ Named(h.ref)
    /\ Emit(GotoInstr(Resolve(h.ref)))
    /\ UNCHANGED <<phase, nodes, hints, flow, runVars>>

\* Fault: the hint is read and not cleared.
EmitBranchKeepingHint ==
    /\ Do("branch")
    /\ Continue(<<>>)
    /\ Named(h.ref)
    /\ LET table == IF h.table = "if" THEN JumpIf ELSE JumpUnless
       IN  Emit(BranchInstr(table[opHint], Resolve(h.ref)))
    /\ valueHint' = "None"
    /\ UNCHANGED <<phase, nodes, opHint, flow, runVars>>

EmitBranch ==
    /\ Do("branch")
    /\ Continue(<<>>)
    /\ Named(h.ref)
    /\ LET table == IF h.table = "if" THEN JumpIf ELSE JumpUnless
       IN  Emit(BranchInstr(table[opHint], Resolve(h.ref)))
    /\ opHint' = "None" /\ valueHint' = "None"
    /\ UNCHANGED <<phase, nodes, flow, runVars>>

AskLabel ==
    /\ Do("ask")
    /\ Continue(<<>>)
    /\ Record(ScopeLabel(h.part))
    /\ UNCHANGED <<phase, nodes, hints, code, flow, runVars>>

NameLabel ==
    /\ Do("newlabel")
    /\ Continue(<<>>)
    /\ GenerateLabel(h.name)
    /\ UNCHANGED <<phase, nodes, hints, code, flow, runVars>>

EmitLine ==
    /\ Do("line")
    /\ Continue(<<>>)
    /\ Emit(LabelInstr(LineLabel(labelCount)))
    /\ GenerateLineLabel
    /\ UNCHANGED <<phase, nodes, hints, flow, runVars>>

\* The initialiser and the step of a for.
EmitAct ==
    /\ Do("act")
    /\ Continue(<<>>)
    /\ EvaluateValue
    /\ Emit(PointInstr("act", h.point))
    /\ UNCHANGED <<lmVars, phase, nodes, flow, runVars>>

\* A variable that the stack manager does not know: every visitor returns
\* the error to its caller, no open scope is left, nothing is written.
Fail ==
    /\ Generating
    /\ h.do \in {"act", "cond", "stmt"}
    /\ phase' = "failed"
    /\ todo' = <<>>
    /\ UNCHANGED <<lmVars, nodes, hints, code, flow, runVars>>

\* The loop of Generate goes on to the next function with the same generator.
NextFunction ==
    /\ phase = "gen" /\ todo = <<>>
    /\ todo' = <<Function>>
    /\ nodes' = 0
    /\ code' = <<>>
    /\ flow' = <<>>
    /\ UNCHANGED <<lmVars, phase, hints, runVars>>

-----------------------------------------------------------------------------
(* Running the function.                                                   *)

Labels(op)  == {i \in DOMAIN code : code[i].op = op}
Targets     == {code[i].label : i \in Labels("goto") \union Labels("branch")}
Defining(l) == {i \in Labels("label") : code[i].label = l}

\* What the assembler asks of the code.
Assembles ==
    /\ \A i \in Labels("branch") : code[i].on # Glued
    /\ \A l \in Targets : Cardinality(Defining(l)) = 1

TargetOf(l) == CHOOSE i \in DOMAIN code : i \in Defining(l)

\* From instruction i, with the outcome of a comparison if compared is set,
\* on to the next instruction that is not a label, a jump or a branch.  A
\* branch that no comparison precedes finds no operand and traps.
Hop(m, outcome) ==
    LET i == m.pc
        instr == code[i]
    IN  CASE i \notin DOMAIN code -> [m EXCEPT !.end = "crashed"]
          [] i \in DOMAIN code /\ instr.op = "label" -> [m EXCEPT !.pc = i + 1]
          [] i \in DOMAIN code /\ instr.op = "goto" ->
                [m EXCEPT !.pc = TargetOf(instr.label)]
          [] i \in DOMAIN code /\ instr.op = "branch" /\ ~m.compared ->
                [m EXCEPT !.end = "crashed"]
          [] i \in DOMAIN code /\ instr.op = "branch" /\ m.compared ->
                [pc |-> IF Holds(instr.on, outcome) THEN TargetOf(instr.label)
                                                    ELSE i + 1,
                 compared |-> FALSE, end |-> "spinning"]
          [] OTHER -> [m EXCEPT !.end = "run"]

RunTo(i, compared, outcome) ==
    LET hop[k \in 0 .. 2 * Len(code) + 1] ==
          IF k = 0 THEN [pc |-> i, compared |-> compared, end |-> "spinning"]
          ELSE LET m == hop[k - 1]
               IN  IF m.end = "spinning" THEN Hop(m, outcome) ELSE m
        final == hop[2 * Len(code) + 1]
    IN  /\ phase' = final.end
        /\ pc' = IF final.end = "run" THEN final.pc ELSE 0

StartRun ==
    /\ phase = "gen" /\ todo = <<>>
    /\ IF Assembles THEN RunTo(1, FALSE, seen)
                    ELSE phase' = "rejected" /\ pc' = 0
    /\ UNCHANGED <<lmVars, todo, nodes, hints, code, flow, seen>>

Execute(op) == phase = "run" /\ code[pc].op = op
Ran == UNCHANGED <<lmVars, todo, nodes, hints, code, flow>>

RunEval ==
    /\ Execute("eval")
    /\ seen' \in Outcome
    /\ RunTo(pc + 1, TRUE, seen')
    /\ Ran

RunAct ==
    /\ Execute("act")
    /\ RunTo(pc + 1, FALSE, seen)
    /\ Ran /\ UNCHANGED seen

RunReturn ==
    /\ phase = "run" /\ code[pc].op \in {"ret", "leave"}
    /\ phase' = "halted"
    /\ pc' = 0
    /\ Ran /\ UNCHANGED seen

\* Generation that failed and code that was rejected or ran stay as they are.
Done ==
    /\ phase \in {"failed", "rejected", "halted", "spinning", "crashed"}
    /\ UNCHANGED vars

Next ==
    \/ StartFunction \/ SkipPrototype \/ MissingReturn \/ EndFunction
    \/ NextFunction \/ Fail
    \/ VisitSimple \/ VisitReturn \/ VisitBreak \/ VisitContinue
    \/ VisitIf \/ VisitWhile \/ VisitDo \/ VisitFor \/ VisitBlock
    \/ VisitAtom \/ VisitLogical \/ SkipCond
    \/ OpenScope \/ CloseScope
    \/ EmitLabel \/ EmitGoto \/ EmitBranch \/ EmitLine \/ EmitAct
    \/ AskLabel \/ NameLabel
    \/ StartRun \/ RunEval \/ RunAct \/ RunReturn \/ Done

Spec == Init /\ [][Next]_vars /\ WF_vars(Next)

-----------------------------------------------------------------------------
(* Properties.                                                             *)

\* The values the variables range over.
TypeOK ==
    /\ LabelsTypeOK
    /\ phase \in {"gen", "failed", "rejected",
                  "run", "halted", "spinning", "crashed"}
    /\ nodes \in 0 .. MaxNodes
    /\ opHint \in Hint /\ valueHint \in Hint
    /\ pc \in 0 .. Len(code)
    /\ seen \in Outcome

OpenLoops == {i \in DOMAIN scopeStack : scopeStack[i].type \in LoopType}

\* _loop_count, which is kept apart from the stack and which ResetLables does
\* not clear, is the number of loop scopes on it: across nested statements
\* and from one function to the next.
LoopsCounted == loopCount = Cardinality(OpenLoops)

\* Every visitor leaves the scopes it entered: when a function is done
\* nothing is open and no loop is counted, so the next one starts afresh.
ScopesBalanced ==
    (phase = "gen" /\ todo = <<>>) => (scopeStack = <<>> /\ loopCount = 0)

\* What break and continue assert: at each statement the label manager is
\* within a loop exactly when the source is.
LoopContextAgrees ==
    Do("stmt") => (WithinLoop <=> h.ctx.loop # "none")

\* What GenerateLabel and GenerateLineLabel assert: a label that is made up
\* was not handed out before, not even for an earlier function.
FreshLabels ==
    /\ Do("newlabel") => LabelOf(Innermost, h.name) \notin generated
    /\ Do("line") => LineLabel(labelCount) \notin generated

\* The hint of a condition is taken by the branch it is meant for, whatever is
\* visited in between and after it: the hint that is pending when anything but
\* a branch comes next, in any scope and any function, is none, or what the
\* last relation that was used as a value has left there.
HintOfLastValue ==
    (Generating /\ h.do # "branch") => opHint = valueHint

\* Each jump of a finished function goes to a label defined exactly once, and
\* each branch has a mnemonic the assembler knows.
CodeAssembles == phase # "rejected"

\* What running the code shows of the source: the point it is at.
ObservedPoint ==
    CASE phase \in {"gen", "failed", "rejected"} -> Building
      [] phase = "run"      -> code[pc].point
      [] phase = "halted"   -> Halt
      [] phase = "spinning" -> Spin
      [] phase = "crashed"  -> Crash

Source == INSTANCE StructuredFlow WITH at <- ObservedPoint

\* The code does what the source says: it executes the same operations in the
\* same order for the same outcomes of the comparisons, and ends, or loops
\* without doing anything, where the source does.
RunsAsWritten == Source!Spec

=============================================================================
