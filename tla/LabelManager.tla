---------------------------- MODULE LabelManager ----------------------------
(***************************************************************************)
(* Hzcc::Codegen::LabelManager (codegen/LabelManager.cc): the stack of     *)
(* statement scopes that is open while the JVM generator walks a function, *)
(* the count of enclosing loops, the labels handed out so far and the line *)
(* number table.                                                           *)
(*                                                                         *)
(* The C++ labels are strings "L<row>_<col>_<type>_<part>".  A label is    *)
(* modelled by what makes it distinct: the location and type of its scope  *)
(* and its last part.  The location of a statement is one opaque value.    *)
(* A module that EXTENDS this one composes the operations below with its   *)
(* own steps.                                                              *)
(***************************************************************************)
EXTENDS Naturals, Sequences

VARIABLES
    scopeStack,      \* _scope_stack: a sequence of [loc, type], innermost last
    loopCount,       \* _loop_count
    generated,       \* _generated_labels
    labelCount,      \* _label_count
    lineTable        \* _line_number_table: the line labels, in order

lmVars == <<scopeStack, loopCount, generated, labelCount, lineTable>>

ScopedType == {"if", "do", "while", "for", "switch",
               "equal", "notequal", "else_if", "logical", "ternary"}

LoopType == {"while", "for", "do"}

NoLabel == <<"">>

Innermost == scopeStack[Len(scopeStack)]

LabelOf(scope, part) == <<scope.loc, scope.type, part>>

LineLabel(k) == <<"LINE", k>>

\* The values of the stack and of the two counts.
LabelsTypeOK ==
    /\ scopeStack \in Seq([loc : Nat, type : ScopedType])
    /\ loopCount \in Nat
    /\ labelCount \in Nat

LabelManagerInit ==
    /\ scopeStack = <<>>
    /\ loopCount = 0
    /\ generated = {}
    /\ labelCount = 0
    /\ lineTable = <<>>

\* Fault: a do scope is not counted as a loop.
EnterScopeSkippingDo(loc, type) ==
    /\ scopeStack' = Append(scopeStack, [loc |-> loc, type |-> type])
    /\ loopCount' = IF type \in {"while", "for"} THEN loopCount + 1
                                                 ELSE loopCount
    /\ UNCHANGED <<generated, labelCount, lineTable>>

\* A while, for or do scope also counts as one more enclosing loop.
EnterScope(loc, type) ==
    /\ scopeStack' = Append(scopeStack, [loc |-> loc, type |-> type])
    /\ loopCount' = IF type \in LoopType THEN loopCount + 1 ELSE loopCount
    /\ UNCHANGED <<generated, labelCount, lineTable>>

\* Faults: every scope is counted out as a loop; a for scope never is.
LeaveScopeAsLoop ==
    /\ scopeStack # <<>>
    /\ loopCount' = loopCount - 1
    /\ scopeStack' = SubSeq(scopeStack, 1, Len(scopeStack) - 1)
    /\ UNCHANGED <<generated, labelCount, lineTable>>

LeaveScopeSkippingFor ==
    /\ scopeStack # <<>>
    /\ loopCount' = IF Innermost.type \in {"while", "do"} THEN loopCount - 1
                                                          ELSE loopCount
    /\ scopeStack' = SubSeq(scopeStack, 1, Len(scopeStack) - 1)
    /\ UNCHANGED <<generated, labelCount, lineTable>>

\* back() and pop_back() need a scope: the source asserts it.
LeaveScope ==
    /\ scopeStack # <<>>
    /\ loopCount' = IF Innermost.type \in LoopType THEN loopCount - 1
                                                   ELSE loopCount
    /\ scopeStack' = SubSeq(scopeStack, 1, Len(scopeStack) - 1)
    /\ UNCHANGED <<generated, labelCount, lineTable>>

\* GetScopeEntryLabel and GetScopeExitLabel: a label of the innermost scope,
\* the empty string when there is none.
ScopeLabel(part) ==
    IF scopeStack = <<>> THEN NoLabel ELSE LabelOf(Innermost, part)

\* Fault: the search starts at the outermost scope.
OutermostLoopLabel(part) ==
    LET loops == {i \in DOMAIN scopeStack : scopeStack[i].type \in LoopType}
    IN  IF loops = {} THEN NoLabel
        ELSE LabelOf(scopeStack[CHOOSE i \in loops : \A j \in loops : i <= j],
                     part)

\* GetLoopEntryLabel and GetLoopExitLabel: the innermost *loop* scope, found
\* from the back of the stack.
LoopLabel(part) ==
    LET loops == {i \in DOMAIN scopeStack : scopeStack[i].type \in LoopType}
    IN  IF loops = {} THEN NoLabel
        ELSE LabelOf(scopeStack[CHOOSE i \in loops : \A j \in loops : j <= i],
                     part)

WithinLoop == loopCount # 0

\* What asking for a label leaves in the label manager: the scope labels are
\* recorded each time they are asked for, a loop label never is.
Record(label) ==
    /\ generated' = IF label = NoLabel THEN generated
                                       ELSE generated \union {label}
    /\ UNCHANGED <<scopeStack, loopCount, labelCount, lineTable>>

\* GenerateLabel with a name.
GenerateLabel(name) == Record(LabelOf(Innermost, name))

\* GenerateLineLabel followed by the SetLineNumberTag its caller makes.
GenerateLineLabel ==
    /\ generated' = generated \union {LineLabel(labelCount)}
    /\ labelCount' = labelCount + 1
    /\ lineTable' = Append(lineTable, LineLabel(labelCount))
    /\ UNCHANGED <<scopeStack, loopCount>>

\* Fault: the labels of the previous function are kept.
ResetLablesKeepingLabels ==
    /\ labelCount' = 0
    /\ scopeStack' = <<>>
    /\ lineTable' = <<>>
    /\ UNCHANGED <<loopCount, generated>>

\* Everything but _loop_count is cleared.
ResetLables ==
    /\ labelCount' = 0
    /\ scopeStack' = <<>>
    /\ generated' = {}
    /\ lineTable' = <<>>
    /\ UNCHANGED loopCount

=============================================================================
