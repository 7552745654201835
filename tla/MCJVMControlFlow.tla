-------------------------- MODULE MCJVMControlFlow --------------------------
(***************************************************************************)
(* Small instances of JVMControlFlow.                                      *)
(***************************************************************************)
EXTENDS JVMControlFlow

Int(rel)   == [form |-> "atom", operands |-> "int", rel |-> rel]
Float(rel) == [form |-> "atom", operands |-> "float", rel |-> rel]
Value      == [form |-> "atom", operands |-> "value", rel |-> "ne"]
Both(l, r)   == [form |-> "and", lhs |-> l, rhs |-> r]
Either(l, r) == [form |-> "or", lhs |-> l, rhs |-> r]
Absent     == [form |-> "none"]

\* The six relations, values, and the logical operators where they work.
MCConds ==
    [if      |-> {Int("lt"), Both(Int("ge"), Value), Either(Value, Int("eq"))},
     else_if |-> {Int("eq"), Either(Int("gt"), Both(Value, Int("ne")))},
     while   |-> {Int("le"), Both(Int("lt"), Value)},
     for     |-> {Absent, Int("gt")},
     do      |-> {Int("ne"), Either(Int("eq"), Value)}]

MCContinueIn == {"while", "for"}

\* The result of fcmp is assigned, returned or tested as it stands.  (A
\* relation over ints that is used as a value leaves an operand on the stack
\* besides its hint, which is the operand machine's matter.)
MCValueRelations == {Float("lt")}
NoRelations      == {}

\* A constant that is true, as in while (1).
Constant == [form |-> "const"]

Only(kind, conds) == [[k \in DOMAIN MCConds |-> {Int("lt")}]
                         EXCEPT ![kind] = conds]

WhileOrConds    == Only("while", {Either(Int("lt"), Int("gt"))})
WhileConstConds == Only("while", {Constant})
FloatConds      == Only("if", {Float("lt")})
ValueConds      == Only("if", {Value})

=============================================================================
