--------------------------- MODULE OperandMachine ---------------------------
(***************************************************************************)
(* The instructions the generator writes for expressions and what the JVM  *)
(* does with them: the operand stack, the local variables of a method, the *)
(* static fields and the arrays.  Outside src/hzcc; modelled from the      *)
(* instructions the generator uses.  A machine that finds an operand       *)
(* missing or of the wrong type is no longer ok (the verifier refuses the  *)
(* class).                                                                 *)
(***************************************************************************)
EXTENDS CExpr

Instr(op)             == [op |-> op]
Push(t)               == [op |-> "push", term |-> t]
LoadSlot(type, slot)  == [op |-> "load", type |-> type, slot |-> slot]
StoreSlot(type, slot) == [op |-> "store", type |-> type, slot |-> slot]
GetStatic(name)       == [op |-> "getstatic", name |-> name]
PutStatic(name)       == [op |-> "putstatic", name |-> name]
ArrayLoad(type)       == [op |-> "xaload", type |-> type]
ArrayStore(type)      == [op |-> "xastore", type |-> type]
NewArray(type)        == [op |-> "newarray", type |-> type]
Compute(fn, type)     == [op |-> "compute", fn |-> fn, type |-> type]
Neg(type)             == [op |-> "neg", type |-> type]
Convert(from, to)     == [op |-> "convert", from |-> from, to |-> to]
Increment(fn, slot)   == [op |-> "iinc", fn |-> fn, slot |-> slot]
Invoke(name, params, type) ==
    [op |-> "invoke", name |-> name, params |-> params, type |-> type]
\* The branch of an if: on two operands, or on one that is compared with zero.
BranchOn(takes)       == [op |-> "branch", takes |-> takes]
CompareFloats         == [op |-> "fcmp"]
ReturnValue(type)     == [op |-> "return", type |-> type]

\* A line that is no instruction.
Malformed == Instr("malformed")

\* Nothing is written: the compiler stops with LOG(FATAL).
Abort == Instr("abort")

-----------------------------------------------------------------------------
(* A machine m has the operand stack (top last), the local variables by    *)
(* slot, the static fields by name, the arrays by the name of the term     *)
(* that refers to them, the events so far, and whether it is still ok.     *)

Depth(m) == Len(m.stack)
\* The operand k below the top.
Operand(m, k) == m.stack[Depth(m) - k]

\* The types on top of the stack, the topmost last.
Holding(m, types) ==
    /\ Depth(m) >= Len(types)
    /\ \A k \in DOMAIN types :
          m.stack[Depth(m) - Len(types) + k].type = types[k]

Operands(m, n) == SubSeq(m.stack, Depth(m) - n + 1, Depth(m))
Replace(m, n, new) == [m EXCEPT !.stack = SubSeq(@, 1, Depth(m) - n) \o new]

Only(m, condition, next) == IF condition THEN next ELSE [m EXCEPT !.ok = FALSE]

\* i is an instruction that moves a value.
Move(i, m) ==
    CASE i.op = "push" -> Replace(m, 0, <<i.term>>)
      [] i.op = "load" ->
            Only(m, m.slots[i.slot].type = i.type,
                 Replace(m, 0, <<m.slots[i.slot]>>))
      [] i.op = "store" ->
            Only(m, Holding(m, <<i.type>>),
                 Replace([m EXCEPT !.slots[i.slot] = Operand(m, 0)], 1, <<>>))
      [] i.op = "getstatic" -> Replace(m, 0, <<m.fields[i.name]>>)
      [] i.op = "putstatic" ->
            Only(m, Holding(m, <<m.fields[i.name].type>>),
                 Replace([m EXCEPT !.fields[i.name] = Operand(m, 0)], 1, <<>>))
      [] i.op = "dup" -> Only(m, Depth(m) >= 1, Replace(m, 0, Operands(m, 1)))
      [] i.op = "dup2" -> Only(m, Depth(m) >= 2, Replace(m, 0, Operands(m, 2)))
      [] i.op = "dup_x2" ->
            Only(m, Depth(m) >= 3,
                 Replace(m, 3, <<Operand(m, 0)>> \o Operands(m, 3)))
      [] i.op = "pop" -> Only(m, Depth(m) >= 1, Replace(m, 1, <<>>))

\* i uses the array that is referred to on the stack, or makes one.
UseArray(i, m) ==
    LET Array(k) == m.heap[Operand(m, k).op]
        Has(types, k) == /\ Holding(m, types)
                         /\ Array(k).type = ArrayOf[i.type]
        new == Term("new", ArrayOf[i.type], <<Operand(m, 0)>>)
    IN  CASE i.op = "xaload" ->
                Only(m, Has(<<"a", "i">>, 1),
                     Replace(m, 2, <<At(Array(1), Operand(m, 0))>>))
          [] i.op = "xastore" ->
                Only(m, Has(<<"a", "i", Wide(i.type)>>, 2),
                     Replace([m EXCEPT !.heap[Operand(m, 2).op] =
                                 With(@, Operand(m, 1), Operand(m, 0))],
                             3, <<>>))
          [] i.op = "newarray" ->
                Only(m, Holding(m, <<"i">>),
                     Replace([m EXCEPT !.heap["fresh"] = new], 1,
                             <<Term("fresh", "a", <<>>)>>))

\* i computes, or hands values out.
Act(i, m) ==
    LET Is(types, next) == Only(m, Holding(m, types), next)
    IN  CASE i.op = "compute" ->
                Is(<<i.type, i.type>>,
                   Replace(m, 2, <<Term(i.fn, i.type, Operands(m, 2))>>))
          [] i.op = "neg" ->
                Is(<<i.type>>,
                   Replace(m, 1, <<Term("neg", i.type, Operands(m, 1))>>))
          [] i.op = "convert" ->
                Only(m, Holding(m, <<i.from>>) /\ <<i.from, i.to>> # <<"f", "c">>,
                     Replace(m, 1, <<Converted(Operand(m, 0), i.from, i.to)>>))
          [] i.op = "iinc" ->
                Only(m, m.slots[i.slot].type = "i",
                     [m EXCEPT !.slots[i.slot] =
                         Term(i.fn, "i", <<@, Const("1", "i")>>)])
          [] i.op = "fcmp" ->
                Is(<<"f", "f">>,
                   Replace(m, 2, <<Term("compare", "i", Operands(m, 2))>>))
          [] i.op = "invoke" ->
                Is(i.params,
                   LET args == Operands(m, Len(i.params))
                   IN  Replace(Note(m, i.name, args), Len(i.params),
                               IF i.type = "v" THEN <<>>
                               ELSE <<Term(i.name, Wide(i.type), args)>>))
          [] i.op = "branch" /\ i.takes = 1 ->
                Is(<<"i">>, Replace(Note(m, "test", Operands(m, 1)), 1, <<>>))
          [] i.op = "branch" /\ i.takes = 2 ->
                Is(<<"i", "i">>,
                   Replace(Note(m, "test",
                                <<Term("compare", "i", Operands(m, 2))>>),
                           2, <<>>))
          [] i.op = "return" ->
                Is(<<i.type>>,
                   [Note(m, "return", Operands(m, 1)) EXCEPT !.stack = <<>>])

Execute(i, m) ==
    CASE i.op \in {"push", "load", "store", "getstatic", "putstatic",
                   "dup", "dup2", "dup_x2", "pop"} -> Move(i, m)
      [] i.op \in {"xaload", "xastore", "newarray"} -> UseArray(i, m)
      [] i.op = "malformed" -> [m EXCEPT !.ok = FALSE]
      [] OTHER -> Act(i, m)

=============================================================================
