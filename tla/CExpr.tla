------------------------------- MODULE CExpr -------------------------------
(***************************************************************************)
(* Expressions and statements of a function body as the code generator     *)
(* gets them, after types were checked and casts inserted, and what they   *)
(* mean in C: the values they compute, the variables they change and the   *)
(* calls, tests and returns they make, in order.                           *)
(*                                                                         *)
(* Values are terms.  A variable holds the term that names it until it is  *)
(* assigned, so what is found for one statement holds for every memory it  *)
(* may start in.                                                           *)
(***************************************************************************)
EXTENDS Sequences, Naturals

(***************************************************************************)
(* Types, by the letter the JVM has for them.  long, short and double are  *)
(* left out.                                                               *)
(***************************************************************************)
Scalar  == {"i", "c", "f"}
ArrayOf == [i |-> "[i", c |-> "[c", f |-> "[f"]
IsArray(type) == type \in {"[i", "[c", "[f"}
ElementOf(type) == CHOOSE e \in Scalar : ArrayOf[e] = type

\* The type of a value on the operand stack: a char is an int there, and an
\* array a reference.
Wide(type) == CASE type = "c" -> "i"
                [] IsArray(type) -> "a"
                [] OTHER -> type

-----------------------------------------------------------------------------
(* Trees.                                                                  *)

Lit(value, type) == [kind |-> "lit", value |-> value, type |-> type]
Var(name, type)  == [kind |-> "var", name |-> name, type |-> type]
Index(array, sub) == [kind |-> "index", base |-> array, sub |-> sub,
                      type |-> ElementOf(array.type)]
Arith(fn, l, r)  == [kind |-> "arith", fn |-> fn, lhs |-> l, rhs |-> r,
                     type |-> l.type]
Cast(e, type)    == [kind |-> "cast", expr |-> e, type |-> type]
Negate(e)        == [kind |-> "negate", expr |-> e, type |-> e.type]
Relation(l, r)   == [kind |-> "relation", lhs |-> l, rhs |-> r, type |-> "i"]
\* fn is "none" for a plain assignment.
Assign(l, fn, r) == [kind |-> "assign", lhs |-> l, fn |-> fn, rhs |-> r,
                     type |-> l.type]
\* ++ and --, before or after the variable.
Step(fn, prefix, e) == [kind |-> "step", fn |-> fn, prefix |-> prefix,
                        expr |-> e, type |-> e.type]
\* type "v" is that of a function that returns nothing.
Call(name, args, type) == [kind |-> "call", name |-> name, args |-> args,
                           type |-> type]

\* Constants, and casts of them, are known to the compiler.
Deduced(e) == e.kind = "lit" \/ (e.kind = "cast" /\ e.expr.kind = "lit")
Constant(e) == IF e.kind = "lit" THEN e.value ELSE e.expr.value

Evaluate(e) == [kind |-> "evaluate", expr |-> e]
Return(e)   == [kind |-> "return", expr |-> e]
If(e)       == [kind |-> "if", expr |-> e]
Declare(name, type)      == [kind |-> "declare", name |-> name, type |-> type]
Initialise(name, e)      == [kind |-> "initialise", name |-> name,
                             type |-> e.type, expr |-> e]
DeclareArray(name, type, size) ==
    [kind |-> "array", name |-> name, type |-> type, size |-> size]

Declares(s) == s.kind \in {"declare", "initialise", "array"}

RECURSIVE NamesIn(_)
NamesIn(e) ==
    CASE e.kind = "lit" -> {}
      [] e.kind = "var" -> {e.name}
      [] e.kind = "index" -> NamesIn(e.base) \union NamesIn(e.sub)
      [] e.kind \in {"arith", "relation", "assign"} ->
            NamesIn(e.lhs) \union NamesIn(e.rhs)
      [] e.kind \in {"cast", "negate", "step"} -> NamesIn(e.expr)
      [] e.kind = "call" -> UNION {NamesIn(e.args[k]) : k \in DOMAIN e.args}

Uses(s) == IF s.kind \in {"declare", "array"} THEN {} ELSE NamesIn(s.expr)

-----------------------------------------------------------------------------
(* Terms.                                                                  *)

Term(op, type, args) == [op |-> op, type |-> type, args |-> args]
Const(value, type)   == Term("const", Wide(type), <<Term(value, "v", <<>>)>>)

Converted(t, from, to) ==
    IF Wide(from) = to THEN t
    ELSE IF t.op = "const" THEN [t EXCEPT !.type = Wide(to)]
    ELSE Term(Wide(from) \o "2" \o to, Wide(to), <<t>>)

At(array, sub) == Term("at", Wide(ElementOf(array.type)), <<array, sub>>)
With(array, sub, t) == Term("with", array.type, <<array, sub, t>>)

Event(what, terms) == [what |-> what, terms |-> terms]

-----------------------------------------------------------------------------
(* What C says.  A meaning m has the variables (an array is one term), the *)
(* events so far and the value of the expression last evaluated.           *)

Note(m, what, terms) == [m EXCEPT !.events = Append(@, Event(what, terms))]
Value(m, t)          == [m EXCEPT !.value = t]

\* The term at a variable or at an element of an array, and a change of it.
Stored(e, sub, m) ==
    IF e.kind = "var" THEN m.vars[e.name] ELSE At(m.vars[e.base.name], sub)
Store(e, sub, t, m) ==
    IF e.kind = "var" THEN [m EXCEPT !.vars[e.name] = t]
    ELSE [m EXCEPT !.vars[e.base.name] = With(@, sub, t)]

RECURSIVE Meaning(_, _), MeaningOfArgs(_, _, _)

\* The subscript of the place an assignment goes to is evaluated first.
Place(e, m) == IF e.kind = "index" THEN Meaning(e.sub, m) ELSE m

\* The arguments from the first on; terms are those found so far.
MeaningOfArgs(args, terms, m) ==
    IF args = <<>> THEN <<terms, m>>
    ELSE LET first == Meaning(Head(args), m)
         IN  MeaningOfArgs(Tail(args), Append(terms, first.value), first)

Meaning(e, m) ==
    CASE Deduced(e) -> Value(m, Const(Constant(e), e.type))
      [] e.kind = "var" -> Value(m, m.vars[e.name])
      [] e.kind = "index" ->
            LET sub == Meaning(e.sub, m)
            IN  Value(sub, Stored(e, sub.value, sub))
      [] e.kind \in {"arith", "relation"} ->
            LET l == Meaning(e.lhs, m)
                r == Meaning(e.rhs, l)
                fn == IF e.kind = "arith" THEN e.fn ELSE "compare"
            IN  Value(r, Term(fn, Wide(e.type), <<l.value, r.value>>))
      [] e.kind = "cast" /\ ~Deduced(e) ->
            LET inner == Meaning(e.expr, m)
            IN  Value(inner, Converted(inner.value, e.expr.type, e.type))
      [] e.kind = "negate" ->
            LET inner == Meaning(e.expr, m)
            IN  Value(inner, Term("neg", Wide(e.type), <<inner.value>>))
      [] e.kind = "assign" ->
            LET place == Place(e.lhs, m)
                old == Stored(e.lhs, place.value, place)
                rhs == Meaning(e.rhs, place)
                new == IF e.fn = "none" THEN rhs.value
                       ELSE Term(e.fn, Wide(e.type), <<old, rhs.value>>)
            IN  Value(Store(e.lhs, place.value, new, rhs), new)
      [] e.kind = "step" ->
            LET place == Place(e.expr, m)
                old == Stored(e.expr, place.value, place)
                new == Term(e.fn, Wide(e.type), <<old, Const("1", e.type)>>)
            IN  Value(Store(e.expr, place.value, new, place),
                      IF e.prefix THEN new ELSE old)
      [] e.kind = "call" ->
            LET done == MeaningOfArgs(e.args, <<>>, m)
            IN  Value(Note(done[2], e.name, done[1]),
                      Term(e.name, Wide(e.type), done[1]))

MeaningOfStmt(s, m) ==
    CASE s.kind = "evaluate" -> Meaning(s.expr, m)
      [] s.kind = "return" ->
            LET r == Meaning(s.expr, m) IN Note(r, "return", <<r.value>>)
      [] s.kind = "if" ->
            LET r == Meaning(s.expr, m) IN Note(r, "test", <<r.value>>)
      [] s.kind = "declare" -> m
      [] s.kind = "initialise" ->
            LET r == Meaning(s.expr, m) IN [r EXCEPT !.vars[s.name] = r.value]
      [] s.kind = "array" ->
            [m EXCEPT !.vars[s.name] =
                Term("new", s.type, <<Const(s.size, "i")>>)]

=============================================================================
