-------------------------- MODULE MCExpressionCode --------------------------
(* ExpressionCode on a small instance: one variable of each type that is a *)
(* parameter and one that is global, and statements that nest the kinds of *)
(* expression in one another.                                              *)
EXTENDS ExpressionCode

MCGlobalVars == [gi |-> "i", gf |-> "f", ga |-> "[i"]
Param(name, type) == [name |-> name, type |-> type]
MCParams == <<Param("x", "i"), Param("f", "f"), Param("c", "c"),
              Param("a", "[i"), Param("b", "[f")>>
MCFunctions == [putchar |-> <<"i">>, both |-> <<"i", "f">>, next |-> <<>>]

gi == Var("gi", "i")
gf == Var("gf", "f")
ga == Var("ga", "[i")
x == Var("x", "i")
f == Var("f", "f")
c == Var("c", "c")
a == Var("a", "[i")
b == Var("b", "[f")
y == Var("y", "i")
d == Var("d", "[i")

one  == Lit("1", "i")
two  == Lit("2", "i")
real == Lit("2.5", "f")

Plus(l, r)  == Arith("add", l, r)
Minus(l, r) == Arith("sub", l, r)
Set(l, r)   == Assign(l, "none", r)
Put(e)      == Call("putchar", <<e>>, "i")
Both(e, r)  == Call("both", <<e, r>>, "v")
NextInt     == Call("next", <<>>, "i")

Assignments ==
    {Set(x, one), Set(gi, x), Set(x, Plus(gi, two)), Set(gi, Set(x, gi)),
     Set(x, Minus(Plus(x, gi), Plus(gi, one))), Set(c, Lit("C", "c")),
     Assign(x, "add", gi), Assign(gi, "mul", Plus(x, one)),
     Assign(gf, "div", real), Set(x, Assign(gi, "sub", Set(x, two)))}

Elements ==
    {Set(x, Index(a, one)), Set(Index(a, x), two), Set(Index(ga, one), x),
     Set(gi, Set(Index(a, x), gi)), Set(x, Index(ga, Index(a, x))),
     Set(Index(b, Plus(x, one)), f), Assign(Index(a, x), "mul", two),
     Assign(Index(ga, Step("add", FALSE, x)), "sub", one),
     Set(f, Assign(Index(b, one), "add", real))}

Steps ==
    {Step("add", FALSE, x), Step("sub", TRUE, gi), Step("add", TRUE, f),
     Set(gi, Step("add", FALSE, x)), Set(x, Step("sub", FALSE, gi)),
     Set(x, Step("add", TRUE, gi)), Set(gf, Step("sub", TRUE, f)),
     Set(Index(a, Step("add", TRUE, x)), x)}

Conversions ==
    {Set(f, Cast(x, "f")), Set(f, Cast(one, "f")), Set(x, Cast(c, "i")),
     Set(c, Cast(Plus(x, one), "c")), Set(x, Cast(Index(b, x), "i")),
     Set(f, Negate(f)), Set(x, Plus(Negate(x), Negate(gi))), Negate(x)}

Calls ==
    {Put(x), Set(x, Put(Plus(gi, one))), Put(Set(x, one)), Put(Put(gi)),
     Both(x, Cast(gi, "f")), Both(Step("add", FALSE, x), real), NextInt,
     Put(Plus(x, Minus(gi, Plus(Put(one), Index(a, NextInt)))))}

Conditions ==
    {Relation(x, gi), Relation(f, gf), Relation(Plus(x, one), Index(a, two)),
     Relation(f, real), x, Plus(x, Negate(gi)), Relation(Put(x), one)}

Declarations ==
    {Initialise("y", two), Initialise("y", Plus(x, gi)),
     Initialise("y", Put(x)), Declare("y", "i"), DeclareArray("d", "[i", "4")}

UsesOfLocals == {Set(gi, y), Step("add", TRUE, y), Set(Index(d, one), gi)}

MCStmts ==
    {Evaluate(e) : e \in Assignments \union Elements \union Steps
                         \union Conversions \union Calls \union UsesOfLocals}
    \union {If(e) : e \in Conditions} \union Declarations
    \union {Return(x), Return(Set(Index(a, x), one)), Return(Cast(f, "i"))}

\* An initialiser that is just a variable.
VariableInit == {Initialise("y", x), Evaluate(Set(gi, y)),
                 Evaluate(Plus(x, one)), Initialise("y", two),
                 Evaluate(Put(x)), Evaluate(Set(x, Index(a, one)))}

=============================================================================
