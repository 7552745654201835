--------------------------- MODULE SyntaxParser ---------------------------
(***************************************************************************)
(* The parser on any list of tokens, from any of the functions where it    *)
(* can be entered: a statement, a block, a declaration or a file.          *)
(***************************************************************************)
EXTENDS DeclParser, FiniteSets

\* What is parsed: the entry, the first tokens of the list, what the rest is made
\* of, and how long the list is at most.
CONSTANT Inputs

ASSUME InputsAssumption == \A input \in Inputs :
  /\ input.entry \in {"Statement", "Block", "Declaration", "File"}
  /\ input.first \in Seq(Spellings) /\ input.rest \subseteq Spellings
  /\ input.limit \in Nat

vars == <<tokenVars, controlVars, unitVars, inside_loop>>

Init ==
  /\ \E input \in Inputs :
       /\ tokens = input.first /\ alphabet = input.rest /\ limit = input.limit
       /\ todo = <<Do(input.entry)>>
  /\ ended = FALSE /\ taken = <<>> /\ cached = <<>>
  /\ built = <<>> /\ outcome = "parsing"
  /\ UnitInit /\ inside_loop = FALSE

Write == /\ Running /\ ~Readable /\ Supply
         /\ UNCHANGED <<controlVars, unitVars, inside_loop>>

Ends(how) == /\ outcome' = how
             /\ UNCHANGED <<tokenVars, todo, built, unitVars, inside_loop>>

\* peek asks for the first token again and again while it is a qualifier.
Spin == Running /\ Readable /\ Peeks /\ ~PeekReturns /\ Ends("spins")

\* The first token of an empty list, or one after the end, is read: anything may
\* happen.
PastEnd == /\ Running /\ ~Readable /\ ended
           /\ ~(tokens = <<>> /\ Doing.does \in {"Statements", "File"})
           /\ Ends("undefined")

Next ==
  \/ ParseExpr /\ UNCHANGED <<unitVars, inside_loop>>
  \/ ParseStmt /\ UNCHANGED unitVars
  \/ ParseDecl /\ UNCHANGED inside_loop
  \/ Write \/ Spin \/ PastEnd

Spec == Init /\ [][Next]_vars /\ WF_vars(Next)

-----------------------------------------------------------------------------

\* The parser's state is well formed: places and spellings, one open scope or two.
TypeOK ==
  /\ tokens \in Seq(Spellings) /\ taken \in Seq(Spellings) /\ cached \in Seq(Qualifiers)
  /\ ended \in BOOLEAN /\ inside_loop \in BOOLEAN
  /\ outcome \in {"parsing", "error", "aborted", "no parser", "spins", "undefined"}
  /\ \A i \in DOMAIN todo : todo[i].op.is \in Spellings \union {""}
  /\ Len(scope) \in 1 .. 2 /\ \A i \in DOMAIN scope : scope[i] \in DOMAIN structs

\* A parser that returns, with a node or with an error, leaves the unit in the scope
\* in which it was called, for the next declaration (create_func and leave_scope).
ScopeRestored == (Parsed \/ outcome = "error") => scope = <<ROOT>>

\* A break or continue is only accepted within a loop whose parser has not returned:
\* the static flag of ParserBase agrees with the calls.
JumpsInLoops ==
  (\E i \in DOMAIN todo : todo[i].does = "Jump") =>
    \E i \in DOMAIN todo : todo[i].does \in {"Do while", "Exit loop", "For"}

\* Every parse of a finite list comes to an end, unless a qualifier is in the way:
\* no function is called again without a token consumed.
Decides == <>(Parsed \/ outcome # "parsing")
=============================================================================
