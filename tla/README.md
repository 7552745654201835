# A formal model of hzcc

hzcc is a compiler from a subset of C to JVM assembly, written in C++17. This
directory holds TLA+ specifications translated from its source (`src/hzcc/`),
configurations that model-check them with TLC, and proofs checked with TLAPS.
`PROJECT.json` lists the components, the runs, the map from definitions to
source lines, the hazards, the findings and the theorems.

At the modelled commit the repository is in the middle of a refactoring.
`main.cc` calls the lexer and the parser only; its call of the code generator is
commented out, and the files under `codegen/` and `optimization/` still include
the old paths (`AST/...`) and partly use the old namespace (`Hzcc`). They are
modelled as they stand, as the code generator of the compiler. The new parser
has no parser registered for `Expr`, `VarDecl` and `DeclStmt`
(`parser_factory.h:45-58`).

## 1. Inventory

Source paths below are relative to `src/hzcc/`.

| Component | State | Operations | Interacts with |
|---|---|---|---|
| Driver (`main.cc`) | command line | lexes and parses each file | lexer, parser |
| Lexer (`parser/lexical/LexicalParser.cc`) | row, column, whether a comment is open | `ParseToToken`, one handler per kind of token | produces the token list |
| Token list (`utils/cached_list.h`) | tokens, qualifiers set aside | `pop`, `push`, `peek`, `peek2`, `peek3`, `cache_attr_list` | consumed by every parser |
| Declaration parser (`syntax_impl.cc`, `decl_parser.cc`, `common_utils.h`) | — | variables, functions, structs | token list, compilation unit |
| Statement parsers (`parser/syntax/parser/statements/`) | static flag `_inside_loop` | one parser per statement; they push semicolons back | token list, scopes |
| Expression parser (`statement_parser.cc`) | — | one function per level of precedence | token list |
| Compilation unit, symbol table (`ast/CompilationUnit.cc`, `ast/SymbTbl.cc`) | tree of scopes, current scope, functions, types | enter and leave scopes, look up, add | parsers, semantic analyser |
| Semantic analyser (`parser/semantic_analyzer.cc`) | context over the unit | checks types, inserts casts | symbol table, casts |
| Types, casts, constants (`ast/type`, `ast/cast`, `ast/DeduceValue.cc`) | table of cast rules | apply rules until types agree; fold | analyser, generator |
| Pass manager (`optimization/`) | passes | runs passes over functions it takes out of the unit | compilation unit |
| JVM generator (`codegen/jvm/`) | branch hint, three context flags, emitted text | one visitor per node | label manager, stack manager |
| Label manager (`codegen/LabelManager.cc`) | scope stack, loop count, labels, line table | enter, leave, labels, reset | JVM generator |
| Function analyser, stack manager (`codegen/jvm/`) | locals, temporaries, stack depth | a first pass over a function | JVM generator |
| Status (`utils/status/`) | words, counted reps, the value of a `StatusOr` | copy, move, assign, swap, `Update`, `emplace`, ... | returned by everything |

The program is sequential: there are no threads and nothing is persisted. What
is hard in it is the **sequence** of operations on shared mutable state. Visitors
and parsers communicate through fields (`_prevOpType`, `_loop_count`, the scope
stack, `_inside_loop`, cached qualifiers, the current scope), and each must leave
them as its callers expect, on error returns too, from one statement to the next
and from one function to the next. Tests compile whole small programs and
compare output, so they reach few of the combinations.

What makes each component correct:

- *Label manager*: the loop count is the number of open loops; scopes nest;
  labels are unique; `break` and `continue` find the innermost loop.
- *JVM generator*: the code assembles and does what the C statements say; a
  branch uses the hint of the comparison right before it.
- *Lexer*: every character belongs to the token, the comment or the white space
  C says it belongs to; unterminated comments and literals are refused; it ends.
- *Token list and parsers*: no token is lost or duplicated; `peek` agrees with
  `pop`; qualifiers go to the declaration they were written for; the tree has
  the grammar's precedence and associativity; every construct leaves the scope
  it entered; `break` is accepted exactly inside loops.
- *Symbol table*: names resolve to the innermost declaration; scopes balance.
- *Status*: the count of a rep is the number of its holders; the value of a
  `StatusOr` is alive exactly while it is OK; copies are independent values.
- *Pass manager*: no declaration is lost when a pass fails.
- *Casts and constants*: the loop over the rules ends; folding agrees with the
  operation folded.

## 2. The parts and their order

The most important behaviour first; items 1 to 5 are in this directory.

1. **Label manager and statement visitors**: `LabelManager` is extended by
   `JVMControlFlow`, which refines the abstract `StructuredFlow`. Proofs in
   `JVMControlFlowProofs`, `LoopContextProofs`, `HintProofs`, `LabelProofs` and
   `AssemblyProofs`.
2. **Lexer**: `Lexer` over `LexicalRules`, compared with the reference automaton
   `CScanner`. Proofs in `LexerProofs`.
3. **Function analyser, stack manager and the expression visitors** (but for
   ternary and logical expressions as values): `ExpressionCode` over
   `FuncAnalyzer`, `StackManager` and `OperandMachine`, compared with the
   meaning that `CExpr` gives to C.
4. **Status and StatusOr**: `Status` over `StatusWord`, extended by `StatusOr`,
   which refines the abstract `StatusValue`. Proofs in `StatusProofs`.
5. **The parser**: `TokenList`, `SyntaxTree` and `CompilationUnit`, on which
   `ExprParser`, `StmtParser` and `DeclParser` stand, each extending the one
   before; `SyntaxParser` closes the specification, `ParserWords` says where
   the words of its input are in its trees, and `ParserTrees` compares the trees
   with the reference grammar `CGrammar`. Proofs in `SyntaxParserProofs`.
6. Not begun: pass manager, casts and constant folding as small modules of their
   own; the semantic analyser after them, once the tree it works on can be parsed
   at all (see `NoParser` below).

## 3. The modules

### LabelManager

`scopeStack`, `loopCount`, `generated`, `labelCount` and `lineTable` are the
fields of `LabelManager.h`; `EnterScope`, `LeaveScope`, `GenerateLabel`,
`GenerateLineLabel` and `ResetLables` are its methods. A label is a string
`L<row>_<col>_<type>_<part>` in the code; here it is the tuple of location, type
and part, which are what makes two of the strings differ. Locations are numbers,
one per statement: two statements do not begin at one place. `ScopeLabel` and
`LoopLabel` each stand for an entry and an exit method that differ in the last
part only. A label that the code asks for is recorded in `generated`, except loop
labels, which the code does not record either.

### OpHint

The relational visitor's hint for each operator (`IntHint`, `FloatHint`) and the
two tables of branch mnemonics (`JumpIf`, `JumpUnless`). A mnemonic is modelled
by the relation on which it jumps. The entries of the tables for
`Logical_LessEqual` lack the blank between mnemonic and label and are `Glued`.

### JVMControlFlow

The generator and, after it, the run of the code it generated.

*Generation.* The recursion of the C++ visitors is the stack `todo`. A visitor is
an operator that returns its *plan*, the sequence of what it emits
(`WhilePlan`, `ForPlan`, `IfPlan`, ...): label lines, branches, gotos, and visits
to its parts, in the order of the source; an item `InScope` stands for
`EnterScope`, the items inside, and `LeaveScope`. One action executes the item at
the head of `todo`, so the state of the label manager is always the one the C++
code has at that point. The tree is chosen as it is visited: `VisitIf`,
`VisitWhile`, ... are the alternatives of a statement. `Fail` is the error
return out of all visitors; `MissingReturn` the refusal of a function;
`SkipPrototype` a function without a body; `NextFunction` the loop of `Generate`,
with the same generator and so with the label manager and hint as they were left.

*Hints.* `opHint` is `_prevOpType`. A relation used as a condition sets it, and the
branch that comes next takes it and clears it (`VisitAtom`, `EmitBranch`). A relation
whose result is assigned, returned or passed to a function sets it as well, and no
branch comes: `EvaluateValue`, which `VisitSimple`, `VisitReturn`, the initialiser and
the step of a `for` and the values used as conditions share, leaves any hint of
`ValueRelations`. The history variable `valueHint` is the hint that such a relation
has left since the last branch. A value that is tested while a hint is pending is
branched on with that hint; `StaleTests` says whether an instance has such tests.

*What the source means.* Beside the plan, each visit records in the history
variable `flow` what the C statement means: which point of the program comes
after which, and after which outcome of a comparison. The points
(`SourcePoint`) are a statement, its condition, the operands of a condition, the
initialiser or the step of a `for`. `flow` comes from the meaning of C, not from
the plan, and no guard of the generator reads it except for the kind of the last
statement of a function, which the code looks at too.

*The run.* `StartRun` assembles a finished function: each target must be defined
once, each mnemonic known. `RunEval`, `RunAct` and `RunReturn` execute it, with
any outcome (less, equal, greater) at each comparison. The assembler and the JVM
are outside `src/hzcc` and are modelled from how the code uses them: labels,
gotos, branches that take the operands of the comparison before them.

### StructuredFlow

The abstract specification: a machine that walks `flow`. `JVMControlFlow`
implements it under the mapping that shows, of a run, the point it is at
(`ObservedPoint`); the property `RunsAsWritten` is the whole abstract
specification. Jumps are invisible, so the code may jump as it likes; it may not
execute another operation, test another condition, go on after a test on the
wrong side, end early, or stop on a missing operand.

### LexicalRules, Lexer, CScanner

`LexicalRules` holds the character classes, the table of operators and the
formats of numbers. `Lexer` is `ParseToToken`: `ReadLine` with the search for the
end of an open comment, `EndLine`, `EndOfFile`, and one action per handler. A
handler moves the column to the last character it used and the loop adds one;
the actions do both. The C++ index of a character is kept, with the NUL at the
line's length, which several handlers read. `CharLiteral` reads past it in one
case; what it finds there is undefined and the action has both outcomes
(`overrun` records it). Tokens carry the columns they cover besides the one the
code gives them. The file is chosen as it is read, line by line.

`CScanner` is the reference: an automaton that reads a line one character at a
time and says what each character belongs to. It has no handlers, no searches
and no columns to move, which is what can go wrong in the lexer. It takes from
hzcc what hzcc defines (which characters are symbols or are ignored, where a
word ends, which numbers it supports) and from C how comments and literals
begin, escape and end.

### CExpr, OperandMachine, StackManager, FuncAnalyzer, ExpressionCode

*The trees and what they mean.* `CExpr` has the expressions as records and their
meaning in C (`Meaning`, `MeaningOfStmt`): the value, the variables as changed,
and the calls, tests and returns in order. Values are terms such as
`add(x, 1)`; a variable holds the term that names it until it is assigned, so
what is found for one statement holds for every memory it may start in.

*The visitors.* `StackManager` has the table of variables and the instructions
that read and write them. `FuncAnalyzer` is the first pass, one `Count...`
operator per visitor. In `ExpressionCode` each visitor is a `Gen...` operator
from the state they share (the emitted instructions, the stack of names
`_return_stack`, the pending hint) to the next; the flags `_generate_load`,
`_request_leave` and `_under_compare`, which the macros set and restore around a
visit, are passed down as the context `c`. The recursion of the visitors is
recursion here, since no other code runs in between.

*The actions.* `AnalyseStmt` is the first pass, one statement of the body at a
time, which is also where the body is chosen; `MissingReturn` and `StartGenerate`
are what follows it; `GenerateStmt`, `RunInstr` and `EndStmt` generate a statement
and run it; `NextFunction` goes on with the same generator. Each statement starts
from any memory, with the operands the one before it left. `OperandMachine` is the JVM,
which is outside `src/hzcc` and is modelled from the instructions the code
uses; it stops being `ok` where an operand is missing or of the wrong type, or
where a line is no instruction (an array load of a local array, `f2c`).

### StatusWord, Status, StatusOr, StatusValue

A `Status` is one word: an inlined code, or the address of a `StatusRep` plus
one. `StatusWord` does the arithmetic of the tags as the code does. In `Status`,
`rep` is the word of each object, `heap` the reps with their counts, `live` the
objects that exist; each constructor, assignment, `Update`, swap and destructor
is an action. `StatusOr` adds `data`, the raw storage of a value, which is alive
or dead; its actions follow the templates of `statusor_internal.h`, including
what each does to the source of a move: an error is moved into a result through a
temporary status (`MoveThroughTemporary`), so that the source is left moved from, and
one reference is dropped, also when both held the same word. And `CheckOrAssign` is the macro
`HZCC_CHECK_OR_ASSIGN` with which the parser hands errors on: for an error it
ends the program, since its log line dereferences the result.

`StatusValue` is the abstract specification: every object is a value of its own,
nothing is shared or counted. It says exactly what each operation makes its objects
worth, and leaves open only what an object is worth that was moved from. `StatusOr`
implements it under the mapping that reads code and message through the word.

### TokenList, SyntaxTree, CompilationUnit

`TokenList` is `cached_list.h` with the filter the parser gives it: `pop` sets
qualifiers aside in `cached`, `peek` does not remove them (and, in front of one,
never returns). The list is not given in advance: `Supply` chooses its next token
when the parser first looks that far, from the alphabet of the input, so that
lists which the parser treats alike are one behaviour. A token stands for itself;
three names and three literals stand for all. `taken` keeps what was consumed.

`SyntaxTree` has the nodes, with what their constructors make of operators and
operands: which enumerator an operator becomes, which operand comes first, and
how `++` learns on which side it stands. `CompilationUnit` is the scope that is
open and the struct types of each scope, which is what the parser changes of it at
this commit: `addDecl` is never reached.

### ExprParser, StmtParser, DeclParser, SyntaxParser

The functions of the parser call each other recursively. Their frames are the
stack `todo`: an item says what is to be done after a call returns, with the token
or number it needs then; `built` holds the nodes that were returned, the last one
first. Each action is what a function does between two calls, under the name of
the function or of the point in it: `Operator` is "found one of my operators,
call myself for the right side", `BuildBinary` what follows that call.

`outcome` tells how a parse ended:

- `"error"`: an error was returned to whoever called the parser. Every call inside
  is checked with `HZCC_CHECK_OR_ASSIGN`, so an error found deeper ends the program
  instead; `Fail` says which by looking whether anything else is left to do.
- `"aborted"`: `LOG(FATAL)`, or the macro above.
- `"no parser"`: a statement asks the registry for a parser of `Expr`, `VarDecl` or
  `DeclStmt`, for which none is registered (`parser_factory.h:45`). At this
  commit this is what happens at every condition, variable and file that is not
  just semicolons, so the parser is entered at `Statement`, `Block`, `Declaration`
  and `File`.
- `"spins"`: `peek` in front of a qualifier.
- `"undefined"`: a token past the end was read; any continuation is possible.

What follows a point at which the parser always ends is left out: everything after
a condition, the body of a `for`, a block that is not a function's (an unnamed
scope is looked up, never found, and that is fatal), `parse_var`, and the
comparison of a function with earlier declarations, of which there are none.
`push` of the token list is only called by the parsers of `while` and of bodies
beyond such points. The model is of a build with assertions compiled in and
`HZCC_ENABLE_RUNTIME_CHECK` off; with it on, the checks in the constructors
(`Expr.h:85`, `UnaryOperator.cc:29`, `LiteralExpr.cc:44`) are inverted and end the
program at every node.

### ParserWords

What a list of tokens and the tree made of it have to do with each other, told
without a grammar: the nodes of a tree are found generation by generation
(`Subtrees`; a token adds two generations at most, `Height`), and `Words` are the
places of the names, literals and types that were consumed. The definitions are
not recursive operators, so that the prover can work with them.

### ParserTrees, CGrammar

`CGrammar` is the reference: which tree C gives a list of tokens, found by where
operators stand and not by descent through functions. It groups operators of
equal precedence from the right, as the code does; that C and the
documentation group them from the left is the run `left_assoc`. `ParserTrees`
states that an expression has the tree of the reference, which is recursive and for
TLC only.

## 4. The runs

| Run | What it shows | Expected |
|---|---|---|
| `control_flow` | all functions of up to seven nodes, two functions after one another included | pass |
| `while_or` | `while (a \|\| b)` goes back to its condition when `a` holds | violation |
| `while_const` | `while (1)` branches on an operand nobody pushed | violation |
| `float_branch` | `if (x < y)` over floats is taken the wrong way round | violation |
| `stale_hint` | `if (a)` takes the hint that `b = x < y` has left | violation |
| `lexer` | all files of up to three lines over the alphabets below | pass |
| `lexer_char` | an unclosed character literal can be accepted | violation |
| `expressions` | all pairs of statements of a set that nests every kind of expression | pass |
| `init_from_variable` | `int y = x;` stores an operand nobody pushed | violation |
| `status` | any use of two statuses and two results over two reps | pass |
| `parser` | all lists of tokens around each part of the grammar, from four entries | pass |
| `left_assoc` | `x - x - x` is parsed as `x - (x - x)` | violation |

**control_flow** (about 842,000 states). Seven nodes with blocks of up to two
statements, one else-if per `if`, are the smallest bound at which a loop is
nested in an else-if in a loop, at which `break` leaves the inner of two loops
with an `if` between, and at which statements follow a nested statement in the
same block; every label of a scope is then used from inside another scope.
Functions follow one another without bound (the generator's state at the end of
a function recurs). The conditions are the six integer relations, plain
values, and the logical operators in the statements where their branches go to
the right place. The conditions left out are those under which
`RunsAsWritten` fails: the violation runs show one cause each, and the
mixed operators and calls used as conditions are listed under the hazards. The
relation used as a value is a `<` between floats, which has a hint of its own,
different from those of the conditions, and leaves nothing else behind; as long as
no value is tested while its hint is pending, every such hint is overwritten by that of the
next relation, and `RunsAsWritten` holds. `stale_hint` has the other case.
`continue` is tried in `while` and `for`; in a `do` the entry label stands
before the body, so `continue` skips the test.

- `LoopsCounted`: the loop count is the number of loop scopes on the stack.
- `ScopesBalanced`: at the end of a function nothing is open or counted.
- `LoopContextAgrees`: the generator is within a loop exactly when the source is
  (the assertion of the `break` and `continue` visitors).
- `FreshLabels`: the assertions of `GenerateLabel` and `GenerateLineLabel`.
- `HintOfLastValue`: the hint of a condition is taken by its own branch; what is
  pending anywhere else is the hint of the last relation used as a value, or none.
- `CodeAssembles`: every target is defined exactly once.
- `RunsAsWritten`: the refinement of `StructuredFlow`.

**lexer** (169,865 states). Three lines are enough for a comment to open, stay
open over a line and close; four characters for an opened comment with the
shortest body, a literal with an escape, an operator between words. One alphabet mixes
letters, digits, `/ * + =`, both quotes, the backslash and the blank; another
is that of numbers; short lines have tabs.

- `LineCovered`: the tokens of a line are exactly what the reference finds, each
  character in one token of the right kind. Lines on which a quote was looked
  for past the buffer are excepted; `lexer_char` is about them.
- `CommentCarried`, `LiteralsClosed`: comments over lines; refused literals.
- `LongestMatch`, `InOrder`: operators are not split; columns increase.
- `Terminates`: every file is accepted or refused.

**expressions** (about 70,000 states). The set has some sixty statements: every kind
of expression with another of each kind below it where the types allow, over a
local and a global variable of each type. Two statements are the least with
which the second can find what the first left (an operand, a hint, a name) and
use a variable it declared, and with which a second function follows a first. A
statement is checked from any memory, so more of them in a row would add only
what `NothingPending` already excludes, and names left on `_return_stack`.
`StackReserve` is the 20 of `GetMaxStackSize` scaled down to 3, for statements
that nest a few levels; with the code's 20 no statement of this size could
exceed it.

- `ComputesAsWritten`: after a statement every variable and array has the value
  C gives it, and the calls, tests and returns were those of C, in order.
- `NothingPending`: a statement leaves no operand and no hint.
- `OperandsThere`: each instruction finds operands of its types.
- `StackReserved`: the stack stays within what the first pass computed.

Statements on which the code goes wrong are left out of the set: assignments
and increments inside conditions, calls as conditions, relations as values,
increments of elements, an element as the subscript of an assigned element,
arithmetic whose result is not used, casts from float to char, and functions
called before they are generated. Conditions, subscripts, unused arithmetic and
calls are hazards in `PROJECT.json`, which no property covers where the statements that
show them are left out; what relations as values do to later branches is `stale_hint`;
increments of elements and casts from float to char are left out without a hazard of
their own. `init_from_variable` shows the one that contradicts a comment.

**status** (32,592 states up to symmetry). Two statuses and two results are the least
with which a rep has three holders, one of them being assigned from a second while a
third looks on, and with which a result is assigned from a result, in either state of
both, from one that shares its rep, and from itself. Two reps are the least with which
two errors can be equal and not share. Codes are OK, `kInternal`, which is also what a
moved-from status has, and one error more; messages the empty one (which is inlined) and
one that needs a rep. `Alike` exchanges the two statuses, and the two results: no
definition tells two handles of a kind apart.

- `RefCounted`: the count of a rep is the number of its holders.
- `DataActive`: a value is alive exactly while its result is OK.
- `EqualityIsOfValues`: `==` gives "different" exactly if the codes or the messages are.
  Of two statuses with the same, those with one rep each are not found equal but read
  a payload that was never set (`status.cc:98`), whichever way they came to be; all
  others are equal. `status_test.cc:402-405` expects two errors that were built apart to
  be equal. That test does not compile at this commit: it uses `SetPayload` and
  `kInvalidArgument`, which `Status` does not have.
- `ValueSemantics`: the refinement of `StatusValue`, and of each operation that it gives
  the objects it names the values promised for it (`StatusPromises`,
  `StatusOrPromises`): a copy is worth what its source is, a move leaves an error an
  error, and every other object is as it was.

**parser** (467,724 states). Each input of `MCSyntaxParser` takes the tokens
around one part of the grammar and all lists of them up to a length: for
expressions, two or three operators with a parenthesis or a unary operator among
them (enough for each level to see the next ones from either side, since a
level knows only itself and the one below), calls with two arguments, nested
subscripts, casts and `sizeof`; for statements, a block with three statements or
two that nest; for declarations, structs with a field after a struct, functions
with two parameters, a function with a body, in which a struct of the root
scope is used, and one whose name is `(`. Lists that end early and lists that are not C are among them.

- `TreeAsWritten`: a returned expression is the tree the reference grammar has for
  these tokens, whatever calls, casts, parentheses and unary operators stand
  around an operator. It says nothing of associativity, which the reference takes from the code,
  nor of the exchanged operands of `BitwiseExpr` and `CommaExpr`, nor of places on
  several lines.
- `NothingLost`: each name, literal and type that was consumed is in the tree once
  and each leaf of the tree is the token at its place.
- `ScopeRestored`: a parser that returns leaves the scope as it was.
- `JumpsInLoops`: `break` and `continue` are accepted only within a loop. No parser of
  a loop returns at this commit, so what the flag is after an inner loop is not reached.
- `Decides`: every parse ends.

`TreeAsWritten` is about lists with as many `(` as `)` and without `.` and `->`,
`NothingLost` about trees whose casts have a `(` where their node is placed
(`CastsInParentheses`), again without members. Otherwise the code drops tokens: a
cast is recognised by its second token, so that `- x int ) y` is one
(`statement_parser.cc:423`), and whether a member is reached by `->` is asked of the
token after the operator, so that `a.b c` is `a.c` (`statement_parser.cc:547`). Both
are listed as hazards. For `NothingLost` it is not enough to count parentheses: in
`int ( ( ) { return - x int ) y ; }` the name of the function makes up for the one
that the cast lacks. A function called `ROOT`, whose scope would be taken for the root, and tokens
on several lines, where places are compared by column only, are not tried.

*Found while modelling, without a run of its own*: a struct type can be used once,
since the test for a known type is inverted (`common_utils.h:49`); the name of a
function is not checked to be one, so `int , ( ) ;` is a function
(`decl_parser.cc:174`); qualifiers of a primitive type are kept for the next
struct, where they end the program; suffixes of different kinds do not mix, so
that `a[0]++` is refused; `BitwiseExpr` and `CommaExpr` exchange their operands. The
lexer ends a word only at a blank or a symbol (`LexicalParser.cc:405`), so a tab or a
carriage return after the first character is part of the word, where
`test/lexical/comments_4.c:5` has all white space separate tokens.

`CHECK_DEADLOCK` is on except in `status`, which ends at `LOG(FATAL)`, and in
`parser`, where a parse ends with a tree or in one of the outcomes; a run of the
others that has ended stutters in `Done`.

**Fairness.** The specifications assume `WF_vars(Next)`: the compiler waits for
nobody, and neither does the function it compiled, so some step is taken as long
as one is possible. Nothing is assumed about which step. `Terminates` needs it;
the choices that would keep `Lexer` reading forever are excluded by `MaxRows`,
since a file is finite. `Decides` needs it too; there the bound is `limit`, the
length of the list. `status` states no fairness: whether a caller uses a status again is
up to it.

Each violation run corresponds to a finding in `PROJECT.json` that quotes the
comment or test the code disagrees with.

## 5. The proofs

### The generator

`JVMControlFlowProofs` proves, for every bound on the tree, every set of
conditions and every choice of `ContinueIn`:

- `LabelsTypeCorrect`: the types of the label manager's stack and counters; in
  particular `_loop_count`, unsigned in the code, never wraps around.
- `LoopCountCorrect`: `[]LoopsCounted`.
- `ScopesAlwaysBalanced`: `[]ScopesBalanced`.
- `LineLabelsFresh`: a line label was never handed out since the last reset.

`LoopContextProofs` builds on it and adds:

- `LoopContextCorrect`: `[]LoopContextAgrees`, what break and continue assert.

`HintProofs` and `LabelProofs` stand beside them, each with an invariant of its own:

- `HintsOfLastValue`: `[]HintOfLastValue`.
- `LabelsAlwaysFresh`: `[]FreshLabels`, the assertions of `GenerateLabel` and
  `GenerateLineLabel`, for the labels of statements as well as those of lines.

`AssemblyProofs` rests on all of them but `HintProofs`:

- `CodeAlwaysAssembles`: `[]CodeAssembles`, for every set of conditions, and of relations
  used as values, in which no two floats are compared with `>`.
- `GeneratorTypeCorrect`: `[]TypeOK`, whatever the conditions.

The only assumption on the constants is `BoundsAssumption`, which TLC evaluates
in the control-flow runs. The two theorems of `AssemblyProofs` have hypotheses about
the conditions besides: `W` is any set of conditions that holds those tried at
statements and the operands of its own (`Understood`); its relations and those of
`ValueRelations` have a hint (`Hinted`), or one that both tables of branches have a
mnemonic for (`Expressible`). The conditions of `control_flow.cfg` and their operands are
such a set, with its `ValueRelations`. A `>` between
floats must be excluded: it leaves the hint `Logical_LessEqual`, whose entries in both
tables lack the blank before the label, and the assembler rejects the function.

*The argument.* `ScopesBalanced` is not inductive: in the middle of a function it
says nothing. The invariant `IInv` relates the stack of scopes to what the
visitors still have to do: the items of `todo` that leave a scope match the open
scopes one to one. `Matches` says it by numbering: the item that leaves the scope
at depth d remembers d, and from the head of `todo` on these numbers are
`Len(scopeStack)`, one less, and so on down to one. `Continuation` says that
everything else in `todo` is an item of a plan and that a plan leaves only scopes
it enters. Three lemmas carry it: replacing the head of `todo` by a plan
(`PushPlan`), by the inside of a scope and the item that leaves it (`PushScope`),
and executing such an item (`PopScope`); a lemma per visitor shows that its plan
is of the form they need. When `todo` is empty no scope is left to match, so the
stack is empty; the loop count follows, being the number of loop scopes on it.

`LineLabelsFresh` has an invariant of its own: the numbers of the line labels in
`generated` are below `labelCount`.

`LoopContextAgrees` is about the item at the head of `todo` only, and how it got
there is long past: its loop may have been entered any number of scopes ago. The
invariant `LoopsAgree` speaks of every item. An item is at level d (`AtLevel`) when
the scopes that are left after it are those of depth d and less; then d scopes will
be open when its turn comes, and what the item says of the loop around it, and what
the plans of a scope say inside it, is whether one of the d outermost scopes is a
loop. A plan is at the level of the visitor it replaces (`PushAgreement`), the
inside of a scope one above (`ScopeAgreement`), and leaving a scope changes no level
(`PopAgreement`). The head is at the level of the whole stack, where, by
`LoopsCounted`, the loop count is zero exactly when no scope is a loop.

`HintOfLastValue` is about the items that are no branch; what makes it true is what
comes before those. The invariant `HintsTaken` says that, throughout `todo` and at any depth
of its plans, a condition that may leave a hint is followed at once by a branch, and
that while `opHint` differs from `valueHint` the head of `todo` is a branch. A lemma per
visitor shows its plan to be of this form, for any conditions, also for those
under which the branch goes to the wrong place; an expression visited for its value
keeps the two equal (`ValueSettles`).

`FreshLabels` would fail if two statements had one number, or one statement made its
labels twice. The invariant `Numbered` therefore says what the numbers are of: those
of the visits and scopes that wait in `todo`, at any depth of their plans, are at
most `nodes` and `Apart` from each other, and a label that was made up belongs to a
statement that no longer waits. A plan gives its parts numbers above `nodes` and
keeps the number of the visit it replaces, which is one lemma per visitor; line
labels are apart from these by their form and from each other by the counter.

`CodeAssembles` speaks of the finished code, of jumps whose label may be written long
after them. The invariant `Assembled` follows the labels of a scope through the three
places where their lines can be: in a plan that waits (`Whole`: the plan of a scope
writes each label it jumps to, once, and none of another scope), in `todo` once the
scope is entered (`Coming`: at the level of the scope, with the levels of
`LoopsAgree`), and in the code (`WrittenIn`). No label is in two of these or twice in
one, since by `Numbered` no two scopes have one number; whatever is jumped to is
`Reachable`, that is in `todo` or in the code, and `break` and `continue`, which ask
for a label of the innermost loop, find one by `LoopsAgree`. An item of a plan moves
a label from one place to the next, or none at all, which is one lemma per kind of
item. When `todo` is empty only the code is left, so every target has its one line.
That the step to running the code then leads to an instruction or an end is an
induction along the hops of `RunTo` (`RunsTo`).

### Status

`StatusProofs` proves, for any finite set of objects and any reps at aligned
addresses (`StatusAssumption`, `StatusOrAssumption`):

- `TypeCorrect`: words, reps and values keep their types, no count is negative.
- `ReferencesCounted`: `[]RefCounted`.
- `ValueAliveIffOk`: `[]DataActive`.
- `ValuesIndependent`: `ValueSemantics`: `StatusOr` implements `StatusValue`, and each
  operation keeps its promise.
- `ComparesValues`: `[]EqualityIsOfValues`. This one also needs
  `MovedFromAssumption`: the text that `MovedFromString` gives a status that was moved
  from is the message of no error. `EqualsSlow` takes a status with a rep and one
  without to differ, so an error made with that very text would differ from a
  moved-from status of the same code and message. Nothing in the repository writes it.

*The argument.* Each operation is a sequence of stores, and a store takes a word
out of one object and puts another in. One lemma says how a store changes the
number of holders of a rep, by cases on whether the two words refer to it; it is
by what `Ref` and `Unref` change its count. The invariant `IndInv` adds to the
count that an object which is not alive holds no reference, which is what makes a
constructor a store as well. The refinement follows since a rep with a holder is
never reused and never changes its code or message. The invariant `Worded` says
that a rep in use has an error's code and a message that is not empty, since a status
without them is inlined. For the promises it gives that a status is OK exactly when its code is 0;
for the comparison, that a status with a rep and one without never say the
same, and comparing words first loses nothing.

### The parser

`SyntaxParserProofs` proves, for every set of inputs (`InputsAssumption`: entries,
alphabets and lengths of any size):

- `ScopesRestored`: `[]ScopeRestored`.
- `JumpsAreInLoops`: `[]JumpsInLoops`.
- `ParserTypeCorrect`: `[]TypeOK`.
- `WordsKept`: `[]NothingLost`.
- `OneTree`: a parser that returns has built one tree at most.

*Scopes and loops.* The first two are not inductive, as neither says anything of the
middle of a parse. `IInv` is about the stack of what is left to do: the parts of a function's
declaration are only ever its last item, the scope of a function is open exactly
while `Function body` is that item, an error is only returned from outside of it,
and an item of a loop is there as long as the flag is set. Most actions replace
the head by items that have to do with neither (`PlainMove`), keep the stack or
fail; the lemma `ExprMoves` shows it of every action of `ExprParser`.
`FlatStep` and `FunctionStep` are the two ways in which the rest of the stack
keeps the invariant, `FailStep` shows why no scope is open when an error gets out.

*Words.* `NothingLost` speaks of the tree that is returned; a word may have been
consumed long before, and its node handed from function to function. The invariant
`WInv` says where it is meanwhile:

- `Runs`: what is left to do and what is built fit. Each thing to do takes a number
  of nodes from `built` (`Uses`) and gives one or none (`Gives`); done in order, they
  never find too few, and at the end one node is left, or none.
- `Heard`: each word that was taken is at a node of `built` or is the token of a thing
  to do that will make a node of it (`Pending`). The exception is a list
  in which a cast was taken whose type is not in parentheses, and this cast, too, is
  followed until it is in the tree (`Dropping`).
- `SaidRight`: what a node says is the token at its place, for every node of every
  tree; `ItemOK` says the same of the tokens that things to do keep.
- `PacksReady`, `StringsAtOnce`: a parameter or field finds the name that its
  declarator left, and string literals in a row are consumed without anything between.

Where a node is, is said with a bound on its depth, since `Subtrees` looks `Height`
generations deep: an action that takes a token has two generations for it, and
`Weight` is what a thing to do still owes for one that was taken before. `Moves` is
the one lemma about an action: it asks that the things put in the place of the head
fit (`Fits`), that the trees grow (`Grows`: none of their nodes is lost, or sinks
more than it may), that the token of the head is handed on or built (`HandsOn`) and
so is the token that is taken (`Accounts`). A lemma per action, `...Words`, shows
this for the 35 actions of `ExprParser`, the 22 of `StmtParser` and the 22 of
`DeclParser`. When nothing is left to do, `Runs` leaves one tree or none and no
debt, nothing is `Pending`, and so each word is at a node of the tree.

`TypeOK` follows from both invariants and `ScopesKnown`, that the tables of the open
scopes exist.

*Recursion.* That the function of `Generations` exists and that its values are the
nodes at the end of paths of that length (`Reaches`) is derived as for the lexer,
below, from `SmallestNumber`.

### The lexer

`LexerProofs` proves, for every set of lines and any number of them, all six
safety properties of `Lexer`:

- `LexerTypeCorrect`: `[]TypeOK`; in particular the column stays in the line, one past its
  NUL at most.
- `TokensInOrder`: `[]InOrder`; `SymbolsLongest`: `[]LongestMatch`.
- `LiteralsAreClosed`: `[]LiteralsClosed`; `CommentsCarried`: `[]CommentCarried`.
- `EveryCharacterOnce`: `[]LineCovered`, the agreement of the handlers with the
  reference automaton.

*The argument.* The lexer is compared with an automaton that reads one character at a
time, while a handler reads many. The invariant `LexInv` ties them together where they
meet: the automaton, run up to the column of the lexer, has finished something there
(`Resting`), or the line has been left within what may run to its end, a comment that
the lexer has open, a line comment or a number (`InStep`); every character before the
column is in a token of its kind or, in a comment or white space, in none (`CoveredTo`);
and the tokens lie one after another (`Placed`). A lemma per search of a handler shows that
the automaton, started at the handler's first character, stays in the mode of that
handler up to the character where the search ends.

*Recursion.* The modes of the automaton, `StringEnd` and `NumberEnd` are recursive
functions on intervals. That such a function exists, and what its values are, is
derived from the fact that a set of numbers that is not empty has a smallest
member (`SmallestNumber`), applied to the columns at which a claim would fail.

*The exception.* Of a line on which `CharLiteral` read past the buffer (`overrun`)
nothing is claimed from there on, as in the property itself.

### What is only model-checked

- `RunsAsWritten`: the refinement needs the place in the code of every
  point the source can be at, across jumps that are not written yet.
- `CodeAssembles` where floats are compared with `>`: it does not hold.
- Everything about the code of expressions, whose visitors are recursive operators
  (`ComputesAsWritten`, `NothingPending`, `OperandsThere`, `StackReserved` and
  `TypeOK` of `ExpressionCode`), and `TreeAsWritten`, whose reference is one: the
  prover has no use of `RECURSIVE`, nor of induction on trees.
- `NothingLost` without its conditions: it does not hold.
- `Terminates` and `Decides`: liveness under fairness, which the prover does not handle.

## 6. What is not modelled

- Expressions: the logical and ternary ones as values, strings, the types `long`,
  `short` and `double` (which take two slots of the JVM and one of hzcc), and the
  truncation of a `char`. In `JVMControlFlow` an expression is one operation that may
  leave a hint. That a logical or a ternary expression used as a value takes a pending
  hint for its own branches, and that a unary minus under a pending hint reverses it
  and emits nothing else (`unary_visitor.cc:145-153`), is not in it.
- The text of the output, the initialisers of global variables, and local variables
  that hide a global one.
- A function body without statements: the code reads the last statement of an
  empty list, which is undefined.
- The text and keyword of a word, escapes inside literals, upper-case letters in
  numbers, ranges of numbers, warnings and messages.
- Of the parser, what it cannot reach at this commit (section 3), the texts of
  tokens, the types of expressions and implicit casts.
- Of a status, payloads (no caller sets any) and use by several threads: the
  counts are atomic in the code, but the compiler has one thread.
- The semantic analyser, casts, constant folding and passes (section 2).
- The preprocessor (commented out), the ANTLR grammar (unused), the driver's
  command line and the printing of trees.
