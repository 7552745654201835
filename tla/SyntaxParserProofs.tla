------------------------ MODULE SyntaxParserProofs ------------------------
(***************************************************************************)
(* The parser, proved for every list of tokens from every entry.  First    *)
(* its scopes and its loop flag, by an invariant of the stack of what is   *)
(* left to do: the parts of a function's declaration are its last thing,   *)
(* the body of a function is there exactly while its scope is open, and a  *)
(* loop is there from the time the flag is set.  Then what becomes of the  *)
(* words: what is left to do uses up the nodes that are built, and a word  *)
(* that was taken is at a node or at a thing that is left to do.           *)
(***************************************************************************)
EXTENDS ParserWords, SequenceTheorems, WellFoundedInduction, TLAPS

\* What parse_impl and parse_func of a declaration leave to do.
FunctionParts == {"Declaration", "Declared", "Function", "Parameter list", "First parameter",
                  "Parameters", "Parameter", "After parameters", "Function body"}

\* What a loop leaves to do.
LoopParts == {"Do while", "Exit loop", "For"}

Special == FunctionParts \union LoopParts \union {"Jump"}

\* A list of things to do, and one of none that matter here.
IsList(list) == list \in Seq(Range(list))
Plain(list) == IsList(list) /\ \A i \in DOMAIN list : list[i].does \notin Special

\* The body of a function is parsed.
BodyOpen == todo # <<>> /\ todo[Len(todo)].does = "Function body"

FunctionLast == \A i \in DOMAIN todo : todo[i].does \in FunctionParts => i = Len(todo)
ScopeOpen == scope = IF BodyOpen THEN <<ROOT, scope[2]>> ELSE <<ROOT>>
ErrorsOutside == outcome = "error" => scope = <<ROOT>>
LoopNoted == inside_loop => \E i \in DOMAIN todo : todo[i].does \in LoopParts
JumpsAllowed == \A i \in DOMAIN todo : todo[i].does = "Jump" => inside_loop

IInv == /\ IsList(todo)
        /\ FunctionLast
        /\ ScopeOpen
        /\ ErrorsOutside
        /\ LoopNoted
        /\ JumpsAllowed

-----------------------------------------------------------------------------
(* Lists.                                                                  *)

\* A sequence over any set is one over its own range.
LEMMA ListIsSeq == ASSUME NEW S, NEW s \in Seq(S) PROVE IsList(s)
  BY DEF IsList, Range

\* Short lists.
LEMMA ShortLists ==
  ASSUME NEW a, NEW b, NEW c
  PROVE /\ IsList(<<>>) /\ IsList(<<a>>) /\ IsList(<<a, b>>) /\ IsList(<<a, b, c>>)
<1>1. <<>> \in Seq({a}) /\ <<a>> \in Seq({a}) OBVIOUS
<1>2. <<a, b>> \in Seq({a, b}) OBVIOUS
<1>3. <<a, b, c>> \in Seq({a, b, c}) OBVIOUS
<1> QED BY <1>1, <1>2, <1>3, ListIsSeq

\* Only the empty list has no length.
LEMMA EmptyList == ASSUME NEW s, IsList(s), Len(s) = 0 PROVE s = <<>>
  BY EmptySeq DEF IsList

\* The head is the first, and a list without a tail has one member.
LEMMA FirstThing ==
  ASSUME NEW t, IsList(t), t # <<>>
  PROVE  /\ Head(t) = t[1]
         /\ Tail(t) = <<>> => Len(t) = 1
<1>1. t \in Seq(Range(t)) BY DEF IsList
<1>2. Head(t) = t[1] BY <1>1
<1>3. Len(Tail(t)) = Len(t) - 1 /\ Len(t) \in Nat BY <1>1, HeadTailProperties, LenProperties
<1>4. Tail(t) = <<>> => Len(Tail(t)) = 0 BY EmptySeq
<1> QED BY <1>2, <1>3, <1>4

\* The last of a list is there.
LEMMA LastThing == ASSUME NEW t, IsList(t), t # <<>> PROVE Len(t) \in DOMAIN t
<1>1. t \in Seq(Range(t)) BY DEF IsList
<1>2. Len(t) \in Nat /\ DOMAIN t = 1 .. Len(t) BY <1>1, LenProperties
<1>3. Len(t) # 0 BY EmptyList
<1> QED BY <1>2, <1>3

LEMMA PlainNone == Plain(<<>>)
<1>1. DOMAIN <<>> = {} OBVIOUS
<1> QED BY <1>1, ShortLists DEF Plain

LEMMA PlainOne == ASSUME NEW a, a.does \notin Special PROVE Plain(<<a>>)
<1>1. DOMAIN <<a>> = {1} /\ <<a>>[1] = a OBVIOUS
<1> QED BY <1>1, ShortLists DEF Plain

LEMMA PlainTwo ==
  ASSUME NEW a, NEW b, a.does \notin Special, b.does \notin Special PROVE Plain(<<a, b>>)
<1>1. DOMAIN <<a, b>> = {1, 2} /\ <<a, b>>[1] = a /\ <<a, b>>[2] = b OBVIOUS
<1> QED BY <1>1, ShortLists DEF Plain

LEMMA PlainThree ==
  ASSUME NEW a, NEW b, NEW c,
         a.does \notin Special, b.does \notin Special, c.does \notin Special
  PROVE  Plain(<<a, b, c>>)
<1>1. /\ DOMAIN <<a, b, c>> = {1, 2, 3}
      /\ <<a, b, c>>[1] = a /\ <<a, b, c>>[2] = b /\ <<a, b, c>>[3] = c
  OBVIOUS
<1> QED BY <1>1, ShortLists DEF Plain

LEMMA PlainConcat == ASSUME NEW s, NEW t, Plain(s), Plain(t) PROVE Plain(s \o t)
<1> DEFINE S == Range(s) \union Range(t)
<1>1. s \in Seq(S) /\ t \in Seq(S)
  <2>1. s \in Seq(Range(s)) /\ t \in Seq(Range(t)) BY DEF Plain, IsList
  <2> QED BY <2>1
<1> HIDE DEF S
<1>2. s \o t \in Seq(S) BY <1>1
<1>3. IsList(s \o t) BY <1>2, ListIsSeq
<1>4. \A i \in DOMAIN (s \o t) : (s \o t)[i].does \notin Special
  BY <1>1 DEF Plain
<1> QED BY <1>3, <1>4 DEF Plain

\* What becomes of a list whose head makes way for other things.
LEMMA Replaced ==
  ASSUME NEW t, IsList(t), t # <<>>, NEW items, IsList(items)
  PROVE  LET new == items \o Tail(t) IN
         /\ IsList(new)
         /\ Len(items) \in Nat /\ Len(t) \in Nat /\ Len(t) >= 1
         /\ DOMAIN items = 1 .. Len(items) /\ DOMAIN t = 1 .. Len(t)
         /\ Len(new) = Len(items) + Len(t) - 1 /\ DOMAIN new = 1 .. Len(new)
         /\ \A i \in DOMAIN items : new[i] = items[i]
         /\ \A i \in 2 .. Len(t) : new[Len(items) + i - 1] = t[i]
<1> DEFINE new == items \o Tail(t)
           S == Range(items) \union Range(t)
<1>1. items \in Seq(S) /\ t \in Seq(S)
  <2>1. items \in Seq(Range(items)) /\ t \in Seq(Range(t)) BY DEF IsList
  <2> QED BY <2>1
<1> HIDE DEF S
<1>2. Tail(t) \in Seq(S) /\ Len(Tail(t)) = Len(t) - 1 BY <1>1
<1>3. \A i \in 1 .. Len(Tail(t)) : Tail(t)[i] = t[i + 1] BY <1>1
<1>4. new \in Seq(S) BY <1>1, <1>2
<1>5. IsList(new) BY <1>4, ListIsSeq
<1>6. Len(items) \in Nat /\ Len(t) \in Nat /\ Len(t) >= 1
  BY <1>1
<1>7. DOMAIN items = 1 .. Len(items) /\ DOMAIN t = 1 .. Len(t) /\ DOMAIN new = 1 .. Len(new)
  BY <1>1, <1>4
<1>8. Len(new) = Len(items) + Len(t) - 1
  BY <1>1, <1>2
<1>9. \A i \in DOMAIN items : new[i] = items[i]
  BY <1>1, <1>2
<1>10. \A i \in 2 .. Len(t) : new[Len(items) + i - 1] = t[i]
  <2>1. SUFFICES ASSUME NEW i \in 2 .. Len(t) PROVE new[Len(items) + i - 1] = t[i] OBVIOUS
  <2>2. i - 1 \in 1 .. Len(Tail(t)) BY <1>2, <1>6
  <2>3. new[Len(items) + (i - 1)] = Tail(t)[i - 1] BY <1>1, <1>2, <1>6, <2>2
  <2>4. Tail(t)[i - 1] = t[i] BY <1>3, <1>6, <2>2
  <2> QED BY <1>6, <2>3, <2>4
<1> QED BY <1>5, <1>6, <1>7, <1>8, <1>9, <1>10

-----------------------------------------------------------------------------
(* Steps.                                                                  *)

\* The head is no part of a function, and makes way for things that are none:
\* the last thing to do stays the same as far as functions go.
LEMMA FlatStep ==
  ASSUME IInv, Running, Doing.does \notin FunctionParts,
         NEW items, IsList(items), Then(items),
         \A i \in DOMAIN items : items[i].does \notin FunctionParts,
         outcome' # "error", scope' = scope,
         inside_loop => inside_loop',
         inside_loop' => inside_loop \/ \E i \in DOMAIN items : items[i].does \in LoopParts,
         Doing.does \in LoopParts => \E i \in DOMAIN items : items[i].does \in LoopParts,
         \A i \in DOMAIN items : items[i].does = "Jump" => inside_loop'
  PROVE  IInv'
<1> DEFINE n == Len(items)
           m == Len(todo)
<1>1. todo # <<>> /\ IsList(todo) /\ Doing = todo[1]
  BY DEF Running, IInv, Doing
<1>2. /\ IsList(todo')
      /\ n \in Nat /\ m \in Nat /\ m >= 1 /\ DOMAIN items = 1 .. n /\ DOMAIN todo = 1 .. m
      /\ Len(todo') = n + m - 1 /\ DOMAIN todo' = 1 .. Len(todo')
      /\ \A i \in DOMAIN items : todo'[i] = items[i]
      /\ \A i \in 2 .. m : todo'[n + i - 1] = todo[i]
  <2>1. todo' = items \o Tail(todo) BY DEF Then
  <2>2. /\ IsList(items \o Tail(todo))
        /\ Len(items) \in Nat /\ Len(todo) \in Nat /\ Len(todo) >= 1
        /\ DOMAIN items = 1 .. Len(items) /\ DOMAIN todo = 1 .. Len(todo)
        /\ Len(items \o Tail(todo)) = Len(items) + Len(todo) - 1
        /\ DOMAIN (items \o Tail(todo)) = 1 .. Len(items \o Tail(todo))
        /\ \A i \in DOMAIN items : (items \o Tail(todo))[i] = items[i]
        /\ \A i \in 2 .. Len(todo) : (items \o Tail(todo))[Len(items) + i - 1] = todo[i]
    <3> HIDE DEF n, m
    <3> QED BY <1>1, Replaced
  <2> QED BY <2>1, <2>2
<1> HIDE DEF n, m
\* Every thing to do is new or was there, behind the head.
<1>3. ASSUME NEW i \in DOMAIN todo', i \notin DOMAIN items
      PROVE  /\ i - n + 1 \in 2 .. m /\ todo'[i] = todo[i - n + 1]
  <2>1. i \in 1 .. n + m - 1 /\ i > n BY <1>2, <1>3
  <2>2. i - n + 1 \in 2 .. m /\ n + (i - n + 1) - 1 = i BY <1>2, <2>1
  <2> QED BY <1>2, <2>2
<1>4. FunctionLast'
  <2>1. SUFFICES ASSUME NEW i \in DOMAIN todo', todo'[i].does \in FunctionParts
                 PROVE  i = Len(todo')
    BY DEF FunctionLast
  <2>2. i \notin DOMAIN items BY <1>2, <2>1
  <2>3. i - n + 1 \in 2 .. m /\ todo[i - n + 1].does \in FunctionParts BY <1>3, <2>1, <2>2
  <2>4. i - n + 1 = m BY <1>2, <2>3 DEF IInv, FunctionLast, m
  <2> QED BY <1>2, <2>1, <2>4
<1>5. BodyOpen' = BodyOpen
  <2>1. CASE m = 1
    <3>1. ~BodyOpen
      <4>1. todo[m] = Doing BY <1>1, <2>1
      <4> QED BY <4>1 DEF BodyOpen, FunctionParts, m
    <3>2. ~BodyOpen'
      <4>1. SUFFICES ASSUME BodyOpen' PROVE FALSE OBVIOUS
      <4>2. todo' # <<>> /\ todo'[Len(todo')].does = "Function body" BY <4>1 DEF BodyOpen
      <4>3. Len(todo') = n BY <1>2, <2>1
      <4>4. n # 0 BY <1>2, <4>2, <4>3, EmptyList
      <4>5. n \in DOMAIN items BY <1>2, <4>4
      <4> QED BY <1>2, <4>2, <4>3, <4>5 DEF FunctionParts
    <3> QED BY <3>1, <3>2 DEF BodyOpen
  <2>2. CASE m >= 2
    <3>1. todo'[Len(todo')] = todo[m]
      <4>1. m \in 2 .. m BY <1>2, <2>2
      <4> QED BY <1>2, <4>1
    <3>2. todo' # <<>>
      <4>1. 1 \in DOMAIN todo' BY <1>2, <2>2
      <4>2. DOMAIN <<>> = {} OBVIOUS
      <4> QED BY <4>1, <4>2
    <3> QED BY <1>1, <3>1, <3>2 DEF BodyOpen, m
  <2> QED BY <1>2, <2>1, <2>2
<1>6. ScopeOpen'
  BY <1>5 DEF IInv, ScopeOpen
<1>7. ErrorsOutside'
  BY DEF ErrorsOutside
<1>8. LoopNoted'
  <2>1. SUFFICES ASSUME inside_loop' PROVE \E i \in DOMAIN todo' : todo'[i].does \in LoopParts
    BY DEF LoopNoted
  <2>2. CASE \E i \in DOMAIN items : items[i].does \in LoopParts
    <3>1. PICK i \in DOMAIN items : items[i].does \in LoopParts BY <2>2
    <3>2. i \in DOMAIN todo' BY <1>2
    <3> QED BY <1>2, <3>1, <3>2
  <2>3. CASE ~\E i \in DOMAIN items : items[i].does \in LoopParts
    <3>1. PICK j \in DOMAIN todo : todo[j].does \in LoopParts
      BY <2>1, <2>3 DEF IInv, LoopNoted
    <3>2. j # 1 BY <1>1, <2>3, <3>1
    <3>3. j \in 2 .. m /\ n + j - 1 \in DOMAIN todo' BY <1>2, <3>2
    <3> QED BY <1>2, <3>1, <3>3
  <2> QED BY <2>2, <2>3
<1>9. JumpsAllowed'
  <2>1. SUFFICES ASSUME NEW i \in DOMAIN todo', todo'[i].does = "Jump" PROVE inside_loop'
    BY DEF JumpsAllowed
  <2>2. CASE i \in DOMAIN items BY <1>2, <2>1, <2>2
  <2>3. CASE i \notin DOMAIN items
    <3>1. i - n + 1 \in DOMAIN todo /\ todo[i - n + 1].does = "Jump" BY <1>2, <1>3, <2>1, <2>3
    <3> QED BY <3>1 DEF IInv, JumpsAllowed
  <2> QED BY <2>2, <2>3
<1> QED BY <1>2, <1>4, <1>6, <1>7, <1>8, <1>9 DEF IInv

\* Nothing that is left to do changes, and no error is returned.
LEMMA KeepStep ==
  ASSUME IInv, todo' = todo, scope' = scope, inside_loop' = inside_loop,
         outcome' # "error"
  PROVE  IInv'
  BY DEF IInv, IsList, FunctionLast, ScopeOpen, BodyOpen, ErrorsOutside, LoopNoted, JumpsAllowed

\* An error is returned by the parser when nothing else is left to do, and then
\* the scope of no function is open.
LEMMA FailStep ==
  ASSUME IInv, Running, Doing.does # "Function body", Fail,
         scope' = scope, inside_loop' = inside_loop
  PROVE  IInv'
<1>1. todo' = todo BY DEF Fail
<1>2. CASE Tail(todo) = <<>>
  <2>1. todo # <<>> /\ IsList(todo) BY DEF Running, IInv
  <2>2. Len(todo) = 1 /\ Head(todo) = todo[1] BY <1>2, <2>1, FirstThing
  <2>3. ~BodyOpen BY <2>2 DEF BodyOpen, Doing
  <2>4. scope = <<ROOT>> BY <2>3 DEF IInv, ScopeOpen
  <2> QED BY <1>1, <2>4
       DEF IInv, IsList, FunctionLast, ScopeOpen, BodyOpen, ErrorsOutside, LoopNoted, JumpsAllowed
<1>3. CASE Tail(todo) # <<>>
  <2>1. outcome' # "error" BY <1>3 DEF Fail
  <2> QED BY <1>1, <2>1, KeepStep
<1> QED BY <1>2, <1>3

-----------------------------------------------------------------------------
(* Steps of the parser of expressions, and those of statements and         *)
(* declarations that have to do neither with functions nor with loops.     *)

PlainMove ==
  /\ Running /\ Doing.does \notin Special
  /\ \/ Fail
     \/ outcome' # "error" /\ todo' = todo
     \/ outcome' # "error" /\ \E items : Plain(items) /\ Then(items)

LEMMA PlainMoveStep ==
  ASSUME IInv, PlainMove, scope' = scope, inside_loop' = inside_loop
  PROVE  IInv'
<1>1. Running /\ Doing.does \notin FunctionParts \union LoopParts \union {"Jump"}
  BY DEF PlainMove, Special
<1>2. CASE Fail BY <1>1, <1>2, FailStep DEF FunctionParts
<1>3. CASE outcome' # "error" /\ todo' = todo BY <1>3, KeepStep
<1>4. CASE outcome' # "error" /\ \E items : Plain(items) /\ Then(items)
  <2>1. PICK items : Plain(items) /\ Then(items) BY <1>4
  <2>2. IsList(items) /\ \A i \in DOMAIN items :
          items[i].does \notin FunctionParts \union LoopParts \union {"Jump"}
    BY <2>1 DEF Plain, Special
  <2> QED BY <1>1, <1>4, <2>1, <2>2, FlatStep
<1> QED BY <1>2, <1>3, <1>4 DEF PlainMove

LEMMA MoveTo ==
  ASSUME NEW d, At(d), d \notin Special, outcome' = outcome,
         NEW items, Plain(items), Then(items)
  PROVE  PlainMove
<1>1. Running /\ Doing.does = d /\ outcome = "parsing" BY DEF At, Running
<1> QED BY <1>1 DEF PlainMove

LEMMA MoveKeeps ==
  ASSUME NEW d, At(d), d \notin Special, outcome' # "error", todo' = todo
  PROVE  PlainMove
<1>1. Running /\ Doing.does = d BY DEF At
<1> QED BY <1>1 DEF PlainMove

LEMMA MoveFails == ASSUME NEW d, At(d), d \notin Special, Fail PROVE PlainMove
<1>1. Running /\ Doing.does = d BY DEF At
<1> QED BY <1>1 DEF PlainMove

\* What a thing to do does, and that it is plain.
LEMMA Does ==
  ASSUME NEW d, NEW n, NEW m, NEW op
  PROVE  Item(d, n, m, op).does = d /\ Do(d).does = d /\ DoWith(d, op).does = d
  BY DEF Item, Do, DoWith

LEMMA Ordinary ==
  ASSUME NEW d, d \notin Special, NEW n, NEW m, NEW op
  PROVE  Plain(<<Item(d, n, m, op)>>) /\ Plain(<<Do(d)>>) /\ Plain(<<DoWith(d, op)>>)
  BY Does, PlainOne

LEMMA OrdinaryTwo ==
  ASSUME NEW d, d \notin Special, NEW e, e \notin Special, NEW op, NEW n, NEW m
  PROVE  /\ Plain(<<Do(d), Do(e)>>) /\ Plain(<<Do(d), DoWith(e, op)>>)
         /\ Plain(<<Do(d), Item(e, n, m, op)>>)
         /\ Plain(<<DoWith(d, op), Do(e)>>) /\ Plain(<<DoWith(d, op), Item(e, n, m, NoToken)>>)
  BY Does, PlainTwo

LEMMA PlainExpr == ASSUME NEW n PROVE Plain(Expr(n))
<1>1. "Unary" \notin Special /\ "Lhs" \notin Special BY DEF Special, FunctionParts, LoopParts
<1> QED BY <1>1, Does, PlainTwo DEF Expr

LEMMA PlainOuter == ASSUME NEW n PROVE Plain(Outer(n))
<1>1. "Lhs" \notin Special BY DEF Special, FunctionParts, LoopParts
<1> QED BY <1>1, Ordinary, PlainNone DEF Outer

LEMMA ExprMoves == ASSUME ParseExpr PROVE PlainMove
<1> USE DEF Special, FunctionParts, LoopParts
<1>1. CASE NoOperator BY <1>1, MoveTo, PlainNone DEF NoOperator, Return, Silent
<1>2. CASE Operator
  <2>1. PICK n \in Found :
          /\ Silent
          /\ Then((IF n = Conditional THEN Expr(Conditional) \o <<DoWith("Colon", Here)>>
                   ELSE Expr(n) \o <<Item("Rhs", n, 0, Here)>>) \o Outer(n))
    BY <1>2 DEF Operator
  <2>2. /\ Plain(Expr(Conditional) \o <<DoWith("Colon", Here)>>)
        /\ Plain(Expr(n) \o <<Item("Rhs", n, 0, Here)>>)
    BY PlainExpr, Ordinary, PlainConcat
  <2>3. Plain((IF n = Conditional THEN Expr(Conditional) \o <<DoWith("Colon", Here)>>
               ELSE Expr(n) \o <<Item("Rhs", n, 0, Here)>>) \o Outer(n))
    BY <2>2, PlainOuter, PlainConcat
  <2> QED BY <1>2, <2>1, <2>3, MoveTo DEF Operator, Silent
<1>3. CASE BuildBinary BY <1>3, MoveTo, PlainNone DEF BuildBinary, Return
<1>4. CASE BuildTernary BY <1>4, MoveTo, PlainNone DEF BuildTernary, Return
<1>5. CASE BuildUnary BY <1>5, MoveTo, PlainNone DEF BuildUnary, Return
<1>6. CASE BuildSizeof BY <1>6, MoveTo, PlainNone DEF BuildSizeof, Return
<1>7. CASE BuildCast BY <1>7, MoveTo, PlainNone DEF BuildCast, Return
<1>8. CASE Colon
  <2>1. Plain(Expr(Conditional) \o <<DoWith("Ternary", Doing.op)>>)
    BY PlainExpr, Ordinary, PlainConcat
  <2> QED BY <1>8, <2>1, MoveTo, MoveFails DEF Colon, Expect, Silent
<1>9. CASE PrefixOperator
  <2>1. Plain(<<Do("Cast"), DoWith("Unary operator", Here)>>)
    BY OrdinaryTwo
  <2> QED BY <1>9, <2>1, MoveTo DEF PrefixOperator, Silent
<1>10. CASE PrefixIncrement
  <2>1. Plain(<<Do("Unary"), DoWith("Unary operator", Here)>>)
    BY OrdinaryTwo
  <2> QED BY <1>10, <2>1, MoveTo DEF PrefixIncrement, Silent
<1>11. CASE Sizeof
  <2>1. Plain(<<DoWith("Sizeof operand", Here)>>)
    BY Ordinary
  <2> QED BY <1>11, <2>1, MoveTo DEF Sizeof, Silent
<1>12. CASE SizeofOperand
  <2>1. /\ Plain(<<Do("Type name"), DoWith("Sizeof type", Doing.op)>>)
        /\ Plain(<<Do("Unary"), DoWith("Sizeof", Doing.op)>>)
    BY OrdinaryTwo
  <2> QED BY <1>12, <2>1, MoveTo DEF SizeofOperand, Silent
<1>13. CASE SizeofType
  <2>1. Plain(<<DoWith("Sizeof", Doing.op)>>)
    BY Ordinary
  <2> QED BY <1>13, <2>1, MoveTo, MoveFails DEF SizeofType, Expect, Silent
<1>14. CASE Cast
  <2>1. /\ Plain(<<Do("Type name"), DoWith("Cast type", Here)>>)
        /\ Plain(<<Do("Unary")>>)
    BY OrdinaryTwo, Ordinary
  <2> QED BY <1>14, <2>1, MoveTo DEF Cast, Silent
<1>15. CASE CastType
  <2>1. Plain(<<Do("Cast"), DoWith("Cast operator", Doing.op)>>)
    BY OrdinaryTwo
  <2> QED BY <1>15, <2>1, MoveTo, MoveFails DEF CastType, Expect, Silent
<1>16. CASE TypeName
  <2>1. /\ Plain(<<DoWith("Pointers", Popped)>>)
        /\ Plain(<<DoWith("Type tag", Popped)>>)
    BY Ordinary
  <2> QED BY <1>16, <2>1, MoveTo, MoveFails DEF TypeName, Silent
<1>17. CASE TypeTag
  <2>1. Plain(<<DoWith("Pointers", Doing.op)>>)
    BY Ordinary
  <2> QED BY <1>17, <2>1, MoveTo, MoveFails DEF TypeTag, Silent
<1>18. CASE Pointers
  <2>1. outcome = "parsing" BY <1>18 DEF Pointers, At, Running
  <2> QED BY <1>18, <2>1, MoveTo, MoveKeeps, PlainNone DEF Pointers, Return
<1>19. CASE Parenthesised
  <2>1. Plain(Expr(Comma) \o Operand(Do("Close")))
    BY PlainExpr, OrdinaryTwo, PlainConcat DEF Operand
  <2> QED BY <1>19, <2>1, MoveTo DEF Parenthesised, Silent
<1>20. CASE Close
  <2>1. Plain(<<>>)
    BY PlainNone
  <2> QED BY <1>20, <2>1, MoveTo, MoveFails DEF Close, Expect, Silent
<1>21. CASE Identifier
  <2>1. Plain(Operand(DoWith("Call", Here)))
    BY OrdinaryTwo DEF Operand
  <2> QED BY <1>21, <2>1, MoveTo DEF Identifier, Silent
<1>22. CASE CallOrVariable
  <2>1. Plain(<<DoWith("Arguments", Doing.op)>>)
    BY Ordinary
  <2> QED BY <1>22, <2>1, MoveTo, PlainNone DEF CallOrVariable, Return
<1>23. CASE Arguments
  <2>1. Plain(Expr(Assign) \o <<Item("Argument", Doing.n + 1, 0, Doing.op)>>)
    BY PlainExpr, Ordinary, PlainConcat
  <2> QED BY <1>23, <2>1, MoveTo, PlainNone DEF Arguments, Return
<1>24. CASE AfterArgument
  <2>1. Plain(<<Item("Arguments", Doing.n, 0, Doing.op)>>)
    BY Ordinary
  <2> QED BY <1>24, <2>1, MoveTo, MoveFails DEF AfterArgument, MoreArguments, Silent
<1>25. CASE Literal
  <2>1. Plain(<<Do("Suffix")>>)
    BY Ordinary
  <2> QED BY <1>25, <2>1, MoveTo DEF Literal, Silent
<1>26. CASE StringLiteral
  <2>1. Plain(Operand(Do("Strings")))
    BY OrdinaryTwo DEF Operand
  <2> QED BY <1>26, <2>1, MoveTo DEF StringLiteral, Silent
<1>27. CASE MoreStrings
  <2>1. outcome = "parsing" BY <1>27 DEF MoreStrings, At, Running
  <2> QED BY <1>27, <2>1, MoveTo, MoveKeeps, PlainNone DEF MoreStrings, Return, Silent
<1>28. CASE TermExpected BY <1>28, MoveFails DEF TermExpected
<1>29. CASE NoSuffix BY <1>29, MoveTo, PlainNone DEF NoSuffix, Return, Silent
<1>30. CASE Subscript
  <2>1. Plain(Expr(Comma) \o <<DoWith("Subscript", Here), More(1)>>)
    BY PlainExpr, OrdinaryTwo, PlainConcat DEF More
  <2> QED BY <1>30, <2>1, MoveTo DEF Subscript, Silent
<1>31. CASE EndSubscript BY <1>31, MoveTo, MoveFails, PlainNone DEF EndSubscript, Return
<1>32. CASE Member
  <2>1. Plain(<<DoWith("Member", Here), More(2)>>)
    BY OrdinaryTwo DEF More
  <2> QED BY <1>32, <2>1, MoveTo DEF Member, Silent
<1>33. CASE MemberOperator
  <2>1. Plain(<<Item("Field", IF Popped.is = "->" THEN 1 ELSE 0, 0, Doing.op)>>)
    BY Ordinary
  <2> QED BY <1>33, <2>1, MoveTo DEF MemberOperator, Silent
<1>34. CASE Field BY <1>34, MoveTo, MoveFails, PlainNone DEF Field, Return
<1>35. CASE PostfixIncrement
  <2>1. Plain(<<More(3)>>)
    BY Ordinary DEF More
  <2> QED BY <1>35, <2>1, MoveTo DEF PostfixIncrement, Silent
<1> QED
  BY <1>1, <1>2, <1>3, <1>4, <1>5, <1>6, <1>7, <1>8, <1>9, <1>10, <1>11, <1>12,
         <1>13, <1>14, <1>15, <1>16, <1>17, <1>18, <1>19, <1>20, <1>21, <1>22, <1>23,
         <1>24, <1>25, <1>26, <1>27, <1>28, <1>29, <1>30, <1>31, <1>32, <1>33, <1>34,
         <1>35
  DEF ParseExpr

\* Statements.
LEMMA StmtStep == ASSUME IInv, ParseStmt, scope' = scope PROVE IInv'
<1> USE DEF Special, FunctionParts, LoopParts
<1>1. CASE ParseEmpty
  <2>1. PlainMove
    BY <1>1, MoveTo, PlainNone
    DEF ParseEmpty, Return
  <2> QED BY <1>1, <2>1, PlainMoveStep DEF ParseEmpty, NoLoop
<1>2. CASE ParseStruct
  <2>1. PlainMove
    BY <1>2, MoveTo, MoveKeeps, PlainExpr
    DEF ParseStruct, NoParser, Silent
  <2> QED BY <1>2, <2>1, PlainMoveStep DEF ParseStruct, NoLoop
<1>3. CASE ParseReturn
  <2>1. Plain(<<DoWith("Return value", Here)>>) BY Ordinary
  <2>2. PlainMove
    BY <1>3, <2>1, MoveTo
    DEF ParseReturn, Silent
  <2> QED BY <1>3, <2>2, PlainMoveStep DEF ParseReturn, NoLoop
<1>4. CASE ReturnValue
  <2>1. Plain(Expr(Comma) \o <<DoWith("Return", Doing.op)>>)
    BY PlainExpr, Ordinary, PlainConcat
  <2>2. PlainMove
    BY <1>4, <2>1, MoveTo, PlainNone
    DEF ReturnValue, Return
  <2> QED BY <1>4, <2>2, PlainMoveStep DEF ReturnValue, NoLoop
<1>5. CASE BuildReturn
  <2>1. PlainMove
    BY <1>5, MoveTo, PlainNone
    DEF BuildReturn, Return
  <2> QED BY <1>5, <2>1, PlainMoveStep DEF BuildReturn, NoLoop
<1>6. CASE ParseJump
  <2>1. Running /\ Doing.does = "Statement" /\ outcome = "parsing"
    BY <1>6 DEF ParseJump, At, Running
  <2>2. CASE inside_loop
    <3>1. Then(<<DoWith("Jump", Here)>>) /\ outcome' = outcome /\ inside_loop' = inside_loop
      BY <1>6, <2>2 DEF ParseJump, Silent, NoLoop
    <3>2. IsList(<<DoWith("Jump", Here)>>) BY ShortLists
    <3>3. \A i \in DOMAIN <<DoWith("Jump", Here)>> : <<DoWith("Jump", Here)>>[i].does = "Jump"
      BY Does
    <3> QED BY <2>1, <2>2, <3>1, <3>2, <3>3, FlatStep
  <2>3. CASE ~inside_loop
    <3>1. Fail /\ inside_loop' = inside_loop BY <1>6, <2>3 DEF ParseJump, NoLoop
    <3> QED BY <2>1, <3>1, FailStep
  <2> QED BY <2>2, <2>3
<1>7. CASE BuildJump
  <2>1. /\ Running /\ Doing.does = "Jump" /\ outcome = "parsing" /\ outcome' = outcome
        /\ Then(<<>>) /\ inside_loop' = inside_loop
    BY <1>7 DEF BuildJump, At, Running, Return, NoLoop
  <2>2. IsList(<<>>) BY ShortLists
  <2>3. DOMAIN <<>> = {} OBVIOUS
  <2> QED BY <2>1, <2>2, <2>3, FlatStep
<1>8. CASE ParseVariable
  <2>1. PlainMove
    BY <1>8, MoveKeeps
    DEF ParseVariable, NoParser
  <2> QED BY <1>8, <2>1, PlainMoveStep DEF ParseVariable, NoLoop
<1>9. CASE ParseExprStmt
  <2>1. PlainMove
    BY <1>9, MoveTo, PlainExpr
    DEF ParseExprStmt, Silent
  <2> QED BY <1>9, <2>1, PlainMoveStep DEF ParseExprStmt, NoLoop
<1>10. CASE If
  <2>1. Plain(<<Do("Condition"), Do("Body")>>) BY OrdinaryTwo
  <2>2. PlainMove
    BY <1>10, <2>1, MoveTo
    DEF If, Silent
  <2> QED BY <1>10, <2>2, PlainMoveStep DEF If, NoLoop
<1>11. CASE ParseDo
  <2> DEFINE items == <<Do("Body"), Do("Do while")>>
  <2>1. /\ Running /\ Doing.does = "Statement" /\ outcome = "parsing" /\ outcome' = outcome
        /\ Then(items) /\ inside_loop'
    BY <1>11 DEF ParseDo, At, Running, Silent, EnterLoop
  <2>2. IsList(items) BY ShortLists
  <2>3. /\ \A i \in DOMAIN items : items[i].does \notin FunctionParts \union {"Jump"}
        /\ \E i \in DOMAIN items : items[i].does \in LoopParts
    <3>1. DOMAIN items = {1, 2} /\ items[1] = Do("Body") /\ items[2] = Do("Do while")
      OBVIOUS
    <3> HIDE DEF items
    <3>2. items[1].does = "Body" /\ items[2].does = "Do while"
      BY <3>1, Does
    <3>3. \A i \in DOMAIN items : items[i].does \notin FunctionParts \union {"Jump"}
      BY <3>1, <3>2
    <3>4. items[2].does \in LoopParts BY <3>2
    <3> QED BY <3>1, <3>3, <3>4
  <2> HIDE DEF items
  <2> QED BY <2>1, <2>2, <2>3, FlatStep
<1>12. CASE DoWhile
  <2> DEFINE items == <<Do("Condition"), Do("Exit loop")>>
  <2>1. /\ Running /\ Doing.does = "Do while" /\ outcome = "parsing" /\ inside_loop' = inside_loop
        /\ \/ Then(items) /\ outcome' = outcome
           \/ Fail
    BY <1>12 DEF DoWhile, At, Running, Expect, Silent, NoLoop
  <2>2. CASE Fail BY <2>1, <2>2, FailStep
  <2>3. CASE Then(items) /\ outcome' = outcome
    <3>1. IsList(items) BY ShortLists
    <3>2. /\ \A i \in DOMAIN items : items[i].does \notin FunctionParts \union {"Jump"}
          /\ \E i \in DOMAIN items : items[i].does \in LoopParts
      <4>1. DOMAIN items = {1, 2} /\ items[1] = Do("Condition") /\ items[2] = Do("Exit loop")
        OBVIOUS
      <4> HIDE DEF items
      <4>2. items[1].does = "Condition" /\ items[2].does = "Exit loop"
        BY <4>1, Does
      <4>3. \A i \in DOMAIN items : items[i].does \notin FunctionParts \union {"Jump"}
        BY <4>1, <4>2
      <4>4. items[2].does \in LoopParts BY <4>2
      <4> QED BY <4>1, <4>3, <4>4
    <3> HIDE DEF items
    <3> QED BY <2>1, <2>3, <3>1, <3>2, FlatStep
  <2> QED BY <2>1, <2>2, <2>3
<1>13. CASE While
  <2> DEFINE items == <<Do("Condition"), Do("Body"), Do("Exit loop")>>
  <2>1. /\ Running /\ Doing.does = "Statement" /\ outcome = "parsing" /\ outcome' = outcome
        /\ Then(items) /\ inside_loop'
    BY <1>13 DEF While, At, Running, Silent, EnterLoop
  <2>2. IsList(items) BY ShortLists
  <2>3. /\ \A i \in DOMAIN items : items[i].does \notin FunctionParts \union {"Jump"}
        /\ \E i \in DOMAIN items : items[i].does \in LoopParts
    <3>1. DOMAIN items = {1, 2, 3} /\ items[1] = Do("Condition") /\ items[2] = Do("Body")
          /\ items[3] = Do("Exit loop")
      OBVIOUS
    <3> HIDE DEF items
    <3>2. items[1].does = "Condition" /\ items[2].does = "Body" /\ items[3].does = "Exit loop"
      BY <3>1, Does
    <3>3. \A i \in DOMAIN items : items[i].does \notin FunctionParts \union {"Jump"}
      BY <3>1, <3>2
    <3>4. items[3].does \in LoopParts BY <3>2
    <3> QED BY <3>1, <3>3, <3>4
  <2> HIDE DEF items
  <2> QED BY <2>1, <2>2, <2>3, FlatStep
<1>14. CASE For
  <2> DEFINE items == <<Do("For")>>
  <2>1. /\ Running /\ Doing.does = "Statement" /\ outcome = "parsing" /\ outcome' = outcome
        /\ Then(items) /\ inside_loop'
    BY <1>14 DEF For, At, Running, Silent, EnterLoop
  <2>2. IsList(items) BY ShortLists
  <2>3. /\ \A i \in DOMAIN items : items[i].does \notin FunctionParts \union {"Jump"}
        /\ \E i \in DOMAIN items : items[i].does \in LoopParts
    <3>1. DOMAIN items = {1} /\ items[1] = Do("For")
      OBVIOUS
    <3> HIDE DEF items
    <3>2. items[1].does = "For"
      BY <3>1, Does
    <3>3. \A i \in DOMAIN items : items[i].does \notin FunctionParts \union {"Jump"}
      BY <3>1, <3>2
    <3>4. items[1].does \in LoopParts BY <3>2
    <3> QED BY <3>1, <3>3, <3>4
  <2> HIDE DEF items
  <2> QED BY <2>1, <2>2, <2>3, FlatStep
<1>15. CASE EnterFor
  <2>1. /\ Running /\ Doing.does = "For" /\ inside_loop' = inside_loop
        /\ Fail \/ Fatal
    BY <1>15 DEF EnterFor, At, NoLoop
  <2>2. CASE Fail BY <2>1, <2>2, FailStep
  <2>3. CASE Fatal BY <2>1, <2>3, KeepStep DEF Fatal
  <2> QED BY <2>1, <2>2, <2>3
<1>16. CASE ParseCondition
  <2>1. PlainMove
    BY <1>16, MoveKeeps, MoveFails
    DEF ParseCondition, NoParser
  <2> QED BY <1>16, <2>1, PlainMoveStep DEF ParseCondition, NoLoop
<1>17. CASE Body
  <2>1. Plain(<<Do("Statement"), Do("End of body")>>) BY OrdinaryTwo
  <2>2. PlainMove
    BY <1>17, <2>1, MoveTo, MoveKeeps
    DEF Body, Silent, Fatal
  <2> QED BY <1>17, <2>2, PlainMoveStep DEF Body, NoLoop
<1>18. CASE EndOfBody
  <2>1. PlainMove
    BY <1>18, MoveTo, MoveFails, PlainNone
    DEF EndOfBody, Return
  <2> QED BY <1>18, <2>1, PlainMoveStep DEF EndOfBody, NoLoop
<1>19. CASE Block
  <2>1. Plain(<<Item("Statements", 0, 0, Here)>>) BY Ordinary
  <2>2. PlainMove
    BY <1>19, <2>1, MoveTo, MoveFails
    DEF Block, Expect, Silent
  <2> QED BY <1>19, <2>2, PlainMoveStep DEF Block, NoLoop
<1>20. CASE Statements
  <2>1. Plain(<<Do("Statement"), Item("Semicolon", Doing.n + 1, 0, Doing.op)>>)
    BY OrdinaryTwo
  <2>2. PlainMove
    BY <1>20, <2>1, MoveTo, PlainNone
    DEF Statements, Return
  <2> QED BY <1>20, <2>2, PlainMoveStep DEF Statements, NoLoop
<1>21. CASE Semicolon
  <2>1. Plain(<<Item("Statements", Doing.n, 0, Doing.op)>>) BY Ordinary
  <2>2. PlainMove
    BY <1>21, <2>1, MoveTo, MoveFails
    DEF Semicolon, Expect, Silent
  <2> QED BY <1>21, <2>2, PlainMoveStep DEF Semicolon, NoLoop
<1>22. CASE Unmatched
  <2>1. Running /\ Doing.does = "Statements" /\ Fail /\ inside_loop' = inside_loop
    BY <1>22 DEF Unmatched, AtEnd, NoLoop
  <2> QED BY <2>1, FailStep
<1> QED
  BY <1>1, <1>2, <1>3, <1>4, <1>5, <1>6, <1>7, <1>8, <1>9, <1>10, <1>11, <1>12, <1>13,
     <1>14, <1>15, <1>16, <1>17, <1>18, <1>19, <1>20, <1>21, <1>22
  DEF ParseStmt

-----------------------------------------------------------------------------
(* Declarations.                                                           *)

\* While a part of a function is the next thing to do, it is the only one, and no
\* loop is open.
LEMMA OnlyFunction ==
  ASSUME IInv, Running, Doing.does \in FunctionParts
  PROVE  /\ ~inside_loop
         /\ Doing.does # "Function body" => scope = <<ROOT>>
         /\ Doing.does = "Function body" => scope = <<ROOT, scope[2]>>
         /\ \A items : IsList(items) /\ Then(items) => todo' = items
<1>1. todo # <<>> /\ IsList(todo) BY DEF Running, IInv
<1>2. Doing = todo[1] BY <1>1, FirstThing DEF Doing
<1>3. Len(todo) = 1 /\ DOMAIN todo = {1} /\ Tail(todo) = <<>>
  <2>1. todo \in Seq(Range(todo)) BY <1>1 DEF IsList
  <2>2. 1 \in DOMAIN todo BY <1>1, <2>1
  <2>3. 1 = Len(todo) BY <1>2, <2>2 DEF IInv, FunctionLast
  <2>4. Tail(todo) \in Seq(Range(todo)) /\ Len(Tail(todo)) = 0
    BY <1>1, <2>1, <2>3, HeadTailProperties
  <2>5. Tail(todo) = <<>> BY <2>4, ListIsSeq, EmptyList
  <2> QED BY <2>1, <2>3, <2>5
<1>4. ~inside_loop
  BY <1>2, <1>3 DEF IInv, LoopNoted, FunctionParts, LoopParts
<1>5. BodyOpen <=> Doing.does = "Function body"
  BY <1>1, <1>2, <1>3 DEF BodyOpen
<1>6. ASSUME NEW items, IsList(items), Then(items) PROVE todo' = items
  <2>1. items \in Seq(Range(items)) BY <1>6 DEF IsList
  <2> QED BY <1>3, <1>6, <2>1, ConcatEmptySeq DEF Then
<1> QED BY <1>4, <1>5, <1>6 DEF IInv, ScopeOpen

\* It makes way for things of which only the last is a part of a function; with
\* the body of a function comes its scope.
LEMMA FunctionStep ==
  ASSUME IInv, Running, Doing.does \in FunctionParts,
         NEW items, IsList(items), Then(items),
         \A i \in DOMAIN items : /\ items[i].does \in FunctionParts => i = Len(items)
                                 /\ items[i].does # "Jump",
         scope' = IF items # <<>> /\ items[Len(items)].does = "Function body"
                  THEN <<ROOT, scope'[2]>> ELSE <<ROOT>>,
         outcome' # "error", inside_loop' = inside_loop
  PROVE  IInv'
<1>1. todo' = items /\ ~inside_loop' BY OnlyFunction
<1>2. IsList(todo') BY <1>1
<1>3. FunctionLast' BY <1>1 DEF FunctionLast
<1>4. ScopeOpen' BY <1>1 DEF ScopeOpen, BodyOpen
<1>5. ErrorsOutside' BY DEF ErrorsOutside
<1>6. LoopNoted' BY <1>1 DEF LoopNoted
<1>7. JumpsAllowed' BY <1>1 DEF JumpsAllowed
<1> QED BY <1>2, <1>3, <1>4, <1>5, <1>6, <1>7 DEF IInv

\* Things to do of which only the last may be a part of a function, but not its body.
Excepted == {"Jump", "Function body"}

Carries(items) ==
  /\ IsList(items)
  /\ \A i \in DOMAIN items : /\ items[i].does \in FunctionParts => i = Len(items)
                             /\ items[i].does \notin Excepted

\* The scope stays open or closed with it.
LEMMA FunctionGoesOn ==
  ASSUME IInv, Running, Doing.does \in FunctionParts, Doing.does # "Function body",
         NEW items, Carries(items), Then(items),
         scope' = scope, outcome' # "error", inside_loop' = inside_loop
  PROVE  IInv'
<1> USE DEF Carries
<1>1. ~(items # <<>> /\ items[Len(items)].does = "Function body")
  BY LastThing DEF Excepted
<1>2. scope' = <<ROOT>> BY OnlyFunction
<1>3. scope' = IF items # <<>> /\ items[Len(items)].does = "Function body"
               THEN <<ROOT, scope'[2]>> ELSE <<ROOT>>
  BY <1>1, <1>2
<1>4. \A i \in DOMAIN items : /\ items[i].does \in FunctionParts => i = Len(items)
                              /\ items[i].does # "Jump"
  BY DEF Excepted
<1>5. IsList(items) OBVIOUS
<1> QED BY <1>3, <1>4, <1>5, FunctionStep

LEMMA CarriesNone == Carries(<<>>)
<1>1. DOMAIN <<>> = {} OBVIOUS
<1> QED BY <1>1, ShortLists DEF Carries

LEMMA CarriesOne ==
  ASSUME NEW d, d \notin Excepted, NEW n, NEW m, NEW op
  PROVE  Carries(<<Item(d, n, m, op)>>) /\ Carries(<<Do(d)>>) /\ Carries(<<DoWith(d, op)>>)
<1>1. ASSUME NEW x, x.does = d PROVE Carries(<<x>>)
  <2>1. DOMAIN <<x>> = {1} /\ <<x>>[1] = x /\ Len(<<x>>) = 1 OBVIOUS
  <2> QED BY <1>1, <2>1, ShortLists DEF Carries
<1> QED BY <1>1, Does

LEMMA CarriesTwo ==
  ASSUME NEW a, a \notin Special, NEW d, d \notin Excepted
  PROVE  Carries(<<Do(a), Do(d)>>)
<1>1. ASSUME NEW y, y.does = a, NEW x, x.does = d PROVE Carries(<<y, x>>)
  <2>1. /\ DOMAIN <<y, x>> = {1, 2} /\ Len(<<y, x>>) = 2
        /\ <<y, x>>[1] = y /\ <<y, x>>[2] = x
    OBVIOUS
  <2>2. y.does \notin FunctionParts \union Excepted
    BY <1>1 DEF FunctionParts, Special, Excepted
  <2> QED BY <1>1, <2>1, <2>2, ShortLists DEF Carries
<1>2. Do(a).does = a /\ Do(d).does = d BY Does
<1> QED BY <1>1, <1>2

LEMMA CarriesThree ==
  ASSUME NEW a, a \notin Special, NEW b, b \notin Special,
         NEW d, d \notin Excepted, NEW n, NEW m, NEW op
  PROVE  Carries(<<Do(a), Do(b), Item(d, n, m, op)>>)
<1>1. ASSUME NEW y, y.does = a, NEW z, z.does = b, NEW x, x.does = d
      PROVE  Carries(<<y, z, x>>)
  <2>1. /\ DOMAIN <<y, z, x>> = {1, 2, 3} /\ Len(<<y, z, x>>) = 3
        /\ <<y, z, x>>[1] = y /\ <<y, z, x>>[2] = z /\ <<y, z, x>>[3] = x
    OBVIOUS
  <2>2. {y.does, z.does} \cap (FunctionParts \union Excepted) = {}
    BY <1>1 DEF FunctionParts, Special, Excepted
  <2> QED BY <1>1, <2>1, <2>2, ShortLists DEF Carries
<1>2. Do(a).does = a /\ Do(b).does = b /\ Item(d, n, m, op).does = d BY Does
<1> QED BY <1>1, <1>2

FunctionMove ==
  /\ Running /\ Doing.does \in FunctionParts \ {"Function body"}
  /\ \/ Fail
     \/ outcome' # "error" /\ todo' = todo
     \/ outcome' # "error" /\ \E items : Carries(items) /\ Then(items)

LEMMA FunctionMoveStep ==
  ASSUME IInv, FunctionMove, scope' = scope, inside_loop' = inside_loop
  PROVE  IInv'
<1>1. Running /\ Doing.does \in FunctionParts /\ Doing.does # "Function body"
  BY DEF FunctionMove
<1>2. CASE Fail BY <1>1, <1>2, FailStep
<1>3. CASE outcome' # "error" /\ todo' = todo BY <1>3, KeepStep
<1>4. CASE outcome' # "error" /\ \E items : Carries(items) /\ Then(items)
  <2>1. PICK items : Carries(items) /\ Then(items) BY <1>4
  <2> QED BY <1>1, <1>4, <2>1, FunctionGoesOn
<1> QED BY <1>2, <1>3, <1>4 DEF FunctionMove

\* A scope is opened in the root and left again.
LEMMA TwoScopes ==
  ASSUME NEW root, NEW name
  PROVE  Append(<<root>>, name) = <<root, name>> /\ Front(<<root, name>>) = <<root>>
<1> DEFINE S == {root, name}
           one == <<root>>
           two == <<root, name>>
<1>1. one \in Seq(S) /\ Len(one) = 1 /\ one[1] = root OBVIOUS
<1>2. two \in Seq(S) /\ Len(two) = 2 /\ two[1] = root /\ two[2] = name OBVIOUS
<1>3. name \in S OBVIOUS
<1> HIDE DEF S, one, two
<1>4. Append(one, name) = two
  <2> DEFINE longer == Append(one, name)
  <2>1. longer \in Seq(S) /\ Len(longer) = 2 /\ longer[1] = root /\ longer[2] = name
    <3> DEFINE last == <<name>>
    <3>1. longer = one \o last BY <1>1, <1>3, AppendIsConcat
    <3>2. last \in Seq(S) /\ Len(last) = 1 /\ last[1] = name BY <1>3
    <3> HIDE DEF longer, last
    <3>3. longer \in Seq(S) /\ Len(longer) = Len(one) + Len(last)
      BY <1>1, <3>1, <3>2, ConcatProperties
    <3>4. longer[1] = one[1] BY <1>1, <3>1, <3>2, SMTT(20)
    <3>5. longer[2] = last[1]
      <4>1. \A i \in 1 .. Len(one) + Len(last) :
              longer[i] = IF i <= Len(one) THEN one[i] ELSE last[i - Len(one)]
        BY <1>1, <3>1, <3>2, ConcatProperties
      <4>2. 2 \in 1 .. Len(one) + Len(last) /\ ~(2 <= Len(one)) /\ 2 - Len(one) = 1
        BY <1>1, <3>2
      <4> QED BY <4>1, <4>2
    <3> QED BY <1>1, <3>2, <3>3, <3>4, <3>5
  <2> HIDE DEF longer
  <2>2. Len(longer) = Len(two) /\ \A i \in 1 .. Len(longer) : longer[i] = two[i]
    BY <1>2, <2>1
  <2> QED BY <1>2, <2>1, <2>2, SeqEqual DEF longer
<1>5. SubSeq(two, 1, 1) = one
  <2> DEFINE shorter == SubSeq(two, 1, 1)
  <2>1. shorter \in Seq(S) /\ Len(shorter) = 1 /\ shorter[1] = root
    BY <1>2, SubSeqProperties
  <2> HIDE DEF shorter
  <2>2. Len(shorter) = Len(one) /\ \A i \in 1 .. Len(shorter) : shorter[i] = one[i]
    BY <1>1, <2>1
  <2> QED BY <1>1, <2>1, <2>2, SeqEqual DEF shorter
<1> QED BY <1>2, <1>4, <1>5 DEF Front, one, two

LEMMA PlainAField == Plain(AField)
<1>1. {"Base type", "Declarator", "Field end"} \cap Special = {}
  BY DEF Special, FunctionParts, LoopParts
<1>2. /\ Do("Base type").does = "Base type" /\ Do("Declarator").does = "Declarator"
      /\ Item("Field end", Doing.n + 1, 0, Doing.op).does = "Field end"
  BY DEF Do, Item
<1> QED BY <1>1, <1>2, PlainThree DEF AField

\* Declarations and files.
LEMMA DeclStep == ASSUME IInv, ParseDecl, inside_loop' = inside_loop PROVE IInv'
<1> USE DEF Special, FunctionParts, LoopParts, Excepted
<1>1. CASE Declaration
  <2>1. Running /\ Doing.does = "Declaration" /\ outcome = "parsing"
    BY <1>1 DEF Declaration, At, Running
  <2>2. Carries(<<Do("Base type"), Do("Declared")>>) /\ Carries(<<Do("Struct")>>)
    BY CarriesOne, CarriesTwo
  <2>3. FunctionMove BY <1>1, <2>1, <2>2 DEF FunctionMove, Declaration, Silent
  <2> QED BY <1>1, <2>3, FunctionMoveStep DEF Declaration, SameUnit, unitVars
<1>2. CASE Declared
  <2>1. Running /\ Doing.does = "Declared" /\ outcome = "parsing" BY <1>2 DEF Declared, At, Running
  <2>2. Carries(<<Do("Function")>>)
    BY CarriesOne
  <2>3. FunctionMove BY <1>2, <2>1, <2>2 DEF FunctionMove, Declared, Silent, NoParser
  <2> QED BY <1>2, <2>3, FunctionMoveStep DEF Declared, SameUnit, unitVars
<1>3. CASE BaseType
  <2>1. Plain(<<Do("Tag")>>) /\ Plain(<<DoWith("Specifiers", Popped)>>) BY Ordinary
  <2>2. PlainMove
    BY <1>3, <2>1, MoveTo, MoveFails
    DEF BaseType, Silent
  <2> QED BY <1>3, <2>2, PlainMoveStep DEF BaseType, SameUnit, unitVars
<1>4. CASE Specifiers
  <2>1. PlainMove
    BY <1>4, MoveTo, MoveKeeps, PlainNone
    DEF Specifiers, Return, Fatal
  <2> QED BY <1>4, <2>1, PlainMoveStep DEF Specifiers, SameUnit, unitVars
<1>5. CASE Tag
  <2>1. PlainMove BY <1>5, MoveTo, MoveFails, MoveKeeps, PlainNone DEF Tag, Return, Fatal
  <2>2. scope' = scope BY <1>5 DEF Tag, SameUnit, unitVars, add_struct_type
  <2> QED BY <2>1, <2>2, PlainMoveStep
<1>6. CASE Declarator
  <2>1. Plain(<<Do("Brackets")>>) BY Ordinary
  <2>2. PlainMove
    BY <1>6, <2>1, MoveTo, MoveFails
    DEF Declarator
  <2> QED BY <1>6, <2>2, PlainMoveStep DEF Declarator, SameUnit, unitVars
<1>7. CASE Brackets
  <2>1. Plain(<<Do("Array size")>>) BY Ordinary
  <2>2. PlainMove
    BY <1>7, <2>1, MoveTo, PlainNone
    DEF Brackets, Silent, Return
  <2> QED BY <1>7, <2>2, PlainMoveStep DEF Brackets, SameUnit, unitVars
<1>8. CASE ArraySize
  <2>1. PlainMove
    BY <1>8, MoveTo, MoveKeeps, PlainNone
    DEF ArraySize, Silent, Return, NoParser
  <2> QED BY <1>8, <2>1, PlainMoveStep DEF ArraySize, SameUnit, unitVars
<1>9. CASE Function
  <2>1. Running /\ Doing.does = "Function" /\ outcome = "parsing" BY <1>9 DEF Function, At, Running
  <2>2. Carries(<<DoWith("Parameter list", Popped)>>)
    BY CarriesOne
  <2>3. FunctionMove BY <1>9, <2>1, <2>2 DEF FunctionMove, Function, Silent
  <2> QED BY <1>9, <2>3, FunctionMoveStep DEF Function, SameUnit, unitVars
<1>10. CASE ParameterList
  <2>1. Running /\ Doing.does = "Parameter list" /\ outcome = "parsing"
    BY <1>10 DEF ParameterList, At, Running
  <2>2. Carries(<<DoWith("First parameter", Doing.op)>>)
    BY CarriesOne
  <2>3. FunctionMove BY <1>10, <2>1, <2>2 DEF FunctionMove, ParameterList, Expect, Silent
  <2> QED BY <1>10, <2>3, FunctionMoveStep DEF ParameterList, SameUnit, unitVars
<1>11. CASE FirstParameter
  <2>1. Running /\ Doing.does = "First parameter" /\ outcome = "parsing"
    BY <1>11 DEF FirstParameter, At, Running
  <2>2. Carries(<<DoWith("Parameters", Doing.op)>>)
    BY CarriesOne
  <2>3. FunctionMove BY <1>11, <2>1, <2>2 DEF FunctionMove, FirstParameter, Silent
  <2> QED BY <1>11, <2>3, FunctionMoveStep DEF FirstParameter, SameUnit, unitVars
<1>12. CASE Parameters
  <2>1. Running /\ Doing.does = "Parameters" /\ outcome = "parsing"
    BY <1>12 DEF Parameters, At, Running
  <2>2. /\ Carries(<<Item("After parameters", Doing.n, 0, Doing.op)>>)
        /\ Carries(<<Do("Base type"), Do("Declarator"),
                     Item("Parameter", Doing.n + 1, 0, Doing.op)>>)
    BY CarriesOne, CarriesThree
  <2>3. FunctionMove BY <1>12, <2>1, <2>2 DEF FunctionMove, Parameters, AParameter, Silent
  <2> QED BY <1>12, <2>3, FunctionMoveStep DEF Parameters, SameUnit, unitVars
<1>13. CASE BuildParameter
  <2>1. Running /\ Doing.does = "Parameter" /\ outcome = "parsing"
    BY <1>13 DEF BuildParameter, At, Running
  <2>2. Carries(<<Item("Parameters", Doing.n, 0, Doing.op)>>)
    BY CarriesOne
  <2>3. FunctionMove BY <1>13, <2>1, <2>2 DEF FunctionMove, BuildParameter, Silent
  <2> QED BY <1>13, <2>3, FunctionMoveStep DEF BuildParameter, SameUnit, unitVars
<1>14. CASE AfterParameters
  <2>1. Running /\ Doing.does = "After parameters" /\ outcome = "parsing"
    BY <1>14 DEF AfterParameters, At, Running
  <2>2. CASE Fail /\ SameUnit
    BY <2>1, <2>2, FailStep DEF SameUnit, unitVars
  <2>3. CASE Return /\ outcome' = outcome /\ SameUnit
    <3>1. Carries(<<>>) BY CarriesNone
    <3>2. FunctionMove BY <2>1, <2>3, <3>1 DEF FunctionMove, Return
    <3> QED BY <2>3, <3>2, FunctionMoveStep DEF SameUnit, unitVars
  <2>4. CASE /\ create_func(Doing.op.is) /\ Silent
             /\ Then(<<Do("Block"), Item("Function body", Doing.n, 0, Doing.op)>>)
    <3> DEFINE items == <<Do("Block"), Item("Function body", Doing.n, 0, Doing.op)>>
    <3>1. scope' = <<ROOT, Doing.op.is>>
      <4>1. scope = <<ROOT>> BY <2>1, OnlyFunction
      <4>2. scope' = Append(scope, Doing.op.is) BY <2>4 DEF create_func
      <4> QED BY <4>1, <4>2, TwoScopes
    <3>2. /\ DOMAIN items = {1, 2} /\ Len(items) = 2 /\ items # <<>>
          /\ items[1] = Do("Block") /\ items[2] = Item("Function body", Doing.n, 0, Doing.op)
      OBVIOUS
    <3>3. IsList(items) BY ShortLists
    <3>4. Then(items) /\ outcome' = outcome BY <2>4 DEF Silent
    <3> HIDE DEF items
    <3>5. items[1].does = "Block" /\ items[2].does = "Function body"
      <4>1. items[1].does = "Block" BY <3>2, Does
      <4>2. Item("Function body", Doing.n, 0, Doing.op).does = "Function body" BY DEF Item
      <4> QED BY <3>2, <4>1, <4>2
    <3>6. \A i \in DOMAIN items : /\ items[i].does \in FunctionParts => i = Len(items)
                                  /\ items[i].does # "Jump"
      BY <3>2, <3>5
    <3>7. scope' = IF items # <<>> /\ items[Len(items)].does = "Function body"
                   THEN <<ROOT, scope'[2]>> ELSE <<ROOT>>
      BY <3>1, <3>2, <3>5
    <3> QED BY <2>1, <3>3, <3>4, <3>6, <3>7, FunctionStep
  <2> QED BY <1>14, <2>2, <2>3, <2>4 DEF AfterParameters
<1>15. CASE FunctionBody
  <2>1. /\ Running /\ Doing.does = "Function body" /\ outcome = "parsing"
        /\ outcome' = outcome /\ Then(<<>>) /\ leave_scope
    BY <1>15 DEF FunctionBody, At, Running, Return
  <2>2. scope' = <<ROOT>>
    <3>1. scope = <<ROOT, scope[2]>> BY <2>1, OnlyFunction
    <3>2. scope' = Front(scope) BY <2>1 DEF leave_scope
    <3> QED BY <3>1, <3>2, TwoScopes, Zenon
  <2>3. DOMAIN <<>> = {} OBVIOUS
  <2> QED BY <2>1, <2>2, <2>3, ShortLists, FunctionStep
<1>16. CASE Struct
  <2>1. Plain(<<Do("Struct name")>>) BY Ordinary
  <2>2. PlainMove
    BY <1>16, <2>1, MoveTo, MoveFails
    DEF Struct, Expect, Silent
  <2> QED BY <1>16, <2>2, PlainMoveStep DEF Struct, SameUnit, unitVars
<1>17. CASE StructName
  <2>1. Plain(<<DoWith("Struct body", Here)>>) BY Ordinary
  <2>2. PlainMove
    BY <1>17, <2>1, MoveTo, MoveFails
    DEF StructName, Silent
  <2> QED BY <1>17, <2>2, PlainMoveStep DEF StructName, SameUnit, unitVars
<1>18. CASE StructBody
  <2>1. Plain(<<DoWith("Fields", Doing.op)>>) BY Ordinary
  <2>2. PlainMove BY <1>18, <2>1, MoveTo, MoveFails, MoveKeeps DEF StructBody, Silent, Fatal
  <2>3. scope' = scope BY <1>18 DEF StructBody, SameUnit, unitVars, add_struct_type
  <2> QED BY <2>2, <2>3, PlainMoveStep
<1>19. CASE Fields
  <2>1. /\ Plain(<<Do("Struct"), Item("Fields", Doing.n + 1, 0, Doing.op)>>)
        /\ Plain(AField)
    BY OrdinaryTwo, PlainAField
  <2>2. PlainMove
    BY <1>19, <2>1, MoveTo, PlainNone
    DEF Fields, Return
  <2> QED BY <1>19, <2>2, PlainMoveStep DEF Fields, SameUnit, unitVars
<1>20. CASE FieldEnd
  <2>1. /\ Plain(<<Item("Fields", Doing.n, 0, Doing.op)>>) /\ Plain(AField)
    BY Ordinary, PlainAField
  <2>2. PlainMove
    BY <1>20, <2>1, MoveTo, MoveFails
    DEF FieldEnd
  <2> QED BY <1>20, <2>2, PlainMoveStep DEF FieldEnd, SameUnit, unitVars
<1>21. CASE File
  <2>1. outcome = "parsing" BY <1>21 DEF File, At, Running
  <2>2. PlainMove BY <1>21, <2>1, MoveKeeps DEF File, NoParser
  <2> QED BY <1>21, <2>2, PlainMoveStep DEF File, SameUnit, unitVars
<1>22. CASE EndOfFile
  <2>1. /\ Running /\ Doing.does = "File" /\ outcome = "parsing" /\ outcome' = outcome
        /\ Then(<<>>) /\ scope' = scope
    BY <1>22 DEF EndOfFile, AtEnd, Running, Return, Silent, SameUnit, unitVars
  <2>2. PlainMove BY <2>1, PlainNone DEF PlainMove
  <2> QED BY <2>1, <2>2, PlainMoveStep
<1> QED
  BY <1>1, <1>2, <1>3, <1>4, <1>5, <1>6, <1>7, <1>8, <1>9, <1>10, <1>11, <1>12, <1>13,
     <1>14, <1>15, <1>16, <1>17, <1>18, <1>19, <1>20, <1>21, <1>22
  DEF ParseDecl

-----------------------------------------------------------------------------
(* What holds of scopes and of the loop flag.                              *)

\* The invariant is inductive.
LEMMA InitInv == Init => IInv
<1>1. SUFFICES ASSUME Init PROVE IInv OBVIOUS
<1>2. PICK input \in Inputs : todo = <<Do(input.entry)>> BY <1>1 DEF Init
<1>3. input.entry \in {"Statement", "Block", "Declaration", "File"} BY InputsAssumption
<1>4. DOMAIN todo = {1} /\ Len(todo) = 1 /\ todo[1] = Do(input.entry) BY <1>2
<1>5. todo[1].does = input.entry BY <1>4, Does
<1>6. IsList(todo) BY <1>2, ShortLists
<1>7. /\ scope = <<ROOT>> /\ outcome = "parsing" /\ inside_loop = FALSE
  BY <1>1 DEF Init, UnitInit
<1>8. FunctionLast BY <1>4 DEF FunctionLast
<1>9. ScopeOpen BY <1>3, <1>4, <1>5, <1>7 DEF ScopeOpen, BodyOpen
<1>10. ErrorsOutside BY <1>7 DEF ErrorsOutside
<1>11. LoopNoted BY <1>7 DEF LoopNoted
<1>12. JumpsAllowed BY <1>3, <1>4, <1>5 DEF JumpsAllowed
<1> QED BY <1>6, <1>8, <1>9, <1>10, <1>11, <1>12 DEF IInv

LEMMA NextInv == IInv /\ [Next]_vars => IInv'
<1>1. SUFFICES ASSUME IInv, [Next]_vars PROVE IInv' OBVIOUS
<1>2. CASE ParseExpr /\ UNCHANGED <<unitVars, inside_loop>>
  BY <1>1, <1>2, ExprMoves, PlainMoveStep DEF unitVars
<1>3. CASE ParseStmt /\ UNCHANGED unitVars BY <1>1, <1>3, StmtStep DEF unitVars
<1>4. CASE ParseDecl /\ UNCHANGED inside_loop BY <1>1, <1>4, DeclStep
<1>5. CASE Write
  <2>1. outcome' # "error" /\ todo' = todo /\ scope' = scope /\ inside_loop' = inside_loop
    BY <1>5 DEF Write, Running, controlVars, unitVars
  <2> QED BY <1>1, <2>1, KeepStep
<1>6. CASE Spin \/ PastEnd
  <2>1. outcome' # "error" /\ todo' = todo /\ scope' = scope /\ inside_loop' = inside_loop
    BY <1>6 DEF Spin, PastEnd, Ends, unitVars
  <2> QED BY <1>1, <2>1, KeepStep
<1>7. CASE UNCHANGED vars
  BY <1>1, <1>7 DEF vars, controlVars, unitVars, IInv, IsList, FunctionLast, ScopeOpen, BodyOpen,
                    ErrorsOutside, LoopNoted, JumpsAllowed
<1> QED BY <1>1, <1>2, <1>3, <1>4, <1>5, <1>6, <1>7 DEF Next

LEMMA Invariant == Spec => []IInv
  BY InitInv, NextInv, PTL DEF Spec

\* Whatever the list of tokens, a parser that returns has left the scope of every
\* function that it entered (create_func and leave_scope of parse_func).
THEOREM ScopesRestored == Spec => []ScopeRestored
<1>1. IInv => ScopeRestored
  BY DEF IInv, ScopeOpen, BodyOpen, ErrorsOutside, ScopeRestored, Parsed
<1> QED BY <1>1, Invariant, PTL

\* Whatever the list of tokens, a break or continue is accepted only while the
\* parser of a loop has not returned (the static flag of ParserBase).
THEOREM JumpsAreInLoops == Spec => []JumpsInLoops
<1>1. IInv => JumpsInLoops
  BY DEF IInv, JumpsAllowed, LoopNoted, LoopParts, JumpsInLoops
<1> QED BY <1>1, Invariant, PTL

-----------------------------------------------------------------------------
(* Numbers.  Induction is over membership in a set: the smallest number    *)
(* outside the set would have its predecessor in it.                       *)

\* A set of numbers has a smallest.
LEMMA SmallestNumber ==
  ASSUME NEW T \in SUBSET Nat, T # {}
  PROVE  \E x \in T : \A y \in T : x <= y
<1>1. PICK x \in T : \A y \in T : <<y, x>> \notin OpToRel(<, Nat)
  BY NatLessThanWellFounded, WFMin
<1>2. ASSUME NEW y \in T PROVE x <= y
  <2>1. ~(y < x) BY <1>1, <1>2 DEF OpToRel
  <2> QED BY <2>1
<1> QED BY <1>2

\* A set that has 0, and with a number the next one, has all up to n.
LEMMA Upwards ==
  ASSUME NEW n \in Nat, NEW T, 0 \in T, \A k \in 0 .. n - 1 : k \in T => k + 1 \in T
  PROVE  \A k \in 0 .. n : k \in T
<1> DEFINE Bad == {k \in 0 .. n : k \notin T}
<1> SUFFICES ASSUME Bad # {} PROVE FALSE OBVIOUS
<1>1. PICK x \in Bad : \A y \in Bad : x <= y
  <2>1. Bad \in SUBSET Nat OBVIOUS
  <2> HIDE DEF Bad
  <2> QED BY <2>1, SmallestNumber
<1>2. x # 0 /\ x - 1 \in 0 .. n - 1 /\ x - 1 + 1 = x OBVIOUS
<1>3. x - 1 \notin Bad BY <1>1, <1>2
<1> QED BY <1>2, <1>3

-----------------------------------------------------------------------------
(* Trees.  A node is reached from a root by a path from a node to one of   *)
(* its children.                                                           *)

Path(p, k, root, node) ==
  /\ p[0] = root /\ p[k] = node
  /\ \A i \in 1 .. k : p[i] \in Range(p[i - 1].children)

Reaches(root, k, node) == \E p : Path(p, k, root, node)

\* A node in one of the trees, no more than d generations below its root.
Below(roots, d, node) == \E root \in roots : \E k \in 0 .. d : Reaches(root, k, node)
InTrees(roots, node) == \E root \in roots : \E k \in Nat : Reaches(root, k, node)

LEMMA ReachesSelf == ASSUME NEW node PROVE \A n : Reaches(node, 0, n) <=> n = node
<1>1. ASSUME NEW n, Reaches(node, 0, n) PROVE n = node BY <1>1 DEF Reaches, Path
<1>2. Reaches(node, 0, node)
  <2>1. Path([i \in {0} |-> node], 0, node, node) BY DEF Path
  <2> QED BY <2>1 DEF Reaches
<1> QED BY <1>1, <1>2

\* A path that starts one node earlier.
LEMMA ReachesFirst ==
  ASSUME NEW root, NEW child \in Range(root.children), NEW k \in Nat, NEW node,
         Reaches(child, k, node)
  PROVE  Reaches(root, k + 1, node)
<1>1. PICK p : Path(p, k, child, node) BY DEF Reaches
<1> DEFINE q == [i \in 0 .. k + 1 |-> IF i = 0 THEN root ELSE p[i - 1]]
<1>2. q[0] = root /\ q[k + 1] = node BY <1>1 DEF Path
<1>3. ASSUME NEW i \in 1 .. k + 1 PROVE q[i] \in Range(q[i - 1].children)
  <2>1. CASE i = 1
    <3>1. q[i] = child /\ q[i - 1] = root BY <1>1, <2>1 DEF Path
    <3> QED BY <3>1
  <2>2. CASE i # 1
    <3>1. q[i] = p[i - 1] /\ q[i - 1] = p[i - 1 - 1] /\ i - 1 \in 1 .. k BY <2>2
    <3> QED BY <1>1, <3>1 DEF Path
  <2> QED BY <2>1, <2>2
<1> HIDE DEF q
<1>4. Path(q, k + 1, root, node) BY <1>2, <1>3 DEF Path
<1> QED BY <1>4 DEF Reaches

\* The rest of a path after its first step.
LEMMA ReachesRest ==
  ASSUME NEW root, NEW k \in Nat, NEW node, Reaches(root, k + 1, node)
  PROVE  \E child \in Range(root.children) : Reaches(child, k, node)
<1>1. PICK p : Path(p, k + 1, root, node) BY DEF Reaches
<1> DEFINE q == [i \in 0 .. k |-> p[i + 1]]
<1>2. q[0] = p[1] /\ q[k] = node /\ p[1] \in Range(root.children)
  <2>1. 1 \in 1 .. k + 1 /\ p[1 - 1] = root BY <1>1 DEF Path
  <2>2. p[1] \in Range(p[1 - 1].children) BY <1>1, <2>1 DEF Path
  <2>3. p[k + 1] = node BY <1>1 DEF Path
  <2> QED BY <2>1, <2>2, <2>3
<1>3. ASSUME NEW i \in 1 .. k PROVE q[i] \in Range(q[i - 1].children)
  <2>1. q[i] = p[i + 1] /\ q[i - 1] = p[i - 1 + 1] /\ i - 1 + 1 = i + 1 - 1 /\ i + 1 \in 1 .. k + 1
    OBVIOUS
  <2> HIDE DEF q
  <2>2. p[i + 1] \in Range(p[i + 1 - 1].children) BY <1>1, <2>1 DEF Path
  <2> QED BY <2>1, <2>2
<1> HIDE DEF q
<1>4. Path(q, k, p[1], node) BY <1>2, <1>3 DEF Path
<1> QED BY <1>2, <1>4 DEF Reaches

\* A path that goes on to a child of its last node, and only such paths.
LEMMA ReachesLast ==
  ASSUME NEW root, NEW k \in Nat, NEW node
  PROVE  Reaches(root, k + 1, node) <=>
           \E parent : Reaches(root, k, parent) /\ node \in Range(parent.children)
<1>1. ASSUME Reaches(root, k + 1, node)
      PROVE  \E parent : Reaches(root, k, parent) /\ node \in Range(parent.children)
  <2>1. PICK p : Path(p, k + 1, root, node) BY <1>1 DEF Reaches
  <2>2. Path(p, k, root, p[k]) BY <2>1 DEF Path
  <2>3. p[k + 1] \in Range(p[k + 1 - 1].children) /\ p[k + 1] = node /\ k + 1 - 1 = k
    BY <2>1 DEF Path
  <2> QED BY <2>2, <2>3 DEF Reaches
<1>2. ASSUME NEW parent, Reaches(root, k, parent), node \in Range(parent.children)
      PROVE  Reaches(root, k + 1, node)
  <2>1. PICK p : Path(p, k, root, parent) BY <1>2 DEF Reaches
  <2> DEFINE q == [i \in 0 .. k + 1 |-> IF i = k + 1 THEN node ELSE p[i]]
  <2>2. q[0] = root /\ q[k + 1] = node BY <2>1 DEF Path
  <2>3. ASSUME NEW i \in 1 .. k + 1 PROVE q[i] \in Range(q[i - 1].children)
    <3>1. CASE i = k + 1
      <4>1. q[i] = node /\ q[i - 1] = parent BY <2>1, <3>1 DEF Path
      <4> QED BY <1>2, <4>1
    <3>2. CASE i # k + 1
      <4>1. q[i] = p[i] /\ q[i - 1] = p[i - 1] /\ i \in 1 .. k BY <3>2
      <4> QED BY <2>1, <4>1 DEF Path
    <3> QED BY <3>1, <3>2
  <2> HIDE DEF q
  <2>4. Path(q, k + 1, root, node) BY <2>2, <2>3 DEF Path
  <2> QED BY <2>4 DEF Reaches
<1> QED BY <1>1, <1>2

\* The recursive function of Generations, up to n.
GenerationsUpto(roots, n, f) ==
  f = [k \in 0 .. n |-> IF k = 0 THEN roots
                        ELSE UNION {Range(node.children) : node \in f[k - 1]}]

LEMMA GenerationsExist == ASSUME NEW roots, NEW n \in Nat PROVE \E f : GenerationsUpto(roots, n, f)
<1> DEFINE T == {m \in 0 .. n : \E f : GenerationsUpto(roots, m, f)}
<1>1. 0 \in T
  <2>1. GenerationsUpto(roots, 0, [k \in 0 .. 0 |-> roots]) BY DEF GenerationsUpto
  <2> QED BY <2>1
<1>2. ASSUME NEW m \in 0 .. n - 1, m \in T PROVE m + 1 \in T
  <2>1. PICK f : GenerationsUpto(roots, m, f) BY <1>2
  <2> DEFINE new == UNION {Range(node.children) : node \in f[m]}
             g == [k \in 0 .. m + 1 |-> IF k = m + 1 THEN new ELSE f[k]]
             step(k) == IF k = 0 THEN roots
                        ELSE UNION {Range(node.children) : node \in g[k - 1]}
  <2>2. ASSUME NEW k \in 0 .. m + 1 PROVE g[k] = step(k)
    <3>1. CASE k = m + 1
      <4>1. g[k] = new /\ g[k - 1] = f[m] /\ k # 0 BY <3>1
      <4> QED BY <3>1, <4>1
    <3>2. CASE k # m + 1
      <4>1. k \in 0 .. m /\ g[k] = f[k] /\ (k # 0 => g[k - 1] = f[k - 1]) BY <3>2
      <4>2. f[k] = IF k = 0 THEN roots ELSE UNION {Range(node.children) : node \in f[k - 1]}
        BY <2>1, <4>1 DEF GenerationsUpto
      <4> QED BY <4>1, <4>2
    <3> QED BY <3>1, <3>2
  <2>3. g = [k \in 0 .. m + 1 |-> step(k)]
    <3>1. g = [k \in 0 .. m + 1 |-> g[k]] OBVIOUS
    <3> HIDE DEF g, step
    <3> QED BY <2>2, <3>1
  <2>4. GenerationsUpto(roots, m + 1, g) BY <2>3 DEF GenerationsUpto
  <2> HIDE DEF g
  <2>5. m + 1 \in 0 .. n OBVIOUS
  <2> QED BY <2>4, <2>5
<1>3. \A k \in 0 .. n : k \in T
  <2> HIDE DEF T
  <2> QED BY <1>1, <1>2, Upwards
<1> QED BY <1>3

\* A generation has the nodes that are reached in as many steps.
LEMMA GenerationsReach ==
  ASSUME NEW roots, NEW n \in Nat
  PROVE  \A k \in 0 .. n : \A node :
           node \in Generations(roots, n)[k] <=> \E root \in roots : Reaches(root, k, node)
<1> DEFINE G == Generations(roots, n)
<1>1. GenerationsUpto(roots, n, G)
  <2>1. \E f : GenerationsUpto(roots, n, f) BY GenerationsExist
  <2>2. G = CHOOSE f : GenerationsUpto(roots, n, f) BY DEF Generations, GenerationsUpto
  <2> QED BY <2>1, <2>2, Zenon
<1> HIDE DEF G
<1> DEFINE T == {k \in 0 .. n : \A node :
                   node \in G[k] <=> \E root \in roots : Reaches(root, k, node)}
<1>2. 0 \in T
  <2>1. G[0] = roots BY <1>1 DEF GenerationsUpto
  <2> QED BY <2>1, ReachesSelf
<1>3. ASSUME NEW k \in 0 .. n - 1, k \in T PROVE k + 1 \in T
  <2>1. G[k + 1] = UNION {Range(node.children) : node \in G[k]}
    <3>1. k + 1 \in 0 .. n /\ k + 1 # 0 /\ k + 1 - 1 = k OBVIOUS
    <3>2. G[k + 1] = UNION {Range(node.children) : node \in G[k + 1 - 1]}
      BY <1>1, <3>1 DEF GenerationsUpto
    <3> QED BY <3>1, <3>2
  <2>2. ASSUME NEW node
        PROVE  node \in G[k + 1] <=> \E root \in roots : Reaches(root, k + 1, node)
    <3>1. node \in G[k + 1] <=> \E parent \in G[k] : node \in Range(parent.children)
      BY <2>1
    <3>2. \A root : Reaches(root, k + 1, node) <=>
                      \E parent : Reaches(root, k, parent) /\ node \in Range(parent.children)
      BY ReachesLast
    <3>3. \A parent : parent \in G[k] <=> \E root \in roots : Reaches(root, k, parent)
      BY <1>3
    <3> QED BY <3>1, <3>2, <3>3
  <2>3. k + 1 \in 0 .. n OBVIOUS
  <2> QED BY <2>2, <2>3
<1>4. \A k \in 0 .. n : k \in T
  <2> HIDE DEF T
  <2> QED BY <1>2, <1>3, Upwards
<1> QED BY <1>4 DEF G

\* A subtree has the nodes below its roots.
LEMMA SubtreesBelow ==
  ASSUME Len(taken) \in Nat, NEW roots
  PROVE  \A node : node \in Subtrees(roots) <=> Below(roots, Height, node)
<1>1. Height \in Nat BY DEF Height
<1>2. ASSUME NEW node PROVE node \in Subtrees(roots) <=> Below(roots, Height, node)
  <2>1. node \in Subtrees(roots) <=> \E k \in 0 .. Height : node \in Generations(roots, Height)[k]
    BY DEF Subtrees
  <2>2. \A k \in 0 .. Height :
          node \in Generations(roots, Height)[k] <=> \E root \in roots : Reaches(root, k, node)
    BY <1>1, GenerationsReach
  <2> QED BY <2>1, <2>2 DEF Below
<1> QED BY <1>2

-----------------------------------------------------------------------------
(* Tokens that are taken.                                                  *)

Typed == /\ tokens \in Seq(Spellings) /\ taken \in Seq(Spellings) /\ cached \in Seq(Qualifiers)
         /\ alphabet \subseteq Spellings /\ limit \in Nat /\ ended \in BOOLEAN

\* The token t is the last of those that were taken in a step; any before it are
\* qualifiers.
Took(t) ==
  /\ tokens' \in Seq(Spellings) /\ taken' \in Seq(Spellings) /\ cached' \in Seq(Qualifiers)
  /\ UNCHANGED <<ended, alphabet, limit>>
  /\ t.at = Len(taken') /\ Len(taken) < Len(taken') /\ t.is = taken'[Len(taken')]
  /\ \A i \in DOMAIN taken : taken'[i] = taken[i]
  /\ \A i \in Len(taken) + 1 .. Len(taken') - 1 : taken'[i] \in Qualifiers

\* Where a sequence goes on with the first k members of another.
LEMMA Longer ==
  ASSUME NEW S, NEW s \in Seq(S), NEW u \in Seq(S), NEW k \in 1 .. Len(u)
  PROVE  LET t == s \o SubSeq(u, 1, k) IN
         /\ t \in Seq(S) /\ Len(t) = Len(s) + k
         /\ \A i \in DOMAIN s : t[i] = s[i]
         /\ \A i \in 1 .. k : t[Len(s) + i] = u[i]
<1> DEFINE v == SubSeq(u, 1, k)
           t == s \o v
<1>1. v \in Seq(S) /\ Len(v) = k /\ \A i \in 1 .. k : v[i] = u[i]
  BY SubSeqProperties
<1>2. Len(s) \in Nat /\ DOMAIN s = 1 .. Len(s) OBVIOUS
<1> HIDE DEF v
<1>3. /\ t \in Seq(S) /\ Len(t) = Len(s) + k
      /\ \A i \in 1 .. Len(s) + k : t[i] = IF i <= Len(s) THEN s[i] ELSE v[i - Len(s)]
  BY <1>1, ConcatProperties
<1> HIDE DEF t
<1>4. \A i \in DOMAIN s : t[i] = s[i] BY <1>2, <1>3
<1>5. ASSUME NEW i \in 1 .. k PROVE t[Len(s) + i] = u[i]
  <2>1. Len(s) + i \in 1 .. Len(s) + k /\ ~(Len(s) + i <= Len(s)) /\ Len(s) + i - Len(s) = i
    BY <1>2
  <2>2. t[Len(s) + i] = v[Len(s) + i - Len(s)] BY <1>3, <2>1
  <2> QED BY <1>1, <2>1, <2>2
<1> QED BY <1>3, <1>4, <1>5 DEF t, v

\* A step that takes k tokens, qualifiers but for the last.
LEMMA Shifted ==
  ASSUME Typed, NEW k \in 1 .. Len(tokens), \A i \in 1 .. k - 1 : tokens[i] \in Qualifiers,
         Shift(k), cached' \in Seq(Qualifiers),
         NEW t, t.is = tokens[k], t.at = Len(taken) + k
  PROVE  Took(t)
<1>1. /\ tokens \in Seq(Spellings) /\ taken \in Seq(Spellings) BY DEF Typed
<1>2. /\ taken' = taken \o SubSeq(tokens, 1, k)
      /\ tokens' = SubSeq(tokens, k + 1, Len(tokens))
      /\ UNCHANGED <<ended, alphabet, limit>>
  BY DEF Shift
<1>3. /\ taken' \in Seq(Spellings) /\ Len(taken') = Len(taken) + k
      /\ \A i \in DOMAIN taken : taken'[i] = taken[i]
      /\ \A i \in 1 .. k : taken'[Len(taken) + i] = tokens[i]
  BY <1>1, <1>2, Longer
<1>4. tokens' \in Seq(Spellings)
  <2>1. \A i \in k + 1 .. Len(tokens) : tokens[i] \in Spellings BY <1>1
  <2> QED BY <1>1, <1>2, <2>1, SubSeqProperties
<1>5. Len(taken) \in Nat BY <1>1
<1>6. t.is = taken'[Len(taken')]
  BY <1>3
<1>7. ASSUME NEW i \in Len(taken) + 1 .. Len(taken') - 1 PROVE taken'[i] \in Qualifiers
  <2>1. i - Len(taken) \in 1 .. k - 1 /\ i - Len(taken) \in 1 .. k
        /\ Len(taken) + (i - Len(taken)) = i
    BY <1>3, <1>5
  <2>2. taken'[Len(taken) + (i - Len(taken))] = tokens[i - Len(taken)] BY <1>3, <2>1
  <2> QED BY <2>1, <2>2
<1> QED BY <1>2, <1>3, <1>4, <1>5, <1>6, <1>7 DEF Took

\* A token that was peeked at is taken.
LEMMA TakeOne ==
  ASSUME Typed, Len(tokens) >= 1, Take(1) \/ TakeCache(1)
  PROVE  Took(Here)
<1>1. tokens \in Seq(Spellings) /\ Len(tokens) \in Nat /\ 1 \in 1 .. Len(tokens) BY DEF Typed
<1>2. tokens # <<>> /\ Head(tokens) = tokens[1] BY <1>1
<1>3. Here.is = tokens[1] /\ Here.at = Len(taken) + 1 BY <1>2 DEF Here, Peek
<1>4. Shift(1) BY DEF Take, TakeCache
<1>5. cached' \in Seq(Qualifiers)
  <2>1. <<>> \in Seq(Qualifiers) OBVIOUS
  <2> QED BY <2>1 DEF Take, TakeCache, Typed
<1>6. \A i \in 1 .. 1 - 1 : tokens[i] \in Qualifiers OBVIOUS
<1> QED BY <1>1, <1>3, <1>4, <1>5, <1>6, Shifted

\* pop takes the first token that is no qualifier.
LEMMA PopsFirst ==
  ASSUME tokens \in Seq(Spellings), PopsAt # 0
  PROVE  /\ PopsAt \in 1 .. Len(tokens) /\ tokens[PopsAt] \notin Qualifiers
         /\ \A i \in 1 .. PopsAt - 1 : tokens[i] \in Qualifiers
<1> DEFINE I == {i \in 1 .. Len(tokens) : tokens[i] \notin Qualifiers}
<1>1. PopsAt = IF I # {} THEN Min(I) ELSE 0 BY DEF PopsAt, SelectInSeq
<1>2. I # {} /\ PopsAt = Min(I) BY <1>1
<1>3. I \in SUBSET Nat OBVIOUS
<1>4. PopsAt \in I /\ \A i \in I : PopsAt <= i
  <2> HIDE DEF I
  <2> QED BY <1>2, <1>3, SmallestNumber, Zenon DEF Min
<1>5. ASSUME NEW i \in 1 .. PopsAt - 1 PROVE tokens[i] \in Qualifiers
  <2>1. i \in 1 .. Len(tokens) /\ ~(PopsAt <= i) BY <1>4
  <2>2. i \notin I BY <1>4, <2>1
  <2> QED BY <2>1, <2>2
<1> QED BY <1>4, <1>5

LEMMA PopTakes == ASSUME Typed, PopsAt # 0, Pop PROVE Took(Popped)
<1>1. tokens \in Seq(Spellings) /\ cached \in Seq(Qualifiers) BY DEF Typed
<1>2. /\ PopsAt \in 1 .. Len(tokens)
      /\ \A i \in 1 .. PopsAt - 1 : tokens[i] \in Qualifiers
  BY <1>1, PopsFirst
<1>3. cached' \in Seq(Qualifiers)
  <2>1. SubSeq(tokens, 1, PopsAt - 1) \in Seq(Qualifiers) BY <1>1, <1>2, SubSeqProperties
  <2>2. cached' = cached \o SubSeq(tokens, 1, PopsAt - 1) BY DEF Pop
  <2> QED BY <1>1, <2>1, <2>2, ConcatProperties
<1>4. Popped.is = tokens[PopsAt] /\ Popped.at = Len(taken) + PopsAt BY DEF Popped
<1>5. Shift(PopsAt) BY DEF Pop
<1> QED BY <1>2, <1>3, <1>4, <1>5, Shifted

\* What the thing to do reads is there.
LEMMA ReadsOne ==
  ASSUME Typed, NEW d, At(d), d \notin Builds \union Pops
  PROVE  Len(tokens) >= 1 /\ tokens # <<>> /\ Peek \in Spellings
<1>1. Doing.does = d /\ Len(tokens) >= Reads BY DEF At, Readable
<1>2. Reads \in {1, 2, 3} BY <1>1 DEF Reads
<1>3. tokens \in Seq(Spellings) BY DEF Typed
<1>4. Len(tokens) >= 1 /\ Len(tokens) \in Nat BY <1>1, <1>2, <1>3
<1> QED BY <1>3, <1>4 DEF Peek

LEMMA ReadsPopped ==
  ASSUME Typed, NEW d, At(d), d \in Pops
  PROVE  PopsAt # 0
<1>1. Doing.does = d /\ Len(tokens) >= Reads BY DEF At, Readable
<1>2. d \notin Builds BY DEF Builds, Pops
<1>3. Reads = IF PopsAt # 0 THEN PopsAt ELSE Len(tokens) + 1 BY <1>1, <1>2 DEF Reads, Pops
<1>4. Len(tokens) \in Nat BY DEF Typed
<1> QED BY <1>1, <1>3, <1>4

-----------------------------------------------------------------------------
(* Things to do and the nodes they are for.                                *)

\* A thing to do takes nodes that were built and gives one; n counts those of a list.
Uses(it) ==
  CASE it.does \in {"Lhs", "Unary operator", "Sizeof", "Sizeof type", "Cast type", "Pointers",
                    "Close", "Suffix", "Strings", "Member", "Field", "Return", "End of body",
                    "Do while", "Exit loop", "Declared", "Function", "Parameter list",
                    "First parameter", "Declarator", "Brackets", "Array size"} -> 1
    [] it.does \in {"Rhs", "Colon", "Cast operator", "Subscript"} -> 2
    [] it.does = "Ternary" -> 3
    [] it.does \in {"Arguments", "Argument", "Statements", "Semicolon", "Fields",
                    "Field end"} -> it.n
    [] it.does \in {"Parameters", "Parameter", "After parameters"} -> it.n + 1
    [] it.does = "Function body" -> it.n + 2
    [] OTHER -> 0

Gives(it) == IF it.does \in {"File", "Condition"} THEN 0 ELSE 1

\* How many generations it puts above the nodes without taking a token for them.
Weight(it) ==
  CASE it.does \in {"Rhs", "Ternary", "Unary operator", "Sizeof operand", "Sizeof", "Sizeof type",
                    "Cast operator", "Pointers", "Return value", "Return"} -> 1
    [] it.does \in {"Parameter list", "First parameter", "Parameters", "Parameter",
                    "After parameters", "Function body"} -> 2
    [] OTHER -> 0

\* The things to do that keep a token for a node, for a cast, and for a member.
Named == {"Call", "Arguments", "Argument", "Specifiers", "Parameter list", "First parameter",
          "Parameters", "Parameter", "After parameters", "Function body", "Struct body", "Fields",
          "Field end"}
Casts == {"Cast type", "Cast operator"}
Members == {"Member", "Field"}

\* A token that is kept was taken, levels are those of the grammar, and the field
\* that ends is counted.
Kept(op, ts) == op.at \in DOMAIN ts /\ op.is = ts[op.at]
ItemOK(it, ts) ==
  /\ it.n \in Nat
  /\ it.op = NoToken \/ Kept(it.op, ts)
  /\ it.does \in Named \union Casts \union Members => Kept(it.op, ts)
  /\ it.does \in Members => it.op.is \in {".", "->"}
  /\ it.does = "Lhs" => it.n \in 1 .. 13 /\ it.m \in 0 .. 13
  /\ it.does = "Rhs" => it.n \in (1 .. 13) \ {Conditional}
  /\ it.does = "Field end" => it.n >= 1

\* A declarator has left a name with a type for the parameter or the field.
Packed == {"Brackets", "Array size"}
Packing == {"Parameter", "Field end"}
PacksReady ==
  /\ \A i \in DOMAIN todo : todo[i].does \in Packed => i = 1
  /\ \A i \in DOMAIN todo : i > 1 /\ todo[i].does \in Packing =>
       todo[i - 1].does \in Packed \union {"Declarator"}
  /\ todo # <<>> /\ todo[1].does \in Packed \union Packing => built[1].class = "VarPack"

\* String literals in a row are taken one after another.
StringsAtOnce ==
  \A i \in DOMAIN todo : todo[i].does = "Strings" =>
    i = 1 /\ taken # <<>> /\ taken[Len(taken)] = Str_Lit

\* The things of a list find the nodes they use: of a nodes that are built, b are
\* left in the end, under at most w generations more.
Runs(list, a, b, w) ==
  \E h, g \in [0 .. Len(list) -> Nat] :
    /\ h[0] = a /\ h[Len(list)] = b /\ g[0] = 0 /\ g[Len(list)] = w
    /\ \A i \in 1 .. Len(list) : /\ Uses(list[i]) \in 0 .. h[i - 1]
                                 /\ h[i] = h[i - 1] - Uses(list[i]) + Gives(list[i])
                                 /\ g[i] = g[i - 1] + Weight(list[i])

\* No name or string is waited for but behind what leaves it.
InPlace(list) ==
  \A i \in DOMAIN list :
    /\ list[i].does \notin Packed \union {"Strings"}
    /\ list[i].does \in Packing => i > 1 /\ list[i - 1].does = "Declarator"

\* A list that may take the place of its caller.
Fits(list, ts, a, b, w) ==
  /\ IsList(list) /\ Runs(list, a, b, w)
  /\ \A i \in DOMAIN list : ItemOK(list[i], ts)
Goes(list, ts, a, b, w) == Fits(list, ts, a, b, w) /\ InPlace(list)

LEMMA SmallNumbers == ASSUME NEW it PROVE Gives(it) \in {0, 1} /\ Weight(it) \in {0, 1, 2}
  BY DEF Gives, Weight

LEMMA RunsNone == ASSUME NEW a \in Nat PROVE Runs(<<>>, a, a, 0)
<1> DEFINE h == [i \in {0} |-> a]
           g == [i \in {0} |-> 0]
<1>1. Len(<<>>) = 0 /\ 0 .. 0 = {0} OBVIOUS
<1>2. h \in [{0} -> Nat] /\ g \in [{0} -> Nat] /\ h[0] = a /\ g[0] = 0 OBVIOUS
<1>3. 1 .. 0 = {} OBVIOUS
<1> HIDE DEF h, g
<1> QED BY <1>1, <1>2, <1>3 DEF Runs

LEMMA RunsOne ==
  ASSUME NEW it, NEW a \in Nat, Uses(it) \in 0 .. a
  PROVE  Runs(<<it>>, a, a - Uses(it) + Gives(it), Weight(it))
<1> DEFINE b == a - Uses(it) + Gives(it)
           h == [i \in 0 .. 1 |-> IF i = 0 THEN a ELSE b]
           g == [i \in 0 .. 1 |-> IF i = 0 THEN 0 ELSE Weight(it)]
           one == <<it>>
<1>1. Len(one) = 1 /\ one[1] = it OBVIOUS
<1>2. b \in Nat /\ Weight(it) \in Nat BY SmallNumbers
<1>3. /\ h \in [0 .. 1 -> Nat] /\ g \in [0 .. 1 -> Nat]
      /\ h[0] = a /\ h[1] = b /\ g[0] = 0 /\ g[1] = Weight(it)
  BY <1>2
<1>4. b = a - Uses(it) + Gives(it) /\ Weight(it) = 0 + Weight(it) BY <1>2
<1> HIDE DEF b, h, g, one
<1>5. ASSUME NEW i \in 1 .. 1
      PROVE  /\ Uses(one[i]) \in 0 .. h[i - 1]
             /\ h[i] = h[i - 1] - Uses(one[i]) + Gives(one[i])
             /\ g[i] = g[i - 1] + Weight(one[i])
  <2>1. i = 1 /\ i - 1 = 0 BY <1>5
  <2> QED BY <1>1, <1>3, <1>4, <2>1
<1>6. Runs(one, a, b, Weight(it)) BY <1>1, <1>3, <1>5 DEF Runs
<1> QED BY <1>6 DEF one, b

LEMMA RunsConcat ==
  ASSUME NEW s, IsList(s), NEW t, IsList(t), NEW a, NEW b, NEW c, NEW v, NEW w,
         Runs(s, a, b, v), Runs(t, b, c, w)
  PROVE  Runs(s \o t, a, c, v + w)
<1> DEFINE S == Range(s) \union Range(t)
           n == Len(s)
           m == Len(t)
           st == s \o t
<1>1. s \in Seq(S) /\ t \in Seq(S)
  <2>1. s \in Seq(Range(s)) /\ t \in Seq(Range(t)) BY DEF IsList
  <2> QED BY <2>1
<1> HIDE DEF S
<1>2. /\ n \in Nat /\ m \in Nat /\ Len(st) = n + m
      /\ \A i \in 1 .. n + m : st[i] = IF i <= n THEN s[i] ELSE t[i - n]
  BY <1>1, ConcatProperties, LenProperties
<1>3. PICK h, g \in [0 .. n -> Nat] :
        /\ h[0] = a /\ h[n] = b /\ g[0] = 0 /\ g[n] = v
        /\ \A i \in 1 .. n : /\ Uses(s[i]) \in 0 .. h[i - 1]
                             /\ h[i] = h[i - 1] - Uses(s[i]) + Gives(s[i])
                             /\ g[i] = g[i - 1] + Weight(s[i])
  BY DEF Runs
<1>4. PICK k, l \in [0 .. m -> Nat] :
        /\ k[0] = b /\ k[m] = c /\ l[0] = 0 /\ l[m] = w
        /\ \A i \in 1 .. m : /\ Uses(t[i]) \in 0 .. k[i - 1]
                             /\ k[i] = k[i - 1] - Uses(t[i]) + Gives(t[i])
                             /\ l[i] = l[i - 1] + Weight(t[i])
  BY DEF Runs
<1> HIDE DEF n, m, st
<1> DEFINE hk == [i \in 0 .. n + m |-> IF i <= n THEN h[i] ELSE k[i - n]]
           gl == [i \in 0 .. n + m |-> IF i <= n THEN g[i] ELSE v + l[i - n]]
<1>5. v \in Nat /\ w \in Nat BY <1>2, <1>3, <1>4
<1>6. \A i \in 0 .. n + m : /\ i > n => i - n \in 0 .. m
                            /\ i <= n => i \in 0 .. n
  BY <1>2
<1>7. hk \in [0 .. n + m -> Nat] /\ gl \in [0 .. n + m -> Nat]
  <2>1. \A i \in 0 .. n + m : (IF i <= n THEN h[i] ELSE k[i - n]) \in Nat BY <1>2, <1>6
  <2>2. ASSUME NEW i \in 0 .. n + m PROVE (IF i <= n THEN g[i] ELSE v + l[i - n]) \in Nat
    <3>1. CASE i <= n
      <4>1. g[i] \in Nat BY <1>6, <3>1
      <4> QED BY <3>1, <4>1
    <3>2. CASE ~(i <= n)
      <4>1. i - n \in 0 .. m BY <1>2, <1>6, <3>2
      <4>2. l[i - n] \in Nat BY <4>1
      <4>3. v + l[i - n] \in Nat BY <1>5, <4>2
      <4> QED BY <3>2, <4>3
    <3> QED BY <3>1, <3>2
  <2> QED BY <2>1, <2>2
<1>8. \A i \in n .. n + m : hk[i] = k[i - n] /\ gl[i] = v + l[i - n]
  <2>1. SUFFICES ASSUME NEW i \in n .. n + m PROVE hk[i] = k[i - n] /\ gl[i] = v + l[i - n]
    OBVIOUS
  <2>2. CASE i = n BY <1>2, <1>3, <1>4, <1>5, <2>2
  <2>3. CASE i # n BY <1>2, <2>3
  <2> QED BY <2>2, <2>3
<1>9. \A i \in 0 .. n : hk[i] = h[i] /\ gl[i] = g[i] BY <1>2
<1> HIDE DEF hk, gl
<1>10. hk[0] = a /\ hk[n + m] = c /\ gl[0] = 0 /\ gl[n + m] = v + w
  <2>1. 0 \in 0 .. n /\ n + m \in n .. n + m /\ n + m - n = m BY <1>2
  <2>2. hk[0] = a /\ gl[0] = 0 BY <1>3, <1>9, <2>1
  <2>3. hk[n + m] = k[n + m - n] /\ gl[n + m] = v + l[n + m - n] BY <1>2, <1>8, <2>1
  <2> QED BY <1>4, <2>1, <2>2, <2>3
<1>11. ASSUME NEW i \in 1 .. n + m
       PROVE  /\ Uses(st[i]) \in 0 .. hk[i - 1]
              /\ hk[i] = hk[i - 1] - Uses(st[i]) + Gives(st[i])
              /\ gl[i] = gl[i - 1] + Weight(st[i])
  <2>1. CASE i <= n
    <3>1. i \in 1 .. n /\ i \in 0 .. n /\ i - 1 \in 0 .. n /\ st[i] = s[i] BY <1>2, <2>1
    <3> QED BY <1>3, <1>9, <3>1
  <2>2. CASE ~(i <= n)
    <3>1. /\ i \in n .. n + m /\ i - 1 \in n .. n + m /\ i - n \in 1 .. m
          /\ st[i] = t[i - n] /\ i - 1 - n = i - n - 1
      <4>1. n \in Nat /\ m \in Nat BY <1>2
      <4>2. /\ i \in n .. n + m /\ i - 1 \in n .. n + m /\ i - n \in 1 .. m
            /\ i - 1 - n = i - n - 1
        BY <2>2, <4>1
      <4>3. st[i] = t[i - n] BY <1>2, <2>2
      <4> QED BY <4>2, <4>3
    <3>2. /\ hk[i] = k[i - n] /\ hk[i - 1] = k[i - n - 1]
          /\ gl[i] = v + l[i - n] /\ gl[i - 1] = v + l[i - n - 1]
      BY <1>8, <3>1
    <3> DEFINE j == i - n
    <3>3. j \in 1 .. m /\ j - 1 \in 0 .. m /\ l[j - 1] \in Nat
      <4>1. j \in 1 .. m /\ j - 1 \in 0 .. m BY <1>2, <3>1
      <4> QED BY <4>1
    <3>4. Weight(t[j]) \in {0, 1, 2} BY SmallNumbers
    <3>5. /\ Uses(t[j]) \in 0 .. k[j - 1] /\ k[j] = k[j - 1] - Uses(t[j]) + Gives(t[j])
          /\ l[j] = l[j - 1] + Weight(t[j])
      BY <1>4, <3>3
    <3>6. /\ st[i] = t[j] /\ hk[i] = k[j] /\ hk[i - 1] = k[j - 1]
          /\ gl[i] = v + l[j] /\ gl[i - 1] = v + l[j - 1]
      BY <3>1, <3>2
    <3> HIDE DEF j
    <3> QED BY <1>5, <3>3, <3>4, <3>5, <3>6
  <2> QED BY <2>1, <2>2
<1>12. Runs(st, a, c, v + w)
  <2>1. Len(st) = n + m BY <1>2
  <2>2. hk \in [0 .. Len(st) -> Nat] /\ gl \in [0 .. Len(st) -> Nat] BY <1>7, <2>1
  <2>3. hk[0] = a /\ hk[Len(st)] = c /\ gl[0] = 0 /\ gl[Len(st)] = v + w BY <1>10, <2>1
  <2>4. \A i \in 1 .. Len(st) : /\ Uses(st[i]) \in 0 .. hk[i - 1]
                                /\ hk[i] = hk[i - 1] - Uses(st[i]) + Gives(st[i])
                                /\ gl[i] = gl[i - 1] + Weight(st[i])
    BY <1>11, <2>1
  <2> QED BY <2>2, <2>3, <2>4, Zenon DEF Runs
<1> QED BY <1>12 DEF st

\* What is left of a list without its head.
LEMMA RunsTail ==
  ASSUME NEW t, IsList(t), t # <<>>, NEW a, NEW b, NEW w, Runs(t, a, b, w)
  PROVE  /\ a \in Nat /\ b \in Nat /\ w \in Nat
         /\ Uses(Head(t)) \in 0 .. a /\ Weight(Head(t)) <= w
         /\ Runs(Tail(t), a - Uses(Head(t)) + Gives(Head(t)), b, w - Weight(Head(t)))
<1> DEFINE m == Len(t)
           r == Tail(t)
           it == Head(t)
<1>1. t \in Seq(Range(t)) BY DEF IsList
<1>2. m \in Nat /\ m # 0 BY <1>1, EmptyList, LenProperties
<1>3. it = t[1] /\ Len(r) = m - 1 /\ \A i \in 1 .. m - 1 : r[i] = t[i + 1]
  BY <1>1, <1>2, HeadTailProperties
<1>4. PICK h, g \in [0 .. m -> Nat] :
        /\ h[0] = a /\ h[m] = b /\ g[0] = 0 /\ g[m] = w
        /\ \A i \in 1 .. m : /\ Uses(t[i]) \in 0 .. h[i - 1]
                             /\ h[i] = h[i - 1] - Uses(t[i]) + Gives(t[i])
                             /\ g[i] = g[i - 1] + Weight(t[i])
  BY DEF Runs
<1> HIDE DEF m, r, it
<1>5. 1 \in 1 .. m /\ 0 \in 0 .. m /\ m \in 0 .. m /\ 1 - 1 = 0 BY <1>2
<1>6. /\ Uses(it) \in 0 .. a /\ h[1] = a - Uses(it) + Gives(it) /\ g[1] = Weight(it)
  <2>1. /\ Uses(t[1]) \in 0 .. h[1 - 1] /\ h[1] = h[1 - 1] - Uses(t[1]) + Gives(t[1])
        /\ g[1] = g[1 - 1] + Weight(t[1])
    BY <1>4, <1>5
  <2>2. Weight(it) \in Nat BY SmallNumbers
  <2>3. h[1 - 1] = a /\ g[1 - 1] = 0 BY <1>4
  <2> QED BY <1>3, <2>1, <2>2, <2>3
<1>7. a \in Nat /\ b \in Nat /\ w \in Nat BY <1>4, <1>5
\* Weights only add up.
<1>8. \A i \in 0 .. m : i >= 1 => g[i] >= g[1]
  <2> DEFINE T == {i \in 0 .. m : i >= 1 => g[i] >= g[1]}
  <2>1. 0 \in T BY <1>2
  <2>2. ASSUME NEW i \in 0 .. m - 1, i \in T PROVE i + 1 \in T
    <3>1. i + 1 \in 1 .. m /\ i + 1 - 1 = i BY <1>2
    <3>2. g[i + 1] = g[i + 1 - 1] + Weight(t[i + 1]) BY <1>4, <3>1
    <3>3. g[i] \in Nat /\ g[1] \in Nat BY <1>2
    <3>4. CASE i = 0 BY <1>2, <3>3, <3>4
    <3>5. CASE i # 0
      <4>1. g[i] >= g[1] BY <2>2, <3>5
      <4>2. Weight(t[i + 1]) \in {0, 1, 2} BY SmallNumbers
      <4>3. g[i + 1] >= g[1] BY <3>1, <3>2, <3>3, <4>1, <4>2
      <4> QED BY <1>2, <4>3
    <3> QED BY <3>4, <3>5
  <2> HIDE DEF T
  <2>3. \A i \in 0 .. m : i \in T BY <1>2, <2>1, <2>2, Upwards
  <2> QED BY <2>3 DEF T
<1>9. Weight(it) <= w
  <2>1. m \in 0 .. m /\ m >= 1 BY <1>2
  <2> QED BY <1>4, <1>6, <1>8, <2>1
<1> DEFINE hh == [i \in 0 .. m - 1 |-> h[i + 1]]
           gg == [i \in 0 .. m - 1 |-> g[i + 1] - Weight(it)]
<1>10. hh \in [0 .. m - 1 -> Nat] /\ gg \in [0 .. m - 1 -> Nat]
  <2>1. \A i \in 0 .. m - 1 : i + 1 \in 0 .. m /\ i + 1 >= 1 BY <1>2
  <2>2. \A i \in 0 .. m - 1 : h[i + 1] \in Nat /\ g[i + 1] \in Nat /\ g[i + 1] >= Weight(it)
    BY <1>6, <1>8, <2>1
  <2>3. Weight(it) \in Nat BY SmallNumbers
  <2> QED BY <2>2, <2>3
<1>11. /\ hh[0] = a - Uses(it) + Gives(it) /\ hh[m - 1] = b
       /\ gg[0] = 0 /\ gg[m - 1] = w - Weight(it)
  <2>1. Weight(it) \in Nat BY SmallNumbers
  <2>2. 0 \in 0 .. m - 1 /\ m - 1 \in 0 .. m - 1 /\ m - 1 + 1 = m /\ 0 + 1 = 1 BY <1>2
  <2> QED BY <1>4, <1>6, <2>1, <2>2
<1>12. ASSUME NEW i \in 1 .. m - 1
       PROVE  /\ Uses(r[i]) \in 0 .. hh[i - 1]
              /\ hh[i] = hh[i - 1] - Uses(r[i]) + Gives(r[i])
              /\ gg[i] = gg[i - 1] + Weight(r[i])
  <2>1. /\ i \in 0 .. m - 1 /\ i - 1 \in 0 .. m - 1 /\ i + 1 \in 1 .. m
        /\ i - 1 + 1 = i /\ i + 1 - 1 = i /\ r[i] = t[i + 1]
    BY <1>2, <1>3
  <2>2. /\ Uses(t[i + 1]) \in 0 .. h[i] /\ h[i + 1] = h[i] - Uses(t[i + 1]) + Gives(t[i + 1])
        /\ g[i + 1] = g[i] + Weight(t[i + 1])
    BY <1>4, <2>1
  <2>3. /\ hh[i] = h[i + 1] /\ hh[i - 1] = h[i]
        /\ gg[i] = g[i + 1] - Weight(it) /\ gg[i - 1] = g[i] - Weight(it)
    BY <2>1
  <2>4. g[i] \in Nat /\ Weight(it) \in {0, 1, 2} /\ Weight(t[i + 1]) \in {0, 1, 2}
    BY <1>2, <2>1, SmallNumbers
  <2> HIDE DEF hh, gg
  <2> QED BY <2>1, <2>2, <2>3, <2>4
<1> HIDE DEF hh, gg
<1>13. Runs(r, a - Uses(it) + Gives(it), b, w - Weight(it))
  <2>1. Len(r) = m - 1 BY <1>3
  <2>2. hh \in [0 .. Len(r) -> Nat] /\ gg \in [0 .. Len(r) -> Nat] BY <1>10, <2>1
  <2>3. /\ hh[0] = a - Uses(it) + Gives(it) /\ hh[Len(r)] = b
        /\ gg[0] = 0 /\ gg[Len(r)] = w - Weight(it)
    BY <1>11, <2>1
  <2>4. \A i \in 1 .. Len(r) : /\ Uses(r[i]) \in 0 .. hh[i - 1]
                               /\ hh[i] = hh[i - 1] - Uses(r[i]) + Gives(r[i])
                               /\ gg[i] = gg[i - 1] + Weight(r[i])
    BY <1>12, <2>1
  <2> QED BY <2>2, <2>3, <2>4, Zenon DEF Runs
<1> QED BY <1>6, <1>7, <1>9, <1>13 DEF r, it

-----------------------------------------------------------------------------
(* What a step makes of the trees that are built.                          *)

\* A node that has a token says what the token says.
RightNode(node, ts) ==
  /\ node.class \in Speaking => node.at \in DOMAIN ts /\ node.says = ts[node.at]
  /\ node.class = "ExplicitCastExpr" => node.at \in DOMAIN ts

SaidRight(b, ts) == \A node : InTrees(Range(b), node) => RightNode(node, ts)

\* Nodes of the same token: a declared name becomes a parameter or a field.
Alike(node, other) ==
  /\ other.at = node.at
  /\ other.class = node.class \/ (node.class \in Speaking /\ other.class \in Speaking)

\* The trees of b are still there in c, x generations further down at most, and what
\* is new is right.
Grows(b, c, x, ts) ==
  /\ \A d \in Nat : \A node : Below(Range(b), d, node) =>
       \E other : Below(Range(c), d + x, other) /\ Alike(node, other)
  /\ \A node : InTrees(Range(c), node) => InTrees(Range(b), node) \/ RightNode(node, ts)

\* The tree of a node that takes the place of u others, as Replace puts it.
Replacing(b, u, node) == <<node>> \o SubSeq(b, u + 1, Len(b))

\* A path that goes on with another.
LEMMA ReachesOver ==
  ASSUME NEW n \in Nat, NEW l \in Nat, NEW mid, NEW node, Reaches(mid, l, node)
  PROVE  \A root : Reaches(root, n, mid) => Reaches(root, n + l, node)
<1> DEFINE T == {k \in 0 .. n : \A root : Reaches(root, k, mid) => Reaches(root, k + l, node)}
<1>1. 0 \in T
  <2>1. \A root : Reaches(root, 0, mid) => mid = root BY ReachesSelf
  <2>2. 0 + l = l OBVIOUS
  <2> QED BY <2>1, <2>2
<1>2. ASSUME NEW k \in 0 .. n - 1, k \in T PROVE k + 1 \in T
  <2>1. ASSUME NEW root, Reaches(root, k + 1, mid) PROVE Reaches(root, k + 1 + l, node)
    <3>1. PICK child \in Range(root.children) : Reaches(child, k, mid) BY <2>1, ReachesRest
    <3>2. Reaches(child, k + l, node) BY <1>2, <3>1
    <3>3. Reaches(root, k + l + 1, node) BY <3>2, ReachesFirst
    <3>4. k + l + 1 = k + 1 + l OBVIOUS
    <3> QED BY <3>3, <3>4
  <2>2. k + 1 \in 0 .. n OBVIOUS
  <2> QED BY <2>1, <2>2
<1>3. \A k \in 0 .. n : k \in T
  <2> HIDE DEF T
  <2> QED BY <1>1, <1>2, Upwards
<1> QED BY <1>3

\* A child is one step away.
LEMMA ReachesChild ==
  ASSUME NEW root, NEW child \in Range(root.children) PROVE Reaches(root, 1, child)
<1>1. Reaches(child, 0, child) BY ReachesSelf
<1>2. Reaches(root, 0 + 1, child) BY <1>1, ReachesFirst
<1> QED BY <1>2

\* The members of a list in which one has taken the place of others.
LEMMA ReplacingList ==
  ASSUME NEW b, IsList(b), NEW u \in 0 .. Len(b), NEW node
  PROVE  LET c == Replacing(b, u, node) IN
         /\ IsList(c) /\ Len(b) \in Nat /\ Len(c) = Len(b) - u + 1 /\ c # <<>> /\ c[1] = node
         /\ Range(c) = {node} \union {b[i] : i \in u + 1 .. Len(b)}
         /\ Range(b) = {b[i] : i \in 1 .. Len(b)}
<1> DEFINE S == Range(b) \union {node}
           one == <<node>>
           rest == SubSeq(b, u + 1, Len(b))
           c == one \o rest
           n == Len(b)
<1>1. b \in Seq(S)
  <2>1. b \in Seq(Range(b)) BY DEF IsList
  <2> QED BY <2>1
<1>2. one \in Seq(S) /\ Len(one) = 1 /\ one[1] = node OBVIOUS
<1> HIDE DEF S, one
<1>0. n \in Nat /\ u \in Nat /\ u <= n
  <2>1. n \in Nat BY <1>1, LenProperties
  <2> QED BY <2>1
<1>3. /\ n \in Nat /\ DOMAIN b = 1 .. n
      /\ \A i \in 1 .. n : b[i] \in S
  BY <1>1, LenProperties, ElementOfSeq
<1>4. /\ rest \in Seq(S) /\ Len(rest) = n - u
      /\ \A i \in 1 .. n - u : rest[i] = b[u + i]
  <2>1. u + 1 \in 1 .. n + 1 /\ u + 1 - 1 = u BY <1>3
  <2>2. \A i \in u + 1 .. n : b[i] \in S BY <1>3
  <2>3. /\ rest \in Seq(S)
        /\ Len(rest) = IF u + 1 <= n THEN n - (u + 1) + 1 ELSE 0
        /\ \A i \in 1 .. n - (u + 1) + 1 : rest[i] = b[u + 1 + i - 1]
    BY <1>1, <1>3, <2>1, <2>2, SubSeqProperties
  <2>4. n - (u + 1) + 1 = n - u /\ (~(u + 1 <= n) => n - u = 0)
    <3> HIDE DEF n
    <3> QED BY <1>0
  <2>5. \A i \in 1 .. n - u : u + 1 + i - 1 = u + i BY <1>3
  <2> QED BY <2>3, <2>4, <2>5
<1> HIDE DEF rest, n
<1>5. /\ c \in Seq(S) /\ Len(c) = 1 + (n - u)
      /\ \A i \in 1 .. 1 + (n - u) : c[i] = IF i <= 1 THEN one[i] ELSE rest[i - 1]
  <2>1. Len(one) = 1 /\ Len(rest) = n - u /\ one \in Seq(S) /\ rest \in Seq(S) BY <1>2, <1>4
  <2>2. /\ c \in Seq(S) /\ Len(c) = Len(one) + Len(rest)
        /\ \A i \in 1 .. Len(one) + Len(rest) :
             c[i] = IF i <= Len(one) THEN one[i] ELSE rest[i - Len(one)]
    <3> HIDE DEF c
    <3>1. c = one \o rest BY DEF c
    <3> QED BY <2>1, <3>1, ConcatProperties
  <2> HIDE DEF c
  <2> QED BY <2>1, <2>2
<1> HIDE DEF c
<1>6. c[1] = node /\ c # <<>> /\ Len(c) = n - u + 1
  <2>1. 1 \in 1 .. 1 + (n - u) BY <1>3 DEF n
  <2>2. Len(c) # 0 BY <1>3, <1>5 DEF n
  <2>3. c # <<>> BY <2>2
  <2>4. 1 + (n - u) = n - u + 1 BY <1>3
  <2> QED BY <1>2, <1>5, <2>1, <2>3, <2>4
<1>7. Range(b) = {b[i] : i \in 1 .. n} BY <1>3 DEF Range
<1>8. Range(c) = {node} \union {b[i] : i \in u + 1 .. n}
  <2>1. DOMAIN c = 1 .. 1 + (n - u) BY <1>5, LenProperties
  <2>2. Range(c) = {c[i] : i \in 1 .. 1 + (n - u)} BY <2>1 DEF Range
  <2>3. ASSUME NEW i \in 1 .. 1 + (n - u) PROVE c[i] \in {node} \union {b[j] : j \in u + 1 .. n}
    <3>1. CASE i = 1 BY <1>6, <3>1
    <3>2. CASE i # 1
      <4>1. i - 1 \in 1 .. n - u /\ ~(i <= 1) /\ u + (i - 1) \in u + 1 .. n BY <1>3, <3>2
      <4>2. c[i] = b[u + (i - 1)] BY <1>4, <1>5, <4>1
      <4> QED BY <4>1, <4>2
    <3> QED BY <3>1, <3>2
  <2>4. ASSUME NEW j \in u + 1 .. n PROVE b[j] \in {c[i] : i \in 1 .. 1 + (n - u)}
    <3>1. /\ j - u \in 1 .. n - u /\ u + (j - u) = j /\ j - u + 1 \in 1 .. 1 + (n - u)
          /\ ~(j - u + 1 <= 1) /\ j - u + 1 - 1 = j - u
      BY <1>3 DEF n
    <3>2. c[j - u + 1] = b[j] BY <1>4, <1>5, <3>1
    <3> QED BY <3>1, <3>2
  <2>5. node \in {c[i] : i \in 1 .. 1 + (n - u)}
    <3>1. 1 \in 1 .. 1 + (n - u) BY <1>3 DEF n
    <3> QED BY <1>6, <3>1
  <2> QED BY <2>2, <2>3, <2>4, <2>5
<1>9. IsList(c) BY <1>5, ListIsSeq
<1> QED BY <1>3, <1>6, <1>7, <1>8, <1>9 DEF c, one, rest, n, Replacing

LEMMA GrowsSame == ASSUME NEW b, NEW ts PROVE Grows(b, b, 0, ts)
<1>1. ASSUME NEW d \in Nat, NEW node, Below(Range(b), d, node)
      PROVE  \E other : Below(Range(b), d + 0, other) /\ Alike(node, other)
  <2>1. d + 0 = d OBVIOUS
  <2>2. Alike(node, node) BY DEF Alike
  <2> QED BY <1>1, <2>1, <2>2
<1> QED BY <1>1 DEF Grows

\* A node over others: they are its children, or the children of one.
LEMMA GrowsTree ==
  ASSUME NEW b, IsList(b), NEW u \in 0 .. Len(b), NEW node, NEW x \in Nat, NEW ts,
         RightNode(node, ts),
         \A i \in 1 .. u :
           \/ x >= 1 /\ b[i] \in Range(node.children)
           \/ x >= 2 /\ \E child \in Range(node.children) : b[i] \in Range(child.children),
         \A child \in Range(node.children) :
           \/ \E i \in 1 .. u : child = b[i]
           \/ /\ RightNode(child, ts)
              /\ \A other \in Range(child.children) : \E i \in 1 .. u : other = b[i]
  PROVE  Grows(b, Replacing(b, u, node), x, ts)
<1> DEFINE c == Replacing(b, u, node)
<1>1. /\ Range(c) = {node} \union {b[i] : i \in u + 1 .. Len(b)}
      /\ Range(b) = {b[i] : i \in 1 .. Len(b)} /\ Len(b) \in Nat
  BY ReplacingList
<1> HIDE DEF c
<1>2. ASSUME NEW i \in 1 .. u PROVE \E k \in 0 .. x : Reaches(node, k, b[i])
  <2>1. CASE x >= 1 /\ b[i] \in Range(node.children)
    <3>1. Reaches(node, 1, b[i]) BY <2>1, ReachesChild
    <3> QED BY <2>1, <3>1
  <2>2. CASE x >= 2 /\ \E child \in Range(node.children) : b[i] \in Range(child.children)
    <3>1. PICK child \in Range(node.children) : b[i] \in Range(child.children) BY <2>2
    <3>2. Reaches(child, 1, b[i]) BY <3>1, ReachesChild
    <3>3. Reaches(node, 1 + 1, b[i]) BY <3>2, ReachesFirst
    <3> QED BY <2>2, <3>3
  <2> QED BY <2>1, <2>2
<1>3. ASSUME NEW d \in Nat, NEW other, Below(Range(b), d, other)
      PROVE  \E same : Below(Range(c), d + x, same) /\ Alike(other, same)
  <2>1. PICK i \in 1 .. Len(b) : \E k \in 0 .. d : Reaches(b[i], k, other)
    BY <1>1, <1>3 DEF Below
  <2>2. PICK k \in 0 .. d : Reaches(b[i], k, other) BY <2>1
  <2>3. Below(Range(c), d + x, other)
    <3>1. CASE i <= u
      <4>1. i \in 1 .. u BY <3>1
      <4>2. PICK l \in 0 .. x : Reaches(node, l, b[i]) BY <1>2, <4>1
      <4>3. Reaches(node, l + k, other) BY <2>2, <4>2, ReachesOver
      <4>4. l + k \in 0 .. d + x /\ node \in Range(c) BY <1>1
      <4> QED BY <4>3, <4>4 DEF Below
    <3>2. CASE ~(i <= u)
      <4>1. i \in u + 1 .. Len(b) BY <1>1, <3>2
      <4>2. b[i] \in Range(c) /\ k \in 0 .. d + x BY <1>1, <4>1
      <4> QED BY <2>2, <4>2 DEF Below
    <3> QED BY <3>1, <3>2
  <2>4. Alike(other, other) BY DEF Alike
  <2> QED BY <2>3, <2>4
<1>4. \A i \in 1 .. u : b[i] \in Range(b) BY <1>1
<1>5. ASSUME NEW other, InTrees(Range(c), other)
      PROVE  InTrees(Range(b), other) \/ RightNode(other, ts)
  <2>1. PICK root \in Range(c) : \E k \in Nat : Reaches(root, k, other) BY <1>5 DEF InTrees
  <2>2. PICK k \in Nat : Reaches(root, k, other) BY <2>1
  <2>3. CASE root # node
    <3>1. PICK i \in u + 1 .. Len(b) : root = b[i] BY <1>1, <2>3
    <3>2. i \in 1 .. Len(b) BY <1>1
    <3>3. root \in Range(b) BY <1>1, <3>1, <3>2
    <3> QED BY <2>2, <3>3 DEF InTrees
  <2>4. CASE root = node /\ k = 0
    <3>1. other = node BY <2>2, <2>4, ReachesSelf
    <3> QED BY <3>1
  <2>5. CASE root = node /\ k # 0
    <3>1. k - 1 \in Nat /\ k - 1 + 1 = k BY <2>5
    <3>2. PICK child \in Range(node.children) : Reaches(child, k - 1, other)
      BY <2>2, <2>5, <3>1, ReachesRest
    <3>3. CASE \E i \in 1 .. u : child = b[i]
      BY <1>4, <3>1, <3>2, <3>3 DEF InTrees
    <3>4. CASE /\ RightNode(child, ts)
               /\ \A n \in Range(child.children) : \E i \in 1 .. u : n = b[i]
      <4>1. CASE k - 1 = 0
        <5>1. other = child BY <3>2, <4>1, ReachesSelf
        <5> QED BY <3>4, <5>1
      <4>2. CASE k - 1 # 0
        <5>1. k - 2 \in Nat /\ k - 2 + 1 = k - 1 BY <3>1, <4>2
        <5>2. PICK n \in Range(child.children) : Reaches(n, k - 2, other)
          BY <3>2, <5>1, ReachesRest
        <5>3. n \in Range(b) BY <1>4, <3>4
        <5> QED BY <5>1, <5>2, <5>3 DEF InTrees
      <4> QED BY <4>1, <4>2
    <3> QED BY <3>3, <3>4
  <2> QED BY <2>3, <2>4, <2>5
<1>6. Grows(b, c, x, ts) BY <1>3, <1>5 DEF Grows
<1> QED BY <1>6 DEF c

\* A node that takes the place, the token and the children of another.
LEMMA GrowsDressed ==
  ASSUME NEW b, IsList(b), 1 \in 0 .. Len(b), NEW node, NEW ts, RightNode(node, ts),
         node.children = b[1].children, node.at = b[1].at,
         node.class \in Speaking, b[1].class \in Speaking
  PROVE  Grows(b, Replacing(b, 1, node), 0, ts)
<1> DEFINE c == Replacing(b, 1, node)
<1>1. /\ Range(c) = {node} \union {b[i] : i \in 1 + 1 .. Len(b)}
      /\ Range(b) = {b[i] : i \in 1 .. Len(b)} /\ Len(b) \in Nat
  BY ReplacingList
<1> HIDE DEF c
<1>2. b[1] \in Range(b) /\ node \in Range(c) BY <1>1
<1>3. ASSUME NEW k \in Nat, NEW other, k # 0
      PROVE  Reaches(node, k, other) <=> Reaches(b[1], k, other)
  <2>1. k - 1 \in Nat /\ k - 1 + 1 = k BY <1>3
  <2>2. ASSUME NEW one, NEW two, one.children = two.children, Reaches(one, k, other)
        PROVE  Reaches(two, k, other)
    <3>1. PICK child \in Range(one.children) : Reaches(child, k - 1, other)
      BY <2>1, <2>2, ReachesRest
    <3>2. child \in Range(two.children) BY <2>2
    <3>3. Reaches(two, k - 1 + 1, other) BY <2>1, <3>1, <3>2, ReachesFirst
    <3> QED BY <2>1, <3>3
  <2> QED BY <2>2
<1>4. ASSUME NEW d \in Nat, NEW other, Below(Range(b), d, other)
      PROVE  \E same : Below(Range(c), d + 0, same) /\ Alike(other, same)
  <2>1. PICK i \in 1 .. Len(b) : \E k \in 0 .. d : Reaches(b[i], k, other)
    BY <1>1, <1>4 DEF Below
  <2>2. PICK k \in 0 .. d : Reaches(b[i], k, other) BY <2>1
  <2>3. d + 0 = d OBVIOUS
  <2>4. Alike(other, other) BY DEF Alike
  <2>5. CASE i # 1
    <3>1. b[i] \in Range(c) BY <1>1, <2>5
    <3>2. Below(Range(c), d, other) BY <2>2, <3>1 DEF Below
    <3> QED BY <2>3, <2>4, <3>2
  <2>6. CASE i = 1 /\ k # 0
    <3>1. Reaches(node, k, other) BY <1>3, <2>2, <2>6
    <3>2. Below(Range(c), d, other) BY <1>2, <3>1 DEF Below
    <3> QED BY <2>3, <2>4, <3>2
  <2>7. CASE i = 1 /\ k = 0
    <3>1. other = b[1] BY <2>2, <2>7, ReachesSelf
    <3>2. Alike(other, node) BY <3>1 DEF Alike
    <3>3. Reaches(node, 0, node) BY ReachesSelf
    <3>4. Below(Range(c), d, node) BY <1>2, <3>3 DEF Below
    <3> QED BY <2>3, <3>2, <3>4
  <2> QED BY <2>5, <2>6, <2>7
<1>5. ASSUME NEW other, InTrees(Range(c), other)
      PROVE  InTrees(Range(b), other) \/ RightNode(other, ts)
  <2>1. PICK root \in Range(c) : \E k \in Nat : Reaches(root, k, other) BY <1>5 DEF InTrees
  <2>2. PICK k \in Nat : Reaches(root, k, other) BY <2>1
  <2>3. CASE root # node
    <3>1. PICK i \in 1 + 1 .. Len(b) : root = b[i] BY <1>1, <2>3
    <3>2. i \in 1 .. Len(b) BY <1>1
    <3>3. root \in Range(b) BY <1>1, <3>1, <3>2
    <3> QED BY <2>2, <3>3 DEF InTrees
  <2>4. CASE root = node /\ k = 0
    <3>1. other = node BY <2>2, <2>4, ReachesSelf
    <3> QED BY <3>1
  <2>5. CASE root = node /\ k # 0
    <3>1. Reaches(b[1], k, other) BY <1>3, <2>2, <2>5
    <3> QED BY <1>2, <3>1 DEF InTrees
  <2> QED BY <2>3, <2>4, <2>5
<1>6. Grows(b, c, 0, ts) BY <1>4, <1>5 DEF Grows
<1> QED BY <1>6 DEF c

-----------------------------------------------------------------------------
(* Lists that take the place of their caller.                              *)

\* A thing to do that may stand anywhere, with the nodes it uses and its weight.
Neat(it, ts) == ItemOK(it, ts) /\ it.does \notin Packed \union Packing \union {"Strings"}
Due(it, ts, u, w) == Neat(it, ts) /\ Uses(it) = u /\ Gives(it) = 1 /\ Weight(it) = w

\* The things to do that have no numbers or tokens of their own to be right.
Levelled == {"Lhs", "Rhs"}

LEMMA NeatItem ==
  ASSUME NEW ts, NEW d,
         d \notin Packed \union Packing \union {"Strings"} \union Levelled \union Members,
         NEW n \in Nat, NEW m, NEW op, op = NoToken \/ Kept(op, ts),
         d \in Named \union Casts => Kept(op, ts)
  PROVE  Neat(Item(d, n, m, op), ts)
<1> DEFINE it == Item(d, n, m, op)
<1>1. it.does = d /\ it.n = n /\ it.op = op BY DEF Item
<1> HIDE DEF it
<1> QED BY <1>1 DEF Neat, ItemOK, Levelled, Packing, it

LEMMA NeatDo ==
  ASSUME NEW ts, NEW d,
         d \notin Packed \union Packing \union {"Strings"} \union Levelled \union Members,
         d \notin Named \union Casts
  PROVE  Neat(Do(d), ts)
  BY NeatItem DEF Do

\* The numbers of a thing to do are told by what it does and its n.
LEMMA FitsNone == ASSUME NEW a \in Nat, NEW ts PROVE Fits(<<>>, ts, a, a, 0)
<1>1. DOMAIN <<>> = {} OBVIOUS
<1> QED BY <1>1, RunsNone, ShortLists DEF Fits

LEMMA FitsOne ==
  ASSUME NEW it, NEW ts, ItemOK(it, ts), NEW r \in Nat, NEW u \in Nat, Uses(it) = u,
         NEW a, a = r + u
  PROVE  Fits(<<it>>, ts, a, r + Gives(it), Weight(it))
<1>1. DOMAIN <<it>> = {1} /\ <<it>>[1] = it OBVIOUS
<1>2. Uses(it) \in 0 .. a /\ a \in Nat /\ a - Uses(it) + Gives(it) = r + Gives(it)
  BY SmallNumbers
<1>3. Runs(<<it>>, a, a - Uses(it) + Gives(it), Weight(it)) BY <1>2, RunsOne
<1>4. Runs(<<it>>, a, r + Gives(it), Weight(it)) BY <1>2, <1>3
<1> QED BY <1>1, <1>4, ShortLists DEF Fits

\* The members of two lists in a row.
LEMMA ConcatList ==
  ASSUME NEW s, IsList(s), NEW t, IsList(t)
  PROVE  /\ IsList(s \o t) /\ Len(s) \in Nat
         /\ \A i \in DOMAIN (s \o t) : \/ i \in DOMAIN s /\ (s \o t)[i] = s[i]
                                       \/ /\ i \notin DOMAIN s /\ i - Len(s) \in DOMAIN t
                                          /\ (s \o t)[i] = t[i - Len(s)]
         /\ \A i \in DOMAIN s : i \in DOMAIN (s \o t) /\ (s \o t)[i] = s[i]
         /\ DOMAIN s = 1 .. Len(s) /\ DOMAIN t = 1 .. Len(t)
<1> DEFINE S == Range(s) \union Range(t)
           st == s \o t
           n == Len(s)
           m == Len(t)
<1>1. s \in Seq(S) /\ t \in Seq(S)
  <2>1. s \in Seq(Range(s)) /\ t \in Seq(Range(t)) BY DEF IsList
  <2> QED BY <2>1
<1> HIDE DEF S
<1>2. /\ n \in Nat /\ m \in Nat /\ st \in Seq(S) /\ Len(st) = n + m
      /\ \A i \in 1 .. n + m : st[i] = IF i <= n THEN s[i] ELSE t[i - n]
      /\ DOMAIN s = 1 .. n /\ DOMAIN t = 1 .. m
  BY <1>1, ConcatProperties, LenProperties
<1>3. IsList(st) BY <1>2, ListIsSeq
<1> HIDE DEF st, n, m
<1>4. DOMAIN st = 1 .. n + m BY <1>2, LenProperties
<1>5. ASSUME NEW i \in DOMAIN st
      PROVE  \/ i \in DOMAIN s /\ st[i] = s[i]
             \/ i \notin DOMAIN s /\ i - n \in DOMAIN t /\ st[i] = t[i - n]
  <2>1. CASE i <= n BY <1>2, <1>4, <2>1
  <2>2. CASE ~(i <= n)
    <3>1. i \in 1 .. n + m /\ i - n \in 1 .. m /\ i \notin 1 .. n BY <1>2, <1>4, <2>2
    <3> QED BY <1>2, <2>2, <3>1
  <2> QED BY <2>1, <2>2
<1>7. ASSUME NEW i \in DOMAIN s PROVE i \in DOMAIN st /\ st[i] = s[i]
  <2>1. i \in 1 .. n + m /\ i <= n BY <1>2
  <2> QED BY <1>2, <1>4, <2>1
<1> QED BY <1>2, <1>3, <1>5, <1>7 DEF st, n, m

LEMMA ConcatSecond ==
  ASSUME NEW s, IsList(s), NEW t, IsList(t), NEW i \in DOMAIN t
  PROVE  i + Len(s) \in DOMAIN (s \o t) /\ (s \o t)[i + Len(s)] = t[i]
<1> DEFINE S == Range(s) \union Range(t)
           st == s \o t
           n == Len(s)
           m == Len(t)
<1>1. s \in Seq(S) /\ t \in Seq(S)
  <2>1. s \in Seq(Range(s)) /\ t \in Seq(Range(t)) BY DEF IsList
  <2> QED BY <2>1
<1> HIDE DEF S
<1>2. /\ n \in Nat /\ m \in Nat /\ st \in Seq(S) /\ Len(st) = n + m
      /\ \A k \in 1 .. n + m : st[k] = IF k <= n THEN s[k] ELSE t[k - n]
      /\ i \in 1 .. m
  BY <1>1, ConcatProperties, LenProperties
<1> HIDE DEF st, n, m
<1>3. DOMAIN st = 1 .. n + m BY <1>2, LenProperties
<1>4. i + n \in 1 .. n + m /\ ~(i + n <= n) /\ i + n - n = i BY <1>2
<1>5. st[i + n] = t[i + n - n] BY <1>2, <1>4
<1> QED BY <1>3, <1>4, <1>5 DEF st, n

LEMMA FitsConcat ==
  ASSUME NEW s, NEW t, NEW ts, NEW a, NEW b, NEW c, NEW v, NEW w,
         Fits(s, ts, a, b, v), Fits(t, ts, b, c, w)
  PROVE  Fits(s \o t, ts, a, c, v + w)
<1>1. /\ IsList(s) /\ Runs(s, a, b, v) /\ \A i \in DOMAIN s : ItemOK(s[i], ts)
      /\ IsList(t) /\ Runs(t, b, c, w) /\ \A i \in DOMAIN t : ItemOK(t[i], ts)
  BY DEF Fits
<1>2. Runs(s \o t, a, c, v + w) BY <1>1, RunsConcat
<1> DEFINE st == s \o t
           n == Len(s)
<1>3. IsList(st) BY <1>1, ConcatList
<1>4. \A i \in DOMAIN st : \/ i \in DOMAIN s /\ st[i] = s[i]
                           \/ i \notin DOMAIN s /\ i - n \in DOMAIN t /\ st[i] = t[i - n]
  BY <1>1, ConcatList, Zenon
<1> HIDE DEF st, n
<1>5. \A i \in DOMAIN st : ItemOK(st[i], ts) BY <1>1, <1>4
<1>6. Runs(st, a, c, v + w) BY <1>2 DEF st
<1>7. Fits(st, ts, a, c, v + w) BY <1>3, <1>5, <1>6 DEF Fits
<1> QED BY <1>7 DEF st

LEMMA GoesNone == ASSUME NEW a \in Nat, NEW ts PROVE Goes(<<>>, ts, a, a, 0)
<1>1. DOMAIN <<>> = {} OBVIOUS
<1> QED BY <1>1, FitsNone DEF Goes, InPlace

LEMMA GoesOne ==
  ASSUME NEW it, NEW ts, NEW u \in Nat, NEW w, Due(it, ts, u, w),
         NEW a, NEW b \in Nat, b >= 1, a = b - 1 + u
  PROVE  Goes(<<it>>, ts, a, b, w)
<1>1. DOMAIN <<it>> = {1} /\ <<it>>[1] = it OBVIOUS
<1>2. InPlace(<<it>>) BY <1>1 DEF InPlace, Due, Neat
<1>3. ItemOK(it, ts) /\ Uses(it) = u /\ Gives(it) = 1 /\ Weight(it) = w BY DEF Due, Neat
<1>4. b - 1 \in Nat /\ b - 1 + 1 = b OBVIOUS
<1>5. Fits(<<it>>, ts, a, b - 1 + Gives(it), Weight(it)) BY <1>3, <1>4, FitsOne
<1>6. Fits(<<it>>, ts, a, b, w) BY <1>3, <1>4, <1>5
<1> QED BY <1>2, <1>6 DEF Goes

LEMMA GoesConcat ==
  ASSUME NEW s, NEW t, NEW ts, NEW a, NEW b, NEW c, NEW v, NEW w, NEW x,
         Goes(s, ts, a, b, v), Goes(t, ts, b, c, w), x = v + w
  PROVE  Goes(s \o t, ts, a, c, x)
<1> DEFINE st == s \o t
           n == Len(s)
<1>1. Fits(st, ts, a, c, x) BY FitsConcat DEF Goes
<1>2. IsList(s) /\ IsList(t) /\ InPlace(s) /\ InPlace(t) BY DEF Goes, Fits
<1>3. /\ n \in Nat /\ DOMAIN s = 1 .. n /\ DOMAIN t = 1 .. Len(t)
      /\ \A i \in DOMAIN st : \/ i \in DOMAIN s /\ st[i] = s[i]
                              \/ i \notin DOMAIN s /\ i - n \in DOMAIN t /\ st[i] = t[i - n]
      /\ \A i \in DOMAIN t : i + n \in DOMAIN st /\ st[i + n] = t[i]
      /\ \A i \in DOMAIN s : i \in DOMAIN st /\ st[i] = s[i]
      /\ \A i \in DOMAIN st : i \in Int
  <2>1. DOMAIN st = 1 .. Len(st)
    <3>1. IsList(st) BY <1>2, ConcatList
    <3> HIDE DEF st
    <3> QED BY <3>1, LenProperties DEF IsList
  <2>2. n \in Nat /\ DOMAIN s = 1 .. n /\ DOMAIN t = 1 .. Len(t)
    BY <1>2, ConcatList, Zenon
  <2>3. \A i \in DOMAIN st :
          \/ i \in DOMAIN s /\ st[i] = s[i]
          \/ i \notin DOMAIN s /\ i - n \in DOMAIN t /\ st[i] = t[i - n]
    BY <1>2, ConcatList, Zenon
  <2>4. \A i \in DOMAIN t : i + n \in DOMAIN st /\ st[i + n] = t[i]
    BY <1>2, ConcatSecond
  <2>5. \A i \in DOMAIN s : i \in DOMAIN st /\ st[i] = s[i]
    BY <1>2, ConcatList, Zenon
  <2> HIDE DEF st, n
  <2> QED BY <2>1, <2>2, <2>3, <2>4, <2>5
<1> HIDE DEF st, n
<1>4. ASSUME NEW i \in DOMAIN st
      PROVE  /\ st[i].does \notin Packed \union {"Strings"}
             /\ st[i].does \in Packing => i > 1 /\ st[i - 1].does = "Declarator"
  <2>1. CASE i \in DOMAIN s /\ st[i] = s[i]
    <3>1. s[i].does \in Packing => i > 1 /\ s[i - 1].does = "Declarator" BY <1>2, <2>1 DEF InPlace
    <3>2. i > 1 => i - 1 \in DOMAIN s BY <1>3, <2>1
    <3>3. i > 1 => st[i - 1] = s[i - 1] BY <1>3, <3>2
    <3> QED BY <1>2, <2>1, <3>1, <3>3 DEF InPlace
  <2>2. CASE i - n \in DOMAIN t /\ st[i] = t[i - n]
    <3> DEFINE k == i - n
    <3>1. k \in DOMAIN t /\ st[i] = t[k] /\ k \in 1 .. Len(t) /\ i = k + n BY <1>3, <2>2
    <3> HIDE DEF k
    <3>2. t[k].does \in Packing => k > 1 /\ t[k - 1].does = "Declarator" BY <1>2, <3>1 DEF InPlace
    <3>3. k > 1 => k - 1 \in DOMAIN t /\ k - 1 + n = i - 1 /\ i > 1 BY <1>3, <3>1
    <3>4. k > 1 => st[i - 1] = t[k - 1] BY <1>3, <3>3
    <3>5. t[k].does \notin Packed \union {"Strings"} BY <1>2, <3>1 DEF InPlace
    <3> QED BY <3>1, <3>2, <3>3, <3>4, <3>5
  <2> QED BY <1>3, <2>1, <2>2
<1>5. InPlace(st) BY <1>4 DEF InPlace
<1> QED BY <1>1, <1>5 DEF Goes, st

\* Short lists, put together.
LEMMA TogetherTwo == ASSUME NEW d, NEW e PROVE <<d>> \o <<e>> = <<d, e>>
<1> DEFINE S == {d, e}
           one == <<d>>
           two == <<e>>
           both == <<d, e>>
           st == one \o two
<1>1. one \in Seq(S) /\ two \in Seq(S) /\ both \in Seq(S) OBVIOUS
<1>2. Len(one) = 1 /\ Len(two) = 1 /\ Len(both) = 2 OBVIOUS
<1>3. one[1] = d /\ two[1] = e /\ both[1] = d /\ both[2] = e OBVIOUS
<1> HIDE DEF S, one, two, both, st
<1>4. /\ st \in Seq(S) /\ Len(st) = Len(one) + Len(two)
      /\ \A i \in 1 .. Len(one) + Len(two) :
           st[i] = IF i <= Len(one) THEN one[i] ELSE two[i - Len(one)]
  BY <1>1, ConcatProperties DEF st
<1>5. st[1] = d /\ st[2] = e
  <2>1. 1 \in 1 .. Len(one) + Len(two) /\ 1 <= Len(one) BY <1>2
  <2>2. 2 \in 1 .. Len(one) + Len(two) /\ ~(2 <= Len(one)) /\ 2 - Len(one) = 1 BY <1>2
  <2> QED BY <1>3, <1>4, <2>1, <2>2
<1>6. \A i \in 1 .. Len(st) : st[i] = both[i] BY <1>2, <1>3, <1>4, <1>5
<1>7. st = both BY <1>1, <1>2, <1>4, <1>6, SeqEqual
<1> QED BY <1>7 DEF st, one, two, both

LEMMA TogetherThree == ASSUME NEW d, NEW e, NEW f PROVE <<d>> \o <<e, f>> = <<d, e, f>>
<1> DEFINE S == {d, e, f}
           one == <<d>>
           two == <<e, f>>
           both == <<d, e, f>>
           st == one \o two
<1>1. one \in Seq(S) /\ two \in Seq(S) /\ both \in Seq(S) OBVIOUS
<1>2. Len(one) = 1 /\ Len(two) = 2 /\ Len(both) = 3 OBVIOUS
<1>3. one[1] = d /\ two[1] = e /\ two[2] = f /\ both[1] = d /\ both[2] = e /\ both[3] = f OBVIOUS
<1> HIDE DEF S, one, two, both, st
<1>4. /\ st \in Seq(S) /\ Len(st) = Len(one) + Len(two)
      /\ \A i \in 1 .. Len(one) + Len(two) :
           st[i] = IF i <= Len(one) THEN one[i] ELSE two[i - Len(one)]
  BY <1>1, ConcatProperties DEF st
<1>5. st[1] = d /\ st[2] = e /\ st[3] = f
  <2>1. 1 \in 1 .. Len(one) + Len(two) /\ 1 <= Len(one) BY <1>2
  <2>2. 2 \in 1 .. Len(one) + Len(two) /\ ~(2 <= Len(one)) /\ 2 - Len(one) = 1 BY <1>2
  <2>3. 3 \in 1 .. Len(one) + Len(two) /\ ~(3 <= Len(one)) /\ 3 - Len(one) = 2 BY <1>2
  <2> QED BY <1>3, <1>4, <2>1, <2>2, <2>3
<1>6. \A i \in 1 .. Len(st) : st[i] = both[i] BY <1>2, <1>3, <1>4, <1>5
<1>7. st = both BY <1>1, <1>2, <1>4, <1>6, SeqEqual
<1> QED BY <1>7 DEF st, one, two, both

LEMMA GoesTwo ==
  ASSUME NEW it, NEW to, NEW ts, NEW u \in Nat, NEW v \in Nat, v >= 1,
         NEW w, NEW x, Due(it, ts, u, w), Due(to, ts, v, x),
         NEW a, NEW b \in Nat, b >= 1, a = b - 1 + v - 1 + u, NEW y, y = w + x
  PROVE  Goes(<<it, to>>, ts, a, b, y)
<1> DEFINE m == b - 1 + v
<1>1. m \in Nat /\ m >= 1 /\ m = b - 1 + v /\ a = m - 1 + u OBVIOUS
<1> HIDE DEF m
<1>2. Goes(<<it>>, ts, a, m, w) BY <1>1, GoesOne
<1>3. Goes(<<to>>, ts, m, b, x) BY <1>1, GoesOne
<1>4. Goes(<<it>> \o <<to>>, ts, a, b, y) BY <1>2, <1>3, GoesConcat
<1> QED BY <1>4, TogetherTwo

\* The levels of the grammar.
LEMMA ThirteenLevels == Len(Levels) = 13 /\ DOMAIN Levels = 1 .. 13 BY DEF Levels

LEMMA LhsDue ==
  ASSUME NEW n \in 1 .. 13, NEW m \in 0 .. 13, NEW ts
  PROVE  Due(Item("Lhs", n, m, NoToken), ts, 1, 0)
<1> DEFINE lhs == Item("Lhs", n, m, NoToken)
<1>1. lhs.does = "Lhs" /\ lhs.n = n /\ lhs.m = m /\ lhs.op = NoToken BY DEF Item
<1> HIDE DEF lhs
<1>2. Uses(lhs) = 1 /\ Gives(lhs) = 1 /\ Weight(lhs) = 0 BY <1>1 DEF Uses, Gives, Weight
<1>3. ItemOK(lhs, ts) BY <1>1 DEF ItemOK, Named, Casts, Members
<1>4. lhs.does \notin Packed \union Packing \union {"Strings"} BY <1>1 DEF Packed, Packing
<1>5. Due(lhs, ts, 1, 0) BY <1>2, <1>3, <1>4 DEF Due, Neat
<1> QED BY <1>5 DEF lhs

LEMMA UnaryDue == ASSUME NEW ts PROVE Due(Do("Unary"), ts, 0, 0)
<1>1. Do("Unary").does = "Unary" BY Does
<1>2. Neat(Do("Unary"), ts) BY NeatDo DEF Packed, Packing, Levelled, Members, Named, Casts
<1>3. Uses(Do("Unary")) = 0 /\ Gives(Do("Unary")) = 1 /\ Weight(Do("Unary")) = 0
  BY <1>1 DEF Uses, Gives, Weight
<1> QED BY <1>2, <1>3 DEF Due

LEMMA GoesExpr ==
  ASSUME NEW n \in 1 .. 13, NEW ts, NEW a \in Nat, NEW b, b = a + 1 PROVE Goes(Expr(n), ts, a, b, 0)
<1> DEFINE lhs == Item("Lhs", n, Len(Levels), NoToken)
<1>1. Due(lhs, ts, 1, 0) BY LhsDue, ThirteenLevels
<1> HIDE DEF lhs
<1>2. /\ b \in Nat /\ b >= 1 /\ a = b - 1 + 1 - 1 + 0 /\ 0 = 0 + 0
      /\ 0 \in Nat /\ 1 \in Nat /\ 1 >= 1
  OBVIOUS
<1>3. Goes(<<Do("Unary"), lhs>>, ts, a, b, 0) BY <1>1, <1>2, UnaryDue, GoesTwo, Zenon
<1> QED BY <1>3 DEF Expr, lhs

LEMMA GoesOuter ==
  ASSUME Doing.n \in 1 .. 13, NEW n \in 1 .. 13, NEW ts, NEW a \in Nat, a >= 1
  PROVE  Goes(Outer(n), ts, a, a, 0)
<1> DEFINE lhs == Item("Lhs", Doing.n, n - 1, NoToken)
<1>1. Due(lhs, ts, 1, 0) BY LhsDue
<1> HIDE DEF lhs
<1>2. a = a - 1 + 1 OBVIOUS
<1>3. Goes(<<lhs>>, ts, a, a, 0) BY <1>1, <1>2, GoesOne
<1>4. Goes(<<>>, ts, a, a, 0) BY GoesNone
<1> QED BY <1>3, <1>4 DEF Outer, lhs

-----------------------------------------------------------------------------
(* Where the words are: at a node, or with what is still to be done.       *)

Speech == kIdentity \union Literals \union PrimitiveTypes \union {Str_Lit}
WordsOf(ts) == {i \in DOMAIN ts :
  ts[i] \in Speech /\ ~(i > 1 /\ ts[i] = Str_Lit /\ ts[i - 1] = Str_Lit)}
MemberFree(ts) == Range(ts) \intersect {".", "->"} = {}

Pending(list, at) == \E i \in DOMAIN list : list[i].does \in Named /\ list[i].op.at = at
Casting(list, at) == \E i \in DOMAIN list : list[i].does \in Casts /\ list[i].op.at = at
Said(b, d, at) == \E node : Below(Range(b), d, node) /\ node.class \in Speaking /\ node.at = at
CastSaid(b, d, at) ==
  \E node : Below(Range(b), d, node) /\ node.class = "ExplicitCastExpr" /\ node.at = at

\* A cast, perhaps not yet at its end, in place of something else than a parenthesis.
Dropping(list, b, ts, d) ==
  \E at \in DOMAIN ts : ts[at] # "(" /\ (Casting(list, at) \/ CastSaid(b, d, at))

Heard(list, b, ts, d) ==
  MemberFree(ts) =>
    Dropping(list, b, ts, d) \/ \A i \in WordsOf(ts) : Said(b, d, i) \/ Pending(list, i)

\* us is ts, or goes on with qualifiers and one more token.
Longs(ts, us) ==
  /\ ts \in Seq(Spellings) /\ us \in Seq(Spellings)
  /\ \/ us = ts
     \/ /\ Len(ts) < Len(us)
        /\ \A i \in DOMAIN ts : us[i] = ts[i]
        /\ \A i \in Len(ts) + 1 .. Len(us) - 1 : us[i] \in Qualifiers

\* The token of what is done is handed on, or is that of the node that is built.
Speaks(items, c, at) == Pending(items, at) \/ (c # <<>> /\ c[1].class \in Speaking /\ c[1].at = at)
HandsOn(it, items, c) ==
  /\ it.does \in Named => Speaks(items, c, it.op.at)
  /\ it.does \in Casts => \/ Casting(items, it.op.at)
                          \/ c # <<>> /\ c[1].class = "ExplicitCastExpr" /\ c[1].at = it.op.at

\* The same of the token that is taken, if it is a word.
Accounts(us, items, c) ==
  MemberFree(us) /\ Len(us) \in WordsOf(us) =>
    Speaks(items, c, Len(us)) \/ (us[Len(us)] # "(" /\ Casting(items, Len(us)))

\* The first of the nodes is in the trees, at any depth.
LEMMA TopBelow ==
  ASSUME NEW c, IsList(c), c # <<>>, NEW d \in Nat PROVE Below(Range(c), d, c[1])
<1>1. c \in Seq(Range(c)) BY DEF IsList
<1>2. Len(c) \in Nat /\ Len(c) # 0 /\ DOMAIN c = 1 .. Len(c) BY <1>1, EmptyList, LenProperties
<1>3. 1 \in DOMAIN c BY <1>2
<1>4. c[1] \in Range(c) BY <1>3 DEF Range
<1>5. Reaches(c[1], 0, c[1]) /\ 0 \in 0 .. d BY ReachesSelf
<1> QED BY <1>4, <1>5 DEF Below

LEMMA LongsFacts ==
  ASSUME NEW ts, NEW us, Longs(ts, us)
  PROVE  /\ Len(ts) \in Nat /\ Len(us) \in Nat /\ Len(ts) <= Len(us)
         /\ DOMAIN ts = 1 .. Len(ts) /\ DOMAIN us = 1 .. Len(us)
         /\ \A i \in DOMAIN ts : i \in DOMAIN us /\ us[i] = ts[i]
         /\ MemberFree(us) => MemberFree(ts)
         /\ us # ts => Len(us) >= Len(ts) + 1
<1>1. /\ Len(ts) \in Nat /\ Len(us) \in Nat
      /\ DOMAIN ts = 1 .. Len(ts) /\ DOMAIN us = 1 .. Len(us)
  BY LenProperties DEF Longs
<1>2. Len(ts) <= Len(us) /\ (us # ts => Len(us) >= Len(ts) + 1) BY <1>1 DEF Longs
<1>3. \A i \in DOMAIN ts : i \in DOMAIN us /\ us[i] = ts[i] BY <1>1, <1>2 DEF Longs
<1>4. MemberFree(us) => MemberFree(ts)
  <2>1. Range(ts) \subseteq Range(us) BY <1>3 DEF Range
  <2> QED BY <2>1 DEF MemberFree
<1> QED BY <1>1, <1>2, <1>3, <1>4

\* Qualifiers say nothing of their own.
LEMMA QualifiersMute == Qualifiers \intersect Speech = {}
  BY Zenon DEF Qualifiers, Speech, kIdentity, Literals, PrimitiveTypes, Str_Lit

\* A thing to do was there, or is new.
Follows(new, t, items) ==
  /\ \A i \in DOMAIN items : i \in DOMAIN new /\ new[i] = items[i]
  /\ \A i \in DOMAIN t : i # 1 => \E j \in DOMAIN new : new[j] = t[i]
  /\ \A j \in DOMAIN new : \/ j \in DOMAIN items /\ new[j] = items[j]
                           \/ \E i \in DOMAIN t : i # 1 /\ new[j] = t[i]

LEMMA AfterHead ==
  ASSUME NEW t, IsList(t), t # <<>>, NEW items, IsList(items)
  PROVE  Follows(items \o Tail(t), t, items)
<1> DEFINE new == items \o Tail(t)
           n == Len(items)
           m == Len(t)
<1>1. /\ IsList(new)
      /\ n \in Nat /\ m \in Nat /\ m >= 1
      /\ DOMAIN items = 1 .. n /\ DOMAIN t = 1 .. m
      /\ DOMAIN new = 1 .. n + m - 1
      /\ \A i \in DOMAIN items : new[i] = items[i]
      /\ \A i \in 2 .. m : new[n + i - 1] = t[i]
  <2> HIDE DEF new, n, m
  <2> QED BY Replaced DEF new, n, m
<1> HIDE DEF new, n, m
<1>2. \A i \in DOMAIN items : i \in DOMAIN new /\ new[i] = items[i] BY <1>1
<1>3. ASSUME NEW i \in DOMAIN t, i # 1 PROVE \E j \in DOMAIN new : new[j] = t[i]
  <2>1. i \in 2 .. m /\ n + i - 1 \in 1 .. n + m - 1 BY <1>1, <1>3
  <2> QED BY <1>1, <2>1
<1>4. ASSUME NEW j \in DOMAIN new, j \notin DOMAIN items
      PROVE  \E i \in DOMAIN t : i # 1 /\ new[j] = t[i]
  <2>1. j - n + 1 \in 2 .. m /\ n + (j - n + 1) - 1 = j BY <1>1, <1>4
  <2>2. new[n + (j - n + 1) - 1] = t[j - n + 1] BY <1>1, <2>1
  <2>3. j - n + 1 \in DOMAIN t /\ j - n + 1 # 1 BY <1>1, <2>1
  <2> QED BY <2>1, <2>2, <2>3
<1>5. Follows(new, t, items) BY <1>2, <1>3, <1>4 DEF Follows
<1> QED BY <1>5 DEF new

\* What a step has to do so that the words stay where they can be found.
LEMMA HeardGoes ==
  ASSUME NEW b, NEW c, IsList(c), NEW ts, NEW us, Longs(ts, us),
         NEW t, IsList(t), t # <<>>, NEW items, IsList(items), ItemOK(t[1], ts),
         NEW d \in Nat, NEW x \in Nat, NEW e \in Nat, d + x <= e,
         Heard(t, b, ts, d), Grows(b, c, x, us),
         HandsOn(t[1], items, c), us # ts => Accounts(us, items, c)
  PROVE  Heard(items \o Tail(t), c, us, e)
<1> DEFINE new == items \o Tail(t)
<1>1. /\ \A i \in DOMAIN items : i \in DOMAIN new /\ new[i] = items[i]
      /\ \A i \in DOMAIN t : i # 1 => \E j \in DOMAIN new : new[j] = t[i]
  <2>1. Follows(new, t, items) BY AfterHead
  <2> HIDE DEF new
  <2> QED BY <2>1 DEF Follows
<1> HIDE DEF new
<1>2. /\ Len(ts) \in Nat /\ Len(us) \in Nat /\ Len(ts) <= Len(us)
      /\ DOMAIN ts = 1 .. Len(ts) /\ DOMAIN us = 1 .. Len(us)
      /\ \A i \in DOMAIN ts : i \in DOMAIN us /\ us[i] = ts[i]
      /\ MemberFree(us) => MemberFree(ts)
  BY LongsFacts
\* Nodes are found again.
<1>3. ASSUME NEW node, Below(Range(b), d, node)
      PROVE  \E other : Below(Range(c), e, other) /\ Alike(node, other)
  <2>1. PICK other : Below(Range(c), d + x, other) /\ Alike(node, other) BY <1>3 DEF Grows
  <2>2. Below(Range(c), e, other)
    <3>1. PICK root \in Range(c) : \E k \in 0 .. d + x : Reaches(root, k, other)
      BY <2>1 DEF Below
    <3>2. PICK k \in 0 .. d + x : Reaches(root, k, other) BY <3>1
    <3>3. k \in 0 .. e OBVIOUS
    <3> QED BY <3>2, <3>3 DEF Below
  <2> QED BY <2>1, <2>2
<1>4. ASSUME NEW at, Said(b, d, at) PROVE Said(c, e, at)
  BY <1>3, <1>4 DEF Said, Alike
<1>5. ASSUME NEW at, CastSaid(b, d, at) PROVE CastSaid(c, e, at)
  <2>1. "ExplicitCastExpr" \notin Speaking BY DEF Speaking
  <2> QED BY <1>3, <1>5, <2>1 DEF CastSaid, Alike
<1>6. \A at : Pending(items, at) => Pending(new, at) BY <1>1 DEF Pending
<1>7. \A at : Casting(items, at) => Casting(new, at) BY <1>1 DEF Casting
<1>8. \A at : Speaks(items, c, at) => Said(c, e, at) \/ Pending(new, at)
  BY <1>6, TopBelow DEF Speaks, Said
<1>9. ASSUME NEW at, Pending(t, at) PROVE Said(c, e, at) \/ Pending(new, at)
  <2>1. PICK i \in DOMAIN t : t[i].does \in Named /\ t[i].op.at = at BY <1>9 DEF Pending
  <2>2. CASE i = 1 BY <1>8, <2>1, <2>2 DEF HandsOn
  <2>3. CASE i # 1 BY <1>1, <2>1, <2>3 DEF Pending
  <2> QED BY <2>2, <2>3
<1>10. ASSUME NEW at, Casting(t, at) PROVE CastSaid(c, e, at) \/ Casting(new, at)
  <2>1. PICK i \in DOMAIN t : t[i].does \in Casts /\ t[i].op.at = at BY <1>10 DEF Casting
  <2>2. CASE i = 1
    <3>1. CASE Casting(items, at) BY <1>7, <3>1
    <3>2. CASE c # <<>> /\ c[1].class = "ExplicitCastExpr" /\ c[1].at = at
      BY <3>2, TopBelow DEF CastSaid
    <3> QED BY <2>1, <2>2, <3>1, <3>2 DEF HandsOn
  <2>3. CASE i # 1 BY <1>1, <2>1, <2>3 DEF Casting
  <2> QED BY <2>2, <2>3
<1>11. Dropping(t, b, ts, d) => Dropping(new, c, us, e)
  BY <1>2, <1>5, <1>10 DEF Dropping
<1>12. ASSUME MemberFree(us), ~Dropping(new, c, us, e), NEW i \in WordsOf(us)
       PROVE  Said(c, e, i) \/ Pending(new, i)
  <2>1. \A k \in WordsOf(ts) : Said(b, d, k) \/ Pending(t, k)
    BY <1>2, <1>11, <1>12 DEF Heard
  <2>2. /\ i \in DOMAIN us /\ us[i] \in Speech
        /\ ~(i > 1 /\ us[i] = Str_Lit /\ us[i - 1] = Str_Lit)
    BY DEF WordsOf
  <2>3. CASE i \in DOMAIN ts
    <3>1. us[i] = ts[i] /\ (i > 1 => us[i - 1] = ts[i - 1])
      <4>1. i > 1 => i - 1 \in DOMAIN ts BY <1>2, <2>3
      <4> QED BY <1>2, <2>3, <4>1
    <3>2. i \in WordsOf(ts) BY <2>2, <2>3, <3>1 DEF WordsOf
    <3> QED BY <1>4, <1>9, <2>1, <3>2
  <2>4. CASE i \notin DOMAIN ts
    <3>1. us # ts /\ i \in Len(ts) + 1 .. Len(us) BY <1>2, <2>2, <2>4
    <3>2. i = Len(us)
      <4>1. us[i] \notin Qualifiers BY <2>2, QualifiersMute
      <4>2. i \notin Len(ts) + 1 .. Len(us) - 1 BY <3>1, <4>1 DEF Longs
      <4>3. Len(ts) \in Nat /\ Len(us) \in Nat BY <1>2
      <4>4. i \in Len(ts) + 1 .. Len(us) BY <3>1
      <4> QED BY <4>2, <4>3, <4>4
    <3>3. Speaks(items, c, i) \/ (us[i] # "(" /\ Casting(items, i))
      BY <1>12, <3>1, <3>2 DEF Accounts
    <3>4. ~(us[i] # "(" /\ Casting(items, i)) BY <1>7, <1>12, <2>2 DEF Dropping
    <3> QED BY <1>8, <3>3, <3>4
  <2> QED BY <2>3, <2>4
<1>13. Heard(new, c, us, e) BY <1>12 DEF Heard
<1> QED BY <1>13 DEF new

-----------------------------------------------------------------------------
(* The invariant, and the steps that keep it.                              *)

Outcomes == {"parsing", "error", "aborted", "no parser", "spins", "undefined"}

\* What is to be done needs what was built, and the words of what was taken are
\* nowhere else.
Ahead(list, b, ts) ==
  \E top \in {0, 1} : \E w \in 0 .. 2 * Len(ts) :
    Runs(list, Len(b), top, w) /\ Heard(list, b, ts, 2 * Len(ts) - w)

WInv == /\ Typed
        /\ IsList(todo) /\ IsList(built)
        /\ \A i \in DOMAIN todo : ItemOK(todo[i], taken)
        /\ PacksReady /\ StringsAtOnce
        /\ SaidRight(built, taken)
        /\ Ahead(todo, built, taken)
        /\ outcome \in Outcomes

Staying == UNCHANGED tokenVars

\* What is known of the thing that is done.
LEMMA DoingFacts ==
  ASSUME WInv, Running
  PROVE  /\ todo # <<>> /\ IsList(todo) /\ IsList(built) /\ Len(built) \in Nat
         /\ Doing = todo[1] /\ ItemOK(Doing, taken) /\ Typed
         /\ Uses(Doing) \in 0 .. Len(built) /\ outcome = "parsing"
<1>1. todo # <<>> /\ IsList(todo) /\ IsList(built) /\ outcome = "parsing" BY DEF Running, WInv
<1>2. Len(built) \in Nat
  <2>1. built \in Seq(Range(built)) BY <1>1 DEF IsList
  <2> QED BY <2>1, LenProperties
<1>3. Doing = todo[1] BY <1>1, FirstThing DEF Doing
<1>4. ItemOK(Doing, taken)
  <2>1. todo \in Seq(Range(todo)) BY <1>1 DEF IsList
  <2>2. Len(todo) \in Nat /\ Len(todo) # 0 /\ DOMAIN todo = 1 .. Len(todo)
    BY <1>1, <2>1, EmptyList, LenProperties
  <2>3. 1 \in DOMAIN todo BY <2>2
  <2> QED BY <1>3, <2>3 DEF WInv
<1>5. Uses(Doing) \in 0 .. Len(built)
  <2>1. PICK top \in {0, 1} : \E w \in 0 .. 2 * Len(taken) : Runs(todo, Len(built), top, w)
    BY DEF WInv, Ahead
  <2>2. PICK w \in 0 .. 2 * Len(taken) : Runs(todo, Len(built), top, w) BY <2>1
  <2> QED BY <1>1, <2>2, RunsTail DEF Doing
<1> QED BY <1>1, <1>2, <1>3, <1>4, <1>5 DEF WInv

\* What was right before stays right.
LEMMA StillKept ==
  ASSUME NEW ts, NEW us, Longs(ts, us)
  PROVE  /\ \A op : Kept(op, ts) => Kept(op, us)
         /\ \A it : ItemOK(it, ts) => ItemOK(it, us)
         /\ \A node : RightNode(node, ts) => RightNode(node, us)
<1>1. \A i \in DOMAIN ts : i \in DOMAIN us /\ us[i] = ts[i] BY LongsFacts
<1>2. \A op : Kept(op, ts) => Kept(op, us) BY <1>1 DEF Kept
<1>3. \A it : ItemOK(it, ts) => ItemOK(it, us) BY <1>2 DEF ItemOK
<1>4. \A node : RightNode(node, ts) => RightNode(node, us) BY <1>1 DEF RightNode
<1> QED BY <1>2, <1>3, <1>4

LEMMA StayFacts == ASSUME Typed, Staying PROVE Typed' /\ taken' = taken /\ Longs(taken, taken')
  BY DEF Typed, Staying, tokenVars, Longs

LEMMA TookFacts ==
  ASSUME Typed, NEW t, Took(t)
  PROVE  /\ Typed' /\ Longs(taken, taken') /\ Len(taken) \in Nat /\ Len(taken') \in Nat
         /\ Len(taken') >= Len(taken) + 1 /\ Kept(t, taken') /\ t.at = Len(taken')
<1>1. taken \in Seq(Spellings) /\ taken' \in Seq(Spellings) BY DEF Typed, Took
<1>2. Typed' BY DEF Typed, Took
<1>3. Longs(taken, taken') BY <1>1 DEF Took, Longs
<1>4. /\ Len(taken) \in Nat /\ Len(taken') \in Nat /\ DOMAIN taken' = 1 .. Len(taken')
      /\ Len(taken) < Len(taken')
  BY <1>1, LenProperties DEF Took
<1>5. t.at = Len(taken') /\ t.is = taken'[Len(taken')] BY DEF Took
<1>6. Len(taken') \in DOMAIN taken' BY <1>4
<1>7. Kept(t, taken') BY <1>5, <1>6 DEF Kept
<1>8. Len(taken') >= Len(taken) + 1 BY <1>4
<1> QED BY <1>2, <1>3, <1>4, <1>5, <1>7, <1>8

\* A step from one list of things to do to another.
LEMMA AheadGoes ==
  ASSUME NEW b, NEW c, IsList(c), NEW ts, NEW us, Longs(ts, us),
         NEW t, IsList(t), t # <<>>, NEW items, IsList(items), ItemOK(Head(t), ts),
         Ahead(t, b, ts), NEW w \in Nat, NEW x \in Nat,
         Runs(items, Len(c), Len(b) - Uses(Head(t)) + Gives(Head(t)), w),
         x + w <= Weight(Head(t)) + 2 * (Len(us) - Len(ts)),
         Grows(b, c, x, us), HandsOn(Head(t), items, c), us # ts => Accounts(us, items, c)
  PROVE  Ahead(items \o Tail(t), c, us)
<1> DEFINE it == Head(t)
           new == items \o Tail(t)
<1>1. PICK top \in {0, 1} : \E v \in 0 .. 2 * Len(ts) :
        Runs(t, Len(b), top, v) /\ Heard(t, b, ts, 2 * Len(ts) - v)
  BY DEF Ahead
<1>2. PICK v \in 0 .. 2 * Len(ts) : Runs(t, Len(b), top, v) /\ Heard(t, b, ts, 2 * Len(ts) - v)
  BY <1>1
<1>3. it = t[1] BY FirstThing
<1>4. /\ Len(b) \in Nat /\ Uses(it) \in 0 .. Len(b) /\ Weight(it) <= v
      /\ Runs(Tail(t), Len(b) - Uses(it) + Gives(it), top, v - Weight(it))
  BY <1>2, RunsTail
<1>5. Len(ts) \in Nat /\ Len(us) \in Nat /\ Len(ts) <= Len(us) BY LongsFacts
<1>6. Weight(it) \in Nat BY SmallNumbers
<1>7. IsList(Tail(t))
  <2>1. t \in Seq(Range(t)) BY DEF IsList
  <2>2. Tail(t) \in Seq(Range(t)) BY <2>1
  <2> QED BY <2>2, ListIsSeq
<1>8. Runs(new, Len(c), top, w + (v - Weight(it))) BY <1>4, <1>7, RunsConcat
<1> DEFINE y == w + (v - Weight(it))
           d == 2 * Len(ts) - v
           e == 2 * Len(us) - y
<1>9. y \in 0 .. 2 * Len(us) /\ d \in Nat /\ e \in Nat /\ d + x <= e
  <2> DEFINE k == Weight(it)
  <2>1. x + w <= k + 2 * (Len(us) - Len(ts)) /\ k \in Nat /\ k <= v BY <1>4, <1>6
  <2>2. v \in Nat /\ v <= 2 * Len(ts) BY <1>5
  <2> HIDE DEF k
  <2>3. y = w + (v - k) BY DEF k
  <2> HIDE DEF y
  <2>4. y \in Nat /\ y <= 2 * Len(us) /\ 2 * Len(ts) - v + x <= 2 * Len(us) - y
    BY <1>5, <2>1, <2>2, <2>3
  <2> QED BY <1>5, <2>2, <2>4
<1>10. Heard(new, c, us, e)
  <2> HIDE DEF y, d, e
  <2>1. Heard(t, b, ts, d) BY <1>2 DEF d
  <2>2. ItemOK(t[1], ts) /\ HandsOn(t[1], items, c) BY <1>3
  <2> QED BY <1>9, <2>1, <2>2, HeardGoes
<1> HIDE DEF y, d, new
<1>11. Runs(new, Len(c), top, y) BY <1>8 DEF y
<1>12. Ahead(new, c, us) BY <1>9, <1>10, <1>11 DEF Ahead
<1> QED BY <1>12 DEF new

LEMMA Moves ==
  ASSUME WInv, Running, NEW items, Then(items), NEW w \in Nat, NEW x \in Nat,
         Fits(items, taken', Len(built'), Len(built) - Uses(Doing) + Gives(Doing), w),
         Typed', Longs(taken, taken'), IsList(built'), Grows(built, built', x, taken'),
         HandsOn(Doing, items, built'), taken' # taken => Accounts(taken', items, built'),
         x + w <= Weight(Doing) + 2 * (Len(taken') - Len(taken)),
         PacksReady', StringsAtOnce', outcome' = outcome
  PROVE  WInv'
<1>1. /\ todo # <<>> /\ IsList(todo) /\ IsList(built) /\ ItemOK(Doing, taken)
      /\ Ahead(todo, built, taken) /\ SaidRight(built, taken)
      /\ \A i \in DOMAIN todo : ItemOK(todo[i], taken)
  BY DoingFacts DEF WInv
<1>2. /\ IsList(items) /\ \A i \in DOMAIN items : ItemOK(items[i], taken')
      /\ Runs(items, Len(built'), Len(built) - Uses(Doing) + Gives(Doing), w)
  BY DEF Fits
<1>3. todo' = items \o Tail(todo) BY DEF Then
<1>4. IsList(todo')
  <2>1. IsList(items \o Tail(todo)) BY <1>1, <1>2, Replaced
  <2> QED BY <1>3, <2>1
<1>5. \A i \in DOMAIN todo' : ItemOK(todo'[i], taken')
  <2>1. Follows(todo', todo, items) BY <1>1, <1>2, <1>3, AfterHead
  <2>2. \A i \in DOMAIN todo : ItemOK(todo[i], taken') BY <1>1, StillKept
  <2> QED BY <1>2, <2>1, <2>2 DEF Follows
<1>6. SaidRight(built', taken')
  <2>1. \A node : RightNode(node, taken) => RightNode(node, taken') BY StillKept
  <2> QED BY <1>1, <2>1 DEF SaidRight, Grows
<1>7. Ahead(todo', built', taken')
  <2>1. Ahead(items \o Tail(todo), built', taken') BY <1>1, <1>2, AheadGoes DEF Doing
  <2> QED BY <1>3, <2>1
<1>8. outcome' \in Outcomes BY DEF WInv
<1> QED BY <1>4, <1>5, <1>6, <1>7, <1>8 DEF WInv

\* Declared names and strings stay where they must.
LEMMA PlacesKept ==
  ASSUME IsList(todo), Running, PacksReady, StringsAtOnce,
         Doing.does \notin Packed \union {"Declarator"},
         NEW items, IsList(items), InPlace(items), Then(items)
  PROVE  PacksReady' /\ StringsAtOnce'
<1> DEFINE n == Len(items)
           m == Len(todo)
<1>1. todo # <<>> /\ Doing = todo[1] BY FirstThing DEF Running, Doing
<1>2. /\ n \in Nat /\ m \in Nat /\ m >= 1 /\ DOMAIN items = 1 .. n /\ DOMAIN todo = 1 .. m
      /\ DOMAIN todo' = 1 .. n + m - 1
      /\ \A i \in DOMAIN items : todo'[i] = items[i]
      /\ \A i \in 2 .. m : todo'[n + i - 1] = todo[i]
  <2> DEFINE new == items \o Tail(todo)
  <2>1. /\ Len(items) \in Nat /\ Len(todo) \in Nat /\ Len(todo) >= 1
        /\ DOMAIN items = 1 .. Len(items) /\ DOMAIN todo = 1 .. Len(todo)
        /\ Len(new) = Len(items) + Len(todo) - 1 /\ DOMAIN new = 1 .. Len(new)
        /\ \A i \in DOMAIN items : new[i] = items[i]
        /\ \A i \in 2 .. Len(todo) : new[Len(items) + i - 1] = todo[i]
    <3> HIDE DEF new, n, m
    <3> QED BY <1>1, Replaced DEF new
  <2>2. todo' = new BY DEF Then
  <2> HIDE DEF new
  <2> QED BY <2>1, <2>2
<1> HIDE DEF n, m
<1>3. ASSUME NEW j \in DOMAIN todo', j \notin DOMAIN items
      PROVE  \E i \in 2 .. m : j = n + i - 1 /\ todo'[j] = todo[i]
  <2>1. j - n + 1 \in 2 .. m /\ j = n + (j - n + 1) - 1 BY <1>2, <1>3
  <2> QED BY <1>2, <2>1
\* None of these things is at a place but the first.
<1>4. ASSUME NEW i \in 2 .. m
      PROVE  /\ todo[i].does \notin Packed \union {"Strings"}
             /\ todo[i].does \in Packing =>
                  i >= 3 /\ todo[i - 1].does \in Packed \union {"Declarator"}
  <2>1. i \in DOMAIN todo /\ i # 1 /\ i > 1 BY <1>2
  <2>2. todo[i].does \notin Packed \union {"Strings"} BY <2>1 DEF PacksReady, StringsAtOnce
  <2>3. todo[i].does \in Packing => todo[i - 1].does \in Packed \union {"Declarator"}
    BY <2>1 DEF PacksReady
  <2>4. todo[i].does \in Packing => i # 2
    <3>1. i = 2 => i - 1 = 1 OBVIOUS
    <3> QED BY <1>1, <2>3, <3>1
  <2> QED BY <2>2, <2>3, <2>4
<1>5. ASSUME NEW j \in DOMAIN todo'
      PROVE  /\ todo'[j].does \notin Packed \union {"Strings"}
             /\ todo'[j].does \in Packing =>
                  j > 1 /\ todo'[j - 1].does \in Packed \union {"Declarator"}
  <2>1. CASE j \in DOMAIN items
    <3>1. /\ items[j].does \notin Packed \union {"Strings"}
          /\ items[j].does \in Packing => j > 1 /\ items[j - 1].does = "Declarator"
      BY <2>1 DEF InPlace
    <3>2. j > 1 => j - 1 \in DOMAIN items BY <1>2, <2>1
    <3> QED BY <1>2, <2>1, <3>1, <3>2
  <2>2. CASE j \notin DOMAIN items
    <3>1. PICK i \in 2 .. m : j = n + i - 1 /\ todo'[j] = todo[i] BY <1>3, <2>2
    <3>2. i >= 3 => i - 1 \in 2 .. m /\ n + (i - 1) - 1 = j - 1 /\ j > 1 BY <1>2, <3>1
    <3>3. i >= 3 => todo'[j - 1] = todo[i - 1]
      <4>1. SUFFICES ASSUME i >= 3 PROVE todo'[j - 1] = todo[i - 1] OBVIOUS
      <4>2. todo'[n + (i - 1) - 1] = todo[i - 1] BY <1>2, <3>2, <4>1
      <4> QED BY <3>2, <4>1, <4>2
    <3> QED BY <1>4, <3>1, <3>2, <3>3
  <2> QED BY <2>1, <2>2
<1>6. 1 \notin DOMAIN todo' => todo' = <<>>
  <2>1. IsList(todo')
    <3>1. IsList(items \o Tail(todo)) BY <1>1, Replaced
    <3> QED BY <3>1 DEF Then
  <2>2. todo' \in Seq(Range(todo')) BY <2>1 DEF IsList
  <2>3. Len(todo') \in Nat /\ DOMAIN todo' = 1 .. Len(todo') BY <2>2, LenProperties
  <2>4. 1 \notin DOMAIN todo' => Len(todo') = 0 BY <2>3
  <2> QED BY <2>1, <2>4, EmptyList
<1>7. PacksReady'
  <2>1. todo' # <<>> => todo'[1].does \notin Packed \union Packing BY <1>5, <1>6
  <2> QED BY <1>5, <2>1 DEF PacksReady
<1>8. StringsAtOnce' BY <1>5 DEF StringsAtOnce
<1> QED BY <1>7, <1>8

-----------------------------------------------------------------------------
(* The things to do that take another's place, with what they need.        *)

LEMMA DueDo ==
  ASSUME NEW ts, NEW d \in {"Unary", "Cast", "Type name", "Body", "Statement", "Block",
                              "Base type", "Tag", "Struct", "Struct name", "For"}
  PROVE  Due(Do(d), ts, 0, 0)
<1> DEFINE it == Do(d)
<1>1. it.does = d BY DEF Item, Do, DoWith
<1>2. Neat(it, ts) BY NeatItem DEF Do, DoWith, Packed, Packing, Levelled, Members, Named, Casts
<1> HIDE DEF it
<1>3. Uses(it) = 0 /\ Gives(it) = 1 /\ Weight(it) = 0 BY <1>1 DEF Uses, Gives, Weight
<1> QED BY <1>2, <1>3 DEF Due, it

LEMMA DueDoOne ==
  ASSUME NEW ts, NEW d \in {"Close", "Suffix", "Do while", "Exit loop", "End of body",
                              "Declared", "Function", "Declarator"}
  PROVE  Due(Do(d), ts, 1, 0)
<1> DEFINE it == Do(d)
<1>1. it.does = d BY DEF Item, Do, DoWith
<1>2. Neat(it, ts) BY NeatItem DEF Do, DoWith, Packed, Packing, Levelled, Members, Named, Casts
<1> HIDE DEF it
<1>3. Uses(it) = 1 /\ Gives(it) = 1 /\ Weight(it) = 0 BY <1>1 DEF Uses, Gives, Weight
<1> QED BY <1>2, <1>3 DEF Due, it

LEMMA DueWith ==
  ASSUME NEW ts, NEW d \in {"Call", "Specifiers", "Struct body", "Jump", "Type tag",
                              "Arguments", "Statements", "Fields"},
         NEW op, Kept(op, ts) \/ (op = NoToken /\ d \notin Named \union Casts)
  PROVE  Due(DoWith(d, op), ts, 0, 0)
<1> DEFINE it == DoWith(d, op)
<1>1. it.does = d /\ it.n = 0 BY DEF Item, Do, DoWith
<1>2. Neat(it, ts) BY NeatItem DEF Do, DoWith, Packed, Packing, Levelled, Members, Named, Casts
<1> HIDE DEF it
<1>3. Uses(it) = 0 /\ Gives(it) = 1 /\ Weight(it) = 0 BY <1>1 DEF Uses, Gives, Weight
<1> QED BY <1>2, <1>3 DEF Due, it

LEMMA DueWithHeavy ==
  ASSUME NEW ts, NEW d \in {"Sizeof operand", "Return value"},
         NEW op, Kept(op, ts) \/ (op = NoToken /\ d \notin Named \union Casts)
  PROVE  Due(DoWith(d, op), ts, 0, 1)
<1> DEFINE it == DoWith(d, op)
<1>1. it.does = d BY DEF Item, Do, DoWith
<1>2. Neat(it, ts) BY NeatItem DEF Do, DoWith, Packed, Packing, Levelled, Members, Named, Casts
<1> HIDE DEF it
<1>3. Uses(it) = 0 /\ Gives(it) = 1 /\ Weight(it) = 1 BY <1>1 DEF Uses, Gives, Weight
<1> QED BY <1>2, <1>3 DEF Due, it

LEMMA DueWithOne ==
  ASSUME NEW ts, NEW d \in {"Sizeof type", "Sizeof", "Unary operator", "Pointers", "Return"},
         NEW op, Kept(op, ts) \/ (op = NoToken /\ d \notin Named \union Casts)
  PROVE  Due(DoWith(d, op), ts, 1, 1)
<1> DEFINE it == DoWith(d, op)
<1>1. it.does = d BY DEF Item, Do, DoWith
<1>2. Neat(it, ts) BY NeatItem DEF Do, DoWith, Packed, Packing, Levelled, Members, Named, Casts
<1> HIDE DEF it
<1>3. Uses(it) = 1 /\ Gives(it) = 1 /\ Weight(it) = 1 BY <1>1 DEF Uses, Gives, Weight
<1> QED BY <1>2, <1>3 DEF Due, it

LEMMA DueCastType ==
  ASSUME NEW ts, NEW d \in {"Cast type"},
         NEW op, Kept(op, ts) \/ (op = NoToken /\ d \notin Named \union Casts)
  PROVE  Due(DoWith(d, op), ts, 1, 0)
<1> DEFINE it == DoWith(d, op)
<1>1. it.does = d BY DEF Item, Do, DoWith
<1>2. Neat(it, ts) BY NeatItem DEF Do, DoWith, Packed, Packing, Levelled, Members, Named, Casts
<1> HIDE DEF it
<1>3. Uses(it) = 1 /\ Gives(it) = 1 /\ Weight(it) = 0 BY <1>1 DEF Uses, Gives, Weight
<1> QED BY <1>2, <1>3 DEF Due, it

LEMMA DueWithTwo ==
  ASSUME NEW ts, NEW d \in {"Colon", "Subscript"},
         NEW op, Kept(op, ts) \/ (op = NoToken /\ d \notin Named \union Casts)
  PROVE  Due(DoWith(d, op), ts, 2, 0)
<1> DEFINE it == DoWith(d, op)
<1>1. it.does = d BY DEF Item, Do, DoWith
<1>2. Neat(it, ts) BY NeatItem DEF Do, DoWith, Packed, Packing, Levelled, Members, Named, Casts
<1> HIDE DEF it
<1>3. Uses(it) = 2 /\ Gives(it) = 1 /\ Weight(it) = 0 BY <1>1 DEF Uses, Gives, Weight
<1> QED BY <1>2, <1>3 DEF Due, it

LEMMA DueCast ==
  ASSUME NEW ts, NEW d \in {"Cast operator"},
         NEW op, Kept(op, ts) \/ (op = NoToken /\ d \notin Named \union Casts)
  PROVE  Due(DoWith(d, op), ts, 2, 1)
<1> DEFINE it == DoWith(d, op)
<1>1. it.does = d BY DEF Item, Do, DoWith
<1>2. Neat(it, ts) BY NeatItem DEF Do, DoWith, Packed, Packing, Levelled, Members, Named, Casts
<1> HIDE DEF it
<1>3. Uses(it) = 2 /\ Gives(it) = 1 /\ Weight(it) = 1 BY <1>1 DEF Uses, Gives, Weight
<1> QED BY <1>2, <1>3 DEF Due, it

LEMMA DueTernary ==
  ASSUME NEW ts, NEW d \in {"Ternary"},
         NEW op, Kept(op, ts) \/ (op = NoToken /\ d \notin Named \union Casts)
  PROVE  Due(DoWith(d, op), ts, 3, 1)
<1> DEFINE it == DoWith(d, op)
<1>1. it.does = d BY DEF Item, Do, DoWith
<1>2. Neat(it, ts) BY NeatItem DEF Do, DoWith, Packed, Packing, Levelled, Members, Named, Casts
<1> HIDE DEF it
<1>3. Uses(it) = 3 /\ Gives(it) = 1 /\ Weight(it) = 1 BY <1>1 DEF Uses, Gives, Weight
<1> QED BY <1>2, <1>3 DEF Due, it

LEMMA DueName ==
  ASSUME NEW ts, NEW d \in {"Parameter list", "First parameter", "Parameters"},
         NEW op, Kept(op, ts) \/ (op = NoToken /\ d \notin Named \union Casts)
  PROVE  Due(DoWith(d, op), ts, 1, 2)
<1> DEFINE it == DoWith(d, op)
<1>1. it.does = d /\ it.n = 0 BY DEF Item, Do, DoWith
<1>2. Neat(it, ts) BY NeatItem DEF Do, DoWith, Packed, Packing, Levelled, Members, Named, Casts
<1> HIDE DEF it
<1>3. Uses(it) = 1 /\ Gives(it) = 1 /\ Weight(it) = 2
  <2>1. CASE d = "Parameters"
    <3>1. Uses(it) = it.n + 1 BY <1>1, <2>1 DEF Uses
    <3> QED BY <1>1, <2>1, <3>1 DEF Gives, Weight
  <2>2. CASE d \in {"Parameter list", "First parameter"}
    BY <1>1, <2>2 DEF Uses, Gives, Weight
  <2> QED BY <2>1, <2>2
<1> QED BY <1>2, <1>3 DEF Due, it

LEMMA DueCounted ==
  ASSUME NEW ts, NEW d \in {"Arguments", "Argument", "Statements", "Semicolon", "Fields"},
         NEW n \in Nat,
         NEW op, Kept(op, ts) \/ (op = NoToken /\ d \notin Named \union Casts)
  PROVE  Due(Item(d, n, 0, op), ts, n, 0)
<1> DEFINE it == Item(d, n, 0, op)
<1>1. it.does = d /\ it.n = n BY DEF Item, Do, DoWith
<1>2. Neat(it, ts) BY NeatItem DEF Do, DoWith, Packed, Packing, Levelled, Members, Named, Casts
<1> HIDE DEF it
<1>3. Uses(it) = n /\ Gives(it) = 1 /\ Weight(it) = 0 BY <1>1 DEF Uses, Gives, Weight
<1> QED BY <1>2, <1>3 DEF Due, it

LEMMA DueParameters ==
  ASSUME NEW ts, NEW d \in {"Parameters", "After parameters"}, NEW n \in Nat,
         NEW op, Kept(op, ts) \/ (op = NoToken /\ d \notin Named \union Casts)
  PROVE  Due(Item(d, n, 0, op), ts, n + 1, 2)
<1> DEFINE it == Item(d, n, 0, op)
<1>1. it.does = d /\ it.n = n BY DEF Item, Do, DoWith
<1>2. Neat(it, ts) BY NeatItem DEF Do, DoWith, Packed, Packing, Levelled, Members, Named, Casts
<1> HIDE DEF it
<1>3. Uses(it) = n + 1 /\ Gives(it) = 1 /\ Weight(it) = 2 BY <1>1 DEF Uses, Gives, Weight
<1> QED BY <1>2, <1>3 DEF Due, it

LEMMA DueFunction ==
  ASSUME NEW ts, NEW d \in {"Function body"}, NEW n \in Nat,
         NEW op, Kept(op, ts) \/ (op = NoToken /\ d \notin Named \union Casts)
  PROVE  Due(Item(d, n, 0, op), ts, n + 2, 2)
<1> DEFINE it == Item(d, n, 0, op)
<1>1. it.does = d /\ it.n = n BY DEF Item, Do, DoWith
<1>2. Neat(it, ts) BY NeatItem DEF Do, DoWith, Packed, Packing, Levelled, Members, Named, Casts
<1> HIDE DEF it
<1>3. Uses(it) = n + 2 /\ Gives(it) = 1 /\ Weight(it) = 2 BY <1>1 DEF Uses, Gives, Weight
<1> QED BY <1>2, <1>3 DEF Due, it

LEMMA DueMore == ASSUME NEW ts, NEW k \in Nat PROVE Due(More(k), ts, 1, 0)
<1>1. More(k) = Item("Suffix", k, 0, NoToken) BY DEF More
<1>2. /\ "Suffix" \notin Packed \union Packing \union {"Strings"} \union Levelled \union Members
      /\ "Suffix" \notin Named \union Casts
  BY DEF Packed, Packing, Levelled, Members, Named, Casts
<1>3. Neat(Item("Suffix", k, 0, NoToken), ts) BY <1>2, NeatItem
<1>4. More(k).does = "Suffix" BY <1>1, Does
<1>5. Uses(More(k)) = 1 /\ Gives(More(k)) = 1 /\ Weight(More(k)) = 0
  BY <1>4 DEF Uses, Gives, Weight
<1> QED BY <1>1, <1>3, <1>5 DEF Due

LEMMA DueRhs ==
  ASSUME NEW ts, NEW n \in (1 .. 13) \ {Conditional}, NEW op, Kept(op, ts)
  PROVE  Due(Item("Rhs", n, 0, op), ts, 2, 1)
<1> DEFINE it == Item("Rhs", n, 0, op)
<1>1. it.does = "Rhs" /\ it.n = n /\ it.op = op BY DEF Item
<1> HIDE DEF it
<1>2. Neat(it, ts)
  <2>1. n \in Nat OBVIOUS
  <2> QED BY <1>1, <2>1 DEF Neat, ItemOK, Packed, Packing, Members, Named, Casts
<1>3. Uses(it) = 2 /\ Gives(it) = 1 /\ Weight(it) = 1 BY <1>1 DEF Uses, Gives, Weight
<1> QED BY <1>2, <1>3 DEF Due, it

LEMMA DueMember ==
  ASSUME NEW ts, NEW d \in Members, NEW n \in Nat, NEW op, Kept(op, ts), op.is \in {".", "->"}
  PROVE  Due(Item(d, n, 0, op), ts, 1, 0)
<1> DEFINE it == Item(d, n, 0, op)
<1>1. it.does = d /\ it.n = n /\ it.op = op BY DEF Item
<1> HIDE DEF it
<1>2. Neat(it, ts) BY <1>1 DEF Neat, ItemOK, Packed, Packing, Members, Named, Casts
<1>3. Uses(it) = 1 /\ Gives(it) = 1 /\ Weight(it) = 0 BY <1>1 DEF Uses, Gives, Weight, Members
<1> QED BY <1>2, <1>3 DEF Due, it

-----------------------------------------------------------------------------
(* Tokens that say nothing of their own.                                   *)

Marks == {":", "-", "*", "&", "~", "!", "++", "--", "sizeof", "(", ")", "[", "]", ".", "->", ",",
          ";", "return", "break", "continue", "if", "do", "while", "for", "{", "}", "struct",
          "enum", "union", "auto"}

LEMMA MarksMute == \A t \in Marks : t \notin Speech
  BY ZenonT(40) DEF Marks, Speech, kIdentity, Literals, PrimitiveTypes, Str_Lit

LEMMA OperatorsMute == \A n \in 1 .. 13 : \A t \in Levels[n].operators : t \notin Speech
<1> DEFINE Quiet(S) == \A t \in S : t \notin Speech
<1>1. Quiet(ParseCommaExpr.operators)
  BY Zenon DEF Level, ParseCommaExpr, Speech, kIdentity, Literals, PrimitiveTypes, Str_Lit
<1>2. Quiet(ParseAssignExpr.operators)
  BY Zenon DEF Level, ParseAssignExpr, Speech, kIdentity, Literals, PrimitiveTypes, Str_Lit
<1>3. Quiet(ParseConditionalExpr.operators)
  BY Zenon DEF Level, ParseConditionalExpr, Speech, kIdentity, Literals, PrimitiveTypes, Str_Lit
<1>4. Quiet(ParseLogicalOrExpr.operators)
  BY Zenon DEF Level, ParseLogicalOrExpr, Speech, kIdentity, Literals, PrimitiveTypes, Str_Lit
<1>5. Quiet(ParseLogicalAndExpr.operators)
  BY Zenon DEF Level, ParseLogicalAndExpr, Speech, kIdentity, Literals, PrimitiveTypes, Str_Lit
<1>6. Quiet(ParseBitwiseOrExpr.operators)
  BY Zenon DEF Level, ParseBitwiseOrExpr, Speech, kIdentity, Literals, PrimitiveTypes, Str_Lit
<1>7. Quiet(ParseBitwiseXorExpr.operators)
  BY Zenon DEF Level, ParseBitwiseXorExpr, Speech, kIdentity, Literals, PrimitiveTypes, Str_Lit
<1>8. Quiet(ParseBitwiseAndExpr.operators)
  BY Zenon DEF Level, ParseBitwiseAndExpr, Speech, kIdentity, Literals, PrimitiveTypes, Str_Lit
<1>9. Quiet(ParseEqualityExpr.operators)
  BY Zenon DEF Level, ParseEqualityExpr, Speech, kIdentity, Literals, PrimitiveTypes, Str_Lit
<1>10. Quiet(ParseRelationalExpr.operators)
  BY Zenon DEF Level, ParseRelationalExpr, Speech, kIdentity, Literals, PrimitiveTypes, Str_Lit
<1>11. Quiet(ParseShiftExpr.operators)
  BY Zenon DEF Level, ParseShiftExpr, Speech, kIdentity, Literals, PrimitiveTypes, Str_Lit
<1>12. Quiet(ParseAdditiveExpr.operators)
  BY Zenon DEF Level, ParseAdditiveExpr, Speech, kIdentity, Literals, PrimitiveTypes, Str_Lit
<1>13. Quiet(ParseMultiplicativeExpr.operators)
  BY Zenon DEF Level, ParseMultiplicativeExpr, Speech, kIdentity, Literals, PrimitiveTypes, Str_Lit
<1> HIDE DEF Quiet
<1>14. ASSUME NEW n \in 1 .. 13 PROVE Quiet(Levels[n].operators)
  <2>1. Levels[1] = ParseCommaExpr BY DEF Levels
  <2>2. Levels[2] = ParseAssignExpr BY DEF Levels
  <2>3. Levels[3] = ParseConditionalExpr BY DEF Levels
  <2>4. Levels[4] = ParseLogicalOrExpr BY DEF Levels
  <2>5. Levels[5] = ParseLogicalAndExpr BY DEF Levels
  <2>6. Levels[6] = ParseBitwiseOrExpr BY DEF Levels
  <2>7. Levels[7] = ParseBitwiseXorExpr BY DEF Levels
  <2>8. Levels[8] = ParseBitwiseAndExpr BY DEF Levels
  <2>9. Levels[9] = ParseEqualityExpr BY DEF Levels
  <2>10. Levels[10] = ParseRelationalExpr BY DEF Levels
  <2>11. Levels[11] = ParseShiftExpr BY DEF Levels
  <2>12. Levels[12] = ParseAdditiveExpr BY DEF Levels
  <2>13. Levels[13] = ParseMultiplicativeExpr BY DEF Levels
  <2>14. n \in {1, 2, 3, 4, 5, 6, 7, 8, 9, 10, 11, 12, 13} OBVIOUS
  <2> QED BY <1>1, <1>2, <1>3, <1>4, <1>5, <1>6, <1>7, <1>8, <1>9, <1>10, <1>11, <1>12, <1>13,
             <2>1, <2>2, <2>3, <2>4, <2>5, <2>6, <2>7, <2>8, <2>9, <2>10, <2>11, <2>12, <2>13,
             <2>14
<1> QED BY <1>14 DEF Quiet

-----------------------------------------------------------------------------
(* Lists that do what one thing did: they use v nodes and leave one.       *)

Counts(it, u, w) == Uses(it) = u /\ Gives(it) = 1 /\ Weight(it) = w
Serves(items, ts, v, w) ==
  \A a \in Nat : \A b \in Nat : b >= 1 /\ a = b - 1 + v => Goes(items, ts, a, b, w)

LEMMA ServesNone == ASSUME NEW ts PROVE Serves(<<>>, ts, 1, 0)
<1>1. ASSUME NEW a \in Nat, NEW b \in Nat, b >= 1, a = b - 1 + 1 PROVE Goes(<<>>, ts, a, b, 0)
  <2>1. a = b BY <1>1
  <2> QED BY <2>1, GoesNone
<1> QED BY <1>1 DEF Serves

LEMMA ServesOne ==
  ASSUME NEW it, NEW ts, NEW u \in Nat, NEW w, Due(it, ts, u, w) PROVE Serves(<<it>>, ts, u, w)
<1>1. ASSUME NEW a \in Nat, NEW b \in Nat, b >= 1, a = b - 1 + u PROVE Goes(<<it>>, ts, a, b, w)
  BY <1>1, GoesOne
<1> QED BY <1>1 DEF Serves

\* A list, and then what takes its node with v - 1 others.
LEMMA ServesThen ==
  ASSUME NEW s, NEW to, NEW ts, NEW u \in Nat, NEW v \in Nat, v >= 1, NEW w, NEW x,
         Serves(s, ts, u, w), Due(to, ts, v, x), NEW z, z = v - 1 + u, NEW y, y = w + x
  PROVE  Serves(s \o <<to>>, ts, z, y)
<1>1. ASSUME NEW a \in Nat, NEW b \in Nat, b >= 1, a = b - 1 + z
      PROVE  Goes(s \o <<to>>, ts, a, b, y)
  <2> DEFINE m == b - 1 + v
  <2>1. m \in Nat /\ m >= 1 /\ m = b - 1 + v /\ a = m - 1 + u BY <1>1
  <2> HIDE DEF m
  <2>2. Goes(s, ts, a, m, w) BY <1>1, <2>1 DEF Serves
  <2>3. Goes(<<to>>, ts, m, b, x) BY <1>1, <2>1, GoesOne
  <2> QED BY <2>2, <2>3, GoesConcat
<1> QED BY <1>1 DEF Serves

LEMMA ServesConcat ==
  ASSUME NEW s, NEW t, NEW ts, NEW u \in Nat, NEW v \in Nat, v >= 1, NEW w, NEW x,
         Serves(s, ts, u, w), Serves(t, ts, v, x), NEW z, z = v - 1 + u, NEW y, y = w + x
  PROVE  Serves(s \o t, ts, z, y)
<1>1. ASSUME NEW a \in Nat, NEW b \in Nat, b >= 1, a = b - 1 + z
      PROVE  Goes(s \o t, ts, a, b, y)
  <2> DEFINE m == b - 1 + v
  <2>1. m \in Nat /\ m >= 1 /\ m = b - 1 + v /\ a = m - 1 + u BY <1>1
  <2> HIDE DEF m
  <2>2. Goes(s, ts, a, m, w) BY <1>1, <2>1 DEF Serves
  <2>3. Goes(t, ts, m, b, x) BY <1>1, <2>1 DEF Serves
  <2> QED BY <2>2, <2>3, GoesConcat
<1> QED BY <1>1 DEF Serves

LEMMA ServesTwo ==
  ASSUME NEW it, NEW to, NEW ts, NEW u \in Nat, NEW v \in Nat, v >= 1, NEW w, NEW x,
         Due(it, ts, u, w), Due(to, ts, v, x), NEW z, z = v - 1 + u, NEW y, y = w + x
  PROVE  Serves(<<it, to>>, ts, z, y)
<1>1. Serves(<<it>>, ts, u, w) BY ServesOne
<1>2. Serves(<<it>> \o <<to>>, ts, z, y) BY <1>1, ServesThen
<1> QED BY <1>2, TogetherTwo

LEMMA ServesExpr == ASSUME NEW n \in 1 .. 13, NEW ts PROVE Serves(Expr(n), ts, 0, 0)
<1>1. ASSUME NEW a \in Nat, NEW b \in Nat, b >= 1, a = b - 1 + 0 PROVE Goes(Expr(n), ts, a, b, 0)
  <2>1. b = a + 1 BY <1>1
  <2> QED BY <2>1, GoesExpr
<1> QED BY <1>1 DEF Serves

\* An expression for a thing to do that uses its node and v - 1 others.
LEMMA ServesExprThen ==
  ASSUME NEW n \in 1 .. 13, NEW to, NEW ts, NEW v \in Nat, v >= 1, NEW x, x \in Nat,
         Due(to, ts, v, x), NEW z, z = v - 1
  PROVE  Serves(Expr(n) \o <<to>>, ts, z, x)
<1> DEFINE e == Expr(n)
<1>1. Serves(e, ts, 0, 0) BY ServesExpr
<1> HIDE DEF e
<1>2. z = v - 1 + 0 /\ x = 0 + x /\ 0 \in Nat OBVIOUS
<1>3. Serves(e \o <<to>>, ts, z, x) BY <1>1, <1>2, ServesThen, Zenon
<1> QED BY <1>3 DEF e

LEMMA ServesOuter ==
  ASSUME Doing.n \in 1 .. 13, NEW n \in 1 .. 13, NEW ts, NEW s, NEW v \in Nat, NEW w \in Nat,
         Serves(s, ts, v, w)
  PROVE  Serves(s \o Outer(n), ts, v, w)
<1>1. ASSUME NEW a \in Nat, NEW b \in Nat, b >= 1, a = b - 1 + v
      PROVE  Goes(s \o Outer(n), ts, a, b, w)
  <2> DEFINE o == Outer(n)
  <2>1. Goes(o, ts, b, b, 0) BY <1>1, GoesOuter
  <2> HIDE DEF o
  <2>2. Goes(s, ts, a, b, w) BY <1>1 DEF Serves
  <2>3. w = w + 0 OBVIOUS
  <2>4. Goes(s \o o, ts, a, b, w) BY <2>1, <2>2, <2>3, GoesConcat
  <2> QED BY <2>4 DEF o
<1> QED BY <1>1 DEF Serves

-----------------------------------------------------------------------------
(* Steps that leave the nodes, or replace some of them by one.             *)

\* The nodes that are not for the thing to do.
LEMMA Others ==
  ASSUME WInv, Running, NEW v \in Nat, NEW y, Counts(Doing, v, y)
  PROVE  /\ Len(built) - v \in Nat /\ Len(built) - v + 1 \in Nat /\ Len(built) - v + 1 >= 1
         /\ Len(built) = Len(built) - v + 1 - 1 + v
         /\ Len(built) - v + 1 = Len(built) - Uses(Doing) + Gives(Doing)
         /\ Len(built) \in Nat /\ v <= Len(built)
<1>1. Len(built) \in Nat /\ Uses(Doing) \in 0 .. Len(built) BY DoingFacts
<1>2. Uses(Doing) = v /\ Gives(Doing) = 1 BY DEF Counts
<1> QED BY <1>1, <1>2

\* A step in general.
LEMMA Steps ==
  ASSUME WInv, Running, Doing.does \notin Packed \union {"Declarator"},
         NEW v \in Nat, NEW y \in Nat, Counts(Doing, v, y),
         NEW items, Then(items), NEW k \in Nat, Len(built') = Len(built) - v + k, IsList(built'),
         NEW w \in Nat, NEW x \in Nat, Serves(items, taken', k, w),
         Typed', Longs(taken, taken'), Grows(built, built', x, taken'),
         HandsOn(Doing, items, built'), taken' # taken => Accounts(taken', items, built'),
         x + w <= y + 2 * (Len(taken') - Len(taken)), outcome' = outcome
  PROVE  WInv'
<1> DEFINE b == Len(built) - v + 1
           a == Len(built')
<1>1. b \in Nat /\ b >= 1 /\ b = Len(built) - Uses(Doing) + Gives(Doing)
      /\ Len(built) - v \in Nat /\ Len(built) \in Nat
  BY Others
<1>2. a \in Nat /\ a = b - 1 + k BY <1>1
<1> HIDE DEF a, b
<1>3. Goes(items, taken', a, b, w) BY <1>1, <1>2 DEF Serves
<1>4. /\ Fits(items, taken', Len(built'), Len(built) - Uses(Doing) + Gives(Doing), w)
      /\ InPlace(items) /\ IsList(items)
  BY <1>1, <1>3 DEF Goes, Fits, a
<1>5. PacksReady' /\ StringsAtOnce' BY <1>4, PlacesKept DEF WInv
<1>6. x + w <= Weight(Doing) + 2 * (Len(taken') - Len(taken)) BY DEF Counts
<1> QED BY <1>4, <1>5, <1>6, Moves

\* Nothing is built.
LEMMA SilentStay ==
  ASSUME WInv, NEW d, At(d), d \notin Packed \union {"Declarator"},
         NEW v \in Nat, NEW y \in Nat, Counts(Doing, v, y),
         NEW items, Then(items), NEW w \in Nat, Serves(items, taken, v, w), w <= y,
         HandsOn(Doing, items, built), Silent, Staying
  PROVE  WInv'
<1>1. Running /\ Doing.does = d BY DEF At
<1>2. built' = built /\ outcome' = outcome BY DEF Silent
<1>3. Typed' /\ taken' = taken /\ Longs(taken, taken') BY StayFacts DEF WInv
<1>4. Len(built') = Len(built) - v + v /\ IsList(built') BY <1>1, <1>2, DoingFacts
<1>5. Grows(built, built', 0, taken') BY <1>2, GrowsSame
<1>6. 0 + w <= y + 2 * (Len(taken') - Len(taken))
  <2>1. Len(taken) \in Nat BY DEF WInv, Typed
  <2> QED BY <1>3, <2>1
<1> QED BY <1>1, <1>2, <1>3, <1>4, <1>5, <1>6, Steps

LEMMA SilentTake ==
  ASSUME WInv, NEW d, At(d), d \notin Packed \union {"Declarator"}, NEW t, Took(t),
         NEW v \in Nat, NEW y \in Nat, Counts(Doing, v, y),
         NEW items, Then(items), NEW w \in Nat, Serves(items, taken', v, w), w <= y + 2,
         HandsOn(Doing, items, built), Accounts(taken', items, built), Silent
  PROVE  WInv'
<1>1. Running /\ Doing.does = d BY DEF At
<1>2. built' = built /\ outcome' = outcome BY DEF Silent
<1>3. /\ Typed' /\ Longs(taken, taken') /\ Len(taken) \in Nat /\ Len(taken') \in Nat
      /\ Len(taken') >= Len(taken) + 1
  BY TookFacts DEF WInv
<1>4. Len(built') = Len(built) - v + v /\ IsList(built') BY <1>1, <1>2, DoingFacts
<1>5. Grows(built, built', 0, taken') BY <1>2, GrowsSame
<1>6. 0 + w <= y + 2 * (Len(taken') - Len(taken)) BY <1>3
<1>7. HandsOn(Doing, items, built') /\ Accounts(taken', items, built') BY <1>2
<1> QED BY <1>1, <1>2, <1>3, <1>4, <1>5, <1>6, <1>7, Steps

\* A node takes the place of u others.
LEMMA BuildStay ==
  ASSUME WInv, NEW d, At(d), d \notin Packed \union {"Declarator"},
         NEW v \in Nat, NEW y \in Nat, Counts(Doing, v, y),
         NEW u \in 0 .. v, NEW node, Replace(u, node),
         NEW items, Then(items), NEW w \in Nat, NEW x \in Nat,
         NEW k, k = v - u + 1, Serves(items, taken, k, w), x + w <= y,
         Grows(built, Replacing(built, u, node), x, taken),
         HandsOn(Doing, items, built'), outcome' = outcome, Staying
  PROVE  WInv'
<1>1. Running /\ Doing.does = d BY DEF At
<1>2. built' = Replacing(built, u, node) BY DEF Replace, Replacing
<1>3. Typed' /\ taken' = taken /\ Longs(taken, taken') BY StayFacts DEF WInv
<1>4. Len(built) \in Nat /\ u \in 0 .. Len(built) /\ v <= Len(built) BY <1>1, Others
<1>5. IsList(built') /\ Len(built') = Len(built) - u + 1
  BY <1>1, <1>2, <1>4, DoingFacts, ReplacingList
<1>6. k \in Nat /\ Len(built') = Len(built) - v + k BY <1>4, <1>5
<1>7. x + w <= y + 2 * (Len(taken') - Len(taken))
  <2>1. Len(taken) \in Nat BY DEF WInv, Typed
  <2> QED BY <1>3, <2>1
<1>8. Grows(built, built', x, taken') BY <1>2, <1>3
<1> QED BY <1>1, <1>3, <1>5, <1>6, <1>7, <1>8, Steps

LEMMA BuildTake ==
  ASSUME WInv, NEW d, At(d), d \notin Packed \union {"Declarator"}, NEW t, Took(t),
         NEW v \in Nat, NEW y \in Nat, Counts(Doing, v, y),
         NEW u \in 0 .. v, NEW node, Replace(u, node),
         NEW items, Then(items), NEW w \in Nat, NEW x \in Nat,
         NEW k, k = v - u + 1, Serves(items, taken', k, w), x + w <= y + 2,
         Grows(built, Replacing(built, u, node), x, taken'),
         HandsOn(Doing, items, built'), Accounts(taken', items, built'), outcome' = outcome
  PROVE  WInv'
<1>1. Running /\ Doing.does = d BY DEF At
<1>2. built' = Replacing(built, u, node) BY DEF Replace, Replacing
<1>3. /\ Typed' /\ Longs(taken, taken') /\ Len(taken) \in Nat /\ Len(taken') \in Nat
      /\ Len(taken') >= Len(taken) + 1
  BY TookFacts DEF WInv
<1>4. Len(built) \in Nat /\ u \in 0 .. Len(built) /\ v <= Len(built) BY <1>1, Others
<1>5. IsList(built') /\ Len(built') = Len(built) - u + 1
  BY <1>1, <1>2, <1>4, DoingFacts, ReplacingList
<1>6. k \in Nat /\ Len(built') = Len(built) - v + k BY <1>4, <1>5
<1>7. x + w <= y + 2 * (Len(taken') - Len(taken)) BY <1>3
<1>8. Grows(built, built', x, taken') BY <1>2
<1> QED BY <1>1, <1>3, <1>5, <1>6, <1>7, <1>8, Steps

\* A step that only ends the parse, and one that writes a token.
LEMMA Halts ==
  ASSUME WInv, UNCHANGED <<todo, built, tokenVars>>, outcome' \in Outcomes PROVE WInv'
  BY DEF WInv, Typed, tokenVars, PacksReady, StringsAtOnce

LEMMA HaltsEach == ASSUME WInv, Running, Fail \/ Fatal \/ NoParser PROVE WInv'
<1>1. UNCHANGED <<todo, built, tokenVars>> /\ outcome' \in Outcomes
  BY DEF Fail, Fatal, NoParser, Outcomes
<1> QED BY <1>1, Halts

-----------------------------------------------------------------------------
(* Tokens that are handed on.                                              *)

Holds(items, it) == \E i \in DOMAIN items : items[i] = it

LEMMA HoldsOne == ASSUME NEW it PROVE Holds(<<it>>, it)
<1>1. DOMAIN <<it>> = {1} /\ <<it>>[1] = it OBVIOUS
<1> QED BY <1>1 DEF Holds

LEMMA HoldsTwo == ASSUME NEW d, NEW it PROVE Holds(<<d, it>>, it) /\ Holds(<<it, d>>, it)
<1>1. DOMAIN <<d, it>> = {1, 2} /\ <<d, it>>[2] = it OBVIOUS
<1>2. DOMAIN <<it, d>> = {1, 2} /\ <<it, d>>[1] = it OBVIOUS
<1> QED BY <1>1, <1>2 DEF Holds

LEMMA HoldsThree == ASSUME NEW d, NEW e, NEW it PROVE Holds(<<d, e, it>>, it)
<1>1. DOMAIN <<d, e, it>> = {1, 2, 3} /\ <<d, e, it>>[3] = it OBVIOUS
<1> QED BY <1>1 DEF Holds

LEMMA HoldsLast == ASSUME NEW s, IsList(s), NEW it PROVE Holds(s \o <<it>>, it)
<1> DEFINE one == <<it>>
<1>1. IsList(one) /\ DOMAIN one = {1} /\ one[1] = it
  <2>1. DOMAIN one = {1} /\ one[1] = it OBVIOUS
  <2> QED BY <2>1, ShortLists
<1> HIDE DEF one
<1>2. 1 + Len(s) \in DOMAIN (s \o one) /\ (s \o one)[1 + Len(s)] = it BY <1>1, ConcatSecond
<1>3. Holds(s \o one, it) BY <1>2 DEF Holds
<1> QED BY <1>3 DEF one

LEMMA ExprList == ASSUME NEW n PROVE IsList(Expr(n)) BY ShortLists DEF Expr

LEMMA HandsNone ==
  ASSUME NEW d, Doing.does = d, d \notin Named \union Casts, NEW items, NEW c
  PROVE  HandsOn(Doing, items, c)
  BY DEF HandsOn

LEMMA HandsHeld ==
  ASSUME NEW d, Doing.does = d, d \in Named, NEW items, NEW c,
         NEW it, Holds(items, it), it.does \in Named, it.op = Doing.op
  PROVE  HandsOn(Doing, items, c)
<1>1. d \notin Casts BY DEF Named, Casts
<1>2. Pending(items, Doing.op.at) BY DEF Holds, Pending
<1> QED BY <1>1, <1>2 DEF HandsOn, Speaks

LEMMA HandsCast ==
  ASSUME NEW d, Doing.does = d, d \in Casts, NEW items, NEW c,
         NEW it, Holds(items, it), it.does \in Casts, it.op = Doing.op
  PROVE  HandsOn(Doing, items, c)
<1>1. d \notin Named BY DEF Named, Casts
<1>2. Casting(items, Doing.op.at) BY DEF Holds, Casting
<1> QED BY <1>1, <1>2 DEF HandsOn

LEMMA TopIs ==
  ASSUME IsList(built), NEW u \in 0 .. Len(built), NEW node, Replace(u, node)
  PROVE  built' # <<>> /\ built'[1] = node
<1>1. built' = Replacing(built, u, node) BY DEF Replace, Replacing
<1> QED BY <1>1, ReplacingList

LEMMA HandsTop ==
  ASSUME NEW d, Doing.does = d, d \in Named, IsList(built), NEW u \in 0 .. Len(built), NEW node,
         Replace(u, node), node.class \in Speaking, node.at = Doing.op.at, NEW items
  PROVE  HandsOn(Doing, items, built')
<1>1. d \notin Casts BY DEF Named, Casts
<1>2. Speaks(items, built', Doing.op.at) BY TopIs DEF Speaks
<1> QED BY <1>1, <1>2 DEF HandsOn

\* The token that is taken is no word, is kept, is the new node's, or belongs to a member.
LEMMA AccountsMute ==
  ASSUME NEW t, Took(t), t.is \notin Speech, NEW items, NEW c PROVE Accounts(taken', items, c)
<1>1. taken'[Len(taken')] \notin Speech BY DEF Took
<1>2. Len(taken') \notin WordsOf(taken') BY <1>1 DEF WordsOf
<1> QED BY <1>2 DEF Accounts

LEMMA AccountsHeld ==
  ASSUME NEW t, Took(t), NEW items, NEW c, NEW it, Holds(items, it), it.does \in Named, it.op = t
  PROVE  Accounts(taken', items, c)
<1>1. t.at = Len(taken') BY DEF Took
<1>2. Pending(items, Len(taken')) BY <1>1 DEF Holds, Pending
<1> QED BY <1>2 DEF Accounts, Speaks

LEMMA AccountsCast ==
  ASSUME NEW t, Took(t), NEW items, NEW c, NEW it, Holds(items, it), it.does \in Casts, it.op = t
  PROVE  Accounts(taken', items, c)
<1>1. t.at = Len(taken') /\ t.is = taken'[Len(taken')] BY DEF Took
<1>2. Casting(items, Len(taken')) BY <1>1 DEF Holds, Casting
<1>3. CASE t.is = "("
  <2>1. "(" \notin Speech BY MarksMute DEF Marks
  <2> QED BY <1>3, <2>1, AccountsMute
<1>4. CASE t.is # "(" BY <1>1, <1>2, <1>4 DEF Accounts
<1> QED BY <1>3, <1>4

LEMMA AccountsTop ==
  ASSUME NEW t, Took(t), IsList(built), NEW u \in 0 .. Len(built), NEW node,
         Replace(u, node), node.class \in Speaking, node.at = t.at, NEW items
  PROVE  Accounts(taken', items, built')
<1>1. t.at = Len(taken') BY DEF Took
<1>2. Speaks(items, built', Len(taken')) BY <1>1, TopIs DEF Speaks
<1> QED BY <1>2 DEF Accounts

LEMMA AccountsMember ==
  ASSUME NEW op, Kept(op, taken'), op.is \in {".", "->"}, NEW items, NEW c
  PROVE  Accounts(taken', items, c)
<1>1. op.is \in Range(taken') BY DEF Kept, Range
<1>2. ~MemberFree(taken') BY <1>1 DEF MemberFree
<1> QED BY <1>2 DEF Accounts

-----------------------------------------------------------------------------
(* Nodes.                                                                  *)

LEMMA NodeParts ==
  ASSUME NEW class, NEW says, NEW at, NEW children
  PROVE  LET node == Node(class, says, at, children) IN
         node.class = class /\ node.says = says /\ node.at = at /\ node.children = children
  BY DEF Node

LEMMA Children == ASSUME NEW a PROVE Range(<<>>) = {} /\ Range(<<a>>) = {a} BY DEF Range
LEMMA ChildrenTwo == ASSUME NEW a, NEW b PROVE Range(<<a, b>>) = {a, b} BY DEF Range
LEMMA ChildrenThree == ASSUME NEW a, NEW b, NEW c PROVE Range(<<a, b, c>>) = {a, b, c} BY DEF Range

LEMMA FirstNodes ==
  ASSUME NEW b
  PROVE  /\ {b[i] : i \in 1 .. 0} = {} /\ {b[i] : i \in 1 .. 1} = {b[1]}
         /\ {b[i] : i \in 1 .. 2} = {b[1], b[2]} /\ {b[i] : i \in 1 .. 3} = {b[1], b[2], b[3]}
<1>1. 1 .. 0 = {} /\ 1 .. 1 = {1} /\ 1 .. 2 = {1, 2} /\ 1 .. 3 = {1, 2, 3} OBVIOUS
<1> QED BY <1>1

\* The classes that have nothing to be right about.
LEMMA PlainNode ==
  ASSUME NEW node, node.class \notin Speaking, node.class # "ExplicitCastExpr", NEW ts
  PROVE  RightNode(node, ts)
  BY DEF RightNode

LEMMA WordNode ==
  ASSUME NEW node, node.class # "ExplicitCastExpr", NEW op, NEW ts, Kept(op, ts),
         node.at = op.at, node.says = op.is
  PROVE  RightNode(node, ts)
  BY DEF RightNode, Kept

LEMMA CastNode ==
  ASSUME NEW node, node.class = "ExplicitCastExpr", NEW op, NEW ts, Kept(op, ts), node.at = op.at
  PROVE  RightNode(node, ts)
<1>1. "ExplicitCastExpr" \notin Speaking BY DEF Speaking
<1> QED BY <1>1 DEF RightNode, Kept

LEMMA GrowsLeaf ==
  ASSUME NEW b, IsList(b), NEW node, NEW ts, RightNode(node, ts), node.children = <<>>
  PROVE  Grows(b, Replacing(b, 0, node), 0, ts)
<1>1. Range(node.children) = {} BY Children
<1>2. 0 \in 0 .. Len(b)
  <2>1. b \in Seq(Range(b)) BY DEF IsList
  <2> QED BY <2>1, LenProperties
<1>3. 1 .. 0 = {} /\ 0 \in Nat OBVIOUS
<1> QED BY <1>1, <1>2, <1>3, GrowsTree

LEMMA GrowsOver ==
  ASSUME NEW b, IsList(b), NEW u \in 0 .. Len(b), NEW node, NEW ts, RightNode(node, ts),
         Range(node.children) = {b[i] : i \in 1 .. u}
  PROVE  Grows(b, Replacing(b, u, node), 1, ts)
<1>1. 1 >= 1 /\ 1 \in Nat OBVIOUS
<1> QED BY <1>1, GrowsTree

\* The newest nodes, in the order in which they were built.
LEMMA NewestNodes ==
  ASSUME NEW b, IsList(b), NEW n \in 0 .. Len(b)
  PROVE  LET s == Reverse(SubSeq(b, 1, n)) IN
         /\ IsList(s) /\ Len(s) = n /\ n \in Nat /\ \A i \in 1 .. n : s[i] = b[n - i + 1]
         /\ Range(s) = {b[i] : i \in 1 .. n}
<1> DEFINE S == Range(b)
           v == SubSeq(b, 1, n)
           s == Reverse(v)
           m == Len(b)
<1>1. b \in Seq(S) BY DEF IsList
<1>2. m \in Nat /\ DOMAIN b = 1 .. m BY <1>1, LenProperties
<1> HIDE DEF m
<1>3. n \in Nat /\ n <= m BY <1>2 DEF m
<1>4. \A i \in 1 .. n : b[i] \in S
  <2>1. \A i \in 1 .. n : i \in 1 .. m BY <1>2, <1>3
  <2> QED BY <1>2, <2>1 DEF Range
<1> HIDE DEF S
<1>5. v \in Seq(S) /\ Len(v) = n /\ \A i \in 1 .. n : v[i] = b[i]
  <2>1. /\ v \in Seq(S)
        /\ Len(v) = IF 1 <= n THEN n - 1 + 1 ELSE 0
        /\ \A i \in 1 .. n - 1 + 1 : v[i] = b[1 + i - 1]
    BY <1>1, <1>3, <1>4, SubSeqProperties
  <2>2. n - 1 + 1 = n /\ (~(1 <= n) => n = 0) BY <1>3
  <2>3. \A i \in 1 .. n : 1 + i - 1 = i OBVIOUS
  <2> QED BY <2>1, <2>2, <2>3
<1> HIDE DEF v
<1>6. s = [i \in 1 .. n |-> v[n - i + 1]] BY <1>5 DEF Reverse
<1>7. \A i \in 1 .. n : s[i] = b[n - i + 1]
  <2>1. \A i \in 1 .. n : n - i + 1 \in 1 .. n BY <1>3
  <2> QED BY <1>5, <1>6, <2>1
<1>8. s \in Seq(S) /\ Len(s) = n
  <2>1. \A i \in 1 .. n : v[n - i + 1] \in S
    <3>1. \A i \in 1 .. n : n - i + 1 \in 1 .. n BY <1>3
    <3> QED BY <1>4, <1>5, <3>1
  <2> QED BY <1>3, <1>6, <2>1
<1>9. IsList(s) BY <1>8, ListIsSeq
<1>10. Range(s) = {b[i] : i \in 1 .. n}
  <2>1. DOMAIN s = 1 .. n BY <1>6
  <2>2. \A i \in 1 .. n : n - i + 1 \in 1 .. n /\ n - (n - i + 1) + 1 = i BY <1>3
  <2>3. \A i \in 1 .. n : s[n - i + 1] = b[i]
    <3>1. ASSUME NEW i \in 1 .. n PROVE s[n - i + 1] = b[i]
      <4>1. s[n - i + 1] = b[n - (n - i + 1) + 1] BY <1>7, <2>2
      <4> QED BY <2>2, <4>1
    <3> QED BY <3>1
  <2> HIDE DEF s
  <2> QED BY <1>7, <2>1, <2>2, <2>3 DEF Range
<1> QED BY <1>3, <1>7, <1>8, <1>9, <1>10 DEF s, v

-----------------------------------------------------------------------------
(* The usual steps.                                                        *)

\* What is known where a thing is done, and when its token is taken.
LEMMA AtFacts ==
  ASSUME WInv, NEW d, At(d)
  PROVE  /\ Running /\ Doing.does = d /\ ItemOK(Doing, taken) /\ Doing.n \in Nat
         /\ Typed /\ IsList(built) /\ Len(built) \in Nat /\ outcome = "parsing" /\ IsList(todo)
<1>1. Running /\ Doing.does = d BY DEF At
<1>2. ItemOK(Doing, taken) /\ Typed /\ IsList(built) /\ Len(built) \in Nat /\ outcome = "parsing"
      /\ IsList(todo)
  BY <1>1, DoingFacts
<1> QED BY <1>1, <1>2 DEF ItemOK

LEMMA HereTaken ==
  ASSUME WInv, NEW d, At(d), d \notin Builds \union Pops, Take(1) \/ TakeCache(1)
  PROVE  Took(Here) /\ Kept(Here, taken') /\ Here.is = Peek /\ ItemOK(Doing, taken')
<1>1. Typed /\ ItemOK(Doing, taken) BY AtFacts
<1>2. Took(Here) BY <1>1, ReadsOne, TakeOne
<1>3. Longs(taken, taken') /\ Kept(Here, taken') BY <1>1, <1>2, TookFacts
<1>4. ItemOK(Doing, taken') BY <1>1, <1>3, StillKept
<1> QED BY <1>2, <1>3, <1>4 DEF Here

LEMMA PoppedTaken ==
  ASSUME WInv, NEW d, At(d), d \in Pops, Pop
  PROVE  Took(Popped) /\ Kept(Popped, taken') /\ ItemOK(Doing, taken')
<1>1. Typed /\ ItemOK(Doing, taken) BY AtFacts
<1>2. Took(Popped) BY <1>1, ReadsPopped, PopTakes
<1>3. Longs(taken, taken') /\ Kept(Popped, taken') BY <1>1, <1>2, TookFacts
<1>4. ItemOK(Doing, taken') BY <1>1, <1>3, StillKept
<1> QED BY <1>2, <1>3, <1>4

\* What neither keeps a token for a node nor is about declared names.
Quiet == {"Lhs", "Rhs", "Unary operator", "Sizeof", "Sizeof type", "Pointers",
          "Close", "Suffix", "Strings", "Member", "Field", "Return", "End of body",
          "Do while", "Exit loop", "Declared", "Function", "Colon", "Subscript", "Ternary",
          "Statements", "Semicolon", "Unary", "Sizeof operand", "Cast", "Type name", "Type tag",
          "Statement", "Return value", "Jump", "For", "Condition", "Body", "Block",
          "Declaration", "Base type", "Tag", "Struct", "Struct name", "File"}

LEMMA QuietFacts ==
  ASSUME NEW d \in Quiet
  PROVE  d \notin Packed \union {"Declarator"} /\ d \notin Named \union Casts
  BY DEF Quiet, Packed, Named, Casts

\* Nothing is built, and no word is taken.
LEMMA QuietStay ==
  ASSUME WInv, NEW d \in Quiet, At(d), NEW v \in Nat, NEW y \in Nat, Counts(Doing, v, y),
         NEW items, Then(items), NEW w \in Nat, Serves(items, taken, v, w), w <= y,
         Silent, Staying
  PROVE  WInv'
<1>1. d \notin Packed \union {"Declarator"} /\ d \notin Named \union Casts BY QuietFacts
<1>2. Doing.does = d BY DEF At
<1>3. HandsOn(Doing, items, built) BY <1>1, <1>2, HandsNone
<1> QED BY <1>1, <1>3, SilentStay

LEMMA QuietTake ==
  ASSUME WInv, NEW d \in Quiet, At(d), NEW v \in Nat, NEW y \in Nat, Counts(Doing, v, y),
         NEW t, Took(t), t.is \notin Speech,
         NEW items, Then(items), NEW w \in Nat, Serves(items, taken', v, w), w <= y + 2,
         Silent
  PROVE  WInv'
<1>1. d \notin Packed \union {"Declarator"} /\ d \notin Named \union Casts BY QuietFacts
<1>2. Doing.does = d BY DEF At
<1>3. HandsOn(Doing, items, built) /\ Accounts(taken', items, built)
  BY <1>1, <1>2, HandsNone, AccountsMute
<1> QED BY <1>1, <1>3, SilentTake

\* The token that is kept is handed on.
LEMMA HeldStay ==
  ASSUME WInv, NEW d \in Named, At(d), NEW v \in Nat, NEW y \in Nat, Counts(Doing, v, y),
         NEW items, Then(items), NEW w \in Nat, Serves(items, taken, v, w), w <= y,
         NEW it, Holds(items, it), it.does \in Named, it.op = Doing.op, Silent, Staying
  PROVE  WInv'
<1>1. d \notin Packed \union {"Declarator"} BY DEF Packed, Named
<1>2. Doing.does = d BY DEF At
<1>3. HandsOn(Doing, items, built) BY <1>2, HandsHeld
<1> QED BY <1>1, <1>3, SilentStay

LEMMA HeldTake ==
  ASSUME WInv, NEW d \in Named, At(d), NEW v \in Nat, NEW y \in Nat, Counts(Doing, v, y),
         NEW t, Took(t), t.is \notin Speech,
         NEW items, Then(items), NEW w \in Nat, Serves(items, taken', v, w), w <= y + 2,
         NEW it, Holds(items, it), it.does \in Named, it.op = Doing.op, Silent
  PROVE  WInv'
<1>1. d \notin Packed \union {"Declarator"} BY DEF Packed, Named
<1>2. Doing.does = d BY DEF At
<1>3. HandsOn(Doing, items, built) /\ Accounts(taken', items, built)
  BY <1>2, HandsHeld, AccountsMute
<1> QED BY <1>1, <1>3, SilentTake

\* A node over all that the thing to do uses, from no token or a mute one.
LEMMA OverStay ==
  ASSUME WInv, NEW d \in Quiet, At(d), NEW v \in Nat, NEW y \in Nat, y >= 1, Counts(Doing, v, y),
         NEW node, Replace(v, node), RightNode(node, taken),
         Range(node.children) = {built[i] : i \in 1 .. v},
         Return, UNCHANGED outcome, Staying
  PROVE  WInv'
<1>1. d \notin Packed \union {"Declarator"} /\ d \notin Named \union Casts BY QuietFacts
<1>2. Doing.does = d /\ Then(<<>>) BY DEF At, Return
<1>3. HandsOn(Doing, <<>>, built') BY <1>1, <1>2, HandsNone
<1>4. v \in 0 .. v /\ v \in 0 .. Len(built) /\ IsList(built)
  <2>1. v <= Len(built) /\ Len(built) \in Nat BY Others, AtFacts
  <2> QED BY <2>1, AtFacts
<1>5. Grows(built, Replacing(built, v, node), 1, taken) BY <1>4, GrowsOver
<1>6. Serves(<<>>, taken, 1, 0) /\ 1 = v - v + 1 /\ 1 + 0 <= y /\ 0 \in Nat /\ 1 \in Nat
  BY ServesNone
<1> QED BY <1>1, <1>2, <1>3, <1>4, <1>5, <1>6, BuildStay

LEMMA OverTake ==
  ASSUME WInv, NEW d \in Quiet, At(d), NEW v \in Nat, NEW y \in Nat, Counts(Doing, v, y),
         NEW t, Took(t), t.is \notin Speech,
         NEW node, Replace(v, node), RightNode(node, taken'),
         Range(node.children) = {built[i] : i \in 1 .. v},
         NEW items, Then(items), NEW w \in Nat, w <= y + 1, Serves(items, taken', 1, w),
         UNCHANGED outcome
  PROVE  WInv'
<1>1. d \notin Packed \union {"Declarator"} /\ d \notin Named \union Casts BY QuietFacts
<1>2. Doing.does = d BY DEF At
<1>3. HandsOn(Doing, items, built') /\ Accounts(taken', items, built')
  BY <1>1, <1>2, HandsNone, AccountsMute
<1>4. v \in 0 .. v /\ v \in 0 .. Len(built) /\ IsList(built)
  <2>1. v <= Len(built) /\ Len(built) \in Nat BY Others, AtFacts
  <2> QED BY <2>1, AtFacts
<1>5. Grows(built, Replacing(built, v, node), 1, taken') BY <1>4, GrowsOver
<1>6. 1 = v - v + 1 /\ 1 + w <= y + 2 /\ 1 \in Nat OBVIOUS
<1> QED BY <1>1, <1>3, <1>4, <1>5, <1>6, BuildTake

\* A node for the token that was kept, over the nodes that were counted.
LEMMA NamedTake ==
  ASSUME WInv, NEW d \in Named, At(d), NEW v \in Nat, NEW y \in Nat, Counts(Doing, v, y),
         NEW t, Took(t), t.is \notin Speech, NEW u \in 0 .. v, NEW x \in Nat, x <= y + 2,
         NEW node, Replace(u, node), node.class \in Speaking, node.at = Doing.op.at,
         Grows(built, Replacing(built, u, node), x, taken'),
         NEW items, Then(items), NEW k, k = v - u + 1, Serves(items, taken', k, 0),
         UNCHANGED outcome
  PROVE  WInv'
<1>1. d \notin Packed \union {"Declarator"} BY DEF Packed, Named
<1>2. Doing.does = d BY DEF At
<1>3. u \in 0 .. Len(built) /\ IsList(built)
  <2>1. v <= Len(built) /\ Len(built) \in Nat BY Others, AtFacts
  <2> QED BY <2>1, AtFacts
<1>4. HandsOn(Doing, items, built') /\ Accounts(taken', items, built')
  BY <1>2, <1>3, HandsTop, AccountsMute
<1>5. x + 0 <= y + 2 /\ 0 \in Nat OBVIOUS
<1> QED BY <1>1, <1>4, <1>5, BuildTake

LEMMA NamedStay ==
  ASSUME WInv, NEW d \in Named, At(d), NEW v \in Nat, NEW y \in Nat, Counts(Doing, v, y),
         NEW u \in 0 .. v, NEW x \in Nat, x <= y,
         NEW node, Replace(u, node), node.class \in Speaking, node.at = Doing.op.at,
         Grows(built, Replacing(built, u, node), x, taken),
         NEW items, Then(items), NEW k, k = v - u + 1, Serves(items, taken, k, 0),
         UNCHANGED outcome, Staying
  PROVE  WInv'
<1>1. d \notin Packed \union {"Declarator"} BY DEF Packed, Named
<1>2. Doing.does = d BY DEF At
<1>3. u \in 0 .. Len(built) /\ IsList(built)
  <2>1. v <= Len(built) /\ Len(built) \in Nat BY Others, AtFacts
  <2> QED BY <2>1, AtFacts
<1>4. HandsOn(Doing, items, built') BY <1>2, <1>3, HandsTop
<1>5. x + 0 <= y /\ 0 \in Nat OBVIOUS
<1> QED BY <1>1, <1>4, <1>5, BuildStay

\* A node for the token that is taken.
LEMMA LeafTake ==
  ASSUME WInv, NEW d \in Quiet, At(d), NEW y \in Nat, Counts(Doing, 0, y),
         NEW t, Took(t), NEW node, Push(node), node.class \in Speaking,
         node.class # "ExplicitCastExpr", node.children = <<>>, node.at = t.at, node.says = t.is,
         NEW items, Then(items), NEW w \in Nat, w <= y + 2, Serves(items, taken', 1, w),
         UNCHANGED outcome
  PROVE  WInv'
<1>1. d \notin Packed \union {"Declarator"} /\ d \notin Named \union Casts BY QuietFacts
<1>2. Doing.does = d BY DEF At
<1>3. 0 \in 0 .. 0 /\ 0 \in 0 .. Len(built) /\ IsList(built) /\ 0 \in Nat
  <2>1. Len(built) \in Nat BY AtFacts
  <2> QED BY <2>1, AtFacts
<1>4. Replace(0, node) BY DEF Push
<1>5. HandsOn(Doing, items, built') /\ Accounts(taken', items, built')
  BY <1>1, <1>2, <1>3, <1>4, HandsNone, AccountsTop
<1>6. Kept(t, taken') BY AtFacts, TookFacts
<1>7. RightNode(node, taken') BY <1>6, WordNode
<1>8. Grows(built, Replacing(built, 0, node), 0, taken') BY <1>3, <1>7, GrowsLeaf
<1>9. 1 = 0 - 0 + 1 /\ 0 + w <= y + 2 OBVIOUS
<1> QED BY <1>1, <1>3, <1>4, <1>5, <1>8, <1>9, BuildTake

\* A node that says nothing of its own.
LEMMA LeafStay ==
  ASSUME WInv, NEW d \in Quiet, At(d), NEW y \in Nat, Counts(Doing, 0, y),
         NEW node, Push(node), node.class \notin Speaking, node.class # "ExplicitCastExpr",
         node.children = <<>>, Return, UNCHANGED outcome, Staying
  PROVE  WInv'
<1>1. d \notin Packed \union {"Declarator"} /\ d \notin Named \union Casts BY QuietFacts
<1>2. Doing.does = d /\ Then(<<>>) /\ Replace(0, node) BY DEF At, Return, Push
<1>3. 0 \in 0 .. 0 /\ IsList(built) /\ 0 \in Nat BY AtFacts
<1>4. HandsOn(Doing, <<>>, built') BY <1>1, <1>2, HandsNone
<1>5. RightNode(node, taken) BY PlainNode
<1>6. Grows(built, Replacing(built, 0, node), 0, taken) BY <1>3, <1>5, GrowsLeaf
<1>7. Serves(<<>>, taken, 1, 0) /\ 1 = 0 - 0 + 1 /\ 0 + 0 <= y BY ServesNone
<1> QED BY <1>1, <1>2, <1>3, <1>4, <1>6, <1>7, BuildStay

\* Two things, of which the first needs nothing.
LEMMA ServesPair ==
  ASSUME NEW it, NEW to, NEW ts, Due(it, ts, 0, 0), NEW v \in Nat, v >= 1, NEW x \in Nat,
         Due(to, ts, v, x), NEW z, z = v - 1
  PROVE  Serves(<<it, to>>, ts, z, x)
<1>1. z = v - 1 + 0 /\ x = 0 + x /\ 0 \in Nat OBVIOUS
<1> QED BY <1>1, ServesTwo

\* An expression, and then what uses its node.
LEMMA ServesExprList ==
  ASSUME NEW n \in 1 .. 13, NEW t, NEW ts, NEW v \in Nat, v >= 1, Serves(t, ts, v, 0),
         NEW z, z = v - 1
  PROVE  Serves(Expr(n) \o t, ts, z, 0)
<1> DEFINE e == Expr(n)
<1>1. Serves(e, ts, 0, 0) BY ServesExpr
<1> HIDE DEF e
<1>2. z = v - 1 + 0 /\ 0 = 0 + 0 /\ 0 \in Nat OBVIOUS
<1>3. Serves(e \o t, ts, z, 0) BY <1>1, <1>2, ServesConcat, Zenon
<1> QED BY <1>3 DEF e

\* What is to be done stays.
LEMMA SameAgain ==
  ASSUME IsList(todo), todo # <<>>, UNCHANGED todo PROVE Then(<<Doing>>)
<1> DEFINE S == Range(todo)
           one == <<Doing>>
           new == one \o Tail(todo)
<1>1. todo \in Seq(S) BY DEF IsList
<1>2. Doing \in S /\ Tail(todo) \in Seq(S) BY <1>1 DEF Doing
<1>3. one \in Seq(S) /\ Len(one) = 1 /\ one[1] = Doing BY <1>2
<1>4. Len(Tail(todo)) = Len(todo) - 1 /\ Len(todo) \in Nat
      /\ \A i \in 1 .. Len(todo) - 1 : Tail(todo)[i] = todo[i + 1]
  BY <1>1, HeadTailProperties, LenProperties
<1>5. Doing = todo[1] BY FirstThing DEF Doing
<1> HIDE DEF S, one
<1>6. /\ new \in Seq(S) /\ Len(new) = Len(one) + Len(Tail(todo))
      /\ \A i \in 1 .. Len(one) + Len(Tail(todo)) :
           new[i] = IF i <= Len(one) THEN one[i] ELSE Tail(todo)[i - Len(one)]
  BY <1>2, <1>3, ConcatProperties
<1> HIDE DEF new
<1>7. Len(new) = Len(todo) BY <1>3, <1>4, <1>6
<1>8. ASSUME NEW i \in 1 .. Len(todo) PROVE new[i] = todo[i]
  <2>1. i \in 1 .. Len(one) + Len(Tail(todo)) BY <1>3, <1>4
  <2>2. CASE i = 1 BY <1>3, <1>5, <1>6, <2>1, <2>2
  <2>3. CASE i # 1
    <3>1. ~(i <= Len(one)) /\ i - Len(one) = i - 1 /\ i - 1 \in 1 .. Len(todo) - 1 /\ i - 1 + 1 = i
      BY <1>3, <1>4, <2>3
    <3> QED BY <1>4, <1>6, <2>1, <3>1
  <2> QED BY <2>2, <2>3
<1>9. new = todo BY <1>1, <1>6, <1>7, <1>8, SeqEqual
<1> QED BY <1>9 DEF Then, new, one

-----------------------------------------------------------------------------
(* The steps of expressions.                                               *)

\* Marks say nothing.
LEMMA Mute == ASSUME NEW t, t \in Marks PROVE t \notin Speech BY MarksMute

LEMMA NoOperatorWords == ASSUME WInv, NoOperator PROVE WInv'
<1>1. At("Lhs") /\ Return /\ Silent /\ Staying BY DEF NoOperator, Staying
<1>2. Doing.does = "Lhs" /\ "Lhs" \in Quiet BY <1>1 DEF At, Quiet
<1>3. Counts(Doing, 1, 0) BY <1>2 DEF Counts, Uses, Gives, Weight
<1>4. Serves(<<>>, taken, 1, 0) /\ Then(<<>>) BY <1>1, ServesNone DEF Return
<1>5. 0 <= 0 /\ 0 \in Nat /\ 1 \in Nat OBVIOUS
<1> QED BY <1>1, <1>2, <1>3, <1>4, <1>5, QuietStay

LEMMA OperatorWords == ASSUME WInv, Operator PROVE WInv'
<1>1. At("Lhs") BY DEF Operator
<1>2. PICK n \in Found :
        /\ Take(1) /\ Silent
        /\ Then((IF n = Conditional THEN Expr(Conditional) \o <<DoWith("Colon", Here)>>
                 ELSE Expr(n) \o <<Item("Rhs", n, 0, Here)>>) \o Outer(n))
  BY DEF Operator
<1>3. Doing.does = "Lhs" /\ "Lhs" \in Quiet /\ "Lhs" \notin Builds \union Pops
  BY <1>1 DEF At, Quiet, Builds, Pops
<1>4. Counts(Doing, 1, 0) BY <1>3 DEF Counts, Uses, Gives, Weight
<1>5. Took(Here) /\ Kept(Here, taken') /\ Here.is = Peek BY <1>1, <1>2, <1>3, HereTaken
<1>6. Doing.n \in 1 .. 13 /\ Doing.m \in 0 .. 13 BY <1>1, <1>3, AtFacts DEF ItemOK
<1>7. n \in 1 .. 13 /\ Peek \in Levels[n].operators
  <2>1. n \in Doing.n .. Doing.m /\ Peek \in Levels[n].operators BY DEF Found
  <2> QED BY <1>6, <2>1
<1>8. Here.is \notin Speech BY <1>5, <1>7, OperatorsMute
<1> DEFINE first == IF n = Conditional THEN Expr(Conditional) \o <<DoWith("Colon", Here)>>
                    ELSE Expr(n) \o <<Item("Rhs", n, 0, Here)>>
<1>9. Serves(first, taken', 1, 1) \/ Serves(first, taken', 1, 0)
  <2>1. 1 = 2 - 1 /\ 2 >= 1 /\ 2 \in Nat /\ 0 \in Nat /\ 1 \in Nat OBVIOUS
  <2>2. CASE n = Conditional
    <3>1. Due(DoWith("Colon", Here), taken', 2, 0) BY <1>5, DueWithTwo
    <3>2. Conditional \in 1 .. 13 BY DEF Conditional
    <3>3. Serves(Expr(Conditional) \o <<DoWith("Colon", Here)>>, taken', 1, 0)
      BY <2>1, <3>1, <3>2, ServesExprThen
    <3> QED BY <2>2, <3>3
  <2>3. CASE n # Conditional
    <3>1. Due(Item("Rhs", n, 0, Here), taken', 2, 1) BY <1>5, <1>7, <2>3, DueRhs
    <3>2. Serves(Expr(n) \o <<Item("Rhs", n, 0, Here)>>, taken', 1, 1)
      BY <1>7, <2>1, <3>1, ServesExprThen
    <3> QED BY <2>3, <3>2
  <2> QED BY <2>2, <2>3
<1> HIDE DEF first
<1> DEFINE items == first \o Outer(n)
<1>10. Then(items) /\ Silent BY <1>2 DEF first
<1>11. Serves(items, taken', 1, 1) \/ Serves(items, taken', 1, 0)
  BY <1>6, <1>7, <1>9, ServesOuter
<1> HIDE DEF items
<1>12. 0 \in Nat /\ 1 \in Nat /\ 0 <= 0 + 2 /\ 1 <= 0 + 2 OBVIOUS
<1> QED BY <1>1, <1>3, <1>4, <1>5, <1>8, <1>10, <1>11, <1>12, QuietTake

\* Whatever a level builds, it has the two operands.
BinaryClasses == {"CommaExpr", "AssignExpr", "LogicalExpr", "BitwiseExpr", "RelationalExpr",
                  "ArithmeticExpr"}

LEMMA LevelClasses == \A n \in (1 .. 13) \ {Conditional} : Levels[n].class \in BinaryClasses
<1>0. SUFFICES ASSUME NEW n \in (1 .. 13) \ {3} PROVE Levels[n].class \in BinaryClasses
  BY DEF Conditional
<1>1. Levels[1] = ParseCommaExpr BY DEF Levels
<1>21. ParseCommaExpr.class = "CommaExpr" BY Zenon DEF ParseCommaExpr, Level
<1>2. Levels[2] = ParseAssignExpr BY DEF Levels
<1>22. ParseAssignExpr.class = "AssignExpr" BY Zenon DEF ParseAssignExpr, Level
<1>4. Levels[4] = ParseLogicalOrExpr BY DEF Levels
<1>24. ParseLogicalOrExpr.class = "LogicalExpr" BY Zenon DEF ParseLogicalOrExpr, Level
<1>5. Levels[5] = ParseLogicalAndExpr BY DEF Levels
<1>25. ParseLogicalAndExpr.class = "LogicalExpr" BY Zenon DEF ParseLogicalAndExpr, Level
<1>6. Levels[6] = ParseBitwiseOrExpr BY DEF Levels
<1>26. ParseBitwiseOrExpr.class = "BitwiseExpr" BY Zenon DEF ParseBitwiseOrExpr, Level
<1>7. Levels[7] = ParseBitwiseXorExpr BY DEF Levels
<1>27. ParseBitwiseXorExpr.class = "BitwiseExpr" BY Zenon DEF ParseBitwiseXorExpr, Level
<1>8. Levels[8] = ParseBitwiseAndExpr BY DEF Levels
<1>28. ParseBitwiseAndExpr.class = "BitwiseExpr" BY Zenon DEF ParseBitwiseAndExpr, Level
<1>9. Levels[9] = ParseEqualityExpr BY DEF Levels
<1>29. ParseEqualityExpr.class = "RelationalExpr" BY Zenon DEF ParseEqualityExpr, Level
<1>10. Levels[10] = ParseRelationalExpr BY DEF Levels
<1>30. ParseRelationalExpr.class = "RelationalExpr" BY Zenon DEF ParseRelationalExpr, Level
<1>11. Levels[11] = ParseShiftExpr BY DEF Levels
<1>31. ParseShiftExpr.class = "BitwiseExpr" BY Zenon DEF ParseShiftExpr, Level
<1>12. Levels[12] = ParseAdditiveExpr BY DEF Levels
<1>32. ParseAdditiveExpr.class = "ArithmeticExpr" BY Zenon DEF ParseAdditiveExpr, Level
<1>13. Levels[13] = ParseMultiplicativeExpr BY DEF Levels
<1>33. ParseMultiplicativeExpr.class = "ArithmeticExpr" BY Zenon DEF ParseMultiplicativeExpr, Level
<1>40. n \in {1, 2, 4, 5, 6, 7, 8, 9, 10, 11, 12, 13} OBVIOUS
<1> QED BY <1>1, <1>21, <1>2, <1>22, <1>4, <1>24, <1>5, <1>25, <1>6, <1>26,
           <1>7, <1>27, <1>8, <1>28, <1>9, <1>29, <1>10, <1>30, <1>11, <1>31,
           <1>12, <1>32, <1>13, <1>33, <1>40 DEF BinaryClasses

LEMMA BinaryShape ==
  ASSUME NEW class \in BinaryClasses, NEW op, NEW lhs, NEW rhs,
         NEW node, node = Binary(class, op, lhs, rhs)
  PROVE  node.class = class /\ Range(node.children) = {lhs, rhs}
<1>1. ASSUME NEW c, NEW says, NEW l, NEW r
      PROVE  /\ OperatorBase(c, says, op.at, l, r).class = c
             /\ Range(OperatorBase(c, says, op.at, l, r).children) = {l, r}
  <2>1. OperatorBase(c, says, op.at, l, r) = Node(c, says, op.at, <<l, r>>) BY DEF OperatorBase
  <2>2. Node(c, says, op.at, <<l, r>>).class = c
        /\ Node(c, says, op.at, <<l, r>>).children = <<l, r>>
    BY NodeParts
  <2>3. Range(<<l, r>>) = {l, r} BY ChildrenTwo
  <2> QED BY <2>1, <2>2, <2>3
<1> DEFINE Shape(c) == \E says, l, r : /\ node = OperatorBase(c, says, op.at, l, r)
                                       /\ {l, r} = {lhs, rhs}
<1>2. CASE class = "CommaExpr"
  <2>1. node = CommaExpr(op, lhs, rhs) BY <1>2 DEF Binary
  <2>2. Shape("CommaExpr") BY <2>1 DEF CommaExpr
  <2> QED BY <1>1, <1>2, <2>2
<1>3. CASE class = "AssignExpr"
  <2>1. node = AssignExpr(op, lhs, rhs) BY <1>3 DEF Binary
  <2>2. Shape("AssignExpr") BY <2>1, Zenon DEF AssignExpr
  <2> QED BY <1>1, <1>3, <2>2
<1>4. CASE class = "LogicalExpr"
  <2>1. node = LogicalExpr(op, lhs, rhs) BY <1>4 DEF Binary
  <2>2. Shape("LogicalExpr") BY <2>1, Zenon DEF LogicalExpr
  <2> QED BY <1>1, <1>4, <2>2
<1>5. CASE class = "BitwiseExpr"
  <2>1. node = BitwiseExpr(op, lhs, rhs) BY <1>5 DEF Binary
  <2>2. {rhs, lhs} = {lhs, rhs} OBVIOUS
  <2>3. Shape("BitwiseExpr") BY <2>1, <2>2, Zenon DEF BitwiseExpr
  <2> QED BY <1>1, <1>5, <2>3
<1>6. CASE class = "RelationalExpr"
  <2>1. node = RelationalExpr(op, lhs, rhs) BY <1>6 DEF Binary
  <2>2. Shape("RelationalExpr") BY <2>1, Zenon DEF RelationalExpr
  <2> QED BY <1>1, <1>6, <2>2
<1>7. CASE class = "ArithmeticExpr"
  <2>1. node = ArithmeticExpr(op, lhs, rhs) BY <1>7 DEF Binary
  <2>2. Shape("ArithmeticExpr") BY <2>1, Zenon DEF ArithmeticExpr
  <2> QED BY <1>1, <1>7, <2>2
<1> QED BY <1>2, <1>3, <1>4, <1>5, <1>6, <1>7 DEF BinaryClasses

LEMMA BuildBinaryWords == ASSUME WInv, BuildBinary PROVE WInv'
<1> DEFINE node == Binary(Levels[Doing.n].class, Doing.op, built[2], built[1])
<1>1. At("Rhs") /\ Replace(2, node) /\ Return /\ UNCHANGED outcome /\ Staying
  BY DEF BuildBinary, Staying
<1>2. Doing.does = "Rhs" /\ "Rhs" \in Quiet BY <1>1 DEF At, Quiet
<1>3. Counts(Doing, 2, 1) BY <1>2 DEF Counts, Uses, Gives, Weight
<1>4. Doing.n \in (1 .. 13) \ {Conditional} BY <1>1, <1>2, AtFacts DEF ItemOK
<1>5. Levels[Doing.n].class \in BinaryClasses BY <1>4, LevelClasses
<1>6. node.class \in BinaryClasses /\ Range(node.children) = {built[2], built[1]}
  <2> DEFINE class == Levels[Doing.n].class
  <2>1. node = Binary(class, Doing.op, built[2], built[1]) OBVIOUS
  <2> HIDE DEF node, class
  <2>2. class \in BinaryClasses BY <1>5 DEF class
  <2> QED BY <2>1, <2>2, BinaryShape
<1> HIDE DEF node
<1>7. node.class \notin Speaking /\ node.class # "ExplicitCastExpr"
  BY <1>6 DEF Speaking, BinaryClasses
<1>8. RightNode(node, taken) BY <1>7, PlainNode
<1>9. Range(node.children) = {built[i] : i \in 1 .. 2} BY <1>6, FirstNodes
<1>10. 2 \in Nat /\ 1 \in Nat /\ 1 >= 1 OBVIOUS
<1> QED BY <1>1, <1>2, <1>3, <1>8, <1>9, <1>10, OverStay

LEMMA ColonWords == ASSUME WInv, Colon PROVE WInv'
<1>1. At("Colon") BY DEF Colon
<1>2. Doing.does = "Colon" /\ Running BY <1>1 DEF At
<1>3. Counts(Doing, 2, 0) BY <1>2 DEF Counts, Uses, Gives, Weight
<1>4. "Colon" \in Quiet /\ "Colon" \notin Builds \union Pops BY DEF Quiet, Builds, Pops
<1>5. CASE Peek = ":"
  <2>1. Take(1) /\ Silent
        /\ Then(Expr(Conditional) \o <<DoWith("Ternary", Doing.op)>>)
    BY <1>2, <1>5 DEF Colon, Expect
  <2>2. /\ Took(Here) /\ Kept(Here, taken') /\ Here.is = Peek
        /\ ItemOK(Doing, taken') /\ (Doing.op = NoToken \/ Kept(Doing.op, taken'))
    BY <1>1, <1>4, <2>1, HereTaken DEF ItemOK
  <2>3. Here.is \notin Speech BY <1>5, <2>2, Mute DEF Marks
  <2>4. Serves(Expr(Conditional) \o <<DoWith("Ternary", Doing.op)>>, taken', 2, 1)
    <3>0. 0 \in Nat /\ 1 \in Nat /\ 2 \in Nat /\ 3 \in Nat /\ 1 >= 1 /\ 2 >= 1 /\ 3 >= 1 OBVIOUS
    <3>1. Due(DoWith("Ternary", Doing.op), taken', 3, 1)
      BY <2>2, DueTernary DEF Named, Casts
    <3>2. Conditional \in 1 .. 13 /\ 2 = 3 - 1 BY DEF Conditional
    <3> QED BY <3>0, <3>1, <3>2, ServesExprThen
  <2>5. 0 \in Nat /\ 1 \in Nat /\ 2 \in Nat /\ 3 \in Nat /\ 1 <= 0 + 2 OBVIOUS
  <2> QED BY <1>1, <1>3, <1>4, <2>1, <2>2, <2>3, <2>4, <2>5, QuietTake
<1>6. CASE Peek # ":"
  <2>1. Fail BY <1>2, <1>6 DEF Colon, Expect
  <2> QED BY <1>2, <2>1, HaltsEach
<1> QED BY <1>5, <1>6

LEMMA BuildTernaryWords == ASSUME WInv, BuildTernary PROVE WInv'
<1> DEFINE node == TernaryExpr(Doing.op, built[3], built[2], built[1])
<1>1. At("Ternary") BY DEF BuildTernary
<1>2. Doing.does = "Ternary" /\ Running BY <1>1 DEF At
<1>3. Counts(Doing, 3, 1) BY <1>2 DEF Counts, Uses, Gives, Weight
<1>4. "Ternary" \in Quiet BY DEF Quiet
<1>5. Replace(3, node) /\ Return /\ UNCHANGED outcome /\ Staying
  BY DEF BuildTernary, Staying
<1>6. node.class = "TernaryExpr" /\ node.children = <<built[3], built[2], built[1]>>
  BY DEF TernaryExpr, Node
<1> HIDE DEF node
<1>7. RightNode(node, taken) BY <1>6, PlainNode DEF Speaking
<1>8. Range(node.children) = {built[i] : i \in 1 .. 3} BY <1>6, FirstNodes, ChildrenThree
<1>9. 0 \in Nat /\ 1 \in Nat /\ 2 \in Nat /\ 3 \in Nat /\ 1 >= 1 OBVIOUS
<1> QED BY <1>1, <1>3, <1>4, <1>5, <1>7, <1>8, <1>9, OverStay

LEMMA PrefixOperatorWords == ASSUME WInv, PrefixOperator PROVE WInv'
<1>1. At("Unary") BY DEF PrefixOperator
<1>2. Doing.does = "Unary" /\ Running BY <1>1 DEF At
<1>3. Counts(Doing, 0, 0) BY <1>2 DEF Counts, Uses, Gives, Weight
<1>4. "Unary" \in Quiet /\ "Unary" \notin Builds \union Pops BY DEF Quiet, Builds, Pops
<1>5. CASE Peek \in PrefixOperators
  <2>1. Take(1) /\ Silent
        /\ Then(<<Do("Cast"), DoWith("Unary operator", Here)>>)
    BY <1>2, <1>5 DEF PrefixOperator
  <2>2. /\ Took(Here) /\ Kept(Here, taken') /\ Here.is = Peek
        /\ ItemOK(Doing, taken') /\ (Doing.op = NoToken \/ Kept(Doing.op, taken'))
    BY <1>1, <1>4, <2>1, HereTaken DEF ItemOK
  <2>3. Here.is \notin Speech BY <1>5, <2>2, Mute DEF Marks, PrefixOperators
  <2>4. Serves(<<Do("Cast"), DoWith("Unary operator", Here)>>, taken', 0, 1)
    <3>0. 0 \in Nat /\ 1 \in Nat /\ 2 \in Nat /\ 3 \in Nat /\ 1 >= 1 /\ 2 >= 1 /\ 3 >= 1 OBVIOUS
    <3>1. Due(Do("Cast"), taken', 0, 0) BY DueDo
    <3>2. Due(DoWith("Unary operator", Here), taken', 1, 1)
      BY <2>2, DueWithOne DEF Named, Casts
    <3>3. 0 = 1 - 1 OBVIOUS
    <3> QED BY <3>0, <3>1, <3>2, <3>3, ServesPair
  <2>5. 0 \in Nat /\ 1 \in Nat /\ 2 \in Nat /\ 3 \in Nat /\ 1 <= 0 + 2 OBVIOUS
  <2> QED BY <1>1, <1>3, <1>4, <2>1, <2>2, <2>3, <2>4, <2>5, QuietTake
<1> QED BY <1>5 DEF PrefixOperator

LEMMA PrefixIncrementWords == ASSUME WInv, PrefixIncrement PROVE WInv'
<1>1. At("Unary") BY DEF PrefixIncrement
<1>2. Doing.does = "Unary" /\ Running BY <1>1 DEF At
<1>3. Counts(Doing, 0, 0) BY <1>2 DEF Counts, Uses, Gives, Weight
<1>4. "Unary" \in Quiet /\ "Unary" \notin Builds \union Pops BY DEF Quiet, Builds, Pops
<1>5. CASE Peek \in Increments
  <2>1. Take(1) /\ Silent
        /\ Then(<<Do("Unary"), DoWith("Unary operator", Here)>>)
    BY <1>2, <1>5 DEF PrefixIncrement
  <2>2. /\ Took(Here) /\ Kept(Here, taken') /\ Here.is = Peek
        /\ ItemOK(Doing, taken') /\ (Doing.op = NoToken \/ Kept(Doing.op, taken'))
    BY <1>1, <1>4, <2>1, HereTaken DEF ItemOK
  <2>3. Here.is \notin Speech BY <1>5, <2>2, Mute DEF Marks, Increments
  <2>4. Serves(<<Do("Unary"), DoWith("Unary operator", Here)>>, taken', 0, 1)
    <3>0. 0 \in Nat /\ 1 \in Nat /\ 2 \in Nat /\ 3 \in Nat /\ 1 >= 1 /\ 2 >= 1 /\ 3 >= 1 OBVIOUS
    <3>1. Due(Do("Unary"), taken', 0, 0) BY DueDo
    <3>2. Due(DoWith("Unary operator", Here), taken', 1, 1)
      BY <2>2, DueWithOne DEF Named, Casts
    <3>3. 0 = 1 - 1 OBVIOUS
    <3> QED BY <3>0, <3>1, <3>2, <3>3, ServesPair
  <2>5. 0 \in Nat /\ 1 \in Nat /\ 2 \in Nat /\ 3 \in Nat /\ 1 <= 0 + 2 OBVIOUS
  <2> QED BY <1>1, <1>3, <1>4, <2>1, <2>2, <2>3, <2>4, <2>5, QuietTake
<1> QED BY <1>5 DEF PrefixIncrement

LEMMA BuildUnaryWords == ASSUME WInv, BuildUnary PROVE WInv'
<1> DEFINE node == UnaryOperator(Doing.op, built[1])
<1>1. At("Unary operator") BY DEF BuildUnary
<1>2. Doing.does = "Unary operator" /\ Running BY <1>1 DEF At
<1>3. Counts(Doing, 1, 1) BY <1>2 DEF Counts, Uses, Gives, Weight
<1>4. "Unary operator" \in Quiet BY DEF Quiet
<1>5. Replace(1, node) /\ Return /\ UNCHANGED outcome /\ Staying BY DEF BuildUnary, Staying
<1>6. node.class = "UnaryOperator" /\ node.children = <<built[1]>>
  BY DEF UnaryOperator, Node
<1> HIDE DEF node
<1>7. RightNode(node, taken) BY <1>6, PlainNode DEF Speaking
<1>8. Range(node.children) = {built[i] : i \in 1 .. 1} BY <1>6, FirstNodes, Children
<1>9. 0 \in Nat /\ 1 \in Nat /\ 2 \in Nat /\ 3 \in Nat /\ 1 >= 1 OBVIOUS
<1> QED BY <1>1, <1>3, <1>4, <1>5, <1>7, <1>8, <1>9, OverStay

LEMMA SizeofWords == ASSUME WInv, Sizeof PROVE WInv'
<1>1. At("Unary") BY DEF Sizeof
<1>2. Doing.does = "Unary" /\ Running BY <1>1 DEF At
<1>3. Counts(Doing, 0, 0) BY <1>2 DEF Counts, Uses, Gives, Weight
<1>4. "Unary" \in Quiet /\ "Unary" \notin Builds \union Pops BY DEF Quiet, Builds, Pops
<1>5. CASE Peek = "sizeof"
  <2>1. Take(1) /\ Silent
        /\ Then(<<DoWith("Sizeof operand", Here)>>)
    BY <1>2, <1>5 DEF Sizeof
  <2>2. /\ Took(Here) /\ Kept(Here, taken') /\ Here.is = Peek
        /\ ItemOK(Doing, taken') /\ (Doing.op = NoToken \/ Kept(Doing.op, taken'))
    BY <1>1, <1>4, <2>1, HereTaken DEF ItemOK
  <2>3. Here.is \notin Speech BY <1>5, <2>2, Mute DEF Marks
  <2>4. Serves(<<DoWith("Sizeof operand", Here)>>, taken', 0, 1)
    <3>0. 0 \in Nat /\ 1 \in Nat /\ 2 \in Nat /\ 3 \in Nat /\ 1 >= 1 /\ 2 >= 1 /\ 3 >= 1 OBVIOUS
    <3>1. Due(DoWith("Sizeof operand", Here), taken', 0, 1)
      BY <2>2, DueWithHeavy DEF Named, Casts
    <3> QED BY <3>0, <3>1, ServesOne
  <2>5. 0 \in Nat /\ 1 \in Nat /\ 2 \in Nat /\ 3 \in Nat /\ 1 <= 0 + 2 OBVIOUS
  <2> QED BY <1>1, <1>3, <1>4, <2>1, <2>2, <2>3, <2>4, <2>5, QuietTake
<1> QED BY <1>5 DEF Sizeof

LEMMA SizeofOperandWords == ASSUME WInv, SizeofOperand PROVE WInv'
<1>1. At("Sizeof operand") BY DEF SizeofOperand
<1>2. Doing.does = "Sizeof operand" /\ Running BY <1>1 DEF At
<1>3. Counts(Doing, 0, 1) BY <1>2 DEF Counts, Uses, Gives, Weight
<1>4. "Sizeof operand" \in Quiet /\ "Sizeof operand" \notin Builds \union Pops
  BY DEF Quiet, Builds, Pops
<1>5. CASE Peek = "(" /\ is_primitive_type(Peek2)
  <2>1. Take(1) /\ Silent
        /\ Then(<<Do("Type name"), DoWith("Sizeof type", Doing.op)>>)
    BY <1>2, <1>5 DEF SizeofOperand
  <2>2. /\ Took(Here) /\ Kept(Here, taken') /\ Here.is = Peek
        /\ ItemOK(Doing, taken') /\ (Doing.op = NoToken \/ Kept(Doing.op, taken'))
    BY <1>1, <1>4, <2>1, HereTaken DEF ItemOK
  <2>3. Here.is \notin Speech BY <1>5, <2>2, Mute DEF Marks
  <2>4. Serves(<<Do("Type name"), DoWith("Sizeof type", Doing.op)>>, taken', 0, 1)
    <3>0. 0 \in Nat /\ 1 \in Nat /\ 2 \in Nat /\ 3 \in Nat /\ 1 >= 1 /\ 2 >= 1 /\ 3 >= 1 OBVIOUS
    <3>1. Due(Do("Type name"), taken', 0, 0) BY DueDo
    <3>2. Due(DoWith("Sizeof type", Doing.op), taken', 1, 1)
      BY <2>2, DueWithOne DEF Named, Casts
    <3>3. 0 = 1 - 1 OBVIOUS
    <3> QED BY <3>0, <3>1, <3>2, <3>3, ServesPair
  <2>5. 0 \in Nat /\ 1 \in Nat /\ 2 \in Nat /\ 3 \in Nat /\ 1 <= 1 + 2 OBVIOUS
  <2> QED BY <1>1, <1>3, <1>4, <2>1, <2>2, <2>3, <2>4, <2>5, QuietTake
<1>6. CASE ~(Peek = "(" /\ is_primitive_type(Peek2))
  <2>1. Silent /\ Staying
        /\ Then(<<Do("Unary"), DoWith("Sizeof", Doing.op)>>)
    BY <1>2, <1>6 DEF SizeofOperand, Staying
  <2>2. Doing.op = NoToken \/ Kept(Doing.op, taken) BY <1>1, AtFacts DEF ItemOK
  <2>4. Serves(<<Do("Unary"), DoWith("Sizeof", Doing.op)>>, taken, 0, 1)
    <3>0. 0 \in Nat /\ 1 \in Nat /\ 2 \in Nat /\ 3 \in Nat /\ 1 >= 1 /\ 2 >= 1 /\ 3 >= 1 OBVIOUS
    <3>1. Due(Do("Unary"), taken, 0, 0) BY DueDo
    <3>2. Due(DoWith("Sizeof", Doing.op), taken, 1, 1) BY <2>2, DueWithOne DEF Named, Casts
    <3>3. 0 = 1 - 1 OBVIOUS
    <3> QED BY <3>0, <3>1, <3>2, <3>3, ServesPair
  <2>5. 0 \in Nat /\ 1 \in Nat /\ 2 \in Nat /\ 3 \in Nat /\ 1 <= 1 OBVIOUS
  <2> QED BY <1>1, <1>3, <1>4, <2>1, <2>4, <2>5, QuietStay
<1> QED BY <1>5, <1>6

LEMMA SizeofTypeWords == ASSUME WInv, SizeofType PROVE WInv'
<1>1. At("Sizeof type") BY DEF SizeofType
<1>2. Doing.does = "Sizeof type" /\ Running BY <1>1 DEF At
<1>3. Counts(Doing, 1, 1) BY <1>2 DEF Counts, Uses, Gives, Weight
<1>4. "Sizeof type" \in Quiet /\ "Sizeof type" \notin Builds \union Pops
  BY DEF Quiet, Builds, Pops
<1>5. CASE Peek = ")"
  <2>1. Take(1) /\ Silent
        /\ Then(<<DoWith("Sizeof", Doing.op)>>)
    BY <1>2, <1>5 DEF SizeofType, Expect
  <2>2. /\ Took(Here) /\ Kept(Here, taken') /\ Here.is = Peek
        /\ ItemOK(Doing, taken') /\ (Doing.op = NoToken \/ Kept(Doing.op, taken'))
    BY <1>1, <1>4, <2>1, HereTaken DEF ItemOK
  <2>3. Here.is \notin Speech BY <1>5, <2>2, Mute DEF Marks
  <2>4. Serves(<<DoWith("Sizeof", Doing.op)>>, taken', 1, 1)
    <3>0. 0 \in Nat /\ 1 \in Nat /\ 2 \in Nat /\ 3 \in Nat /\ 1 >= 1 /\ 2 >= 1 /\ 3 >= 1 OBVIOUS
    <3>1. Due(DoWith("Sizeof", Doing.op), taken', 1, 1) BY <2>2, DueWithOne DEF Named, Casts
    <3> QED BY <3>0, <3>1, ServesOne
  <2>5. 0 \in Nat /\ 1 \in Nat /\ 2 \in Nat /\ 3 \in Nat /\ 1 <= 1 + 2 OBVIOUS
  <2> QED BY <1>1, <1>3, <1>4, <2>1, <2>2, <2>3, <2>4, <2>5, QuietTake
<1>6. CASE Peek # ")"
  <2>1. Fail BY <1>2, <1>6 DEF SizeofType, Expect
  <2> QED BY <1>2, <2>1, HaltsEach
<1> QED BY <1>5, <1>6

LEMMA BuildSizeofWords == ASSUME WInv, BuildSizeof PROVE WInv'
<1> DEFINE node == SizeofExpr(Doing.op, built[1])
<1>1. At("Sizeof") BY DEF BuildSizeof
<1>2. Doing.does = "Sizeof" /\ Running BY <1>1 DEF At
<1>3. Counts(Doing, 1, 1) BY <1>2 DEF Counts, Uses, Gives, Weight
<1>4. "Sizeof" \in Quiet BY DEF Quiet
<1>5. Replace(1, node) /\ Return /\ UNCHANGED outcome /\ Staying BY DEF BuildSizeof, Staying
<1>6. node.class = "SizeofExpr" /\ node.children = <<built[1]>> BY DEF SizeofExpr, Node
<1> HIDE DEF node
<1>7. RightNode(node, taken) BY <1>6, PlainNode DEF Speaking
<1>8. Range(node.children) = {built[i] : i \in 1 .. 1} BY <1>6, FirstNodes, Children
<1>9. 0 \in Nat /\ 1 \in Nat /\ 2 \in Nat /\ 3 \in Nat /\ 1 >= 1 OBVIOUS
<1> QED BY <1>1, <1>3, <1>4, <1>5, <1>7, <1>8, <1>9, OverStay

\* A cast keeps the place of what stands before its type, whatever it is.
LEMMA CastWords == ASSUME WInv, Cast PROVE WInv'
<1>1. At("Cast") /\ Silent BY DEF Cast
<1>2. Doing.does = "Cast" /\ Running BY <1>1 DEF At
<1>3. Counts(Doing, 0, 0) BY <1>2 DEF Counts, Uses, Gives, Weight
<1>4. "Cast" \in Quiet /\ "Cast" \notin Builds \union Pops BY DEF Quiet, Builds, Pops
<1>5. "Cast" \notin Packed \union {"Declarator"} /\ "Cast" \notin Named \union Casts
  BY <1>4, QuietFacts
<1>6. 0 \in Nat /\ 1 \in Nat /\ 1 <= 0 + 2 /\ 0 <= 0 /\ 1 >= 1 /\ 0 = 1 - 1 OBVIOUS
<1>7. CASE Peek = ")" \/ is_primitive_type(Peek2)
  <2> DEFINE it == DoWith("Cast type", Here)
             items == <<Do("Type name"), it>>
  <2>1. Take(1) /\ Then(items) BY <1>7 DEF Cast
  <2>2. Took(Here) /\ Kept(Here, taken') BY <1>1, <1>4, <2>1, HereTaken
  <2>3. Due(Do("Type name"), taken', 0, 0) BY DueDo
  <2>4. Due(it, taken', 1, 0) BY <2>2, DueCastType
  <2>5. it.does = "Cast type" /\ it.op = Here BY DEF DoWith, Item
  <2> HIDE DEF it
  <2>6. Holds(items, it) BY HoldsTwo
  <2>7. Serves(items, taken', 0, 0) BY <1>6, <2>3, <2>4, ServesPair
  <2> HIDE DEF items
  <2>8. HandsOn(Doing, items, built) BY <1>2, <1>5, HandsNone
  <2>9. Accounts(taken', items, built)
    <3>1. "Cast type" \in Casts BY DEF Casts
    <3> QED BY <2>2, <2>5, <2>6, <3>1, AccountsCast
  <2>10. 0 <= 0 + 2 OBVIOUS
  <2> QED BY <1>1, <1>3, <1>5, <1>6, <2>1, <2>2, <2>7, <2>8, <2>9, <2>10, SilentTake
<1>8. CASE ~(Peek = ")" \/ is_primitive_type(Peek2))
  <2>1. Then(<<Do("Unary")>>) /\ Staying BY <1>8 DEF Cast, Staying
  <2>2. Serves(<<Do("Unary")>>, taken, 0, 0) BY <1>6, UnaryDue, ServesOne
  <2> QED BY <1>1, <1>3, <1>4, <1>6, <2>1, <2>2, QuietStay
<1> QED BY <1>7, <1>8

LEMMA CastTypeWords == ASSUME WInv, CastType PROVE WInv'
<1> DEFINE it == DoWith("Cast operator", Doing.op)
           items == <<Do("Cast"), it>>
<1>1. At("Cast type") /\ Expect(")", items) BY DEF CastType
<1>2. Doing.does = "Cast type" /\ Running BY <1>1 DEF At
<1>3. Counts(Doing, 1, 0) BY <1>2 DEF Counts, Uses, Gives, Weight
<1>4. /\ "Cast type" \notin Packed \union {"Declarator"} /\ "Cast type" \notin Builds \union Pops
      /\ "Cast type" \in Casts /\ "Cast operator" \in Casts
  BY DEF Packed, Builds, Pops, Casts
<1>5. CASE Peek = ")"
  <2>1. Take(1) /\ Then(items) /\ Silent BY <1>1, <1>5 DEF Expect
  <2>2. Took(Here) /\ Here.is = Peek /\ ItemOK(Doing, taken') BY <1>1, <1>4, <2>1, HereTaken
  <2>3. Kept(Doing.op, taken') BY <1>2, <1>4, <2>2 DEF ItemOK
  <2>4. Due(Do("Cast"), taken', 0, 0) BY DueDo
  <2>5. Due(it, taken', 2, 1) BY <2>3, DueCast
  <2>6. it.does = "Cast operator" /\ it.op = Doing.op BY DEF DoWith, Item
  <2> HIDE DEF it
  <2>7. Holds(items, it) BY HoldsTwo
  <2>8. /\ 0 \in Nat /\ 1 \in Nat /\ 2 \in Nat /\ 2 >= 1 /\ 1 = 2 - 1 /\ 1 <= 0 + 2
    OBVIOUS
  <2>9. Serves(items, taken', 1, 1) BY <2>4, <2>5, <2>8, ServesPair
  <2> HIDE DEF items
  <2>10. HandsOn(Doing, items, built) BY <1>2, <1>4, <2>6, <2>7, HandsCast
  <2>11. Here.is \notin Speech BY <1>5, <2>2, Mute DEF Marks
  <2>12. Accounts(taken', items, built) BY <2>2, <2>11, AccountsMute
  <2> QED BY <1>1, <1>3, <1>4, <2>1, <2>2, <2>8, <2>9, <2>10, <2>12, SilentTake
<1>6. CASE Peek # ")"
  <2>1. Fail BY <1>1, <1>6 DEF Expect
  <2> QED BY <1>2, <2>1, HaltsEach
<1> QED BY <1>5, <1>6

LEMMA BuildCastWords == ASSUME WInv, BuildCast PROVE WInv'
<1> DEFINE node == ExplicitCastExpr(Doing.op.at, built[1], built[2])
<1>1. /\ At("Cast operator") /\ Replace(2, node) /\ Then(<<>>) /\ UNCHANGED outcome /\ Staying
  BY DEF BuildCast, Return, Staying
<1>2. Doing.does = "Cast operator" /\ Running BY <1>1 DEF At
<1>3. Counts(Doing, 2, 1) BY <1>2 DEF Counts, Uses, Gives, Weight
<1>4. /\ "Cast operator" \notin Packed \union {"Declarator"} \union Named
      /\ "Cast operator" \in Casts
  BY DEF Packed, Casts, Named
<1>5. /\ node.class = "ExplicitCastExpr" /\ node.at = Doing.op.at
      /\ node.children = <<built[1], built[2]>>
  BY DEF ExplicitCastExpr, Node
<1> HIDE DEF node
<1>6. Kept(Doing.op, taken) BY <1>1, <1>2, <1>4, AtFacts DEF ItemOK
<1>7. RightNode(node, taken) BY <1>5, <1>6, CastNode
<1>8. Range(node.children) = {built[i] : i \in 1 .. 2} BY <1>5, ChildrenTwo, FirstNodes
<1>9. /\ 2 \in 0 .. 2 /\ 2 \in Nat /\ 1 \in Nat /\ 0 \in Nat /\ 1 = 2 - 2 + 1 /\ 1 + 0 <= 1
  OBVIOUS
<1>10. IsList(built) /\ 2 \in 0 .. Len(built)
  <2>1. 2 <= Len(built) /\ Len(built) \in Nat BY <1>2, <1>3, <1>9, Others
  <2>2. IsList(built) BY <1>1, AtFacts
  <2> QED BY <2>1, <2>2
<1>11. Grows(built, Replacing(built, 2, node), 1, taken) BY <1>7, <1>8, <1>10, GrowsOver
<1>12. HandsOn(Doing, <<>>, built')
  <2>1. built' # <<>> /\ built'[1] = node BY <1>1, <1>10, TopIs
  <2> QED BY <1>2, <1>4, <1>5, <2>1 DEF HandsOn
<1>13. Serves(<<>>, taken, 1, 0) BY ServesNone
<1> QED BY <1>1, <1>3, <1>4, <1>9, <1>11, <1>12, <1>13, BuildStay

\* A type is a node of its token, under a pointer or as an expression in the end.
LEMMA TypeNode ==
  ASSUME NEW token
  PROVE  /\ Type(token).class = "Type" /\ Type(token).class \in Speaking
         /\ Type(token).class # "ExplicitCastExpr" /\ Type(token).children = <<>>
         /\ Type(token).at = token.at /\ Type(token).says = token.is
  BY DEF Type, Node, Speaking

LEMMA TypeNameWords == ASSUME WInv, TypeName PROVE WInv'
<1>1. At("Type name") BY DEF TypeName
<1>2. Doing.does = "Type name" /\ Running BY <1>1 DEF At
<1>3. Counts(Doing, 0, 0) BY <1>2 DEF Counts, Uses, Gives, Weight
<1>4. "Type name" \in Quiet /\ "Type name" \in Pops BY DEF Quiet, Pops
<1>5. 0 \in Nat /\ 1 \in Nat /\ 0 <= 0 + 2 /\ 1 <= 0 + 2 OBVIOUS
<1>6. CASE /\ Pop /\ Push(Type(Popped)) /\ Then(<<DoWith("Pointers", Popped)>>)
           /\ UNCHANGED outcome
  <2>1. Took(Popped) /\ Kept(Popped, taken') BY <1>1, <1>4, <1>6, PoppedTaken
  <2>2. Due(DoWith("Pointers", Popped), taken', 1, 1) BY <2>1, DueWithOne
  <2>3. Serves(<<DoWith("Pointers", Popped)>>, taken', 1, 1) BY <1>5, <2>2, ServesOne
  <2> QED BY <1>1, <1>3, <1>4, <1>5, <1>6, <2>1, <2>3, TypeNode, LeafTake
<1>7. CASE /\ Popped.is \in {"struct", "enum"}
           /\ Pop /\ Then(<<DoWith("Type tag", Popped)>>) /\ Silent
  <2>1. Took(Popped) /\ Kept(Popped, taken') BY <1>1, <1>4, <1>7, PoppedTaken
  <2>2. Due(DoWith("Type tag", Popped), taken', 0, 0) BY <2>1, DueWith
  <2>3. Serves(<<DoWith("Type tag", Popped)>>, taken', 0, 0) BY <1>5, <2>2, ServesOne
  <2>4. Popped.is \notin Speech BY <1>7, Mute DEF Marks
  <2> QED BY <1>1, <1>3, <1>4, <1>5, <1>7, <2>1, <2>3, <2>4, QuietTake
<1>8. CASE Fail BY <1>2, <1>8, HaltsEach
<1> QED BY <1>6, <1>7, <1>8 DEF TypeName

LEMMA TypeTagWords == ASSUME WInv, TypeTag PROVE WInv'
<1>1. At("Type tag") BY DEF TypeTag
<1>2. Doing.does = "Type tag" /\ Running BY <1>1 DEF At
<1>3. Counts(Doing, 0, 0) BY <1>2 DEF Counts, Uses, Gives, Weight
<1>4. "Type tag" \in Quiet /\ "Type tag" \in Pops BY DEF Quiet, Pops
<1>5. CASE /\ Pop /\ Push(Type(Popped)) /\ Then(<<DoWith("Pointers", Doing.op)>>)
           /\ UNCHANGED outcome
  <2>1. Took(Popped) /\ Kept(Popped, taken') /\ ItemOK(Doing, taken')
    BY <1>1, <1>4, <1>5, PoppedTaken
  <2>2. "Pointers" \notin Named \union Casts BY DEF Named, Casts
  <2>3. Due(DoWith("Pointers", Doing.op), taken', 1, 1) BY <2>1, <2>2, DueWithOne DEF ItemOK
  <2>4. 0 \in Nat /\ 1 \in Nat /\ 1 <= 0 + 2 OBVIOUS
  <2>5. Serves(<<DoWith("Pointers", Doing.op)>>, taken', 1, 1) BY <2>3, <2>4, ServesOne
  <2> QED BY <1>1, <1>3, <1>4, <1>5, <2>1, <2>4, <2>5, TypeNode, LeafTake
<1>6. CASE Fail BY <1>2, <1>6, HaltsEach
<1> QED BY <1>5, <1>6 DEF TypeTag

LEMMA PointersWords == ASSUME WInv, Pointers PROVE WInv'
<1>1. At("Pointers") /\ UNCHANGED outcome BY DEF Pointers
<1>2. Doing.does = "Pointers" /\ Running BY <1>1 DEF At
<1>3. Counts(Doing, 1, 1) BY <1>2 DEF Counts, Uses, Gives, Weight
<1>4. "Pointers" \in Quiet /\ "Pointers" \notin Builds \union Pops BY DEF Quiet, Builds, Pops
<1>5. 1 \in Nat /\ 1 >= 1 /\ 1 <= 1 + 1 OBVIOUS
<1>6. CASE Peek = "*"
  <2> DEFINE node == PointerTo(built[1])
  <2>1. Take(1) /\ Replace(1, node) /\ UNCHANGED todo BY <1>6 DEF Pointers
  <2>2. Took(Here) /\ Here.is = Peek /\ ItemOK(Doing, taken') BY <1>1, <1>4, <2>1, HereTaken
  <2>3. node.class = "PointerType" /\ node.children = <<built[1]>> BY DEF PointerTo, Node
  <2> HIDE DEF node
  <2>4. RightNode(node, taken') BY <2>3, PlainNode DEF Speaking
  <2>5. Range(node.children) = {built[i] : i \in 1 .. 1} BY <2>3, Children, FirstNodes
  <2>6. Here.is \notin Speech BY <1>6, <2>2, Mute DEF Marks
  <2>7. Then(<<Doing>>) BY <1>1, <2>1, AtFacts, SameAgain DEF Running
  <2>8. Due(Doing, taken', 1, 1)
    <3>1. Doing.does \notin Packed \union Packing \union {"Strings"} BY <1>2 DEF Packed, Packing
    <3> QED BY <1>3, <2>2, <3>1 DEF Due, Neat, Counts
  <2>9. Serves(<<Doing>>, taken', 1, 1) BY <1>5, <2>8, ServesOne
  <2> QED BY <1>1, <1>3, <1>4, <1>5, <2>1, <2>2, <2>4, <2>5, <2>6, <2>7, <2>9, OverTake
<1>7. CASE Peek # "*"
  <2> DEFINE node == TypeProxyExpr(Doing.op.at, built[1])
  <2>1. Replace(1, node) /\ Return /\ Staying BY <1>7 DEF Pointers, Staying
  <2>2. node.class = "TypeProxyExpr" /\ node.children = <<built[1]>> BY DEF TypeProxyExpr, Node
  <2> HIDE DEF node
  <2>3. RightNode(node, taken) BY <2>2, PlainNode DEF Speaking
  <2>4. Range(node.children) = {built[i] : i \in 1 .. 1} BY <2>2, Children, FirstNodes
  <2> QED BY <1>1, <1>3, <1>4, <1>5, <2>1, <2>3, <2>4, OverStay
<1> QED BY <1>6, <1>7

LEMMA ParenthesisedWords == ASSUME WInv, Parenthesised PROVE WInv'
<1> DEFINE rest == <<Do("Close"), Do("Suffix")>>
           items == Expr(Comma) \o rest
<1>1. At("Unary") /\ Peek = "(" /\ Take(1) /\ Then(items) /\ Silent
  BY DEF Parenthesised, Operand
<1>2. Doing.does = "Unary" /\ Running BY <1>1 DEF At
<1>3. Counts(Doing, 0, 0) BY <1>2 DEF Counts, Uses, Gives, Weight
<1>4. "Unary" \in Quiet /\ "Unary" \notin Builds \union Pops BY DEF Quiet, Builds, Pops
<1>5. Took(Here) /\ Here.is = Peek BY <1>1, <1>4, HereTaken
<1>6. Here.is \notin Speech BY <1>1, <1>5, Mute DEF Marks
<1>7. 0 \in Nat /\ 1 \in Nat /\ 1 >= 1 /\ 1 = 1 - 1 + 1 /\ 0 = 0 + 0 /\ 0 = 1 - 1 /\ 0 <= 0 + 2
  OBVIOUS
<1>8. Due(Do("Close"), taken', 1, 0) /\ Due(Do("Suffix"), taken', 1, 0) BY DueDoOne
<1>9. Serves(rest, taken', 1, 0) BY <1>7, <1>8, ServesTwo
<1>10. Comma \in 1 .. 13 BY DEF Comma
<1> HIDE DEF rest
<1>11. Serves(items, taken', 0, 0) BY <1>7, <1>9, <1>10, ServesExprList
<1> HIDE DEF items
<1> QED BY <1>1, <1>3, <1>4, <1>5, <1>6, <1>7, <1>11, QuietTake

LEMMA IdentifierWords == ASSUME WInv, Identifier PROVE WInv'
<1> DEFINE it == DoWith("Call", Here)
           items == <<it, Do("Suffix")>>
<1>1. At("Unary") /\ Take(1) /\ Then(items) /\ Silent BY DEF Identifier, Operand
<1>2. Doing.does = "Unary" /\ Running BY <1>1 DEF At
<1>3. Counts(Doing, 0, 0) BY <1>2 DEF Counts, Uses, Gives, Weight
<1>4. "Unary" \in Quiet /\ "Unary" \notin Builds \union Pops BY DEF Quiet, Builds, Pops
<1>5. "Unary" \notin Packed \union {"Declarator"} /\ "Unary" \notin Named \union Casts
  BY <1>4, QuietFacts
<1>6. Took(Here) /\ Kept(Here, taken') BY <1>1, <1>4, HereTaken
<1>7. 0 \in Nat /\ 1 \in Nat /\ 1 >= 1 /\ 0 = 1 - 1 /\ 0 <= 0 + 2 OBVIOUS
<1>8. Due(it, taken', 0, 0) BY <1>6, DueWith
<1>9. it.does = "Call" /\ it.op = Here /\ "Call" \in Named BY DEF DoWith, Item, Named
<1> HIDE DEF it
<1>10. Due(Do("Suffix"), taken', 1, 0) BY DueDoOne
<1>11. Serves(items, taken', 0, 0) BY <1>7, <1>8, <1>10, ServesPair
<1>12. Holds(items, it) BY HoldsTwo
<1> HIDE DEF items
<1>13. HandsOn(Doing, items, built) BY <1>2, <1>5, HandsNone
<1>14. Accounts(taken', items, built) BY <1>6, <1>9, <1>12, AccountsHeld
<1> QED BY <1>1, <1>3, <1>5, <1>6, <1>7, <1>11, <1>13, <1>14, SilentTake

LEMMA CallOrVariableWords == ASSUME WInv, CallOrVariable PROVE WInv'
<1>1. At("Call") /\ UNCHANGED outcome BY DEF CallOrVariable
<1>2. Doing.does = "Call" /\ Running BY <1>1 DEF At
<1>3. Counts(Doing, 0, 0) BY <1>2 DEF Counts, Uses, Gives, Weight
<1>4. "Call" \in Named /\ "Call" \notin Builds \union Pops BY DEF Named, Builds, Pops
<1>5. 0 \in Nat /\ 0 <= 0 /\ 0 <= 0 + 2 /\ 0 \in 0 .. 0 /\ 1 = 0 - 0 + 1 OBVIOUS
<1>6. CASE Peek = "("
  <2> DEFINE it == DoWith("Arguments", Doing.op)
             items == <<it>>
  <2>1. Take(1) /\ Then(items) /\ Silent BY <1>1, <1>6 DEF CallOrVariable, Silent
  <2>2. Took(Here) /\ Here.is = Peek /\ ItemOK(Doing, taken') BY <1>1, <1>4, <2>1, HereTaken
  <2>3. Kept(Doing.op, taken') BY <1>2, <1>4, <2>2 DEF ItemOK
  <2>4. Due(it, taken', 0, 0) BY <2>3, DueWith
  <2>5. it.does = "Arguments" /\ it.op = Doing.op /\ "Arguments" \in Named
    BY DEF DoWith, Item, Named
  <2> HIDE DEF it
  <2>6. Serves(items, taken', 0, 0) /\ Holds(items, it) BY <1>5, <2>4, ServesOne, HoldsOne
  <2> HIDE DEF items
  <2>7. Here.is \notin Speech BY <1>6, <2>2, Mute DEF Marks
  <2> QED BY <1>1, <1>3, <1>4, <1>5, <2>1, <2>2, <2>5, <2>6, <2>7, HeldTake
<1>7. CASE Peek # "("
  <2> DEFINE node == DeclRefExpr(Doing.op)
  <2>1. Replace(0, node) /\ Then(<<>>) /\ Staying
    BY <1>7 DEF CallOrVariable, Push, Return, Staying
  <2>2. /\ node.class = "DeclRefExpr" /\ node.children = <<>>
        /\ node.at = Doing.op.at /\ node.says = Doing.op.is
    BY DEF DeclRefExpr, Node
  <2> HIDE DEF node
  <2>3. node.class \in Speaking BY <2>2 DEF Speaking
  <2>4. Kept(Doing.op, taken) /\ IsList(built) BY <1>1, <1>2, <1>4, AtFacts DEF ItemOK
  <2>5. RightNode(node, taken) BY <2>2, <2>4, WordNode
  <2>6. Grows(built, Replacing(built, 0, node), 0, taken) BY <2>2, <2>4, <2>5, GrowsLeaf
  <2>7. Serves(<<>>, taken, 1, 0) BY ServesNone
  <2> QED BY <1>1, <1>3, <1>4, <1>5, <2>1, <2>2, <2>3, <2>6, <2>7, NamedStay
<1> QED BY <1>6, <1>7

\* The nodes that are counted become the children of one for the token that is kept.
LEMMA CountedNode ==
  ASSUME WInv, Running, NEW n \in Nat, n <= Len(built), NEW node, NEW ts, node.children = Newest(n),
         RightNode(node, ts)
  PROVE  Grows(built, Replacing(built, n, node), 1, ts)
<1>1. IsList(built) /\ n \in 0 .. Len(built) BY DoingFacts
<1>2. Range(node.children) = {built[i] : i \in 1 .. n}
  <2>1. Range(Reverse(SubSeq(built, 1, n))) = {built[i] : i \in 1 .. n}
    <3>1. \A b : IsList(b) => \A k \in 0 .. Len(b) :
            Range(Reverse(SubSeq(b, 1, k))) = {b[i] : i \in 1 .. k}
      BY NewestNodes
    <3> QED BY <1>1, <3>1
  <2> QED BY <2>1 DEF Newest
<1> QED BY <1>1, <1>2, GrowsOver

LEMMA ArgumentsWords == ASSUME WInv, Arguments PROVE WInv'
<1>1. At("Arguments") /\ UNCHANGED outcome BY DEF Arguments
<1>2. Doing.does = "Arguments" /\ Running BY <1>1 DEF At
<1> DEFINE n == Doing.n
<1>3. n \in Nat BY <1>1, AtFacts
<1>4. Counts(Doing, n, 0) BY <1>2 DEF Counts, Uses, Gives, Weight
<1>5. "Arguments" \in Named /\ "Arguments" \notin Builds \union Pops BY DEF Named, Builds, Pops
<1>6. CASE Peek = ")"
  <2> DEFINE node == FuncCallStmt(Doing.op, Newest(n))
  <2>1. Take(1) /\ Then(<<>>) /\ Replace(n, node) BY <1>6 DEF Arguments, Return
  <2>2. Took(Here) /\ Here.is = Peek /\ ItemOK(Doing, taken') BY <1>1, <1>5, <2>1, HereTaken
  <2>3. Kept(Doing.op, taken') BY <1>2, <1>5, <2>2 DEF ItemOK
  <2>4. /\ node.class = "FuncCallStmt" /\ node.children = Newest(n)
        /\ node.at = Doing.op.at /\ node.says = Doing.op.is
    BY DEF FuncCallStmt, Node
  <2> HIDE DEF node, n
  <2>5. node.class \in Speaking BY <2>4 DEF Speaking
  <2>6. RightNode(node, taken') BY <2>3, <2>4, WordNode
  <2>7. n <= Len(built) BY <1>2, <1>3, <1>4, Others
  <2>8. Grows(built, Replacing(built, n, node), 1, taken')
    BY <1>2, <1>3, <2>4, <2>6, <2>7, CountedNode
  <2>9. Here.is \notin Speech BY <1>6, <2>2, Mute DEF Marks
  <2>10. Serves(<<>>, taken', 1, 0) BY ServesNone
  <2>11. n \in 0 .. n /\ 1 = n - n + 1 /\ 1 \in Nat /\ 1 <= 0 + 2 /\ 0 \in Nat BY <1>3
  <2> QED BY <1>1, <1>3, <1>4, <1>5, <2>1, <2>2, <2>4, <2>5, <2>8, <2>9, <2>10, <2>11, NamedTake
<1>7. CASE Peek # ")"
  <2> DEFINE it == Item("Argument", n + 1, 0, Doing.op)
             items == Expr(Assign) \o <<it>>
  <2>1. Then(items) /\ Silent /\ Staying BY <1>1, <1>7 DEF Arguments, Silent, Staying
  <2>2. Kept(Doing.op, taken) BY <1>1, <1>2, <1>5, AtFacts DEF ItemOK
  <2>3. n + 1 \in Nat /\ n + 1 >= 1 /\ n = n + 1 - 1 /\ 0 \in Nat /\ 0 <= 0 BY <1>3
  <2>4. it.does = "Argument" /\ it.op = Doing.op /\ "Argument" \in Named BY DEF Item, Named
  <2> HIDE DEF n
  <2>5. Due(it, taken, n + 1, 0) BY <2>2, <2>3, DueCounted
  <2> HIDE DEF it
  <2>6. Assign \in 1 .. 13 BY DEF Assign
  <2>7. Serves(items, taken, n, 0)
    <3> DEFINE k == n + 1
    <3>1. k \in Nat /\ k >= 1 /\ n = k - 1 BY <1>3
    <3>2. Due(it, taken, k, 0) BY <2>5
    <3> HIDE DEF k
    <3> QED BY <2>3, <2>6, <3>1, <3>2, ServesExprThen
  <2>8. Holds(items, it) BY HoldsLast, ExprList
  <2> HIDE DEF items
  <2> QED BY <1>1, <1>3, <1>4, <1>5, <2>1, <2>3, <2>4, <2>7, <2>8, HeldStay
<1> QED BY <1>6, <1>7

LEMMA AfterArgumentWords == ASSUME WInv, AfterArgument PROVE WInv'
<1> DEFINE n == Doing.n
           it == Item("Arguments", n, 0, Doing.op)
           items == <<it>>
<1>1. At("Argument") BY DEF AfterArgument
<1>2. Doing.does = "Argument" /\ Running BY <1>1 DEF At
<1>3. n \in Nat /\ ItemOK(Doing, taken) BY <1>1, AtFacts
<1>4. Counts(Doing, n, 0) BY <1>2 DEF Counts, Uses, Gives, Weight
<1>5. "Argument" \in Named /\ "Argument" \notin Builds \union Pops BY DEF Named, Builds, Pops
<1>6. it.does = "Arguments" /\ it.op = Doing.op /\ "Arguments" \in Named BY DEF Item, Named
<1>7. Holds(items, it) BY HoldsOne
<1>8. \/ MoreArguments /\ Staying
      \/ Peek = "," /\ Take(1) /\ MoreArguments
      \/ Fail
  BY DEF AfterArgument, Staying
<1>9. MoreArguments => Then(items) /\ Silent BY DEF MoreArguments
<1>10. ASSUME NEW ts, ItemOK(Doing, ts) PROVE Serves(items, ts, n, 0)
  <2>1. Kept(Doing.op, ts) BY <1>2, <1>5, <1>10 DEF ItemOK
  <2> HIDE DEF n
  <2>2. Due(it, ts, n, 0) BY <1>3, <2>1, DueCounted
  <2> QED BY <1>3, <2>2, ServesOne
<1> HIDE DEF items, it, n
<1>11. 0 \in Nat /\ 0 <= 0 /\ 0 <= 0 + 2 OBVIOUS
<1>12. CASE MoreArguments /\ Staying
  BY <1>1, <1>3, <1>4, <1>5, <1>6, <1>7, <1>9, <1>10, <1>11, <1>12, HeldStay
<1>13. CASE Peek = "," /\ Take(1) /\ MoreArguments
  <2>1. Took(Here) /\ Here.is = Peek /\ ItemOK(Doing, taken') BY <1>1, <1>5, <1>13, HereTaken
  <2>2. Here.is \notin Speech BY <1>13, <2>1, Mute DEF Marks
  <2>3. Serves(items, taken', n, 0) BY <1>10, <2>1
  <2> QED BY <1>1, <1>3, <1>4, <1>5, <1>6, <1>7, <1>9, <1>11, <1>13, <2>1, <2>2, <2>3, HeldTake
<1>14. CASE Fail BY <1>2, <1>14, HaltsEach
<1> QED BY <1>8, <1>12, <1>13, <1>14

LEMMA LiteralNode ==
  ASSUME NEW token
  PROVE  /\ LiteralExpr(token).class = "LiteralExpr" /\ LiteralExpr(token).class \in Speaking
         /\ LiteralExpr(token).class # "ExplicitCastExpr" /\ LiteralExpr(token).children = <<>>
         /\ LiteralExpr(token).at = token.at /\ LiteralExpr(token).says = token.is
  BY DEF LiteralExpr, Node, Speaking

LEMMA LiteralWords == ASSUME WInv, Literal PROVE WInv'
<1>1. /\ At("Unary") /\ Take(1) /\ Push(LiteralExpr(Here)) /\ Then(<<Do("Suffix")>>)
      /\ UNCHANGED outcome
  BY DEF Literal
<1>2. Doing.does = "Unary" /\ Running BY <1>1 DEF At
<1>3. Counts(Doing, 0, 0) BY <1>2 DEF Counts, Uses, Gives, Weight
<1>4. "Unary" \in Quiet /\ "Unary" \notin Builds \union Pops BY DEF Quiet, Builds, Pops
<1>5. Took(Here) BY <1>1, <1>4, HereTaken
<1>6. 0 \in Nat /\ 1 \in Nat /\ 0 <= 0 + 2 OBVIOUS
<1>7. Due(Do("Suffix"), taken', 1, 0) BY DueDoOne
<1>8. Serves(<<Do("Suffix")>>, taken', 1, 0) BY <1>6, <1>7, ServesOne
<1> QED BY <1>1, <1>3, <1>4, <1>5, <1>6, <1>8, LiteralNode, LeafTake

LEMMA TermExpectedWords == ASSUME WInv, TermExpected PROVE WInv'
  BY HaltsEach DEF TermExpected, At

LEMMA CloseWords == ASSUME WInv, Close PROVE WInv'
<1>1. At("Close") /\ Expect(")", <<>>) BY DEF Close
<1>2. Doing.does = "Close" /\ Running BY <1>1 DEF At
<1>3. Counts(Doing, 1, 0) BY <1>2 DEF Counts, Uses, Gives, Weight
<1>4. "Close" \in Quiet /\ "Close" \notin Builds \union Pops BY DEF Quiet, Builds, Pops
<1>5. CASE Peek = ")"
  <2>1. Take(1) /\ Then(<<>>) /\ Silent BY <1>1, <1>5 DEF Expect
  <2>2. Took(Here) /\ Here.is = Peek BY <1>1, <1>4, <2>1, HereTaken
  <2>3. Here.is \notin Speech BY <1>5, <2>2, Mute DEF Marks
  <2>4. Serves(<<>>, taken', 1, 0) /\ 0 \in Nat /\ 1 \in Nat /\ 0 <= 0 + 2 BY ServesNone
  <2> QED BY <1>1, <1>3, <1>4, <2>1, <2>2, <2>3, <2>4, QuietTake
<1>6. CASE Peek # ")"
  <2>1. Fail BY <1>1, <1>6 DEF Expect
  <2> QED BY <1>2, <2>1, HaltsEach
<1> QED BY <1>5, <1>6

LEMMA NoSuffixWords == ASSUME WInv, NoSuffix PROVE WInv'
<1>1. At("Suffix") /\ Then(<<>>) /\ Silent /\ Staying BY DEF NoSuffix, Return, Staying
<1>2. Doing.does = "Suffix" /\ Running BY <1>1 DEF At
<1>3. Counts(Doing, 1, 0) BY <1>2 DEF Counts, Uses, Gives, Weight
<1>4. "Suffix" \in Quiet BY DEF Quiet
<1>5. Serves(<<>>, taken, 1, 0) /\ 0 \in Nat /\ 1 \in Nat /\ 0 <= 0 BY ServesNone
<1> QED BY <1>1, <1>3, <1>4, <1>5, QuietStay

\* The kind of a suffix is that of its token.
LEMMA KindsMute ==
  ASSUME NEW k \in 1 .. 3, Kind = {k}
  PROVE  Peek \notin Speech /\ (k = 2 => Peek \in {".", "->"})
<1>1. Peek \in Kinds[k]
  <2>1. k \in Kind OBVIOUS
  <2> QED BY <2>1 DEF Kind
<1>2. Kinds[1] = {"["} /\ Kinds[2] = {".", "->"} /\ Kinds[3] = {"++", "--"} BY DEF Kinds, Increments
<1>3. k = 1 \/ k = 2 \/ k = 3 OBVIOUS
<1>4. Peek \in {"[", ".", "->", "++", "--"} /\ (k = 2 => Peek \in {".", "->"}) BY <1>1, <1>2, <1>3
<1> QED BY <1>4, Mute DEF Marks

LEMMA SubscriptWords == ASSUME WInv, Subscript PROVE WInv'
<1> DEFINE it == DoWith("Subscript", Here)
           rest == <<it, More(1)>>
           items == Expr(Comma) \o rest
<1>1. At("Suffix") /\ Kind = {1} /\ Take(1) /\ Silent /\ Then(items) BY DEF Subscript
<1>2. Doing.does = "Suffix" /\ Running BY <1>1 DEF At
<1>3. Counts(Doing, 1, 0) BY <1>2 DEF Counts, Uses, Gives, Weight
<1>4. "Suffix" \in Quiet /\ "Suffix" \notin Builds \union Pops BY DEF Quiet, Builds, Pops
<1>5. Took(Here) /\ Here.is = Peek /\ Kept(Here, taken') BY <1>1, <1>4, HereTaken
<1>6. Here.is \notin Speech
  <2>1. 1 \in 1 .. 3 OBVIOUS
  <2> QED BY <1>1, <1>5, <2>1, KindsMute
<1>7. /\ 0 \in Nat /\ 1 \in Nat /\ 2 \in Nat /\ 1 >= 1 /\ 2 >= 1 /\ 2 = 1 - 1 + 2 /\ 1 = 2 - 1
      /\ 0 = 0 + 0 /\ 0 <= 0 + 2
  OBVIOUS
<1>8. Due(it, taken', 2, 0) BY <1>5, DueWithTwo
<1>9. Due(More(1), taken', 1, 0) BY <1>7, DueMore
<1> HIDE DEF it
<1>10. Serves(rest, taken', 2, 0) BY <1>7, <1>8, <1>9, ServesTwo
<1>11. Comma \in 1 .. 13 BY DEF Comma
<1> HIDE DEF rest
<1>12. Serves(items, taken', 1, 0) BY <1>7, <1>10, <1>11, ServesExprList
<1> HIDE DEF items
<1> QED BY <1>1, <1>3, <1>4, <1>5, <1>6, <1>7, <1>12, QuietTake

LEMMA EndSubscriptWords == ASSUME WInv, EndSubscript PROVE WInv'
<1>1. At("Subscript") BY DEF EndSubscript
<1>2. Doing.does = "Subscript" /\ Running BY <1>1 DEF At
<1>3. Counts(Doing, 2, 0) BY <1>2 DEF Counts, Uses, Gives, Weight
<1>4. "Subscript" \in Quiet /\ "Subscript" \notin Builds \union Pops BY DEF Quiet, Builds, Pops
<1>5. CASE Peek = "]"
  <2> DEFINE node == ArraySubscriptExpr(Doing.op, built[2], built[1])
  <2>1. Take(1) /\ Then(<<>>) /\ UNCHANGED outcome /\ Replace(2, node)
    BY <1>5 DEF EndSubscript, Return
  <2>2. Took(Here) /\ Here.is = Peek BY <1>1, <1>4, <2>1, HereTaken
  <2>3. Here.is \notin Speech BY <1>5, <2>2, Mute DEF Marks
  <2>4. node.class = "ArraySubscriptExpr" /\ node.children = <<built[2], built[1]>>
    BY DEF ArraySubscriptExpr, Node
  <2> HIDE DEF node
  <2>5. RightNode(node, taken') BY <2>4, PlainNode DEF Speaking
  <2>6. Range(node.children) = {built[i] : i \in 1 .. 2} BY <2>4, ChildrenTwo, FirstNodes
  <2>7. Serves(<<>>, taken', 1, 0) /\ 0 \in Nat /\ 2 \in Nat /\ 0 <= 0 + 1 BY ServesNone
  <2> QED BY <1>1, <1>3, <1>4, <2>1, <2>2, <2>3, <2>5, <2>6, <2>7, OverTake
<1>6. CASE Peek # "]"
  <2>1. Fail BY <1>6 DEF EndSubscript
  <2> QED BY <1>2, <2>1, HaltsEach
<1> QED BY <1>5, <1>6

LEMMA MemberWords == ASSUME WInv, Member PROVE WInv'
<1> DEFINE it == DoWith("Member", Here)
           items == <<it, More(2)>>
<1>1. At("Suffix") /\ Kind = {2} /\ Take(1) /\ Silent /\ Then(items) BY DEF Member
<1>2. Doing.does = "Suffix" /\ Running BY <1>1 DEF At
<1>3. Counts(Doing, 1, 0) BY <1>2 DEF Counts, Uses, Gives, Weight
<1>4. "Suffix" \in Quiet /\ "Suffix" \notin Builds \union Pops BY DEF Quiet, Builds, Pops
<1>5. Took(Here) /\ Here.is = Peek /\ Kept(Here, taken') BY <1>1, <1>4, HereTaken
<1>6. Here.is \notin Speech /\ Here.is \in {".", "->"}
  <2>1. 2 \in 1 .. 3 OBVIOUS
  <2> QED BY <1>1, <1>5, <2>1, KindsMute
<1>7. /\ 0 \in Nat /\ 1 \in Nat /\ 2 \in Nat /\ 1 >= 1 /\ 1 = 1 - 1 + 1 /\ 0 = 0 + 0 /\ 0 <= 0 + 2
  OBVIOUS
<1>8. Due(it, taken', 1, 0)
  <2>1. it = Item("Member", 0, 0, Here) /\ "Member" \in Members BY DEF DoWith, Members
  <2> QED BY <1>5, <1>6, <1>7, <2>1, DueMember
<1>9. Due(More(2), taken', 1, 0) BY <1>7, DueMore
<1> HIDE DEF it
<1>10. Serves(items, taken', 1, 0) BY <1>7, <1>8, <1>9, ServesTwo
<1> HIDE DEF items
<1> QED BY <1>1, <1>3, <1>4, <1>5, <1>6, <1>7, <1>10, QuietTake

LEMMA MemberOperatorWords == ASSUME WInv, MemberOperator PROVE WInv'
<1> DEFINE n == IF Popped.is = "->" THEN 1 ELSE 0
           it == Item("Field", n, 0, Doing.op)
           items == <<it>>
<1>1. At("Member") /\ Pop /\ Silent /\ Then(items) BY DEF MemberOperator
<1>2. Doing.does = "Member" /\ Running BY <1>1 DEF At
<1>3. Counts(Doing, 1, 0) BY <1>2 DEF Counts, Uses, Gives, Weight
<1>4. "Member" \in Quiet /\ "Member" \in Pops /\ "Member" \in Members /\ "Field" \in Members
  BY DEF Quiet, Pops, Members
<1>5. "Member" \notin Packed \union {"Declarator"} /\ "Member" \notin Named \union Casts
  BY <1>4, QuietFacts
<1>6. Took(Popped) /\ ItemOK(Doing, taken') BY <1>1, <1>4, PoppedTaken
<1>7. Kept(Doing.op, taken') /\ Doing.op.is \in {".", "->"} BY <1>2, <1>4, <1>6 DEF ItemOK
<1>8. n \in Nat /\ 0 \in Nat /\ 1 \in Nat /\ 0 <= 0 + 2 OBVIOUS
<1> HIDE DEF n
<1>9. Due(it, taken', 1, 0) BY <1>4, <1>7, <1>8, DueMember
<1> HIDE DEF it
<1>10. Serves(items, taken', 1, 0) BY <1>8, <1>9, ServesOne
<1> HIDE DEF items
<1>11. HandsOn(Doing, items, built) BY <1>2, <1>5, HandsNone
<1>12. Accounts(taken', items, built) BY <1>7, AccountsMember
<1> QED BY <1>1, <1>3, <1>5, <1>6, <1>8, <1>10, <1>11, <1>12, SilentTake

LEMMA FieldWords == ASSUME WInv, Field PROVE WInv'
<1>1. At("Field") BY DEF Field
<1>2. Doing.does = "Field" /\ Running BY <1>1 DEF At
<1>3. Counts(Doing, 1, 0) BY <1>2 DEF Counts, Uses, Gives, Weight
<1>4. "Field" \in Quiet /\ "Field" \notin Builds \union Pops /\ "Field" \in Members
  BY DEF Quiet, Builds, Pops, Members
<1>5. "Field" \notin Packed \union {"Declarator"} /\ "Field" \notin Named \union Casts
  BY <1>4, QuietFacts
<1>6. CASE Peek \in kIdentity
  <2> DEFINE leaf == Node("Field", Here.is, Here.at, <<>>)
             node == MemberExpr(Doing.n = 1, Doing.op.at, Here, built[1])
  <2>1. Take(1) /\ Then(<<>>) /\ UNCHANGED outcome /\ Replace(1, node) BY <1>6 DEF Field, Return
  <2>2. Took(Here) /\ ItemOK(Doing, taken') BY <1>1, <1>4, <2>1, HereTaken
  <2>3. Kept(Doing.op, taken') /\ Doing.op.is \in {".", "->"} BY <1>2, <1>4, <2>2 DEF ItemOK
  <2>4. leaf.class = "Field" /\ leaf.children = <<>> BY DEF Node
  <2>5. node.class = "MemberExpr" /\ node.children = <<built[1], leaf>> BY DEF MemberExpr, Node
  <2> HIDE DEF node, leaf
  <2>6. RightNode(node, taken') /\ RightNode(leaf, taken') BY <2>4, <2>5, PlainNode DEF Speaking
  <2>7. Range(node.children) = {built[1], leaf} /\ Range(leaf.children) = {}
    BY <2>4, <2>5, ChildrenTwo, Children
  <2>8. 1 \in 0 .. 1 /\ 0 \in Nat /\ 1 \in Nat /\ 1 = 1 - 1 + 1 /\ 1 + 0 <= 0 + 2 /\ 1 >= 1
    OBVIOUS
  <2>9. IsList(built) /\ 1 \in 0 .. Len(built)
    <3>1. 1 <= Len(built) /\ Len(built) \in Nat BY <1>2, <1>3, <2>8, Others
    <3>2. IsList(built) BY <1>1, AtFacts
    <3> QED BY <3>1, <3>2
  <2>10. Grows(built, Replacing(built, 1, node), 1, taken')
    <3>1. \A i \in 1 .. 1 : i = 1 OBVIOUS
    <3>2. \A i \in 1 .. 1 : built[i] \in Range(node.children) BY <2>7, <3>1
    <3>3. 1 \in 1 .. 1 OBVIOUS
    <3>4. \A child \in Range(node.children) :
            \/ \E i \in 1 .. 1 : child = built[i]
            \/ /\ RightNode(child, taken')
               /\ \A other \in Range(child.children) : \E i \in 1 .. 1 : other = built[i]
      BY <2>6, <2>7, <3>3
    <3> QED BY <2>6, <2>8, <2>9, <3>2, <3>4, GrowsTree
  <2>11. HandsOn(Doing, <<>>, built') BY <1>2, <1>5, HandsNone
  <2>12. Accounts(taken', <<>>, built') BY <2>3, AccountsMember
  <2>13. Serves(<<>>, taken', 1, 0) BY ServesNone
  <2> QED BY <1>1, <1>3, <1>5, <2>1, <2>2, <2>8, <2>10, <2>11, <2>12, <2>13, BuildTake
<1>7. CASE Peek \notin kIdentity
  <2>1. Fail BY <1>7 DEF Field
  <2> QED BY <1>2, <2>1, HaltsEach
<1> QED BY <1>6, <1>7

LEMMA PostfixIncrementWords == ASSUME WInv, PostfixIncrement PROVE WInv'
<1> DEFINE node == UnaryOperator(Here, built[1])
<1>1. /\ At("Suffix") /\ Kind = {3} /\ Take(1) /\ Replace(1, node) /\ Then(<<More(3)>>)
      /\ UNCHANGED outcome
  BY DEF PostfixIncrement
<1>2. Doing.does = "Suffix" /\ Running BY <1>1 DEF At
<1>3. Counts(Doing, 1, 0) BY <1>2 DEF Counts, Uses, Gives, Weight
<1>4. "Suffix" \in Quiet /\ "Suffix" \notin Builds \union Pops BY DEF Quiet, Builds, Pops
<1>5. Took(Here) /\ Here.is = Peek BY <1>1, <1>4, HereTaken
<1>6. Here.is \notin Speech
  <2>1. 3 \in 1 .. 3 OBVIOUS
  <2> QED BY <1>1, <1>5, <2>1, KindsMute
<1>7. node.class = "UnaryOperator" /\ node.children = <<built[1]>> BY DEF UnaryOperator, Node
<1> HIDE DEF node
<1>8. RightNode(node, taken') BY <1>7, PlainNode DEF Speaking
<1>9. Range(node.children) = {built[i] : i \in 1 .. 1} BY <1>7, Children, FirstNodes
<1>10. 0 \in Nat /\ 1 \in Nat /\ 3 \in Nat /\ 0 <= 0 + 1 OBVIOUS
<1>11. Due(More(3), taken', 1, 0) BY <1>10, DueMore
<1>12. Serves(<<More(3)>>, taken', 1, 0) BY <1>10, <1>11, ServesOne
<1> QED BY <1>1, <1>3, <1>4, <1>5, <1>6, <1>8, <1>9, <1>10, <1>12, OverTake

-----------------------------------------------------------------------------
(* String literals in a row.                                               *)

LEMMA StringLiteralWords == ASSUME WInv, StringLiteral PROVE WInv'
<1> DEFINE it == Do("Strings")
           more == Do("Suffix")
           items == <<it, more>>
           node == LiteralExpr(Here)
<1>1. At("Unary") /\ Take(1) /\ Replace(0, node) /\ Then(items) /\ UNCHANGED outcome
      /\ Peek = Str_Lit
  BY DEF StringLiteral, Push, Operand
<1>2. Running /\ Doing.does = "Unary" BY <1>1 DEF At
<1>3. "Unary" \notin Builds \union Pops /\ "Unary" \notin Named \union Casts
  BY DEF Builds, Pops, Named, Casts
<1>4. Took(Here) /\ Here.is = Peek /\ Kept(Here, taken') BY <1>1, <1>3, HereTaken
<1>5. /\ Typed' /\ Longs(taken, taken') /\ Len(taken) \in Nat /\ Len(taken') \in Nat
      /\ Len(taken') >= Len(taken) + 1
  BY <1>4, TookFacts DEF WInv
<1>6. IsList(built) /\ Len(built) \in Nat /\ 0 \in 0 .. Len(built)
  <2>1. IsList(built) /\ Len(built) \in Nat BY <1>1, AtFacts
  <2> QED BY <2>1
<1>7. IsList(built') /\ Len(built') = Len(built) + 1
  <2>1. built' = Replacing(built, 0, node) BY <1>1 DEF Replace, Replacing
  <2>2. IsList(built') /\ Len(built') = Len(built) - 0 + 1 BY <1>6, <2>1, ReplacingList
  <2> QED BY <1>6, <2>2
<1>8. /\ node.class \in Speaking /\ node.class # "ExplicitCastExpr" /\ node.children = <<>>
      /\ node.at = Here.at /\ node.says = Here.is
  BY LiteralNode
<1> HIDE DEF node
<1>9. Grows(built, built', 0, taken')
  <2>1. RightNode(node, taken') BY <1>4, <1>8, WordNode
  <2>2. Grows(built, Replacing(built, 0, node), 0, taken') BY <1>6, <1>8, <2>1, GrowsLeaf
  <2> QED BY <1>1, <2>2 DEF Replace, Replacing
<1>10. HandsOn(Doing, items, built') /\ Accounts(taken', items, built')
  BY <1>1, <1>2, <1>3, <1>4, <1>6, <1>8, HandsNone, AccountsTop
<1>11. Uses(Doing) = 0 /\ Gives(Doing) = 1 /\ Weight(Doing) = 0 BY <1>2 DEF Uses, Gives, Weight
<1>12. it.does = "Strings" /\ more.does = "Suffix" BY DEF Do, DoWith, Item
<1>13. Fits(items, taken', Len(built'), Len(built) + 1, 0)
  <2> DEFINE b == Len(built)
             c == Len(built')
  <2>1. b \in Nat /\ c = b + 1 /\ 1 \in Nat /\ 0 = 0 + 0 BY <1>6, <1>7
  <2>2. ItemOK(it, taken')
    BY DEF ItemOK, Do, DoWith, Item, Named, Casts, Members
  <2>3. ItemOK(more, taken')
    BY DEF ItemOK, Do, DoWith, Item, Named, Casts, Members
  <2>4. Uses(it) = 1 /\ Gives(it) = 1 /\ Weight(it) = 0 BY <1>12 DEF Uses, Gives, Weight
  <2>5. Uses(more) = 1 /\ Gives(more) = 1 /\ Weight(more) = 0 BY <1>12 DEF Uses, Gives, Weight
  <2> HIDE DEF it, more, b, c
  <2>6. Fits(<<it>>, taken', c, b + 1, 0) BY <2>1, <2>2, <2>4, FitsOne
  <2>7. Fits(<<more>>, taken', b + 1, b + 1, 0) BY <2>1, <2>3, <2>5, FitsOne
  <2>8. Fits(<<it>> \o <<more>>, taken', c, b + 1, 0 + 0) BY <2>6, <2>7, FitsConcat
  <2> QED BY <2>1, <2>8, TogetherTwo DEF b, c
<1>14. PacksReady' /\ StringsAtOnce'
  <2> DEFINE m == Len(todo)
  <2>1. todo # <<>> /\ Doing = todo[1] BY <1>2, DoingFacts
  <2>2. /\ m \in Nat /\ m >= 1 /\ DOMAIN todo = 1 .. m /\ DOMAIN todo' = 1 .. m + 1
        /\ todo'[1] = it /\ todo'[2] = more
        /\ \A i \in 2 .. m : todo'[i + 1] = todo[i]
    <3> DEFINE new == items \o Tail(todo)
    <3>1. IsList(items) /\ Len(items) = 2 /\ DOMAIN items = {1, 2} /\ items[1] = it
          /\ items[2] = more
      <4>1. Len(items) = 2 /\ DOMAIN items = {1, 2} /\ items[1] = it /\ items[2] = more OBVIOUS
      <4> QED BY <4>1, ShortLists
    <3> HIDE DEF items
    <3>2. IsList(todo) BY <1>2, DoingFacts
    <3>3. /\ Len(items) \in Nat /\ Len(todo) \in Nat /\ Len(todo) >= 1
          /\ DOMAIN items = 1 .. Len(items) /\ DOMAIN todo = 1 .. Len(todo)
          /\ Len(new) = Len(items) + Len(todo) - 1 /\ DOMAIN new = 1 .. Len(new)
          /\ \A i \in DOMAIN items : new[i] = items[i]
          /\ \A i \in 2 .. Len(todo) : new[Len(items) + i - 1] = todo[i]
      <4> HIDE DEF new, m
      <4> QED BY <2>1, <3>1, <3>2, Replaced DEF new
    <3>4. todo' = new BY <1>1 DEF Then
    <3> HIDE DEF new
    <3>5. Len(new) = m + 1 BY <3>1, <3>3
    <3>6. \A i \in 2 .. m : 2 + i - 1 = i + 1 BY <3>3
    <3>7. \A i \in 2 .. m : new[2 + i - 1] = todo[i] BY <3>1, <3>3
    <3> HIDE DEF m
    <3> QED BY <3>1, <3>3, <3>4, <3>5, <3>6, <3>7 DEF m
  <2> HIDE DEF m
  <2>3. ASSUME NEW i \in 2 .. m
        PROVE  /\ todo[i].does \notin Packed \union {"Strings"}
               /\ todo[i].does \in Packing =>
                    i >= 3 /\ todo[i - 1].does \in Packed \union {"Declarator"}
    <3>1. i \in DOMAIN todo /\ i # 1 /\ i > 1 BY <2>2
    <3>2. todo[i].does \notin Packed \union {"Strings"} BY <3>1 DEF PacksReady, StringsAtOnce, WInv
    <3>3. todo[i].does \in Packing => todo[i - 1].does \in Packed \union {"Declarator"}
      BY <3>1 DEF PacksReady, WInv
    <3>4. i = 2 => i - 1 = 1 OBVIOUS
    <3>5. "Unary" \notin Packed \union {"Declarator"} BY DEF Packed
    <3> QED BY <1>2, <2>1, <3>2, <3>3, <3>4, <3>5
  <2>4. "Strings" \notin Packed \union Packing
        /\ "Suffix" \notin Packed \union Packing \union {"Strings"}
    BY DEF Packed, Packing
  <2>5. ASSUME NEW j \in DOMAIN todo'
        PROVE  /\ todo'[j].does \notin Packed
               /\ todo'[j].does = "Strings" => j = 1
               /\ todo'[j].does \in Packing => todo'[j - 1].does \in Packed \union {"Declarator"}
    <3>1. CASE j = 1 \/ j = 2 BY <1>12, <2>2, <2>4, <3>1
    <3>2. CASE j # 1 /\ j # 2
      <4> DEFINE i == j - 1
      <4>1. i \in 2 .. m /\ j = i + 1 /\ (i >= 3 => i - 1 \in 2 .. m /\ j - 1 = i - 1 + 1)
        BY <2>2, <3>2
      <4> HIDE DEF i
      <4>2. todo'[j] = todo[i] BY <2>2, <4>1
      <4>3. i >= 3 => todo'[j - 1] = todo[i - 1] BY <2>2, <4>1
      <4> QED BY <2>3, <4>1, <4>2, <4>3
    <3> QED BY <3>1, <3>2
  <2>6. todo'[1].does \notin Packed \union Packing BY <1>12, <2>2, <2>4
  <2>7. PacksReady' BY <2>5, <2>6 DEF PacksReady
  <2>8. taken' # <<>> /\ taken'[Len(taken')] = Str_Lit
    <3>1. Len(taken') # 0 BY <1>5
    <3>2. taken'[Len(taken')] = Str_Lit BY <1>1, <1>4, Zenon DEF Took
    <3> QED BY <3>1, <3>2
  <2>9. StringsAtOnce' BY <2>5, <2>8 DEF StringsAtOnce
  <2> QED BY <2>7, <2>9
<1> HIDE DEF items
<1>15. Len(built) - Uses(Doing) + Gives(Doing) = Len(built) + 1 BY <1>6, <1>11
<1>16. 0 \in Nat /\ 0 + 0 <= Weight(Doing) + 2 * (Len(taken') - Len(taken)) BY <1>5, <1>11
<1> QED BY <1>1, <1>2, <1>5, <1>7, <1>9, <1>10, <1>13, <1>14, <1>15, <1>16, Moves

\* A token is taken, and the same is done again.
LEMMA SameTake ==
  ASSUME WInv, Running, NEW t, Took(t), UNCHANGED <<todo, built, outcome>>,
         Doing.does \notin Named \union Casts, Len(taken') \notin WordsOf(taken'), StringsAtOnce'
  PROVE  WInv'
<1> DEFINE items == <<Doing>>
<1>1. /\ todo # <<>> /\ IsList(todo) /\ IsList(built) /\ Len(built) \in Nat
      /\ ItemOK(Doing, taken) /\ Uses(Doing) \in 0 .. Len(built)
  BY DoingFacts
<1>2. Then(items) BY <1>1, SameAgain
<1>3. /\ Typed' /\ Longs(taken, taken') /\ Len(taken) \in Nat /\ Len(taken') \in Nat
      /\ Len(taken') >= Len(taken) + 1
  BY TookFacts DEF WInv
<1>4. ItemOK(Doing, taken') BY <1>1, <1>3, StillKept
<1>5. Fits(items, taken', Len(built'), Len(built) - Uses(Doing) + Gives(Doing), Weight(Doing))
  <2> DEFINE u == Uses(Doing)
             r == Len(built) - u
             a == Len(built)
  <2>1. u \in Nat /\ r \in Nat /\ a = r + u BY <1>1
  <2>2. Uses(Doing) = u OBVIOUS
  <2> HIDE DEF u, r, a
  <2>3. Fits(items, taken', a, r + Gives(Doing), Weight(Doing)) BY <1>4, <2>1, <2>2, FitsOne
  <2> QED BY <2>3 DEF a, r, u
<1>6. Grows(built, built', 0, taken') BY GrowsSame
<1>7. HandsOn(Doing, items, built') BY DEF HandsOn
<1>8. Accounts(taken', items, built') BY DEF Accounts
<1>9. PacksReady' BY DEF WInv, PacksReady
<1>10. Weight(Doing) \in Nat /\ 0 \in Nat
       /\ 0 + Weight(Doing) <= Weight(Doing) + 2 * (Len(taken') - Len(taken))
  <2>1. Weight(Doing) \in {0, 1, 2} BY SmallNumbers
  <2> QED BY <1>3, <2>1
<1> HIDE DEF items
<1>11. IsList(built') /\ outcome' = outcome BY <1>1
<1> QED BY <1>2, <1>3, <1>5, <1>6, <1>7, <1>8, <1>9, <1>10, <1>11, Moves

LEMMA MoreStringsWords == ASSUME WInv, MoreStrings PROVE WInv'
<1>1. At("Strings") /\ Silent BY DEF MoreStrings
<1>2. Doing.does = "Strings" /\ Running BY <1>1 DEF At
<1>3. Counts(Doing, 1, 0) BY <1>2 DEF Counts, Uses, Gives, Weight
<1>4. /\ "Strings" \in Quiet /\ "Strings" \notin Builds \union Pops
      /\ "Strings" \notin Named \union Casts
  BY DEF Quiet, Builds, Pops, Named, Casts
<1>5. CASE Peek = Str_Lit
  <2>1. Take(1) /\ UNCHANGED <<todo, built, outcome>> BY <1>1, <1>5 DEF MoreStrings, Silent
  <2>2. Took(Here) /\ Here.is = Peek BY <1>1, <1>4, <2>1, HereTaken
  <2>3. Typed /\ Len(tokens) >= 1 BY <1>1, <1>4, ReadsOne, AtFacts
  <2>4. Len(taken) \in Nat /\ Len(taken') = Len(taken) + 1 /\ taken'[Len(taken)] = taken[Len(taken)]
        /\ taken'[Len(taken')] = Str_Lit /\ Len(taken) >= 1
    <3>1. taken \in Seq(Spellings) /\ tokens \in Seq(Spellings) /\ 1 \in 1 .. Len(tokens)
      BY <2>3 DEF Typed
    <3>2. taken' = taken \o SubSeq(tokens, 1, 1) BY <2>1 DEF Take, Shift
    <3>3. Len(taken') = Len(taken) + 1 /\ \A i \in DOMAIN taken : taken'[i] = taken[i]
      BY <3>1, <3>2, Longer
    <3>4. Len(taken) \in Nat /\ DOMAIN taken = 1 .. Len(taken) BY <3>1
    <3>5. taken # <<>>
      <4>1. 1 \in DOMAIN todo /\ todo[1].does = "Strings"
        <5>1. todo \in Seq(Range(todo)) /\ todo # <<>> /\ Doing = todo[1]
          BY <1>2, DoingFacts DEF IsList
        <5>2. Len(todo) \in Nat /\ Len(todo) # 0 /\ DOMAIN todo = 1 .. Len(todo)
          BY <5>1, EmptyList, LenProperties
        <5> QED BY <1>2, <5>1, <5>2
      <4> QED BY <4>1 DEF WInv, StringsAtOnce
    <3>6. Len(taken) # 0 BY <3>1, <3>5, EmptyList
    <3>7. Len(taken) \in DOMAIN taken BY <3>4, <3>6
    <3>8. taken'[Len(taken')] = Str_Lit BY <1>5, <2>2, Zenon DEF Took
    <3> QED BY <3>3, <3>4, <3>6, <3>7, <3>8
  <2>5. 1 \in DOMAIN todo /\ todo[1].does = "Strings" /\ todo' = todo
    <3>1. todo \in Seq(Range(todo)) /\ todo # <<>> /\ Doing = todo[1] BY <1>2, DoingFacts DEF IsList
    <3>2. Len(todo) \in Nat /\ Len(todo) # 0 /\ DOMAIN todo = 1 .. Len(todo)
      BY <3>1, EmptyList, LenProperties
    <3> QED BY <1>2, <2>1, <3>1, <3>2
  <2>6. StringsAtOnce
    BY DEF WInv
  <2>7. taken' # <<>>
    <3>1. Len(taken') # 0 BY <2>4
    <3> QED BY <3>1
  <2>8. StringsAtOnce' BY <2>4, <2>5, <2>6, <2>7, Zenon DEF StringsAtOnce
  <2>9. Len(taken') \notin WordsOf(taken')
    <3>1. taken[Len(taken)] = Str_Lit BY <2>5, <2>6, Zenon DEF StringsAtOnce
    <3>2. Len(taken') > 1 /\ Len(taken') - 1 = Len(taken) BY <2>4
    <3>3. taken'[Len(taken') - 1] = Str_Lit BY <2>4, <3>1, <3>2, Zenon
    <3> QED BY <2>4, <3>2, <3>3, Zenon DEF WordsOf
  <2> QED BY <1>2, <1>4, <2>1, <2>2, <2>8, <2>9, SameTake
<1>6. CASE Peek # Str_Lit
  <2>1. Then(<<>>) /\ Staying BY <1>6 DEF MoreStrings, Return, Staying
  <2>2. Serves(<<>>, taken, 1, 0) /\ 0 \in Nat /\ 1 \in Nat /\ 0 <= 0 BY ServesNone
  <2> QED BY <1>1, <1>3, <1>4, <2>1, <2>2, QuietStay
<1> QED BY <1>5, <1>6, Zenon

-----------------------------------------------------------------------------
(* The steps of statements.  A condition leaves no node: its parser is     *)
(* never there.                                                            *)

LEMMA ServesCondition ==
  ASSUME NEW s, NEW ts, NEW v \in Nat, NEW w \in Nat, Serves(s, ts, v, w)
  PROVE  Serves(<<Do("Condition")>> \o s, ts, v, w)
<1> DEFINE it == Do("Condition")
           one == <<it>>
<1>1. it.does = "Condition" BY DEF Item, Do, DoWith
<1>2. ItemOK(it, ts) BY DEF ItemOK, Item, Do, DoWith, Named, Casts, Members
<1>3. Uses(it) = 0 /\ Gives(it) = 0 /\ Weight(it) = 0 BY <1>1 DEF Uses, Gives, Weight
<1>4. it.does \notin Packed \union Packing \union {"Strings"} BY <1>1 DEF Packed, Packing
<1>5. DOMAIN one = {1} /\ one[1] = it OBVIOUS
<1> HIDE DEF it
<1>6. ASSUME NEW a \in Nat PROVE Goes(one, ts, a, a, 0)
  <2>1. a = a + 0 /\ 0 \in Nat /\ a + 0 = a OBVIOUS
  <2>2. Fits(<<it>>, ts, a, a + Gives(it), Weight(it)) BY <1>2, <1>3, <2>1, FitsOne
  <2>3. Fits(one, ts, a, a, 0) BY <1>3, <2>1, <2>2
  <2>4. InPlace(one) BY <1>4, <1>5 DEF InPlace
  <2> QED BY <2>3, <2>4 DEF Goes
<1> HIDE DEF one
<1>7. ASSUME NEW a \in Nat, NEW b \in Nat, b >= 1, a = b - 1 + v PROVE Goes(one \o s, ts, a, b, w)
  <2>1. Goes(s, ts, a, b, w) BY <1>7 DEF Serves
  <2>2. w = 0 + w OBVIOUS
  <2> QED BY <1>6, <2>1, <2>2, GoesConcat
<1>8. Serves(one \o s, ts, v, w) BY <1>7 DEF Serves
<1> QED BY <1>8 DEF one, it

LEMMA ConditionThen ==
  ASSUME NEW ts, NEW d, NEW v \in Nat, Due(Do(d), ts, v, 0)
  PROVE  Serves(<<Do("Condition"), Do(d)>>, ts, v, 0)
<1> DEFINE it == Do(d)
           condition == Do("Condition")
<1> HIDE DEF it
<1>1. 0 \in Nat /\ Due(it, ts, v, 0) BY DEF it
<1>2. Serves(<<it>>, ts, v, 0) BY <1>1, ServesOne
<1>3. Serves(<<condition>> \o <<it>>, ts, v, 0) BY <1>1, <1>2, ServesCondition
<1> HIDE DEF condition
<1>4. <<condition>> \o <<it>> = <<condition, it>> BY TogetherTwo
<1> QED BY <1>3, <1>4 DEF condition, it

LEMMA ConditionAndBody ==
  ASSUME NEW ts PROVE Serves(<<Do("Condition"), Do("Body"), Do("Exit loop")>>, ts, 0, 0)
<1> DEFINE body == Do("Body")
           exit == Do("Exit loop")
           condition == Do("Condition")
<1>1. Due(body, ts, 0, 0) /\ Due(exit, ts, 1, 0) BY DueDo, DueDoOne
<1>2. 0 \in Nat /\ 1 \in Nat /\ 1 >= 1 /\ 0 = 1 - 1 OBVIOUS
<1> HIDE DEF body, exit
<1>3. Serves(<<body, exit>>, ts, 0, 0) BY <1>1, <1>2, ServesPair
<1>4. Serves(<<condition>> \o <<body, exit>>, ts, 0, 0) BY <1>2, <1>3, ServesCondition
<1> HIDE DEF condition
<1>5. <<condition>> \o <<body, exit>> = <<condition, body, exit>> BY TogetherThree
<1> QED BY <1>4, <1>5 DEF condition, body, exit

LEMMA ParseEmptyWords == ASSUME WInv, ParseEmpty PROVE WInv'
<1> DEFINE node == EmptyStmt
<1>1. At("Statement") /\ Push(node) /\ Return /\ UNCHANGED outcome /\ Staying
  BY DEF ParseEmpty, Staying
<1>2. Doing.does = "Statement" BY <1>1 DEF At
<1>3. Counts(Doing, 0, 0) BY <1>2 DEF Counts, Uses, Gives, Weight
<1>4. node.class \in {"EmptyStmt"} /\ node.children = <<>>
  BY DEF EmptyStmt, BreakStmt, ContinueStmt, Node
<1> HIDE DEF node
<1>5. node.class \notin Speaking /\ node.class # "ExplicitCastExpr" BY <1>4 DEF Speaking
<1>6. "Statement" \in Quiet /\ 0 \in Nat BY DEF Quiet
<1> QED BY <1>1, <1>3, <1>4, <1>5, <1>6, LeafStay

LEMMA ParseStructWords == ASSUME WInv, ParseStruct PROVE WInv'
<1>1. At("Statement") BY DEF ParseStruct
<1>2. Doing.does = "Statement" /\ Running BY <1>1 DEF At
<1>3. Counts(Doing, 0, 0) BY <1>2 DEF Counts, Uses, Gives, Weight
<1>4. "Statement" \in Quiet /\ "Statement" \notin Builds \union Pops
  BY DEF Quiet, Builds, Pops
<1>5. CASE Peek3 = "{"
  <2>1. NoParser BY <1>2, <1>5 DEF ParseStruct
  <2> QED BY <1>2, <2>1, HaltsEach
<1>6. CASE Peek3 # "{"
  <2>1. Silent /\ Staying
        /\ Then(Expr(Comma))
    BY <1>2, <1>6 DEF ParseStruct, Staying
  <2>2. Doing.op = NoToken \/ Kept(Doing.op, taken) BY <1>1, AtFacts DEF ItemOK
  <2>4. Serves(Expr(Comma), taken, 0, 0)
    <3>0. 0 \in Nat /\ 1 \in Nat /\ 2 \in Nat /\ 3 \in Nat /\ 1 >= 1 /\ 2 >= 1 /\ 3 >= 1 OBVIOUS
    <3>1. Comma \in 1 .. 13 BY DEF Comma
    <3> QED BY <3>0, <3>1, ServesExpr
  <2>5. 0 \in Nat /\ 1 \in Nat /\ 2 \in Nat /\ 3 \in Nat /\ 0 <= 0 OBVIOUS
  <2> QED BY <1>1, <1>3, <1>4, <2>1, <2>4, <2>5, QuietStay
<1> QED BY <1>5, <1>6

LEMMA ParseReturnWords == ASSUME WInv, ParseReturn PROVE WInv'
<1>1. At("Statement") BY DEF ParseReturn
<1>2. Doing.does = "Statement" /\ Running BY <1>1 DEF At
<1>3. Counts(Doing, 0, 0) BY <1>2 DEF Counts, Uses, Gives, Weight
<1>4. "Statement" \in Quiet /\ "Statement" \notin Builds \union Pops
  BY DEF Quiet, Builds, Pops
<1>5. CASE Peek = "return"
  <2>1. Take(1) /\ Silent
        /\ Then(<<DoWith("Return value", Here)>>)
    BY <1>2, <1>5 DEF ParseReturn
  <2>2. /\ Took(Here) /\ Kept(Here, taken') /\ Here.is = Peek
        /\ ItemOK(Doing, taken') /\ (Doing.op = NoToken \/ Kept(Doing.op, taken'))
    BY <1>1, <1>4, <2>1, HereTaken DEF ItemOK
  <2>3. Here.is \notin Speech BY <1>5, <2>2, Mute DEF Marks
  <2>4. Serves(<<DoWith("Return value", Here)>>, taken', 0, 1)
    <3>0. 0 \in Nat /\ 1 \in Nat /\ 2 \in Nat /\ 3 \in Nat /\ 1 >= 1 /\ 2 >= 1 /\ 3 >= 1 OBVIOUS
    <3>1. Due(DoWith("Return value", Here), taken', 0, 1)
      BY <2>2, DueWithHeavy DEF Named, Casts
    <3> QED BY <3>0, <3>1, ServesOne
  <2>5. 0 \in Nat /\ 1 \in Nat /\ 2 \in Nat /\ 3 \in Nat /\ 1 <= 0 + 2 OBVIOUS
  <2> QED BY <1>1, <1>3, <1>4, <2>1, <2>2, <2>3, <2>4, <2>5, QuietTake
<1> QED BY <1>5 DEF ParseReturn

LEMMA ReturnValueWords == ASSUME WInv, ReturnValue PROVE WInv'
<1>1. At("Return value") /\ UNCHANGED outcome /\ Staying BY DEF ReturnValue, Staying
<1>2. Doing.does = "Return value" /\ Running BY <1>1 DEF At
<1>3. Counts(Doing, 0, 1) BY <1>2 DEF Counts, Uses, Gives, Weight
<1>4. "Return value" \in Quiet BY DEF Quiet
<1>5. CASE Peek = ";"
  <2> DEFINE node == ReturnStmt(Doing.op, EmptyExpr)
             leaf == EmptyExpr
  <2>1. Replace(0, node) /\ Then(<<>>) BY <1>5 DEF ReturnValue, Push, Return
  <2>2. node.class = "ReturnStmt" /\ node.children = <<leaf>> BY DEF ReturnStmt, Node
  <2>3. leaf.class = "EmptyExpr" /\ leaf.children = <<>> BY DEF EmptyExpr, Node
  <2> HIDE DEF node, leaf
  <2>4. RightNode(node, taken) /\ RightNode(leaf, taken) BY <2>2, <2>3, PlainNode DEF Speaking
  <2>5. Range(node.children) = {leaf} /\ Range(leaf.children) = {} BY <2>2, <2>3, Children
  <2>6. IsList(built) /\ 0 \in 0 .. Len(built)
    <3>1. IsList(built) /\ Len(built) \in Nat BY <1>1, AtFacts
    <3> QED BY <3>1
  <2>7. 0 \in Nat /\ 1 \in Nat /\ 0 \in 0 .. 0 /\ 1 = 0 - 0 + 1 /\ 0 + 0 <= 1 /\ 1 .. 0 = {}
    OBVIOUS
  <2>8. Grows(built, Replacing(built, 0, node), 0, taken) BY <2>4, <2>5, <2>6, <2>7, GrowsTree
  <2>9. "Return value" \notin Packed \union {"Declarator"} BY <1>4, QuietFacts
  <2>10. HandsOn(Doing, <<>>, built') BY <1>2, <1>4, QuietFacts, HandsNone
  <2>11. Serves(<<>>, taken, 1, 0) BY ServesNone
  <2> QED BY <1>1, <1>3, <2>1, <2>7, <2>8, <2>9, <2>10, <2>11, BuildStay
<1>6. CASE Peek # ";"
  <2> DEFINE it == DoWith("Return", Doing.op)
             items == Expr(Comma) \o <<it>>
  <2>1. Then(items) /\ Silent BY <1>1, <1>6 DEF ReturnValue, Silent
  <2>2. Doing.op = NoToken \/ Kept(Doing.op, taken) BY <1>1, AtFacts DEF ItemOK
  <2>3. 0 \in Nat /\ 1 \in Nat /\ 1 >= 1 /\ 0 = 1 - 1 /\ 1 <= 1 OBVIOUS
  <2>4. Due(it, taken, 1, 1) BY <2>2, DueWithOne DEF Named, Casts
  <2>5. Comma \in 1 .. 13 BY DEF Comma
  <2> HIDE DEF it
  <2>6. Serves(items, taken, 0, 1) BY <2>3, <2>4, <2>5, ServesExprThen
  <2> HIDE DEF items
  <2> QED BY <1>1, <1>3, <1>4, <2>1, <2>3, <2>6, QuietStay
<1> QED BY <1>5, <1>6

LEMMA BuildReturnWords == ASSUME WInv, BuildReturn PROVE WInv'
<1> DEFINE node == ReturnStmt(Doing.op, built[1])
<1>1. At("Return") BY DEF BuildReturn
<1>2. Doing.does = "Return" /\ Running BY <1>1 DEF At
<1>3. Counts(Doing, 1, 1) BY <1>2 DEF Counts, Uses, Gives, Weight
<1>4. "Return" \in Quiet BY DEF Quiet
<1>5. Replace(1, node) /\ Return /\ UNCHANGED outcome /\ Staying BY DEF BuildReturn, Staying
<1>6. node.class = "ReturnStmt" /\ node.children = <<built[1]>> BY DEF ReturnStmt, Node
<1> HIDE DEF node
<1>7. RightNode(node, taken) BY <1>6, PlainNode DEF Speaking
<1>8. Range(node.children) = {built[i] : i \in 1 .. 1} BY <1>6, FirstNodes, Children
<1>9. 0 \in Nat /\ 1 \in Nat /\ 2 \in Nat /\ 3 \in Nat /\ 1 >= 1 OBVIOUS
<1> QED BY <1>1, <1>3, <1>4, <1>5, <1>7, <1>8, <1>9, OverStay

LEMMA ParseJumpWords == ASSUME WInv, ParseJump PROVE WInv'
<1>1. At("Statement") BY DEF ParseJump
<1>2. Doing.does = "Statement" /\ Running BY <1>1 DEF At
<1>0. Peek \in {"break", "continue"} BY DEF ParseJump
<1>3. Counts(Doing, 0, 0) BY <1>2 DEF Counts, Uses, Gives, Weight
<1>4. "Statement" \in Quiet /\ "Statement" \notin Builds \union Pops
  BY DEF Quiet, Builds, Pops
<1>5. CASE inside_loop
  <2>1. Take(1) /\ Silent
        /\ Then(<<DoWith("Jump", Here)>>)
    BY <1>2, <1>5 DEF ParseJump
  <2>2. /\ Took(Here) /\ Kept(Here, taken') /\ Here.is = Peek
        /\ ItemOK(Doing, taken') /\ (Doing.op = NoToken \/ Kept(Doing.op, taken'))
    BY <1>1, <1>4, <2>1, HereTaken DEF ItemOK
  <2>3. Here.is \notin Speech BY <2>2, <1>0, Mute DEF Marks
  <2>4. Serves(<<DoWith("Jump", Here)>>, taken', 0, 0)
    <3>0. 0 \in Nat /\ 1 \in Nat /\ 2 \in Nat /\ 3 \in Nat /\ 1 >= 1 /\ 2 >= 1 /\ 3 >= 1 OBVIOUS
    <3>1. Due(DoWith("Jump", Here), taken', 0, 0) BY <2>2, DueWith DEF Named, Casts
    <3> QED BY <3>0, <3>1, ServesOne
  <2>5. 0 \in Nat /\ 1 \in Nat /\ 2 \in Nat /\ 3 \in Nat /\ 0 <= 0 + 2 OBVIOUS
  <2> QED BY <1>1, <1>3, <1>4, <2>1, <2>2, <2>3, <2>4, <2>5, QuietTake
<1>6. CASE ~inside_loop
  <2>1. Fail BY <1>2, <1>6 DEF ParseJump
  <2> QED BY <1>2, <2>1, HaltsEach
<1> QED BY <1>5, <1>6

LEMMA BuildJumpWords == ASSUME WInv, BuildJump PROVE WInv'
<1> DEFINE node == IF Doing.op.is = "break" THEN BreakStmt(Here.at) ELSE ContinueStmt(Here.at)
<1>1. At("Jump") /\ Push(node) /\ Return /\ UNCHANGED outcome /\ Staying BY DEF BuildJump, Staying
<1>2. Doing.does = "Jump" BY <1>1 DEF At
<1>3. Counts(Doing, 0, 0) BY <1>2 DEF Counts, Uses, Gives, Weight
<1>4. node.class \in {"BreakStmt", "ContinueStmt"} /\ node.children = <<>>
  BY DEF EmptyStmt, BreakStmt, ContinueStmt, Node
<1> HIDE DEF node
<1>5. node.class \notin Speaking /\ node.class # "ExplicitCastExpr" BY <1>4 DEF Speaking
<1>6. "Jump" \in Quiet /\ 0 \in Nat BY DEF Quiet
<1> QED BY <1>1, <1>3, <1>4, <1>5, <1>6, LeafStay

LEMMA ParseVariableWords == ASSUME WInv, ParseVariable PROVE WInv'
<1>1. Running /\ (Fail \/ Fatal \/ NoParser) BY DEF ParseVariable, At
<1> QED BY <1>1, HaltsEach

LEMMA ParseExprStmtWords == ASSUME WInv, ParseExprStmt PROVE WInv'
<1>1. At("Statement") BY DEF ParseExprStmt
<1>2. Doing.does = "Statement" /\ Running BY <1>1 DEF At
<1>3. Counts(Doing, 0, 0) BY <1>2 DEF Counts, Uses, Gives, Weight
<1>4. "Statement" \in Quiet /\ "Statement" \notin Builds \union Pops
  BY DEF Quiet, Builds, Pops
<1>5. CASE TRUE
  <2>1. Silent /\ Staying
        /\ Then(Expr(Comma))
    BY <1>2, <1>5 DEF ParseExprStmt, Staying
  <2>2. Doing.op = NoToken \/ Kept(Doing.op, taken) BY <1>1, AtFacts DEF ItemOK
  <2>4. Serves(Expr(Comma), taken, 0, 0)
    <3>0. 0 \in Nat /\ 1 \in Nat /\ 2 \in Nat /\ 3 \in Nat /\ 1 >= 1 /\ 2 >= 1 /\ 3 >= 1 OBVIOUS
    <3>1. Comma \in 1 .. 13 BY DEF Comma
    <3> QED BY <3>0, <3>1, ServesExpr
  <2>5. 0 \in Nat /\ 1 \in Nat /\ 2 \in Nat /\ 3 \in Nat /\ 0 <= 0 OBVIOUS
  <2> QED BY <1>1, <1>3, <1>4, <2>1, <2>4, <2>5, QuietStay
<1> QED BY <1>5

LEMMA IfWords == ASSUME WInv, If PROVE WInv'
<1>1. At("Statement") BY DEF If
<1>2. Doing.does = "Statement" /\ Running BY <1>1 DEF At
<1>3. Counts(Doing, 0, 0) BY <1>2 DEF Counts, Uses, Gives, Weight
<1>4. "Statement" \in Quiet /\ "Statement" \notin Builds \union Pops
  BY DEF Quiet, Builds, Pops
<1>5. CASE Peek = "if"
  <2>1. Take(1) /\ Silent
        /\ Then(<<Do("Condition"), Do("Body")>>)
    BY <1>2, <1>5 DEF If
  <2>2. /\ Took(Here) /\ Kept(Here, taken') /\ Here.is = Peek
        /\ ItemOK(Doing, taken') /\ (Doing.op = NoToken \/ Kept(Doing.op, taken'))
    BY <1>1, <1>4, <2>1, HereTaken DEF ItemOK
  <2>3. Here.is \notin Speech BY <1>5, <2>2, Mute DEF Marks
  <2>4. Serves(<<Do("Condition"), Do("Body")>>, taken', 0, 0)
    <3>0. 0 \in Nat /\ 1 \in Nat /\ 2 \in Nat /\ 3 \in Nat /\ 1 >= 1 /\ 2 >= 1 /\ 3 >= 1 OBVIOUS
    <3>1. Due(Do("Body"), taken', 0, 0) BY DueDo
    <3> QED BY <3>0, <3>1, ConditionThen
  <2>5. 0 \in Nat /\ 1 \in Nat /\ 2 \in Nat /\ 3 \in Nat /\ 0 <= 0 + 2 OBVIOUS
  <2> QED BY <1>1, <1>3, <1>4, <2>1, <2>2, <2>3, <2>4, <2>5, QuietTake
<1> QED BY <1>5 DEF If

LEMMA ParseDoWords == ASSUME WInv, ParseDo PROVE WInv'
<1>1. At("Statement") BY DEF ParseDo
<1>2. Doing.does = "Statement" /\ Running BY <1>1 DEF At
<1>3. Counts(Doing, 0, 0) BY <1>2 DEF Counts, Uses, Gives, Weight
<1>4. "Statement" \in Quiet /\ "Statement" \notin Builds \union Pops
  BY DEF Quiet, Builds, Pops
<1>5. CASE Peek = "do"
  <2>1. Take(1) /\ Silent
        /\ Then(<<Do("Body"), Do("Do while")>>)
    BY <1>2, <1>5 DEF ParseDo
  <2>2. /\ Took(Here) /\ Kept(Here, taken') /\ Here.is = Peek
        /\ ItemOK(Doing, taken') /\ (Doing.op = NoToken \/ Kept(Doing.op, taken'))
    BY <1>1, <1>4, <2>1, HereTaken DEF ItemOK
  <2>3. Here.is \notin Speech BY <1>5, <2>2, Mute DEF Marks
  <2>4. Serves(<<Do("Body"), Do("Do while")>>, taken', 0, 0)
    <3>0. 0 \in Nat /\ 1 \in Nat /\ 2 \in Nat /\ 3 \in Nat /\ 1 >= 1 /\ 2 >= 1 /\ 3 >= 1 OBVIOUS
    <3>1. Due(Do("Body"), taken', 0, 0) BY DueDo
    <3>2. Due(Do("Do while"), taken', 1, 0) BY DueDoOne
    <3>3. 0 = 1 - 1 OBVIOUS
    <3> QED BY <3>0, <3>1, <3>2, <3>3, ServesPair
  <2>5. 0 \in Nat /\ 1 \in Nat /\ 2 \in Nat /\ 3 \in Nat /\ 0 <= 0 + 2 OBVIOUS
  <2> QED BY <1>1, <1>3, <1>4, <2>1, <2>2, <2>3, <2>4, <2>5, QuietTake
<1> QED BY <1>5 DEF ParseDo

LEMMA DoWhileWords == ASSUME WInv, DoWhile PROVE WInv'
<1>1. At("Do while") BY DEF DoWhile
<1>2. Doing.does = "Do while" /\ Running BY <1>1 DEF At
<1>3. Counts(Doing, 1, 0) BY <1>2 DEF Counts, Uses, Gives, Weight
<1>4. "Do while" \in Quiet /\ "Do while" \notin Builds \union Pops
  BY DEF Quiet, Builds, Pops
<1>5. CASE Peek = "while"
  <2>1. Take(1) /\ Silent
        /\ Then(<<Do("Condition"), Do("Exit loop")>>)
    BY <1>2, <1>5 DEF DoWhile, Expect
  <2>2. /\ Took(Here) /\ Kept(Here, taken') /\ Here.is = Peek
        /\ ItemOK(Doing, taken') /\ (Doing.op = NoToken \/ Kept(Doing.op, taken'))
    BY <1>1, <1>4, <2>1, HereTaken DEF ItemOK
  <2>3. Here.is \notin Speech BY <1>5, <2>2, Mute DEF Marks
  <2>4. Serves(<<Do("Condition"), Do("Exit loop")>>, taken', 1, 0)
    <3>0. 0 \in Nat /\ 1 \in Nat /\ 2 \in Nat /\ 3 \in Nat /\ 1 >= 1 /\ 2 >= 1 /\ 3 >= 1 OBVIOUS
    <3>1. Due(Do("Exit loop"), taken', 1, 0) BY DueDoOne
    <3> QED BY <3>0, <3>1, ConditionThen
  <2>5. 0 \in Nat /\ 1 \in Nat /\ 2 \in Nat /\ 3 \in Nat /\ 0 <= 0 + 2 OBVIOUS
  <2> QED BY <1>1, <1>3, <1>4, <2>1, <2>2, <2>3, <2>4, <2>5, QuietTake
<1>6. CASE Peek # "while"
  <2>1. Fail BY <1>2, <1>6 DEF DoWhile, Expect
  <2> QED BY <1>2, <2>1, HaltsEach
<1> QED BY <1>5, <1>6

LEMMA WhileWords == ASSUME WInv, While PROVE WInv'
<1>1. At("Statement") BY DEF While
<1>2. Doing.does = "Statement" /\ Running BY <1>1 DEF At
<1>3. Counts(Doing, 0, 0) BY <1>2 DEF Counts, Uses, Gives, Weight
<1>4. "Statement" \in Quiet /\ "Statement" \notin Builds \union Pops
  BY DEF Quiet, Builds, Pops
<1>5. CASE Peek = "while"
  <2>1. Take(1) /\ Silent
        /\ Then(<<Do("Condition"), Do("Body"), Do("Exit loop")>>)
    BY <1>2, <1>5 DEF While
  <2>2. /\ Took(Here) /\ Kept(Here, taken') /\ Here.is = Peek
        /\ ItemOK(Doing, taken') /\ (Doing.op = NoToken \/ Kept(Doing.op, taken'))
    BY <1>1, <1>4, <2>1, HereTaken DEF ItemOK
  <2>3. Here.is \notin Speech BY <1>5, <2>2, Mute DEF Marks
  <2>4. Serves(<<Do("Condition"), Do("Body"), Do("Exit loop")>>, taken', 0, 0)
    <3>0. 0 \in Nat /\ 1 \in Nat /\ 2 \in Nat /\ 3 \in Nat /\ 1 >= 1 /\ 2 >= 1 /\ 3 >= 1 OBVIOUS
    <3> QED BY <3>0, ConditionAndBody
  <2>5. 0 \in Nat /\ 1 \in Nat /\ 2 \in Nat /\ 3 \in Nat /\ 0 <= 0 + 2 OBVIOUS
  <2> QED BY <1>1, <1>3, <1>4, <2>1, <2>2, <2>3, <2>4, <2>5, QuietTake
<1> QED BY <1>5 DEF While

LEMMA ForWords == ASSUME WInv, For PROVE WInv'
<1>1. At("Statement") BY DEF For
<1>2. Doing.does = "Statement" /\ Running BY <1>1 DEF At
<1>3. Counts(Doing, 0, 0) BY <1>2 DEF Counts, Uses, Gives, Weight
<1>4. "Statement" \in Quiet /\ "Statement" \notin Builds \union Pops
  BY DEF Quiet, Builds, Pops
<1>5. CASE Peek = "for"
  <2>1. Take(1) /\ Silent
        /\ Then(<<Do("For")>>)
    BY <1>2, <1>5 DEF For
  <2>2. /\ Took(Here) /\ Kept(Here, taken') /\ Here.is = Peek
        /\ ItemOK(Doing, taken') /\ (Doing.op = NoToken \/ Kept(Doing.op, taken'))
    BY <1>1, <1>4, <2>1, HereTaken DEF ItemOK
  <2>3. Here.is \notin Speech BY <1>5, <2>2, Mute DEF Marks
  <2>4. Serves(<<Do("For")>>, taken', 0, 0)
    <3>0. 0 \in Nat /\ 1 \in Nat /\ 2 \in Nat /\ 3 \in Nat /\ 1 >= 1 /\ 2 >= 1 /\ 3 >= 1 OBVIOUS
    <3>1. Due(Do("For"), taken', 0, 0) BY DueDo
    <3> QED BY <3>0, <3>1, ServesOne
  <2>5. 0 \in Nat /\ 1 \in Nat /\ 2 \in Nat /\ 3 \in Nat /\ 0 <= 0 + 2 OBVIOUS
  <2> QED BY <1>1, <1>3, <1>4, <2>1, <2>2, <2>3, <2>4, <2>5, QuietTake
<1> QED BY <1>5 DEF For

LEMMA EnterForWords == ASSUME WInv, EnterFor PROVE WInv'
<1>1. Running /\ (Fail \/ Fatal \/ NoParser) BY DEF EnterFor, At
<1> QED BY <1>1, HaltsEach

LEMMA ParseConditionWords == ASSUME WInv, ParseCondition PROVE WInv'
<1>1. Running /\ (Fail \/ Fatal \/ NoParser) BY DEF ParseCondition, At
<1> QED BY <1>1, HaltsEach

LEMMA BodyWords == ASSUME WInv, Body PROVE WInv'
<1>1. At("Body") BY DEF Body
<1>2. Doing.does = "Body" /\ Running BY <1>1 DEF At
<1>3. Counts(Doing, 0, 0) BY <1>2 DEF Counts, Uses, Gives, Weight
<1>4. "Body" \in Quiet /\ "Body" \notin Builds \union Pops BY DEF Quiet, Builds, Pops
<1>5. CASE Peek = "{" /\ ~enter_scope_finds
  <2>1. Fatal BY <1>2, <1>5 DEF Body
  <2> QED BY <1>2, <2>1, HaltsEach
<1>6. CASE ~(Peek = "{" /\ ~enter_scope_finds)
  <2>1. Silent /\ Staying
        /\ Then(<<Do("Statement"), Do("End of body")>>)
    BY <1>2, <1>6 DEF Body, Staying
  <2>2. Doing.op = NoToken \/ Kept(Doing.op, taken) BY <1>1, AtFacts DEF ItemOK
  <2>4. Serves(<<Do("Statement"), Do("End of body")>>, taken, 0, 0)
    <3>0. 0 \in Nat /\ 1 \in Nat /\ 2 \in Nat /\ 3 \in Nat /\ 1 >= 1 /\ 2 >= 1 /\ 3 >= 1 OBVIOUS
    <3>1. Due(Do("Statement"), taken, 0, 0) BY DueDo
    <3>2. Due(Do("End of body"), taken, 1, 0) BY DueDoOne
    <3>3. 0 = 1 - 1 OBVIOUS
    <3> QED BY <3>0, <3>1, <3>2, <3>3, ServesPair
  <2>5. 0 \in Nat /\ 1 \in Nat /\ 2 \in Nat /\ 3 \in Nat /\ 0 <= 0 OBVIOUS
  <2> QED BY <1>1, <1>3, <1>4, <2>1, <2>4, <2>5, QuietStay
<1> QED BY <1>5, <1>6

LEMMA EndOfBodyWords == ASSUME WInv, EndOfBody PROVE WInv'
<1>1. At("End of body") BY DEF EndOfBody
<1>2. Doing.does = "End of body" /\ Running BY <1>1 DEF At
<1>3. Counts(Doing, 1, 0) BY <1>2 DEF Counts, Uses, Gives, Weight
<1>4. "End of body" \in Quiet /\ "End of body" \notin Builds \union Pops BY DEF Quiet, Builds, Pops
<1>5. CASE Peek = ";"
  <2> DEFINE node == CompoundStmt(built[1].at, <<built[1]>>)
  <2>1. Take(1) /\ Then(<<>>) /\ UNCHANGED outcome /\ Replace(1, node)
    BY <1>5 DEF EndOfBody, Return
  <2>2. Took(Here) /\ Here.is = Peek BY <1>1, <1>4, <2>1, HereTaken
  <2>3. Here.is \notin Speech BY <1>5, <2>2, Mute DEF Marks
  <2>4. node.class = "CompoundStmt" /\ node.children = <<built[1]>> BY DEF CompoundStmt, Node
  <2> HIDE DEF node
  <2>5. RightNode(node, taken') BY <2>4, PlainNode DEF Speaking
  <2>6. Range(node.children) = {built[i] : i \in 1 .. 1} BY <2>4, Children, FirstNodes
  <2>7. Serves(<<>>, taken', 1, 0) /\ 0 \in Nat /\ 1 \in Nat /\ 0 <= 0 + 1 BY ServesNone
  <2> QED BY <1>1, <1>3, <1>4, <2>1, <2>2, <2>3, <2>5, <2>6, <2>7, OverTake
<1>6. CASE Peek # ";"
  <2>1. Fail BY <1>6 DEF EndOfBody
  <2> QED BY <1>2, <2>1, HaltsEach
<1> QED BY <1>5, <1>6

LEMMA BlockWords == ASSUME WInv, Block PROVE WInv'
<1>1. At("Block") BY DEF Block
<1>2. Doing.does = "Block" /\ Running BY <1>1 DEF At
<1>3. Counts(Doing, 0, 0) BY <1>2 DEF Counts, Uses, Gives, Weight
<1>4. "Block" \in Quiet /\ "Block" \notin Builds \union Pops BY DEF Quiet, Builds, Pops
<1>5. CASE Peek = "{"
  <2>1. Take(1) /\ Silent
        /\ Then(<<Item("Statements", 0, 0, Here)>>)
    BY <1>2, <1>5 DEF Block, Expect
  <2>2. /\ Took(Here) /\ Kept(Here, taken') /\ Here.is = Peek
        /\ ItemOK(Doing, taken') /\ (Doing.op = NoToken \/ Kept(Doing.op, taken'))
    BY <1>1, <1>4, <2>1, HereTaken DEF ItemOK
  <2>3. Here.is \notin Speech BY <1>5, <2>2, Mute DEF Marks
  <2>4. Serves(<<Item("Statements", 0, 0, Here)>>, taken', 0, 0)
    <3>0. 0 \in Nat /\ 1 \in Nat /\ 2 \in Nat /\ 3 \in Nat /\ 1 >= 1 /\ 2 >= 1 /\ 3 >= 1 OBVIOUS
    <3>1. Due(Item("Statements", 0, 0, Here), taken', 0, 0)
      BY <2>2, <3>0, DueCounted DEF Named, Casts
    <3> QED BY <3>0, <3>1, ServesOne
  <2>5. 0 \in Nat /\ 1 \in Nat /\ 2 \in Nat /\ 3 \in Nat /\ 0 <= 0 + 2 OBVIOUS
  <2> QED BY <1>1, <1>3, <1>4, <2>1, <2>2, <2>3, <2>4, <2>5, QuietTake
<1>6. CASE Peek # "{"
  <2>1. Fail BY <1>2, <1>6 DEF Block, Expect
  <2> QED BY <1>2, <2>1, HaltsEach
<1> QED BY <1>5, <1>6

\* The statements of a block are counted.
LEMMA StatementsWords == ASSUME WInv, Statements PROVE WInv'
<1>1. At("Statements") /\ UNCHANGED outcome BY DEF Statements
<1>2. Doing.does = "Statements" /\ Running BY <1>1 DEF At
<1> DEFINE n == Doing.n
<1>3. n \in Nat BY <1>1, AtFacts
<1>4. Counts(Doing, n, 0) BY <1>2 DEF Counts, Uses, Gives, Weight
<1>5. "Statements" \in Quiet /\ "Statements" \notin Builds \union Pops BY DEF Quiet, Builds, Pops
<1>6. CASE Peek = "}"
  <2> DEFINE node == CompoundStmt(Doing.op.at, Newest(n))
  <2>1. Take(1) /\ Then(<<>>) /\ Replace(n, node) BY <1>6 DEF Statements, Return
  <2>2. Took(Here) /\ Here.is = Peek BY <1>1, <1>5, <2>1, HereTaken
  <2>3. Here.is \notin Speech BY <1>6, <2>2, Mute DEF Marks
  <2>4. node.class = "CompoundStmt" /\ node.children = Newest(n) BY DEF CompoundStmt, Node
  <2> HIDE DEF node, n
  <2>5. RightNode(node, taken') BY <2>4, PlainNode DEF Speaking
  <2>6. IsList(built) /\ n \in 0 .. Len(built)
    <3>1. n <= Len(built) /\ Len(built) \in Nat BY <1>2, <1>3, <1>4, Others
    <3>2. IsList(built) BY <1>1, AtFacts
    <3> QED BY <1>3, <3>1, <3>2
  <2>7. Range(node.children) = {built[i] : i \in 1 .. n} BY <2>4, <2>6, NewestNodes DEF Newest
  <2>8. Serves(<<>>, taken', 1, 0) /\ 0 \in Nat /\ 0 <= 0 + 1 BY ServesNone
  <2> QED BY <1>1, <1>3, <1>4, <1>5, <2>1, <2>2, <2>3, <2>5, <2>7, <2>8, OverTake
<1>7. CASE Peek # "}"
  <2> DEFINE it == Do("Statement")
             to == Item("Semicolon", n + 1, 0, Doing.op)
  <2>1. Then(<<it, to>>) /\ Silent /\ Staying BY <1>1, <1>7 DEF Statements, Silent, Staying
  <2>2. Doing.op = NoToken \/ Kept(Doing.op, taken) BY <1>1, AtFacts DEF ItemOK
  <2>3. n + 1 \in Nat /\ n + 1 >= 1 /\ n = n + 1 - 1 /\ 0 \in Nat /\ 0 <= 0 BY <1>3
  <2>4. Due(it, taken, 0, 0) BY DueDo
  <2> HIDE DEF n
  <2>5. Due(to, taken, n + 1, 0) BY <2>2, <2>3, DueCounted DEF Named, Casts
  <2> HIDE DEF it, to
  <2>6. Serves(<<it, to>>, taken, n, 0)
    <3> DEFINE k == n + 1
    <3>1. k \in Nat /\ k >= 1 /\ n = k - 1 BY <1>3
    <3>2. Due(to, taken, k, 0) BY <2>5
    <3> HIDE DEF k
    <3> QED BY <2>3, <2>4, <3>1, <3>2, ServesPair
  <2> QED BY <1>1, <1>3, <1>4, <1>5, <2>1, <2>3, <2>6, QuietStay
<1> QED BY <1>6, <1>7

LEMMA SemicolonWords == ASSUME WInv, Semicolon PROVE WInv'
<1>1. At("Semicolon") BY DEF Semicolon
<1>2. Doing.does = "Semicolon" /\ Running BY <1>1 DEF At
<1> DEFINE n == Doing.n
           it == Item("Statements", n, 0, Doing.op)
<1>3. n \in Nat BY <1>1, AtFacts
<1>4. Counts(Doing, n, 0) BY <1>2 DEF Counts, Uses, Gives, Weight
<1>5. "Semicolon" \in Quiet /\ "Semicolon" \notin Builds \union Pops BY DEF Quiet, Builds, Pops
<1>6. CASE Peek = ";"
  <2>1. Take(1) /\ Silent /\ Then(<<it>>) BY <1>6 DEF Semicolon, Expect
  <2>2. Took(Here) /\ Here.is = Peek /\ ItemOK(Doing, taken') BY <1>1, <1>5, <2>1, HereTaken
  <2>3. Here.is \notin Speech BY <1>6, <2>2, Mute DEF Marks
  <2>4. Doing.op = NoToken \/ Kept(Doing.op, taken') BY <2>2 DEF ItemOK
  <2> HIDE DEF n
  <2>5. Due(it, taken', n, 0) BY <1>3, <2>4, DueCounted DEF Named, Casts
  <2> HIDE DEF it
  <2>6. 0 \in Nat /\ 0 <= 0 + 2 OBVIOUS
  <2>7. Serves(<<it>>, taken', n, 0) BY <1>3, <2>5, ServesOne
  <2> QED BY <1>1, <1>3, <1>4, <1>5, <2>1, <2>2, <2>3, <2>6, <2>7, QuietTake
<1>7. CASE Peek # ";"
  <2>1. Fail BY <1>7 DEF Semicolon, Expect
  <2> QED BY <1>2, <2>1, HaltsEach
<1> QED BY <1>6, <1>7

LEMMA UnmatchedWords == ASSUME WInv, Unmatched PROVE WInv'
  BY HaltsEach DEF Unmatched, AtEnd

LEMMA StmtWords == ASSUME WInv, ParseStmt PROVE WInv'
  BY ParseEmptyWords, ParseStructWords, ParseReturnWords, ReturnValueWords, BuildReturnWords,
     ParseJumpWords, BuildJumpWords, ParseVariableWords, ParseExprStmtWords, IfWords, ParseDoWords,
     DoWhileWords, WhileWords, ForWords, EnterForWords, ParseConditionWords, BodyWords,
     EndOfBodyWords, BlockWords, StatementsWords, SemicolonWords, UnmatchedWords
  DEF ParseStmt

-----------------------------------------------------------------------------
(* The steps of declarations: a name that is declared.                     *)

\* The type, the name, and the parameter or field that is made of them.
LEMMA ServesPack ==
  ASSUME NEW ts, NEW to, to.does \in Packing, ItemOK(to, ts), NEW v \in Nat, v >= 1,
         Uses(to) = v, Gives(to) = 1, NEW x \in Nat, Weight(to) = x, NEW z, z = v - 1
  PROVE  Serves(<<Do("Base type"), Do("Declarator"), to>>, ts, z, x)
<1> DEFINE type == Do("Base type")
           name == Do("Declarator")
           items == <<type, name, to>>
<1>1. type.does = "Base type" /\ name.does = "Declarator" BY DEF Do, DoWith, Item
<1>2. ItemOK(type, ts) /\ ItemOK(name, ts)
  BY DEF ItemOK, Do, DoWith, Item, Named, Casts, Members
<1>3. /\ Uses(type) = 0 /\ Gives(type) = 1 /\ Weight(type) = 0
      /\ Uses(name) = 1 /\ Gives(name) = 1 /\ Weight(name) = 0
  BY <1>1 DEF Uses, Gives, Weight
<1>4. DOMAIN items = {1, 2, 3} /\ items[1] = type /\ items[2] = name /\ items[3] = to OBVIOUS
<1> HIDE DEF type, name
<1>5. InPlace(items)
  <2>1. /\ "Base type" \notin Packed \union Packing \union {"Strings"}
        /\ "Declarator" \notin Packed \union Packing \union {"Strings"}
        /\ to.does \notin Packed \union {"Strings"}
    BY DEF Packed, Packing
  <2>2. 3 > 1 /\ 3 - 1 = 2 OBVIOUS
  <2> HIDE DEF items
  <2> QED BY <1>1, <1>4, <2>1, <2>2 DEF InPlace
<1>6. items = <<type>> \o (<<name>> \o <<to>>)
  <2>1. <<name>> \o <<to>> = <<name, to>> BY TogetherTwo
  <2>2. <<type>> \o <<name, to>> = <<type, name, to>> BY TogetherThree
  <2> QED BY <2>1, <2>2
<1>7. ASSUME NEW a \in Nat, NEW b \in Nat, b >= 1, a = b - 1 + z PROVE Goes(items, ts, a, b, x)
  <2> DEFINE m == a + 1
             r == b - 1
  <2>1. /\ m \in Nat /\ r \in Nat /\ a = a + 0 /\ m = a + 1 /\ m = r + v /\ r + 1 = b
        /\ 0 \in Nat /\ 1 \in Nat /\ x = 0 + (0 + x)
    BY <1>7
  <2> HIDE DEF m, r
  <2>2. Fits(<<type>>, ts, a, m, 0)
    <3>1. Fits(<<type>>, ts, a, a + Gives(type), Weight(type)) BY <1>2, <1>3, <2>1, FitsOne
    <3> QED BY <1>3, <2>1, <3>1
  <2>3. Fits(<<name>>, ts, m, m, 0)
    <3>1. Fits(<<name>>, ts, m, a + Gives(name), Weight(name)) BY <1>2, <1>3, <2>1, FitsOne
    <3> QED BY <1>3, <2>1, <3>1
  <2>4. Fits(<<to>>, ts, m, b, x)
    <3>1. Fits(<<to>>, ts, m, r + Gives(to), Weight(to)) BY <2>1, FitsOne
    <3> QED BY <2>1, <3>1
  <2> HIDE DEF items
  <2>5. Fits(<<name>> \o <<to>>, ts, m, b, 0 + x) BY <2>3, <2>4, FitsConcat
  <2>6. Fits(<<type>> \o (<<name>> \o <<to>>), ts, a, b, 0 + (0 + x))
    BY <2>2, <2>5, FitsConcat
  <2>7. Fits(items, ts, a, b, x) BY <1>6, <2>1, <2>6
  <2> QED BY <1>5, <2>7 DEF Goes
<1> HIDE DEF items
<1>8. Serves(items, ts, z, x) BY <1>7 DEF Serves
<1> QED BY <1>8 DEF items, type, name

\* The steps between a name and what is made of it.
LEMMA PackSteps ==
  ASSUME WInv, Running, Doing.does \in Packed \union {"Declarator"},
         NEW items, Then(items),
         \/ items = <<>>
         \/ \E it : items = <<it>> /\ it.does \in Packed /\ ItemOK(it, taken'),
         IsList(built'), Len(built') = Len(built), built'[1].class = "VarPack",
         Typed', Longs(taken, taken'), NEW x \in Nat, Grows(built, built', x, taken'),
         x <= 2 * (Len(taken') - Len(taken)),
         taken' # taken => Accounts(taken', items, built'), outcome' = outcome
  PROVE  WInv'
<1>1. /\ todo # <<>> /\ IsList(todo) /\ Doing = todo[1] /\ Len(built) \in Nat
      /\ Uses(Doing) \in 0 .. Len(built)
  BY DoingFacts
<1>2. /\ Uses(Doing) = 1 /\ Gives(Doing) = 1 /\ Weight(Doing) = 0
      /\ Doing.does \notin Named \union Casts
  BY DEF Packed, Uses, Gives, Weight, Named, Casts
<1>3. HandsOn(Doing, items, built') BY <1>2 DEF HandsOn
<1> DEFINE n == Len(items)
           m == Len(todo)
<1>4. /\ IsList(items) /\ n \in {0, 1} /\ DOMAIN items = 1 .. n
      /\ n = 1 => items[1].does \in Packed /\ ItemOK(items[1], taken')
  <2>1. CASE items = <<>>
    <3>1. DOMAIN items = 1 .. 0 /\ n = 0 /\ 0 # 1 BY <2>1
    <3>2. IsList(items) BY <2>1, ShortLists
    <3> HIDE DEF n
    <3> QED BY <3>1, <3>2
  <2>2. CASE \E it : items = <<it>> /\ it.does \in Packed /\ ItemOK(it, taken')
    <3>1. PICK it : items = <<it>> /\ it.does \in Packed /\ ItemOK(it, taken') BY <2>2
    <3>2. DOMAIN <<it>> = 1 .. 1 /\ Len(<<it>>) = 1 /\ <<it>>[1] = it OBVIOUS
    <3> QED BY <3>1, <3>2, ShortLists
  <2> QED BY <2>1, <2>2
<1>5. /\ m \in Nat /\ m >= 1 /\ DOMAIN todo = 1 .. m /\ DOMAIN todo' = 1 .. n + m - 1
      /\ \A i \in DOMAIN items : todo'[i] = items[i]
      /\ \A i \in 2 .. m : todo'[n + i - 1] = todo[i]
  <2> DEFINE new == items \o Tail(todo)
  <2>1. /\ Len(items) \in Nat /\ Len(todo) \in Nat /\ Len(todo) >= 1
        /\ DOMAIN items = 1 .. Len(items) /\ DOMAIN todo = 1 .. Len(todo)
        /\ Len(new) = Len(items) + Len(todo) - 1 /\ DOMAIN new = 1 .. Len(new)
        /\ \A i \in DOMAIN items : new[i] = items[i]
        /\ \A i \in 2 .. Len(todo) : new[Len(items) + i - 1] = todo[i]
    <3>1. IsList(items) BY <1>4
    <3> HIDE DEF new, n, m
    <3> QED BY <1>1, <3>1, Replaced DEF new
  <2>2. todo' = new BY DEF Then
  <2> HIDE DEF new
  <2> QED BY <2>1, <2>2
<1> HIDE DEF n, m
<1>6. ASSUME NEW i \in 2 .. m
      PROVE  /\ todo[i].does \notin Packed \union {"Strings"}
             /\ todo[i].does \in Packing => todo[i - 1].does \in Packed \union {"Declarator"}
  <2>1. i \in DOMAIN todo /\ i # 1 /\ i > 1 BY <1>5
  <2> QED BY <2>1 DEF WInv, PacksReady, StringsAtOnce
<1>7. "Strings" \notin Packed \union Packing /\ Packed \intersect Packing = {}
  BY DEF Packed, Packing
<1>8. ASSUME NEW j \in DOMAIN todo'
      PROVE  /\ todo'[j].does \in Packed => j = 1
             /\ todo'[j].does # "Strings"
             /\ j > 1 /\ todo'[j].does \in Packing =>
                  todo'[j - 1].does \in Packed \union {"Declarator"}
  <2> DEFINE i == j - n + 1
  <2>1. CASE n = 1 /\ j = 1
    <3>1. 1 \in DOMAIN items BY <1>4, <2>1
    <3> QED BY <1>4, <1>5, <1>7, <2>1, <3>1
  <2>2. CASE ~(n = 1 /\ j = 1)
    <3>1. i \in 2 .. m /\ n + i - 1 = j BY <1>4, <1>5, <2>2, SMTT(20)
    <3> HIDE DEF i
    <3>2. todo'[j] = todo[i] BY <1>5, <3>1
    <3>3. j > 1 => todo'[j - 1] = todo[i - 1] \/ (i = 2 /\ n = 1)
      <4>1. SUFFICES ASSUME j > 1, ~(i = 2 /\ n = 1) PROVE todo'[j - 1] = todo[i - 1] OBVIOUS
      <4>2. i - 1 \in 2 .. m /\ n + (i - 1) - 1 = j - 1
        BY <1>4, <1>5, <3>1, <4>1, SMTT(20)
      <4>3. todo'[n + (i - 1) - 1] = todo[i - 1] BY <1>5, <4>2
      <4> QED BY <4>2, <4>3
    <3>4. i = 2 /\ n = 1 => todo'[j - 1].does \in Packed
      <4>1. SUFFICES ASSUME i = 2, n = 1 PROVE todo'[j - 1].does \in Packed OBVIOUS
      <4>2. j - 1 = 1 /\ 1 \in DOMAIN items BY <1>4, <3>1, <4>1
      <4>3. todo'[j - 1] = items[1] BY <1>5, <4>2
      <4> QED BY <1>4, <4>1, <4>3
    <3> QED BY <1>6, <3>1, <3>2, <3>3, <3>4
  <2> QED BY <2>1, <2>2
<1>9. PacksReady' BY <1>8 DEF PacksReady
<1>10. StringsAtOnce' BY <1>8 DEF StringsAtOnce
<1>11. Fits(items, taken', Len(built'), Len(built) - Uses(Doing) + Gives(Doing), 0)
  <2> DEFINE a == Len(built)
             r == a - 1
  <2>1. a \in Nat /\ r \in Nat /\ a = r + 1 /\ r + 1 = a /\ 1 \in Nat /\ a - 1 + 1 = a
    BY <1>1, <1>2
  <2> HIDE DEF a, r
  <2>2. Fits(items, taken', a, a, 0)
    <3>1. CASE items = <<>> BY <2>1, <3>1, FitsNone
    <3>2. CASE \E it : items = <<it>> /\ it.does \in Packed /\ ItemOK(it, taken')
      <4>1. PICK it : items = <<it>> /\ it.does \in Packed /\ ItemOK(it, taken') BY <3>2
      <4>2. Uses(it) = 1 /\ Gives(it) = 1 /\ Weight(it) = 0
        BY <4>1 DEF Packed, Uses, Gives, Weight
      <4>3. Fits(<<it>>, taken', a, r + Gives(it), Weight(it)) BY <2>1, <4>1, <4>2, FitsOne
      <4> QED BY <2>1, <4>1, <4>2, <4>3
    <3> QED BY <3>1, <3>2
  <2>3. Len(built') = a /\ Len(built) = a BY DEF a
  <2> QED BY <1>2, <2>1, <2>2, <2>3
<1>12. 0 \in Nat /\ x + 0 <= Weight(Doing) + 2 * (Len(taken') - Len(taken))
  <2>1. Len(taken) \in Nat /\ Len(taken') \in Nat BY DEF Typed, WInv
  <2> QED BY <1>2, <2>1
<1> QED BY <1>3, <1>9, <1>10, <1>11, <1>12, Moves

LEMMA DeclarationWords == ASSUME WInv, Declaration PROVE WInv'
<1>1. At("Declaration") BY DEF Declaration
<1>2. Doing.does = "Declaration" /\ Running BY <1>1 DEF At
<1>3. Counts(Doing, 0, 0) BY <1>2 DEF Counts, Uses, Gives, Weight
<1>4. "Declaration" \in Quiet /\ "Declaration" \notin Builds \union Pops
  BY DEF Quiet, Builds, Pops
<1>5. CASE Peek3 # "{" \/ Peek \notin {"struct", "enum", "union"}
  <2>1. Silent /\ Staying
        /\ Then(<<Do("Base type"), Do("Declared")>>)
    BY <1>2, <1>5 DEF Declaration, Staying
  <2>2. Doing.op = NoToken \/ Kept(Doing.op, taken) BY <1>1, AtFacts DEF ItemOK
  <2>4. Serves(<<Do("Base type"), Do("Declared")>>, taken, 0, 0)
    <3>0. 0 \in Nat /\ 1 \in Nat /\ 2 \in Nat /\ 3 \in Nat /\ 1 >= 1 /\ 2 >= 1 /\ 3 >= 1 OBVIOUS
    <3>1. Due(Do("Base type"), taken, 0, 0) BY DueDo
    <3>2. Due(Do("Declared"), taken, 1, 0) BY DueDoOne
    <3>3. 0 = 1 - 1 OBVIOUS
    <3> QED BY <3>0, <3>1, <3>2, <3>3, ServesPair
  <2>5. 0 \in Nat /\ 1 \in Nat /\ 2 \in Nat /\ 3 \in Nat /\ 0 <= 0 OBVIOUS
  <2> QED BY <1>1, <1>3, <1>4, <2>1, <2>4, <2>5, QuietStay
<1>6. CASE ~(Peek3 # "{" \/ Peek \notin {"struct", "enum", "union"}) /\ Peek = "struct"
  <2>1. Silent /\ Staying
        /\ Then(<<Do("Struct")>>)
    BY <1>2, <1>6 DEF Declaration, Staying
  <2>2. Doing.op = NoToken \/ Kept(Doing.op, taken) BY <1>1, AtFacts DEF ItemOK
  <2>4. Serves(<<Do("Struct")>>, taken, 0, 0)
    <3>0. 0 \in Nat /\ 1 \in Nat /\ 2 \in Nat /\ 3 \in Nat /\ 1 >= 1 /\ 2 >= 1 /\ 3 >= 1 OBVIOUS
    <3>1. Due(Do("Struct"), taken, 0, 0) BY DueDo
    <3> QED BY <3>0, <3>1, ServesOne
  <2>5. 0 \in Nat /\ 1 \in Nat /\ 2 \in Nat /\ 3 \in Nat /\ 0 <= 0 OBVIOUS
  <2> QED BY <1>1, <1>3, <1>4, <2>1, <2>4, <2>5, QuietStay
<1>7. CASE ~(Peek3 # "{" \/ Peek \notin {"struct", "enum", "union"}) /\ Peek # "struct"
  <2>1. Fail BY <1>2, <1>7 DEF Declaration
  <2> QED BY <1>2, <2>1, HaltsEach
<1> QED BY <1>5, <1>6, <1>7

LEMMA DeclaredWords == ASSUME WInv, Declared PROVE WInv'
<1>1. At("Declared") BY DEF Declared
<1>2. Doing.does = "Declared" /\ Running BY <1>1 DEF At
<1>3. Counts(Doing, 1, 0) BY <1>2 DEF Counts, Uses, Gives, Weight
<1>4. "Declared" \in Quiet /\ "Declared" \notin Builds \union Pops
  BY DEF Quiet, Builds, Pops
<1>5. CASE Peek = "*"
  <2>1. Fail BY <1>2, <1>5 DEF Declared
  <2> QED BY <1>2, <2>1, HaltsEach
<1>6. CASE Peek # "*" /\ Peek2 = "("
  <2>1. Silent /\ Staying
        /\ Then(<<Do("Function")>>)
    BY <1>2, <1>6 DEF Declared, Staying
  <2>2. Doing.op = NoToken \/ Kept(Doing.op, taken) BY <1>1, AtFacts DEF ItemOK
  <2>4. Serves(<<Do("Function")>>, taken, 1, 0)
    <3>0. 0 \in Nat /\ 1 \in Nat /\ 2 \in Nat /\ 3 \in Nat /\ 1 >= 1 /\ 2 >= 1 /\ 3 >= 1 OBVIOUS
    <3>1. Due(Do("Function"), taken, 1, 0) BY DueDoOne
    <3> QED BY <3>0, <3>1, ServesOne
  <2>5. 0 \in Nat /\ 1 \in Nat /\ 2 \in Nat /\ 3 \in Nat /\ 0 <= 0 OBVIOUS
  <2> QED BY <1>1, <1>3, <1>4, <2>1, <2>4, <2>5, QuietStay
<1>7. CASE Peek # "*" /\ Peek2 # "("
  <2>1. NoParser BY <1>2, <1>7 DEF Declared
  <2> QED BY <1>2, <2>1, HaltsEach
<1> QED BY <1>5, <1>6, <1>7

LEMMA BaseTypeWords == ASSUME WInv, BaseType PROVE WInv'
<1>1. At("Base type") BY DEF BaseType
<1>2. Doing.does = "Base type" /\ Running BY <1>1 DEF At
<1>3. Counts(Doing, 0, 0) BY <1>2 DEF Counts, Uses, Gives, Weight
<1>4. "Base type" \in Quiet /\ "Base type" \in Pops BY DEF Quiet, Pops
<1>5. 0 \in Nat /\ 0 <= 0 + 2 OBVIOUS
<1>6. CASE Popped.is \in {"enum", "union", "struct"}
  <2>1. Pop /\ Then(<<Do("Tag")>>) /\ Silent BY <1>6 DEF BaseType
  <2>2. Took(Popped) BY <1>1, <1>4, <2>1, PoppedTaken
  <2>3. Popped.is \notin Speech BY <1>6, Mute DEF Marks
  <2>4. Due(Do("Tag"), taken', 0, 0) BY DueDo
  <2>5. Serves(<<Do("Tag")>>, taken', 0, 0) BY <1>5, <2>4, ServesOne
  <2> QED BY <1>1, <1>3, <1>4, <1>5, <2>1, <2>2, <2>3, <2>5, QuietTake
<1>7. CASE /\ Popped.is \notin {"enum", "union", "struct"}
           /\ Popped.is \in PrimitiveTypes
  <2> DEFINE it == DoWith("Specifiers", Popped)
             items == <<it>>
  <2>1. Pop /\ Then(items) /\ Silent BY <1>7 DEF BaseType
  <2>2. Took(Popped) /\ Kept(Popped, taken') BY <1>1, <1>4, <2>1, PoppedTaken
  <2>3. Due(it, taken', 0, 0) BY <2>2, DueWith
  <2>4. it.does \in Named /\ it.op = Popped BY DEF DoWith, Item, Named
  <2> HIDE DEF it
  <2>5. Serves(items, taken', 0, 0) BY <1>5, <2>3, ServesOne
  <2>6. Holds(items, it) BY HoldsOne
  <2> HIDE DEF items
  <2>7. /\ "Base type" \notin Packed \union {"Declarator"}
        /\ "Base type" \notin Named \union Casts
    BY <1>4, QuietFacts
  <2>8. HandsOn(Doing, items, built) BY <1>2, <2>7, HandsNone
  <2>9. Accounts(taken', items, built) BY <2>2, <2>4, <2>6, AccountsHeld
  <2> QED BY <1>1, <1>3, <1>5, <2>1, <2>2, <2>5, <2>7, <2>8, <2>9, SilentTake
<1>8. CASE /\ Popped.is \notin {"enum", "union", "struct"}
           /\ Popped.is \notin PrimitiveTypes
  <2>1. Fail BY <1>8 DEF BaseType
  <2> QED BY <1>2, <2>1, HaltsEach
<1> QED BY <1>6, <1>7, <1>8, Zenon

LEMMA SpecifiersWords == ASSUME WInv, Specifiers PROVE WInv'
<1>1. At("Specifiers") BY DEF Specifiers
<1>2. Doing.does = "Specifiers" /\ Running BY <1>1 DEF At
<1>3. Counts(Doing, 0, 0) BY <1>2 DEF Counts, Uses, Gives, Weight
<1>4. "Specifiers" \in Named BY DEF Named
<1>5. CASE Peek \in TypeSpecifiers
  <2>1. Fatal BY <1>5 DEF Specifiers
  <2> QED BY <1>2, <2>1, HaltsEach
<1>6. CASE Peek \notin TypeSpecifiers
  <2> DEFINE node == Type(Doing.op)
  <2>1. Replace(0, node) /\ Then(<<>>) /\ UNCHANGED outcome /\ Staying
    BY <1>6 DEF Specifiers, Push, Return, Staying
  <2>2. /\ node.class \in Speaking /\ node.class # "ExplicitCastExpr" /\ node.children = <<>>
        /\ node.at = Doing.op.at /\ node.says = Doing.op.is
    BY TypeNode
  <2> HIDE DEF node
  <2>3. Kept(Doing.op, taken) /\ IsList(built) BY <1>1, <1>2, <1>4, AtFacts DEF ItemOK
  <2>4. RightNode(node, taken) BY <2>2, <2>3, WordNode
  <2>5. Grows(built, Replacing(built, 0, node), 0, taken) BY <2>2, <2>3, <2>4, GrowsLeaf
  <2>6. 0 \in Nat /\ 0 \in 0 .. 0 /\ 0 <= 0 /\ 1 = 0 - 0 + 1 OBVIOUS
  <2>7. Serves(<<>>, taken, 1, 0) BY ServesNone
  <2> QED BY <1>1, <1>3, <1>4, <2>1, <2>2, <2>5, <2>6, <2>7, NamedStay
<1> QED BY <1>5, <1>6

LEMMA TagWords == ASSUME WInv, Tag PROVE WInv'
<1>1. At("Tag") BY DEF Tag
<1>2. Doing.does = "Tag" /\ Running BY <1>1 DEF At
<1>3. Counts(Doing, 0, 0) BY <1>2 DEF Counts, Uses, Gives, Weight
<1>4. "Tag" \in Quiet /\ "Tag" \notin Builds \union Pops BY DEF Quiet, Builds, Pops
<1>5. CASE Fail \/ Fatal BY <1>2, <1>5, HaltsEach
<1>6. CASE TakeCache(1) /\ Push(Type(Here)) /\ Return /\ UNCHANGED outcome
  <2>1. Then(<<>>) BY <1>6 DEF Return
  <2>2. Took(Here) BY <1>1, <1>4, <1>6, HereTaken
  <2>3. 0 \in Nat /\ 0 <= 0 + 2 OBVIOUS
  <2>4. Serves(<<>>, taken', 1, 0) BY ServesNone
  <2> QED BY <1>1, <1>3, <1>4, <1>6, <2>1, <2>2, <2>3, <2>4, TypeNode, LeafTake
<1> QED BY <1>5, <1>6 DEF Tag

LEMMA FunctionWords == ASSUME WInv, Function PROVE WInv'
<1>1. At("Function") BY DEF Function
<1>2. Doing.does = "Function" /\ Running BY <1>1 DEF At
<1>3. Counts(Doing, 1, 0) BY <1>2 DEF Counts, Uses, Gives, Weight
<1>4. "Function" \in Quiet /\ "Function" \in Pops BY DEF Quiet, Pops
<1>5. CASE at_root
  <2> DEFINE it == DoWith("Parameter list", Popped)
             items == <<it>>
  <2>1. Pop /\ Then(items) /\ Silent BY <1>5 DEF Function
  <2>2. Took(Popped) /\ Kept(Popped, taken') BY <1>1, <1>4, <2>1, PoppedTaken
  <2>3. Due(it, taken', 1, 2) BY <2>2, DueName
  <2>4. it.does \in Named /\ it.op = Popped BY DEF DoWith, Item, Named
  <2> HIDE DEF it
  <2>5. 0 \in Nat /\ 1 \in Nat /\ 2 \in Nat /\ 2 <= 0 + 2 OBVIOUS
  <2>6. Serves(items, taken', 1, 2) BY <2>3, <2>5, ServesOne
  <2>7. Holds(items, it) BY HoldsOne
  <2> HIDE DEF items
  <2>8. /\ "Function" \notin Packed \union {"Declarator"}
        /\ "Function" \notin Named \union Casts
    BY <1>4, QuietFacts
  <2>9. HandsOn(Doing, items, built) BY <1>2, <2>8, HandsNone
  <2>10. Accounts(taken', items, built) BY <2>2, <2>4, <2>7, AccountsHeld
  <2> QED BY <1>1, <1>3, <2>1, <2>2, <2>5, <2>6, <2>8, <2>9, <2>10, SilentTake
<1>6. CASE ~at_root
  <2>1. Fail BY <1>6 DEF Function
  <2> QED BY <1>2, <2>1, HaltsEach
<1> QED BY <1>5, <1>6

LEMMA StructWords == ASSUME WInv, Struct PROVE WInv'
<1>1. At("Struct") BY DEF Struct
<1>2. Doing.does = "Struct" /\ Running BY <1>1 DEF At
<1>3. Counts(Doing, 0, 0) BY <1>2 DEF Counts, Uses, Gives, Weight
<1>4. "Struct" \in Quiet /\ "Struct" \notin Builds \union Pops BY DEF Quiet, Builds, Pops
<1>5. CASE Peek = "struct"
  <2>1. Take(1) /\ Silent
        /\ Then(<<Do("Struct name")>>)
    BY <1>2, <1>5 DEF Struct, Expect
  <2>2. /\ Took(Here) /\ Kept(Here, taken') /\ Here.is = Peek
        /\ ItemOK(Doing, taken') /\ (Doing.op = NoToken \/ Kept(Doing.op, taken'))
    BY <1>1, <1>4, <2>1, HereTaken DEF ItemOK
  <2>3. Here.is \notin Speech BY <1>5, <2>2, Mute DEF Marks
  <2>4. Serves(<<Do("Struct name")>>, taken', 0, 0)
    <3>0. 0 \in Nat /\ 1 \in Nat /\ 2 \in Nat /\ 3 \in Nat /\ 1 >= 1 /\ 2 >= 1 /\ 3 >= 1 OBVIOUS
    <3>1. Due(Do("Struct name"), taken', 0, 0) BY DueDo
    <3> QED BY <3>0, <3>1, ServesOne
  <2>5. 0 \in Nat /\ 1 \in Nat /\ 2 \in Nat /\ 3 \in Nat /\ 0 <= 0 + 2 OBVIOUS
  <2> QED BY <1>1, <1>3, <1>4, <2>1, <2>2, <2>3, <2>4, <2>5, QuietTake
<1>6. CASE Peek # "struct"
  <2>1. Fail BY <1>2, <1>6 DEF Struct, Expect
  <2> QED BY <1>2, <2>1, HaltsEach
<1> QED BY <1>5, <1>6

LEMMA StructNameWords == ASSUME WInv, StructName PROVE WInv'
<1>1. At("Struct name") BY DEF StructName
<1>2. Doing.does = "Struct name" /\ Running BY <1>1 DEF At
<1>3. Counts(Doing, 0, 0) BY <1>2 DEF Counts, Uses, Gives, Weight
<1>4. "Struct name" \in Quiet /\ "Struct name" \notin Builds \union Pops BY DEF Quiet, Builds, Pops
<1>5. CASE Peek \in kIdentity
  <2> DEFINE it == DoWith("Struct body", Here)
             items == <<it>>
  <2>1. Take(1) /\ Then(items) /\ Silent BY <1>5 DEF StructName
  <2>2. Took(Here) /\ Kept(Here, taken') BY <1>1, <1>4, <2>1, HereTaken
  <2>3. Due(it, taken', 0, 0) BY <2>2, DueWith
  <2>4. it.does \in Named /\ it.op = Here BY DEF DoWith, Item, Named
  <2> HIDE DEF it
  <2>5. 0 \in Nat /\ 0 <= 0 + 2 OBVIOUS
  <2>6. Serves(items, taken', 0, 0) BY <2>3, <2>5, ServesOne
  <2>7. Holds(items, it) BY HoldsOne
  <2> HIDE DEF items
  <2>8. /\ "Struct name" \notin Packed \union {"Declarator"}
        /\ "Struct name" \notin Named \union Casts
    BY <1>4, QuietFacts
  <2>9. HandsOn(Doing, items, built) BY <1>2, <2>8, HandsNone
  <2>10. Accounts(taken', items, built) BY <2>2, <2>4, <2>7, AccountsHeld
  <2> QED BY <1>1, <1>3, <2>1, <2>2, <2>5, <2>6, <2>8, <2>9, <2>10, SilentTake
<1>6. CASE Peek \notin kIdentity
  <2>1. Fail BY <1>6 DEF StructName
  <2> QED BY <1>2, <2>1, HaltsEach
<1> QED BY <1>5, <1>6

LEMMA StructBodyWords == ASSUME WInv, StructBody PROVE WInv'
<1>1. At("Struct body") BY DEF StructBody
<1>2. Doing.does = "Struct body" /\ Running BY <1>1 DEF At
<1>3. Counts(Doing, 0, 0) BY <1>2 DEF Counts, Uses, Gives, Weight
<1>4. "Struct body" \in Named /\ "Struct body" \notin Builds \union Pops BY DEF Named, Builds, Pops
<1>5. CASE Fail \/ Fatal BY <1>2, <1>5, HaltsEach
<1>6. CASE Peek = "{" /\ TakeCache(1) /\ Then(<<DoWith("Fields", Doing.op)>>) /\ Silent
  <2> DEFINE it == DoWith("Fields", Doing.op)
             items == <<it>>
  <2>1. Took(Here) /\ Here.is = Peek /\ ItemOK(Doing, taken') BY <1>1, <1>4, <1>6, HereTaken
  <2>2. Kept(Doing.op, taken') BY <1>2, <1>4, <2>1 DEF ItemOK
  <2>3. Here.is \notin Speech BY <1>6, <2>1, Mute DEF Marks
  <2>4. Due(it, taken', 0, 0) BY <2>2, DueWith
  <2>5. it.does \in Named /\ it.op = Doing.op BY DEF DoWith, Item, Named
  <2>6. Then(items) /\ Silent BY <1>6
  <2> HIDE DEF it
  <2>7. 0 \in Nat /\ 0 <= 0 + 2 OBVIOUS
  <2>8. Serves(items, taken', 0, 0) BY <2>4, <2>7, ServesOne
  <2>9. Holds(items, it) BY HoldsOne
  <2> HIDE DEF items
  <2> QED BY <1>1, <1>3, <1>4, <2>1, <2>3, <2>5, <2>6, <2>7, <2>8, <2>9, HeldTake
<1> QED BY <1>5, <1>6 DEF StructBody

\* What a declared name has become.
LEMMA PackThere ==
  ASSUME WInv, Running, Doing.does \in Packed \union Packing
  PROVE  built[1].class = "VarPack" /\ IsList(built) /\ Len(built) \in Nat
<1>1. todo # <<>> /\ Doing = todo[1] /\ IsList(built) /\ Len(built) \in Nat BY DoingFacts
<1> QED BY <1>1 DEF WInv, PacksReady

LEMMA PackItem ==
  ASSUME NEW d \in Packed, NEW ts PROVE Do(d).does \in Packed /\ ItemOK(Do(d), ts)
<1>1. d \notin Named \union Casts \union Members \union {"Lhs", "Rhs", "Field end"}
  BY DEF Packed, Named, Casts, Members
<1> QED BY <1>1 DEF ItemOK, Do, DoWith, Item

LEMMA DeclaratorWords == ASSUME WInv, Declarator PROVE WInv'
<1>1. At("Declarator") BY DEF Declarator
<1>2. Doing.does = "Declarator" /\ Running BY <1>1 DEF At
<1>3. Counts(Doing, 1, 0) BY <1>2 DEF Counts, Uses, Gives, Weight
<1>4. "Declarator" \notin Builds \union Pops BY DEF Builds, Pops
<1>5. CASE Peek \in kIdentity
  <2> DEFINE proxy == TypeProxyExpr(Here.at, built[1])
             node == VarPack(Here, built[1])
             it == Do("Brackets")
             items == <<it>>
  <2>1. Take(1) /\ Replace(1, node) /\ Then(items) /\ outcome' = outcome BY <1>5 DEF Declarator
  <2>2. Took(Here) /\ Kept(Here, taken') BY <1>1, <1>4, <2>1, HereTaken
  <2>3. /\ node.class = "VarPack" /\ node.class \in Speaking /\ node.at = Here.at
        /\ node.says = Here.is /\ node.children = <<proxy>>
    BY DEF VarPack, Node, Speaking
  <2>4. proxy.class = "TypeProxyExpr" /\ proxy.children = <<built[1]>> BY DEF TypeProxyExpr, Node
  <2>5. it.does \in Packed /\ ItemOK(it, taken')
    <3>1. "Brackets" \in Packed BY DEF Packed
    <3> QED BY <3>1, PackItem
  <2> HIDE DEF proxy, node, it
  <2>6. RightNode(node, taken') BY <2>2, <2>3, WordNode
  <2>7. RightNode(proxy, taken') BY <2>4, PlainNode DEF Speaking
  <2>8. IsList(built) /\ 1 \in 0 .. Len(built) /\ Len(built) \in Nat
    <3>1. 1 <= Len(built) /\ Len(built) \in Nat BY <1>2, <1>3, Others
    <3>2. IsList(built) BY <1>1, AtFacts
    <3> QED BY <3>1, <3>2
  <2>9. Range(node.children) = {proxy} /\ Range(proxy.children) = {built[1]}
    BY <2>3, <2>4, Children
  <2>10. Grows(built, Replacing(built, 1, node), 2, taken')
    <3>1. 2 \in Nat /\ 2 >= 2 /\ 1 \in 1 .. 1 /\ \A i \in 1 .. 1 : i = 1 OBVIOUS
    <3>2. \A i \in 1 .. 1 : \E child \in Range(node.children) : built[i] \in Range(child.children)
      BY <2>9, <3>1
    <3>3. \A child \in Range(node.children) :
            /\ RightNode(child, taken')
            /\ \A other \in Range(child.children) : \E i \in 1 .. 1 : other = built[i]
      BY <2>7, <2>9, <3>1
    <3> QED BY <2>6, <2>8, <3>1, <3>2, <3>3, GrowsTree
  <2>11. built' = Replacing(built, 1, node) BY <2>1 DEF Replace, Replacing
  <2>12. IsList(built') /\ built'[1] = node /\ Len(built') = Len(built)
    <3>1. /\ IsList(Replacing(built, 1, node)) /\ Replacing(built, 1, node)[1] = node
          /\ Len(Replacing(built, 1, node)) = Len(built) - 1 + 1
      BY <2>8, ReplacingList
    <3> QED BY <2>8, <2>11, <3>1
  <2>13. /\ Typed' /\ Longs(taken, taken') /\ Len(taken) \in Nat /\ Len(taken') \in Nat
         /\ Len(taken') >= Len(taken) + 1
    <3>1. Typed BY <1>1, AtFacts
    <3> QED BY <2>2, <3>1, TookFacts
  <2>14. 2 \in Nat /\ 2 <= 2 * (Len(taken') - Len(taken)) BY <2>13
  <2>15. Accounts(taken', items, built') BY <2>1, <2>2, <2>3, <2>8, AccountsTop
  <2>16. Grows(built, built', 2, taken') BY <2>10, <2>11
  <2>17. \E to : items = <<to>> /\ to.does \in Packed /\ ItemOK(to, taken') BY <2>5
  <2>18. Doing.does \in Packed \union {"Declarator"} BY <1>2
  <2>19. built'[1].class = "VarPack" BY <2>3, <2>12
  <2> HIDE DEF items
  <2> QED BY <1>2, <2>1, <2>12, <2>13, <2>14, <2>15, <2>16, <2>17, <2>18, <2>19, PackSteps
<1>6. CASE Peek \notin kIdentity
  <2>1. Fail BY <1>6 DEF Declarator
  <2> QED BY <1>2, <2>1, HaltsEach
<1> QED BY <1>5, <1>6

\* A step behind a name that builds nothing.
LEMMA PackStay ==
  ASSUME WInv, Running, Doing.does \in Packed, Then(<<>>), Silent, Staying PROVE WInv'
<1>1. built[1].class = "VarPack" /\ IsList(built) BY PackThere
<1>2. Typed' /\ taken' = taken /\ Longs(taken, taken') BY StayFacts DEF WInv
<1>3. built' = built /\ outcome' = outcome BY DEF Silent
<1>4. Grows(built, built', 0, taken') BY <1>3, GrowsSame
<1>5. Len(taken) \in Nat BY DEF WInv, Typed
<1>6. 0 \in Nat /\ 0 <= 2 * (Len(taken') - Len(taken)) BY <1>2, <1>5
<1>7. Len(built') = Len(built) /\ IsList(built') /\ built'[1].class = "VarPack" BY <1>1, <1>3
<1> DEFINE items == <<>>
<1>8. Then(items) /\ items = <<>> OBVIOUS
<1> HIDE DEF items
<1> QED BY <1>2, <1>3, <1>4, <1>6, <1>7, <1>8, PackSteps

LEMMA PackTake ==
  ASSUME WInv, Running, Doing.does \in Packed, NEW t, Took(t), t.is \notin Speech, NEW items,
         Then(items),
         \/ items = <<>>
         \/ \E it : items = <<it>> /\ it.does \in Packed /\ ItemOK(it, taken'),
         Silent
  PROVE  WInv'
<1>1. built[1].class = "VarPack" /\ IsList(built) BY PackThere
<1>2. /\ Typed' /\ Longs(taken, taken') /\ Len(taken) \in Nat /\ Len(taken') \in Nat
      /\ Len(taken') >= Len(taken) + 1
  BY TookFacts DEF WInv
<1>3. built' = built /\ outcome' = outcome BY DEF Silent
<1>4. Grows(built, built', 0, taken') BY <1>3, GrowsSame
<1>5. 0 \in Nat /\ 0 <= 2 * (Len(taken') - Len(taken)) BY <1>2
<1>6. Len(built') = Len(built) /\ IsList(built') /\ built'[1].class = "VarPack" BY <1>1, <1>3
<1>7. Accounts(taken', items, built') BY AccountsMute
<1> QED BY <1>2, <1>3, <1>4, <1>5, <1>6, <1>7, PackSteps

LEMMA BracketsWords == ASSUME WInv, Brackets PROVE WInv'
<1>1. At("Brackets") /\ Silent BY DEF Brackets
<1>2. Doing.does = "Brackets" /\ Running BY <1>1 DEF At
<1>3. "Brackets" \notin Builds \union Pops /\ Doing.does \in Packed BY <1>2 DEF Builds, Pops, Packed
<1>4. CASE Peek = "["
  <2> DEFINE it == Do("Array size")
             items == <<it>>
  <2>1. Take(1) /\ Then(items) BY <1>4 DEF Brackets
  <2>2. Took(Here) /\ Here.is = Peek BY <1>1, <1>3, <2>1, HereTaken
  <2>3. Here.is \notin Speech BY <1>4, <2>2, Mute DEF Marks
  <2>4. it.does \in Packed /\ ItemOK(it, taken')
    <3>1. "Array size" \in Packed BY DEF Packed
    <3> QED BY <3>1, PackItem
  <2> HIDE DEF it
  <2>5. \E to : items = <<to>> /\ to.does \in Packed /\ ItemOK(to, taken') BY <2>4
  <2> HIDE DEF items
  <2> QED BY <1>1, <1>2, <1>3, <2>1, <2>2, <2>3, <2>5, PackTake
<1>5. CASE Peek # "["
  <2>1. Then(<<>>) /\ Staying BY <1>5 DEF Brackets, Return, Staying
  <2> QED BY <1>1, <1>2, <1>3, <2>1, PackStay
<1> QED BY <1>4, <1>5

LEMMA ArraySizeWords == ASSUME WInv, ArraySize PROVE WInv'
<1>1. At("Array size") BY DEF ArraySize
<1>2. Doing.does = "Array size" /\ Running BY <1>1 DEF At
<1>3. "Array size" \notin Builds \union Pops /\ Doing.does \in Packed
  BY <1>2 DEF Builds, Pops, Packed
<1>4. CASE Peek = "]"
  <2> DEFINE items == <<>>
  <2>1. Take(1) /\ Then(items) /\ Silent /\ items = <<>> BY <1>4 DEF ArraySize, Return
  <2>2. Took(Here) /\ Here.is = Peek BY <1>1, <1>3, <2>1, HereTaken
  <2>3. Here.is \notin Speech BY <1>4, <2>2, Mute DEF Marks
  <2> HIDE DEF items
  <2> QED BY <1>2, <1>3, <2>1, <2>2, <2>3, PackTake
<1>5. CASE Peek # "]"
  <2>1. NoParser BY <1>5 DEF ArraySize
  <2> QED BY <1>2, <2>1, HaltsEach
<1> QED BY <1>4, <1>5

-----------------------------------------------------------------------------
(* The steps of a function's declaration.                                  *)

\* A function is known from its type, as an expression, and the nodes after it.
LEMMA FunctionNode ==
  ASSUME NEW b, IsList(b), NEW u \in 1 .. Len(b), NEW op, NEW ts, Kept(op, ts),
         NEW node, node = FuncDeclStmt(op, Reverse(SubSeq(b, 1, u)))
  PROVE  /\ node.class \in Speaking /\ node.at = op.at
         /\ Grows(b, Replacing(b, u, node), 2, ts)
<1> DEFINE s == Reverse(SubSeq(b, 1, u))
           r == Tail(s)
           proxy == TypeProxyExpr(op.at, Head(s))
           one == <<proxy>>
           kids == one \o r
<1>1. Len(b) \in Nat /\ u \in 0 .. Len(b) /\ u \in Nat /\ u >= 1
  <2>1. b \in Seq(Range(b)) BY DEF IsList
  <2>2. Len(b) \in Nat BY <2>1
  <2> QED BY <2>2
<1>2. /\ IsList(s) /\ Len(s) = u /\ \A i \in 1 .. u : s[i] = b[u - i + 1]
  BY <1>1, NewestNodes
<1>3. /\ node.class = "FuncDeclStmt" /\ node.says = op.is /\ node.at = op.at
      /\ node.children = kids
  BY DEF FuncDeclStmt, Node
<1>4. proxy.class = "TypeProxyExpr" /\ proxy.children = <<Head(s)>> BY DEF TypeProxyExpr, Node
<1> HIDE DEF s, proxy
<1>5. Head(s) = b[u] /\ IsList(r) /\ Len(r) = u - 1 /\ \A j \in 1 .. u - 1 : r[j] = b[u - j]
  <2>1. s \in Seq(Range(s)) /\ s # <<>>
    <3>1. s \in Seq(Range(s)) BY <1>2 DEF IsList
    <3>2. Len(s) # 0 BY <1>1, <1>2
    <3> QED BY <3>1, <3>2
  <2>2. /\ Head(s) = s[1] /\ r \in Seq(Range(s)) /\ Len(r) = Len(s) - 1
        /\ \A j \in 1 .. Len(s) - 1 : r[j] = s[j + 1]
    BY <2>1, HeadTailProperties
  <2>3. 1 \in 1 .. u /\ u - 1 + 1 = u BY <1>1
  <2>4. Head(s) = b[u] BY <1>2, <2>2, <2>3
  <2>5. ASSUME NEW j \in 1 .. u - 1 PROVE r[j] = b[u - j]
    <3>1. j + 1 \in 1 .. u /\ u - (j + 1) + 1 = u - j BY <1>1
    <3>2. r[j] = s[j + 1] BY <1>2, <2>2
    <3>3. s[j + 1] = b[u - (j + 1) + 1] BY <1>2, <3>1
    <3> QED BY <3>1, <3>2, <3>3
  <2>6. IsList(r) BY <2>2, ListIsSeq
  <2> QED BY <1>2, <2>2, <2>4, <2>5, <2>6
<1> HIDE DEF r
<1>6. IsList(one) /\ DOMAIN one = {1} /\ one[1] = proxy /\ Len(one) = 1
  <2>1. IsList(<<proxy>>) BY ShortLists
  <2> QED BY <2>1
<1> HIDE DEF one
<1>7. DOMAIN r = 1 .. u - 1
  <2>1. r \in Seq(Range(r)) BY <1>5 DEF IsList
  <2> QED BY <1>5, <2>1, LenProperties
<1>0. /\ \A i \in DOMAIN kids : \/ (i \in DOMAIN one /\ kids[i] = one[i])
                                 \/ (i - 1 \in DOMAIN r /\ kids[i] = r[i - 1])
      /\ \A i \in DOMAIN one : i \in DOMAIN kids /\ kids[i] = one[i]
      /\ \A i \in DOMAIN r : i + 1 \in DOMAIN kids /\ kids[i + 1] = r[i]
  <2> DEFINE m == Len(one)
  <2>1. /\ \A i \in DOMAIN (one \o r) : \/ i \in DOMAIN one /\ (one \o r)[i] = one[i]
                                        \/ /\ i \notin DOMAIN one /\ i - m \in DOMAIN r
                                           /\ (one \o r)[i] = r[i - m]
        /\ \A i \in DOMAIN one : i \in DOMAIN (one \o r) /\ (one \o r)[i] = one[i]
    BY <1>5, <1>6, ConcatList
  <2>2. ASSUME NEW i \in DOMAIN r PROVE i + m \in DOMAIN (one \o r) /\ (one \o r)[i + m] = r[i]
    <3>1. IsList(one) /\ IsList(r) BY <1>5, <1>6
    <3> HIDE DEF m
    <3>2. i + Len(one) \in DOMAIN (one \o r) /\ (one \o r)[i + Len(one)] = r[i]
      BY <3>1, ConcatSecond
    <3> QED BY <3>2 DEF m
  <2>3. m = 1 BY <1>6
  <2> HIDE DEF m
  <2> QED BY <2>1, <2>2, <2>3
<1> HIDE DEF kids
<1>8. ASSUME NEW child \in Range(kids) PROVE child = proxy \/ \E i \in 1 .. u : child = b[i]
  <2>1. PICK i \in DOMAIN kids : child = kids[i] BY DEF Range
  <2>2. CASE i \in DOMAIN one /\ kids[i] = one[i] BY <1>6, <2>1, <2>2
  <2>3. CASE i - 1 \in DOMAIN r /\ kids[i] = r[i - 1]
    <3> DEFINE j == i - 1
    <3>1. j \in 1 .. u - 1 /\ child = r[j] BY <1>7, <2>1, <2>3
    <3> HIDE DEF j
    <3>2. u - j \in 1 .. u BY <1>1, <3>1
    <3>3. child = b[u - j] BY <1>5, <3>1
    <3> QED BY <3>2, <3>3
  <2> QED BY <1>0, <2>2, <2>3
<1>9. proxy \in Range(kids) BY <1>0, <1>6 DEF Range
<1>10. ASSUME NEW i \in 1 .. u - 1 PROVE b[i] \in Range(kids)
  <2> DEFINE j == u - i
  <2>1. j \in 1 .. u - 1 /\ u - j = i BY <1>1
  <2> HIDE DEF j
  <2>2. r[j] = b[u - j] /\ j \in DOMAIN r BY <1>5, <1>7, <2>1
  <2>3. j + 1 \in DOMAIN kids /\ kids[j + 1] = r[j] BY <1>0, <2>2
  <2> QED BY <2>1, <2>2, <2>3 DEF Range
<1>11. Range(proxy.children) = {b[u]} BY <1>4, <1>5, Children
<1>12. RightNode(node, ts) BY <1>3, WordNode
<1>13. RightNode(proxy, ts) BY <1>4, PlainNode DEF Speaking
<1>14. 2 \in Nat /\ 2 >= 1 /\ 2 >= 2 OBVIOUS
<1>15. ASSUME NEW i \in 1 .. u
       PROVE  \/ 2 >= 1 /\ b[i] \in Range(node.children)
              \/ 2 >= 2 /\ \E child \in Range(node.children) : b[i] \in Range(child.children)
  <2>1. CASE i = u BY <1>3, <1>9, <1>11, <1>14, <2>1
  <2>2. CASE i # u
    <3>1. i \in 1 .. u - 1 BY <1>1, <2>2
    <3> QED BY <1>3, <1>10, <1>14, <3>1
  <2> QED BY <2>1, <2>2
<1>16. ASSUME NEW child \in Range(node.children)
       PROVE  \/ \E i \in 1 .. u : child = b[i]
              \/ /\ RightNode(child, ts)
                 /\ \A other \in Range(child.children) : \E i \in 1 .. u : other = b[i]
  <2>1. u \in 1 .. u BY <1>1
  <2>2. child = proxy \/ \E i \in 1 .. u : child = b[i] BY <1>3, <1>8
  <2> QED BY <1>11, <1>13, <2>1, <2>2
<1>17. Grows(b, Replacing(b, u, node), 2, ts) BY <1>1, <1>12, <1>14, <1>15, <1>16, GrowsTree
<1> QED BY <1>3, <1>17 DEF Speaking

LEMMA ParameterListWords == ASSUME WInv, ParameterList PROVE WInv'
<1> DEFINE it == DoWith("First parameter", Doing.op)
           items == <<it>>
<1>1. At("Parameter list") /\ Expect("(", items) BY DEF ParameterList
<1>2. Doing.does = "Parameter list" /\ Running BY <1>1 DEF At
<1>3. Counts(Doing, 1, 2) BY <1>2 DEF Counts, Uses, Gives, Weight
<1>4. "Parameter list" \in Named /\ "Parameter list" \notin Builds \union Pops
  BY DEF Named, Builds, Pops
<1>5. CASE Peek = "("
  <2>1. Take(1) /\ Then(items) /\ Silent BY <1>1, <1>5 DEF Expect
  <2>2. Took(Here) /\ Here.is = Peek /\ ItemOK(Doing, taken') BY <1>1, <1>4, <2>1, HereTaken
  <2>3. Kept(Doing.op, taken') BY <1>2, <1>4, <2>2 DEF ItemOK
  <2>4. Here.is \notin Speech BY <1>5, <2>2, Mute DEF Marks
  <2>5. Due(it, taken', 1, 2) BY <2>3, DueName
  <2>6. it.does \in Named /\ it.op = Doing.op BY DEF DoWith, Item, Named
  <2> HIDE DEF it
  <2>7. 1 \in Nat /\ 2 \in Nat /\ 2 <= 2 + 2 OBVIOUS
  <2>8. Serves(items, taken', 1, 2) BY <2>5, <2>7, ServesOne
  <2>9. Holds(items, it) BY HoldsOne
  <2> HIDE DEF items
  <2> QED BY <1>1, <1>3, <1>4, <2>1, <2>2, <2>4, <2>6, <2>7, <2>8, <2>9, HeldTake
<1>6. CASE Peek # "("
  <2>1. Fail BY <1>1, <1>6 DEF Expect
  <2> QED BY <1>2, <2>1, HaltsEach
<1> QED BY <1>5, <1>6

LEMMA FirstParameterWords == ASSUME WInv, FirstParameter PROVE WInv'
<1>1. At("First parameter") BY DEF FirstParameter
<1>2. Doing.does = "First parameter" /\ Running BY <1>1 DEF At
<1>3. Counts(Doing, 1, 2) BY <1>2 DEF Counts, Uses, Gives, Weight
<1>4. "First parameter" \in Named BY DEF Named
<1>5. CASE Peek = ","
  <2>1. Fail BY <1>5 DEF FirstParameter
  <2> QED BY <1>2, <2>1, HaltsEach
<1>6. CASE Peek # ","
  <2> DEFINE it == DoWith("Parameters", Doing.op)
             items == <<it>>
  <2>1. Then(items) /\ Silent /\ Staying BY <1>6 DEF FirstParameter, Staying
  <2>2. Kept(Doing.op, taken) BY <1>1, <1>2, <1>4, AtFacts DEF ItemOK
  <2>3. Due(it, taken, 1, 2) BY <2>2, DueName
  <2>4. it.does \in Named /\ it.op = Doing.op BY DEF DoWith, Item, Named
  <2> HIDE DEF it
  <2>5. 1 \in Nat /\ 2 \in Nat /\ 2 <= 2 OBVIOUS
  <2>6. Serves(items, taken, 1, 2) BY <2>3, <2>5, ServesOne
  <2>7. Holds(items, it) BY HoldsOne
  <2> HIDE DEF items
  <2> QED BY <1>1, <1>3, <1>4, <2>1, <2>4, <2>5, <2>6, <2>7, HeldStay
<1> QED BY <1>5, <1>6

\* One more parameter, after n.
LEMMA ServesParameter ==
  ASSUME NEW n \in Nat, NEW ts, Kept(Doing.op, ts), n = Doing.n, NEW v, v = n + 1
  PROVE  \E items, it : /\ AParameter <=> Then(items)
                        /\ Serves(items, ts, v, 2)
                        /\ Holds(items, it) /\ it.does \in Named /\ it.op = Doing.op
<1> DEFINE k == n + 1
           to == Item("Parameter", k, 0, Doing.op)
           items == <<Do("Base type"), Do("Declarator"), to>>
           u == k + 1
<1>1. AParameter <=> Then(items) BY DEF AParameter
<1>2. /\ k \in Nat /\ u \in Nat /\ u >= 1 /\ v = u - 1 /\ 2 \in Nat BY DEF k
<1> HIDE DEF k
<1>3. /\ to.does = "Parameter" /\ to.op = Doing.op /\ to.n = k BY DEF Item
<1>4. to.does \in Packing /\ to.does \in Named BY <1>3 DEF Packing, Named
<1>5. Uses(to) = u /\ Gives(to) = 1 /\ Weight(to) = 2 BY <1>3 DEF Uses, Gives, Weight
<1>6. ItemOK(to, ts)
  <2>1. /\ to.does \notin Members \union {"Lhs", "Rhs", "Field end"} BY <1>3 DEF Members
  <2> QED BY <1>2, <1>3, <2>1 DEF ItemOK
<1> HIDE DEF to, u
<1>7. Serves(items, ts, v, 2) BY <1>2, <1>4, <1>5, <1>6, ServesPack
<1>8. Holds(items, to) BY HoldsThree
<1> HIDE DEF items
<1> QED BY <1>1, <1>3, <1>4, <1>7, <1>8

LEMMA ParametersWords == ASSUME WInv, Parameters PROVE WInv'
<1> DEFINE n == Doing.n
           v == n + 1
<1>1. At("Parameters") BY DEF Parameters
<1>2. Doing.does = "Parameters" /\ Running BY <1>1 DEF At
<1>3. n \in Nat /\ v \in Nat /\ 2 \in Nat /\ 2 <= 2 /\ 2 <= 2 + 2
  <2>1. Doing.n \in Nat BY <1>1, AtFacts
  <2> QED BY <2>1
<1>4. Counts(Doing, v, 2) BY <1>2 DEF Counts, Uses, Gives, Weight
<1>5. "Parameters" \in Named /\ "Parameters" \notin Builds \union Pops BY DEF Named, Builds, Pops
<1>6. Kept(Doing.op, taken) BY <1>1, <1>2, <1>5, AtFacts DEF ItemOK
<1>7. v = n + 1 /\ n = Doing.n OBVIOUS
<1>8. CASE Peek = ")" /\ Take(1) /\ Then(<<Item("After parameters", n, 0, Doing.op)>>) /\ Silent
  <2> DEFINE it == Item("After parameters", n, 0, Doing.op)
             items == <<it>>
  <2> HIDE DEF n, v
  <2>1. Then(items) /\ Silent BY <1>8
  <2>2. Took(Here) /\ Here.is = Peek /\ ItemOK(Doing, taken') BY <1>1, <1>5, <1>8, HereTaken
  <2>3. Kept(Doing.op, taken') BY <1>2, <1>5, <2>2 DEF ItemOK
  <2>4. Here.is \notin Speech BY <1>8, <2>2, Mute DEF Marks
  <2>5. Due(it, taken', v, 2)
    <3>1. Due(it, taken', n + 1, 2) BY <1>3, <2>3, DueParameters
    <3> QED BY <1>7, <3>1
  <2>6. it.does \in Named /\ it.op = Doing.op BY DEF Item, Named
  <2> HIDE DEF it
  <2>7. Serves(items, taken', v, 2) BY <1>3, <2>5, ServesOne
  <2>8. Holds(items, it) BY HoldsOne
  <2> HIDE DEF items
  <2> QED BY <1>1, <1>3, <1>4, <1>5, <2>1, <2>2, <2>4, <2>6, <2>7, <2>8, HeldTake
<1>9. CASE Peek = "," /\ Take(1) /\ AParameter /\ Silent
  <2> HIDE DEF n, v
  <2>1. Took(Here) /\ Here.is = Peek /\ ItemOK(Doing, taken') BY <1>1, <1>5, <1>9, HereTaken
  <2>2. Kept(Doing.op, taken') BY <1>2, <1>5, <2>1 DEF ItemOK
  <2>3. Here.is \notin Speech BY <1>9, <2>1, Mute DEF Marks
  <2>4. PICK items, it : /\ AParameter <=> Then(items)
                         /\ Serves(items, taken', v, 2)
                         /\ Holds(items, it) /\ it.does \in Named /\ it.op = Doing.op
    BY <1>3, <1>7, <2>2, ServesParameter
  <2>5. Then(items) /\ Silent BY <1>9, <2>4
  <2> QED BY <1>1, <1>3, <1>4, <1>5, <2>1, <2>3, <2>4, <2>5, HeldTake
<1>10. CASE AParameter /\ Silent /\ UNCHANGED tokenVars
  <2> HIDE DEF n, v
  <2>1. PICK items, it : /\ AParameter <=> Then(items)
                         /\ Serves(items, taken, v, 2)
                         /\ Holds(items, it) /\ it.does \in Named /\ it.op = Doing.op
    BY <1>3, <1>6, <1>7, ServesParameter
  <2>2. Then(items) /\ Silent /\ Staying BY <1>10, <2>1 DEF Staying
  <2> QED BY <1>1, <1>3, <1>4, <1>5, <2>1, <2>2, HeldStay
<1>11. CASE Fail BY <1>2, <1>11, HaltsEach
<1> QED BY <1>8, <1>9, <1>10, <1>11 DEF Parameters

\* The node on top says what its token says.
LEMMA TopRight ==
  ASSUME WInv, Running, built # <<>> PROVE RightNode(built[1], taken)
<1>1. IsList(built) /\ SaidRight(built, taken) BY DEF WInv
<1>2. 0 \in Nat OBVIOUS
<1>3. Below(Range(built), 0, built[1]) BY <1>1, <1>2, TopBelow
<1>4. InTrees(Range(built), built[1])
  <2>1. \A k \in 0 .. 0 : k \in Nat OBVIOUS
  <2> QED BY <1>3, <2>1 DEF Below, InTrees
<1> QED BY <1>1, <1>4 DEF SaidRight

\* A declared name is made into something that says the same.
LEMMA Dresses ==
  ASSUME WInv, Running, Doing.does \in Packing, Uses(Doing) >= 1, NEW ts, Longs(taken, ts),
         NEW node,
         node.class \in {"ParamVarDecl", "FieldDecl"}, node.says = built[1].says,
         node.at = built[1].at, node.children = built[1].children
  PROVE  Grows(built, Replacing(built, 1, node), 0, ts)
<1>1. /\ IsList(built) /\ Len(built) \in Nat /\ Uses(Doing) \in 0 .. Len(built)
  BY DoingFacts
<1>2. 1 \in 0 .. Len(built) /\ Len(built) # 0 BY <1>1
<1>3. built # <<>> BY <1>2
<1>4. built[1].class = "VarPack" BY PackThere
<1>5. RightNode(built[1], taken) BY <1>3, TopRight
<1>6. built[1].class \in Speaking /\ node.class \in Speaking /\ node.class # "ExplicitCastExpr"
  BY <1>4 DEF Speaking
<1>7. RightNode(built[1], ts) BY <1>5, StillKept
<1>8. RightNode(node, ts) BY <1>6, <1>7 DEF RightNode
<1> QED BY <1>1, <1>2, <1>6, <1>8, GrowsDressed

LEMMA BuildParameterWords == ASSUME WInv, BuildParameter PROVE WInv'
<1> DEFINE n == Doing.n
           v == n + 1
           node == ParamVarDecl(built[1])
           it == Item("Parameters", n, 0, Doing.op)
           items == <<it>>
<1>1. /\ At("Parameter") /\ Replace(1, node) /\ Then(items) /\ outcome' = outcome /\ Staying
  BY DEF BuildParameter, Staying
<1>2. Doing.does = "Parameter" /\ Running BY <1>1 DEF At
<1>3. n \in Nat /\ v \in Nat /\ v >= 1
  <2>1. Doing.n \in Nat BY <1>1, AtFacts
  <2> QED BY <2>1
<1>4. Counts(Doing, v, 2) /\ v = n + 1 BY <1>2 DEF Counts, Uses, Gives, Weight
<1>5. /\ "Parameter" \in Named /\ Doing.does \in Packing
      /\ "Parameter" \notin Packed \union {"Declarator"}
  BY <1>2 DEF Named, Packing, Packed
<1>6. Kept(Doing.op, taken) BY <1>1, <1>2, <1>5, AtFacts DEF ItemOK
<1>7. /\ node.class = "ParamVarDecl" /\ node.says = built[1].says /\ node.at = built[1].at
      /\ node.children = built[1].children
  BY DEF ParamVarDecl, Node
<1> HIDE DEF node, v, n
<1>8. Due(it, taken, v, 2)
  <2>1. Due(it, taken, n + 1, 2) BY <1>3, <1>6, DueParameters
  <2> QED BY <1>4, <2>1
<1>9. it.does \in Named /\ it.op = Doing.op BY DEF Item, Named
<1> HIDE DEF it
<1>10. Longs(taken, taken)
  <2>1. Longs(taken, taken') /\ taken' = taken BY <1>1, StayFacts DEF WInv
  <2> QED BY <2>1
<1>11. Uses(Doing) >= 1 BY <1>3, <1>4 DEF Counts
<1>12. Grows(built, Replacing(built, 1, node), 0, taken) BY <1>2, <1>5, <1>7, <1>10, <1>11, Dresses
<1>13. /\ 0 \in Nat /\ 2 \in Nat /\ 1 \in 0 .. v /\ v = v - 1 + 1 /\ 0 + 2 <= 2
  BY <1>3
<1>14. Serves(items, taken, v, 2) BY <1>3, <1>8, <1>13, ServesOne
<1>15. Holds(items, it) BY HoldsOne
<1> HIDE DEF items
<1>16. HandsOn(Doing, items, built') BY <1>2, <1>5, <1>9, <1>15, HandsHeld
<1> QED BY <1>1, <1>3, <1>4, <1>5, <1>12, <1>13, <1>14, <1>16, BuildStay

LEMMA AfterParametersWords == ASSUME WInv, AfterParameters PROVE WInv'
<1> DEFINE n == Doing.n
           v == n + 1
<1>1. At("After parameters") BY DEF AfterParameters
<1>2. Doing.does = "After parameters" /\ Running BY <1>1 DEF At
<1>3. n \in Nat /\ v \in Nat /\ v >= 1
  <2>1. Doing.n \in Nat BY <1>1, AtFacts
  <2> QED BY <2>1
<1>4. Counts(Doing, v, 2) /\ v = n + 1 /\ n = Doing.n BY <1>2 DEF Counts, Uses, Gives, Weight
<1>5. "After parameters" \in Named /\ "After parameters" \notin Builds \union Pops
  BY DEF Named, Builds, Pops
<1>6. Kept(Doing.op, taken) BY <1>1, <1>2, <1>5, AtFacts DEF ItemOK
<1>7. CASE /\ Silent /\ UNCHANGED tokenVars
           /\ Then(<<Do("Block"), Item("Function body", Doing.n, 0, Doing.op)>>)
  <2> DEFINE it == Item("Function body", n, 0, Doing.op)
             items == <<Do("Block"), it>>
             u == n + 2
  <2>1. Then(items) /\ Silent /\ Staying BY <1>7 DEF Staying
  <2>2. u = n + 2 /\ u \in Nat /\ u >= 1 /\ v = u - 1 BY <1>3
  <2> HIDE DEF n, v, u
  <2>3. Due(it, taken, u, 2)
    <3>1. Due(it, taken, n + 2, 2) BY <1>3, <1>6, DueFunction
    <3> QED BY <2>2, <3>1
  <2>4. it.does \in Named /\ it.op = Doing.op BY DEF Item, Named
  <2> HIDE DEF it
  <2>5. Due(Do("Block"), taken, 0, 0) BY DueDo
  <2>6. 2 \in Nat /\ 2 <= 2 OBVIOUS
  <2>7. Serves(items, taken, v, 2) BY <2>2, <2>3, <2>5, <2>6, ServesPair
  <2>8. Holds(items, it) BY HoldsTwo
  <2> HIDE DEF items
  <2> QED BY <1>1, <1>3, <1>4, <1>5, <2>1, <2>4, <2>6, <2>7, <2>8, HeldStay
<1>8. CASE Peek = ";" /\ Take(1) /\ BuildFunction(Doing.n) /\ Return /\ UNCHANGED outcome
  <2> DEFINE node == FuncDeclStmt(Doing.op, Newest(v))
  <2>1. Replace(v, node) /\ Then(<<>>) BY <1>8 DEF BuildFunction, Return
  <2>2. Took(Here) /\ Here.is = Peek /\ ItemOK(Doing, taken') BY <1>1, <1>5, <1>8, HereTaken
  <2>3. Kept(Doing.op, taken') BY <1>2, <1>5, <2>2 DEF ItemOK
  <2>4. Here.is \notin Speech BY <1>8, <2>2, Mute DEF Marks
  <2> HIDE DEF v, n
  <2>5. IsList(built) /\ v \in 1 .. Len(built)
    <3>1. v <= Len(built) /\ Len(built) \in Nat BY <1>2, <1>3, <1>4, Others
    <3>2. IsList(built) BY <1>1, AtFacts
    <3> QED BY <1>3, <3>1, <3>2
  <2>6. node = FuncDeclStmt(Doing.op, Reverse(SubSeq(built, 1, v))) BY DEF Newest
  <2> HIDE DEF node
  <2>7. /\ node.class \in Speaking /\ node.at = Doing.op.at
        /\ Grows(built, Replacing(built, v, node), 2, taken')
    BY <2>3, <2>5, <2>6, FunctionNode
  <2>8. 2 \in Nat /\ v \in 0 .. v /\ 2 <= 2 + 2 /\ 1 = v - v + 1 BY <1>3
  <2>9. Serves(<<>>, taken', 1, 0) BY ServesNone
  <2> QED BY <1>1, <1>3, <1>4, <1>5, <1>8, <2>1, <2>2, <2>4, <2>7, <2>8, <2>9, NamedTake
<1>9. CASE Fail BY <1>2, <1>9, HaltsEach
<1> QED BY <1>7, <1>8, <1>9 DEF AfterParameters

LEMMA FunctionBodyWords == ASSUME WInv, FunctionBody PROVE WInv'
<1> DEFINE v == Doing.n + 2
           node == FuncDeclStmt(Doing.op, Newest(v))
<1>1. At("Function body") /\ Then(<<>>) /\ UNCHANGED outcome /\ Staying
  BY DEF FunctionBody, Return, Staying
<1>2. Doing.does = "Function body" /\ Running BY <1>1 DEF At
<1>3. v \in Nat /\ v >= 1 /\ Doing.n + 1 + 1 = v
  <2>1. Doing.n \in Nat BY <1>1, AtFacts
  <2> QED BY <2>1
<1>4. Counts(Doing, v, 2) BY <1>2 DEF Counts, Uses, Gives, Weight
<1>5. "Function body" \in Named BY DEF Named
<1>6. Kept(Doing.op, taken) BY <1>1, <1>2, <1>5, AtFacts DEF ItemOK
<1>7. Replace(v, node)
  <2>1. BuildFunction(Doing.n + 1) BY DEF FunctionBody
  <2>2. Replace(Doing.n + 1 + 1, FuncDeclStmt(Doing.op, Newest(Doing.n + 1 + 1)))
    BY <2>1 DEF BuildFunction
  <2> HIDE DEF v
  <2> QED BY <1>3, <2>2
<1> HIDE DEF v
<1>8. IsList(built) /\ v \in 1 .. Len(built)
  <2>1. v <= Len(built) /\ Len(built) \in Nat BY <1>2, <1>3, <1>4, Others
  <2>2. IsList(built) BY <1>1, AtFacts
  <2> QED BY <1>3, <2>1, <2>2
<1>9. node = FuncDeclStmt(Doing.op, Reverse(SubSeq(built, 1, v))) BY DEF Newest
<1> HIDE DEF node
<1>10. /\ node.class \in Speaking /\ node.at = Doing.op.at
       /\ Grows(built, Replacing(built, v, node), 2, taken)
  BY <1>6, <1>8, <1>9, FunctionNode
<1>11. 2 \in Nat /\ v \in 0 .. v /\ 2 <= 2 /\ 1 = v - v + 1 BY <1>3
<1>12. Serves(<<>>, taken, 1, 0) BY ServesNone
<1> QED BY <1>1, <1>3, <1>4, <1>5, <1>7, <1>10, <1>11, <1>12, NamedStay

-----------------------------------------------------------------------------
(* The steps of a struct's declaration, and those of a file.               *)

\* One more field, after n.
LEMMA ServesField ==
  ASSUME NEW n \in Nat, NEW ts, Kept(Doing.op, ts), n = Doing.n
  PROVE  \E it : /\ Serves(AField, ts, n, 0)
                 /\ Holds(AField, it) /\ it.does \in Named /\ it.op = Doing.op
<1> DEFINE k == n + 1
           to == Item("Field end", k, 0, Doing.op)
           items == <<Do("Base type"), Do("Declarator"), to>>
<1>1. AField = items BY DEF AField
<1>2. k \in Nat /\ k >= 1 /\ n = k - 1 /\ 0 \in Nat OBVIOUS
<1> HIDE DEF k
<1>3. to.does = "Field end" /\ to.op = Doing.op /\ to.n = k BY DEF Item
<1>4. to.does \in Packing /\ to.does \in Named BY <1>3 DEF Packing, Named
<1>5. Uses(to) = k /\ Gives(to) = 1 /\ Weight(to) = 0 BY <1>3 DEF Uses, Gives, Weight
<1>6. ItemOK(to, ts)
  <2>1. to.does \notin Members \union {"Lhs", "Rhs"} BY <1>3 DEF Members
  <2> QED BY <1>2, <1>3, <2>1 DEF ItemOK
<1> HIDE DEF to
<1>7. Serves(items, ts, n, 0) BY <1>2, <1>4, <1>5, <1>6, ServesPack
<1>8. Holds(items, to) BY HoldsThree
<1> HIDE DEF items
<1> QED BY <1>1, <1>3, <1>4, <1>7, <1>8

LEMMA FieldsWords == ASSUME WInv, Fields PROVE WInv'
<1> DEFINE n == Doing.n
<1>1. At("Fields") /\ UNCHANGED outcome BY DEF Fields
<1>2. Doing.does = "Fields" /\ Running BY <1>1 DEF At
<1>3. n \in Nat /\ 0 \in Nat /\ 0 <= 0 /\ n = Doing.n BY <1>1, AtFacts
<1>4. Counts(Doing, n, 0) BY <1>2 DEF Counts, Uses, Gives, Weight
<1>5. "Fields" \in Named /\ "Fields" \notin Builds \union Pops BY DEF Named, Builds, Pops
<1>6. Kept(Doing.op, taken) BY <1>1, <1>2, <1>5, AtFacts DEF ItemOK
<1>7. CASE Peek = "}" /\ Take(1) /\ Replace(n, RecordDecl(Doing.op, Newest(n))) /\ Return
  <2> DEFINE node == RecordDecl(Doing.op, Newest(n))
  <2>1. Replace(n, node) /\ Then(<<>>) BY <1>7 DEF Return
  <2>2. Took(Here) /\ Here.is = Peek /\ ItemOK(Doing, taken') BY <1>1, <1>5, <1>7, HereTaken
  <2>3. Kept(Doing.op, taken') BY <1>2, <1>5, <2>2 DEF ItemOK
  <2>4. Here.is \notin Speech BY <1>7, <2>2, Mute DEF Marks
  <2>5. /\ node.class = "RecordDecl" /\ node.class \in Speaking /\ node.children = Newest(n)
        /\ node.at = Doing.op.at /\ node.says = Doing.op.is
    BY DEF RecordDecl, Node, Speaking
  <2> HIDE DEF node, n
  <2>6. RightNode(node, taken') BY <2>3, <2>5, WordNode
  <2>7. n <= Len(built) BY <1>2, <1>3, <1>4, Others
  <2>8. Grows(built, Replacing(built, n, node), 1, taken')
    BY <1>2, <1>3, <2>5, <2>6, <2>7, CountedNode
  <2>9. 1 \in Nat /\ n \in 0 .. n /\ 1 <= 0 + 2 /\ 1 = n - n + 1 BY <1>3
  <2>10. Serves(<<>>, taken', 1, 0) BY ServesNone
  <2> QED BY <1>1, <1>3, <1>4, <1>5, <1>7, <2>1, <2>2, <2>4, <2>5, <2>8, <2>9, <2>10, NamedTake
<1>8. CASE /\ UNCHANGED <<built, tokenVars>>
           /\ Then(<<Do("Struct"), Item("Fields", n + 1, 0, Doing.op)>>)
  <2> DEFINE k == n + 1
             it == Item("Fields", k, 0, Doing.op)
             items == <<Do("Struct"), it>>
  <2>1. Then(items) /\ Silent /\ Staying BY <1>1, <1>8 DEF Silent, Staying
  <2>2. k \in Nat /\ k >= 1 /\ n = k - 1 BY <1>3
  <2> HIDE DEF k, n
  <2>3. Due(it, taken, k, 0) BY <1>6, <2>2, DueCounted
  <2>4. it.does \in Named /\ it.op = Doing.op BY DEF Item, Named
  <2> HIDE DEF it
  <2>5. Due(Do("Struct"), taken, 0, 0) BY DueDo
  <2>6. Serves(items, taken, n, 0) BY <1>3, <2>2, <2>3, <2>5, ServesPair
  <2>7. Holds(items, it) BY HoldsTwo
  <2> HIDE DEF items
  <2> QED BY <1>1, <1>3, <1>4, <1>5, <2>1, <2>4, <2>6, <2>7, HeldStay
<1>9. CASE Then(AField) /\ UNCHANGED <<built, tokenVars>>
  <2>1. Then(AField) /\ Silent /\ Staying BY <1>1, <1>9 DEF Silent, Staying
  <2> HIDE DEF n
  <2>2. PICK it : /\ Serves(AField, taken, n, 0)
                  /\ Holds(AField, it) /\ it.does \in Named /\ it.op = Doing.op
    BY <1>3, <1>6, ServesField
  <2> QED BY <1>1, <1>3, <1>4, <1>5, <2>1, <2>2, HeldStay
<1> QED BY <1>7, <1>8, <1>9 DEF Fields

LEMMA FieldEndWords == ASSUME WInv, FieldEnd PROVE WInv'
<1> DEFINE n == Doing.n
           node == FieldDecl(built[1])
<1>1. At("Field end") BY DEF FieldEnd
<1>2. Doing.does = "Field end" /\ Running BY <1>1 DEF At
<1>3. n \in Nat /\ n >= 1 /\ n = Doing.n
  <2>1. ItemOK(Doing, taken) /\ Doing.n \in Nat BY <1>1, AtFacts
  <2> QED BY <1>2, <2>1 DEF ItemOK
<1>4. Counts(Doing, n, 0) BY <1>2 DEF Counts, Uses, Gives, Weight
<1>5. /\ "Field end" \in Named /\ "Field end" \notin Builds \union Pops
      /\ "Field end" \notin Packed \union {"Declarator"} /\ Doing.does \in Packing
  BY <1>2 DEF Named, Builds, Pops, Packed, Packing
<1>6. CASE Peek \in {",", ";"}
  <2> DEFINE items == IF Peek = "," THEN AField ELSE <<Item("Fields", n, 0, Doing.op)>>
  <2>1. Take(1) /\ Replace(1, node) /\ outcome' = outcome /\ Then(items) BY <1>6 DEF FieldEnd
  <2>2. Took(Here) /\ Here.is = Peek /\ ItemOK(Doing, taken') BY <1>1, <1>5, <2>1, HereTaken
  <2>3. Kept(Doing.op, taken') BY <1>2, <1>5, <2>2 DEF ItemOK
  <2>4. Here.is \notin Speech BY <1>6, <2>2, Mute DEF Marks
  <2>5. /\ node.class = "FieldDecl" /\ node.says = built[1].says /\ node.at = built[1].at
        /\ node.children = built[1].children
    BY DEF FieldDecl, Node
  <2> HIDE DEF node, n
  <2>6. Longs(taken, taken') BY <2>2, TookFacts DEF WInv
  <2>7. Uses(Doing) >= 1 BY <1>3, <1>4 DEF Counts
  <2>8. Grows(built, Replacing(built, 1, node), 0, taken')
    <3>1. node.class \in {"ParamVarDecl", "FieldDecl"} BY <2>5
    <3>2. Running /\ Doing.does \in Packing BY <1>2, <1>5
    <3> QED BY <2>5, <2>6, <2>7, <3>1, <3>2, Dresses
  <2>9. \E it : /\ Serves(items, taken', n, 0)
                /\ Holds(items, it) /\ it.does \in Named /\ it.op = Doing.op
    <3>1. CASE Peek = ","
      <4>1. items = AField BY <3>1
      <4> HIDE DEF items
      <4>2. \E it : /\ Serves(AField, taken', n, 0)
                    /\ Holds(AField, it) /\ it.does \in Named /\ it.op = Doing.op
        BY <1>3, <2>3, ServesField
      <4> QED BY <4>1, <4>2
    <3>2. CASE Peek # ","
      <4> DEFINE it == Item("Fields", n, 0, Doing.op)
                 one == <<it>>
      <4>1. items = one BY <3>2
      <4> HIDE DEF items
      <4>2. Due(it, taken', n, 0) BY <1>3, <2>3, DueCounted
      <4>3. it.does \in Named /\ it.op = Doing.op BY DEF Item, Named
      <4> HIDE DEF it
      <4>4. 0 \in Nat OBVIOUS
      <4>5. Serves(one, taken', n, 0) BY <1>3, <4>2, <4>4, ServesOne
      <4>6. Holds(one, it) BY HoldsOne
      <4> HIDE DEF one
      <4> QED BY <4>1, <4>3, <4>5, <4>6
    <3> QED BY <3>1, <3>2
  <2> HIDE DEF items
  <2>10. PICK it : /\ Serves(items, taken', n, 0)
                   /\ Holds(items, it) /\ it.does \in Named /\ it.op = Doing.op
    BY <2>9
  <2>11. HandsOn(Doing, items, built') BY <1>2, <1>5, <2>10, HandsHeld
  <2>12. Accounts(taken', items, built') BY <2>2, <2>4, AccountsMute
  <2>13. /\ 0 \in Nat /\ 1 \in 0 .. n /\ n = n - 1 + 1 /\ 0 + 0 <= 0 + 2 BY <1>3
  <2> QED BY <1>1, <1>3, <1>4, <1>5, <2>1, <2>2, <2>8, <2>10, <2>11, <2>12, <2>13, BuildTake
<1>7. CASE Peek \notin {",", ";"}
  <2>1. Fail BY <1>7 DEF FieldEnd
  <2> QED BY <1>2, <2>1, HaltsEach
<1> QED BY <1>6, <1>7

LEMMA FileWords == ASSUME WInv, File PROVE WInv'
<1>1. At("File") BY DEF File
<1>2. Doing.does = "File" /\ Running BY <1>1 DEF At
<1>3. "File" \in Quiet /\ "File" \notin Builds \union Pops BY DEF Quiet, Builds, Pops
<1>4. CASE Peek = ";"
  <2>1. Take(1) /\ UNCHANGED <<todo, built, outcome>> BY <1>4 DEF File
  <2>2. Took(Here) /\ Here.is = Peek BY <1>1, <1>3, <2>1, HereTaken
  <2>3. Here.is \notin Speech BY <1>4, <2>2, Mute DEF Marks
  <2>4. Doing.does \notin Named \union Casts BY <1>2, <1>3, QuietFacts
  <2>5. Len(taken') \notin WordsOf(taken')
    <3>1. taken'[Len(taken')] = Here.is BY <2>2 DEF Took
    <3> QED BY <2>3, <3>1 DEF WordsOf
  <2>6. StringsAtOnce'
    <3>1. StringsAtOnce /\ Doing = todo[1] /\ todo' = todo BY <1>2, <2>1, DoingFacts DEF WInv
    <3>2. \A i \in DOMAIN todo : todo[i].does # "Strings" BY <1>2, <3>1 DEF StringsAtOnce
    <3> QED BY <3>1, <3>2 DEF StringsAtOnce
  <2> QED BY <1>2, <2>1, <2>2, <2>4, <2>5, <2>6, SameTake
<1>5. CASE Peek # ";"
  <2>1. NoParser BY <1>5 DEF File
  <2> QED BY <1>2, <2>1, HaltsEach
<1> QED BY <1>4, <1>5

LEMMA EndOfFileWords == ASSUME WInv, EndOfFile PROVE WInv'
<1> DEFINE items == <<>>
<1>1. /\ Running /\ Doing.does = "File" /\ Then(items) /\ UNCHANGED <<built, outcome>> /\ Staying
  BY DEF EndOfFile, AtEnd, Return, Silent, Staying
<1>2. "File" \notin Packed \union {"Declarator"} \union Named \union Casts
  BY DEF Packed, Named, Casts
<1>3. /\ IsList(todo) /\ IsList(built) /\ Len(built) \in Nat BY <1>1, DoingFacts
<1>4. /\ Uses(Doing) = 0 /\ Gives(Doing) = 0 /\ Weight(Doing) = 0 BY <1>1 DEF Uses, Gives, Weight
<1>5. Typed' /\ taken' = taken /\ Longs(taken, taken') BY <1>1, StayFacts DEF WInv
<1>6. IsList(items) /\ InPlace(items)
  <2>1. DOMAIN items = {} BY EmptyList
  <2>2. IsList(items) BY ShortLists
  <2> QED BY <2>1, <2>2 DEF InPlace
<1>7. Fits(items, taken', Len(built'), Len(built) - Uses(Doing) + Gives(Doing), 0)
  <2>1. Len(built) - Uses(Doing) + Gives(Doing) = Len(built) BY <1>3, <1>4
  <2>2. Fits(items, taken', Len(built), Len(built), 0) BY <1>3, FitsNone
  <2> QED BY <1>1, <2>1, <2>2
<1> HIDE DEF items
<1>8. PacksReady' /\ StringsAtOnce' BY <1>1, <1>2, <1>3, <1>6, PlacesKept DEF WInv
<1>9. Grows(built, built', 0, taken') BY <1>1, GrowsSame
<1>10. HandsOn(Doing, items, built') BY <1>1, <1>2, HandsNone
<1>11. 0 \in Nat /\ 0 + 0 <= Weight(Doing) + 2 * (Len(taken') - Len(taken))
  <2>1. Len(taken) \in Nat BY DEF WInv, Typed
  <2> QED BY <1>4, <1>5, <2>1
<1>12. IsList(built') /\ outcome' = outcome BY <1>1, <1>3
<1> QED BY <1>1, <1>5, <1>7, <1>8, <1>9, <1>10, <1>11, <1>12, Moves

LEMMA DeclWords == ASSUME WInv, ParseDecl PROVE WInv'
  BY DeclarationWords, DeclaredWords, BaseTypeWords, SpecifiersWords, TagWords, DeclaratorWords,
     BracketsWords, ArraySizeWords, FunctionWords, ParameterListWords, FirstParameterWords,
     ParametersWords, BuildParameterWords, AfterParametersWords, FunctionBodyWords, StructWords,
     StructNameWords, StructBodyWords, FieldsWords, FieldEndWords, FileWords, EndOfFileWords
  DEF ParseDecl

LEMMA ExprWords == ASSUME WInv, ParseExpr PROVE WInv'
  BY NoOperatorWords, OperatorWords, BuildBinaryWords, ColonWords, BuildTernaryWords,
     PrefixOperatorWords, PrefixIncrementWords, BuildUnaryWords, SizeofWords, SizeofOperandWords,
     SizeofTypeWords, BuildSizeofWords, CastWords, CastTypeWords, BuildCastWords, TypeNameWords,
     TypeTagWords, PointersWords, ParenthesisedWords, CloseWords, IdentifierWords,
     CallOrVariableWords, ArgumentsWords, AfterArgumentWords, LiteralWords, StringLiteralWords,
     MoreStringsWords, TermExpectedWords, NoSuffixWords, SubscriptWords, EndSubscriptWords,
     MemberWords, MemberOperatorWords, FieldWords, PostfixIncrementWords
  DEF ParseExpr

-----------------------------------------------------------------------------
(* The trees of a parser that returns.                                     *)

LEMMA InitWords == Init => WInv
<1>1. SUFFICES ASSUME Init PROVE WInv OBVIOUS
<1>2. PICK input \in Inputs :
        /\ tokens = input.first /\ alphabet = input.rest /\ limit = input.limit
        /\ todo = <<Do(input.entry)>>
  BY <1>1 DEF Init
<1>3. /\ input.entry \in {"Statement", "Block", "Declaration", "File"}
      /\ input.first \in Seq(Spellings) /\ input.rest \subseteq Spellings /\ input.limit \in Nat
  BY InputsAssumption
<1>4. /\ ended = FALSE /\ taken = <<>> /\ cached = <<>> /\ built = <<>> /\ outcome = "parsing"
  BY <1>1 DEF Init
<1>5. Typed
  <2>1. <<>> \in Seq(Spellings) /\ <<>> \in Seq(Qualifiers) /\ FALSE \in BOOLEAN OBVIOUS
  <2> QED BY <1>2, <1>3, <1>4, <2>1, Zenon DEF Typed
<1> DEFINE it == Do(input.entry)
<1>6. DOMAIN todo = {1} /\ Len(todo) = 1 /\ todo[1] = it BY <1>2
<1>7. it.does = input.entry /\ it.n = 0 /\ it.op = NoToken BY DEF Do, Item
<1>8. IsList(todo) /\ IsList(built) BY <1>2, <1>4, ShortLists
<1> HIDE DEF it
<1>9. it.does \in {"Statement", "Block", "Declaration", "File"} BY <1>3, <1>7
<1>10. /\ it.does \notin
            Packed \union Packing \union {"Strings"} \union Named \union Casts \union Members
       /\ it.does \notin {"Lhs", "Rhs", "Field end"}
  BY <1>9 DEF Packed, Packing, Named, Casts, Members
<1>11. ASSUME NEW ts PROVE ItemOK(it, ts)
  <2>1. it.n \in Nat
    <3>1. 0 \in Nat OBVIOUS
    <3> QED BY <1>7, <3>1, Zenon
  <2>2. it.does \notin Named \union Casts \union Members BY <1>10, Zenon
  <2>3. it.does \notin Members /\ it.does # "Lhs" /\ it.does # "Rhs" /\ it.does # "Field end"
    BY <1>10
  <2> QED BY <1>7, <2>1, <2>2, <2>3, Zenon DEF ItemOK
<1>12. Uses(it) = 0 /\ Weight(it) = 0 BY <1>9 DEF Uses, Weight
<1>13. \A i \in DOMAIN todo : ItemOK(todo[i], taken) BY <1>6, <1>11
<1>14. PacksReady /\ StringsAtOnce
  <2>1. \A i \in DOMAIN todo : i = 1 /\ todo[i] = it BY <1>6
  <2> QED BY <1>6, <1>10, <2>1 DEF PacksReady, StringsAtOnce
<1>15. Range(built) = {} BY <1>4 DEF Range
<1>16. SaidRight(built, taken) BY <1>15 DEF SaidRight, InTrees
<1>17. Ahead(todo, built, taken)
  <2>1. Len(built) = 0 /\ Len(taken) = 0 /\ 0 \in 0 .. 2 * 0 /\ 0 \in Nat /\ 0 \in 0 .. 0 BY <1>4
  <2> DEFINE top == Gives(it)
  <2>2. top \in {0, 1} BY SmallNumbers
  <2> HIDE DEF top
  <2>3. 0 - 0 + top = top BY <2>2
  <2>4. Runs(<<it>>, 0, 0 - Uses(it) + Gives(it), Weight(it)) BY <1>12, <2>1, RunsOne
  <2>5. Runs(todo, 0, top, 0)
    <3>1. todo = <<it>> BY <1>2 DEF it
    <3> QED BY <1>12, <2>3, <2>4, <3>1 DEF top
  <2>6. WordsOf(taken) = {} BY <1>4 DEF WordsOf
  <2>7. \A d : Heard(todo, built, taken, d) BY <2>6 DEF Heard
  <2>8. Runs(todo, Len(built), top, 0) BY <2>1, <2>5
  <2>9. 0 \in 0 .. 2 * Len(taken) BY <2>1
  <2> QED BY <2>2, <2>7, <2>8, <2>9 DEF Ahead
<1>18. outcome \in Outcomes BY <1>4 DEF Outcomes
<1> QED BY <1>5, <1>8, <1>13, <1>14, <1>16, <1>17, <1>18 DEF WInv

\* One more token of the list is chosen.
LEMMA WriteWords == ASSUME WInv, Write PROVE WInv'
<1>1. /\ Supply /\ UNCHANGED <<todo, built, outcome, taken, cached, alphabet, limit>>
  BY DEF Write, Supply, controlVars
<1>2. tokens' \in Seq(Spellings) /\ ended' \in BOOLEAN
  <2>1. tokens \in Seq(Spellings) /\ alphabet \subseteq Spellings /\ ended \in BOOLEAN
    BY DEF WInv, Typed
  <2>2. CASE ended' = TRUE /\ UNCHANGED tokens BY <2>1, <2>2
  <2>3. CASE (\E t \in alphabet : tokens' = Append(tokens, t)) /\ UNCHANGED ended
    <3>1. PICK t \in alphabet : tokens' = Append(tokens, t) BY <2>3
    <3>2. t \in Spellings BY <2>1
    <3>3. Append(tokens, t) \in Seq(Spellings) BY <2>1, <3>2, AppendProperties
    <3> QED BY <2>1, <2>3, <3>1, <3>3
  <2> QED BY <1>1, <2>2, <2>3 DEF Supply
<1>3. Typed' BY <1>1, <1>2 DEF WInv, Typed
<1> QED BY <1>1, <1>3 DEF WInv, PacksReady, StringsAtOnce

LEMMA NextWords == WInv /\ [Next]_vars => WInv'
<1>1. SUFFICES ASSUME WInv, [Next]_vars PROVE WInv' OBVIOUS
<1>2. CASE ParseExpr BY <1>1, <1>2, ExprWords
<1>3. CASE ParseStmt BY <1>1, <1>3, StmtWords
<1>4. CASE ParseDecl BY <1>1, <1>4, DeclWords
<1>5. CASE Write BY <1>1, <1>5, WriteWords
<1>6. CASE Spin \/ PastEnd
  <2>1. UNCHANGED <<todo, built, tokenVars>> /\ outcome' \in Outcomes
    BY <1>6 DEF Spin, PastEnd, Ends, Outcomes
  <2> QED BY <1>1, <2>1, Halts
<1>7. CASE UNCHANGED vars
  <2>1. UNCHANGED <<todo, built, tokenVars>> /\ outcome' = outcome
    BY <1>7 DEF vars, controlVars
  <2>2. outcome' \in Outcomes BY <1>1, <2>1 DEF WInv
  <2> QED BY <1>1, <2>1, <2>2, Halts
<1> QED BY <1>1, <1>2, <1>3, <1>4, <1>5, <1>6, <1>7 DEF Next

LEMMA WordsInvariant == Spec => []WInv
  BY InitWords, NextWords, PTL DEF Spec

\* Nothing is left to do: one tree or none is built, and no generation is expected.
LEMMA NothingToDo ==
  ASSUME NEW n, NEW top, NEW w, Runs(<<>>, n, top, w)
  PROVE  n = top /\ w = 0
<1>1. Len(<<>>) = 0 OBVIOUS
<1> QED BY <1>1 DEF Runs

LEMMA OnlyTree ==
  ASSUME NEW b, IsList(b), Len(b) = 1 PROVE b # <<>> /\ Range(b) = {b[1]}
<1>1. b \in Seq(Range(b)) BY DEF IsList
<1>2. DOMAIN b = {1} BY <1>1, LenProperties
<1> QED BY <1>2 DEF Range

\* What is left when the parser has returned.
LEMMA ParsedWords ==
  ASSUME WInv, Parsed
  PROVE  /\ Len(built) \in {0, 1} /\ Len(taken) \in Nat
         /\ Heard(<<>>, built, taken, Height)
<1>1. todo = <<>> /\ taken \in Seq(Spellings) BY DEF Parsed, WInv, Typed
<1>2. Len(taken) \in Nat BY <1>1, LenProperties
<1>3. PICK top \in {0, 1}, w \in 0 .. 2 * Len(taken) :
        Runs(<<>>, Len(built), top, w) /\ Heard(<<>>, built, taken, 2 * Len(taken) - w)
  BY <1>1 DEF WInv, Ahead
<1>4. Len(built) = top /\ w = 0 BY <1>3, NothingToDo
<1>5. 2 * Len(taken) - w = Height BY <1>2, <1>4 DEF Height
<1> QED BY <1>2, <1>3, <1>4, <1>5

\* The tables of the scopes that are open are there.
ScopesKnown == /\ inside_loop \in BOOLEAN
               /\ ROOT \in DOMAIN structs /\ scope \in Seq(DOMAIN structs)

LEMMA UnitStep ==
  ASSUME ScopesKnown, Len(scope) >= 1,
         UNCHANGED unitVars \/ (\E name : add_struct_type(name) \/ create_func(name)) \/ leave_scope
  PROVE  ROOT \in DOMAIN structs' /\ scope' \in Seq(DOMAIN structs')
<1>1. ROOT \in DOMAIN structs /\ scope \in Seq(DOMAIN structs) BY DEF ScopesKnown
<1>2. CASE UNCHANGED unitVars BY <1>1, <1>2 DEF unitVars
<1>3. ASSUME NEW name, add_struct_type(name)
      PROVE  ROOT \in DOMAIN structs' /\ scope' \in Seq(DOMAIN structs')
  <2>1. scope' = scope /\ DOMAIN structs' = DOMAIN structs BY <1>3 DEF add_struct_type
  <2> QED BY <1>1, <2>1
<1>4. ASSUME NEW name, create_func(name)
      PROVE  ROOT \in DOMAIN structs' /\ scope' \in Seq(DOMAIN structs')
  <2> DEFINE D == DOMAIN structs \union {name}
  <2>1. scope' = Append(scope, name) /\ DOMAIN structs' = D BY <1>4 DEF create_func
  <2>2. scope \in Seq(D) /\ name \in D BY <1>1
  <2>3. ROOT \in D BY <1>1
  <2> HIDE DEF D
  <2>4. Append(scope, name) \in Seq(D) BY <2>2, AppendProperties
  <2> QED BY <2>1, <2>3, <2>4
<1>5. CASE leave_scope
  <2>1. scope' = SubSeq(scope, 1, Len(scope) - 1) /\ structs' = structs
    BY <1>5 DEF leave_scope, Front
  <2>2. Len(scope) \in Nat BY <1>1, LenProperties
  <2>3. \A i \in 1 .. Len(scope) - 1 : i \in 1 .. Len(scope) BY <2>2
  <2>4. \A i \in 1 .. Len(scope) : scope[i] \in DOMAIN structs BY <1>1
  <2>5. SubSeq(scope, 1, Len(scope) - 1) \in Seq(DOMAIN structs)
    BY <1>1, <2>2, <2>3, <2>4, SubSeqProperties
  <2> QED BY <1>1, <2>1, <2>5
<1> QED BY <1>2, <1>3, <1>4, <1>5

LEMMA NextScopes == IInv /\ ScopesKnown /\ [Next]_vars => ScopesKnown'
<1>1. SUFFICES ASSUME IInv, ScopesKnown, [Next]_vars PROVE ScopesKnown' OBVIOUS
<1>2. Len(scope) >= 1
  <2>1. scope = <<ROOT>> \/ scope = <<ROOT, scope[2]>> BY <1>1 DEF IInv, ScopeOpen
  <2>2. CASE scope = <<ROOT>>
    <3>1. Len(<<ROOT>>) = 1 OBVIOUS
    <3> QED BY <2>2, <3>1
  <2>3. CASE scope = <<ROOT, scope[2]>>
    <3>1. \A x : Len(<<ROOT, x>>) = 2 OBVIOUS
    <3> QED BY <2>3, <3>1
  <2> QED BY <2>1, <2>2, <2>3
<1>3. inside_loop' \in BOOLEAN
  <2>1. inside_loop' = inside_loop \/ inside_loop' \in BOOLEAN
    <3>1. CASE ParseStmt
      BY <3>1
      DEF ParseStmt, ParseEmpty, ParseStruct, ParseReturn, ReturnValue, BuildReturn, ParseJump,
          BuildJump, ParseVariable, ParseExprStmt, If, ParseDo, DoWhile, While, For,
          EnterFor, ParseCondition, Body, EndOfBody, Block, Statements, Semicolon, Unmatched,
          NoLoop, EnterLoop
    <3>2. CASE ~ParseStmt BY <1>1, <3>2 DEF Next, Write, Spin, PastEnd, Ends, vars
    <3> QED BY <3>1, <3>2
  <2> QED BY <1>1, <2>1 DEF ScopesKnown
<1>4. \/ UNCHANGED unitVars
      \/ (\E name : add_struct_type(name) \/ create_func(name))
      \/ leave_scope
  <2>1. CASE ParseDecl
    BY <2>1
    DEF ParseDecl, Declaration, Declared, BaseType, Specifiers, Tag, Declarator, Brackets,
        ArraySize, Function, ParameterList, FirstParameter, Parameters, BuildParameter,
        AfterParameters,
        FunctionBody, Struct, StructName, StructBody, Fields, FieldEnd, File, EndOfFile, SameUnit
  <2>2. CASE ~ParseDecl BY <1>1, <2>2 DEF Next, Write, Spin, PastEnd, Ends, vars
  <2> QED BY <2>1, <2>2
<1>5. ROOT \in DOMAIN structs' /\ scope' \in Seq(DOMAIN structs') BY <1>1, <1>2, <1>4, UnitStep
<1> QED BY <1>3, <1>5 DEF ScopesKnown

LEMMA ScopesInvariant == Spec => []ScopesKnown
<1>1. Init => ScopesKnown
  <2>1. SUFFICES ASSUME Init PROVE ScopesKnown OBVIOUS
  <2>2. scope = <<ROOT>> /\ DOMAIN structs = {ROOT} /\ inside_loop = FALSE
    BY <2>1 DEF Init, UnitInit
  <2>3. <<ROOT>> \in Seq({ROOT}) OBVIOUS
  <2> QED BY <2>2, <2>3 DEF ScopesKnown
<1>2. Spec => [](IInv /\ ScopesKnown)
  <2>1. IInv /\ ScopesKnown /\ [Next]_vars => (IInv /\ ScopesKnown)' BY NextInv, NextScopes
  <2> QED BY <1>1, <2>1, InitInv, PTL DEF Spec
<1> QED BY <1>2, PTL

\* Whatever the list of tokens, what the parser keeps are tokens, nodes for its callers
\* and tables that are there: one scope is open, or that of a function within it.
THEOREM ParserTypeCorrect == Spec => []TypeOK
<1>1. ASSUME WInv, IInv, ScopesKnown PROVE TypeOK
  <2>1. /\ tokens \in Seq(Spellings) /\ taken \in Seq(Spellings) /\ cached \in Seq(Qualifiers)
        /\ ended \in BOOLEAN /\ outcome \in Outcomes /\ inside_loop \in BOOLEAN
    BY <1>1 DEF WInv, Typed, ScopesKnown
  <2>2. ASSUME NEW i \in DOMAIN todo PROVE todo[i].op.is \in Spellings \union {""}
    <3>1. todo[i].op = NoToken \/ Kept(todo[i].op, taken) BY <1>1, <2>2 DEF WInv, ItemOK
    <3>2. CASE todo[i].op = NoToken
      <4>1. NoToken.is = "" BY DEF NoToken
      <4> QED BY <3>2, <4>1
    <3>3. CASE Kept(todo[i].op, taken)
      <4>1. \A k \in DOMAIN taken : taken[k] \in Spellings BY <2>1
      <4> QED BY <3>3, <4>1, Zenon DEF Kept
    <3> QED BY <3>1, <3>2, <3>3
  <2>3. Len(scope) \in 1 .. 2
    <3>1. scope = <<ROOT>> \/ scope = <<ROOT, scope[2]>> BY <1>1 DEF IInv, ScopeOpen
    <3>2. Len(<<ROOT>>) = 1 /\ \A x : Len(<<ROOT, x>>) = 2 OBVIOUS
    <3>3. Len(scope) = 1 \/ Len(scope) = 2 BY <3>1, <3>2
    <3> QED BY <3>3
  <2>4. \A i \in DOMAIN scope : scope[i] \in DOMAIN structs
    <3>1. scope \in Seq(DOMAIN structs) BY <1>1 DEF ScopesKnown
    <3> QED BY <3>1
  <2>5. \A i \in DOMAIN todo : todo[i].op.is \in Spellings \union {""} BY <2>2
  <2> QED BY <2>1, <2>3, <2>4, <2>5, Zenon DEF TypeOK, Outcomes
<1> QED BY <1>1, WordsInvariant, Invariant, ScopesInvariant, PTL

\* Whatever the list of tokens, a parser that returns has built one tree at most:
\* every node that was built has been taken by a caller.
THEOREM OneTree == Spec => [](Parsed => Len(built) \in {0, 1})
<1>1. WInv => (Parsed => Len(built) \in {0, 1}) BY ParsedWords
<1> QED BY <1>1, WordsInvariant, PTL

\* Whatever the list of tokens, every name, literal and type that was consumed is in
\* the tree that is returned, and a node says what was consumed, if casts have their
\* parentheses and members are not accessed (the two places where the code drops a
\* token).
THEOREM WordsKept == Spec => []NothingLost
<1>1. ASSUME WInv PROVE NothingLost
  <2>1. SUFFICES ASSUME Parsed, built # <<>>, CastsInParentheses, NoMember
                 PROVE  LET says == {node \in Subtrees({built[1]}) : node.class \in Speaking}
                        IN /\ Words \subseteq {node.at : node \in says}
                           /\ \A node \in says : node.says = taken[node.at]
    BY DEF NothingLost
  <2> DEFINE roots == Range(built)
  <2>2. /\ Len(built) \in {0, 1} /\ Len(taken) \in Nat /\ Heard(<<>>, built, taken, Height)
    BY <1>1, <2>1, ParsedWords
  <2>3. roots = {built[1]}
    <3>1. IsList(built) BY <1>1 DEF WInv
    <3>2. Len(built) = 1 BY <2>1, <2>2, <3>1, EmptyList
    <3> QED BY <3>1, <3>2, OnlyTree
  <2> HIDE DEF roots
  <2>4. \A node : node \in Subtrees(roots) <=> Below(roots, Height, node)
    BY <2>2, SubtreesBelow
  <2>5. SaidRight(built, taken) BY <1>1 DEF WInv
  <2>6. Height \in Nat BY <2>2 DEF Height
  <2>7. ASSUME NEW node \in Subtrees(roots), node.class \in Speaking
        PROVE  node.says = taken[node.at]
    <3>1. Below(roots, Height, node) BY <2>4
    <3>2. InTrees(roots, node)
      <4>1. \A k \in 0 .. Height : k \in Nat BY <2>6
      <4> QED BY <3>1, <4>1 DEF Below, InTrees
    <3>3. RightNode(node, taken) BY <2>5, <3>2 DEF SaidRight, roots
    <3> QED BY <2>7, <3>3 DEF RightNode
  <2>8. ~Dropping(<<>>, built, taken, Height)
    <3>1. SUFFICES ASSUME NEW at \in DOMAIN taken, taken[at] # "(",
                          Casting(<<>>, at) \/ CastSaid(built, Height, at)
                   PROVE  FALSE
      BY DEF Dropping
    <3>2. ~Casting(<<>>, at) BY DEF Casting
    <3>3. PICK node : /\ Below(roots, Height, node)
                      /\ node.class = "ExplicitCastExpr" /\ node.at = at
      BY <3>1, <3>2 DEF CastSaid, roots
    <3>4. node \in Subtrees(roots) BY <2>4, <3>3
    <3> QED BY <2>1, <3>1, <3>3, <3>4 DEF CastsInParentheses, roots
  <2>9. MemberFree(taken) BY <2>1 DEF MemberFree, NoMember
  <2>10. WordsOf(taken) = Words BY DEF WordsOf, Words, Speech
  <2>11. ASSUME NEW i \in Words
         PROVE  \E node \in Subtrees(roots) : node.class \in Speaking /\ node.at = i
    <3>1. Said(built, Height, i) \/ Pending(<<>>, i) BY <2>2, <2>8, <2>9, <2>10 DEF Heard
    <3>2. ~Pending(<<>>, i) BY DEF Pending
    <3>3. PICK node : /\ Below(roots, Height, node)
                      /\ node.class \in Speaking /\ node.at = i
      BY <3>1, <3>2 DEF Said, roots
    <3> QED BY <2>4, <3>3
  <2> QED BY <2>3, <2>7, <2>11
<1> QED BY <1>1, WordsInvariant, PTL
=============================================================================
