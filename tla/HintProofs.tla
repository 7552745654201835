----------------------------- MODULE HintProofs -----------------------------
(***************************************************************************)
(* Proof that the hint a comparison leaves is taken by the branch it is    *)
(* meant for, and that nothing else is pending than what a relation used   *)
(* as a value has left: HintOfLastValue of JVMControlFlow, for every bound *)
(* and every set of conditions and of relations.                           *)
(*                                                                         *)
(* _prevOpType is set by one visitor and read by another, and no statement *)
(* around a comparison asks whether it is still the hint of its own        *)
(* comparison.  What keeps the two together is the shape of the plans: a   *)
(* condition that may leave a hint is followed, in the plan that visits    *)
(* it, by a branch.  The plans of a logical condition and of a for without *)
(* a condition are where that is not plain to see: the right operand ends  *)
(* the plan of the logical condition, so it is followed by what follows    *)
(* that condition, and the for leaves out condition and branch together.   *)
(***************************************************************************)
EXTENDS JVMControlFlowProofs

\* A visit that may leave a hint, or have an operand that leaves one.
Asks(x) == x.do = "cond" /\ x.cond.form \in {"atom", "and", "or"}

\* What may leave a hint at i is followed by a branch.
AnsweredAt(p, i) == Asks(p[i]) => i + 1 \in DOMAIN p /\ p[i + 1].do = "branch"

\* The same throughout a plan, and in the plans of its scopes as deep as they
\* nest.
FlatPlan(p) ==
    IsSequence(p) /\ \A i \in DOMAIN p : p[i].do # "scope" /\ AnsweredAt(p, i)

NestedPlan(p) ==
    /\ IsSequence(p)
    /\ \A i \in DOMAIN p :
          AnsweredAt(p, i) /\ (p[i].do = "scope" => FlatPlan(p[i].plan))

DeepPlan(p) ==
    /\ IsSequence(p)
    /\ \A i \in DOMAIN p :
          AnsweredAt(p, i) /\ (p[i].do = "scope" => NestedPlan(p[i].plan))

\* Whatever may leave a hint is followed by a branch, and a hint that is
\* pending and is not that of the last value is about to be taken.  Only a
\* generator that failed keeps one.
HintsTaken ==
    phase # "failed" =>
        /\ DeepPlan(todo)
        /\ opHint # valueHint => todo # <<>> /\ Head(todo).do = "branch"

-----------------------------------------------------------------------------
(* Plans.                                                                  *)

\* An item that neither visits a condition nor opens a scope, and one that
\* may be followed by another.
Quiet(x)   == x.do \notin {"cond", "scope"}
Then(x, y) == x.do # "scope" /\ (Asks(x) => y.do = "branch")

\* The items of the visitors.
LEMMA QuietItems ==
  /\ \A ref : Quiet(LabelLine(ref)) /\ Quiet(Goto(ref))
  /\ \A table, ref : Quiet(Branch(table, ref)) /\ Branch(table, ref).do = "branch"
  /\ \A name : Quiet(NewLabel(name)) /\ Quiet(Ask(name))
  /\ \A point : Quiet(Line(point))
  /\ \A n : Quiet(Epilogue(n)) /\ Quiet(Leave(n))
  /\ Quiet(LineNumber)
  /\ \A n, next, ctx : Quiet(Block(n, next, ctx)) /\ Quiet(Visit(n, next, ctx))
BY DEF Quiet, LabelLine, Goto, Branch, NewLabel, Ask, Line, Epilogue, Leave,
       LineNumber, Block, Visit

\* What follows an item that is quiet, or a condition.
LEMMA Followers ==
  ASSUME NEW x, NEW y
  PROVE  /\ Quiet(x) => Then(x, y) /\ x.do # "scope" /\ ~Asks(x)
         /\ \A c, point, yes, no :
               /\ y.do = "branch" => Then(Cond(c, point, yes, no), y)
               /\ c.form = "none" => /\ Then(Cond(c, point, yes, no), y)
                                     /\ ~Asks(Cond(c, point, yes, no))
               /\ Cond(c, point, yes, no).do # "scope"
BY DEF Quiet, Then, Asks, Cond

\* A plan without scopes may stand for one with them.
LEMMA FlatIsDeep ==
  ASSUME NEW p
  PROVE  /\ FlatPlan(p) => NestedPlan(p)
         /\ NestedPlan(p) => DeepPlan(p)
<1>1. \A q : FlatPlan(q) => NestedPlan(q)
  BY DEF FlatPlan, NestedPlan
<1> QED
  BY <1>1 DEF NestedPlan, DeepPlan

\* Plans of each depth may be put one after the other.
LEMMA JoinedPlans ==
  ASSUME NEW p, NEW q
  PROVE  /\ FlatPlan(p) /\ FlatPlan(q) => FlatPlan(p \o q)
         /\ NestedPlan(p) /\ NestedPlan(q) => NestedPlan(p \o q)
         /\ DeepPlan(p) /\ DeepPlan(q) => DeepPlan(p \o q)
<1> DEFINE r == p \o q
<1>1. ASSUME IsSequence(p), IsSequence(q), NEW i \in DOMAIN r,
             \A k \in DOMAIN p : AnsweredAt(p, k),
             \A k \in DOMAIN q : AnsweredAt(q, k)
      PROVE  /\ AnsweredAt(r, i)
             /\ \/ i \in DOMAIN p /\ r[i] = p[i]
                \/ \E j \in DOMAIN q : r[i] = q[j]
  <2>1. /\ Len(p) \in Nat /\ DOMAIN p = 1 .. Len(p)
        /\ Len(q) \in Nat /\ DOMAIN q = 1 .. Len(q)
    BY <1>1, SequenceLength
  <2>2. /\ DOMAIN r = 1 .. Len(p) + Len(q)
        /\ \A k \in 1 .. Len(p) + Len(q) :
              r[k] = IF k <= Len(p) THEN p[k] ELSE q[k - Len(p)]
    BY <1>1, Concatenation
  <2> HIDE DEF r
  <2>3. CASE i <= Len(p)
    <3>1. i \in DOMAIN p /\ r[i] = p[i] /\ AnsweredAt(p, i)
      BY <1>1, <2>1, <2>2, <2>3
    <3>2. ASSUME Asks(r[i]) PROVE i + 1 \in DOMAIN r /\ r[i + 1].do = "branch"
      <4>1. i + 1 \in DOMAIN p /\ p[i + 1].do = "branch"
        BY <3>1, <3>2 DEF AnsweredAt
      <4> QED
        BY <2>1, <2>2, <4>1
    <3> QED
      BY <3>1, <3>2 DEF AnsweredAt
  <2>4. CASE ~(i <= Len(p))
    <3> DEFINE j == i - Len(p)
    <3>1. j \in DOMAIN q /\ r[i] = q[j] /\ AnsweredAt(q, j) /\ i = j + Len(p)
      BY <1>1, <2>1, <2>2, <2>4
    <3> HIDE DEF j
    <3>2. ASSUME Asks(r[i]) PROVE i + 1 \in DOMAIN r /\ r[i + 1].do = "branch"
      <4>1. j + 1 \in DOMAIN q /\ q[j + 1].do = "branch"
        BY <3>1, <3>2 DEF AnsweredAt
      <4>2. i + 1 = (j + 1) + Len(p) /\ (i + 1) - Len(p) = j + 1
        BY <2>1, <3>1
      <4> QED
        BY <2>1, <2>2, <4>1, <4>2
    <3> QED
      BY <3>1, <3>2 DEF AnsweredAt
  <2> QED
    BY <2>3, <2>4
<1>2. IsSequence(p) /\ IsSequence(q) => IsSequence(r)
  BY Concatenation
<1> HIDE DEF r
<1>3. ASSUME FlatPlan(p), FlatPlan(q) PROVE FlatPlan(r)
  BY <1>1, <1>2, <1>3 DEF FlatPlan
<1>4. ASSUME NestedPlan(p), NestedPlan(q) PROVE NestedPlan(r)
  BY <1>1, <1>2, <1>4 DEF NestedPlan
<1>5. ASSUME DeepPlan(p), DeepPlan(q) PROVE DeepPlan(r)
  BY <1>1, <1>2, <1>5 DEF DeepPlan
<1> QED
  BY <1>3, <1>4, <1>5 DEF r

\* Plans of no item and of one.
LEMMA ShortFlatPlans ==
  ASSUME NEW x
  PROVE  /\ FlatPlan(<<>>)
         /\ Quiet(x) => FlatPlan(<<x>>)
<1>1. FlatPlan(<<>>)
  BY Singleton DEF FlatPlan
<1>2. IsSequence(<<x>>) /\ DOMAIN <<x>> = 1 .. 1 /\ <<x>>[1] = x
  BY Singleton, SequenceLength
<1>3. Quiet(x) => x.do # "scope" /\ ~Asks(x)
  BY Followers
<1>4. ASSUME Quiet(x) PROVE FlatPlan(<<x>>)
  <2>1. \A i \in DOMAIN <<x>> : <<x>>[i] = x
    BY <1>2
  <2> QED
    BY <1>2, <1>3, <1>4, <2>1, Zenon DEF FlatPlan, AnsweredAt
<1> QED
  BY <1>1, <1>4

\* Plans of several items, each of which may be followed by the next, and the
\* last by anything.
LEMMA FlatTuples ==
  ASSUME NEW a, NEW b, NEW c, NEW d, NEW e, NEW f
  PROVE  /\ Then(a, b) /\ Quiet(b) => FlatPlan(<<a, b>>)
         /\ Then(a, b) /\ Then(b, c) /\ c.do # "scope" /\ ~Asks(c)
               => FlatPlan(<<a, b, c>>)
         /\ Then(a, b) /\ Then(b, c) /\ Then(c, d) /\ Quiet(d)
               => FlatPlan(<<a, b, c, d>>)
         /\ Then(a, b) /\ Then(b, c) /\ Then(c, d) /\ Then(d, e) /\ Quiet(e)
               => FlatPlan(<<a, b, c, d, e>>)
         /\ (/\ Then(a, b) /\ Then(b, c) /\ Then(c, d) /\ Then(d, e)
             /\ Then(e, f) /\ Quiet(f))
               => FlatPlan(<<a, b, c, d, e, f>>)
<1>1. ASSUME Then(a, b), Quiet(b) PROVE FlatPlan(<<a, b>>)
  <2>1. <<a, b>> \in Seq({a, b}) /\ DOMAIN <<a, b>> = 1 .. 2
    OBVIOUS
  <2>2. IsSequence(<<a, b>>)
    BY <2>1, AnySequence
  <2> QED
    BY <1>1, <2>1, <2>2, Followers DEF FlatPlan, AnsweredAt, Then
<1>2. ASSUME Then(a, b), Then(b, c), c.do # "scope", ~Asks(c)
      PROVE  FlatPlan(<<a, b, c>>)
  <2>1. <<a, b, c>> \in Seq({a, b, c}) /\ DOMAIN <<a, b, c>> = 1 .. 3
    OBVIOUS
  <2>2. IsSequence(<<a, b, c>>)
    BY <2>1, AnySequence
  <2> QED
    BY <1>2, <2>1, <2>2, Followers DEF FlatPlan, AnsweredAt, Then
<1>3. ASSUME Then(a, b), Then(b, c), Then(c, d), Quiet(d)
      PROVE  FlatPlan(<<a, b, c, d>>)
  <2>1. <<a, b, c, d>> \in Seq({a, b, c, d}) /\ DOMAIN <<a, b, c, d>> = 1 .. 4
    OBVIOUS
  <2>2. IsSequence(<<a, b, c, d>>)
    BY <2>1, AnySequence
  <2> QED
    BY <1>3, <2>1, <2>2, Followers DEF FlatPlan, AnsweredAt, Then
<1>4. ASSUME Then(a, b), Then(b, c), Then(c, d), Then(d, e), Quiet(e)
      PROVE  FlatPlan(<<a, b, c, d, e>>)
  <2>1. /\ <<a, b, c, d, e>> \in Seq({a, b, c, d, e})
        /\ DOMAIN <<a, b, c, d, e>> = 1 .. 5
    OBVIOUS
  <2>2. IsSequence(<<a, b, c, d, e>>)
    BY <2>1, AnySequence
  <2> QED
    BY <1>4, <2>1, <2>2, Followers DEF FlatPlan, AnsweredAt, Then
<1>5. ASSUME Then(a, b), Then(b, c), Then(c, d), Then(d, e), Then(e, f), Quiet(f)
      PROVE  FlatPlan(<<a, b, c, d, e, f>>)
  <2>1. /\ <<a, b, c, d, e, f>> \in Seq({a, b, c, d, e, f})
        /\ DOMAIN <<a, b, c, d, e, f>> = 1 .. 6
    OBVIOUS
  <2>2. IsSequence(<<a, b, c, d, e, f>>)
    BY <2>1, AnySequence
  <2> QED
    BY <1>5, <2>1, <2>2, Followers DEF FlatPlan, AnsweredAt, Then
<1> QED
  BY <1>1, <1>2, <1>3, <1>4, <1>5
\* A single scope whose plan answers.
LEMMA OneScopeAnswers ==
  ASSUME NEW n, NEW type, NEW p, FlatPlan(p) \/ NestedPlan(p)
  PROVE  DeepPlan(<<InScope(n, type, p)>>)
<1> DEFINE x == InScope(n, type, p)
<1>1. NestedPlan(p)
  BY FlatIsDeep
<1>2. ~Asks(x) /\ (x.do = "scope" => NestedPlan(x.plan))
  BY <1>1 DEF InScope, Asks
<1> HIDE DEF x
<1>3. IsSequence(<<x>>) /\ DOMAIN <<x>> = 1 .. 1 /\ <<x>>[1] = x
  BY Singleton, SequenceLength
<1>4. \A i \in DOMAIN <<x>> : <<x>>[i] = x
  BY <1>3
<1> QED
  BY <1>2, <1>3, <1>4, Zenon DEF DeepPlan, AnsweredAt, x

\* The statements of a block.
LEMMA BlockPlanAnswers ==
  ASSUME NEW first \in Nat \ {0}, NEW k \in Nat, NEW next, NEW ctx
  PROVE  FlatPlan(BlockPlan(first, k, next, ctx))
<1> DEFINE p == BlockPlan(first, k, next, ctx)
<1>1. DOMAIN p = 1 .. 2 * k
  BY DEF BlockPlan
<1>2. IsSequence(p)
  BY BlockPlanIsLeafy DEF LeafPlan
<1>3. ASSUME NEW i \in 1 .. 2 * k PROVE Quiet(p[i])
  <2>1. \/ p[i] = LineNumber
        \/ \E n, to : p[i] = Visit(n, to, ctx)
    BY DEF BlockPlan
  <2> HIDE DEF p
  <2> QED
    BY <2>1, QuietItems
<1> HIDE DEF p
<1>4. \A i \in DOMAIN p : p[i].do # "scope" /\ ~Asks(p[i])
  BY <1>1, <1>3, Followers
<1> QED
  BY <1>2, <1>4 DEF FlatPlan, AnsweredAt, p

\* The condition of a while is followed by its branch out of the loop.
LEMMA WhilePlanAnswers ==
  ASSUME NEW s, NEW body, NEW c
  PROVE  DeepPlan(WhilePlan(s, body, c))
<1> DEFINE cond  == Cond(c, CondOf(s.node), StartOf(body), s.next)
           exit  == Branch("unless", Here("exit"))
           entry == LabelLine(Here("entry"))
           block == Block(body, CondOf(s.node),
                          InLoop("while", s.next, CondOf(s.node)))
           back  == Goto(Here("entry"))
           after == LabelLine(Here("exit"))
           p     == <<entry, cond, exit, block, back, after>>
<1>1. WhilePlan(s, body, c) = <<InScope(s.node, "while", p)>>
  BY DEF WhilePlan
<1>2. /\ Quiet(entry) /\ Quiet(exit) /\ Quiet(block) /\ Quiet(back)
      /\ Quiet(after) /\ exit.do = "branch"
  BY QuietItems
<1> HIDE DEF exit, entry, block, back, after
<1>3. Then(cond, exit)
  BY <1>2, Followers
<1> HIDE DEF cond
<1>4. FlatPlan(p)
  BY <1>2, <1>3, Followers, FlatTuples
<1> HIDE DEF p
<1> QED
  BY <1>1, <1>4, OneScopeAnswers

\* That of a do by its branch back, unless it is the condition whose absence
\* makes it a goto, which leaves no hint.
LEMMA DoPlanAnswers ==
  ASSUME NEW s, NEW body, NEW c
  PROVE  DeepPlan(DoPlan(s, body, c))
<1> DEFINE cond  == Cond(c, CondOf(s.node), StartOf(body), s.next)
           entry == LabelLine(Here("entry"))
           block == Block(body, CondOf(s.node),
                          InLoop("do", s.next, CondOf(s.node)))
           jump  == Branch("if", Here("entry"))
           goto  == Goto(Here("entry"))
           back  == IF c.form = "none" THEN goto ELSE jump
           after == LabelLine(Here("exit"))
           p     == <<entry, block, cond, back, after>>
<1>1. DoPlan(s, body, c) = <<InScope(s.node, "do", p)>>
  BY DEF DoPlan
<1>2. /\ Quiet(entry) /\ Quiet(block) /\ Quiet(goto) /\ Quiet(jump)
      /\ Quiet(after) /\ jump.do = "branch"
  BY QuietItems
<1> HIDE DEF entry, block, goto, jump, after
<1>3. Then(cond, back)
  <2>1. CASE c.form = "none"
    BY <2>1, Followers
  <2>2. CASE c.form # "none"
    BY <1>2, <2>2, Followers
  <2> QED
    BY <2>1, <2>2
<1>4. Quiet(back)
  BY <1>2
<1> HIDE DEF cond, back
<1>5. FlatPlan(p)
  BY <1>2, <1>3, <1>4, Followers, FlatTuples
<1> HIDE DEF p
<1> QED
  BY <1>1, <1>5, OneScopeAnswers

\* Three items and a fourth.
LEMMA FourItems ==
  ASSUME NEW a, NEW b, NEW c, NEW d
  PROVE  <<a, b, c>> \o <<d>> = <<a, b, c, d>>
<1> DEFINE S == {a, b, c, d}
           p == <<a, b, c>>
           q == <<d>>
           r == <<a, b, c, d>>
<1>1. p \in Seq(S) /\ q \in Seq(S) /\ r \in Seq(S)
  OBVIOUS
<1>2. /\ Len(p) = 3 /\ p[1] = a /\ p[2] = b /\ p[3] = c
      /\ Len(q) = 1 /\ q[1] = d
      /\ Len(r) = 4 /\ r[1] = a /\ r[2] = b /\ r[3] = c /\ r[4] = d
  OBVIOUS
<1> HIDE DEF S, p, q, r
<1>3. /\ p \o q \in Seq(S)
      /\ Len(p \o q) = Len(p) + Len(q)
      /\ \A i \in 1 .. Len(p) + Len(q) :
            (p \o q)[i] = IF i <= Len(p) THEN p[i] ELSE q[i - Len(p)]
  BY <1>1, ConcatProperties
<1>4. \A i \in 1 .. Len(r) : (p \o q)[i] = r[i]
  BY <1>2, <1>3
<1>5. Len(p \o q) = Len(r)
  BY <1>2, <1>3
<1> DEFINE s == p \o q
<1>6. s \in Seq(S) /\ Len(s) = Len(r) /\ \A i \in 1 .. Len(r) : s[i] = r[i]
  BY <1>3, <1>4, <1>5
<1> HIDE DEF s
<1>7. s = r
  BY <1>1, <1>6, SeqEqual
<1> QED
  BY <1>7 DEF p, q, r, s

\* A for leaves its branch out only where it has no condition.
LEMMA ForPlanAnswers ==
  ASSUME NEW s, NEW body, NEW c, NEW full
  PROVE  DeepPlan(ForPlan(s, body, c, full))
<1> DEFINE forCond == Saved(<<s.node, "for", "for_cond">>)
           Only(when, plan) == IF when THEN plan ELSE <<>>
           name   == NewLabel("for_cond")
           test   == LabelLine(forCond)
           cond   == Cond(c, CondOf(s.node), StartOf(body), s.next)
           branch == Branch("unless", Here("exit"))
           first  == <<name, test, cond>> \o Only(c.form # "none", <<branch>>)
           middle == <<Block(body, StepOf(s.node),
                             InLoop("for", s.next, StepOf(s.node))),
                       LabelLine(Here("entry"))>>
           step   == Only(full, <<Line(StepOf(s.node))>>)
           last   == <<Goto(forCond), LabelLine(Here("exit"))>>
           init   == Only(full, <<Line(InitOf(s.node))>>)
           p      == first \o middle \o step \o last
<1>1. ForPlan(s, body, c, full) = init \o <<InScope(s.node, "for", p)>>
  BY DEF ForPlan
<1>2. FlatPlan(first)
  <2>1. Quiet(name) /\ Quiet(test) /\ Quiet(branch) /\ branch.do = "branch"
    BY QuietItems
  <2> HIDE DEF name, test, branch
  <2>2. CASE c.form = "none"
    <3>1. Then(name, test) /\ Then(test, cond) /\ cond.do # "scope" /\ ~Asks(cond)
      BY <2>1, <2>2, Followers
    <3>2. first = <<name, test, cond>>
      <4> HIDE DEF cond
      <4>1. <<name, test, cond>> \o <<>> = <<name, test, cond>>
        OBVIOUS
      <4> QED
        BY <2>2, <4>1, Zenon
    <3> HIDE DEF first, cond
    <3> QED
      BY <3>1, <3>2, FlatTuples
  <2>3. CASE c.form # "none"
    <3>1. Then(name, test) /\ Then(test, cond) /\ Then(cond, branch)
      BY <2>1, Followers
    <3>2. first = <<name, test, cond, branch>>
      <4> HIDE DEF cond
      <4>1. <<name, test, cond>> \o <<branch>> = <<name, test, cond, branch>>
        BY FourItems
      <4> QED
        BY <2>3, <4>1, Zenon
    <3> HIDE DEF first, cond
    <3> QED
      BY <2>1, <3>1, <3>2, FlatTuples
  <2> QED
    BY <2>2, <2>3
<1>3. FlatPlan(middle) /\ FlatPlan(last)
  BY QuietItems, Followers, FlatTuples
<1>4. FlatPlan(step) /\ FlatPlan(init)
  BY QuietItems, ShortFlatPlans
<1> HIDE DEF first, middle, step, last, init
<1>5. FlatPlan(p)
  BY <1>2, <1>3, <1>4, JoinedPlans
<1> HIDE DEF p
<1>6. DeepPlan(<<InScope(s.node, "for", p)>>)
  BY <1>5, OneScopeAnswers
<1>7. DeepPlan(init)
  BY <1>4, FlatIsDeep
<1> QED
  BY <1>1, <1>6, <1>7, JoinedPlans

\* The conditions of an if and of its else-ifs are followed by a branch.
LEMMA IfPlanAnswers ==
  ASSUME NEW s, NEW cs, NEW hasElse, Len(cs) \in Nat \ {0}
  PROVE  DeepPlan(IfPlan(s, cs, hasElse))
<1> DEFINE n         == s.node
           branch(i) == IF i = 1 THEN n ELSE nodes + 2 * i - 2
           block(i)  == nodes + 2 * i - 1
           else      == nodes + 2 * Len(cs)
           otherwise(i) == IF i < Len(cs) THEN CondOf(branch(i + 1))
                           ELSE IF hasElse THEN StartOf(else) ELSE s.next
           ifExit == Saved(<<n, "if", "exit">>)
           ifEnd  == Saved(<<n, "if", "stmt_end">>)
           test(i) == Cond(cs[i], CondOf(branch(i)), StartOf(block(i)), otherwise(i))
           Arm(i, exit) ==
              <<test(i),
                Branch("unless", exit),
                LabelLine(Here("entry")),
                Block(block(i), s.next, s.ctx),
                Goto(ifEnd),
                LabelLine(exit)>>
           elseIf(i) == InScope(branch(i + 1), "else_if",
                                Arm(i + 1, Here("exit")))
           elseIfs == [i \in 1 .. Len(cs) - 1 |-> elseIf(i)]
           ask     == <<Ask("exit"), NewLabel("stmt_end")>>
           tail    == IF hasElse THEN <<Block(else, s.next, s.ctx)>> ELSE <<>>
           end     == <<LabelLine(ifEnd)>>
           p       == ask \o Arm(1, ifExit) \o elseIfs \o tail \o end
<1>1. IfPlan(s, cs, hasElse) = <<InScope(n, "if", p)>>
  BY DEF IfPlan
<1>2. ASSUME NEW i, NEW exit PROVE FlatPlan(Arm(i, exit))
  <2> DEFINE jump  == Branch("unless", exit)
             entry == LabelLine(Here("entry"))
             body  == Block(block(i), s.next, s.ctx)
             goto  == Goto(ifEnd)
             after == LabelLine(exit)
  <2>1. /\ Quiet(jump) /\ Quiet(entry) /\ Quiet(body) /\ Quiet(goto)
        /\ Quiet(after) /\ jump.do = "branch"
    BY QuietItems
  <2>2. Arm(i, exit) = <<test(i), jump, entry, body, goto, after>>
    OBVIOUS
  <2> HIDE DEF jump, entry, body, goto, after
  <2>3. Then(test(i), jump)
    BY <2>1, Followers
  <2> HIDE DEF test, Arm
  <2> QED
    BY <2>1, <2>2, <2>3, Followers, FlatTuples
<1>3. ASSUME NEW i
      PROVE  ~Asks(elseIf(i)) /\ (elseIf(i).do = "scope" => FlatPlan(elseIf(i).plan))
  <2> DEFINE arm == Arm(i + 1, Here("exit"))
  <2>1. FlatPlan(arm)
    <3> HIDE DEF Arm
    <3> QED
      BY <1>2
  <2>2. elseIf(i) = InScope(branch(i + 1), "else_if", arm)
    OBVIOUS
  <2> HIDE DEF arm, branch, elseIf
  <2> QED
    BY <2>1, <2>2 DEF InScope, Asks
<1> HIDE DEF elseIf
<1>4. NestedPlan(elseIfs)
  <2>1. DOMAIN elseIfs = 1 .. Len(cs) - 1 /\ Len(cs) - 1 \in Nat
    OBVIOUS
  <2>2. elseIfs \in [1 .. Len(cs) - 1 -> {elseIfs[i] : i \in DOMAIN elseIfs}]
    OBVIOUS
  <2>3. IsSequence(elseIfs)
    BY <2>1, <2>2 DEF IsSequence
  <2>4. \A i \in DOMAIN elseIfs : elseIfs[i] = elseIf(i)
    OBVIOUS
  <2> HIDE DEF elseIfs
  <2> QED
    BY <1>3, <2>3, <2>4 DEF NestedPlan, AnsweredAt
<1>5. FlatPlan(Arm(1, ifExit))
  <2> HIDE DEF Arm
  <2> QED
    BY <1>2
<1>6. FlatPlan(ask) /\ FlatPlan(end) /\ FlatPlan(tail)
  <2>1. FlatPlan(ask)
    BY QuietItems, Followers, FlatTuples
  <2>2. FlatPlan(end)
    <3> HIDE DEF ifEnd
    <3> QED
      BY QuietItems, ShortFlatPlans
  <2>3. FlatPlan(tail)
    <3> HIDE DEF else
    <3>1. Quiet(Block(else, s.next, s.ctx))
      BY QuietItems
    <3> QED
      BY <3>1, ShortFlatPlans
  <2> QED
    BY <2>1, <2>2, <2>3
<1> HIDE DEF Arm, ask, end, tail, elseIfs
<1>7. NestedPlan(p)
  BY <1>4, <1>5, <1>6, FlatIsDeep, JoinedPlans
<1> HIDE DEF p
<1> QED
  BY <1>1, <1>7, OneScopeAnswers

-----------------------------------------------------------------------------
(* Steps.                                                                  *)

\* Putting a plan in the place of the head.  A condition may end the plan of
\* another: what follows the one answers the other.
LEMMA PushAnswers ==
  ASSUME NEW td, NEW p, DeepPlan(td), td # <<>>, IsSequence(p),
         \A i \in DOMAIN p :
            /\ AnsweredAt(p, i) \/ (i = Len(p) /\ Asks(Head(td)))
            /\ p[i].do = "scope" => NestedPlan(p[i].plan)
  PROVE  DeepPlan(p \o Tail(td))
<1> DEFINE r == p \o Tail(td)
<1>0. IsSequence(td)
  BY DEF DeepPlan
<1>1. /\ IsSequence(r) /\ Len(p) \in Nat /\ Len(td) \in Nat \ {0}
      /\ DOMAIN p = 1 .. Len(p) /\ DOMAIN td = 1 .. Len(td)
      /\ DOMAIN r = 1 .. Len(p) + Len(td) - 1
      /\ \A i \in 1 .. Len(p) : r[i] = p[i]
      /\ \A i \in 2 .. Len(td) : r[i + Len(p) - 1] = td[i]
      /\ Head(td) = td[1]
  BY <1>0, Splice
<1>2. \A j \in DOMAIN td : /\ AnsweredAt(td, j)
                           /\ td[j].do = "scope" => NestedPlan(td[j].plan)
  BY DEF DeepPlan
<1>3. ASSUME NEW i \in DOMAIN r
      PROVE  \/ i \in DOMAIN p /\ r[i] = p[i]
             \/ \E j \in DOMAIN td : j # 1 /\ i = j + Len(p) - 1 /\ r[i] = td[j]
  BY <1>0, SpliceIndices
<1> HIDE DEF r
<1>4. ASSUME NEW j \in DOMAIN td, j + 1 \in DOMAIN td, td[j + 1].do = "branch"
      PROVE  j + Len(p) \in DOMAIN r /\ r[j + Len(p)].do = "branch"
  <2>1. j + 1 \in 2 .. Len(td) /\ j + Len(p) \in 1 .. Len(p) + Len(td) - 1
    BY <1>1, <1>4
  <2>2. r[(j + 1) + Len(p) - 1] = td[j + 1]
    BY <1>1, <2>1
  <2>3. (j + 1) + Len(p) - 1 = j + Len(p)
    BY <1>1
  <2> QED
    BY <1>1, <1>4, <2>1, <2>2, <2>3
<1>5. ASSUME NEW i \in DOMAIN r, Asks(r[i])
      PROVE  i + 1 \in DOMAIN r /\ r[i + 1].do = "branch"
  <2>1. CASE i \in DOMAIN p /\ r[i] = p[i] /\ AnsweredAt(p, i)
    <3>1. i + 1 \in DOMAIN p /\ p[i + 1].do = "branch"
      BY <1>5, <2>1 DEF AnsweredAt
    <3> QED
      BY <1>1, <3>1
  <2>2. CASE i = Len(p) /\ Asks(td[1])
    <3>1. 1 \in DOMAIN td /\ 1 + 1 \in DOMAIN td /\ td[1 + 1].do = "branch"
      BY <1>1, <1>2, <2>2 DEF AnsweredAt
    <3>2. 1 + Len(p) \in DOMAIN r /\ r[1 + Len(p)].do = "branch"
      BY <1>4, <3>1
    <3> QED
      BY <1>1, <2>2, <3>2
  <2>3. CASE \E j \in DOMAIN td : j # 1 /\ i = j + Len(p) - 1 /\ r[i] = td[j]
    <3>1. PICK j \in DOMAIN td : i = j + Len(p) - 1 /\ r[i] = td[j]
      BY <2>3
    <3>2. j + 1 \in DOMAIN td /\ td[j + 1].do = "branch"
      BY <1>2, <1>5, <3>1 DEF AnsweredAt
    <3>3. j + Len(p) \in DOMAIN r /\ r[j + Len(p)].do = "branch"
      BY <1>4, <3>2
    <3> QED
      BY <1>1, <3>1, <3>3
  <2> QED
    BY <1>1, <1>3, <2>1, <2>2, <2>3
<1>6. ASSUME NEW i \in DOMAIN r, r[i].do = "scope" PROVE NestedPlan(r[i].plan)
  BY <1>2, <1>3, <1>6
<1> QED
  BY <1>1, <1>5, <1>6 DEF DeepPlan, AnsweredAt, r

\* The step touches no hint, or that of a relation used as a value is pending
\* after it.
Settled == UNCHANGED hints \/ opHint' = valueHint'

\* A step that puts a plan in the place of the head.
LEMMA PlanAnswered ==
  ASSUME HintsTaken, Generating, NEW p, DeepPlan(p), Continue(p),
         Head(todo).do # "branch", UNCHANGED phase, Settled
  PROVE  HintsTaken'
<1>1. phase = "gen" /\ todo # <<>> /\ DeepPlan(todo) /\ opHint = valueHint
  BY DEF Generating, HintsTaken
<1>2. DeepPlan(p \o Tail(todo))
  BY <1>1, PushAnswers DEF DeepPlan
<1> QED
  BY <1>1, <1>2 DEF HintsTaken, Continue, Settled, hints

\* The item at the head.
LEMMA HeadKind ==
  ASSUME NEW kind, Do(kind)
  PROVE  Generating /\ phase = "gen" /\ todo # <<>> /\ Head(todo).do = kind
BY DEF Do, Generating, h

\* The empty plan, and plans of one item.
LEMMA ShortDeepPlans ==
  ASSUME NEW x
  PROVE  DeepPlan(<<>>) /\ (Quiet(x) => DeepPlan(<<x>>))
BY ShortFlatPlans, FlatIsDeep

\* The same of a step that leaves the head out.
LEMMA DropAnswered ==
  ASSUME HintsTaken, NEW kind, kind # "branch", Do(kind), Continue(<<>>),
         UNCHANGED phase, Settled
  PROVE  HintsTaken'
BY ShortDeepPlans, HeadKind, PlanAnswered

\* An expression leaves the hint of a relation in it, or the one it found.
LEMMA ValueSettles ==
  EvaluateValue => Settled
BY DEF EvaluateValue, Settled

\* The visits to statements and blocks.
LEMMA VisitsAreAnswered ==
  ASSUME IInv, HintsTaken,
         \/ VisitSimple \/ VisitReturn \/ VisitBreak \/ VisitContinue
         \/ VisitIf \/ VisitWhile \/ VisitDo \/ VisitFor \/ VisitBlock
  PROVE  HintsTaken'
<1>0. nodes \in Nat
  BY DEF IInv
<1>1. CASE VisitSimple \/ VisitReturn
  <2>1. Do("stmt") /\ Continue(<<>>) /\ UNCHANGED phase /\ EvaluateValue
    BY <1>1 DEF VisitSimple, VisitReturn
  <2>2. Settled
    BY <2>1, ValueSettles
  <2> QED
    BY <2>1, <2>2, DropAnswered
<1>2. CASE VisitBreak \/ VisitContinue
  <2>1. Do("stmt") /\ Continue(<<>>) /\ UNCHANGED phase /\ Settled
    BY <1>2 DEF VisitBreak, VisitContinue, Settled
  <2> QED
    BY <2>1, DropAnswered
<1>3. CASE VisitIf
  <2>1. PICK m \in 0 .. MaxElseIf, c \in Conds["if"], hasElse \in BOOLEAN :
        \E cs \in [1 .. m -> Conds["else_if"]] :
           Continue(IfPlan(h, <<c>> \o cs, hasElse))
    BY <1>3 DEF VisitIf
  <2>2. PICK cs \in [1 .. m -> Conds["else_if"]] :
           Continue(IfPlan(h, <<c>> \o cs, hasElse))
    BY <2>1
  <2>3. Do("stmt") /\ UNCHANGED phase /\ Settled
    BY <1>3 DEF VisitIf, Settled
  <2>4. Len(<<c>> \o cs) \in Nat \ {0}
    <3>1. cs \in Seq(Conds["else_if"])
      OBVIOUS
    <3>2. IsSequence(cs) /\ IsSequence(<<c>>) /\ Len(<<c>>) = 1
      BY <3>1, AnySequence, Singleton
    <3>3. Len(cs) \in Nat /\ Len(<<c>> \o cs) = 1 + Len(cs)
      BY <3>2, SequenceLength, Concatenation
    <3> QED
      BY <3>3
  <2>5. DeepPlan(IfPlan(h, <<c>> \o cs, hasElse))
    BY <2>4, IfPlanAnswers
  <2> QED
    BY <2>2, <2>3, <2>5, HeadKind, PlanAnswered
<1>4. CASE VisitWhile
  BY <1>4, WhilePlanAnswers, HeadKind, PlanAnswered DEF VisitWhile, Settled
<1>5. CASE VisitDo
  BY <1>5, DoPlanAnswers, HeadKind, PlanAnswered DEF VisitDo, Settled
<1>6. CASE VisitFor
  <2>1. PICK c \in Conds["for"], full \in BOOLEAN :
           Continue(ForPlan(h, nodes', c, full))
    BY <1>6 DEF VisitFor
  <2>2. Do("stmt") /\ UNCHANGED phase /\ Settled
    BY <1>6 DEF VisitFor, Settled
  <2> QED
    BY <2>1, <2>2, ForPlanAnswers, HeadKind, PlanAnswered
<1>7. CASE VisitBlock
  <2>1. PICK k \in 0 .. MaxBlock :
           Continue(BlockPlan(nodes + 1, k, h.next, h.ctx))
    BY <1>7 DEF VisitBlock
  <2>2. DeepPlan(BlockPlan(nodes + 1, k, h.next, h.ctx))
    BY <1>0, BlockPlanAnswers, FlatIsDeep
  <2>3. Do("block") /\ UNCHANGED phase /\ Settled
    BY <1>7 DEF VisitBlock, Settled
  <2> QED
    BY <2>1, <2>2, <2>3, HeadKind, PlanAnswered
<1> QED
  BY <1>1, <1>2, <1>3, <1>4, <1>5, <1>6, <1>7

\* The visits to conditions: a comparison leaves its hint where a branch
\* comes next; a logical condition is replaced by its operands, the first
\* answered in its own plan and the second by what follows.
LEMMA CondsAreAnswered ==
  ASSUME IInv, HintsTaken, VisitAtom \/ VisitLogical \/ SkipCond
  PROVE  HintsTaken'
<1>0. Do("cond") /\ phase' = phase
  BY DEF VisitAtom, VisitLogical, SkipCond
<1>1. /\ Generating /\ phase = "gen" /\ todo # <<>> /\ h.do = "cond"
      /\ DeepPlan(todo) /\ opHint = valueHint
  BY <1>0, HeadKind DEF HintsTaken, h
<1>2. /\ IsSequence(todo) /\ 1 \in DOMAIN todo /\ h = todo[1]
      /\ AnsweredAt(todo, 1)
  BY <1>1, HeadAndTail DEF DeepPlan, h
<1>3. CASE SkipCond
  BY <1>1, <1>3, ShortDeepPlans, PlanAnswered DEF SkipCond, h, Settled
<1>4. CASE VisitAtom
  <2>1. todo' = <<>> \o Tail(todo) /\ h.cond.form = "atom"
    BY <1>4 DEF VisitAtom, Continue
  <2>2. DeepPlan(todo')
    BY <1>1, <2>1, PushAnswers, ShortDeepPlans DEF DeepPlan
  <2>3. 1 + 1 \in DOMAIN todo /\ todo[1 + 1].do = "branch"
    BY <1>1, <1>2, <2>1 DEF AnsweredAt, Asks
  <2>4. /\ DOMAIN todo' = 1 .. Len(todo) - 1 /\ Len(todo) \in Nat
        /\ DOMAIN todo = 1 .. Len(todo) /\ Head(todo') = todo[1 + 1]
        /\ todo' # <<>>
    <3>1. /\ IsSequence(<<>>) /\ Len(<<>>) = 0
      BY Singleton
    <3>2. /\ IsSequence(todo') /\ Len(todo) \in Nat /\ DOMAIN todo = 1 .. Len(todo)
          /\ DOMAIN todo' = 1 .. Len(todo) - 1
          /\ \A i \in 2 .. Len(todo) : todo'[i - 1] = todo[i]
      <4> DEFINE none == <<>>
                 r    == none \o Tail(todo)
      <4>1. Len(none) = 0 /\ todo' = r
        BY <2>1, <3>1
      <4>2. IsSequence(none) /\ IsSequence(todo) /\ todo # <<>>
        BY <1>1, <1>2, <3>1
      <4> HIDE DEF none
      <4>3. /\ IsSequence(r) /\ Len(todo) \in Nat \ {0}
            /\ DOMAIN todo = 1 .. Len(todo)
            /\ DOMAIN r = 1 .. Len(none) + Len(todo) - 1
            /\ \A i \in 2 .. Len(todo) : r[i + Len(none) - 1] = todo[i]
        BY <4>2, Splice
      <4> HIDE DEF r
      <4>4. /\ DOMAIN r = 1 .. Len(todo) - 1
            /\ \A i \in 2 .. Len(todo) : r[i - 1] = todo[i]
        <5>1. ASSUME NEW i \in 2 .. Len(todo)
              PROVE  i + Len(none) - 1 = i - 1
          BY <4>1, <4>3
        <5>2. DOMAIN r = 1 .. Len(todo) - 1
          BY <4>1, <4>3
        <5> QED
          BY <4>3, <5>1, <5>2
      <4> QED
        BY <4>1, <4>3, <4>4
    <3>3. 2 \in 2 .. Len(todo) /\ todo'[1] = todo[2] /\ 1 \in DOMAIN todo'
      BY <2>3, <3>2
    <3>4. todo' # <<>>
      BY <3>3, Singleton
    <3>5. Head(todo') = todo'[1]
      BY <3>2, <3>4, HeadAndTail
    <3> QED
      BY <3>2, <3>3, <3>4, <3>5
  <2> QED
    BY <2>2, <2>3, <2>4 DEF HintsTaken
<1>5. CASE VisitLogical
  <2> DEFINE l == Operand(h.point, "l")
             r == Operand(h.point, "r")
             right  == Cond(h.cond.rhs, r, h.yes, h.no)
             and    == Cond(h.cond.lhs, l, r, h.no)
             or     == Cond(h.cond.lhs, l, h.yes, r)
             unless == Branch("unless", Here("exit"))
             if     == Branch("if", Here("entry"))
  <2>1. PICK left, jump :
           /\ Continue(<<left, jump, right>>) /\ UNCHANGED hints
           /\ Then(left, jump) /\ Then(jump, right)
           /\ h.cond.form \in {"and", "or"}
    <3>1. Quiet(unless) /\ Quiet(if) /\ unless.do = "branch" /\ if.do = "branch"
      BY QuietItems
    <3>2. /\ Then(and, unless) /\ Then(or, if)
          /\ Then(unless, right) /\ Then(if, right)
      <4> HIDE DEF unless, if
      <4> QED
        BY <3>1, Followers
    <3>3. /\ Continue(IF h.cond.form = "and" THEN <<and, unless, right>>
                                             ELSE <<or, if, right>>)
          /\ UNCHANGED hints /\ h.cond.form \in {"and", "or"}
      BY <1>5 DEF VisitLogical
    <3> HIDE DEF unless, if, and, or, right
    <3>4. CASE h.cond.form = "and"
      <4>1. Continue(<<and, unless, right>>)
        BY <3>3, <3>4
      <4> QED
        BY <3>2, <3>3, <4>1
    <3>5. CASE h.cond.form # "and"
      <4>1. Continue(<<or, if, right>>)
        BY <3>3, <3>5
      <4> QED
        BY <3>2, <3>3, <4>1
    <3> QED
      BY <3>4, <3>5
  <2>2. right.do # "scope"
    BY Followers
  <2>3. Asks(Head(todo))
    BY <1>1, <2>1 DEF Asks, h
  <2> HIDE DEF right
  <2> DEFINE p == <<left, jump, right>>
  <2>4. p \in Seq({left, jump, right}) /\ DOMAIN p = 1 .. 3 /\ Len(p) = 3
        /\ p[1] = left /\ p[2] = jump /\ p[3] = right
    OBVIOUS
  <2>5. IsSequence(p)
    BY <2>4, AnySequence
  <2> HIDE DEF p
  <2>6. ASSUME NEW i \in DOMAIN p
        PROVE  /\ AnsweredAt(p, i) \/ (i = Len(p) /\ Asks(Head(todo)))
               /\ p[i].do # "scope"
    BY <2>1, <2>2, <2>3, <2>4 DEF AnsweredAt, Then
  <2>7. DeepPlan(p \o Tail(todo))
    BY <1>1, <2>5, <2>6, PushAnswers
  <2>8. todo' = p \o Tail(todo)
    BY <2>1 DEF Continue, p
  <2> QED
    BY <1>1, <2>1, <2>7, <2>8 DEF HintsTaken, hints
<1> QED
  BY <1>3, <1>4, <1>5

\* The items that write a line or ask for a label: only a branch takes the
\* hint, and it leaves none; the initialiser and the step of a for may leave
\* that of a value.
LEMMA LinesAreAnswered ==
  ASSUME IInv, HintsTaken,
         \/ EmitLabel \/ EmitGoto \/ EmitBranch \/ EmitLine \/ EmitAct
         \/ AskLabel \/ NameLabel \/ EndFunction
  PROVE  HintsTaken'
<1>1. CASE EmitLabel \/ EmitGoto \/ EmitLine \/ EmitAct \/ AskLabel
           \/ NameLabel \/ EndFunction
  <2>1. /\ Continue(<<>>) /\ UNCHANGED phase
        /\ \/ Do("label") \/ Do("goto") \/ Do("line") \/ Do("act") \/ Do("ask")
           \/ Do("newlabel") \/ Do("epilogue")
    BY <1>1 DEF EmitLabel, EmitGoto, EmitLine, EmitAct, AskLabel, NameLabel,
                EndFunction
  <2>2. UNCHANGED hints \/ EvaluateValue
    BY <1>1 DEF EmitLabel, EmitGoto, EmitLine, EmitAct, AskLabel, NameLabel,
                EndFunction
  <2>3. Settled
    BY <2>2, ValueSettles DEF Settled
  <2> QED
    BY <2>1, <2>3, DropAnswered
<1>2. CASE EmitBranch
  <2>1. Do("branch") /\ todo' = <<>> \o Tail(todo) /\ opHint' = valueHint'
    BY <1>2 DEF EmitBranch, Continue
  <2>2. DeepPlan(todo) /\ todo # <<>>
    BY <2>1, HeadKind DEF HintsTaken
  <2>3. DeepPlan(todo')
    BY <2>1, <2>2, PushAnswers, ShortDeepPlans DEF DeepPlan
  <2> QED
    BY <2>1, <2>3 DEF HintsTaken
<1> QED
  BY <1>1, <1>2

\* Entering and leaving a scope.
LEMMA ScopesAreAnswered ==
  ASSUME IInv, HintsTaken, OpenScope \/ CloseScope
  PROVE  HintsTaken'
<1>1. CASE OpenScope
  <2> DEFINE leave == Leave(Len(scopeStack) + 1)
  <2>1. Do("scope") /\ Continue(h.plan \o <<leave>>) /\ UNCHANGED phase /\ Settled
    BY <1>1 DEF OpenScope, Settled
  <2>2. /\ Generating /\ phase = "gen" /\ todo # <<>> /\ h.do = "scope"
        /\ DeepPlan(todo)
    BY <2>1, HeadKind DEF HintsTaken, h
  <2>3. NestedPlan(h.plan)
    BY <2>2, HeadAndTail DEF DeepPlan, h
  <2>4. Quiet(leave)
    BY QuietItems
  <2> HIDE DEF leave
  <2>5. DeepPlan(h.plan \o <<leave>>)
    BY <2>3, <2>4, FlatIsDeep, ShortDeepPlans, JoinedPlans
  <2> QED
    BY <2>1, <2>2, <2>5, PlanAnswered DEF h
<1>2. CASE CloseScope
  <2>1. Do("leave") /\ Continue(<<>>) /\ UNCHANGED phase /\ Settled
    BY <1>2 DEF CloseScope, Settled
  <2> QED
    BY <2>1, DropAnswered
<1> QED
  BY <1>1, <1>2

\* From one function to the next, and when generation fails.
LEMMA FunctionsAreAnswered ==
  ASSUME IInv, HintsTaken,
         \/ StartFunction \/ SkipPrototype \/ MissingReturn
         \/ NextFunction \/ Fail
  PROVE  HintsTaken'
<1>1. CASE StartFunction
  <2>1. PICK k \in 1 .. MaxBlock :
           Continue(BlockPlan(2, k, Halt, NoLoop) \o <<Epilogue(1 + k)>>)
    BY <1>1 DEF StartFunction
  <2>2. Do("function") /\ UNCHANGED phase /\ Settled
    BY <1>1 DEF StartFunction, Settled
  <2>3. FlatPlan(BlockPlan(2, k, Halt, NoLoop))
    BY BlockPlanAnswers
  <2>4. FlatPlan(<<Epilogue(1 + k)>>)
    BY QuietItems, ShortFlatPlans
  <2>5. DeepPlan(BlockPlan(2, k, Halt, NoLoop) \o <<Epilogue(1 + k)>>)
    BY <2>3, <2>4, FlatIsDeep, JoinedPlans
  <2> QED
    BY <2>1, <2>2, <2>5, HeadKind, PlanAnswered
<1>2. CASE NextFunction
  <2>1. phase = "gen" /\ todo = <<>> /\ todo' = <<Function>>
        /\ opHint' = opHint /\ valueHint' = valueHint
    BY <1>2 DEF NextFunction, hints
  <2>2. Quiet(Function)
    BY DEF Quiet, Function
  <2> QED
    BY <2>1, <2>2, ShortDeepPlans DEF HintsTaken
<1>3. CASE SkipPrototype
  BY <1>3 DEF SkipPrototype, genVars, hints, HintsTaken
<1>4. CASE MissingReturn \/ Fail
  BY <1>4 DEF MissingReturn, Fail, HintsTaken
<1> QED
  BY <1>1, <1>2, <1>3, <1>4

\* Running the code, and standing still.
LEMMA RunIsAnswered ==
  ASSUME HintsTaken, \/ StartRun \/ RunEval \/ RunAct \/ RunReturn \/ Done
                     \/ UNCHANGED vars
  PROVE  HintsTaken'
<1>1. UNCHANGED <<todo, opHint, valueHint>>
  BY DEF StartRun, RunEval, RunAct, RunReturn, Ran, Done, vars, genVars, hints
<1>2. phase # "failed" \/ UNCHANGED phase
  BY DEF StartRun, RunEval, RunAct, RunReturn, Execute, Done, vars, genVars
<1> QED
  BY <1>1, <1>2 DEF HintsTaken

\* Each hint that a condition leaves is taken by the branch it is meant for,
\* whatever was visited before it, in any function: what is pending elsewhere
\* is the hint of the last relation that was used as a value, if any.
THEOREM HintsOfLastValue == Spec => []HintOfLastValue
<1>1. Init => HintsTaken
  <2>1. Quiet(Function)
    BY DEF Quiet, Function
  <2> QED
    BY <2>1, ShortDeepPlans DEF Init, HintsTaken
<1>2. IInv /\ HintsTaken /\ [Next]_vars => HintsTaken'
  BY VisitsAreAnswered, CondsAreAnswered, LinesAreAnswered, ScopesAreAnswered,
     FunctionsAreAnswered, RunIsAnswered DEF Next
<1>3. HintsTaken => HintOfLastValue
  BY DEF HintsTaken, HintOfLastValue, Generating, h
<1> QED
  BY <1>1, <1>2, <1>3, Invariance, PTL DEF Spec
=============================================================================
