------------------------- MODULE LoopContextProofs -------------------------
(***************************************************************************)
(* Proof that the loop count of the label manager tells break and continue *)
(* what the source would: LoopContextAgrees of JVMControlFlow, for every   *)
(* bound and every set of conditions.                                      *)
(*                                                                         *)
(* A statement is visited long after the visitor of its loop entered the   *)
(* scope, with any number of scopes entered and left in between.  What     *)
(* ties the two together is the level of an item of todo: the number of    *)
(* scopes that will still be left after it, which is the number that are   *)
(* open when it is visited.  Each item agrees with the scopes up to its    *)
(* level, and no step disturbs the scopes below an item.                   *)
(***************************************************************************)
EXTENDS JVMControlFlowProofs

\* Whether one of the d outermost scopes of the stack st is a loop.
LoopAmong(st, d) == \E k \in 1 .. d : st[k].type \in LoopType

\* What the item x says of the loop around it is b.
SaysLoop(x, b) == x.do \in {"stmt", "block"} => (x.ctx.loop # "none" <=> b)

\* The same of the items of a plan, where a scope may hold another plan, as
\* deep as plans nest.
LeafAgrees(x, b) == x.do # "scope" /\ SaysLoop(x, b)
LeavesAgree(p, b) == IsSequence(p) /\ \A i \in DOMAIN p : LeafAgrees(p[i], b)

InnerAgrees(x, b) ==
    /\ SaysLoop(x, b)
    /\ x.do = "scope" => LeavesAgree(x.plan, b \/ x.type \in LoopType)
InnersAgree(p, b) == IsSequence(p) /\ \A i \in DOMAIN p : InnerAgrees(p[i], b)

OuterAgrees(x, b) ==
    /\ SaysLoop(x, b)
    /\ x.do = "scope" => InnersAgree(x.plan, b \/ x.type \in LoopType)
OutersAgree(p, b) == IsSequence(p) /\ \A i \in DOMAIN p : OuterAgrees(p[i], b)

\* The item at i is at level d: exactly the scopes down from d are left after.
AtLevel(td, i, d) == \A j \in Leaves(td) : i < j <=> td[j].depth <= d

\* Every item agrees with the scopes up to its level, of n that are open.
Agreement(td, st, n) ==
    \A i \in DOMAIN td : \A d \in 0 .. n :
       td[i].do # "leave" /\ AtLevel(td, i, d)
           => OuterAgrees(td[i], LoopAmong(st, d))

-----------------------------------------------------------------------------
(* Plans.                                                                  *)

\* The items that are neither a visit nor a scope agree with anything; a
\* visit agrees with what its context says.
LEMMA ItemsAgree ==
  ASSUME NEW b
  PROVE  /\ \A ref : LeafAgrees(LabelLine(ref), b) /\ LeafAgrees(Goto(ref), b)
         /\ \A table, ref : LeafAgrees(Branch(table, ref), b)
         /\ \A name : LeafAgrees(NewLabel(name), b) /\ LeafAgrees(Ask(name), b)
         /\ \A point : LeafAgrees(Line(point), b)
         /\ \A n : LeafAgrees(Epilogue(n), b)
         /\ LeafAgrees(LineNumber, b)
         /\ \A c, point, yes, no : LeafAgrees(Cond(c, point, yes, no), b)
         /\ \A n, next, ctx : (ctx.loop # "none" <=> b) =>
               LeafAgrees(Block(n, next, ctx), b)
               /\ LeafAgrees(Visit(n, next, ctx), b)
BY DEF LeafAgrees, SaysLoop, LabelLine, Goto, Branch, NewLabel, Ask, Line,
       Epilogue, LineNumber, Cond, Block, Visit

\* A plan without scopes may stand for one with them.
LEMMA AgreementInclusion ==
  ASSUME NEW p, NEW b
  PROVE  /\ LeavesAgree(p, b) => InnersAgree(p, b)
         /\ InnersAgree(p, b) => OutersAgree(p, b)
<1>1. ASSUME NEW q, NEW c, LeavesAgree(q, c) PROVE InnersAgree(q, c)
  BY <1>1 DEF LeavesAgree, InnersAgree, LeafAgrees, InnerAgrees
<1>2. ASSUME NEW x, InnerAgrees(x, b) PROVE OuterAgrees(x, b)
  BY <1>1, <1>2 DEF InnerAgrees, OuterAgrees
<1> QED
  BY <1>1, <1>2 DEF InnersAgree, OutersAgree

\* What agrees with a truth value agrees with any equivalent one.
LEMMA SameAgreement ==
  ASSUME NEW b, NEW c, b <=> c
  PROVE  /\ \A p : LeavesAgree(p, b) => LeavesAgree(p, c)
         /\ \A p : InnersAgree(p, b) => InnersAgree(p, c)
         /\ \A x : OuterAgrees(x, b) => OuterAgrees(x, c)
<1>1. ASSUME NEW p, NEW v, NEW w, v <=> w, LeavesAgree(p, v)
      PROVE  LeavesAgree(p, w)
  BY <1>1 DEF LeavesAgree, LeafAgrees, SaysLoop
<1>2. ASSUME NEW p, NEW v, NEW w, v <=> w, InnersAgree(p, v)
      PROVE  InnersAgree(p, w)
  BY <1>1, <1>2 DEF InnersAgree, InnerAgrees, SaysLoop
<1>3. ASSUME NEW x, OuterAgrees(x, b) PROVE OuterAgrees(x, c)
  BY <1>2, <1>3 DEF OuterAgrees, SaysLoop
<1> QED
  BY <1>1, <1>2, <1>3

\* Agreeing plans, of each depth, may be put one after the other.
LEMMA LeavesConcatenation ==
  ASSUME NEW p, NEW q, NEW b, LeavesAgree(p, b), LeavesAgree(q, b)
  PROVE  LeavesAgree(p \o q, b)
BY Concatenation, SequenceLength DEF LeavesAgree

\* The same of plans with scopes in them.
LEMMA InnersConcatenation ==
  ASSUME NEW p, NEW q, NEW b, InnersAgree(p, b), InnersAgree(q, b)
  PROVE  InnersAgree(p \o q, b)
BY Concatenation, SequenceLength DEF InnersAgree

\* The same of plans whose scopes hold such plans.
LEMMA OutersConcatenation ==
  ASSUME NEW p, NEW q, NEW b, OutersAgree(p, b), OutersAgree(q, b)
  PROVE  OutersAgree(p \o q, b)
BY Concatenation, SequenceLength DEF OutersAgree

\* Plans of no item and of one.
LEMMA ShortAgreement ==
  ASSUME NEW x, NEW b
  PROVE  /\ LeavesAgree(<<>>, b)
         /\ LeafAgrees(x, b) => LeavesAgree(<<x>>, b)
         /\ OuterAgrees(x, b) => OutersAgree(<<x>>, b)
<1>1. LeavesAgree(<<>>, b)
  BY Singleton DEF LeavesAgree
<1>2. IsSequence(<<x>>) /\ DOMAIN <<x>> = 1 .. 1 /\ <<x>>[1] = x
  BY Singleton, SequenceLength
<1> QED
  BY <1>1, <1>2 DEF LeavesAgree, OutersAgree

\* Plans of several items.
LEMMA TuplesAgree ==
  ASSUME NEW v, NEW a, NEW b, NEW c, LeafAgrees(a, v), LeafAgrees(b, v)
  PROVE  /\ LeavesAgree(<<a, b>>, v)
         /\ LeafAgrees(c, v) => LeavesAgree(<<a, b, c>>, v)
         /\ \A d, e : LeafAgrees(c, v) /\ LeafAgrees(d, v) /\ LeafAgrees(e, v)
               => LeavesAgree(<<a, b, c, d, e>>, v)
         /\ \A d, e, f : /\ LeafAgrees(c, v) /\ LeafAgrees(d, v)
                         /\ LeafAgrees(e, v) /\ LeafAgrees(f, v)
               => LeavesAgree(<<a, b, c, d, e, f>>, v)
<1>0. LeavesAgree(<<a, b>>, v)
  <2>1. <<a, b>> \in Seq({a, b}) /\ DOMAIN <<a, b>> = 1 .. 2
    OBVIOUS
  <2>2. IsSequence(<<a, b>>)
    BY <2>1, AnySequence
  <2> QED
    BY <2>1, <2>2 DEF LeavesAgree
<1>1. ASSUME LeafAgrees(c, v) PROVE LeavesAgree(<<a, b, c>>, v)
  <2>1. <<a, b, c>> \in Seq({a, b, c}) /\ DOMAIN <<a, b, c>> = 1 .. 3
    OBVIOUS
  <2>2. IsSequence(<<a, b, c>>)
    BY <2>1, AnySequence
  <2> QED
    BY <1>1, <2>1, <2>2 DEF LeavesAgree
<1>2. ASSUME NEW d, NEW e, LeafAgrees(c, v), LeafAgrees(d, v), LeafAgrees(e, v)
      PROVE  LeavesAgree(<<a, b, c, d, e>>, v)
  <2>1. /\ <<a, b, c, d, e>> \in Seq({a, b, c, d, e})
        /\ DOMAIN <<a, b, c, d, e>> = 1 .. 5
    OBVIOUS
  <2>2. IsSequence(<<a, b, c, d, e>>)
    BY <2>1, AnySequence
  <2> QED
    BY <1>2, <2>1, <2>2 DEF LeavesAgree
<1>3. ASSUME NEW d, NEW e, NEW f, LeafAgrees(c, v), LeafAgrees(d, v),
             LeafAgrees(e, v), LeafAgrees(f, v)
      PROVE  LeavesAgree(<<a, b, c, d, e, f>>, v)
  <2>1. /\ <<a, b, c, d, e, f>> \in Seq({a, b, c, d, e, f})
        /\ DOMAIN <<a, b, c, d, e, f>> = 1 .. 6
    OBVIOUS
  <2>2. IsSequence(<<a, b, c, d, e, f>>)
    BY <2>1, AnySequence
  <2> QED
    BY <1>3, <2>1, <2>2 DEF LeavesAgree
<1> QED
  BY <1>0, <1>1, <1>2, <1>3

\* A single scope agrees when its plan does with what is open inside.
LEMMA OneScopeAgrees ==
  ASSUME NEW n, NEW type, NEW p, NEW b,
         \/ LeavesAgree(p, b \/ type \in LoopType)
         \/ InnersAgree(p, b \/ type \in LoopType)
  PROVE  OutersAgree(<<InScope(n, type, p)>>, b)
<1> DEFINE c == b \/ type \in LoopType
<1>1. InnersAgree(p, c)
  <2> HIDE DEF c
  <2>1. LeavesAgree(p, c) \/ InnersAgree(p, c)
    BY DEF c
  <2> QED
    BY <2>1, AgreementInclusion
<1>2. OuterAgrees(InScope(n, type, p), b)
  BY <1>1 DEF OuterAgrees, SaysLoop, InScope
<1> QED
  BY <1>2, ShortAgreement

\* The statements of a block are in the loop the block is in.
LEMMA BlockPlanAgrees ==
  ASSUME NEW first \in Nat \ {0}, NEW k \in Nat, NEW next, NEW ctx, NEW b,
         ctx.loop # "none" <=> b
  PROVE  LeavesAgree(BlockPlan(first, k, next, ctx), b)
<1> DEFINE p == BlockPlan(first, k, next, ctx)
<1>1. DOMAIN p = 1 .. 2 * k
  BY DEF BlockPlan
<1>2. IsSequence(p)
  BY BlockPlanIsLeafy DEF LeafPlan
<1>3. ASSUME NEW i \in 1 .. 2 * k PROVE LeafAgrees(p[i], b)
  <2>1. \/ p[i] = LineNumber
        \/ \E n, to : p[i] = Visit(n, to, ctx)
    BY DEF BlockPlan
  <2> HIDE DEF p
  <2> QED
    BY <2>1, ItemsAgree
<1> QED
  BY <1>1, <1>2, <1>3 DEF LeavesAgree

\* Which of the types of scope in a plan are loops.
LEMMA LoopTypes ==
  /\ "while" \in LoopType /\ "do" \in LoopType /\ "for" \in LoopType
  /\ "if" \notin LoopType /\ "else_if" \notin LoopType
BY DEF LoopType

\* The context of the body of a loop is a loop.
LEMMA InLoopSays ==
  ASSUME NEW loop \in LoopType, NEW brk, NEW cont
  PROVE  InLoop(loop, brk, cont).loop # "none"
BY DEF InLoop, LoopType

\* The body of a while is in a loop, whatever is around the while.
LEMMA WhilePlanAgrees ==
  ASSUME NEW s, NEW body, NEW c, NEW b
  PROVE  OutersAgree(WhilePlan(s, body, c), b)
<1> DEFINE ctx == InLoop("while", s.next, CondOf(s.node))
           p == <<LabelLine(Here("entry")),
                  Cond(c, CondOf(s.node), StartOf(body), s.next),
                  Branch("unless", Here("exit")),
                  Block(body, CondOf(s.node), ctx),
                  Goto(Here("entry")),
                  LabelLine(Here("exit"))>>
<1>1. ctx.loop # "none" <=> TRUE
  BY InLoopSays, LoopTypes
<1>2. WhilePlan(s, body, c) = <<InScope(s.node, "while", p)>>
  BY DEF WhilePlan
<1>3. LeavesAgree(p, TRUE)
  <2> HIDE DEF ctx
  <2> QED
    BY <1>1, ItemsAgree, TuplesAgree
<1> HIDE DEF p
<1>4. (b \/ "while" \in LoopType) <=> TRUE
  BY LoopTypes
<1>5. LeavesAgree(p, b \/ "while" \in LoopType)
  BY <1>3, <1>4 DEF LeavesAgree, LeafAgrees, SaysLoop
<1> QED
  BY <1>2, <1>5, OneScopeAgrees

\* The same of a do.
LEMMA DoPlanAgrees ==
  ASSUME NEW s, NEW body, NEW c, NEW b
  PROVE  OutersAgree(DoPlan(s, body, c), b)
<1> DEFINE ctx  == InLoop("do", s.next, CondOf(s.node))
           back == IF c.form = "none" THEN Goto(Here("entry"))
                                      ELSE Branch("if", Here("entry"))
           p == <<LabelLine(Here("entry")),
                  Block(body, CondOf(s.node), ctx),
                  Cond(c, CondOf(s.node), StartOf(body), s.next),
                  back,
                  LabelLine(Here("exit"))>>
<1>1. ctx.loop # "none" <=> TRUE
  BY InLoopSays, LoopTypes
<1>2. DoPlan(s, body, c) = <<InScope(s.node, "do", p)>>
  BY DEF DoPlan
<1>3. LeafAgrees(back, TRUE)
  BY ItemsAgree
<1>4. LeavesAgree(p, TRUE)
  <2> HIDE DEF ctx, back
  <2> QED
    BY <1>1, <1>3, ItemsAgree, TuplesAgree
<1> HIDE DEF p
<1>5. LeavesAgree(p, b \/ "do" \in LoopType)
  BY <1>4, LoopTypes DEF LeavesAgree, LeafAgrees, SaysLoop
<1> QED
  BY <1>2, <1>5, OneScopeAgrees

\* The same of a for, whose initialiser stands before the scope.
LEMMA ForPlanAgrees ==
  ASSUME NEW s, NEW body, NEW c, NEW full, NEW b
  PROVE  OutersAgree(ForPlan(s, body, c, full), b)
<1> DEFINE forCond == Saved(<<s.node, "for", "for_cond">>)
           Only(when, plan) == IF when THEN plan ELSE <<>>
           ctx    == InLoop("for", s.next, StepOf(s.node))
           first  == <<NewLabel("for_cond"), LabelLine(forCond),
                       Cond(c, CondOf(s.node), StartOf(body), s.next)>>
           exit   == Only(c.form # "none", <<Branch("unless", Here("exit"))>>)
           middle == <<Block(body, StepOf(s.node), ctx),
                       LabelLine(Here("entry"))>>
           step   == Only(full, <<Line(StepOf(s.node))>>)
           last   == <<Goto(forCond), LabelLine(Here("exit"))>>
           init   == Only(full, <<Line(InitOf(s.node))>>)
           p      == first \o exit \o middle \o step \o last
<1>1. ForPlan(s, body, c, full) = init \o <<InScope(s.node, "for", p)>>
  BY DEF ForPlan
<1>2. ctx.loop # "none" <=> TRUE
  BY InLoopSays, LoopTypes
<1>3. LeavesAgree(first, TRUE) /\ LeavesAgree(exit, TRUE)
  BY ItemsAgree, TuplesAgree, ShortAgreement
<1>4. LeavesAgree(middle, TRUE)
  <2> HIDE DEF ctx
  <2> QED
    BY <1>2, ItemsAgree, TuplesAgree
<1>5. LeavesAgree(step, TRUE) /\ LeavesAgree(last, TRUE) /\ LeavesAgree(init, b)
  BY ItemsAgree, TuplesAgree, ShortAgreement
<1> HIDE DEF first, exit, middle, step, last, init
<1>6. LeavesAgree(p, TRUE)
  BY <1>3, <1>4, <1>5, LeavesConcatenation
<1> HIDE DEF p
<1>7. LeavesAgree(p, b \/ "for" \in LoopType)
  BY <1>6, LoopTypes DEF LeavesAgree, LeafAgrees, SaysLoop
<1>8. OutersAgree(<<InScope(s.node, "for", p)>>, b)
  BY <1>7, OneScopeAgrees
<1>9. OutersAgree(init, b)
  BY <1>5, AgreementInclusion
<1> QED
  BY <1>1, <1>8, <1>9, OutersConcatenation

\* The blocks of an if are in the loop the if is in.
LEMMA IfPlanAgrees ==
  ASSUME NEW s, NEW cs, NEW hasElse, NEW b, s.ctx.loop # "none" <=> b,
         Len(cs) \in Nat \ {0}
  PROVE  OutersAgree(IfPlan(s, cs, hasElse), b)
<1> DEFINE n         == s.node
           branch(i) == IF i = 1 THEN n ELSE nodes + 2 * i - 2
           block(i)  == nodes + 2 * i - 1
           else      == nodes + 2 * Len(cs)
           otherwise(i) == IF i < Len(cs) THEN CondOf(branch(i + 1))
                           ELSE IF hasElse THEN StartOf(else) ELSE s.next
           ifExit == Saved(<<n, "if", "exit">>)
           ifEnd  == Saved(<<n, "if", "stmt_end">>)
           Arm(i, exit) ==
              <<Cond(cs[i], CondOf(branch(i)), StartOf(block(i)), otherwise(i)),
                Branch("unless", exit),
                LabelLine(Here("entry")),
                Block(block(i), s.next, s.ctx),
                Goto(ifEnd),
                LabelLine(exit)>>
           elseIf(i) == InScope(branch(i + 1), "else_if",
                                Arm(i + 1, Here("exit")))
           elseIfs == [i \in 1 .. Len(cs) - 1 |-> elseIf(i)]
           ask     == <<Ask("exit"), NewLabel("stmt_end")>>
           tail    == IF hasElse THEN <<Block(else, s.next, s.ctx)>> ELSE <<>>
           end     == <<LabelLine(ifEnd)>>
           p       == ask \o Arm(1, ifExit) \o elseIfs \o tail \o end
<1>1. IfPlan(s, cs, hasElse) = <<InScope(n, "if", p)>>
  BY DEF IfPlan
<1>2. ASSUME NEW i, NEW exit PROVE LeavesAgree(Arm(i, exit), b)
  <2> HIDE DEF block, branch, otherwise, ifEnd
  <2> QED
    BY ItemsAgree, TuplesAgree
<1>3. ASSUME NEW i PROVE InnerAgrees(elseIf(i), b)
  <2>1. LeavesAgree(Arm(i + 1, Here("exit")), b)
    <3> HIDE DEF Arm
    <3> QED
      BY <1>2
  <2> HIDE DEF Arm, branch
  <2>2. LeavesAgree(Arm(i + 1, Here("exit")), b \/ "else_if" \in LoopType)
    BY <2>1, LoopTypes DEF LeavesAgree, LeafAgrees, SaysLoop
  <2> QED
    BY <2>2 DEF InnerAgrees, SaysLoop, InScope
<1> HIDE DEF elseIf
<1>4. InnersAgree(elseIfs, b)
  <2>1. DOMAIN elseIfs = 1 .. Len(cs) - 1 /\ Len(cs) - 1 \in Nat
    OBVIOUS
  <2>2. elseIfs \in [1 .. Len(cs) - 1 -> {elseIfs[i] : i \in DOMAIN elseIfs}]
    OBVIOUS
  <2>3. IsSequence(elseIfs)
    BY <2>1, <2>2 DEF IsSequence
  <2> QED
    BY <1>3, <2>1, <2>3 DEF InnersAgree
<1>5. LeavesAgree(Arm(1, ifExit), b)
  <2> HIDE DEF Arm
  <2> QED
    BY <1>2
<1>6. LeavesAgree(ask, b) /\ LeavesAgree(end, b) /\ LeavesAgree(tail, b)
  <2>1. LeavesAgree(ask, b)
    BY ItemsAgree, TuplesAgree
  <2>2. LeavesAgree(end, b)
    <3> HIDE DEF ifEnd
    <3> QED
      BY ItemsAgree, ShortAgreement
  <2>3. LeavesAgree(tail, b)
    <3> HIDE DEF else
    <3>1. LeafAgrees(Block(else, s.next, s.ctx), b)
      BY ItemsAgree
    <3> QED
      BY <3>1, ShortAgreement
  <2> QED
    BY <2>1, <2>2, <2>3
<1> HIDE DEF Arm, ask, end, tail, elseIfs
<1>7. InnersAgree(p, b)
  BY <1>4, <1>5, <1>6, AgreementInclusion, InnersConcatenation
<1> HIDE DEF p
<1>8. InnersAgree(p, b \/ "if" \in LoopType)
  BY <1>7, LoopTypes, SameAgreement
<1> QED
  BY <1>1, <1>8, OneScopeAgrees

-----------------------------------------------------------------------------
(* Steps.                                                                  *)

\* The head of a continuation is at the level of the innermost scope.
LEMMA HeadLevel ==
  ASSUME NEW td, NEW n \in Nat,
         Continuation(td), td # <<>>, Head(td).do # "leave", Matches(td, n)
  PROVE  1 \in DOMAIN td /\ Head(td) = td[1] /\ AtLevel(td, 1, n)
<1>1. /\ Len(td) \in Nat \ {0} /\ DOMAIN td = 1 .. Len(td)
      /\ Head(td) = td[1] /\ 1 \in DOMAIN td
  BY HeadAndTail DEF Continuation
<1>2. ASSUME NEW j \in Leaves(td) PROVE 1 < j /\ td[j].depth <= n
  <2>1. j \in 1 .. Len(td) /\ td[j].do = "leave"
    BY <1>1 DEF Leaves
  <2>2. j # 1
    BY <1>1, <2>1
  <2>3. td[j].depth \in 1 .. n
    BY DEF Matches
  <2> QED
    BY <1>1, <2>1, <2>2, <2>3
<1> QED
  BY <1>1, <1>2 DEF AtLevel

\* A visitor's plan is at the level of the visitor, and so agrees with the
\* same scopes; the items after it stay where they were.
LEMMA PushAgreement ==
  ASSUME NEW td, NEW p, NEW n \in Nat, NEW st,
         Continuation(td), td # <<>>, Head(td).do # "leave",
         OuterPlan(p), Matches(td, n), Agreement(td, st, n),
         OutersAgree(p, LoopAmong(st, n))
  PROVE  Agreement(p \o Tail(td), st, n)
<1> DEFINE r == p \o Tail(td)
<1>0. IsSequence(td) /\ IsSequence(p)
  BY DEF Continuation, OuterPlan
<1>1. /\ Len(p) \in Nat /\ Len(td) \in Nat \ {0}
      /\ DOMAIN p = 1 .. Len(p) /\ DOMAIN td = 1 .. Len(td)
      /\ DOMAIN r = 1 .. Len(p) + Len(td) - 1
      /\ \A i \in 1 .. Len(p) : r[i] = p[i]
      /\ \A i \in 2 .. Len(td) : r[i + Len(p) - 1] = td[i]
      /\ td[1].do # "leave"
  BY <1>0, Splice
<1>2. \A i \in DOMAIN r :
         \/ i \in DOMAIN p /\ r[i] = p[i]
         \/ \E j \in DOMAIN td : j # 1 /\ i = j + Len(p) - 1 /\ r[i] = td[j]
  BY <1>0, SpliceIndices
<1>3. Matches(r, n)
  BY PushPlan
<1> HIDE DEF r
<1>4. \A i \in DOMAIN p : p[i].do # "leave"
  BY DEF OuterPlan, Outer, Leafy, ScopeOf
<1>5. \A i \in Leaves(r) : i > Len(p)
  BY <1>1, <1>2, <1>4 DEF Leaves
<1>6. \A j \in Leaves(td) : /\ j \in 2 .. Len(td)
                            /\ j + Len(p) - 1 \in Leaves(r)
                            /\ r[j + Len(p) - 1] = td[j]
  BY <1>1 DEF Leaves
<1> SUFFICES ASSUME NEW i \in DOMAIN r, NEW d \in 0 .. n,
                    r[i].do # "leave", AtLevel(r, i, d)
             PROVE  OuterAgrees(r[i], LoopAmong(st, d))
  BY DEF Agreement, r
<1>7. CASE i \in DOMAIN p /\ r[i] = p[i]
  <2>1. d = n
    <3>1. CASE n = 0
      BY <3>1
    <3>2. CASE n # 0
      <4>1. PICK j \in Leaves(r) : r[j].depth = n
        BY <1>3, <3>2 DEF Matches
      <4>2. i < j
        BY <1>1, <1>5, <1>7 DEF Leaves
      <4>3. n <= d
        BY <4>1, <4>2 DEF AtLevel
      <4> QED
        BY <4>3
    <3> QED
      BY <3>1, <3>2
  <2> QED
    BY <1>7, <2>1 DEF OutersAgree
<1>8. CASE \E j \in DOMAIN td : j # 1 /\ i = j + Len(p) - 1 /\ r[i] = td[j]
  <2>1. PICK j \in DOMAIN td : j # 1 /\ i = j + Len(p) - 1 /\ r[i] = td[j]
    BY <1>8
  <2>2. AtLevel(td, j, d)
    <3> SUFFICES ASSUME NEW k \in Leaves(td)
                 PROVE  j < k <=> td[k].depth <= d
      BY DEF AtLevel
    <3>1. /\ k + Len(p) - 1 \in Leaves(r)
          /\ r[k + Len(p) - 1] = td[k] /\ k \in 2 .. Len(td)
      BY <1>6
    <3>2. i < k + Len(p) - 1 <=> td[k].depth <= d
      BY <3>1 DEF AtLevel
    <3>3. i < k + Len(p) - 1 <=> j < k
      BY <1>1, <2>1, <3>1
    <3> QED
      BY <3>2, <3>3
  <2> QED
    BY <2>1, <2>2 DEF Agreement
<1> QED
  BY <1>2, <1>7, <1>8

\* A scope that is entered adds a level: its plan agrees with it, and the
\* items after it are further out.
LEMMA ScopeAgreement ==
  ASSUME NEW td, NEW p, NEW n \in Nat, NEW st, NEW new,
         Continuation(td), td # <<>>, Head(td).do # "leave",
         OuterPlan(p), Matches(td, n), Agreement(td, st, n),
         \A d \in 0 .. n : LoopAmong(new, d) <=> LoopAmong(st, d),
         OutersAgree(p, LoopAmong(new, n + 1))
  PROVE  Agreement((p \o <<Leave(n + 1)>>) \o Tail(td), new, n + 1)
<1> DEFINE q == p \o <<Leave(n + 1)>>
           r == q \o Tail(td)
<1>1. /\ IsSequence(td) /\ IsSequence(p)
      /\ IsSequence(q) /\ Len(q) = Len(p) + 1
      /\ Len(p) \in Nat /\ DOMAIN p = 1 .. Len(p)
      /\ \A i \in 1 .. Len(p) : q[i] = p[i]
      /\ q[Len(p) + 1] = Leave(n + 1)
  <2>1. /\ IsSequence(td) /\ IsSequence(p) /\ IsSequence(<<Leave(n + 1)>>)
        /\ Len(<<Leave(n + 1)>>) = 1 /\ <<Leave(n + 1)>>[1] = Leave(n + 1)
    BY Singleton DEF Continuation, OuterPlan
  <2>2. Len(p) \in Nat /\ DOMAIN p = 1 .. Len(p)
    BY <2>1, SequenceLength
  <2>3. /\ IsSequence(q) /\ Len(q) = Len(p) + 1
        /\ \A i \in 1 .. Len(p) + 1 :
              q[i] = IF i <= Len(p) THEN p[i] ELSE <<Leave(n + 1)>>[i - Len(p)]
    BY <2>1, Concatenation
  <2> HIDE DEF q
  <2>4. \A i \in 1 .. Len(p) : q[i] = p[i]
    BY <2>2, <2>3
  <2>5. q[Len(p) + 1] = Leave(n + 1)
    <3>1. /\ ~(Len(p) + 1 <= Len(p)) /\ (Len(p) + 1) - Len(p) = 1
          /\ Len(p) + 1 \in 1 .. Len(p) + 1
      BY <2>2
    <3>2. q[Len(p) + 1] = <<Leave(n + 1)>>[(Len(p) + 1) - Len(p)]
      BY <2>3, <3>1
    <3> QED
      BY <2>1, <3>1, <3>2
  <2> QED
    BY <2>1, <2>2, <2>3, <2>4, <2>5
<1> HIDE DEF q
<1>2. /\ Len(td) \in Nat \ {0} /\ DOMAIN td = 1 .. Len(td)
      /\ DOMAIN r = 1 .. Len(q) + Len(td) - 1
      /\ \A i \in 1 .. Len(q) : r[i] = q[i]
      /\ \A i \in 2 .. Len(td) : r[i + Len(q) - 1] = td[i]
      /\ DOMAIN q = 1 .. Len(q)
      /\ td[1].do # "leave"
  BY <1>1, Splice
<1>3. \A i \in DOMAIN r :
         \/ i \in DOMAIN q /\ r[i] = q[i]
         \/ \E j \in DOMAIN td : j # 1 /\ i = j + Len(q) - 1 /\ r[i] = td[j]
  <2>1. IsSequence(td) /\ IsSequence(q) /\ td # <<>>
    BY <1>1
  <2> TAKE i \in DOMAIN r
  <2> QED
    BY <2>1, SpliceIndices
<1> HIDE DEF r
<1> DEFINE k == Len(p) + 1
<1>4. k \in Leaves(r) /\ r[k] = Leave(n + 1) /\ r[k].depth = n + 1
  <2>1. k \in 1 .. Len(q) /\ k \in DOMAIN r
    BY <1>1, <1>2
  <2>2. r[k] = Leave(n + 1)
    BY <1>1, <1>2, <2>1
  <2> QED
    BY <2>1, <2>2 DEF Leaves, Leave
<1>5. \A j \in Leaves(td) : /\ j \in 2 .. Len(td)
                            /\ j + k - 1 \in Leaves(r)
                            /\ r[j + k - 1] = td[j]
  <2> TAKE j \in Leaves(td)
  <2>1. j \in 2 .. Len(td) /\ td[j].do = "leave"
    BY <1>2 DEF Leaves
  <2>2. j + k - 1 \in DOMAIN r /\ r[j + k - 1] = td[j]
    BY <1>1, <1>2, <2>1
  <2> QED
    BY <2>1, <2>2 DEF Leaves
<1> SUFFICES ASSUME NEW i \in DOMAIN r, NEW d \in 0 .. n + 1,
                    r[i].do # "leave", AtLevel(r, i, d)
             PROVE  OuterAgrees(r[i], LoopAmong(new, d))
  BY DEF Agreement, r, q
<1>6. CASE i \in DOMAIN q /\ r[i] = q[i]
  <2>1. i \in 1 .. Len(p) /\ r[i] = p[i]
    <3>1. i # k
      BY <1>4 DEF Leave
    <3> QED
      BY <1>1, <1>2, <1>6, <3>1
  <2>2. n + 1 <= d
    <3>1. i < k
      BY <1>1, <2>1
    <3> QED
      BY <1>4, <3>1 DEF AtLevel
  <2>3. d = n + 1
    BY <2>2
  <2> QED
    BY <1>1, <2>1, <2>3 DEF OutersAgree
<1>7. CASE \E j \in DOMAIN td : j # 1 /\ i = j + Len(q) - 1 /\ r[i] = td[j]
  <2>1. PICK j \in DOMAIN td : j # 1 /\ i = j + k - 1 /\ r[i] = td[j]
    BY <1>1, <1>7
  <2>2. d \in 0 .. n
    <3>1. ~(i < k)
      BY <1>1, <1>2, <2>1
    <3>2. ~(n + 1 <= d)
      BY <1>4, <3>1 DEF AtLevel
    <3> QED
      BY <3>2
  <2>3. AtLevel(td, j, d)
    <3> SUFFICES ASSUME NEW m \in Leaves(td)
                 PROVE  j < m <=> td[m].depth <= d
      BY DEF AtLevel
    <3>1. /\ m + k - 1 \in Leaves(r)
          /\ r[m + k - 1] = td[m] /\ m \in 2 .. Len(td)
      BY <1>5
    <3>2. i < m + k - 1 <=> td[m].depth <= d
      BY <3>1 DEF AtLevel
    <3>3. i < m + k - 1 <=> j < m
      BY <1>1, <1>2, <2>1, <3>1
    <3> QED
      BY <3>2, <3>3
  <2>4. OuterAgrees(td[j], LoopAmong(st, d))
    BY <2>1, <2>2, <2>3 DEF Agreement
  <2>5. LoopAmong(st, d) <=> LoopAmong(new, d)
    BY <2>2
  <2> QED
    BY <2>1, <2>4, <2>5, SameAgreement
<1> QED
  BY <1>3, <1>6, <1>7

\* When a scope is left, the items after it are at the levels they were.
LEMMA PopAgreement ==
  ASSUME NEW td, NEW n \in Nat, NEW st, NEW new,
         Continuation(td), td # <<>>, Head(td).do = "leave",
         Matches(td, n), Agreement(td, st, n),
         \A d \in 0 .. n - 1 : LoopAmong(new, d) <=> LoopAmong(st, d)
  PROVE  Agreement(<<>> \o Tail(td), new, n - 1)
<1> DEFINE e == <<>>
           r == e \o Tail(td)
<1>1. IsSequence(td) /\ IsSequence(e) /\ Len(e) = 0 /\ DOMAIN e = {}
  BY Singleton DEF Continuation
<1> HIDE DEF e
<1>2. /\ Len(td) \in Nat \ {0} /\ DOMAIN td = 1 .. Len(td)
      /\ DOMAIN r = 1 .. Len(e) + Len(td) - 1
      /\ \A i \in 2 .. Len(td) : r[i + Len(e) - 1] = td[i]
      /\ Head(td) = td[1]
  BY <1>1, Splice
<1> HIDE DEF r
<1>3. /\ DOMAIN r = 1 .. Len(td) - 1
      /\ \A i \in 2 .. Len(td) : r[i - 1] = td[i]
      /\ td[1].do = "leave"
  BY <1>1, <1>2
<1>4. n # 0 /\ 1 \in Leaves(td) /\ td[1].depth = n
  <2>1. 1 \in Leaves(td)
    BY <1>2, <1>3 DEF Leaves
  <2>2. td[1].depth \in 1 .. n
    BY <2>1 DEF Matches
  <2>3. PICK j \in Leaves(td) : td[j].depth = n
    BY <2>2 DEF Matches
  <2>4. j = 1 \/ 1 < j
    BY <1>2 DEF Leaves
  <2>5. ~(1 < j)
    BY <2>1, <2>2, <2>3 DEF Matches
  <2> QED
    BY <2>1, <2>2, <2>3, <2>4, <2>5
<1> SUFFICES ASSUME NEW i \in DOMAIN r, NEW d \in 0 .. n - 1,
                    r[i].do # "leave", AtLevel(r, i, d)
             PROVE  OuterAgrees(r[i], LoopAmong(new, d))
  BY DEF Agreement, r, e
<1>5. i + 1 \in DOMAIN td /\ r[i] = td[i + 1] /\ d \in 0 .. n
  <2>1. i + 1 \in 2 .. Len(td) /\ (i + 1) - 1 = i
    BY <1>2, <1>3
  <2> QED
    BY <1>2, <1>3, <2>1
<1>6. AtLevel(td, i + 1, d)
  <2> SUFFICES ASSUME NEW m \in Leaves(td)
               PROVE  i + 1 < m <=> td[m].depth <= d
    BY DEF AtLevel
  <2>1. CASE m = 1
    BY <1>3, <1>4, <2>1
  <2>2. CASE m # 1
    <3>1. m \in 2 .. Len(td) /\ td[m].do = "leave"
      BY <1>2, <2>2 DEF Leaves
    <3>2. m - 1 \in Leaves(r) /\ r[m - 1] = td[m]
      BY <1>2, <1>3, <3>1 DEF Leaves
    <3>3. i < m - 1 <=> td[m].depth <= d
      BY <3>2 DEF AtLevel
    <3> QED
      BY <1>2, <1>3, <3>1, <3>3
  <2> QED
    BY <2>1, <2>2
<1>7. OuterAgrees(td[i + 1], LoopAmong(st, d))
  BY <1>5, <1>6 DEF Agreement
<1> QED
  BY <1>5, <1>7, SameAgreement

-----------------------------------------------------------------------------
(* The invariant: while a function is generated, its continuation agrees   *)
(* with the open scopes.                                                   *)

LoopsAgree == phase # "failed" => Agreement(todo, scopeStack, Len(scopeStack))

\* The loop around the item at the head is what the scopes say.
LEMMA HeadAgrees ==
  ASSUME IInv, LoopsAgree, Generating, Head(todo).do # "leave"
  PROVE  OuterAgrees(h, LoopAmong(scopeStack, Len(scopeStack)))
<1> DEFINE n == Len(scopeStack)
<1>1. n \in Nat /\ todo # <<>> /\ phase # "failed"
  BY LenProperties DEF IInv, Generating
<1>2. Continuation(todo) /\ Matches(todo, n) /\ Agreement(todo, scopeStack, n)
  BY <1>1 DEF IInv, LoopsAgree
<1> HIDE DEF n
<1>3. 1 \in DOMAIN todo /\ h = todo[1] /\ AtLevel(todo, 1, n)
  BY <1>1, <1>2, HeadLevel DEF h
<1>4. n \in 0 .. n /\ todo[1].do # "leave"
  BY <1>1, <1>3 DEF h
<1>5. OuterAgrees(todo[1], LoopAmong(scopeStack, n))
  BY <1>2, <1>3, <1>4 DEF Agreement
<1> QED
  BY <1>3, <1>5 DEF n

\* A step that puts a plan in the place of the head and leaves the scopes be.
LEMMA PlanAgreement ==
  ASSUME IInv, LoopsAgree, Generating, Head(todo).do # "leave",
         NEW p, OuterPlan(p), Continue(p), UNCHANGED scopeStack,
         OutersAgree(p, LoopAmong(scopeStack, Len(scopeStack)))
  PROVE  LoopsAgree'
<1> DEFINE n == Len(scopeStack)
<1>1. n \in Nat /\ todo # <<>> /\ phase # "failed"
  BY LenProperties DEF IInv, Generating
<1>2. Continuation(todo) /\ Matches(todo, n) /\ Agreement(todo, scopeStack, n)
  BY <1>1 DEF IInv, LoopsAgree
<1>3. OutersAgree(p, LoopAmong(scopeStack, n))
  OBVIOUS
<1> HIDE DEF n
<1>4. Agreement(p \o Tail(todo), scopeStack, n)
  BY <1>1, <1>2, <1>3, PushAgreement
<1> QED
  BY <1>4 DEF LoopsAgree, Continue, n

\* The empty plan, and plans without visits.
LEMMA NoVisits ==
  ASSUME NEW b
  PROVE  OuterPlan(<<>>) /\ OutersAgree(<<>>, b)
BY ShortPlans, PlanInclusion, ShortAgreement, AgreementInclusion

\* The visits to statements and blocks plan for the loop they are told of.
LEMMA VisitsKeepAgreement ==
  ASSUME IInv, LoopsAgree,
         \/ VisitSimple \/ VisitReturn \/ VisitBreak \/ VisitContinue
         \/ VisitIf \/ VisitWhile \/ VisitDo \/ VisitFor \/ VisitBlock
  PROVE  LoopsAgree'
<1> USE DEF lmVars
<1> DEFINE b == LoopAmong(scopeStack, Len(scopeStack))
<1>0. nodes \in Nat /\ UNCHANGED scopeStack
  BY DEF IInv, VisitSimple, VisitReturn, VisitBreak, VisitContinue, VisitIf,
         VisitWhile, VisitDo, VisitFor, VisitBlock
<1>1. ASSUME NEW kind \in {"stmt", "block"}, Do(kind)
      PROVE  /\ Generating /\ Head(todo).do # "leave" /\ h.node \in Nat
             /\ h.ctx.loop # "none" <=> b
  <2>1. Generating /\ h.do = kind /\ h.node \in Nat
    BY <1>1, HeadItem DEF h
  <2>2. Head(todo).do # "leave"
    BY <2>1 DEF h
  <2>3. OuterAgrees(h, b)
    BY <2>1, <2>2, HeadAgrees
  <2> HIDE DEF b
  <2> QED
    BY <2>1, <2>2, <2>3 DEF OuterAgrees, SaysLoop
<1> HIDE DEF b
<1>2. ASSUME NEW kind \in {"stmt", "block"}, Do(kind),
             NEW p, OuterPlan(p), OutersAgree(p, b), Continue(p)
      PROVE  LoopsAgree'
  BY <1>0, <1>1, <1>2, PlanAgreement DEF b
<1>4. CASE VisitSimple \/ VisitReturn \/ VisitBreak \/ VisitContinue
  BY <1>2, <1>4, NoVisits DEF VisitSimple, VisitReturn, VisitBreak, VisitContinue
<1>5. CASE VisitIf
  <2>1. PICK m \in 0 .. MaxElseIf, c \in Conds["if"], hasElse \in BOOLEAN :
        \E cs \in [1 .. m -> Conds["else_if"]] :
           Continue(IfPlan(h, <<c>> \o cs, hasElse))
    BY <1>5 DEF VisitIf
  <2>2. PICK cs \in [1 .. m -> Conds["else_if"]] :
           Continue(IfPlan(h, <<c>> \o cs, hasElse))
    BY <2>1
  <2>3. Do("stmt")
    BY <1>5 DEF VisitIf
  <2>4. h.node \in Nat /\ (h.ctx.loop # "none" <=> b)
    BY <1>1, <2>3
  <2>5. Len(<<c>> \o cs) \in Nat \ {0}
    <3>1. cs \in Seq(Conds["else_if"])
      OBVIOUS
    <3>2. IsSequence(cs) /\ IsSequence(<<c>>) /\ Len(<<c>>) = 1
      BY <3>1, AnySequence, Singleton
    <3>3. Len(cs) \in Nat /\ Len(<<c>> \o cs) = 1 + Len(cs)
      BY <3>2, SequenceLength, Concatenation
    <3> QED
      BY <3>3
  <2> DEFINE conds == <<c>> \o cs
             p == IfPlan(h, conds, hasElse)
  <2>6. Continue(p) /\ Len(conds) \in Nat \ {0}
    BY <2>2, <2>5
  <2> HIDE DEF conds
  <2>7. OuterPlan(p) /\ OutersAgree(p, b)
    BY <1>0, <2>4, <2>6, IfPlanIsOuter, IfPlanAgrees
  <2> QED
    BY <1>2, <2>3, <2>6, <2>7
<1>6. CASE VisitWhile \/ VisitDo \/ VisitFor
  <2>1. Do("stmt") /\ nodes' \in Nat
    BY <1>0, <1>6 DEF VisitWhile, VisitDo, VisitFor
  <2>2. PICK p : Continue(p) /\ OuterPlan(p) /\ OutersAgree(p, b)
    <3>1. h.node \in Nat
      BY <1>1, <2>1
    <3>2. CASE VisitWhile
      <4>1. PICK c \in Conds["while"] : Continue(WhilePlan(h, nodes', c))
        BY <3>2 DEF VisitWhile
      <4> QED
        BY <2>1, <3>1, <4>1, WhilePlanIsOuter, WhilePlanAgrees
    <3>3. CASE VisitDo
      <4>1. PICK c \in Conds["do"] : Continue(DoPlan(h, nodes', c))
        BY <3>3 DEF VisitDo
      <4> QED
        BY <2>1, <3>1, <4>1, DoPlanIsOuter, DoPlanAgrees
    <3>4. CASE VisitFor
      <4>1. PICK c \in Conds["for"], full \in BOOLEAN :
               Continue(ForPlan(h, nodes', c, full))
        BY <3>4 DEF VisitFor
      <4> QED
        BY <2>1, <3>1, <4>1, ForPlanIsOuter, ForPlanAgrees
    <3> QED
      BY <1>6, <3>2, <3>3, <3>4
  <2> QED
    BY <1>2, <2>1, <2>2
<1>7. CASE VisitBlock
  <2>1. PICK k \in 0 .. MaxBlock :
           Continue(BlockPlan(nodes + 1, k, h.next, h.ctx))
    BY <1>7 DEF VisitBlock
  <2>2. Do("block") /\ k \in Nat /\ nodes + 1 \in Nat \ {0}
    BY <1>0, <1>7 DEF VisitBlock
  <2>3. h.ctx.loop # "none" <=> b
    BY <1>1, <2>2
  <2> DEFINE p == BlockPlan(nodes + 1, k, h.next, h.ctx)
  <2>4. OuterPlan(p) /\ OutersAgree(p, b)
    BY <2>2, <2>3, BlockPlanIsLeafy, PlanInclusion, BlockPlanAgrees,
       AgreementInclusion
  <2> QED
    BY <1>2, <2>1, <2>2, <2>4
<1> QED
  BY <1>4, <1>5, <1>6, <1>7

\* The visits to conditions and the items that write a line plan no visit to
\* a statement.
LEMMA LinesKeepAgreement ==
  ASSUME IInv, LoopsAgree,
         \/ VisitAtom \/ VisitLogical \/ SkipCond
         \/ EmitLabel \/ EmitGoto \/ EmitBranch \/ EmitLine \/ EmitAct
         \/ AskLabel \/ NameLabel \/ EndFunction
  PROVE  LoopsAgree'
<1> USE DEF lmVars
<1> DEFINE b == LoopAmong(scopeStack, Len(scopeStack))
<1>1. UNCHANGED scopeStack
  BY DEF VisitAtom, VisitLogical, SkipCond, EmitLabel, EmitGoto, EmitBranch,
         EmitLine, EmitAct, AskLabel, NameLabel, EndFunction, Named, Record,
         GenerateLabel, GenerateLineLabel
<1>2. PICK kind \in {"cond", "label", "goto", "branch", "line", "act", "ask",
                     "newlabel", "epilogue"} : Do(kind)
  BY DEF VisitAtom, VisitLogical, SkipCond, EmitLabel, EmitGoto, EmitBranch,
         EmitLine, EmitAct, AskLabel, NameLabel, EndFunction
<1>3. Generating /\ Head(todo).do # "leave"
  BY <1>2, HeadItem
<1>4. PICK p : Continue(p) /\ OuterPlan(p) /\ OutersAgree(p, b)
  <2> HIDE DEF b
  <2>1. CASE VisitLogical
    <3> DEFINE l == Operand(h.point, "l")
               r == Operand(h.point, "r")
               and == <<Cond(h.cond.lhs, l, r, h.no),
                        Branch("unless", Here("exit")),
                        Cond(h.cond.rhs, r, h.yes, h.no)>>
               or  == <<Cond(h.cond.lhs, l, h.yes, r),
                        Branch("if", Here("entry")),
                        Cond(h.cond.rhs, r, h.yes, h.no)>>
    <3>1. LeafPlan(and) /\ LeafPlan(or)
      BY LeafItems, LeafTuples
    <3>2. LeavesAgree(and, b) /\ LeavesAgree(or, b)
      BY ItemsAgree, TuplesAgree
    <3>3. Continue(IF h.cond.form = "and" THEN and ELSE or)
      BY <2>1 DEF VisitLogical
    <3> HIDE DEF and, or
    <3>4. Continue(and) \/ Continue(or)
      BY <3>3
    <3> QED
      BY <3>1, <3>2, <3>4, PlanInclusion, AgreementInclusion
  <2>2. CASE ~VisitLogical
    <3>1. Continue(<<>>)
      BY <2>2 DEF VisitAtom, SkipCond, EmitLabel, EmitGoto, EmitBranch,
         EmitLine, EmitAct, AskLabel, NameLabel, EndFunction
    <3> QED
      BY <3>1, NoVisits
  <2> QED
    BY <2>1, <2>2
<1> QED
  BY <1>1, <1>3, <1>4, PlanAgreement

\* Entering a scope, which may be a loop, and leaving it.
LEMMA ScopesKeepAgreement ==
  ASSUME IInv, LoopsAgree, OpenScope \/ CloseScope
  PROVE  LoopsAgree'
<1> DEFINE n == Len(scopeStack)
<1>0. n \in Nat /\ Continuation(todo)
  BY LenProperties DEF IInv
<1>1. CASE OpenScope
  <2>1. /\ Do("scope") /\ EnterScope(h.node, h.type)
        /\ Continue(h.plan \o <<Leave(n + 1)>>)
    BY <1>1 DEF OpenScope
  <2>2. /\ Generating /\ phase # "failed" /\ todo # <<>>
        /\ Head(todo).do # "leave" /\ h.do = "scope"
        /\ ScopeOf(h) /\ OuterPlan(h.plan)
    BY <2>1, HeadItem, PlanInclusion DEF h
  <2>3. Matches(todo, n) /\ Agreement(todo, scopeStack, n)
    BY <2>2 DEF IInv, LoopsAgree
  <2>4. /\ Len(scopeStack') = n + 1
        /\ \A k \in 1 .. n : scopeStack'[k] = scopeStack[k]
        /\ scopeStack'[n + 1].type = h.type
    BY <2>1, <2>2 DEF EnterScope, IInv, ScopeOf
  <2>5. OuterAgrees(h, LoopAmong(scopeStack, n))
    BY <2>2, HeadAgrees
  <2> HIDE DEF n
  <2>6. \A d \in 0 .. n : LoopAmong(scopeStack', d) <=> LoopAmong(scopeStack, d)
    BY <1>0, <2>4 DEF LoopAmong
  <2>7. LoopAmong(scopeStack', n + 1)
           <=> (LoopAmong(scopeStack, n) \/ h.type \in LoopType)
    <3>1. \A k : k \in 1 .. n + 1 <=> k \in 1 .. n \/ k = n + 1
      BY <1>0
    <3> QED
      BY <2>4, <3>1 DEF LoopAmong
  <2>8. OutersAgree(h.plan, LoopAmong(scopeStack', n + 1))
    <3>1. InnersAgree(h.plan, LoopAmong(scopeStack, n) \/ h.type \in LoopType)
      BY <2>2, <2>5 DEF OuterAgrees
    <3> DEFINE x == LoopAmong(scopeStack, n) \/ h.type \in LoopType
               y == LoopAmong(scopeStack', n + 1)
    <3>2. (x <=> y) /\ InnersAgree(h.plan, x)
      BY <2>7, <3>1
    <3> HIDE DEF x, y
    <3>3. OutersAgree(h.plan, y)
      BY <3>2, SameAgreement, AgreementInclusion
    <3> QED
      BY <3>3 DEF y
  <2>9. Agreement((h.plan \o <<Leave(n + 1)>>) \o Tail(todo), scopeStack', n + 1)
    BY <1>0, <2>2, <2>3, <2>6, <2>8, ScopeAgreement
  <2> QED
    BY <2>1, <2>4, <2>9 DEF LoopsAgree, Continue
<1>2. CASE CloseScope
  <2>1. Do("leave") /\ LeaveScope /\ Continue(<<>>)
    BY <1>2 DEF CloseScope
  <2>2. phase # "failed" /\ todo # <<>> /\ Head(todo).do = "leave"
    BY <2>1, HeadItem
  <2>3. Matches(todo, n) /\ Agreement(todo, scopeStack, n)
    BY <2>2 DEF IInv, LoopsAgree
  <2>4. /\ Len(scopeStack') = n - 1
        /\ \A k \in 1 .. n - 1 : scopeStack'[k] = scopeStack[k]
    <3>1. scopeStack' = SubSeq(scopeStack, 1, n - 1)
      BY <2>1 DEF LeaveScope
    <3>2. n \in Nat \ {0} /\ scopeStack \in Seq([loc : Nat, type : ScopedType])
      BY <2>1, EmptySeq DEF LeaveScope, IInv
    <3>3. \A i \in 1 .. n - 1 : scopeStack[i] \in [loc : Nat, type : ScopedType]
      <4> TAKE i \in 1 .. n - 1
      <4>1. i \in 1 .. Len(scopeStack)
        BY <3>2
      <4> QED
        BY <3>2, <4>1, ElementOfSeq
    <3> HIDE DEF n
    <3> QED
      BY <3>1, <3>2, <3>3, SubSeqProperties
  <2> HIDE DEF n
  <2>5. \A d \in 0 .. n - 1 :
           LoopAmong(scopeStack', d) <=> LoopAmong(scopeStack, d)
    BY <1>0, <2>4 DEF LoopAmong
  <2>6. Agreement(<<>> \o Tail(todo), scopeStack', n - 1)
    BY <1>0, <2>2, <2>3, <2>5, PopAgreement
  <2> QED
    BY <2>1, <2>4, <2>6 DEF LoopsAgree, Continue
<1> QED
  BY <1>1, <1>2

\* From one function to the next, and when generation fails.
LEMMA FunctionsKeepAgreement ==
  ASSUME IInv, LoopsAgree,
         \/ StartFunction \/ SkipPrototype \/ MissingReturn
         \/ NextFunction \/ Fail
  PROVE  LoopsAgree'
<1> USE DEF lmVars
<1>1. CASE StartFunction
  <2>1. PICK k \in 1 .. MaxBlock :
           Continue(BlockPlan(2, k, Halt, NoLoop) \o <<Epilogue(1 + k)>>)
    BY <1>1 DEF StartFunction
  <2>2. Do("function") /\ scopeStack' = <<>>
    BY <1>1 DEF StartFunction, ResetLables
  <2>3. phase = "gen" /\ todo # <<>> /\ Head(todo).do = "function" /\ Generating
    BY <2>2, HeadItem
  <2>4. scopeStack = <<>>
    BY <2>3, NothingOpen
  <2>5. LoopAmong(scopeStack, Len(scopeStack)) <=> FALSE
    BY <2>4 DEF LoopAmong
  <2> DEFINE p == BlockPlan(2, k, Halt, NoLoop) \o <<Epilogue(1 + k)>>
  <2>6. OuterPlan(p)
    <3>1. LeafPlan(BlockPlan(2, k, Halt, NoLoop))
      BY BlockPlanIsLeafy
    <3>2. LeafPlan(<<Epilogue(1 + k)>>)
      BY LeafItems, ShortPlans
    <3> QED
      BY <3>1, <3>2, LeafConcatenation, PlanInclusion
  <2>7. OutersAgree(p, LoopAmong(scopeStack, Len(scopeStack)))
    <3> DEFINE b == LoopAmong(scopeStack, Len(scopeStack))
    <3>1. NoLoop.loop # "none" <=> b
      BY <2>5 DEF NoLoop
    <3> HIDE DEF b
    <3>2. LeavesAgree(BlockPlan(2, k, Halt, NoLoop), b)
      BY <3>1, BlockPlanAgrees
    <3>3. LeavesAgree(<<Epilogue(1 + k)>>, b)
      BY ItemsAgree, ShortAgreement
    <3>4. OutersAgree(p, b)
      BY <3>2, <3>3, LeavesConcatenation, AgreementInclusion
    <3> QED
      BY <3>4 DEF b
  <2>8. Continue(p)
    BY <2>1
  <2> HIDE DEF p
  <2> QED
    BY <2>2, <2>3, <2>4, <2>6, <2>7, <2>8, PlanAgreement
<1>2. CASE NextFunction
  <2> DEFINE f == Function
  <2>1. IsSequence(<<f>>) /\ Len(<<f>>) = 1 /\ <<f>>[1] = f
    BY Singleton
  <2>2. DOMAIN <<f>> = 1 .. 1
    BY <2>1, SequenceLength
  <2>3. \A b : OuterAgrees(f, b)
    BY DEF Function, OuterAgrees, SaysLoop
  <2>4. todo' = <<f>>
    BY <1>2 DEF NextFunction
  <2> HIDE DEF f
  <2> QED
    BY <2>1, <2>2, <2>3, <2>4 DEF LoopsAgree, Agreement
<1>3. CASE SkipPrototype
  <2>1. Do("function") /\ scopeStack' = <<>> /\ UNCHANGED <<phase, todo>>
    BY <1>3 DEF SkipPrototype, ResetLables, genVars
  <2>2. phase = "gen" /\ todo # <<>> /\ Head(todo).do = "function"
    BY <2>1, HeadItem
  <2>3. scopeStack = <<>>
    BY <2>2, NothingOpen
  <2> QED
    BY <2>1, <2>3 DEF LoopsAgree
<1>4. CASE MissingReturn \/ Fail
  BY <1>4 DEF MissingReturn, Fail, LoopsAgree
<1> QED
  BY <1>1, <1>2, <1>3, <1>4

\* Running the code, and standing still.
LEMMA RunKeepsAgreement ==
  ASSUME LoopsAgree, \/ StartRun \/ RunEval \/ RunAct \/ RunReturn \/ Done
                     \/ UNCHANGED vars
  PROVE  LoopsAgree'
<1>1. UNCHANGED <<todo, scopeStack>>
  BY DEF StartRun, RunEval, RunAct, RunReturn, Ran, Done, vars, genVars, lmVars
<1>2. phase # "failed" \/ UNCHANGED phase
  BY DEF StartRun, RunEval, RunAct, RunReturn, Execute, Done, vars, genVars
<1> QED
  BY <1>1, <1>2 DEF LoopsAgree

-----------------------------------------------------------------------------
\* The loop count is zero exactly when no scope is a loop.
LEMMA CountTellsLoop ==
  ASSUME IInv
  PROVE  WithinLoop <=> LoopAmong(scopeStack, Len(scopeStack))
<1>1. DOMAIN scopeStack = 1 .. Len(scopeStack)
  BY DEF IInv
<1>2. OpenLoops # {} <=> LoopAmong(scopeStack, Len(scopeStack))
  BY <1>1 DEF OpenLoops, LoopAmong
<1>3. Cardinality(OpenLoops) = 0 <=> OpenLoops = {}
  BY FiniteLoops, FS_EmptySet DEF IInv
<1> QED
  BY <1>2, <1>3 DEF IInv, LoopsCounted, WithinLoop

\* At every statement the count of loops that break and continue assert is
\* zero exactly when the source is in no loop, however statements nest,
\* whatever was entered and left since the loop began, and from one function
\* to the next.
THEOREM LoopContextCorrect == Spec => []LoopContextAgrees
<1>1. Init => LoopsAgree
  <2> SUFFICES ASSUME Init PROVE LoopsAgree
    OBVIOUS
  <2> DEFINE f == Function
  <2>1. IsSequence(<<f>>) /\ Len(<<f>>) = 1 /\ <<f>>[1] = f
    BY Singleton
  <2>2. DOMAIN <<f>> = 1 .. 1
    BY <2>1, SequenceLength
  <2>3. \A b : OuterAgrees(f, b)
    BY DEF Function, OuterAgrees, SaysLoop
  <2>4. todo = <<f>>
    BY DEF Init
  <2> HIDE DEF f
  <2> QED
    BY <2>1, <2>2, <2>3, <2>4 DEF LoopsAgree, Agreement
<1>2. IInv /\ LoopsAgree /\ [Next]_vars => LoopsAgree'
  <2> SUFFICES ASSUME IInv, LoopsAgree, [Next]_vars PROVE LoopsAgree'
    OBVIOUS
  <2> QED
    BY VisitsKeepAgreement, LinesKeepAgreement, ScopesKeepAgreement,
       FunctionsKeepAgreement, RunKeepsAgreement DEF Next
<1>3. IInv /\ LoopsAgree => LoopContextAgrees
  <2> SUFFICES ASSUME IInv, LoopsAgree, Do("stmt")
               PROVE  WithinLoop <=> h.ctx.loop # "none"
    BY DEF LoopContextAgrees
  <2> DEFINE b == LoopAmong(scopeStack, Len(scopeStack))
  <2>1. Generating /\ h.do = "stmt" /\ Head(todo).do # "leave"
    BY HeadItem DEF h
  <2>2. OuterAgrees(h, b)
    BY <2>1, HeadAgrees
  <2>3. WithinLoop <=> b
    BY CountTellsLoop
  <2> HIDE DEF b
  <2> QED
    BY <2>1, <2>2, <2>3 DEF OuterAgrees, SaysLoop
<1> QED
  BY <1>1, <1>2, <1>3, Invariance, PTL DEF Spec

=============================================================================
