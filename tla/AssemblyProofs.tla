--------------------------- MODULE AssemblyProofs ---------------------------
(***************************************************************************)
(* Proof that a finished function assembles (CodeAssembles) and that the   *)
(* generator keeps its types (TypeOK of JVMControlFlow), for every bound   *)
(* and every set of conditions whose hints the tables of branches know.    *)
(*                                                                         *)
(* A jump may be written long before or after the line of its label.  The  *)
(* argument follows the labels of a scope from the plan that has their     *)
(* lines, through the continuation, at the level of the scope, to the      *)
(* code: each is always in exactly one of these places, and whatever is    *)
(* jumped to is in one of them.                                            *)
(***************************************************************************)
EXTENDS LabelProofs, LoopContextProofs, NaturalsInduction

\* The two labels every scope has, and what makes a label one of a scope.
Parts == {"entry", "exit"}

IsLabelOf(l, s) == \E part : l = LabelOf(s, part)

\* The label lines of a plan, the label one of them writes in the scope s,
\* and all of those.
Lines(p) == {i \in DOMAIN p : p[i].do = "label"}

Wrote(x, s) == IF x.ref.saved THEN x.ref.label ELSE LabelOf(s, x.ref.part)

Written(p, s) == {Wrote(p[i], s) : i \in Lines(p)}

Once(p, s) == \A i, j \in Lines(p) : Wrote(p[i], s) = Wrote(p[j], s) => i = j

ScopeAt(x) == [loc |-> x.node, type |-> x.type]

\* The plan of the scope s writes both of its labels, none twice and none of
\* another scope.
Whole(p, s) ==
    /\ \A part \in Parts : LabelOf(s, part) \in Written(p, s)
    /\ \A l \in Written(p, s) : IsLabelOf(l, s)
    /\ Once(p, s)

\* A jump is to a label of its scope that every scope has, or to one of A;
\* the condition of a visit is one of W.
Aims(x, A, W) ==
    /\ x.do \in {"goto", "branch"} =>
          IF x.ref.saved THEN x.ref.label \in A ELSE x.ref.part \in Parts
    /\ x.do = "cond" => x.cond \in W

\* The jumps of a plan are to labels of A or of the plans around them, as
\* deep as plans nest.
FlatAims(p, A, W) ==
    IsSequence(p) /\ \A i \in DOMAIN p : p[i].do # "scope" /\ Aims(p[i], A, W)

InnerAims(x, A, W) ==
    /\ Aims(x, A, W)
    /\ x.do = "scope" =>
          LET s == ScopeAt(x)
          IN  Whole(x.plan, s) /\ FlatAims(x.plan, A \union Written(x.plan, s), W)

NestedAims(p, A, W) ==
    IsSequence(p) /\ \A i \in DOMAIN p : InnerAims(p[i], A, W)

OuterAims(x, A, W) ==
    /\ Aims(x, A, W)
    /\ x.do = "scope" =>
          LET s == ScopeAt(x)
          IN  Whole(x.plan, s) /\ NestedAims(x.plan, A \union Written(x.plan, s), W)

DeepAims(p, A, W) ==
    IsSequence(p) /\ \A i \in DOMAIN p : OuterAims(p[i], A, W)

\* An item that asks for a label of the scope it is in, or may plan to.
Scoped(x) == x.do \in {"label", "goto", "branch", "cond"}

\* Of a continuation td and the open scopes st: the labels of scopes whose
\* lines wait, each in the scope of its level; that they are of that scope
\* and differ; that what asks for a label is in a scope.
Coming(td, st) ==
    UNION {{Wrote(td[i], st[d]) : d \in {e \in DOMAIN st : AtLevel(td, i, e)}} :
              i \in Lines(td)}

LinesApart(td, st) ==
    \A i \in Lines(td) : \A d \in DOMAIN st : AtLevel(td, i, d) =>
       /\ IsLabelOf(Wrote(td[i], st[d]), st[d])
       /\ \A j \in Lines(td) :
             AtLevel(td, j, d) /\ Wrote(td[i], st[d]) = Wrote(td[j], st[d])
                => i = j

ScopedInside(td, st) ==
    \A i \in DOMAIN td : Scoped(td[i]) => \E d \in DOMAIN st : AtLevel(td, i, d)

\* Of the code cd: the label lines of scopes, their labels, which differ, and
\* what is jumped to.
ScopeLines(cd) == {i \in DOMAIN cd : cd[i].op = "label" /\ Len(cd[i].label) = 3}
WrittenIn(cd)  == {cd[i].label : i \in ScopeLines(cd)}
CodeApart(cd)  == \A i, j \in ScopeLines(cd) : cd[i].label = cd[j].label => i = j
TargetsIn(cd)  == {cd[i].label : i \in {j \in DOMAIN cd :
                                          cd[j].op \in {"goto", "branch"}}}

Reachable == WrittenIn(code) \union Coming(todo, scopeStack)

\* No two scopes that are open, were closed or wait in todo are at one place.
ScopesApart ==
    /\ \A d \in DOMAIN scopeStack :
          /\ scopeStack[d].loc \in 1 .. nodes
          /\ ~PlanOwns(todo, scopeStack[d].loc)
          /\ \A e \in DOMAIN scopeStack :
                scopeStack[d].loc = scopeStack[e].loc => d = e
    /\ \A l \in WrittenIn(code) : l[1] \in 1 .. nodes /\ ~PlanOwns(todo, l[1])

\* While a function is generated its labels are written once, or will be, and
\* so is whatever is jumped to.
Assembled(W) ==
    phase # "failed" =>
       /\ ScopesApart
       /\ LinesApart(todo, scopeStack)
       /\ Coming(todo, scopeStack) \intersect WrittenIn(code) = {}
       /\ ScopedInside(todo, scopeStack)
       /\ IsSequence(code) /\ CodeApart(code)
       /\ DeepAims(todo, Reachable, W)
       /\ \A d \in DOMAIN scopeStack : \A part \in Parts :
             LabelOf(scopeStack[d], part) \in Reachable
       /\ TargetsIn(code) \subseteq Reachable
       /\ todo # <<>> /\ Head(todo).do = "function" => code = <<>>

-----------------------------------------------------------------------------
(* Levels.                                                                 *)

\* A plan is at the level of the item it replaces; the items after it stay
\* where they were.
LEMMA PushLevels ==
  ASSUME NEW td, NEW p, Continuation(td), td # <<>>, Head(td).do # "leave",
         OuterPlan(p)
  PROVE  /\ \A j \in DOMAIN td : j # 1 =>
              \A d : AtLevel(p \o Tail(td), j + Len(p) - 1, d) <=> AtLevel(td, j, d)
         /\ \A i \in DOMAIN p : \A d :
              AtLevel(p \o Tail(td), i, d) <=> AtLevel(td, 1, d)
<1> DEFINE r == p \o Tail(td)
<1>0. IsSequence(td) /\ IsSequence(p)
  BY DEF Continuation, OuterPlan
<1>1. /\ Len(p) \in Nat /\ Len(td) \in Nat \ {0}
      /\ DOMAIN p = 1 .. Len(p) /\ DOMAIN td = 1 .. Len(td)
      /\ DOMAIN r = 1 .. Len(p) + Len(td) - 1
      /\ \A i \in 2 .. Len(td) : r[i + Len(p) - 1] = td[i]
      /\ td[1].do # "leave"
  BY <1>0, Splice
<1>2. \A i \in DOMAIN r :
         \/ i \in DOMAIN p /\ r[i] = p[i]
         \/ \E j \in DOMAIN td : j # 1 /\ i = j + Len(p) - 1 /\ r[i] = td[j]
  BY <1>0, SpliceIndices
<1> HIDE DEF r
<1>3. \A i \in DOMAIN p : p[i].do # "leave"
  BY DEF OuterPlan, Outer, Leafy, ScopeOf
<1>4. \A k \in Leaves(r) : \E j \in Leaves(td) :
         j \in 2 .. Len(td) /\ k = j + Len(p) - 1 /\ r[k] = td[j]
  <2> TAKE k \in Leaves(r)
  <2>1. k \in DOMAIN r /\ r[k].do = "leave"
    BY DEF Leaves
  <2>2. PICK j \in DOMAIN td : j # 1 /\ k = j + Len(p) - 1 /\ r[k] = td[j]
    BY <1>2, <1>3, <2>1
  <2> QED
    BY <1>1, <2>1, <2>2 DEF Leaves
<1>5. \A j \in Leaves(td) : /\ j \in 2 .. Len(td)
                            /\ j + Len(p) - 1 \in Leaves(r)
                            /\ r[j + Len(p) - 1] = td[j]
  BY <1>1 DEF Leaves
<1>6. ASSUME NEW i \in DOMAIN r, NEW j \in DOMAIN td, NEW d,
             \A k \in 2 .. Len(td) : i < k + Len(p) - 1 <=> j < k
      PROVE  AtLevel(r, i, d) <=> AtLevel(td, j, d)
  <2>1. ASSUME AtLevel(r, i, d), NEW k \in Leaves(td)
        PROVE  j < k <=> td[k].depth <= d
    BY <1>5, <1>6, <2>1 DEF AtLevel
  <2>2. ASSUME AtLevel(td, j, d), NEW k \in Leaves(r)
        PROVE  i < k <=> r[k].depth <= d
    BY <1>4, <1>6, <2>2 DEF AtLevel
  <2> QED
    BY <2>1, <2>2 DEF AtLevel
<1>7. ASSUME NEW j \in DOMAIN td, j # 1, NEW d
      PROVE  AtLevel(r, j + Len(p) - 1, d) <=> AtLevel(td, j, d)
  <2>1. j + Len(p) - 1 \in DOMAIN r
    BY <1>1, <1>7
  <2>2. \A k \in 2 .. Len(td) : j + Len(p) - 1 < k + Len(p) - 1 <=> j < k
    BY <1>1
  <2> QED
    BY <1>6, <2>1, <2>2
<1>8. ASSUME NEW i \in DOMAIN p, NEW d
      PROVE  AtLevel(r, i, d) <=> AtLevel(td, 1, d)
  <2>1. i \in DOMAIN r /\ 1 \in DOMAIN td
    BY <1>1
  <2>2. \A k \in 2 .. Len(td) : i < k + Len(p) - 1 <=> 1 < k
    BY <1>1
  <2> QED
    BY <1>6, <2>1, <2>2
<1> QED
  BY <1>7, <1>8 DEF r

\* The inside of a scope is one level further in, and nothing else is.
LEMMA ScopeLevels ==
  ASSUME NEW td, NEW p, NEW n \in Nat,
         Continuation(td), td # <<>>, Head(td).do # "leave",
         OuterPlan(p), Matches(td, n)
  PROVE  LET q == p \o <<Leave(n + 1)>>
             r == q \o Tail(td)
         IN  /\ IsSequence(q) /\ Len(q) = Len(p) + 1
             /\ \A i \in DOMAIN p : i \in DOMAIN q /\ q[i] = p[i]
             /\ \A i \in DOMAIN q : \/ i \in DOMAIN p /\ q[i] = p[i]
                                    \/ q[i] = Leave(n + 1)
             /\ \A j \in DOMAIN td : j # 1 =>
                   /\ \A d \in 0 .. n :
                         AtLevel(r, j + Len(q) - 1, d) <=> AtLevel(td, j, d)
                   /\ ~AtLevel(r, j + Len(q) - 1, n + 1)
             /\ \A i \in DOMAIN p : \A d \in 0 .. n + 1 :
                   AtLevel(r, i, d) <=> d = n + 1
<1> DEFINE q == p \o <<Leave(n + 1)>>
           r == q \o Tail(td)
<1>1. /\ IsSequence(td) /\ IsSequence(p)
      /\ IsSequence(q) /\ Len(q) = Len(p) + 1
      /\ Len(p) \in Nat /\ DOMAIN p = 1 .. Len(p)
      /\ \A i \in 1 .. Len(p) : q[i] = p[i]
      /\ q[Len(p) + 1] = Leave(n + 1)
  <2>1. /\ IsSequence(td) /\ IsSequence(p) /\ IsSequence(<<Leave(n + 1)>>)
        /\ Len(<<Leave(n + 1)>>) = 1 /\ <<Leave(n + 1)>>[1] = Leave(n + 1)
    BY Singleton DEF Continuation, OuterPlan
  <2>2. Len(p) \in Nat /\ DOMAIN p = 1 .. Len(p)
    BY <2>1, SequenceLength
  <2>3. /\ IsSequence(q) /\ Len(q) = Len(p) + 1
        /\ \A i \in 1 .. Len(p) + 1 :
              q[i] = IF i <= Len(p) THEN p[i] ELSE <<Leave(n + 1)>>[i - Len(p)]
    BY <2>1, Concatenation
  <2> HIDE DEF q
  <2>4. \A i \in 1 .. Len(p) : q[i] = p[i]
    BY <2>2, <2>3
  <2>5. q[Len(p) + 1] = Leave(n + 1)
    <3>1. /\ ~(Len(p) + 1 <= Len(p)) /\ (Len(p) + 1) - Len(p) = 1
          /\ Len(p) + 1 \in 1 .. Len(p) + 1
      BY <2>2
    <3>2. q[Len(p) + 1] = <<Leave(n + 1)>>[(Len(p) + 1) - Len(p)]
      BY <2>3, <3>1
    <3> QED
      BY <2>1, <3>1, <3>2
  <2> QED
    BY <2>1, <2>2, <2>3, <2>4, <2>5
<1>a. Matches(r, n + 1)
  BY PushScope
<1> HIDE DEF q
<1>2. /\ Len(td) \in Nat \ {0} /\ DOMAIN td = 1 .. Len(td)
      /\ DOMAIN r = 1 .. Len(q) + Len(td) - 1
      /\ \A i \in 1 .. Len(q) : r[i] = q[i]
      /\ \A i \in 2 .. Len(td) : r[i + Len(q) - 1] = td[i]
      /\ DOMAIN q = 1 .. Len(q)
      /\ td[1].do # "leave"
  BY <1>1, Splice
<1>3. ASSUME NEW i \in DOMAIN r
      PROVE  \/ i \in DOMAIN q /\ r[i] = q[i]
             \/ \E j \in DOMAIN td : j # 1 /\ i = j + Len(q) - 1 /\ r[i] = td[j]
  <2>1. IsSequence(td) /\ IsSequence(q) /\ td # <<>>
    BY <1>1
  <2> QED
    BY <2>1, SpliceIndices
<1> HIDE DEF r
<1> DEFINE m == Len(p) + 1
<1>4. m \in Leaves(r) /\ r[m] = Leave(n + 1) /\ r[m].depth = n + 1
  <2>1. m \in 1 .. Len(q) /\ m \in DOMAIN r
    BY <1>1, <1>2
  <2>2. r[m] = Leave(n + 1)
    BY <1>1, <1>2, <2>1
  <2> QED
    BY <2>1, <2>2 DEF Leaves, Leave
<1>5. \A j \in Leaves(td) : /\ j \in 2 .. Len(td)
                            /\ j + Len(q) - 1 \in Leaves(r)
                            /\ r[j + Len(q) - 1] = td[j]
  <2> TAKE j \in Leaves(td)
  <2>1. j \in 2 .. Len(td) /\ td[j].do = "leave"
    BY <1>2 DEF Leaves
  <2>2. j + Len(q) - 1 \in DOMAIN r /\ r[j + Len(q) - 1] = td[j]
    BY <1>1, <1>2, <2>1
  <2> QED
    BY <2>1, <2>2 DEF Leaves
<1>6. \A i \in DOMAIN p : p[i].do # "leave"
  BY DEF OuterPlan, Outer, Leafy, ScopeOf
<1>7. ASSUME NEW k \in Leaves(r)
      PROVE  \/ k = m
             \/ \E j \in Leaves(td) :
                  j \in 2 .. Len(td) /\ k = j + Len(q) - 1 /\ r[k] = td[j]
  <2>1. k \in DOMAIN r /\ r[k].do = "leave"
    BY DEF Leaves
  <2>2. CASE k \in DOMAIN q /\ r[k] = q[k]
    <3>1. k \notin DOMAIN p
      BY <1>1, <1>6, <2>1, <2>2
    <3> QED
      BY <1>1, <1>2, <2>2, <3>1
  <2>3. CASE \E j \in DOMAIN td : j # 1 /\ k = j + Len(q) - 1 /\ r[k] = td[j]
    BY <1>2, <2>1, <2>3 DEF Leaves
  <2> QED
    BY <1>3, <2>1, <2>2, <2>3
<1>8. ASSUME NEW j \in DOMAIN td, j # 1, NEW d \in 0 .. n
      PROVE  AtLevel(r, j + Len(q) - 1, d) <=> AtLevel(td, j, d)
  <2>1. ASSUME AtLevel(r, j + Len(q) - 1, d), NEW k \in Leaves(td)
        PROVE  j < k <=> td[k].depth <= d
    <3>1. j + Len(q) - 1 < k + Len(q) - 1 <=> td[k].depth <= d
      BY <1>5, <2>1 DEF AtLevel
    <3> QED
      BY <1>1, <1>2, <1>5, <3>1
  <2>2. ASSUME AtLevel(td, j, d), NEW k \in Leaves(r)
        PROVE  j + Len(q) - 1 < k <=> r[k].depth <= d
    <3>1. CASE k = m
      <4>1. ~(j + Len(q) - 1 < m)
        BY <1>1, <1>2, <1>8
      <4> QED
        BY <1>4, <3>1, <4>1
    <3>2. CASE k # m
      <4>1. PICK l \in Leaves(td) :
              l \in 2 .. Len(td) /\ k = l + Len(q) - 1 /\ r[k] = td[l]
        BY <1>7, <3>2
      <4>2. j < l <=> td[l].depth <= d
        BY <2>2 DEF AtLevel
      <4> QED
        BY <1>1, <1>2, <4>1, <4>2
    <3> QED
      BY <3>1, <3>2
  <2> QED
    BY <2>1, <2>2 DEF AtLevel
<1>9. ASSUME NEW j \in DOMAIN td, j # 1
      PROVE  ~AtLevel(r, j + Len(q) - 1, n + 1)
  <2>1. ~(j + Len(q) - 1 < m) /\ n + 1 <= n + 1
    BY <1>1, <1>2, <1>9
  <2> HIDE DEF m
  <2> QED
    BY <1>4, <2>1 DEF AtLevel
<1>10. ASSUME NEW i \in DOMAIN p, NEW d \in 0 .. n + 1
       PROVE  AtLevel(r, i, d) <=> d = n + 1
  <2>1. ASSUME AtLevel(r, i, d) PROVE d = n + 1
    <3>1. i < m
      BY <1>1
    <3>2. n + 1 <= d
      BY <1>4, <2>1, <3>1 DEF AtLevel
    <3> QED
      BY <3>2
  <2>2. ASSUME NEW k \in Leaves(r)
        PROVE  i < k <=> r[k].depth <= n + 1
    <3>1. r[k].depth \in 1 .. n + 1
      BY <1>a DEF Matches
    <3>2. i < k
      BY <1>1, <1>2, <1>7
    <3> QED
      BY <3>1, <3>2
  <2>3. AtLevel(r, i, n + 1)
    BY <2>2 DEF AtLevel
  <2> QED
    BY <2>1, <2>3
<1>11. \A i \in DOMAIN p : i \in DOMAIN q /\ q[i] = p[i]
  BY <1>1, <1>2
<1>12. \A i \in DOMAIN q : (i \in DOMAIN p /\ q[i] = p[i]) \/ q[i] = Leave(n + 1)
  BY <1>1, <1>2
<1> QED
  BY <1>1, <1>8, <1>9, <1>10, <1>11, <1>12 DEF r, q

\* When a scope is left, the items after it are at the levels they were, and
\* none of them is in that scope.
LEMMA PopLevels ==
  ASSUME NEW td, NEW n \in Nat,
         Continuation(td), td # <<>>, Head(td).do = "leave", Matches(td, n)
  PROVE  /\ n # 0
         /\ \A j \in DOMAIN td : j # 1 =>
              /\ \A d \in 0 .. n - 1 :
                   AtLevel(<<>> \o Tail(td), j - 1, d) <=> AtLevel(td, j, d)
              /\ ~AtLevel(td, j, n)
<1> DEFINE e == <<>>
           r == e \o Tail(td)
<1>1. IsSequence(td) /\ IsSequence(e) /\ Len(e) = 0 /\ DOMAIN e = {}
  BY Singleton DEF Continuation
<1> HIDE DEF e
<1>2. /\ Len(td) \in Nat \ {0} /\ DOMAIN td = 1 .. Len(td)
      /\ DOMAIN r = 1 .. Len(e) + Len(td) - 1
      /\ \A i \in 2 .. Len(td) : r[i + Len(e) - 1] = td[i]
      /\ Head(td) = td[1]
  BY <1>1, Splice
<1> HIDE DEF r
<1>3. /\ DOMAIN r = 1 .. Len(td) - 1
      /\ \A i \in 2 .. Len(td) : r[i - 1] = td[i]
      /\ td[1].do = "leave"
  BY <1>1, <1>2
<1>4. n # 0 /\ 1 \in Leaves(td) /\ td[1].depth = n
  <2>1. 1 \in Leaves(td)
    BY <1>2, <1>3 DEF Leaves
  <2>2. td[1].depth \in 1 .. n
    BY <2>1 DEF Matches
  <2>3. PICK j \in Leaves(td) : td[j].depth = n
    BY <2>2 DEF Matches
  <2>4. j = 1 \/ 1 < j
    BY <1>2 DEF Leaves
  <2>5. ~(1 < j)
    BY <2>1, <2>2, <2>3 DEF Matches
  <2> QED
    BY <2>1, <2>2, <2>3, <2>4, <2>5
<1>5. ASSUME NEW m \in Leaves(td), m # 1
      PROVE  m \in 2 .. Len(td) /\ m - 1 \in Leaves(r) /\ r[m - 1] = td[m]
  <2>1. m \in 2 .. Len(td) /\ td[m].do = "leave"
    BY <1>2, <1>5 DEF Leaves
  <2> QED
    BY <1>2, <1>3, <2>1 DEF Leaves
<1>6. ASSUME NEW k \in Leaves(r)
      PROVE  k + 1 \in Leaves(td) /\ k + 1 # 1 /\ r[k] = td[k + 1]
  <2>1. k + 1 \in 2 .. Len(td) /\ (k + 1) - 1 = k /\ r[k].do = "leave"
    BY <1>2, <1>3 DEF Leaves
  <2> QED
    BY <1>2, <1>3, <2>1 DEF Leaves
<1>7. ASSUME NEW j \in DOMAIN td, j # 1, NEW d \in 0 .. n - 1
      PROVE  AtLevel(r, j - 1, d) <=> AtLevel(td, j, d)
  <2>1. ASSUME AtLevel(r, j - 1, d), NEW k \in Leaves(td)
        PROVE  j < k <=> td[k].depth <= d
    <3>1. CASE k = 1
      BY <1>2, <1>4, <1>7, <3>1
    <3>2. CASE k # 1
      <4>1. j - 1 < k - 1 <=> td[k].depth <= d
        BY <1>5, <2>1, <3>2 DEF AtLevel
      <4> QED
        BY <1>2, <1>5, <3>2, <4>1
    <3> QED
      BY <3>1, <3>2
  <2>2. ASSUME AtLevel(td, j, d), NEW k \in Leaves(r)
        PROVE  j - 1 < k <=> r[k].depth <= d
    <3>1. j < k + 1 <=> td[k + 1].depth <= d
      BY <1>6, <2>2 DEF AtLevel
    <3>2. k \in Nat /\ j \in Nat
      BY <1>2, <1>3 DEF Leaves
    <3> QED
      BY <1>6, <3>1, <3>2
  <2> QED
    BY <2>1, <2>2 DEF AtLevel
<1>8. ASSUME NEW j \in DOMAIN td, j # 1
      PROVE  ~AtLevel(td, j, n)
  <2>1. ~(j < 1) /\ n <= n
    BY <1>2
  <2> QED
    BY <1>4, <2>1 DEF AtLevel
<1> QED
  BY <1>4, <1>7, <1>8 DEF r, e
-----------------------------------------------------------------------------
(* Plans.                                                                  *)

\* A plan aims at more labels if it aims at fewer; one without scopes may
\* stand for one with them.
LEMMA AimsIn ==
  ASSUME NEW p, NEW A, NEW B, NEW W, A \subseteq B
  PROVE  /\ FlatAims(p, A, W) => FlatAims(p, B, W)
         /\ NestedAims(p, A, W) => NestedAims(p, B, W)
         /\ DeepAims(p, A, W) => DeepAims(p, B, W)
         /\ FlatAims(p, A, W) => NestedAims(p, A, W)
         /\ NestedAims(p, A, W) => DeepAims(p, A, W)
<1>0. ASSUME NEW x, NEW C, NEW D, C \subseteq D, Aims(x, C, W)
      PROVE  Aims(x, D, W)
  BY <1>0 DEF Aims
<1>1. ASSUME NEW q, NEW C, NEW D, C \subseteq D, FlatAims(q, C, W)
      PROVE  FlatAims(q, D, W)
  BY <1>0, <1>1 DEF FlatAims
<1>2. ASSUME NEW x, NEW C, NEW D, C \subseteq D, InnerAims(x, C, W)
      PROVE  InnerAims(x, D, W)
  <2>1. ASSUME x.do = "scope"
        PROVE  LET s == ScopeAt(x)
               IN  /\ Whole(x.plan, s)
                   /\ FlatAims(x.plan, D \union Written(x.plan, s), W)
    <3> DEFINE s == ScopeAt(x)
               E == Written(x.plan, s)
    <3>1. Whole(x.plan, s) /\ FlatAims(x.plan, C \union E, W)
      BY <1>2, <2>1 DEF InnerAims
    <3>2. C \union E \subseteq D \union E
      BY <1>2
    <3> HIDE DEF E
    <3>3. FlatAims(x.plan, D \union E, W)
      BY <1>1, <3>1, <3>2
    <3> QED
      BY <3>1, <3>3 DEF E
  <2> QED
    BY <1>0, <1>2, <2>1 DEF InnerAims
<1>3. ASSUME NEW q, NEW C, NEW D, C \subseteq D, NestedAims(q, C, W)
      PROVE  NestedAims(q, D, W)
  BY <1>2, <1>3 DEF NestedAims
<1>4. ASSUME NEW x, OuterAims(x, A, W) PROVE OuterAims(x, B, W)
  <2>1. ASSUME x.do = "scope"
        PROVE  LET s == ScopeAt(x)
               IN  /\ Whole(x.plan, s)
                   /\ NestedAims(x.plan, B \union Written(x.plan, s), W)
    <3> DEFINE s == ScopeAt(x)
               E == Written(x.plan, s)
    <3>1. Whole(x.plan, s) /\ NestedAims(x.plan, A \union E, W)
      BY <1>4, <2>1 DEF OuterAims
    <3>2. A \union E \subseteq B \union E
      OBVIOUS
    <3> HIDE DEF E
    <3>3. NestedAims(x.plan, B \union E, W)
      BY <1>3, <3>1, <3>2
    <3> QED
      BY <3>1, <3>3 DEF E
  <2> QED
    BY <1>0, <1>4, <2>1 DEF OuterAims
<1>5. ASSUME NEW q, NEW C, FlatAims(q, C, W) PROVE NestedAims(q, C, W)
  BY <1>5 DEF FlatAims, NestedAims, InnerAims
<1>6. ASSUME NEW x, InnerAims(x, A, W) PROVE OuterAims(x, A, W)
  <2>1. ASSUME x.do = "scope"
        PROVE  LET s == ScopeAt(x)
               IN  /\ Whole(x.plan, s)
                   /\ NestedAims(x.plan, A \union Written(x.plan, s), W)
    BY <1>5, <1>6, <2>1 DEF InnerAims
  <2> QED
    BY <1>6, <2>1 DEF InnerAims, OuterAims
<1>7. DeepAims(p, A, W) => DeepAims(p, B, W)
  BY <1>4 DEF DeepAims
<1>8. NestedAims(p, A, W) => DeepAims(p, A, W)
  BY <1>6 DEF DeepAims, NestedAims
<1> QED
  BY <1>1, <1>3, <1>5, <1>7, <1>8

\* Plans may be put one after the other.
LEMMA JoinedAims ==
  ASSUME NEW p, NEW q, NEW A, NEW W
  PROVE  /\ FlatAims(p, A, W) /\ FlatAims(q, A, W) => FlatAims(p \o q, A, W)
         /\ NestedAims(p, A, W) /\ NestedAims(q, A, W) => NestedAims(p \o q, A, W)
         /\ DeepAims(p, A, W) /\ DeepAims(q, A, W) => DeepAims(p \o q, A, W)
<1>1. ASSUME FlatAims(p, A, W), FlatAims(q, A, W) PROVE FlatAims(p \o q, A, W)
  BY <1>1, Concatenation, SequenceLength DEF FlatAims
<1>2. ASSUME NestedAims(p, A, W), NestedAims(q, A, W)
      PROVE  NestedAims(p \o q, A, W)
  BY <1>2, Concatenation, SequenceLength DEF NestedAims
<1>3. ASSUME DeepAims(p, A, W), DeepAims(q, A, W) PROVE DeepAims(p \o q, A, W)
  BY <1>3, Concatenation, SequenceLength DEF DeepAims
<1> QED
  BY <1>1, <1>2, <1>3

\* What two plans write together; that it differs if they write different
\* labels.
LEMMA JoinedLines ==
  ASSUME NEW p, NEW q, NEW s, IsSequence(p), IsSequence(q)
  PROVE  /\ Written(p \o q, s) = Written(p, s) \union Written(q, s)
         /\ Once(p, s) /\ Once(q, s) /\ Written(p, s) \intersect Written(q, s) = {}
               => Once(p \o q, s)
<1> DEFINE r == p \o q
           m == Len(p)
           n == Len(q)
<1>1. /\ m \in Nat /\ n \in Nat /\ DOMAIN p = 1 .. m /\ DOMAIN q = 1 .. n
      /\ DOMAIN r = 1 .. m + n
      /\ \A i \in 1 .. m + n : r[i] = IF i <= m THEN p[i] ELSE q[i - m]
  BY Concatenation, SequenceLength
<1> HIDE DEF r, m, n
<1>2. \A i \in DOMAIN p : i \in DOMAIN r /\ r[i] = p[i]
  BY <1>1
<1>3. \A i \in DOMAIN q : m + i \in DOMAIN r /\ r[m + i] = q[i]
  <2> TAKE i \in DOMAIN q
  <2>1. m + i \in 1 .. m + n /\ ~(m + i <= m) /\ (m + i) - m = i
    BY <1>1
  <2> QED
    BY <1>1, <2>1
<1>4. ASSUME NEW i \in DOMAIN r
      PROVE  \/ i \in DOMAIN p /\ r[i] = p[i]
             \/ i - m \in DOMAIN q /\ r[i] = q[i - m] /\ i = m + (i - m)
  BY <1>1
<1>5. ASSUME NEW i \in Lines(r)
      PROVE  \/ i \in Lines(p) /\ r[i] = p[i]
             \/ i - m \in Lines(q) /\ r[i] = q[i - m] /\ i = m + (i - m)
  BY <1>4 DEF Lines
<1>6. Written(r, s) = Written(p, s) \union Written(q, s)
  <2>1. \A l \in Written(r, s) : l \in Written(p, s) \/ l \in Written(q, s)
    BY <1>5 DEF Written
  <2>2. \A l \in Written(p, s) : l \in Written(r, s)
    BY <1>2 DEF Written, Lines
  <2>3. \A l \in Written(q, s) : l \in Written(r, s)
    BY <1>3 DEF Written, Lines
  <2> QED
    BY <2>1, <2>2, <2>3
<1>7. ASSUME Once(p, s), Once(q, s), Written(p, s) \intersect Written(q, s) = {}
      PROVE  Once(r, s)
  <2> SUFFICES ASSUME NEW i \in Lines(r), NEW j \in Lines(r),
                      Wrote(r[i], s) = Wrote(r[j], s)
               PROVE  i = j
    BY DEF Once
  <2>0. /\ i \in Lines(p) /\ r[i] = p[i] => Wrote(r[i], s) \in Written(p, s)
        /\ j \in Lines(p) /\ r[j] = p[j] => Wrote(r[j], s) \in Written(p, s)
        /\ i - m \in Lines(q) /\ r[i] = q[i - m] => Wrote(r[i], s) \in Written(q, s)
        /\ j - m \in Lines(q) /\ r[j] = q[j - m] => Wrote(r[j], s) \in Written(q, s)
    BY DEF Written
  <2>1. CASE i \in Lines(p) /\ r[i] = p[i]
    <3>1. j \in Lines(p) /\ r[j] = p[j]
      BY <1>5, <1>7, <2>0, <2>1
    <3> QED
      BY <1>7, <2>1, <3>1 DEF Once
  <2>2. CASE i - m \in Lines(q) /\ r[i] = q[i - m] /\ i = m + (i - m)
    <3>1. j - m \in Lines(q) /\ r[j] = q[j - m] /\ j = m + (j - m)
      BY <1>5, <1>7, <2>0, <2>2
    <3>2. i - m = j - m
      BY <1>7, <2>2, <3>1 DEF Once
    <3> QED
      BY <2>2, <3>1, <3>2
  <2> QED
    BY <1>5, <2>1, <2>2
<1> QED
  BY <1>6, <1>7 DEF r

\* An item that is no scope and aims well.
AimsFlat(x, A, W) == x.do # "scope" /\ Aims(x, A, W)

\* What the items of the visitors aim at.
LEMMA AimingItems ==
  ASSUME NEW A, NEW W
  PROVE  /\ \A ref : AimsFlat(LabelLine(ref), A, W)
         /\ \A part \in Parts : /\ AimsFlat(Goto(Here(part)), A, W)
                                /\ \A t : AimsFlat(Branch(t, Here(part)), A, W)
         /\ \A l \in A : /\ AimsFlat(Goto(Saved(l)), A, W)
                         /\ \A t : AimsFlat(Branch(t, Saved(l)), A, W)
         /\ \A c \in W : \A point, yes, no : AimsFlat(Cond(c, point, yes, no), A, W)
         /\ \A name : AimsFlat(NewLabel(name), A, W) /\ AimsFlat(Ask(name), A, W)
         /\ \A point : AimsFlat(Line(point), A, W)
         /\ \A n : AimsFlat(Epilogue(n), A, W) /\ AimsFlat(Leave(n), A, W)
         /\ AimsFlat(LineNumber, A, W)
         /\ \A n, next, ctx : /\ AimsFlat(Block(n, next, ctx), A, W)
                              /\ AimsFlat(Visit(n, next, ctx), A, W)
<1> USE DEF AimsFlat, Aims
<1>1. \A ref : AimsFlat(LabelLine(ref), A, W)
  BY DEF LabelLine
<1>2. ASSUME NEW part \in Parts
      PROVE  /\ AimsFlat(Goto(Here(part)), A, W)
             /\ \A t : AimsFlat(Branch(t, Here(part)), A, W)
  BY DEF Goto, Branch, Here
<1>3. ASSUME NEW l \in A
      PROVE  /\ AimsFlat(Goto(Saved(l)), A, W)
             /\ \A t : AimsFlat(Branch(t, Saved(l)), A, W)
  BY DEF Goto, Branch, Saved
<1>4. \A c \in W : \A point, yes, no : AimsFlat(Cond(c, point, yes, no), A, W)
  BY DEF Cond
<1>5. /\ \A name : AimsFlat(NewLabel(name), A, W) /\ AimsFlat(Ask(name), A, W)
      /\ \A point : AimsFlat(Line(point), A, W)
      /\ \A n : AimsFlat(Epilogue(n), A, W) /\ AimsFlat(Leave(n), A, W)
      /\ AimsFlat(LineNumber, A, W)
  BY DEF NewLabel, Ask, Line, Epilogue, Leave, LineNumber
<1>6. \A n, next, ctx : /\ AimsFlat(Block(n, next, ctx), A, W)
                        /\ AimsFlat(Visit(n, next, ctx), A, W)
  BY DEF Block, Visit
<1> QED
  BY <1>1, <1>2, <1>3, <1>4, <1>5, <1>6

\* Label lines, and the items that are none.
LEMMA LineItems ==
  ASSUME NEW s
  PROVE  /\ \A ref : LabelLine(ref).do = "label"
         /\ \A part : Wrote(LabelLine(Here(part)), s) = LabelOf(s, part)
         /\ \A l : Wrote(LabelLine(Saved(l)), s) = l
         /\ \A ref, t : Goto(ref).do # "label" /\ Branch(t, ref).do # "label"
         /\ \A c, point, yes, no : Cond(c, point, yes, no).do # "label"
         /\ \A name : NewLabel(name).do # "label" /\ Ask(name).do # "label"
         /\ \A point : Line(point).do # "label"
         /\ \A n : Epilogue(n).do # "label" /\ Leave(n).do # "label"
         /\ LineNumber.do # "label"
         /\ \A n, next, ctx : /\ Block(n, next, ctx).do # "label"
                              /\ Visit(n, next, ctx).do # "label"
         /\ \A n, type, plan : InScope(n, type, plan).do # "label"
BY DEF Wrote, LabelLine, Here, Saved, Goto, Branch, Cond, NewLabel, Ask, Line,
       Epilogue, Leave, LineNumber, Block, Visit, InScope

\* Plans of no item and of one.
LEMMA ShortAims ==
  ASSUME NEW x, NEW A, NEW W, NEW s
  PROVE  /\ FlatAims(<<>>, A, W) /\ Written(<<>>, s) = {} /\ Once(<<>>, s)
         /\ Lines(<<>>) = {}
         /\ AimsFlat(x, A, W) => FlatAims(<<x>>, A, W)
         /\ x.do = "label" => Written(<<x>>, s) = {Wrote(x, s)}
         /\ x.do # "label" => Written(<<x>>, s) = {} /\ Lines(<<x>>) = {}
         /\ Once(<<x>>, s)
<1>1. IsSequence(<<>>) /\ DOMAIN <<>> = {}
  BY Singleton
<1>2. IsSequence(<<x>>) /\ DOMAIN <<x>> = {1} /\ <<x>>[1] = x
  <2>1. IsSequence(<<x>>) /\ DOMAIN <<x>> = 1 .. 1 /\ <<x>>[1] = x
    BY Singleton, SequenceLength
  <2> QED
    BY <2>1
<1> DEFINE e == <<>>
           t == <<x>>
<1>3. IsSequence(e) /\ DOMAIN e = {}
  BY <1>1
<1>4. IsSequence(t) /\ DOMAIN t = {1} /\ t[1] = x
  BY <1>2
<1> HIDE DEF e, t
<1>5. FlatAims(e, A, W) /\ Written(e, s) = {} /\ Once(e, s) /\ Lines(e) = {}
  BY <1>3 DEF FlatAims, Written, Once, Lines
<1>6. AimsFlat(x, A, W) => FlatAims(t, A, W)
  BY <1>4 DEF FlatAims, AimsFlat
<1>7. /\ x.do = "label" => Lines(t) = {1}
      /\ x.do # "label" => Lines(t) = {}
  BY <1>4 DEF Lines
<1>8. /\ x.do = "label" => Written(t, s) = {Wrote(x, s)}
      /\ x.do # "label" => Written(t, s) = {}
  BY <1>4, <1>7 DEF Written
<1>9. Once(t, s)
  BY <1>7 DEF Once
<1> QED
  BY <1>5, <1>6, <1>7, <1>8, <1>9 DEF e, t

\* Plans of several items.
LEMMA AimingTuples ==
  ASSUME NEW A, NEW W, NEW a, NEW b, NEW c,
         AimsFlat(a, A, W), AimsFlat(b, A, W)
  PROVE  /\ FlatAims(<<a, b>>, A, W)
         /\ AimsFlat(c, A, W) => FlatAims(<<a, b, c>>, A, W)
         /\ \A d, e :
               /\ AimsFlat(c, A, W) /\ AimsFlat(d, A, W) /\ AimsFlat(e, A, W)
               => FlatAims(<<a, b, c, d, e>>, A, W)
         /\ \A d, e, f :
               /\ AimsFlat(c, A, W) /\ AimsFlat(d, A, W)
               /\ AimsFlat(e, A, W) /\ AimsFlat(f, A, W)
               => FlatAims(<<a, b, c, d, e, f>>, A, W)
<1>0. FlatAims(<<a, b>>, A, W)
  <2>1. <<a, b>> \in Seq({a, b}) /\ DOMAIN <<a, b>> = 1 .. 2
    OBVIOUS
  <2>2. IsSequence(<<a, b>>)
    BY <2>1, AnySequence
  <2> QED
    BY <2>1, <2>2 DEF FlatAims, AimsFlat
<1>1. ASSUME AimsFlat(c, A, W) PROVE FlatAims(<<a, b, c>>, A, W)
  <2>1. <<a, b, c>> \in Seq({a, b, c}) /\ DOMAIN <<a, b, c>> = 1 .. 3
    OBVIOUS
  <2>2. IsSequence(<<a, b, c>>)
    BY <2>1, AnySequence
  <2> QED
    BY <1>1, <2>1, <2>2 DEF FlatAims, AimsFlat
<1>2. ASSUME NEW d, NEW e,
             AimsFlat(c, A, W), AimsFlat(d, A, W), AimsFlat(e, A, W)
      PROVE  FlatAims(<<a, b, c, d, e>>, A, W)
  <2>1. /\ <<a, b, c, d, e>> \in Seq({a, b, c, d, e})
        /\ DOMAIN <<a, b, c, d, e>> = 1 .. 5
    OBVIOUS
  <2>2. IsSequence(<<a, b, c, d, e>>)
    BY <2>1, AnySequence
  <2> QED
    BY <1>2, <2>1, <2>2 DEF FlatAims, AimsFlat
<1>3. ASSUME NEW d, NEW e, NEW f, AimsFlat(c, A, W), AimsFlat(d, A, W),
             AimsFlat(e, A, W), AimsFlat(f, A, W)
      PROVE  FlatAims(<<a, b, c, d, e, f>>, A, W)
  <2>1. /\ <<a, b, c, d, e, f>> \in Seq({a, b, c, d, e, f})
        /\ DOMAIN <<a, b, c, d, e, f>> = 1 .. 6
    OBVIOUS
  <2>2. IsSequence(<<a, b, c, d, e, f>>)
    BY <2>1, AnySequence
  <2> QED
    BY <1>3, <2>1, <2>2 DEF FlatAims, AimsFlat
<1> QED
  BY <1>0, <1>1, <1>2, <1>3

\* A plan whose only label lines are those at x and y.
LEMMA TwoLines ==
  ASSUME NEW p, NEW s, NEW x \in DOMAIN p, NEW y \in DOMAIN p,
         p[x].do = "label", p[y].do = "label",
         \A i \in DOMAIN p : i # x /\ i # y => p[i].do # "label",
         x = y \/ Wrote(p[x], s) # Wrote(p[y], s)
  PROVE  Written(p, s) = {Wrote(p[x], s), Wrote(p[y], s)} /\ Once(p, s)
<1>1. Lines(p) = {x, y}
  BY DEF Lines
<1> QED
  BY <1>1 DEF Written, Once

\* The labels the short plans of the visitors write.
LEMMA WritingTuples ==
  ASSUME NEW s, NEW a, NEW b
  PROVE  /\ a.do # "label" /\ b.do = "label" =>
               Written(<<a, b>>, s) = {Wrote(b, s)} /\ Once(<<a, b>>, s)
         /\ a.do # "label" /\ b.do # "label" =>
               Written(<<a, b>>, s) = {} /\ Once(<<a, b>>, s)
         /\ \A c : a.do # "label" /\ b.do = "label" /\ c.do # "label" =>
               Written(<<a, b, c>>, s) = {Wrote(b, s)} /\ Once(<<a, b, c>>, s)
<1>1. ASSUME a.do # "label", b.do = "label"
      PROVE  Written(<<a, b>>, s) = {Wrote(b, s)} /\ Once(<<a, b>>, s)
  <2> DEFINE t == <<a, b>>
  <2>1. DOMAIN t = {1, 2} /\ t[1] = a /\ t[2] = b
    OBVIOUS
  <2> HIDE DEF t
  <2>2. Lines(t) = {2}
    BY <1>1, <2>1 DEF Lines
  <2>3. Written(t, s) = {Wrote(b, s)} /\ Once(t, s)
    BY <2>1, <2>2 DEF Written, Once
  <2> QED
    BY <2>3 DEF t
<1>2. ASSUME a.do # "label", b.do # "label"
      PROVE  Written(<<a, b>>, s) = {} /\ Once(<<a, b>>, s)
  <2> DEFINE t == <<a, b>>
  <2>1. DOMAIN t = {1, 2} /\ t[1] = a /\ t[2] = b
    OBVIOUS
  <2> HIDE DEF t
  <2>2. Lines(t) = {}
    BY <1>2, <2>1 DEF Lines
  <2>3. Written(t, s) = {} /\ Once(t, s)
    BY <2>2 DEF Written, Once
  <2> QED
    BY <2>3 DEF t
<1>3. ASSUME NEW c, a.do # "label", b.do = "label", c.do # "label"
      PROVE  Written(<<a, b, c>>, s) = {Wrote(b, s)} /\ Once(<<a, b, c>>, s)
  <2> DEFINE t == <<a, b, c>>
  <2>1. DOMAIN t = {1, 2, 3} /\ t[1] = a /\ t[2] = b /\ t[3] = c
    OBVIOUS
  <2> HIDE DEF t
  <2>2. Lines(t) = {2}
    BY <1>3, <2>1 DEF Lines
  <2>3. Written(t, s) = {Wrote(b, s)} /\ Once(t, s)
    BY <2>1, <2>2 DEF Written, Once
  <2> QED
    BY <2>3 DEF t
<1> QED
  BY <1>1, <1>2, <1>3

\* The labels of a scope differ by their parts.
LEMMA LabelsDiffer ==
  ASSUME NEW s, NEW r, NEW p, NEW q
  PROVE  /\ LabelOf(s, p) = LabelOf(s, q) <=> p = q
         /\ LabelOf(s, p) = LabelOf(r, q) => s.loc = r.loc
         /\ LabelOf(s, p)[1] = s.loc /\ Len(LabelOf(s, p)) = 3
         /\ IsLabelOf(LabelOf(s, p), s)
BY DEF LabelOf, IsLabelOf

\* A plan that asks for nothing of the scope it is in.
Unscoped(p) == \A i \in DOMAIN p : ~Scoped(p[i])

\* A single scope aims well when its plan is whole and does.
LEMMA OneScopeAims ==
  ASSUME NEW n, NEW type, NEW p, NEW A, NEW W,
         Whole(p, [loc |-> n, type |-> type]),
         NestedAims(p, A \union Written(p, [loc |-> n, type |-> type]), W)
  PROVE  DeepAims(<<InScope(n, type, p)>>, A, W) /\ Unscoped(<<InScope(n, type, p)>>)
<1> DEFINE x == InScope(n, type, p)
           t == <<x>>
<1>1. /\ x.do = "scope" /\ x.plan = p
      /\ ScopeAt(x) = [loc |-> n, type |-> type]
  BY DEF InScope, ScopeAt
<1>2. IsSequence(t) /\ DOMAIN t = 1 .. 1 /\ t[1] = x
  BY Singleton, SequenceLength
<1> HIDE DEF x, t
<1>3. OuterAims(x, A, W)
  BY <1>1 DEF OuterAims, Aims
<1>4. DeepAims(t, A, W) /\ Unscoped(t)
  BY <1>1, <1>2, <1>3 DEF DeepAims, Unscoped, Scoped
<1> QED
  BY <1>4 DEF x, t

\* The statements of a block jump nowhere.
LEMMA BlockPlanAims ==
  ASSUME NEW first \in Nat \ {0}, NEW k \in Nat, NEW next, NEW ctx, NEW A, NEW W
  PROVE  /\ FlatAims(BlockPlan(first, k, next, ctx), A, W)
         /\ Unscoped(BlockPlan(first, k, next, ctx))
<1> DEFINE p == BlockPlan(first, k, next, ctx)
<1>1. DOMAIN p = 1 .. 2 * k
  BY DEF BlockPlan
<1>2. IsSequence(p)
  BY BlockPlanIsLeafy DEF LeafPlan
<1>3. ASSUME NEW i \in 1 .. 2 * k PROVE AimsFlat(p[i], A, W) /\ ~Scoped(p[i])
  <2>1. \/ p[i] = LineNumber
        \/ \E n, to : p[i] = Visit(n, to, ctx)
    BY DEF BlockPlan
  <2> HIDE DEF p
  <2>2. ~Scoped(LineNumber) /\ \A n, to : ~Scoped(Visit(n, to, ctx))
    BY DEF LineNumber, Visit, Scoped
  <2> QED
    BY <2>1, <2>2, AimingItems
<1> HIDE DEF p
<1>4. FlatAims(p, A, W) /\ Unscoped(p)
  BY <1>1, <1>2, <1>3 DEF FlatAims, AimsFlat, Unscoped
<1> QED
  BY <1>4 DEF p

\* A while jumps to the labels of its own scope, each of which it writes.
LEMMA WhilePlanAims ==
  ASSUME NEW s, NEW body, NEW A, NEW W, NEW c \in W
  PROVE  DeepAims(WhilePlan(s, body, c), A, W) /\ Unscoped(WhilePlan(s, body, c))
<1> DEFINE ctx == InLoop("while", s.next, CondOf(s.node))
           x1 == LabelLine(Here("entry"))
           x2 == Cond(c, CondOf(s.node), StartOf(body), s.next)
           x3 == Branch("unless", Here("exit"))
           x4 == Block(body, CondOf(s.node), ctx)
           x5 == Goto(Here("entry"))
           x6 == LabelLine(Here("exit"))
           p == <<x1, x2, x3, x4, x5, x6>>
           n == s.node
           o == [loc |-> n, type |-> "while"]
<1>1. WhilePlan(s, body, c) = <<InScope(n, "while", p)>>
  BY DEF WhilePlan
<1>2. FlatAims(p, {}, W)
  <2>1. "entry" \in Parts /\ "exit" \in Parts
    BY DEF Parts
  <2>2. /\ AimsFlat(x1, {}, W) /\ AimsFlat(x2, {}, W) /\ AimsFlat(x3, {}, W)
        /\ AimsFlat(x4, {}, W) /\ AimsFlat(x5, {}, W) /\ AimsFlat(x6, {}, W)
    BY <2>1, AimingItems
  <2> HIDE DEF x1, x2, x3, x4, x5, x6
  <2> QED
    BY <2>2, AimingTuples
<1>3. Written(p, o) = {LabelOf(o, "entry"), LabelOf(o, "exit")} /\ Once(p, o)
  <2>1. /\ x1.do = "label" /\ x2.do # "label" /\ x3.do # "label"
        /\ x4.do # "label" /\ x5.do # "label" /\ x6.do = "label"
        /\ Wrote(x1, o) = LabelOf(o, "entry") /\ Wrote(x6, o) = LabelOf(o, "exit")
    BY LineItems
  <2> HIDE DEF x1, x2, x3, x4, x5, x6, o
  <2>2. /\ DOMAIN p = {1, 2, 3, 4, 5, 6} /\ p[1] = x1 /\ p[2] = x2 /\ p[3] = x3
        /\ p[4] = x4 /\ p[5] = x5 /\ p[6] = x6
    OBVIOUS
  <2> HIDE DEF p
  <2>3. Wrote(p[1], o) # Wrote(p[6], o)
    BY <2>1, <2>2, LabelsDiffer
  <2>4. Written(p, o) = {Wrote(p[1], o), Wrote(p[6], o)} /\ Once(p, o)
    BY <2>1, <2>2, <2>3, TwoLines
  <2> QED
    BY <2>1, <2>2, <2>4
<1> HIDE DEF p, o
<1>4. Whole(p, o)
  BY <1>3, LabelsDiffer DEF Whole, Parts
<1>5. NestedAims(p, A \union Written(p, o), W)
  BY <1>2, AimsIn
<1> QED
  BY <1>1, <1>4, <1>5, OneScopeAims DEF o

\* The same of a do.
LEMMA DoPlanAims ==
  ASSUME NEW s, NEW body, NEW A, NEW W, NEW c \in W
  PROVE  DeepAims(DoPlan(s, body, c), A, W) /\ Unscoped(DoPlan(s, body, c))
<1> DEFINE ctx == InLoop("do", s.next, CondOf(s.node))
           x1 == LabelLine(Here("entry"))
           x2 == Block(body, CondOf(s.node), ctx)
           x3 == Cond(c, CondOf(s.node), StartOf(body), s.next)
           x4 == IF c.form = "none" THEN Goto(Here("entry"))
                                    ELSE Branch("if", Here("entry"))
           x5 == LabelLine(Here("exit"))
           p == <<x1, x2, x3, x4, x5>>
           n == s.node
           o == [loc |-> n, type |-> "do"]
<1>1. DoPlan(s, body, c) = <<InScope(n, "do", p)>>
  BY DEF DoPlan
<1>2. FlatAims(p, {}, W)
  <2>1. "entry" \in Parts /\ "exit" \in Parts
    BY DEF Parts
  <2>2. /\ AimsFlat(x1, {}, W) /\ AimsFlat(x2, {}, W) /\ AimsFlat(x3, {}, W)
        /\ AimsFlat(x4, {}, W) /\ AimsFlat(x5, {}, W)
    BY <2>1, AimingItems
  <2> HIDE DEF x1, x2, x3, x4, x5
  <2> QED
    BY <2>2, AimingTuples
<1>3. Written(p, o) = {LabelOf(o, "entry"), LabelOf(o, "exit")} /\ Once(p, o)
  <2>1. /\ x1.do = "label" /\ x2.do # "label" /\ x3.do # "label"
        /\ x4.do # "label" /\ x5.do = "label"
        /\ Wrote(x1, o) = LabelOf(o, "entry") /\ Wrote(x5, o) = LabelOf(o, "exit")
    BY LineItems
  <2> HIDE DEF x1, x2, x3, x4, x5, o
  <2>2. /\ DOMAIN p = {1, 2, 3, 4, 5} /\ p[1] = x1 /\ p[2] = x2 /\ p[3] = x3
        /\ p[4] = x4 /\ p[5] = x5
    OBVIOUS
  <2> HIDE DEF p
  <2>3. Wrote(p[1], o) # Wrote(p[5], o)
    BY <2>1, <2>2, LabelsDiffer
  <2>4. Written(p, o) = {Wrote(p[1], o), Wrote(p[5], o)} /\ Once(p, o)
    BY <2>1, <2>2, <2>3, TwoLines
  <2> QED
    BY <2>1, <2>2, <2>4
<1> HIDE DEF p, o
<1>4. Whole(p, o)
  BY <1>3, LabelsDiffer DEF Whole, Parts
<1>5. NestedAims(p, A \union Written(p, o), W)
  BY <1>2, AimsIn
<1> QED
  BY <1>1, <1>4, <1>5, OneScopeAims DEF o

\* Plans that ask for nothing may be put one after the other.
LEMMA JoinedUnscoped ==
  ASSUME NEW p, NEW q, IsSequence(p), IsSequence(q), Unscoped(p), Unscoped(q)
  PROVE  Unscoped(p \o q)
BY Concatenation, SequenceLength DEF Unscoped

\* A for also jumps to the label it made up, whose line it writes.
LEMMA ForPlanAims ==
  ASSUME NEW s, NEW body, NEW full, NEW A, NEW W, NEW c \in W
  PROVE  DeepAims(ForPlan(s, body, c, full), A, W) /\ Unscoped(ForPlan(s, body, c, full))
<1> DEFINE n == s.node
           o == [loc |-> n, type |-> "for"]
           mark == <<n, "for", "for_cond">>
           forCond == Saved(mark)
           Only(when, plan) == IF when THEN plan ELSE <<>>
           ctx    == InLoop("for", s.next, StepOf(s.node))
           first  == <<NewLabel("for_cond"), LabelLine(forCond),
                       Cond(c, CondOf(s.node), StartOf(body), s.next)>>
           exit   == Only(c.form # "none", <<Branch("unless", Here("exit"))>>)
           middle == <<Block(body, StepOf(s.node), ctx),
                       LabelLine(Here("entry"))>>
           step   == Only(full, <<Line(StepOf(s.node))>>)
           last   == <<Goto(forCond), LabelLine(Here("exit"))>>
           init   == Only(full, <<Line(InitOf(s.node))>>)
           p      == first \o exit \o middle \o step \o last
           F      == {mark}
<1>1. ForPlan(s, body, c, full) = init \o <<InScope(n, "for", p)>>
  BY DEF ForPlan
<1>2. "entry" \in Parts /\ "exit" \in Parts /\ mark \in F
  BY DEF Parts
<1>3. mark = LabelOf(o, "for_cond")
  BY DEF LabelOf
<1> HIDE DEF o, mark, F
<1>4. FlatAims(first, F, W) /\ Written(first, o) = {mark} /\ Once(first, o)
  <2> DEFINE x1 == NewLabel("for_cond")
             x2 == LabelLine(forCond)
             x3 == Cond(c, CondOf(s.node), StartOf(body), s.next)
             t  == <<x1, x2, x3>>
  <2>1. AimsFlat(x1, F, W) /\ AimsFlat(x2, F, W) /\ AimsFlat(x3, F, W)
    BY AimingItems
  <2>2. /\ x1.do # "label" /\ x2.do = "label" /\ x3.do # "label"
        /\ Wrote(x2, o) = mark
    BY LineItems
  <2>3. first = t
    OBVIOUS
  <2> HIDE DEF x1, x2, x3, first, forCond
  <2>4. FlatAims(t, F, W)
    BY <2>1, AimingTuples
  <2>5. Written(t, o) = {Wrote(x2, o)} /\ Once(t, o)
    BY <2>2, WritingTuples
  <2> QED
    BY <2>2, <2>3, <2>4, <2>5
<1>5. FlatAims(exit, F, W) /\ FlatAims(step, F, W) /\ FlatAims(init, A, W)
  BY <1>2, AimingItems, ShortAims
<1>6. /\ FlatAims(middle, F, W)
      /\ Written(middle, o) = {LabelOf(o, "entry")} /\ Once(middle, o)
  <2> DEFINE x1 == Block(body, StepOf(s.node), ctx)
             x2 == LabelLine(Here("entry"))
             t  == <<x1, x2>>
  <2>1. AimsFlat(x1, F, W) /\ AimsFlat(x2, F, W)
    BY AimingItems
  <2>2. /\ x1.do # "label" /\ x2.do = "label"
        /\ Wrote(x2, o) = LabelOf(o, "entry")
    BY LineItems
  <2>3. middle = t
    OBVIOUS
  <2> HIDE DEF x1, x2, middle
  <2>4. FlatAims(t, F, W)
    BY <2>1, AimingTuples
  <2>5. Written(t, o) = {Wrote(x2, o)} /\ Once(t, o)
    BY <2>2, WritingTuples
  <2> QED
    BY <2>2, <2>3, <2>4, <2>5
<1>7. /\ FlatAims(last, F, W)
      /\ Written(last, o) = {LabelOf(o, "exit")} /\ Once(last, o)
  <2> DEFINE x1 == Goto(forCond)
             x2 == LabelLine(Here("exit"))
             t  == <<x1, x2>>
  <2>1. AimsFlat(x1, F, W) /\ AimsFlat(x2, F, W)
    BY <1>2, AimingItems
  <2>2. /\ x1.do # "label" /\ x2.do = "label"
        /\ Wrote(x2, o) = LabelOf(o, "exit")
    BY LineItems
  <2>3. last = t
    OBVIOUS
  <2> HIDE DEF x1, x2, last, forCond
  <2>4. FlatAims(t, F, W)
    BY <2>1, AimingTuples
  <2>5. Written(t, o) = {Wrote(x2, o)} /\ Once(t, o)
    BY <2>2, WritingTuples
  <2> QED
    BY <2>2, <2>3, <2>4, <2>5
<1>8. /\ Written(exit, o) = {} /\ Once(exit, o)
      /\ Written(step, o) = {} /\ Once(step, o)
  BY LineItems, ShortAims
<1>9. Unscoped(init)
  <2>1. ~Scoped(Line(InitOf(s.node)))
    BY DEF Line, Scoped
  <2> DEFINE x == Line(InitOf(s.node))
             t == <<x>>
             e == <<>>
  <2>2. DOMAIN t = 1 .. 1 /\ t[1] = x /\ DOMAIN e = {}
    BY Singleton, SequenceLength
  <2>3. init = t \/ init = e
    OBVIOUS
  <2> HIDE DEF x, t, e, init
  <2> QED
    BY <2>1, <2>2, <2>3 DEF Unscoped, x
<1> HIDE DEF first, exit, middle, step, last, init
<1> DEFINE p1 == first \o exit
           p2 == p1 \o middle
           p3 == p2 \o step
<1>10. FlatAims(p, F, W)
  BY <1>4, <1>5, <1>6, <1>7, JoinedAims
<1>11. /\ IsSequence(first) /\ IsSequence(exit) /\ IsSequence(middle)
       /\ IsSequence(step) /\ IsSequence(last) /\ IsSequence(init)
  BY <1>4, <1>5, <1>6, <1>7 DEF FlatAims
<1>12. IsSequence(p1) /\ Written(p1, o) = {mark} /\ Once(p1, o)
  <2>1. {mark} \union {} = {mark} /\ {mark} \intersect {} = {}
    OBVIOUS
  <2> QED
    BY <1>4, <1>8, <1>11, <2>1, Concatenation, JoinedLines
<1> HIDE DEF p1
<1>13. IsSequence(p2) /\ Written(p2, o) = {mark, LabelOf(o, "entry")} /\ Once(p2, o)
  <2>1. mark # LabelOf(o, "entry")
    BY <1>3, LabelsDiffer
  <2>2. {mark} \intersect {LabelOf(o, "entry")} = {}
    BY <2>1
  <2>3. IsSequence(p2) /\ Once(p2, o)
    BY <1>6, <1>11, <1>12, <2>2, Concatenation, JoinedLines
  <2>4. Written(p2, o) = {mark} \union {LabelOf(o, "entry")}
    BY <1>6, <1>11, <1>12, JoinedLines
  <2> QED
    BY <2>3, <2>4
<1> HIDE DEF p2
<1>14. IsSequence(p3) /\ Written(p3, o) = {mark, LabelOf(o, "entry")} /\ Once(p3, o)
  <2>1. Written(p2, o) \intersect Written(step, o) = {}
    BY <1>8
  <2>2. IsSequence(p3) /\ Once(p3, o)
    BY <1>8, <1>11, <1>13, <2>1, Concatenation, JoinedLines
  <2>3. Written(p3, o) = Written(p2, o) \union Written(step, o)
    BY <1>11, <1>13, JoinedLines
  <2> QED
    BY <1>8, <1>13, <2>2, <2>3
<1> HIDE DEF p3
<1>15. /\ Written(p, o) = {mark, LabelOf(o, "entry"), LabelOf(o, "exit")}
       /\ Once(p, o)
  <2>0. p = p3 \o last
    BY DEF p1, p2, p3
  <2>1. mark # LabelOf(o, "exit") /\ LabelOf(o, "entry") # LabelOf(o, "exit")
    BY <1>3, LabelsDiffer
  <2>2. Written(p3, o) \intersect Written(last, o) = {}
    BY <1>7, <1>14, <2>1
  <2>3. Once(p3 \o last, o)
    BY <1>7, <1>11, <1>14, <2>2, JoinedLines
  <2>4. Written(p3 \o last, o) = Written(p3, o) \union Written(last, o)
    BY <1>11, <1>14, JoinedLines
  <2> QED
    BY <1>7, <1>14, <2>0, <2>3, <2>4
<1> HIDE DEF p
<1>16. Whole(p, o)
  BY <1>3, <1>15, LabelsDiffer DEF Whole, Parts
<1>17. NestedAims(p, A \union Written(p, o), W)
  <2>1. F \subseteq A \union Written(p, o)
    BY <1>15 DEF F
  <2> QED
    BY <1>10, <2>1, AimsIn
<1>18. /\ DeepAims(<<InScope(n, "for", p)>>, A, W)
       /\ Unscoped(<<InScope(n, "for", p)>>)
  BY <1>16, <1>17, OneScopeAims DEF o
<1>19. DeepAims(init, A, W)
  BY <1>5, AimsIn
<1> QED
  BY <1>1, <1>9, <1>11, <1>18, <1>19, JoinedAims, JoinedUnscoped DEF DeepAims

\* An arm of an if writes the labels of its third and last items.
LEMMA ArmWrites ==
  ASSUME NEW s, NEW a, NEW b, NEW c, NEW d, NEW e, NEW f,
         a.do # "label", b.do # "label", c.do = "label",
         d.do # "label", e.do # "label", f.do = "label",
         Wrote(c, s) # Wrote(f, s)
  PROVE  /\ Written(<<a, b, c, d, e, f>>, s) = {Wrote(c, s), Wrote(f, s)}
         /\ Once(<<a, b, c, d, e, f>>, s)
<1> DEFINE p == <<a, b, c, d, e, f>>
<1>1. /\ DOMAIN p = {1, 2, 3, 4, 5, 6} /\ p[1] = a /\ p[2] = b /\ p[3] = c
      /\ p[4] = d /\ p[5] = e /\ p[6] = f
  OBVIOUS
<1> HIDE DEF p
<1>2. Written(p, s) = {Wrote(p[3], s), Wrote(p[6], s)} /\ Once(p, s)
  BY <1>1, TwoLines
<1> QED
  BY <1>1, <1>2 DEF p

\* A plan without label lines writes none.
LEMMA NoLines ==
  ASSUME NEW p, NEW s, \A i \in DOMAIN p : p[i].do # "label"
  PROVE  Written(p, s) = {} /\ Once(p, s)
BY DEF Written, Once, Lines

\* An if jumps to its end from each of its arms, and from the first to its
\* exit label; an else-if jumps to labels of its own scope as well.
LEMMA IfPlanAims ==
  ASSUME NEW s, NEW cs, NEW hasElse, NEW A, NEW W, Len(cs) \in Nat \ {0},
         \A i \in 1 .. Len(cs) : cs[i] \in W
  PROVE  DeepAims(IfPlan(s, cs, hasElse), A, W) /\ Unscoped(IfPlan(s, cs, hasElse))
<1> DEFINE n         == s.node
           o         == [loc |-> n, type |-> "if"]
           markExit  == <<n, "if", "exit">>
           markEnd   == <<n, "if", "stmt_end">>
           F         == {markExit, markEnd}
           branch(i) == IF i = 1 THEN n ELSE nodes + 2 * i - 2
           block(i)  == nodes + 2 * i - 1
           else      == nodes + 2 * Len(cs)
           otherwise(i) == IF i < Len(cs) THEN CondOf(branch(i + 1))
                           ELSE IF hasElse THEN StartOf(else) ELSE s.next
           ifExit == Saved(markExit)
           ifEnd  == Saved(markEnd)
           Arm(i, exit) ==
              <<Cond(cs[i], CondOf(branch(i)), StartOf(block(i)), otherwise(i)),
                Branch("unless", exit),
                LabelLine(Here("entry")),
                Block(block(i), s.next, s.ctx),
                Goto(ifEnd),
                LabelLine(exit)>>
           elseIf(i) == InScope(branch(i + 1), "else_if",
                                Arm(i + 1, Here("exit")))
           elseIfs == [i \in 1 .. Len(cs) - 1 |-> elseIf(i)]
           ask     == <<Ask("exit"), NewLabel("stmt_end")>>
           tail    == IF hasElse THEN <<Block(else, s.next, s.ctx)>> ELSE <<>>
           end     == <<LabelLine(ifEnd)>>
           p       == ask \o Arm(1, ifExit) \o elseIfs \o tail \o end
<1>1. IfPlan(s, cs, hasElse) = <<InScope(n, "if", p)>>
  BY DEF IfPlan
<1>2. /\ "entry" \in Parts /\ "exit" \in Parts
      /\ markExit \in F /\ markEnd \in F
  BY DEF Parts
<1>3. markExit = LabelOf(o, "exit") /\ markEnd = LabelOf(o, "stmt_end")
  BY DEF LabelOf
<1>a. F = {LabelOf(o, "exit"), LabelOf(o, "stmt_end")}
  BY <1>3
<1> HIDE DEF F, o, markExit, markEnd
<1>4. ASSUME NEW i \in 1 .. Len(cs), NEW exit, NEW x,
             AimsFlat(Branch("unless", exit), F, W),
             Wrote(LabelLine(exit), x) = LabelOf(x, "exit")
      PROVE  /\ FlatAims(Arm(i, exit), F, W)
             /\ Written(Arm(i, exit), x) = {LabelOf(x, "entry"), LabelOf(x, "exit")}
             /\ Once(Arm(i, exit), x)
  <2> DEFINE x1 == Cond(cs[i], CondOf(branch(i)), StartOf(block(i)), otherwise(i))
             x2 == Branch("unless", exit)
             x3 == LabelLine(Here("entry"))
             x4 == Block(block(i), s.next, s.ctx)
             x5 == Goto(ifEnd)
             x6 == LabelLine(exit)
             t  == <<x1, x2, x3, x4, x5, x6>>
  <2>1. Arm(i, exit) = t
    OBVIOUS
  <2>2. /\ AimsFlat(x1, F, W) /\ AimsFlat(x2, F, W) /\ AimsFlat(x3, F, W)
        /\ AimsFlat(x4, F, W) /\ AimsFlat(x5, F, W) /\ AimsFlat(x6, F, W)
    <3> HIDE DEF branch, block, otherwise
    <3> QED
      BY <1>2, <1>4, AimingItems
  <2>3. /\ x1.do # "label" /\ x2.do # "label" /\ x3.do = "label"
        /\ x4.do # "label" /\ x5.do # "label" /\ x6.do = "label"
        /\ Wrote(x3, x) = LabelOf(x, "entry") /\ Wrote(x6, x) = LabelOf(x, "exit")
    <3> HIDE DEF branch, block, otherwise, ifEnd
    <3> QED
      BY <1>4, LineItems
  <2> HIDE DEF x1, x2, x3, x4, x5, x6, Arm
  <2>4. Wrote(x3, x) # Wrote(x6, x)
    BY <2>3, LabelsDiffer
  <2>5. FlatAims(t, F, W)
    BY <2>2, AimingTuples
  <2>6. Written(t, x) = {Wrote(x3, x), Wrote(x6, x)} /\ Once(t, x)
    BY <2>3, <2>4, ArmWrites
  <2> QED
    BY <2>1, <2>3, <2>5, <2>6
<1> HIDE DEF Arm
<1>5. ASSUME NEW i \in 1 .. Len(cs) - 1
      PROVE  InnerAims(elseIf(i), F, W) /\ elseIf(i).do = "scope"
  <2> DEFINE x == elseIf(i)
             q == Arm(i + 1, Here("exit"))
             oi == ScopeAt(x)
  <2>1. x.do = "scope" /\ x.plan = q
    BY DEF InScope
  <2>2. i + 1 \in 1 .. Len(cs)
    OBVIOUS
  <2>3. /\ AimsFlat(Branch("unless", Here("exit")), F, W)
        /\ Wrote(LabelLine(Here("exit")), oi) = LabelOf(oi, "exit")
    BY <1>2, AimingItems, LineItems
  <2> HIDE DEF x, oi
  <2>4. /\ FlatAims(q, F, W) /\ Once(q, oi)
        /\ Written(q, oi) = {LabelOf(oi, "entry"), LabelOf(oi, "exit")}
    BY <1>4, <2>2, <2>3
  <2> HIDE DEF q
  <2>5. Whole(q, oi)
    BY <2>4, LabelsDiffer DEF Whole, Parts
  <2>6. FlatAims(q, F \union Written(q, oi), W)
    BY <2>4, AimsIn
  <2>7. InnerAims(x, F, W) /\ x.do = "scope"
    BY <2>1, <2>5, <2>6 DEF InnerAims, Aims, oi
  <2> QED
    BY <2>7 DEF x
<1> HIDE DEF elseIf
<1>6. /\ NestedAims(elseIfs, F, W)
      /\ Written(elseIfs, o) = {} /\ Once(elseIfs, o)
  <2>1. DOMAIN elseIfs = 1 .. Len(cs) - 1 /\ Len(cs) - 1 \in Nat
    OBVIOUS
  <2>2. elseIfs \in [1 .. Len(cs) - 1 -> {elseIfs[i] : i \in DOMAIN elseIfs}]
    OBVIOUS
  <2>3. IsSequence(elseIfs)
    BY <2>1, <2>2 DEF IsSequence
  <2>4. \A i \in 1 .. Len(cs) - 1 : elseIfs[i].do = "scope"
    BY <1>5
  <2> QED
    BY <1>5, <2>1, <2>3, <2>4, NoLines DEF NestedAims
<1>7. LET arm == Arm(1, ifExit)
      IN  /\ FlatAims(arm, F, W) /\ Once(arm, o)
          /\ Written(arm, o) = {LabelOf(o, "entry"), LabelOf(o, "exit")}
  <2>1. 1 \in 1 .. Len(cs)
    OBVIOUS
  <2>2. /\ AimsFlat(Branch("unless", ifExit), F, W)
        /\ Wrote(LabelLine(ifExit), o) = LabelOf(o, "exit")
    BY <1>2, <1>3, AimingItems, LineItems
  <2> HIDE DEF ifExit
  <2> QED
    BY <1>4, <2>1, <2>2
<1>8. FlatAims(ask, F, W) /\ Written(ask, o) = {} /\ Once(ask, o)
  <2> DEFINE x1 == Ask("exit")
             x2 == NewLabel("stmt_end")
             t  == <<x1, x2>>
  <2>1. AimsFlat(x1, F, W) /\ AimsFlat(x2, F, W)
    BY AimingItems
  <2>2. x1.do # "label" /\ x2.do # "label"
    BY LineItems
  <2>3. ask = t
    OBVIOUS
  <2> HIDE DEF x1, x2, ask
  <2>4. FlatAims(t, F, W) /\ Written(t, o) = {} /\ Once(t, o)
    BY <2>1, <2>2, AimingTuples, WritingTuples
  <2> QED
    BY <2>3, <2>4
<1>9. /\ FlatAims(end, F, W)
      /\ Written(end, o) = {LabelOf(o, "stmt_end")} /\ Once(end, o)
  <2> DEFINE x == LabelLine(ifEnd)
  <2>1. /\ AimsFlat(x, F, W) /\ x.do = "label"
        /\ Wrote(x, o) = LabelOf(o, "stmt_end")
    BY <1>3, AimingItems, LineItems
  <2> HIDE DEF x
  <2> QED
    BY <2>1, ShortAims DEF x
<1>10. FlatAims(tail, F, W) /\ Written(tail, o) = {} /\ Once(tail, o)
  <2> DEFINE x == Block(else, s.next, s.ctx)
             t == <<x>>
             e == <<>>
  <2> HIDE DEF else
  <2>1. AimsFlat(x, F, W) /\ x.do # "label"
    BY AimingItems, LineItems
  <2>2. tail = t \/ tail = e
    OBVIOUS
  <2> HIDE DEF x, tail
  <2>3. /\ FlatAims(t, F, W) /\ Written(t, o) = {} /\ Once(t, o)
        /\ FlatAims(e, F, W) /\ Written(e, o) = {} /\ Once(e, o)
    BY <2>1, ShortAims
  <2> QED
    BY <2>2, <2>3
<1> DEFINE arm == Arm(1, ifExit)
           p1  == ask \o arm
           p2  == p1 \o elseIfs
           p3  == p2 \o tail
<1>11. p = p3 \o end
  OBVIOUS
<1> HIDE DEF Arm, ask, end, tail, elseIfs, arm, p
<1>12. /\ FlatAims(arm, F, W) /\ Once(arm, o)
       /\ Written(arm, o) = {LabelOf(o, "entry"), LabelOf(o, "exit")}
  BY <1>7 DEF arm
<1>13. /\ NestedAims(ask, F, W) /\ NestedAims(arm, F, W)
       /\ NestedAims(tail, F, W) /\ NestedAims(end, F, W)
  BY <1>8, <1>9, <1>10, <1>12, AimsIn
<1>14. NestedAims(p3 \o end, F, W)
  BY <1>6, <1>13, JoinedAims
<1>15. /\ IsSequence(ask) /\ IsSequence(arm) /\ IsSequence(elseIfs)
       /\ IsSequence(tail) /\ IsSequence(end)
  BY <1>6, <1>13 DEF NestedAims
<1> DEFINE both == {LabelOf(o, "entry"), LabelOf(o, "exit")}
<1>16. IsSequence(p1) /\ Written(p1, o) = both /\ Once(p1, o)
  <2>1. IsSequence(p1) /\ Written(ask, o) \intersect Written(arm, o) = {}
    BY <1>8, <1>15, Concatenation
  <2>2. Written(p1, o) = Written(ask, o) \union Written(arm, o) /\ Once(p1, o)
    BY <1>8, <1>12, <1>15, <2>1, JoinedLines
  <2> QED
    BY <1>8, <1>12, <2>1, <2>2
<1> HIDE DEF p1
<1>17. IsSequence(p2) /\ Written(p2, o) = both /\ Once(p2, o)
  <2>1. IsSequence(p2) /\ Written(p1, o) \intersect Written(elseIfs, o) = {}
    BY <1>6, <1>15, <1>16, Concatenation
  <2>2. Written(p2, o) = Written(p1, o) \union Written(elseIfs, o) /\ Once(p2, o)
    BY <1>6, <1>15, <1>16, <2>1, JoinedLines
  <2> QED
    BY <1>6, <1>16, <2>1, <2>2
<1> HIDE DEF p2
<1>18. IsSequence(p3) /\ Written(p3, o) = both /\ Once(p3, o)
  <2>1. IsSequence(p3) /\ Written(p2, o) \intersect Written(tail, o) = {}
    BY <1>10, <1>15, <1>17, Concatenation
  <2>2. Written(p3, o) = Written(p2, o) \union Written(tail, o) /\ Once(p3, o)
    BY <1>10, <1>15, <1>17, <2>1, JoinedLines
  <2> QED
    BY <1>10, <1>17, <2>1, <2>2
<1> HIDE DEF p3
<1>19. /\ Written(p, o) = both \union {LabelOf(o, "stmt_end")}
       /\ Once(p, o)
  <2>1. /\ LabelOf(o, "stmt_end") # LabelOf(o, "entry")
        /\ LabelOf(o, "stmt_end") # LabelOf(o, "exit")
    BY LabelsDiffer
  <2>2. Written(p3, o) \intersect Written(end, o) = {}
    BY <1>9, <1>18, <2>1
  <2>3. Written(p, o) = Written(p3, o) \union Written(end, o) /\ Once(p, o)
    BY <1>9, <1>11, <1>15, <1>18, <2>2, JoinedLines
  <2> QED
    BY <1>9, <1>18, <2>3
<1>20. Whole(p, o)
  BY <1>19, LabelsDiffer DEF Whole, Parts
<1>21. NestedAims(p, A \union Written(p, o), W)
  <2>1. F \subseteq A \union Written(p, o)
    BY <1>19, <1>a
  <2> QED
    BY <1>11, <1>14, <2>1, AimsIn
<1> QED
  BY <1>1, <1>20, <1>21, OneScopeAims DEF o

\* The operands of a logical condition aim as it does, and its jump is to a
\* label every scope has.
LEMMA LogicalPlanAims ==
  ASSUME NEW a, NEW b, NEW W, a.do = "cond", b.do = "cond",
         a.cond \in W, b.cond \in W, NEW table, NEW part \in Parts, NEW A
  PROVE  LET p == <<a, Branch(table, Here(part)), b>>
         IN  OuterPlan(p) /\ DeepAims(p, A, W) /\ Lines(p) = {}
<1> DEFINE m == Branch(table, Here(part))
           p == <<a, m, b>>
<1>1. /\ AimsFlat(a, A, W) /\ AimsFlat(m, A, W) /\ AimsFlat(b, A, W)
      /\ m.do = "branch"
  <2>1. AimsFlat(m, A, W)
    BY AimingItems
  <2>2. AimsFlat(a, A, W) /\ AimsFlat(b, A, W) /\ m.do = "branch"
    BY DEF AimsFlat, Aims, Branch
  <2> QED
    BY <2>1, <2>2
<1> HIDE DEF m
<1>2. /\ Leafy(a) /\ Leafy(m) /\ Leafy(b)
  BY <1>1 DEF Leafy
<1>3. FlatAims(p, A, W) /\ LeafPlan(p)
  BY <1>1, <1>2, AimingTuples, LeafTuples
<1>4. DOMAIN p = {1, 2, 3} /\ p[1] = a /\ p[2] = m /\ p[3] = b
  OBVIOUS
<1> HIDE DEF p
<1>5. Lines(p) = {}
  BY <1>1, <1>4 DEF Lines
<1>6. OuterPlan(p) /\ DeepAims(p, A, W)
  BY <1>3, PlanInclusion, AimsIn
<1> QED
  BY <1>5, <1>6 DEF p, m

-----------------------------------------------------------------------------
(* The labels that are still to come.                                      *)

\* A label is to come when some line of it waits at the level of a scope.
LEMMA InComing ==
  ASSUME NEW td, NEW st, NEW l
  PROVE  l \in Coming(td, st) <=>
            \E i \in Lines(td) : \E d \in DOMAIN st :
               AtLevel(td, i, d) /\ l = Wrote(td[i], st[d])
BY DEF Coming

\* The head is in the innermost scope and no other.
LEMMA HeadLevelOnly ==
  ASSUME NEW td, NEW n \in Nat, Continuation(td), td # <<>>,
         Head(td).do # "leave", Matches(td, n), NEW d \in 0 .. n
  PROVE  AtLevel(td, 1, d) <=> d = n
<1>1. 1 \in DOMAIN td /\ Head(td) = td[1] /\ AtLevel(td, 1, n)
  BY HeadLevel
<1>2. ASSUME AtLevel(td, 1, d), d # n PROVE FALSE
  <2>1. PICK j \in Leaves(td) : td[j].depth = n
    BY <1>2 DEF Matches
  <2>2. j # 1 /\ j \in 1 .. Len(td) /\ Len(td) \in Nat
    BY <1>1, <2>1, HeadAndTail DEF Leaves, Continuation
  <2>3. 1 < j
    BY <2>2
  <2>4. n <= d
    BY <1>2, <2>1, <2>3 DEF AtLevel
  <2> QED
    BY <1>2, <2>4
<1> QED
  BY <1>1, <1>2

\* A plan without label lines in the place of the head leaves what is to come
\* as it was, but for the label the head writes.
LEMMA PushComing ==
  ASSUME NEW td, NEW p, NEW st, Continuation(td), td # <<>>,
         Head(td).do # "leave", OuterPlan(p), Lines(p) = {}
  PROVE  LET r == p \o Tail(td)
         IN  /\ Coming(r, st) \subseteq Coming(td, st)
             /\ \A l \in Coming(td, st) :
                   \/ l \in Coming(r, st)
                   \/ /\ td[1].do = "label"
                      /\ \E d \in DOMAIN st :
                            AtLevel(td, 1, d) /\ l = Wrote(td[1], st[d])
             /\ LinesApart(td, st) => LinesApart(r, st)
             /\ ScopedInside(td, st)
                   /\ (\A i \in DOMAIN p : Scoped(p[i]) => Scoped(td[1]))
                      => ScopedInside(r, st)
<1> DEFINE r == p \o Tail(td)
           f(j) == j + Len(p) - 1
<1>0. IsSequence(td) /\ IsSequence(p)
  BY DEF Continuation, OuterPlan
<1>1. /\ Len(p) \in Nat /\ Len(td) \in Nat \ {0}
      /\ DOMAIN p = 1 .. Len(p) /\ DOMAIN td = 1 .. Len(td)
      /\ DOMAIN r = 1 .. Len(p) + Len(td) - 1
      /\ \A i \in 2 .. Len(td) : r[f(i)] = td[i]
  BY <1>0, Splice
<1>2. \A i \in DOMAIN r :
         \/ i \in DOMAIN p /\ r[i] = p[i]
         \/ \E j \in DOMAIN td : j # 1 /\ i = f(j) /\ r[i] = td[j]
  BY <1>0, SpliceIndices
<1>3. /\ \A j \in DOMAIN td : j # 1 =>
           \A d : AtLevel(r, f(j), d) <=> AtLevel(td, j, d)
      /\ \A i \in DOMAIN p : \A d : AtLevel(r, i, d) <=> AtLevel(td, 1, d)
  BY PushLevels
<1>4. \A j \in DOMAIN td : j # 1 => f(j) \in DOMAIN r /\ r[f(j)] = td[j]
  BY <1>1
<1>a. \A i, j \in DOMAIN td : f(i) = f(j) => i = j
  BY <1>1
<1>b. 1 \in DOMAIN td
  BY <1>1
<1> HIDE DEF r, f
<1>5. ASSUME NEW i \in Lines(r)
      PROVE  \E j \in Lines(td) : j # 1 /\ i = f(j) /\ r[i] = td[j]
  BY <1>2 DEF Lines
<1>6. ASSUME NEW j \in Lines(td), j # 1
      PROVE  f(j) \in Lines(r) /\ r[f(j)] = td[j]
  BY <1>4, <1>6 DEF Lines
<1>7. ASSUME NEW l \in Coming(r, st) PROVE l \in Coming(td, st)
  <2>1. PICK i \in Lines(r), d \in DOMAIN st :
           AtLevel(r, i, d) /\ l = Wrote(r[i], st[d])
    BY InComing
  <2>2. PICK j \in Lines(td) : j # 1 /\ i = f(j) /\ r[i] = td[j]
    BY <1>5
  <2>3. AtLevel(td, j, d)
    BY <1>3, <2>1, <2>2 DEF Lines
  <2> QED
    BY <2>1, <2>2, <2>3, InComing
<1>8. ASSUME NEW l \in Coming(td, st)
      PROVE  \/ l \in Coming(r, st)
             \/ /\ td[1].do = "label"
                /\ \E d \in DOMAIN st :
                      AtLevel(td, 1, d) /\ l = Wrote(td[1], st[d])
  <2>1. PICK j \in Lines(td), d \in DOMAIN st :
           AtLevel(td, j, d) /\ l = Wrote(td[j], st[d])
    BY InComing
  <2>2. CASE j = 1
    BY <2>1, <2>2 DEF Lines
  <2>3. CASE j # 1
    <3>1. f(j) \in Lines(r) /\ r[f(j)] = td[j] /\ AtLevel(r, f(j), d)
      BY <1>3, <1>6, <2>1, <2>3 DEF Lines
    <3> QED
      BY <2>1, <3>1, InComing
  <2> QED
    BY <2>2, <2>3
<1>9. ASSUME LinesApart(td, st) PROVE LinesApart(r, st)
  <2> SUFFICES ASSUME NEW i \in Lines(r), NEW d \in DOMAIN st, AtLevel(r, i, d)
               PROVE  /\ IsLabelOf(Wrote(r[i], st[d]), st[d])
                      /\ \A k \in Lines(r) :
                            AtLevel(r, k, d) /\ Wrote(r[i], st[d]) = Wrote(r[k], st[d])
                               => i = k
    BY DEF LinesApart
  <2>1. PICK j \in Lines(td) : j # 1 /\ i = f(j) /\ r[i] = td[j]
    BY <1>5
  <2>2. AtLevel(td, j, d)
    BY <1>3, <2>1 DEF Lines
  <2>3. IsLabelOf(Wrote(r[i], st[d]), st[d])
    BY <1>9, <2>1, <2>2 DEF LinesApart
  <2>4. ASSUME NEW k \in Lines(r), AtLevel(r, k, d),
               Wrote(r[i], st[d]) = Wrote(r[k], st[d])
        PROVE  i = k
    <3>1. PICK m \in Lines(td) : m # 1 /\ k = f(m) /\ r[k] = td[m]
      BY <1>5
    <3>2. AtLevel(td, m, d)
      BY <1>3, <2>4, <3>1 DEF Lines
    <3>3. j = m
      BY <1>9, <2>1, <2>2, <2>4, <3>1, <3>2 DEF LinesApart
    <3> QED
      BY <2>1, <3>1, <3>3
  <2> QED
    BY <2>3, <2>4
<1>10. ASSUME ScopedInside(td, st),
              \A i \in DOMAIN p : Scoped(p[i]) => Scoped(td[1])
       PROVE  ScopedInside(r, st)
  <2> SUFFICES ASSUME NEW i \in DOMAIN r, Scoped(r[i])
               PROVE  \E d \in DOMAIN st : AtLevel(r, i, d)
    BY DEF ScopedInside
  <2>1. CASE i \in DOMAIN p /\ r[i] = p[i]
    <3>1. PICK d \in DOMAIN st : AtLevel(td, 1, d)
      BY <1>10, <1>b, <2>1 DEF ScopedInside
    <3> QED
      BY <1>3, <2>1, <3>1
  <2>2. CASE \E j \in DOMAIN td : j # 1 /\ i = f(j) /\ r[i] = td[j]
    <3>1. PICK j \in DOMAIN td : j # 1 /\ i = f(j) /\ r[i] = td[j]
      BY <2>2
    <3>2. PICK d \in DOMAIN st : AtLevel(td, j, d)
      BY <1>10, <3>1 DEF ScopedInside
    <3> QED
      BY <1>3, <3>1, <3>2
  <2> QED
    BY <1>2, <2>1, <2>2
<1>11. Coming(r, st) \subseteq Coming(td, st)
  BY <1>7
<1> QED
  BY <1>8, <1>9, <1>10, <1>11 DEF r

\* Entering a scope puts the lines of its plan at its level; what was to come
\* is to come.
LEMMA ScopeComing ==
  ASSUME NEW td, NEW p, NEW n \in Nat, NEW st, NEW new, NEW o,
         Continuation(td), td # <<>>,
         Head(td).do # "leave", Head(td).do # "label", ~Scoped(td[1]),
         OuterPlan(p), Matches(td, n), Whole(p, o),
         DOMAIN st = 1 .. n, DOMAIN new = 1 .. n + 1, new[n + 1] = o,
         \A d \in 1 .. n : new[d] = st[d]
  PROVE  LET r == (p \o <<Leave(n + 1)>>) \o Tail(td)
         IN  /\ Coming(r, new) = Coming(td, st) \union Written(p, o)
             /\ LinesApart(td, st) => LinesApart(r, new)
             /\ ScopedInside(td, st) => ScopedInside(r, new)
<1> DEFINE q == p \o <<Leave(n + 1)>>
           r == q \o Tail(td)
           f(j) == j + Len(q) - 1
<1>1. /\ IsSequence(q) /\ Len(q) = Len(p) + 1
      /\ \A i \in DOMAIN p : i \in DOMAIN q /\ q[i] = p[i]
      /\ \A i \in DOMAIN q : \/ i \in DOMAIN p /\ q[i] = p[i]
                             \/ q[i] = Leave(n + 1)
      /\ \A j \in DOMAIN td : j # 1 =>
            /\ \A d \in 0 .. n : AtLevel(r, f(j), d) <=> AtLevel(td, j, d)
            /\ ~AtLevel(r, f(j), n + 1)
      /\ \A i \in DOMAIN p : \A d \in 0 .. n + 1 : AtLevel(r, i, d) <=> d = n + 1
  BY ScopeLevels
<1>0. IsSequence(td)
  BY DEF Continuation
<1> HIDE DEF q
<1>2. /\ Len(q) \in Nat \ {0} /\ Len(td) \in Nat \ {0}
      /\ DOMAIN q = 1 .. Len(q) /\ DOMAIN td = 1 .. Len(td)
      /\ DOMAIN r = 1 .. Len(q) + Len(td) - 1
      /\ \A i \in 1 .. Len(q) : r[i] = q[i]
      /\ \A i \in 2 .. Len(td) : r[f(i)] = td[i]
  <2>1. Len(p) \in Nat
    BY SequenceLength DEF OuterPlan
  <2>2. Len(q) \in Nat \ {0}
    BY <1>1, <2>1
  <2>3. /\ Len(td) \in Nat \ {0}
        /\ DOMAIN q = 1 .. Len(q) /\ DOMAIN td = 1 .. Len(td)
        /\ DOMAIN r = 1 .. Len(q) + Len(td) - 1
        /\ \A i \in 1 .. Len(q) : r[i] = q[i]
        /\ \A i \in 2 .. Len(td) : r[i + Len(q) - 1] = td[i]
    <3> HIDE DEF f
    <3> QED
      BY <1>0, <1>1, Splice
  <2> HIDE DEF r
  <2> QED
    BY <2>2, <2>3
<1>3. \A i \in DOMAIN r :
         \/ i \in DOMAIN q /\ r[i] = q[i]
         \/ \E j \in DOMAIN td : j # 1 /\ i = f(j) /\ r[i] = td[j]
  <2> SUFFICES ASSUME NEW i \in DOMAIN r
               PROVE  \/ i \in DOMAIN q /\ r[i] = q[i]
                      \/ \E j \in DOMAIN td : j # 1 /\ i = f(j) /\ r[i] = td[j]
    OBVIOUS
  <2>1. IsSequence(q)
    BY <1>1
  <2> QED
    BY <1>0, <2>1, SpliceIndices
<1>4. \A j \in DOMAIN td : j # 1 => f(j) \in DOMAIN r /\ r[f(j)] = td[j]
  <2> HIDE DEF r
  <2> SUFFICES ASSUME NEW j \in DOMAIN td, j # 1
               PROVE  f(j) \in DOMAIN r /\ r[f(j)] = td[j]
    OBVIOUS
  <2>1. j \in 2 .. Len(td) /\ f(j) \in 1 .. Len(q) + Len(td) - 1
    BY <1>2
  <2> QED
    BY <1>2, <2>1
<1>5. \A i \in DOMAIN p : i \in DOMAIN r /\ r[i] = p[i]
  BY <1>1, <1>2
<1>6. /\ Leave(n + 1).do # "label" /\ ~Scoped(Leave(n + 1))
  BY DEF Leave, Scoped
<1>7. td[1].do # "label"
  BY <1>0, Splice, Singleton
<1>8. \A d \in 1 .. n : d \in 0 .. n /\ d \in 0 .. n + 1 /\ d \in 1 .. n + 1 /\ d # n + 1
  OBVIOUS
<1>9. n + 1 \in 0 .. n + 1 /\ n + 1 \in 1 .. n + 1
  OBVIOUS
<1>10. \A d \in 1 .. n + 1 : d = n + 1 \/ d \in 1 .. n
  OBVIOUS
<1> HIDE DEF r, f
<1>11. ASSUME NEW i \in DOMAIN r, r[i] # Leave(n + 1)
       PROVE  \/ i \in DOMAIN p /\ r[i] = p[i]
              \/ \E j \in DOMAIN td : j # 1 /\ i = f(j) /\ r[i] = td[j]
  BY <1>1, <1>3, <1>11
<1>12. ASSUME NEW i \in Lines(r), NEW d \in DOMAIN new, AtLevel(r, i, d)
       PROVE  \/ i \in Lines(p) /\ r[i] = p[i] /\ d = n + 1
              \/ /\ d \in 1 .. n
                 /\ \E j \in Lines(td) :
                       /\ j # 1 /\ i = f(j) /\ r[i] = td[j] /\ AtLevel(td, j, d)
  <2>1. i \in DOMAIN r /\ r[i].do = "label"
    BY DEF Lines
  <2>2. CASE i \in DOMAIN p /\ r[i] = p[i]
    <3>1. d = n + 1
      BY <1>1, <1>8, <1>9, <1>10, <1>12, <2>2
    <3> QED
      BY <2>1, <2>2, <3>1 DEF Lines
  <2>3. CASE \E j \in DOMAIN td : j # 1 /\ i = f(j) /\ r[i] = td[j]
    <3>1. PICK j \in DOMAIN td : j # 1 /\ i = f(j) /\ r[i] = td[j]
      BY <2>3
    <3>2. d \in 1 .. n
      BY <1>1, <1>10, <1>12, <3>1
    <3>3. AtLevel(td, j, d)
      BY <1>1, <1>8, <1>12, <3>1, <3>2
    <3> QED
      BY <2>1, <3>1, <3>2, <3>3 DEF Lines
  <2> QED
    BY <1>6, <1>11, <2>1, <2>2, <2>3
<1>13. ASSUME NEW i \in Lines(p)
       PROVE  i \in Lines(r) /\ r[i] = p[i] /\ AtLevel(r, i, n + 1)
  BY <1>1, <1>5, <1>9 DEF Lines
<1>14. ASSUME NEW j \in Lines(td), NEW d \in 1 .. n, AtLevel(td, j, d)
       PROVE  f(j) \in Lines(r) /\ r[f(j)] = td[j] /\ AtLevel(r, f(j), d)
  <2>1. j # 1 /\ j \in DOMAIN td
    BY <1>7 DEF Lines
  <2>2. AtLevel(r, f(j), d)
    BY <1>1, <1>8, <1>14, <2>1
  <2> QED
    BY <1>4, <2>1, <2>2 DEF Lines
<1>15. Coming(r, new) = Coming(td, st) \union Written(p, o)
  <2>1. ASSUME NEW l \in Coming(r, new)
        PROVE  l \in Coming(td, st) \/ l \in Written(p, o)
    <3>1. PICK i \in Lines(r), d \in DOMAIN new :
             AtLevel(r, i, d) /\ l = Wrote(r[i], new[d])
      BY InComing
    <3>2. CASE i \in Lines(p) /\ r[i] = p[i] /\ d = n + 1
      BY <3>1, <3>2 DEF Written
    <3>3. CASE /\ d \in 1 .. n
               /\ \E j \in Lines(td) :
                     /\ j # 1 /\ i = f(j) /\ r[i] = td[j] /\ AtLevel(td, j, d)
      <4>1. PICK j \in Lines(td) : r[i] = td[j] /\ AtLevel(td, j, d)
        BY <3>3
      <4> QED
        BY <3>1, <3>3, <4>1, InComing
    <3> QED
      BY <1>12, <3>1, <3>2, <3>3
  <2>2. ASSUME NEW l \in Coming(td, st) PROVE l \in Coming(r, new)
    <3>1. PICK j \in Lines(td), d \in DOMAIN st :
             AtLevel(td, j, d) /\ l = Wrote(td[j], st[d])
      BY InComing
    <3>2. f(j) \in Lines(r) /\ r[f(j)] = td[j] /\ AtLevel(r, f(j), d)
      BY <1>14, <3>1
    <3>3. d \in DOMAIN new /\ l = Wrote(r[f(j)], new[d])
      BY <1>8, <3>1, <3>2
    <3> QED
      BY <3>2, <3>3, InComing
  <2>3. ASSUME NEW l \in Written(p, o) PROVE l \in Coming(r, new)
    <3>1. PICK i \in Lines(p) : l = Wrote(p[i], o)
      BY DEF Written
    <3> QED
      BY <1>9, <1>13, <3>1, InComing
  <2> QED
    BY <2>1, <2>2, <2>3
<1>16. ASSUME LinesApart(td, st) PROVE LinesApart(r, new)
  <2> SUFFICES ASSUME NEW i \in Lines(r), NEW d \in DOMAIN new, AtLevel(r, i, d)
               PROVE  /\ IsLabelOf(Wrote(r[i], new[d]), new[d])
                      /\ \A k \in Lines(r) :
                            AtLevel(r, k, d) /\ Wrote(r[i], new[d]) = Wrote(r[k], new[d])
                               => i = k
    BY DEF LinesApart
  <2>1. CASE i \in Lines(p) /\ r[i] = p[i] /\ d = n + 1
    <3>1. IsLabelOf(Wrote(r[i], new[d]), new[d])
      BY <2>1 DEF Whole, Written
    <3>2. ASSUME NEW k \in Lines(r), AtLevel(r, k, d),
                 Wrote(r[i], new[d]) = Wrote(r[k], new[d])
          PROVE  i = k
      <4>1. k \in Lines(p) /\ r[k] = p[k]
        BY <1>8, <1>12, <2>1, <3>2
      <4> QED
        BY <2>1, <3>2, <4>1 DEF Whole, Once
    <3> QED
      BY <3>1, <3>2
  <2>2. CASE /\ d \in 1 .. n
             /\ \E j \in Lines(td) :
                   /\ j # 1 /\ i = f(j) /\ r[i] = td[j] /\ AtLevel(td, j, d)
    <3>1. PICK j \in Lines(td) :
             j # 1 /\ i = f(j) /\ r[i] = td[j] /\ AtLevel(td, j, d)
      BY <2>2
    <3>2. new[d] = st[d]
      BY <2>2
    <3>3. IsLabelOf(Wrote(r[i], new[d]), new[d])
      BY <1>16, <2>2, <3>1, <3>2 DEF LinesApart
    <3>4. ASSUME NEW k \in Lines(r), AtLevel(r, k, d),
                 Wrote(r[i], new[d]) = Wrote(r[k], new[d])
          PROVE  i = k
      <4>1. PICK m \in Lines(td) : k = f(m) /\ r[k] = td[m] /\ AtLevel(td, m, d)
        BY <1>8, <1>12, <2>2, <3>4
      <4>2. j = m
        BY <1>16, <2>2, <3>1, <3>2, <3>4, <4>1 DEF LinesApart
      <4> QED
        BY <3>1, <4>1, <4>2
    <3> QED
      BY <3>3, <3>4
  <2> QED
    BY <1>12, <2>1, <2>2
<1>17. ASSUME ScopedInside(td, st) PROVE ScopedInside(r, new)
  <2> SUFFICES ASSUME NEW i \in DOMAIN r, Scoped(r[i])
               PROVE  \E d \in DOMAIN new : AtLevel(r, i, d)
    BY DEF ScopedInside
  <2>1. CASE i \in DOMAIN p /\ r[i] = p[i]
    BY <1>1, <1>9, <2>1
  <2>2. CASE \E j \in DOMAIN td : j # 1 /\ i = f(j) /\ r[i] = td[j]
    <3>1. PICK j \in DOMAIN td : j # 1 /\ i = f(j) /\ r[i] = td[j]
      BY <2>2
    <3>2. PICK d \in DOMAIN st : AtLevel(td, j, d)
      BY <1>17, <3>1 DEF ScopedInside
    <3>3. AtLevel(r, i, d) /\ d \in DOMAIN new
      BY <1>1, <1>8, <3>1, <3>2
    <3> QED
      BY <3>3
  <2> QED
    BY <1>6, <1>11, <2>1, <2>2
<1> QED
  BY <1>15, <1>16, <1>17 DEF r, q

\* Leaving a scope leaves nothing of it to come.
LEMMA PopComing ==
  ASSUME NEW td, NEW n \in Nat, NEW st, NEW new,
         Continuation(td), td # <<>>, Head(td).do = "leave", Matches(td, n),
         DOMAIN st = 1 .. n, DOMAIN new = 1 .. n - 1,
         \A d \in 1 .. n - 1 : new[d] = st[d]
  PROVE  LET r == <<>> \o Tail(td)
         IN  /\ Coming(r, new) = Coming(td, st)
             /\ LinesApart(td, st) => LinesApart(r, new)
             /\ ScopedInside(td, st) => ScopedInside(r, new)
<1> DEFINE e == <<>>
           r == e \o Tail(td)
           f(j) == j - 1
<1>1. /\ n # 0
      /\ \A j \in DOMAIN td : j # 1 =>
            /\ \A d \in 0 .. n - 1 : AtLevel(r, f(j), d) <=> AtLevel(td, j, d)
            /\ ~AtLevel(td, j, n)
  BY PopLevels
<1>2. IsSequence(td) /\ IsSequence(e) /\ Len(e) = 0 /\ DOMAIN e = {}
  BY Singleton DEF Continuation
<1> HIDE DEF e
<1>3. /\ Len(td) \in Nat \ {0} /\ DOMAIN td = 1 .. Len(td)
      /\ DOMAIN r = 1 .. Len(td) - 1
      /\ \A i \in 2 .. Len(td) : r[f(i)] = td[i]
      /\ Head(td) = td[1]
  <2>1. /\ Len(td) \in Nat \ {0} /\ DOMAIN td = 1 .. Len(td)
        /\ DOMAIN r = 1 .. Len(e) + Len(td) - 1
        /\ \A i \in 2 .. Len(td) : r[i + Len(e) - 1] = td[i]
        /\ Head(td) = td[1]
    BY <1>2, Splice
  <2> HIDE DEF r
  <2> QED
    BY <1>2, <2>1
<1> HIDE DEF r
<1>4. \A i \in DOMAIN r : \E j \in DOMAIN td : j # 1 /\ i = f(j) /\ r[i] = td[j]
  <2> TAKE i \in DOMAIN r
  <2>1. i + 1 \in 2 .. Len(td) /\ i + 1 # 1 /\ i = f(i + 1)
    BY <1>3
  <2> QED
    BY <1>3, <2>1
<1>5. \A j \in DOMAIN td : j # 1 => f(j) \in DOMAIN r /\ r[f(j)] = td[j]
  BY <1>3
<1>6. td[1].do # "label" /\ ~Scoped(td[1])
  BY <1>3 DEF Scoped
<1>7. /\ \A d \in 1 .. n - 1 : d \in 0 .. n - 1 /\ d \in 1 .. n
      /\ \A d \in 1 .. n : d # n => d \in 1 .. n - 1
  OBVIOUS
<1> HIDE DEF f
<1>8. ASSUME NEW i \in Lines(r), NEW d \in 1 .. n - 1, AtLevel(r, i, d)
      PROVE  \E j \in Lines(td) :
                j # 1 /\ i = f(j) /\ r[i] = td[j] /\ AtLevel(td, j, d)
  <2>1. PICK j \in DOMAIN td : j # 1 /\ i = f(j) /\ r[i] = td[j]
    BY <1>4 DEF Lines
  <2> QED
    BY <1>1, <1>7, <1>8, <2>1 DEF Lines
<1>9. ASSUME NEW j \in DOMAIN td, td[j].do = "label" \/ Scoped(td[j]),
             NEW d \in 1 .. n, AtLevel(td, j, d)
      PROVE  /\ f(j) \in DOMAIN r /\ r[f(j)] = td[j] /\ AtLevel(r, f(j), d)
             /\ d \in 1 .. n - 1
  <2>1. j # 1
    BY <1>6, <1>9
  <2>2. d \in 1 .. n - 1
    BY <1>1, <1>7, <1>9, <2>1
  <2> QED
    BY <1>1, <1>5, <1>7, <1>9, <2>1, <2>2
<1>10. Coming(r, new) = Coming(td, st)
  <2>1. ASSUME NEW l \in Coming(r, new) PROVE l \in Coming(td, st)
    <3>1. PICK i \in Lines(r), d \in DOMAIN new :
             AtLevel(r, i, d) /\ l = Wrote(r[i], new[d])
      BY InComing
    <3>2. PICK j \in Lines(td) : r[i] = td[j] /\ AtLevel(td, j, d)
      BY <1>8, <3>1
    <3>3. d \in DOMAIN st /\ l = Wrote(td[j], st[d])
      BY <1>7, <3>1, <3>2
    <3> QED
      BY <3>2, <3>3, InComing
  <2>2. ASSUME NEW l \in Coming(td, st) PROVE l \in Coming(r, new)
    <3>1. PICK j \in Lines(td), d \in DOMAIN st :
             AtLevel(td, j, d) /\ l = Wrote(td[j], st[d])
      BY InComing
    <3>2. /\ f(j) \in Lines(r) /\ r[f(j)] = td[j] /\ AtLevel(r, f(j), d)
          /\ d \in 1 .. n - 1
      BY <1>9, <3>1 DEF Lines
    <3>3. l = Wrote(r[f(j)], new[d])
      BY <3>1, <3>2
    <3> QED
      BY <3>2, <3>3, InComing
  <2> QED
    BY <2>1, <2>2
<1>11. ASSUME LinesApart(td, st) PROVE LinesApart(r, new)
  <2> SUFFICES ASSUME NEW i \in Lines(r), NEW d \in DOMAIN new, AtLevel(r, i, d)
               PROVE  /\ IsLabelOf(Wrote(r[i], new[d]), new[d])
                      /\ \A k \in Lines(r) :
                            AtLevel(r, k, d) /\ Wrote(r[i], new[d]) = Wrote(r[k], new[d])
                               => i = k
    BY DEF LinesApart
  <2>1. PICK j \in Lines(td) : i = f(j) /\ r[i] = td[j] /\ AtLevel(td, j, d)
    BY <1>8
  <2>2. new[d] = st[d] /\ d \in DOMAIN st
    BY <1>7
  <2>3. IsLabelOf(Wrote(r[i], new[d]), new[d])
    BY <1>11, <2>1, <2>2 DEF LinesApart
  <2>4. ASSUME NEW k \in Lines(r), AtLevel(r, k, d),
               Wrote(r[i], new[d]) = Wrote(r[k], new[d])
        PROVE  i = k
    <3>1. PICK m \in Lines(td) : k = f(m) /\ r[k] = td[m] /\ AtLevel(td, m, d)
      BY <1>8, <2>4
    <3>2. j = m
      BY <1>11, <2>1, <2>2, <2>4, <3>1 DEF LinesApart
    <3> QED
      BY <2>1, <3>1, <3>2
  <2> QED
    BY <2>3, <2>4
<1>12. ASSUME ScopedInside(td, st) PROVE ScopedInside(r, new)
  <2> SUFFICES ASSUME NEW i \in DOMAIN r, Scoped(r[i])
               PROVE  \E d \in DOMAIN new : AtLevel(r, i, d)
    BY DEF ScopedInside
  <2>1. PICK j \in DOMAIN td : j # 1 /\ i = f(j) /\ r[i] = td[j]
    BY <1>4
  <2>2. PICK d \in DOMAIN st : AtLevel(td, j, d)
    BY <1>12, <2>1 DEF ScopedInside
  <2> QED
    BY <1>9, <2>1, <2>2
<1> QED
  BY <1>10, <1>11, <1>12 DEF r, e

\* What is left of a continuation aims as before, with a plan in the place of
\* its head, at the labels there are by then.
LEMMA PushAims ==
  ASSUME NEW td, NEW p, NEW A, NEW B, NEW W, td # <<>>,
         DeepAims(td, A, W), DeepAims(p, B, W), A \subseteq B
  PROVE  DeepAims(p \o Tail(td), B, W)
<1> DEFINE r == p \o Tail(td)
<1>1. IsSequence(td) /\ IsSequence(p)
  BY DEF DeepAims
<1>2. IsSequence(r)
  BY <1>1, Splice
<1>3. \A i \in DOMAIN r :
         \/ i \in DOMAIN p /\ r[i] = p[i]
         \/ \E j \in DOMAIN td : j # 1 /\ i = j + Len(p) - 1 /\ r[i] = td[j]
  BY <1>1, SpliceIndices
<1>4. DeepAims(td, B, W)
  BY AimsIn
<1> HIDE DEF r
<1>5. DeepAims(r, B, W)
  BY <1>2, <1>3, <1>4 DEF DeepAims
<1> QED
  BY <1>5 DEF r

\* Items of no plan aim anywhere.
LEMMA EndOfScopeAims ==
  ASSUME NEW n, NEW A, NEW W
  PROVE  DeepAims(<<Leave(n)>>, A, W) /\ DeepAims(<<>>, A, W)
BY AimingItems, ShortAims, AimsIn

-----------------------------------------------------------------------------
(* The code.                                                               *)

\* What a line added to a sequence of lines changes.
LEMMA Appended ==
  ASSUME NEW cd, NEW x, IsSequence(cd)
  PROVE  LET new == Append(cd, x)
         IN  /\ IsSequence(new) /\ Len(cd) \in Nat /\ DOMAIN cd = 1 .. Len(cd)
             /\ DOMAIN new = 1 .. Len(cd) + 1
             /\ \A i \in DOMAIN cd : i \in DOMAIN new /\ new[i] = cd[i]
             /\ Len(cd) + 1 \in DOMAIN new /\ new[Len(cd) + 1] = x
             /\ \A i \in DOMAIN new : i \in DOMAIN cd \/ i = Len(cd) + 1
             /\ Len(cd) + 1 \notin DOMAIN cd
<1> DEFINE S == {cd[i] : i \in DOMAIN cd}
           T == S \union {x}
           new == Append(cd, x)
<1>1. cd \in Seq(S)
  BY DEF IsSequence
<1> HIDE DEF S
<1>2. cd \in Seq(T) /\ x \in T
  BY <1>1
<1> HIDE DEF T
<1>3. /\ new \in Seq(T) /\ Len(cd) \in Nat /\ DOMAIN cd = 1 .. Len(cd)
      /\ DOMAIN new = 1 .. Len(cd) + 1
      /\ \A i \in 1 .. Len(cd) : new[i] = cd[i]
      /\ new[Len(cd) + 1] = x
  BY <1>2
<1>4. IsSequence(new)
  BY <1>3, AnySequence
<1> HIDE DEF new
<1>5. /\ \A i \in DOMAIN cd : i \in DOMAIN new /\ new[i] = cd[i]
      /\ Len(cd) + 1 \in DOMAIN new /\ new[Len(cd) + 1] = x
      /\ \A i \in DOMAIN new : i \in DOMAIN cd \/ i = Len(cd) + 1
      /\ Len(cd) + 1 \notin DOMAIN cd
  BY <1>3
<1> QED
  BY <1>3, <1>4, <1>5 DEF new

\* The line of a label of a scope, one that is not there yet.
LEMMA AppendLine ==
  ASSUME NEW cd, NEW l, IsSequence(cd), CodeApart(cd), Len(l) = 3,
         l \notin WrittenIn(cd)
  PROVE  LET new == Append(cd, LabelInstr(l))
         IN  /\ IsSequence(new) /\ CodeApart(new)
             /\ WrittenIn(new) = WrittenIn(cd) \union {l}
             /\ TargetsIn(new) = TargetsIn(cd)
<1> DEFINE x == LabelInstr(l)
           new == Append(cd, x)
           m == Len(cd) + 1
<1>1. /\ IsSequence(new)
      /\ \A i \in DOMAIN cd : i \in DOMAIN new /\ new[i] = cd[i]
      /\ m \in DOMAIN new /\ new[m] = x /\ m \notin DOMAIN cd
      /\ \A i \in DOMAIN new : i \in DOMAIN cd \/ i = m
  BY Appended
<1>2. x.op = "label" /\ x.label = l
  BY DEF LabelInstr
<1> HIDE DEF new, x, m
<1>3. ScopeLines(new) = ScopeLines(cd) \union {m}
  BY <1>1, <1>2 DEF ScopeLines
<1>4. /\ \A i \in ScopeLines(cd) : /\ new[i].label = cd[i].label
                                   /\ cd[i].label \in WrittenIn(cd)
      /\ new[m].label = l
  BY <1>1, <1>2 DEF ScopeLines, WrittenIn
<1>5. CodeApart(new)
  <2> SUFFICES ASSUME NEW i \in ScopeLines(new), NEW j \in ScopeLines(new),
                      new[i].label = new[j].label
               PROVE  i = j
    BY DEF CodeApart
  <2> QED
    BY <1>3, <1>4 DEF CodeApart
<1>6. WrittenIn(new) = WrittenIn(cd) \union {l}
  BY <1>3, <1>4 DEF WrittenIn
<1>7. TargetsIn(new) = TargetsIn(cd)
  <2>1. {j \in DOMAIN new : new[j].op \in {"goto", "branch"}}
          = {j \in DOMAIN cd : cd[j].op \in {"goto", "branch"}}
    BY <1>1, <1>2
  <2>2. \A j \in DOMAIN cd : new[j].label = cd[j].label
    BY <1>1
  <2> QED
    BY <2>1, <2>2 DEF TargetsIn
<1> QED
  BY <1>1, <1>5, <1>6, <1>7 DEF new, x

\* Any other line.
LEMMA AppendOther ==
  ASSUME NEW cd, NEW x, IsSequence(cd), CodeApart(cd),
         x.op = "label" => Len(x.label) # 3
  PROVE  LET new == Append(cd, x)
         IN  /\ IsSequence(new) /\ CodeApart(new)
             /\ WrittenIn(new) = WrittenIn(cd)
             /\ TargetsIn(new) \subseteq
                   TargetsIn(cd) \union {l \in {x.label} : x.op \in {"goto", "branch"}}
<1> DEFINE new == Append(cd, x)
           m == Len(cd) + 1
<1>1. /\ IsSequence(new)
      /\ \A i \in DOMAIN cd : i \in DOMAIN new /\ new[i] = cd[i]
      /\ m \in DOMAIN new /\ new[m] = x /\ m \notin DOMAIN cd
      /\ \A i \in DOMAIN new : i \in DOMAIN cd \/ i = m
  BY Appended
<1> HIDE DEF new, m
<1>2. ScopeLines(new) = ScopeLines(cd)
  BY <1>1 DEF ScopeLines
<1>3. \A i \in ScopeLines(cd) : new[i].label = cd[i].label
  BY <1>1 DEF ScopeLines
<1>4. CodeApart(new) /\ WrittenIn(new) = WrittenIn(cd)
  BY <1>2, <1>3 DEF CodeApart, WrittenIn
<1>5. ASSUME NEW t \in TargetsIn(new)
      PROVE  t \in TargetsIn(cd) \/ (t = x.label /\ x.op \in {"goto", "branch"})
  BY <1>1 DEF TargetsIn
<1> QED
  BY <1>1, <1>4, <1>5 DEF new

-----------------------------------------------------------------------------
(* Steps.                                                                  *)

\* The labels of scopes: a location, a type and a part; those of lines.
LEMMA LabelLengths ==
  /\ \A l, s : IsLabelOf(l, s) => Len(l) = 3 /\ l[1] = s.loc
  /\ \A k : Len(LineLabel(k)) = 2
BY DEF IsLabelOf, LabelOf, LineLabel

\* A function stands alone: behind any other item there is none.
LEMMA NoFunctionAhead ==
  ASSUME NEW td, NEW p, Continuation(td), td # <<>>, Head(td).do # "function",
         IsSequence(p), \A i \in DOMAIN p : p[i].do # "function"
  PROVE  LET r == p \o Tail(td)
         IN  ~(r # <<>> /\ Head(r).do = "function")
<1> DEFINE r == p \o Tail(td)
<1> SUFFICES ASSUME r # <<>>, Head(r).do = "function" PROVE FALSE
  OBVIOUS
<1>1. IsSequence(td) /\ Len(td) \in Nat \ {0} /\ DOMAIN td = 1 .. Len(td)
  BY HeadAndTail DEF Continuation
<1>2. /\ IsSequence(r) /\ DOMAIN r = 1 .. Len(r) /\ Len(r) \in Nat \ {0}
      /\ Head(r) = r[1]
  BY <1>1, Splice, HeadAndTail
<1>3. \/ 1 \in DOMAIN p /\ r[1] = p[1]
      \/ \E j \in DOMAIN td : j # 1 /\ 1 = j + Len(p) - 1 /\ r[1] = td[j]
  <2>1. 1 \in DOMAIN r
    BY <1>2
  <2> QED
    BY <1>1, <2>1, SpliceIndices
<1>4. PICK j \in DOMAIN td : j # 1 /\ td[j].do = "function"
  BY <1>2, <1>3
<1>5. Len(td) = 1
  BY <1>4 DEF Continuation, Outer, Leafy, ScopeOf
<1> QED
  BY <1>1, <1>4, <1>5

\* A step that puts a plan without label lines in the place of the head keeps
\* what is reachable, when the lines it adds do.
LEMMA Reassembled ==
  ASSUME IInv, NEW W, Assembled(W), NEW kind, Do(kind),
         kind \notin {"leave", "function"},
         NEW p, OuterPlan(p), Lines(p) = {}, DeepAims(p, Reachable, W),
         \A i \in DOMAIN p : Scoped(p[i]) => Scoped(Head(todo)),
         Continue(p), UNCHANGED scopeStack, Kept,
         nodes' \in Nat, nodes <= nodes',
         IsSequence(code'), CodeApart(code'),
         TargetsIn(code') \subseteq Reachable,
         WrittenIn(code') \union Coming(todo', scopeStack) = Reachable,
         Coming(todo', scopeStack) \intersect WrittenIn(code') = {},
         \A l \in WrittenIn(code') :
            \/ l \in WrittenIn(code)
            \/ \E d \in DOMAIN scopeStack : l[1] = scopeStack[d].loc
  PROVE  Assembled(W)'
<1> DEFINE td == todo
           r == p \o Tail(td)
<1>1. /\ Generating /\ phase = "gen" /\ todo # <<>> /\ Head(todo).do = kind
  BY HeadItem
<1>2. /\ ScopesApart
      /\ LinesApart(todo, scopeStack)
      /\ ScopedInside(todo, scopeStack)
      /\ DeepAims(todo, Reachable, W)
      /\ \A d \in DOMAIN scopeStack : \A part \in Parts :
            LabelOf(scopeStack[d], part) \in Reachable
  BY <1>1 DEF Assembled
<1>3. Continuation(todo) /\ IsSequence(todo) /\ IsSequence(p) /\ nodes \in Nat
  BY DEF IInv, Continuation, OuterPlan
<1>4. todo' = r /\ Head(todo) = todo[1]
  BY <1>1, <1>3, Splice DEF Continue
<1>5. Reachable' = Reachable
  BY DEF Reachable
<1>6. LinesApart(todo', scopeStack) /\ ScopedInside(todo', scopeStack)
  BY <1>1, <1>2, <1>3, <1>4, PushComing
<1>7. DeepAims(todo', Reachable, W)
  BY <1>1, <1>2, <1>4, PushAims
<1>8. ScopesApart'
  <2>1. \A m \in 1 .. nodes : m \in 1 .. nodes' /\ (PlanOwns(todo', m) => PlanOwns(todo, m))
    BY <1>3 DEF Kept
  <2>2. ASSUME NEW d \in DOMAIN scopeStack
        PROVE  /\ scopeStack[d].loc \in 1 .. nodes'
               /\ ~PlanOwns(todo', scopeStack[d].loc)
               /\ \A e \in DOMAIN scopeStack :
                     scopeStack[d].loc = scopeStack[e].loc => d = e
    BY <1>2, <2>1 DEF ScopesApart
  <2>3. ASSUME NEW l \in WrittenIn(code')
        PROVE  l[1] \in 1 .. nodes' /\ ~PlanOwns(todo', l[1])
    <3>1. CASE l \in WrittenIn(code)
      BY <1>2, <2>1, <3>1 DEF ScopesApart
    <3>2. CASE \E d \in DOMAIN scopeStack : l[1] = scopeStack[d].loc
      BY <2>2, <3>2
    <3> QED
      BY <3>1, <3>2
  <2> QED
    BY <2>2, <2>3 DEF ScopesApart
<1>9. ~(todo' # <<>> /\ Head(todo').do = "function")
  <2>1. \A i \in DOMAIN p : p[i].do # "function"
    BY DEF OuterPlan, Outer, Leafy, ScopeOf
  <2> QED
    BY <1>1, <1>3, <1>4, <2>1, NoFunctionAhead
<1>10. Coming(todo', scopeStack') \intersect WrittenIn(code') = {}
  OBVIOUS
<1>11. /\ LinesApart(todo', scopeStack') /\ ScopedInside(todo', scopeStack')
       /\ DeepAims(todo', Reachable', W)
       /\ \A d \in DOMAIN scopeStack' : \A part \in Parts :
             LabelOf(scopeStack'[d], part) \in Reachable'
       /\ TargetsIn(code') \subseteq Reachable'
  BY <1>2, <1>5, <1>6, <1>7
<1> QED
  BY <1>8, <1>9, <1>10, <1>11 DEF Assembled

\* The conditions of W have their operands in W, and those that statements
\* have are in W.
Understood(W) ==
    /\ \A kind \in {"if", "else_if", "while", "do", "for"} : Conds[kind] \subseteq W
    /\ \A c \in W : c.form \in {"and", "or"} => c.lhs \in W /\ c.rhs \in W

\* A line that writes no label of a scope and jumps only to what is reachable.
Harmless(x) ==
    /\ x.op = "label" => Len(x.label) # 3
    /\ x.op \in {"goto", "branch"} => x.label \in Reachable

\* A step that puts a plan without label lines in the place of the head, and
\* adds such a line or none.
LEMMA PlanAssembled ==
  ASSUME IInv, NEW W, Assembled(W), NEW kind, Do(kind),
         kind \notin {"leave", "function", "label"},
         NEW p, OuterPlan(p), Lines(p) = {}, DeepAims(p, Reachable, W),
         \A i \in DOMAIN p : Scoped(p[i]) => Scoped(Head(todo)),
         Continue(p), UNCHANGED scopeStack, Kept,
         nodes' \in Nat, nodes <= nodes',
         \/ code' = code
         \/ \E x : code' = Append(code, x) /\ Harmless(x)
  PROVE  Assembled(W)'
<1>1. /\ Generating /\ phase = "gen" /\ todo # <<>> /\ Head(todo).do = kind
  BY HeadItem
<1>2. /\ LinesApart(todo, scopeStack)
      /\ Coming(todo, scopeStack) \intersect WrittenIn(code) = {}
      /\ IsSequence(code) /\ CodeApart(code)
      /\ TargetsIn(code) \subseteq Reachable
  BY <1>1 DEF Assembled
<1>3. /\ Continuation(todo) /\ todo' = p \o Tail(todo)
      /\ Head(todo) = todo[1]
  BY <1>1, HeadAndTail DEF IInv, Continuation, Continue
<1>4. Coming(todo', scopeStack) = Coming(todo, scopeStack)
  <2> DEFINE r == p \o Tail(todo)
  <2>1. /\ Coming(r, scopeStack) \subseteq Coming(todo, scopeStack)
        /\ \A l \in Coming(todo, scopeStack) :
              l \in Coming(r, scopeStack) \/ todo[1].do = "label"
    BY <1>1, <1>3, PushComing
  <2> HIDE DEF r
  <2>2. Coming(r, scopeStack) = Coming(todo, scopeStack)
    BY <1>1, <1>3, <2>1
  <2> QED
    BY <1>3, <2>2 DEF r
<1>5. /\ IsSequence(code') /\ CodeApart(code')
      /\ WrittenIn(code') = WrittenIn(code)
      /\ TargetsIn(code') \subseteq Reachable
  <2>1. CASE code' = code
    BY <1>2, <2>1
  <2>2. CASE \E x : code' = Append(code, x) /\ Harmless(x)
    <3>1. PICK x : code' = Append(code, x) /\ Harmless(x)
      BY <2>2
    <3> DEFINE new == Append(code, x)
    <3>2. /\ IsSequence(new) /\ CodeApart(new)
          /\ WrittenIn(new) = WrittenIn(code)
          /\ TargetsIn(new) \subseteq
                TargetsIn(code) \union {l \in {x.label} : x.op \in {"goto", "branch"}}
      BY <1>2, <3>1, AppendOther DEF Harmless
    <3> HIDE DEF new
    <3>3. TargetsIn(new) \subseteq Reachable
      BY <1>2, <3>1, <3>2 DEF Harmless
    <3> QED
      BY <3>1, <3>2, <3>3 DEF new
  <2> QED
    BY <2>1, <2>2
<1>6. /\ WrittenIn(code') \union Coming(todo', scopeStack) = Reachable
      /\ Coming(todo', scopeStack) \intersect WrittenIn(code') = {}
      /\ \A l \in WrittenIn(code') : l \in WrittenIn(code)
  BY <1>2, <1>4, <1>5 DEF Reachable
<1> QED
  BY <1>5, <1>6, Reassembled

\* The largest of some natural numbers below a bound.
LEMMA LargestNumber ==
  ASSUME NEW n \in Nat, NEW T \in SUBSET (1 .. n), T # {}
  PROVE  \E x \in T : \A y \in T : y <= x
<1> DEFINE U == {k \in Nat : n - k \in T}
<1>1. U \in SUBSET Nat /\ U # {}
  <2>1. PICK x \in T : TRUE
    OBVIOUS
  <2>2. n - x \in Nat /\ n - (n - x) = x
    BY <2>1
  <2> QED
    BY <2>1, <2>2
<1> HIDE DEF U
<1>2. PICK k \in U : \A j \in U : <<j, k>> \notin OpToRel(<, Nat)
  BY <1>1, NatLessThanWellFounded, WFMin
<1>3. k \in Nat /\ n - k \in T
  BY DEF U
<1>4. ASSUME NEW y \in T PROVE y <= n - k
  <2>1. n - y \in Nat /\ n - (n - y) = y
    OBVIOUS
  <2>2. n - y \in U
    BY <2>1 DEF U
  <2>3. ~(n - y < k)
    BY <1>2, <1>3, <2>1, <2>2 DEF OpToRel
  <2> QED
    BY <1>3, <2>1, <2>3
<1> QED
  BY <1>3, <1>4

\* In a loop, its labels are those of an open scope.
LEMMA LoopLabelReachable ==
  ASSUME IInv, LoopsAgree, NEW W, Assembled(W), Do("stmt"),
         h.ctx.loop # "none", NEW part \in Parts
  PROVE  LoopLabel(part) \in Reachable
<1> DEFINE loops == {i \in DOMAIN scopeStack : scopeStack[i].type \in LoopType}
           n == Len(scopeStack)
<1>1. /\ Generating /\ phase = "gen" /\ todo # <<>> /\ Head(todo).do = "stmt"
  BY HeadItem
<1>2. OuterAgrees(h, LoopAmong(scopeStack, n))
  BY <1>1, HeadAgrees
<1>3. LoopAmong(scopeStack, n)
  BY <1>1, <1>2 DEF OuterAgrees, SaysLoop, h
<1>4. n \in Nat /\ DOMAIN scopeStack = 1 .. n
  BY DEF IInv
<1>5. loops \in SUBSET (1 .. n) /\ loops # {}
  BY <1>3, <1>4 DEF LoopAmong
<1> DEFINE i == CHOOSE x \in loops : \A y \in loops : y <= x
<1>6. LoopLabel(part) = LabelOf(scopeStack[i], part)
  BY <1>5 DEF LoopLabel
<1> HIDE DEF loops, n
<1>7. i \in loops
  <2>1. \E x \in loops : \A y \in loops : y <= x
    BY <1>4, <1>5, LargestNumber
  <2> QED
    BY <2>1
<1>8. i \in DOMAIN scopeStack
  BY <1>7 DEF loops
<1> HIDE DEF i
<1> QED
  BY <1>1, <1>6, <1>8 DEF Assembled

\* A plan that asks for nothing writes no label line.
LEMMA UnscopedWritesNone ==
  ASSUME NEW p, Unscoped(p)
  PROVE  Lines(p) = {} /\ \A x : \A i \in DOMAIN p : Scoped(p[i]) => Scoped(x)
BY DEF Unscoped, Lines, Scoped

\* The visits to statements and blocks.
LEMMA VisitsAssemble ==
  ASSUME IInv, Numbered, LoopsAgree, NEW W, Understood(W), Assembled(W),
         \/ VisitSimple \/ VisitReturn \/ VisitBreak \/ VisitContinue
         \/ VisitIf \/ VisitWhile \/ VisitDo \/ VisitFor \/ VisitBlock
  PROVE  Assembled(W)'
<1> USE DEF lmVars
<1>0. nodes \in Nat /\ nodes <= nodes /\ Kept
  BY VisitsAreNumbered DEF IInv
<1>1. UNCHANGED scopeStack /\ (Do("stmt") \/ Do("block"))
  BY DEF VisitSimple, VisitReturn, VisitBreak, VisitContinue, VisitIf,
         VisitWhile, VisitDo, VisitFor, VisitBlock
<1>2. PICK kind \in {"stmt", "block"} : Do(kind)
  BY <1>1
<1>3. ASSUME NEW p, OuterPlan(p), Unscoped(p), DeepAims(p, Reachable, W),
             Continue(p), nodes' \in Nat, nodes <= nodes',
             \/ code' = code
             \/ \E x : code' = Append(code, x) /\ Harmless(x)
      PROVE  Assembled(W)'
  <2>1. Lines(p) = {} /\ \A i \in DOMAIN p : Scoped(p[i]) => Scoped(Head(todo))
    BY <1>3, UnscopedWritesNone
  <2> QED
    BY <1>0, <1>1, <1>2, <1>3, <2>1, PlanAssembled
<1>4. h.node \in Nat
  BY <1>2, HeadItem DEF h
<1>6. CASE VisitSimple \/ VisitReturn \/ VisitBreak \/ VisitContinue
  <2> DEFINE p == <<>>
  <2>1. Continue(p) /\ nodes' = nodes
    BY <1>6 DEF VisitSimple, VisitReturn, VisitBreak, VisitContinue
  <2>2. OuterPlan(p) /\ DeepAims(p, Reachable, W) /\ Unscoped(p)
    BY ShortPlans, PlanInclusion, EndOfScopeAims, Singleton DEF Unscoped
  <2>3. \E x : code' = Append(code, x) /\ Harmless(x)
    <3>1. CASE VisitReturn
      <4> DEFINE x == PointInstr("ret", StartOf(h.node))
      <4>1. code' = Append(code, x) /\ Harmless(x)
        BY <3>1 DEF VisitReturn, Emit, PointInstr, Harmless
      <4> QED
        BY <4>1
    <3>2. CASE VisitSimple
      <4> DEFINE x == PointInstr("act", StartOf(h.node))
      <4>1. code' = Append(code, x) /\ Harmless(x)
        BY <3>2 DEF VisitSimple, Emit, PointInstr, Harmless
      <4> QED
        BY <4>1
    <3>3. CASE VisitBreak \/ VisitContinue
      <4>1. h.ctx.loop # "none" /\ Do("stmt")
        BY <3>3, BoundsAssumption DEF VisitBreak, VisitContinue, LoopType
      <4>2. PICK part \in Parts : code' = Append(code, GotoInstr(LoopLabel(part)))
        BY <3>3 DEF VisitBreak, VisitContinue, Emit, Parts
      <4>3. LoopLabel(part) \in Reachable
        BY <4>1, LoopLabelReachable
      <4>4. Harmless(GotoInstr(LoopLabel(part)))
        BY <4>3 DEF Harmless, GotoInstr
      <4> QED
        BY <4>2, <4>4
    <3> QED
      BY <1>6, <3>1, <3>2, <3>3
  <2> HIDE DEF p
  <2> QED
    BY <1>0, <1>3, <2>1, <2>2, <2>3
<1>7. CASE VisitIf
  <2>1. PICK m \in 0 .. MaxElseIf, c \in Conds["if"], hasElse \in BOOLEAN :
        \E cs \in [1 .. m -> Conds["else_if"]] :
           /\ nodes' = nodes + 2 * m + (IF hasElse THEN 2 ELSE 1)
           /\ Continue(IfPlan(h, <<c>> \o cs, hasElse))
    BY <1>7 DEF VisitIf
  <2>2. PICK cs \in [1 .. m -> Conds["else_if"]] :
           /\ nodes' = nodes + 2 * m + (IF hasElse THEN 2 ELSE 1)
           /\ Continue(IfPlan(h, <<c>> \o cs, hasElse))
    BY <2>1
  <2> DEFINE all == <<c>> \o cs
             p   == IfPlan(h, all, hasElse)
  <2>3. Len(all) \in Nat \ {0} /\ \A i \in 1 .. Len(all) : all[i] \in W
    <3>1. cs \in Seq(W) /\ c \in W
      <4>1. cs \in Seq(Conds["else_if"]) /\ Conds["else_if"] \subseteq W
        BY DEF Understood
      <4> QED
        BY <4>1 DEF Understood
    <3>2. all \in Seq(W) /\ Len(all) = 1 + Len(cs)
      BY <3>1
    <3> HIDE DEF all
    <3> QED
      BY <3>1, <3>2
  <2>4. nodes' \in Nat /\ nodes <= nodes'
    <3>1. CASE hasElse
      BY <1>0, <2>2, <3>1
    <3>2. CASE ~hasElse
      BY <1>0, <2>2, <3>2
    <3> QED
      BY <3>1, <3>2
  <2>5. Continue(p) /\ code' = code
    BY <1>7, <2>2 DEF VisitIf
  <2> HIDE DEF all
  <2>6. OuterPlan(p) /\ DeepAims(p, Reachable, W) /\ Unscoped(p)
    BY <1>0, <1>4, <2>3, IfPlanIsOuter, IfPlanAims
  <2> HIDE DEF p
  <2> QED
    BY <1>3, <2>4, <2>5, <2>6
<1>8. CASE VisitWhile \/ VisitDo \/ VisitFor
  <2>1. nodes' = nodes + 1 /\ code' = code
    BY <1>8 DEF VisitWhile, VisitDo, VisitFor
  <2>2. nodes' \in Nat /\ nodes <= nodes'
    BY <1>0, <2>1
  <2>3. PICK p : /\ Continue(p) /\ OuterPlan(p)
                 /\ DeepAims(p, Reachable, W) /\ Unscoped(p)
    <3>1. CASE VisitWhile
      <4>1. PICK c \in Conds["while"] : Continue(WhilePlan(h, nodes', c))
        BY <3>1 DEF VisitWhile
      <4>2. c \in W
        BY DEF Understood
      <4> QED
        BY <1>4, <2>2, <4>1, <4>2, WhilePlanIsOuter, WhilePlanAims
    <3>2. CASE VisitDo
      <4>1. PICK c \in Conds["do"] : Continue(DoPlan(h, nodes', c))
        BY <3>2 DEF VisitDo
      <4>2. c \in W
        BY DEF Understood
      <4> QED
        BY <1>4, <2>2, <4>1, <4>2, DoPlanIsOuter, DoPlanAims
    <3>3. CASE VisitFor
      <4>1. PICK c \in Conds["for"], full \in BOOLEAN :
               Continue(ForPlan(h, nodes', c, full))
        BY <3>3 DEF VisitFor
      <4>2. c \in W
        BY DEF Understood
      <4> QED
        BY <1>4, <2>2, <4>1, <4>2, ForPlanIsOuter, ForPlanAims
    <3> QED
      BY <1>8, <3>1, <3>2, <3>3
  <2> QED
    BY <1>3, <2>1, <2>2, <2>3
<1>9. CASE VisitBlock
  <2>1. PICK k \in 0 .. MaxBlock :
           /\ nodes' = nodes + k
           /\ Continue(BlockPlan(nodes + 1, k, h.next, h.ctx))
    BY <1>9 DEF VisitBlock
  <2>2. nodes' \in Nat /\ k \in Nat /\ nodes + 1 \in Nat \ {0} /\ nodes <= nodes'
    BY <1>0, <2>1
  <2> DEFINE p == BlockPlan(nodes + 1, k, h.next, h.ctx)
  <2>3. FlatAims(p, Reachable, W) /\ Unscoped(p) /\ LeafPlan(p)
    BY <2>2, BlockPlanAims, BlockPlanIsLeafy
  <2>4. Continue(p) /\ code' = code
    BY <1>9, <2>1 DEF VisitBlock
  <2> HIDE DEF p
  <2>5. OuterPlan(p) /\ DeepAims(p, Reachable, W)
    BY <2>3, PlanInclusion, AimsIn
  <2> QED
    BY <1>3, <2>2, <2>3, <2>4, <2>5
<1> QED
  BY <1>6, <1>7, <1>8, <1>9

\* What is known of the head of the continuation.
LEMMA HeadAims ==
  ASSUME IInv, NEW W, Assembled(W), NEW kind, Do(kind)
  PROVE  /\ kind = "cond" => h.cond \in W
         /\ kind \in {"label", "goto", "branch"} =>
               /\ scopeStack # <<>>
               /\ Len(scopeStack) \in DOMAIN scopeStack
         /\ kind \in {"goto", "branch"} => Resolve(h.ref) \in Reachable
<1>1. /\ Generating /\ phase = "gen" /\ todo # <<>> /\ h.do = kind
  BY HeadItem DEF h
<1>2. /\ ScopedInside(todo, scopeStack)
      /\ DeepAims(todo, Reachable, W)
      /\ \A d \in DOMAIN scopeStack : \A part \in Parts :
            LabelOf(scopeStack[d], part) \in Reachable
  BY <1>1 DEF Assembled
<1>3. h = todo[1] /\ 1 \in DOMAIN todo
  BY <1>1, <1>2, HeadAndTail DEF DeepAims, h
<1>4. Aims(h, Reachable, W)
  BY <1>2, <1>3 DEF DeepAims, OuterAims
<1>5. ASSUME kind \in {"label", "goto", "branch"}
      PROVE  scopeStack # <<>> /\ Len(scopeStack) \in DOMAIN scopeStack
  <2>1. Scoped(todo[1])
    BY <1>1, <1>3, <1>5 DEF Scoped
  <2>2. PICK d \in DOMAIN scopeStack : TRUE
    BY <1>2, <1>3, <2>1 DEF ScopedInside
  <2> QED
    BY <2>2 DEF IInv
<1>6. ASSUME kind \in {"goto", "branch"} PROVE Resolve(h.ref) \in Reachable
  <2>1. CASE h.ref.saved
    BY <1>1, <1>4, <1>6, <2>1 DEF Aims, Resolve
  <2>2. CASE ~h.ref.saved
    <3>1. h.ref.part \in Parts
      BY <1>1, <1>4, <1>6, <2>2 DEF Aims
    <3>2. Resolve(h.ref) = LabelOf(scopeStack[Len(scopeStack)], h.ref.part)
      BY <1>5, <1>6, <2>2 DEF Resolve, ScopeLabel, Innermost
    <3>3. Len(scopeStack) \in DOMAIN scopeStack
      BY <1>5, <1>6
    <3> QED
      BY <1>2, <3>1, <3>2, <3>3
  <2> QED
    BY <2>1, <2>2
<1> QED
  BY <1>1, <1>4, <1>5, <1>6 DEF Aims

\* The visits to conditions, and the items that write a line that is not that
\* of a scope's label.
LEMMA LinesAssemble ==
  ASSUME IInv, Numbered, NEW W, Understood(W), Assembled(W),
         \/ VisitAtom \/ VisitLogical \/ SkipCond
         \/ EmitGoto \/ EmitBranch \/ EmitLine \/ EmitAct \/ EndFunction
         \/ AskLabel \/ NameLabel
  PROVE  Assembled(W)'
<1> USE DEF lmVars
<1>0. nodes \in Nat /\ nodes <= nodes /\ Kept
  BY LinesAreNumbered, LabelsAreNumbered DEF IInv
<1>1. UNCHANGED <<scopeStack, nodes>>
  BY DEF VisitAtom, VisitLogical, SkipCond, EmitGoto, EmitBranch, EmitLine,
         EmitAct, EndFunction, AskLabel, NameLabel, Named, Record,
         GenerateLabel, GenerateLineLabel
<1> DEFINE none == <<>>
<1>2. /\ OuterPlan(none) /\ DeepAims(none, Reachable, W) /\ Lines(none) = {}
      /\ \A i \in DOMAIN none : Scoped(none[i]) => Scoped(Head(todo))
  BY ShortPlans, PlanInclusion, EndOfScopeAims, Singleton DEF Lines
<1> HIDE DEF none
<1>3. ASSUME NEW kind, Do(kind), kind \notin {"leave", "function", "label"},
             Continue(none),
             \/ code' = code
             \/ \E x : code' = Append(code, x) /\ Harmless(x)
      PROVE  Assembled(W)'
  BY <1>0, <1>1, <1>2, <1>3, PlanAssembled
<1>4. CASE VisitAtom \/ EmitAct
  <2>1. PICK x : code' = Append(code, x) /\ Harmless(x)
    <3>1. PICK op \in {"eval", "act"} : code' = Append(code, PointInstr(op, h.point))
      BY <1>4 DEF VisitAtom, EmitAct, Emit
    <3>2. Harmless(PointInstr(op, h.point))
      BY DEF Harmless, PointInstr
    <3> QED
      BY <3>1, <3>2
  <2>2. Continue(none) /\ \E kind \in {"cond", "act"} : Do(kind)
    BY <1>4 DEF VisitAtom, EmitAct, none
  <2> QED
    BY <1>3, <2>1, <2>2
<1>5. CASE SkipCond \/ AskLabel \/ NameLabel
  <2>1. /\ code' = code /\ Continue(none)
        /\ \E kind \in {"cond", "ask", "newlabel"} : Do(kind)
    BY <1>5 DEF SkipCond, AskLabel, NameLabel, none
  <2> QED
    BY <1>3, <2>1
<1>6. CASE EndFunction
  <2>1. Continue(none) /\ Do("epilogue")
    BY <1>6 DEF EndFunction, none
  <2>2. code' = code \/ code' = Append(code, PointInstr("leave", Halt))
    BY <1>6 DEF EndFunction
  <2>3. Harmless(PointInstr("leave", Halt))
    BY DEF Harmless, PointInstr
  <2> QED
    BY <1>3, <2>1, <2>2, <2>3
<1>7. CASE EmitLine
  <2>1. /\ Continue(none) /\ Do("line")
        /\ code' = Append(code, LabelInstr(LineLabel(labelCount)))
    BY <1>7 DEF EmitLine, Emit, none
  <2>2. Harmless(LabelInstr(LineLabel(labelCount)))
    <3>1. Len(LineLabel(labelCount)) = 2
      BY LabelLengths
    <3> QED
      BY <3>1 DEF Harmless, LabelInstr
  <2> QED
    BY <1>3, <2>1, <2>2
<1>8. CASE EmitGoto
  <2>1. /\ Continue(none) /\ Do("goto")
        /\ code' = Append(code, GotoInstr(Resolve(h.ref)))
    BY <1>8 DEF EmitGoto, Emit, none
  <2>2. Resolve(h.ref) \in Reachable
    BY <2>1, HeadAims
  <2>3. Harmless(GotoInstr(Resolve(h.ref)))
    BY <2>2 DEF Harmless, GotoInstr
  <2> QED
    BY <1>3, <2>1, <2>3
<1>9. CASE EmitBranch
  <2>1. /\ Continue(none) /\ Do("branch")
        /\ \E on : code' = Append(code, BranchInstr(on, Resolve(h.ref)))
    BY <1>9 DEF EmitBranch, Emit, none
  <2>2. Resolve(h.ref) \in Reachable
    BY <2>1, HeadAims
  <2>3. \A on : Harmless(BranchInstr(on, Resolve(h.ref)))
    BY <2>2 DEF Harmless, BranchInstr
  <2> QED
    BY <1>3, <2>1, <2>3
<1>10. CASE VisitLogical
  <2> DEFINE l == Operand(h.point, "l")
             r == Operand(h.point, "r")
             left(yes, no) == Cond(h.cond.lhs, l, yes, no)
             right == Cond(h.cond.rhs, r, h.yes, h.no)
             and == <<left(r, h.no), Branch("unless", Here("exit")), right>>
             or  == <<left(h.yes, r), Branch("if", Here("entry")), right>>
  <2>1. /\ Do("cond") /\ code' = code /\ h.cond.form \in {"and", "or"}
        /\ Continue(IF h.cond.form = "and" THEN and ELSE or)
    BY <1>10 DEF VisitLogical
  <2>2. h.cond.lhs \in W /\ h.cond.rhs \in W
    BY <2>1, HeadAims DEF Understood
  <2>3. \A yes, no : left(yes, no).do = "cond" /\ left(yes, no).cond \in W
    BY <2>2 DEF Cond
  <2>4. right.do = "cond" /\ right.cond \in W
    BY <2>2 DEF Cond
  <2>5. "entry" \in Parts /\ "exit" \in Parts
    BY DEF Parts
  <2> HIDE DEF left, right, l, r
  <2>6. /\ OuterPlan(and) /\ DeepAims(and, Reachable, W) /\ Lines(and) = {}
        /\ OuterPlan(or) /\ DeepAims(or, Reachable, W) /\ Lines(or) = {}
    BY <2>3, <2>4, <2>5, LogicalPlanAims
  <2> HIDE DEF and, or
  <2>7. PICK p : /\ Continue(p) /\ OuterPlan(p)
                 /\ DeepAims(p, Reachable, W) /\ Lines(p) = {}
    BY <2>1, <2>6
  <2>8. Scoped(Head(todo))
    BY <2>1, HeadItem DEF Scoped
  <2> QED
    BY <1>0, <1>1, <2>1, <2>7, <2>8, PlanAssembled
<1> QED
  BY <1>4, <1>5, <1>6, <1>7, <1>8, <1>9, <1>10

\* The line of a label that was to come: it is written, once.
LEMMA LabelAssembles ==
  ASSUME IInv, Numbered, NEW W, Assembled(W), EmitLabel
  PROVE  Assembled(W)'
<1> USE DEF lmVars
<1> DEFINE l == Resolve(h.ref)
           st == scopeStack
           n == Len(scopeStack)
           none == <<>>
<1>0. nodes \in Nat /\ nodes <= nodes /\ Kept
  BY LinesAreNumbered DEF IInv
<1>1. /\ UNCHANGED <<scopeStack, nodes>> /\ Do("label")
      /\ Continue(none) /\ code' = Append(code, LabelInstr(l))
  BY DEF EmitLabel, Named, Record, Emit
<1>2. /\ Generating /\ phase = "gen" /\ todo # <<>> /\ Head(todo).do = "label"
  BY <1>1, HeadItem
<1>3. /\ ScopesApart /\ LinesApart(todo, st)
      /\ Coming(todo, st) \intersect WrittenIn(code) = {}
      /\ IsSequence(code) /\ CodeApart(code)
      /\ TargetsIn(code) \subseteq Reachable
  BY <1>2 DEF Assembled
<1>4. /\ Continuation(todo) /\ Matches(todo, n) /\ n \in Nat
      /\ DOMAIN st = 1 .. n /\ n \in DOMAIN st /\ st # <<>>
  BY <1>1, <1>2, HeadAims DEF IInv
<1>5. h = todo[1] /\ h = Head(todo) /\ 1 \in Lines(todo) /\ todo' = none \o Tail(todo)
  <2>1. Head(todo) = todo[1] /\ 1 \in DOMAIN todo
    BY <1>2, <1>4, HeadAndTail DEF Continuation
  <2> QED
    BY <1>1, <1>2, <2>1 DEF h, Lines, Continue
<1>6. \A d \in DOMAIN st : AtLevel(todo, 1, d) <=> d = n
  <2>1. \A d \in 1 .. n : d \in 0 .. n
    OBVIOUS
  <2> QED
    BY <1>2, <1>4, <2>1, HeadLevelOnly
<1>7. l = Wrote(todo[1], st[n])
  BY <1>4, <1>5 DEF Resolve, ScopeLabel, Wrote, Innermost
<1> HIDE DEF l
<1>8. l \in Coming(todo, st) /\ IsLabelOf(l, st[n])
  BY <1>3, <1>4, <1>5, <1>6, <1>7, InComing DEF LinesApart
<1>9. Len(l) = 3 /\ l[1] = st[n].loc /\ l \notin WrittenIn(code)
  BY <1>3, <1>8, LabelLengths
<1>10. /\ OuterPlan(none) /\ DeepAims(none, Reachable, W) /\ Lines(none) = {}
       /\ \A i \in DOMAIN none : Scoped(none[i]) => Scoped(Head(todo))
  BY ShortPlans, PlanInclusion, EndOfScopeAims, Singleton DEF Lines
<1>a. DOMAIN none = {}
  BY Singleton
<1> HIDE DEF none
<1> DEFINE r == none \o Tail(todo)
<1>11. /\ Coming(r, st) \subseteq Coming(todo, st)
       /\ \A m \in Coming(todo, st) : m \in Coming(r, st) \/ m = l
  <2>1. /\ Coming(r, st) \subseteq Coming(todo, st)
        /\ \A m \in Coming(todo, st) :
              \/ m \in Coming(r, st)
              \/ \E d \in DOMAIN st : AtLevel(todo, 1, d) /\ m = Wrote(todo[1], st[d])
    BY <1>2, <1>4, <1>10, PushComing
  <2> HIDE DEF r
  <2> QED
    BY <1>6, <1>7, <2>1
<1>12. l \notin Coming(r, st)
  <2>1. /\ IsSequence(todo) /\ IsSequence(none)
    BY <1>4, <1>10 DEF Continuation, OuterPlan
  <2>2. ASSUME NEW i \in DOMAIN r
        PROVE  \E j \in DOMAIN todo :
                  /\ j # 1 /\ r[i] = todo[j]
                  /\ \A d : AtLevel(r, i, d) <=> AtLevel(todo, j, d)
    <3>2. \E j \in DOMAIN todo : j # 1 /\ i = j + Len(none) - 1 /\ r[i] = todo[j]
      <4>1. \/ i \in DOMAIN none /\ r[i] = none[i]
            \/ \E j \in DOMAIN todo : j # 1 /\ i = j + Len(none) - 1 /\ r[i] = todo[j]
        BY <1>2, <2>1, SpliceIndices
      <4> HIDE DEF r
      <4> QED
        BY <1>a, <4>1
    <3>3. \A j \in DOMAIN todo : j # 1 =>
             \A d : AtLevel(r, j + Len(none) - 1, d) <=> AtLevel(todo, j, d)
      BY <1>2, <1>4, <1>10, PushLevels
    <3> QED
      BY <3>2, <3>3
  <2> HIDE DEF r
  <2>3. ASSUME l \in Coming(r, st) PROVE FALSE
    <3>1. PICK i \in Lines(r), d \in DOMAIN st : AtLevel(r, i, d) /\ l = Wrote(r[i], st[d])
      BY <2>3, InComing
    <3>2. PICK j \in DOMAIN todo : j # 1 /\ r[i] = todo[j] /\ AtLevel(todo, j, d)
      BY <2>2, <3>1 DEF Lines
    <3>3. j \in Lines(todo)
      BY <3>1, <3>2 DEF Lines
    <3>4. l = Wrote(todo[j], st[d]) /\ IsLabelOf(l, st[d])
      BY <1>3, <3>1, <3>2, <3>3 DEF LinesApart
    <3>5. st[d].loc = st[n].loc
      BY <1>9, <3>4, LabelLengths
    <3>6. d = n
      BY <1>3, <1>4, <3>5 DEF ScopesApart
    <3>7. j = 1
      BY <1>3, <1>4, <1>5, <1>6, <1>7, <3>2, <3>3, <3>4, <3>6 DEF LinesApart
    <3> QED
      BY <3>2, <3>7
  <2> QED
    BY <2>3
<1>13. /\ IsSequence(code') /\ CodeApart(code')
       /\ WrittenIn(code') = WrittenIn(code) \union {l}
       /\ TargetsIn(code') = TargetsIn(code)
  <2> DEFINE new == Append(code, LabelInstr(l))
  <2>1. /\ IsSequence(new) /\ CodeApart(new)
        /\ WrittenIn(new) = WrittenIn(code) \union {l}
        /\ TargetsIn(new) = TargetsIn(code)
    BY <1>3, <1>9, AppendLine
  <2>2. code' = new
    BY <1>1 DEF l
  <2> HIDE DEF new
  <2> QED
    BY <2>1, <2>2
<1>14. todo' = r
  BY <1>5
<1> HIDE DEF r
<1>15. /\ WrittenIn(code') \union Coming(todo', st) = Reachable
       /\ Coming(todo', st) \intersect WrittenIn(code') = {}
       /\ TargetsIn(code') \subseteq Reachable
  BY <1>3, <1>8, <1>11, <1>12, <1>13, <1>14 DEF Reachable
<1>16. \A m \in WrittenIn(code') :
          m \in WrittenIn(code) \/ \E d \in DOMAIN scopeStack : m[1] = scopeStack[d].loc
  BY <1>4, <1>9, <1>13
<1> QED
  BY <1>0, <1>1, <1>10, <1>13, <1>15, <1>16, Reassembled

\* Entering a scope: its labels, which no earlier scope has, are to come.
LEMMA EnteringAssembles ==
  ASSUME IInv, Numbered, NEW W, Assembled(W), OpenScope
  PROVE  Assembled(W)'
<1> DEFINE st == scopeStack
           n == Len(scopeStack)
           new == scopeStack'
           x == h
           p == x.plan
           o == ScopeAt(x)
           A == Written(p, o)
           q == p \o <<Leave(n + 1)>>
           r == q \o Tail(todo)
<1>0. /\ Kept /\ PlanOwns(todo, x.node) /\ ~PlanOwns(todo', x.node)
  BY EnteredIsNumbered DEF h
<1>1. /\ Do("scope") /\ todo' = r /\ code' = code /\ nodes' = nodes
      /\ new = Append(st, [loc |-> x.node, type |-> x.type])
  BY DEF OpenScope, EnterScope, Continue
<1>2. /\ Generating /\ phase = "gen" /\ todo # <<>> /\ Head(todo).do = "scope"
      /\ InnerPlan(p)
  BY <1>1, HeadItem DEF h
<1>3. /\ ScopesApart
      /\ LinesApart(todo, st)
      /\ Coming(todo, st) \intersect WrittenIn(code) = {}
      /\ ScopedInside(todo, st)
      /\ IsSequence(code) /\ CodeApart(code)
      /\ DeepAims(todo, Reachable, W)
      /\ \A d \in DOMAIN st : \A part \in Parts : LabelOf(st[d], part) \in Reachable
      /\ TargetsIn(code) \subseteq Reachable
  BY <1>2 DEF Assembled
<1>4. /\ Continuation(todo) /\ Matches(todo, n) /\ n \in Nat
      /\ DOMAIN st = 1 .. n /\ IsSequence(todo)
      /\ st \in Seq([loc : Nat, type : ScopedType])
  BY <1>2 DEF IInv, Continuation
<1>5. /\ DOMAIN new = 1 .. n + 1 /\ new[n + 1] = o
      /\ \A d \in 1 .. n : new[d] = st[d]
  <2>1. o = [loc |-> x.node, type |-> x.type]
    BY DEF ScopeAt
  <2>2. IsSequence(st)
    BY <1>4, AnySequence
  <2> HIDE DEF o, x, n
  <2> QED
    BY <1>1, <1>4, <2>1, <2>2, Appended DEF n
<1>6. x = todo[1] /\ 1 \in DOMAIN todo /\ todo[1].do = "scope"
  BY <1>2, <1>4, HeadAndTail DEF h
<1>7. Whole(p, o) /\ NestedAims(p, Reachable \union A, W)
  <2>1. OuterAims(x, Reachable, W)
    BY <1>3, <1>6 DEF DeepAims
  <2> QED
    BY <1>6, <2>1 DEF OuterAims
<1>8. x.node \in 1 .. nodes
  <2>1. DeepSound(todo, 1 .. nodes) /\ Owns(todo[1], todo[1].node)
    BY <1>2, <1>6 DEF Numbered, Owns
  <2> QED
    BY <1>6, <2>1 DEF DeepSound, Apart
<1>9. o.loc = x.node
  BY DEF ScopeAt
<1>10. OuterPlan(p) /\ IsSequence(p) /\ Head(todo) = todo[1]
  BY <1>2, <1>4, PlanInclusion, HeadAndTail DEF InnerPlan
<1>11. ~Scoped(todo[1]) /\ todo[1].do # "label" /\ todo[1].do # "leave"
  BY <1>6 DEF Scoped
<1>b. Head(todo).do # "leave" /\ Head(todo).do # "label"
  BY <1>2
<1> HIDE DEF x, o, p, new, A, n, st
<1>12. /\ Coming(r, new) = Coming(todo, st) \union A
       /\ LinesApart(r, new) /\ ScopedInside(r, new)
  <2>1. /\ Coming(r, new) = Coming(todo, st) \union Written(p, o)
        /\ LinesApart(todo, st) => LinesApart(r, new)
        /\ ScopedInside(todo, st) => ScopedInside(r, new)
    BY <1>2, <1>4, <1>5, <1>7, <1>10, <1>11, <1>b, ScopeComing
  <2> QED
    BY <1>3, <2>1 DEF A
<1>13. /\ IsSequence(q)
       /\ \A i \in DOMAIN q : (i \in DOMAIN p /\ q[i] = p[i]) \/ q[i] = Leave(n + 1)
  <2> DEFINE e == <<Leave(n + 1)>>
  <2>1. IsSequence(e) /\ Len(e) = 1 /\ e[1] = Leave(n + 1) /\ DOMAIN e = 1 .. 1
    BY Singleton, SequenceLength
  <2> HIDE DEF e
  <2>2. /\ IsSequence(p \o e) /\ Len(p) \in Nat /\ DOMAIN p = 1 .. Len(p)
        /\ DOMAIN (p \o e) = 1 .. Len(p) + Len(e)
        /\ \A i \in 1 .. Len(p) + Len(e) :
              (p \o e)[i] = IF i <= Len(p) THEN p[i] ELSE e[i - Len(p)]
    BY <1>10, <2>1, Concatenation, SequenceLength
  <2>3. ASSUME NEW i \in DOMAIN (p \o e)
        PROVE  (i \in DOMAIN p /\ (p \o e)[i] = p[i]) \/ (p \o e)[i] = Leave(n + 1)
    <3>1. CASE i <= Len(p)
      BY <2>1, <2>2, <3>1
    <3>2. CASE ~(i <= Len(p))
      <4>1. i - Len(p) = 1 /\ i \in 1 .. Len(p) + Len(e)
        BY <2>1, <2>2, <3>2
      <4> QED
        BY <2>1, <2>2, <3>2, <4>1
    <3> QED
      BY <3>1, <3>2
  <2> QED
    BY <2>2, <2>3 DEF e
<1>14. DeepAims(q, Reachable \union A, W)
  <2>1. DeepAims(p, Reachable \union A, W)
    BY <1>7, AimsIn
  <2> QED
    BY <2>1, EndOfScopeAims, JoinedAims
<1>15. ~(r # <<>> /\ Head(r).do = "function")
  <2>1. \A i \in DOMAIN q : q[i].do # "function"
    BY <1>10, <1>13 DEF Leave, OuterPlan, Outer, Leafy, ScopeOf
  <2> HIDE DEF q
  <2> QED
    BY <1>2, <1>4, <1>13, <2>1, NoFunctionAhead
<1> HIDE DEF q
<1>16. DeepAims(r, Reachable \union A, W)
  BY <1>2, <1>3, <1>14, PushAims
<1> HIDE DEF r
<1>17. Reachable' = Reachable \union A
  BY <1>1, <1>12 DEF Reachable, new, st
<1>18. Coming(r, new) \intersect WrittenIn(code) = {}
  <2>1. ASSUME NEW l \in A, l \in WrittenIn(code) PROVE FALSE
    <3>1. l[1] = x.node
      BY <1>7, <1>9, LabelLengths DEF Whole, A
    <3>2. ~PlanOwns(todo, l[1])
      BY <1>3, <2>1 DEF ScopesApart
    <3> QED
      BY <1>0, <3>1, <3>2 DEF x
  <2> QED
    BY <1>3, <1>12, <2>1
<1>19. ScopesApart'
  <2>1. \A m \in 1 .. nodes : PlanOwns(todo', m) => PlanOwns(todo, m)
    BY <1>0 DEF Kept
  <2>2. \A d \in 1 .. n : /\ st[d].loc \in 1 .. nodes
                          /\ ~PlanOwns(todo, st[d].loc)
                          /\ \A e \in 1 .. n : st[d].loc = st[e].loc => d = e
    BY <1>3, <1>4 DEF ScopesApart, st
  <2>3. PlanOwns(todo, x.node) /\ ~PlanOwns(todo', x.node)
    BY <1>0 DEF x
  <2>4. \A d \in 1 .. n + 1 : d \in 1 .. n \/ d = n + 1
    BY <1>4
  <2>5. \A d \in DOMAIN new : /\ new[d].loc \in 1 .. nodes
                              /\ ~PlanOwns(todo', new[d].loc)
    BY <1>5, <1>8, <1>9, <2>1, <2>2, <2>3, <2>4
  <2>6. \A d, e \in DOMAIN new : new[d].loc = new[e].loc => d = e
    BY <1>5, <1>9, <2>2, <2>3, <2>4
  <2>7. \A l \in WrittenIn(code) : l[1] \in 1 .. nodes /\ ~PlanOwns(todo', l[1])
    BY <1>3, <2>1 DEF ScopesApart
  <2> QED
    BY <1>1, <2>5, <2>6, <2>7 DEF ScopesApart, new
<1>20. \A d \in DOMAIN new : \A part \in Parts :
          LabelOf(new[d], part) \in Reachable \union A
  <2>1. \A d \in 1 .. n + 1 : d \in 1 .. n \/ d = n + 1
    BY <1>4
  <2> QED
    BY <1>3, <1>4, <1>5, <1>7, <2>1 DEF Whole, A
<1>21. TargetsIn(code) \subseteq Reachable \union A
  BY <1>3
<1> QED
  BY <1>1, <1>3, <1>12, <1>15, <1>16, <1>17, <1>18, <1>19, <1>20, <1>21
  DEF Assembled, new, st

\* Leaving a scope, none of whose labels is to come any more.
LEMMA LeavingAssembles ==
  ASSUME IInv, Numbered, NEW W, Assembled(W), CloseScope
  PROVE  Assembled(W)'
<1> DEFINE st == scopeStack
           n == Len(scopeStack)
           new == scopeStack'
           none == <<>>
           r == none \o Tail(todo)
<1>0. Kept
  BY ScopesAreNumbered
<1>1. /\ Do("leave") /\ todo' = r /\ code' = code /\ nodes' = nodes
      /\ new = SubSeq(st, 1, n - 1)
  BY DEF CloseScope, LeaveScope, Continue
<1>2. /\ Generating /\ phase = "gen" /\ todo # <<>> /\ Head(todo).do = "leave"
  BY <1>1, HeadItem
<1>3. /\ ScopesApart
      /\ LinesApart(todo, st)
      /\ Coming(todo, st) \intersect WrittenIn(code) = {}
      /\ ScopedInside(todo, st)
      /\ IsSequence(code) /\ CodeApart(code)
      /\ DeepAims(todo, Reachable, W)
      /\ \A d \in DOMAIN st : \A part \in Parts : LabelOf(st[d], part) \in Reachable
      /\ TargetsIn(code) \subseteq Reachable
  BY <1>2 DEF Assembled
<1>4. /\ Continuation(todo) /\ Matches(todo, n) /\ n \in Nat
      /\ DOMAIN st = 1 .. n /\ IsSequence(todo)
      /\ st \in Seq([loc : Nat, type : ScopedType])
  BY <1>2 DEF IInv, Continuation
<1>5. n # 0
  BY <1>2, <1>4, PopLevels
<1>6. /\ DOMAIN new = 1 .. n - 1 /\ \A d \in 1 .. n - 1 : new[d] = st[d]
  <2>1. n - 1 \in Nat /\ n - 1 <= n
    BY <1>4, <1>5
  <2> QED
    BY <1>1, <1>4, <2>1
<1>7. /\ Coming(r, new) = Coming(todo, st)
      /\ LinesApart(r, new) /\ ScopedInside(r, new)
  BY <1>2, <1>3, <1>4, <1>6, PopComing
<1>8. DeepAims(none, Reachable, W) /\ IsSequence(none) /\ DOMAIN none = {}
  BY EndOfScopeAims, Singleton
<1> HIDE DEF none
<1>9. DeepAims(r, Reachable, W)
  BY <1>2, <1>3, <1>8, PushAims
<1>10. ~(r # <<>> /\ Head(r).do = "function")
  BY <1>2, <1>4, <1>8, NoFunctionAhead
<1> HIDE DEF r, new
<1>11. Reachable' = Reachable
  BY <1>1, <1>7 DEF Reachable, new
<1>12. \A d \in 1 .. n - 1 : d \in 1 .. n
  BY <1>4
<1>13. ScopesApart'
  <2>1. \A m \in 1 .. nodes : PlanOwns(todo', m) => PlanOwns(todo, m)
    BY <1>0 DEF Kept
  <2>2. \A d \in DOMAIN new : /\ new[d].loc \in 1 .. nodes
                              /\ ~PlanOwns(todo', new[d].loc)
    BY <1>3, <1>4, <1>6, <1>12, <2>1 DEF ScopesApart
  <2>3. \A d, e \in DOMAIN new : new[d].loc = new[e].loc => d = e
    BY <1>3, <1>4, <1>6, <1>12 DEF ScopesApart
  <2>4. \A l \in WrittenIn(code) : l[1] \in 1 .. nodes /\ ~PlanOwns(todo', l[1])
    BY <1>3, <2>1 DEF ScopesApart
  <2> QED
    BY <1>1, <2>2, <2>3, <2>4 DEF ScopesApart, new
<1>14. \A d \in DOMAIN new : \A part \in Parts : LabelOf(new[d], part) \in Reachable
  BY <1>3, <1>4, <1>6, <1>12
<1> HIDE DEF st, n
<1> QED
  BY <1>1, <1>3, <1>7, <1>9, <1>10, <1>11, <1>13, <1>14 DEF Assembled, new, st

\* With no scope open and no code, nothing is to come or jumped to.
LEMMA NothingYet ==
  ASSUME NEW td, NEW st, NEW cd, st = <<>>, cd = <<>>, Unscoped(td)
  PROVE  /\ DOMAIN st = {} /\ IsSequence(cd)
         /\ Coming(td, st) = {} /\ LinesApart(td, st) /\ ScopedInside(td, st)
         /\ WrittenIn(cd) = {} /\ CodeApart(cd) /\ TargetsIn(cd) = {}
<1>1. DOMAIN st = {} /\ IsSequence(cd) /\ DOMAIN cd = {}
  BY Singleton
<1>2. Lines(td) = {}
  BY UnscopedWritesNone
<1>3. Coming(td, st) = {} /\ LinesApart(td, st)
  BY <1>2 DEF Coming, LinesApart
<1>4. ScopedInside(td, st)
  BY DEF ScopedInside, Unscoped
<1>5. ScopeLines(cd) = {} /\ {j \in DOMAIN cd : cd[j].op \in {"goto", "branch"}} = {}
  BY <1>1 DEF ScopeLines
<1>6. WrittenIn(cd) = {} /\ CodeApart(cd) /\ TargetsIn(cd) = {}
  BY <1>5 DEF WrittenIn, CodeApart, TargetsIn
<1> QED
  BY <1>1, <1>3, <1>4, <1>6

\* A function that is still to be generated asks for nothing.
LEMMA FunctionAims ==
  ASSUME NEW td, NEW A, NEW W, IsSequence(td), Len(td) = 1,
         Head(td).do = "function"
  PROVE  Unscoped(td) /\ DeepAims(td, A, W)
<1>1. DOMAIN td = {1} /\ Head(td) = td[1]
  <2>1. td # <<>>
    BY Singleton
  <2> QED
    BY <2>1, HeadAndTail
<1>2. Unscoped(td)
  BY <1>1 DEF Unscoped, Scoped
<1>3. OuterAims(td[1], A, W)
  BY <1>1 DEF OuterAims, Aims
<1> QED
  BY <1>1, <1>2, <1>3 DEF DeepAims

\* A function begins with no label; another one with no code, too.
LEMMA FunctionsAssemble ==
  ASSUME IInv, NEW W, Assembled(W),
         \/ StartFunction \/ SkipPrototype \/ MissingReturn
         \/ NextFunction \/ Fail
  PROVE  Assembled(W)'
<1>1. ASSUME Do("function")
      PROVE  /\ Generating /\ phase = "gen" /\ todo # <<>>
             /\ Head(todo).do = "function" /\ code = <<>>
             /\ IsSequence(todo) /\ Len(todo) = 1
  <2>1. /\ Generating /\ phase = "gen" /\ todo # <<>> /\ Head(todo).do = "function"
    BY <1>1, HeadItem
  <2>2. IsSequence(todo) /\ code = <<>>
    BY <2>1 DEF Assembled, IInv, Continuation
  <2>3. 1 \in DOMAIN todo /\ Head(todo) = todo[1]
    BY <2>1, <2>2, HeadAndTail
  <2>4. ~Outer(todo[1])
    BY <2>1, <2>3 DEF Outer, Leafy, ScopeOf
  <2>5. Len(todo) = 1
    BY <2>1, <2>3, <2>4 DEF IInv, Continuation
  <2> QED
    BY <2>1, <2>2, <2>5
<1>2. ASSUME scopeStack' = <<>>, code' = <<>>, Unscoped(todo'), DeepAims(todo', {}, W)
      PROVE  Assembled(W)'
  <2>1. /\ DOMAIN scopeStack' = {} /\ IsSequence(code')
        /\ Coming(todo', scopeStack') = {} /\ LinesApart(todo', scopeStack')
        /\ ScopedInside(todo', scopeStack')
        /\ WrittenIn(code') = {} /\ CodeApart(code') /\ TargetsIn(code') = {}
    BY <1>2, NothingYet
  <2>2. Reachable' = {}
    BY <2>1 DEF Reachable
  <2>3. ScopesApart'
    BY <2>1 DEF ScopesApart
  <2> QED
    BY <1>2, <2>1, <2>2, <2>3 DEF Assembled
<1>3. CASE StartFunction
  <2>1. PICK k \in 1 .. MaxBlock :
           Continue(BlockPlan(2, k, Halt, NoLoop) \o <<Epilogue(1 + k)>>)
    BY <1>3 DEF StartFunction
  <2>2. Do("function") /\ scopeStack' = <<>> /\ code' = code
    BY <1>3 DEF StartFunction, ResetLables
  <2> DEFINE p == BlockPlan(2, k, Halt, NoLoop)
             e == Epilogue(1 + k)
             q == p \o <<e>>
             none == {}
  <2>3. FlatAims(p, none, W) /\ Unscoped(p)
    BY BlockPlanAims
  <2>4. AimsFlat(e, none, W) /\ ~Scoped(e)
    BY AimingItems DEF Scoped, Epilogue
  <2> HIDE DEF p, e, none
  <2>5. FlatAims(<<e>>, none, W) /\ Unscoped(<<e>>) /\ IsSequence(<<e>>)
    <3>1. IsSequence(<<e>>) /\ Len(<<e>>) = 1 /\ <<e>>[1] = e
      BY Singleton
    <3>2. DOMAIN <<e>> = 1 .. 1
      BY <3>1, SequenceLength
    <3>3. FlatAims(<<e>>, none, W)
      BY <2>4, ShortAims
    <3> QED
      BY <2>4, <3>1, <3>2, <3>3 DEF Unscoped
  <2>6. FlatAims(q, none, W) /\ Unscoped(q)
    BY <2>3, <2>5, JoinedAims, JoinedUnscoped DEF FlatAims
  <2>7. todo' = q \o Tail(todo)
    BY <2>1 DEF Continue, p, e
  <2> HIDE DEF q
  <2>8. Unscoped(Tail(todo)) /\ DeepAims(Tail(todo), none, W)
    <3> DEFINE t == Tail(todo)
    <3>1. IsSequence(t) /\ DOMAIN t = 1 .. 0
      <4>1. DOMAIN t = 1 .. Len(todo) - 1 /\ IsSequence(t)
        BY <1>1, <2>2, HeadAndTail
      <4>2. Len(todo) - 1 = 0
        BY <1>1, <2>2
      <4> QED
        BY <4>1, <4>2
    <3> HIDE DEF t
    <3>2. DOMAIN t = {}
      BY <3>1
    <3>3. Unscoped(t) /\ DeepAims(t, none, W)
      BY <3>1, <3>2 DEF Unscoped, DeepAims
    <3> QED
      BY <3>3 DEF t
  <2>9. Unscoped(todo') /\ DeepAims(todo', none, W)
    <3>1. IsSequence(q) /\ IsSequence(Tail(todo)) /\ DeepAims(q, none, W)
      BY <2>6, <2>8, AimsIn DEF FlatAims, DeepAims
    <3> QED
      BY <2>6, <2>7, <2>8, <3>1, JoinedAims, JoinedUnscoped
  <2> QED
    BY <1>1, <1>2, <2>2, <2>9 DEF none
<1>4. CASE SkipPrototype
  <2>1. Do("function") /\ scopeStack' = <<>> /\ UNCHANGED <<todo, code>>
    BY <1>4 DEF SkipPrototype, ResetLables, genVars
  <2>2. Unscoped(todo) /\ DeepAims(todo, {}, W)
    BY <1>1, <2>1, FunctionAims
  <2> QED
    BY <1>1, <1>2, <2>1, <2>2
<1>5. CASE NextFunction
  <2>1. /\ phase = "gen" /\ todo = <<>> /\ todo' = <<Function>>
        /\ code' = <<>> /\ scopeStack' = scopeStack
    BY <1>5 DEF NextFunction, lmVars
  <2>2. scopeStack' = <<>>
    BY <2>1, NothingOpen
  <2>3. Unscoped(todo') /\ DeepAims(todo', {}, W)
    BY <2>1, FunctionIsPlain, FunctionAims
  <2> QED
    BY <1>2, <2>1, <2>2, <2>3
<1>6. CASE MissingReturn \/ Fail
  BY <1>6 DEF MissingReturn, Fail, Assembled
<1> QED
  BY <1>3, <1>4, <1>5, <1>6

\* Running the code, and standing still.
LEMMA RunAssembles ==
  ASSUME NEW W, Assembled(W), \/ StartRun \/ RunEval \/ RunAct \/ RunReturn
                              \/ Done \/ UNCHANGED vars
  PROVE  Assembled(W)'
<1> USE DEF lmVars
<1>1. UNCHANGED <<todo, nodes, scopeStack, code>>
  BY DEF StartRun, RunEval, RunAct, RunReturn, Ran, Done, vars, genVars
<1>2. phase # "failed" \/ UNCHANGED phase
  BY DEF StartRun, RunEval, RunAct, RunReturn, Execute, Done, vars, genVars
<1> QED
  BY <1>1, <1>2 DEF Assembled, ScopesApart, Reachable

\* Every step keeps the labels.
LEMMA StepAssembled ==
  ASSUME IInv, Numbered, LoopsAgree, NEW W, Understood(W), Assembled(W), [Next]_vars
  PROVE  Assembled(W)'
BY VisitsAssemble, LinesAssemble, LabelAssembles, EnteringAssembles,
   LeavingAssembles, FunctionsAssemble, RunAssembles DEF Next

\* At the start there is a function to generate, and nothing else.
LEMMA InitAssembled ==
  ASSUME NEW W, Init
  PROVE  Assembled(W)
<1>1. todo = <<Function>> /\ code = <<>> /\ scopeStack = <<>>
  BY DEF Init, LabelManagerInit
<1>2. Unscoped(todo) /\ DeepAims(todo, {}, W)
  BY <1>1, FunctionIsPlain, FunctionAims
<1>3. /\ DOMAIN scopeStack = {} /\ IsSequence(code)
      /\ Coming(todo, scopeStack) = {} /\ LinesApart(todo, scopeStack)
      /\ ScopedInside(todo, scopeStack)
      /\ WrittenIn(code) = {} /\ CodeApart(code) /\ TargetsIn(code) = {}
  BY <1>1, <1>2, NothingYet
<1>4. Reachable = {}
  BY <1>3 DEF Reachable
<1>5. ScopesApart
  BY <1>3 DEF ScopesApart
<1> QED
  BY <1>1, <1>2, <1>3, <1>4, <1>5 DEF Assembled
-----------------------------------------------------------------------------
(* The branches.                                                           *)

\* The hints whose entry in both tables is a mnemonic.
GoodHint == Hint \ {"Logical_LessEqual"}

\* The relations among the conditions W, and those used as values.
Relations(W) ==
    {c \in W : c.form = "atom" /\ c.operands # "value"} \union ValueRelations

\* They have a hint; the tables of branches can express them: all of them but
\* > between floats.
Hinted(W) == \A c \in Relations(W) : HintOf(c) \in Hint

Expressible(W) == \A c \in Relations(W) : HintOf(c) \in GoodHint

\* The hint that is pending, and every branch that was written, has one.
Mnemonics ==
    /\ opHint \in GoodHint
    /\ \A i \in DOMAIN code : code[i].op = "branch" => code[i].on # Glued

\* Both tables have a mnemonic for every hint but one.
LEMMA TablesHaveMnemonics ==
  ASSUME NEW hint \in GoodHint
  PROVE  JumpIf[hint] # Glued /\ JumpUnless[hint] # Glued
BY DEF GoodHint, Hint, JumpIf, JumpUnless, Glued

\* A line added to the code spoils no branch unless it is one.
LEMMA AppendBranch ==
  ASSUME NEW cd, NEW x, IsSequence(cd),
         \A i \in DOMAIN cd : cd[i].op = "branch" => cd[i].on # Glued,
         x.op = "branch" => x.on # Glued
  PROVE  LET new == Append(cd, x)
         IN  \A i \in DOMAIN new : new[i].op = "branch" => new[i].on # Glued
<1> DEFINE new == Append(cd, x)
           m == Len(cd) + 1
<1>1. /\ \A i \in DOMAIN cd : i \in DOMAIN new /\ new[i] = cd[i]
      /\ new[m] = x
      /\ \A i \in DOMAIN new : i \in DOMAIN cd \/ i = m
  BY Appended
<1> HIDE DEF new, m
<1>2. \A i \in DOMAIN new : new[i].op = "branch" => new[i].on # Glued
  BY <1>1
<1> QED
  BY <1>2 DEF new

\* What the steps write.
LEMMA Writing ==
  ASSUME [Next]_vars, ~EmitBranch
  PROVE  \/ code' = code
         \/ code' = <<>>
         \/ \E x : code' = Append(code, x) /\ x.op # "branch" /\ phase = "gen"
<1> USE DEF Emit, LabelInstr, GotoInstr, PointInstr
<1>1. CASE \/ StartFunction \/ SkipPrototype \/ MissingReturn \/ NextFunction \/ Fail
  BY <1>1 DEF StartFunction, SkipPrototype, MissingReturn, NextFunction, Fail, genVars
<1>2. CASE EndFunction
  BY <1>2 DEF EndFunction, Do, Generating
<1>3. CASE VisitIf \/ VisitWhile \/ VisitDo \/ VisitFor \/ VisitBlock
           \/ VisitLogical \/ SkipCond \/ OpenScope \/ CloseScope \/ AskLabel \/ NameLabel
  BY <1>3 DEF VisitIf, VisitWhile, VisitDo, VisitFor, VisitBlock,
              VisitLogical, SkipCond, OpenScope, CloseScope, AskLabel, NameLabel
<1>4. CASE VisitSimple \/ VisitReturn \/ VisitBreak \/ VisitContinue
  BY <1>4 DEF VisitSimple, VisitReturn, VisitBreak, VisitContinue, Do, Generating
<1>5. CASE VisitAtom
  BY <1>5 DEF VisitAtom, Do, Generating
<1>6. CASE EmitLabel \/ EmitGoto \/ EmitLine \/ EmitAct
  BY <1>6 DEF EmitLabel, EmitGoto, EmitLine, EmitAct, Do, Generating
<1>7. CASE StartRun \/ RunEval \/ RunAct \/ RunReturn \/ Done \/ UNCHANGED vars
  BY <1>7 DEF StartRun, RunEval, RunAct, RunReturn, Ran, Done, vars, genVars
<1> QED
  BY <1>1, <1>2, <1>3, <1>4, <1>5, <1>6, <1>7 DEF Next

\* What the steps do to the hint that is pending and to that of the last value:
\* they keep both, clear both, set both to that of a relation used as a value,
\* or set the first to that of a relation used as a condition.
LEMMA Hinting ==
  ASSUME [Next]_vars
  PROVE  \/ opHint' = opHint /\ valueHint' = valueHint
         \/ opHint' = "None" /\ valueHint' = "None"
         \/ \E r \in ValueRelations : opHint' = HintOf(r) /\ valueHint' = HintOf(r)
         \/ /\ Do("cond") /\ h.cond.form = "atom" /\ h.cond.operands # "value"
            /\ opHint' = HintOf(h.cond) /\ valueHint' = valueHint
<1> USE DEF hints, EvaluateValue
<1>1. CASE \/ StartFunction \/ SkipPrototype \/ MissingReturn \/ NextFunction \/ Fail
           \/ EndFunction
  BY <1>1 DEF StartFunction, SkipPrototype, MissingReturn, NextFunction, Fail,
              EndFunction, genVars
<1>2. CASE VisitIf \/ VisitWhile \/ VisitDo \/ VisitFor \/ VisitBlock
           \/ VisitLogical \/ SkipCond \/ OpenScope \/ CloseScope \/ AskLabel \/ NameLabel
  BY <1>2 DEF VisitIf, VisitWhile, VisitDo, VisitFor, VisitBlock,
              VisitLogical, SkipCond, OpenScope, CloseScope, AskLabel, NameLabel
<1>3. CASE VisitSimple \/ VisitReturn \/ VisitBreak \/ VisitContinue
  BY <1>3 DEF VisitSimple, VisitReturn, VisitBreak, VisitContinue
<1>4. CASE VisitAtom
  BY <1>4 DEF VisitAtom
<1>5. CASE EmitLabel \/ EmitGoto \/ EmitLine \/ EmitAct \/ EmitBranch
  BY <1>5 DEF EmitLabel, EmitGoto, EmitLine, EmitAct, EmitBranch
<1>6. CASE StartRun \/ RunEval \/ RunAct \/ RunReturn \/ Done \/ UNCHANGED vars
  BY <1>6 DEF StartRun, RunEval, RunAct, RunReturn, Ran, Done, vars, genVars
<1> QED
  BY <1>1, <1>2, <1>3, <1>4, <1>5, <1>6 DEF Next

\* Every step leaves a hint, whichever the relations have.
LEMMA StepHint ==
  ASSUME IInv, NEW W, NEW G, Assembled(W), "None" \in G,
         \A c \in Relations(W) : HintOf(c) \in G,
         [Next]_vars
  PROVE  /\ opHint \in G => opHint' \in G
         /\ valueHint \in G => valueHint' \in G
<1>1. CASE /\ Do("cond") /\ h.cond.form = "atom" /\ h.cond.operands # "value"
           /\ opHint' = HintOf(h.cond) /\ valueHint' = valueHint
  <2>1. h.cond \in W
    BY <1>1, HeadAims
  <2>2. HintOf(h.cond) \in G
    BY <1>1, <2>1 DEF Relations
  <2> QED
    BY <1>1, <2>2
<1>2. CASE \E r \in ValueRelations : opHint' = HintOf(r) /\ valueHint' = HintOf(r)
  BY <1>2 DEF Relations
<1> QED
  BY <1>1, <1>2, Hinting

\* Every step keeps the branches.
LEMMA StepMnemonics ==
  ASSUME IInv, NEW W, Expressible(W), Assembled(W), Mnemonics, [Next]_vars
  PROVE  Mnemonics'
<1>1. opHint' \in GoodHint
  <2>1. "None" \in GoodHint
    BY DEF GoodHint, Hint
  <2> QED
    BY <2>1, StepHint DEF Expressible, Mnemonics
<1>2. phase = "gen" => IsSequence(code)
  BY DEF Assembled
<1>3. CASE EmitBranch
  <2> DEFINE table == IF h.table = "if" THEN JumpIf ELSE JumpUnless
             x == BranchInstr(table[opHint], Resolve(h.ref))
  <2>1. code' = Append(code, x) /\ phase = "gen"
    BY <1>3 DEF EmitBranch, Emit, Do, Generating
  <2>2. table[opHint] # Glued
    BY TablesHaveMnemonics DEF Mnemonics
  <2>3. x.on # Glued
    BY <2>2 DEF BranchInstr
  <2> HIDE DEF x
  <2>4. \A i \in DOMAIN code' : code'[i].op = "branch" => code'[i].on # Glued
    BY <1>2, <2>1, <2>3, AppendBranch DEF Mnemonics
  <2> QED
    BY <1>1, <2>4 DEF Mnemonics
<1>4. CASE ~EmitBranch
  <2>1. CASE code' = code
    BY <1>1, <2>1 DEF Mnemonics
  <2>2. CASE code' = <<>>
    <3>1. DOMAIN code' = {}
      BY <2>2, Singleton
    <3> QED
      BY <1>1, <3>1 DEF Mnemonics
  <2>3. CASE \E x : code' = Append(code, x) /\ x.op # "branch" /\ phase = "gen"
    <3>1. PICK x : code' = Append(code, x) /\ x.op # "branch" /\ phase = "gen"
      BY <2>3
    <3>2. \A i \in DOMAIN code' : code'[i].op = "branch" => code'[i].on # Glued
      BY <1>2, <3>1, AppendBranch DEF Mnemonics
    <3> QED
      BY <1>1, <3>2 DEF Mnemonics
  <2> QED
    BY <1>4, <2>1, <2>2, <2>3, Writing
<1> QED
  BY <1>3, <1>4
-----------------------------------------------------------------------------
(* The code that is run.                                                   *)

\* When nothing is left to generate, the code assembles.
LEMMA FinishedAssembles ==
  ASSUME NEW W, Assembled(W), Mnemonics, phase = "gen", todo = <<>>
  PROVE  Assembles
<1>1. CodeApart(code) /\ TargetsIn(code) \subseteq Reachable
  BY DEF Assembled
<1>2. Coming(todo, scopeStack) = {}
  BY Singleton DEF Coming, Lines
<1>3. TargetsIn(code) \subseteq WrittenIn(code)
  BY <1>1, <1>2 DEF Reachable
<1>4. Targets \subseteq TargetsIn(code)
  BY DEF Targets, TargetsIn, Labels
<1>5. ASSUME NEW l \in Targets PROVE Cardinality(Defining(l)) = 1
  <2>1. PICK i \in ScopeLines(code) : l = code[i].label
    BY <1>3, <1>4 DEF WrittenIn
  <2>2. Len(l) = 3 /\ i \in DOMAIN code /\ code[i].op = "label"
    BY <2>1 DEF ScopeLines
  <2>3. Defining(l) \subseteq ScopeLines(code)
    BY <2>2 DEF Defining, Labels, ScopeLines
  <2>4. Defining(l) = {i}
    BY <1>1, <2>1, <2>2, <2>3 DEF Defining, Labels, CodeApart
  <2> QED
    BY <2>4, FS_Singleton
<1>6. \A i \in Labels("branch") : code[i].on # Glued
  BY DEF Labels, Mnemonics
<1> QED
  BY <1>5, <1>6 DEF Assembles

\* Whatever holds at 0 and is handed on holds up to n.
LEMMA HandedOn ==
  ASSUME NEW n \in Nat, NEW T, 0 \in T,
         \A k \in 0 .. n - 1 : k \in T => k + 1 \in T
  PROVE  \A k \in 0 .. n : k \in T
<1> DEFINE Bad == {k \in 0 .. n : k \notin T}
<1> SUFFICES ASSUME Bad # {} PROVE FALSE
  OBVIOUS
<1>1. PICK x \in Bad : \A y \in Bad : <<y, x>> \notin OpToRel(<, Nat)
  <2>1. Bad \in SUBSET Nat
    OBVIOUS
  <2> HIDE DEF Bad
  <2> QED
    BY <2>1, NatLessThanWellFounded, WFMin
<1>2. x # 0 /\ x - 1 \in 0 .. n - 1 /\ x - 1 + 1 = x /\ x - 1 < x /\ x \in Nat
  OBVIOUS
<1>3. ASSUME NEW y \in Bad PROVE ~(y < x)
  <2>1. y \in Nat /\ x \in Nat
    OBVIOUS
  <2>2. <<y, x>> \notin OpToRel(<, Nat)
    BY <1>1
  <2> QED
    BY <2>1, <2>2 DEF OpToRel
<1>4. x - 1 \notin Bad
  BY <1>2, <1>3
<1> QED
  BY <1>2, <1>4

\* The recursive function of RunTo, up to the m-th hop.
HopsUpto(i, compared, outcome, m, hop) ==
  hop = [k \in 0 .. m |->
           IF k = 0 THEN [pc |-> i, compared |-> compared, end |-> "spinning"]
           ELSE LET at == hop[k - 1]
                IN  IF at.end = "spinning" THEN Hop(at, outcome) ELSE at]

LEMMA HopsExist ==
  ASSUME NEW i, NEW compared, NEW outcome, NEW n \in Nat
  PROVE  \E hop : HopsUpto(i, compared, outcome, n, hop)
<1> DEFINE start == [pc |-> i, compared |-> compared, end |-> "spinning"]
           after(at) == IF at.end = "spinning" THEN Hop(at, outcome) ELSE at
           T == {m \in 0 .. n : \E hop : HopsUpto(i, compared, outcome, m, hop)}
<1>0. \A m, hop : HopsUpto(i, compared, outcome, m, hop) <=>
                  hop = [k \in 0 .. m |-> IF k = 0 THEN start ELSE after(hop[k - 1])]
  BY DEF HopsUpto
<1> HIDE DEF start, after
<1>1. 0 \in T
  <2> DEFINE g == [k \in 0 .. 0 |-> start]
             step(k) == IF k = 0 THEN start ELSE after(g[k - 1])
  <2>1. \A k \in 0 .. 0 : step(k) = start
    OBVIOUS
  <2> HIDE DEF g
  <2>2. [k \in 0 .. 0 |-> step(k)] = [k \in 0 .. 0 |-> start]
    <3> HIDE DEF step
    <3> QED
      BY <2>1
  <2>3. HopsUpto(i, compared, outcome, 0, g)
    BY <1>0, <2>2 DEF g
  <2> QED
    BY <2>3
<1>2. ASSUME NEW m \in 0 .. n - 1, m \in T
      PROVE  m + 1 \in T
  <2>1. PICK f : HopsUpto(i, compared, outcome, m, f)
    BY <1>2
  <2> DEFINE new == after(f[m])
             g == [k \in 0 .. m + 1 |-> IF k = m + 1 THEN new ELSE f[k]]
             step(k) == IF k = 0 THEN start ELSE after(g[k - 1])
  <2>2. ASSUME NEW k \in 0 .. m + 1
        PROVE  g[k] = step(k)
    <3>1. CASE k = m + 1
      <4>1. g[k] = new /\ g[k - 1] = f[m] /\ k # 0
        BY <3>1
      <4> QED
        BY <3>1, <4>1
    <3>2. CASE k # m + 1
      <4>1. k \in 0 .. m /\ g[k] = f[k] /\ (k # 0 => g[k - 1] = f[k - 1])
        BY <3>2
      <4>2. f[k] = IF k = 0 THEN start ELSE after(f[k - 1])
        BY <1>0, <2>1, <4>1
      <4> QED
        BY <4>1, <4>2
    <3> QED
      BY <3>1, <3>2
  <2>3. g = [k \in 0 .. m + 1 |-> step(k)]
    <3>1. g = [k \in 0 .. m + 1 |-> g[k]]
      OBVIOUS
    <3> HIDE DEF g, step
    <3> QED
      BY <2>2, <3>1
  <2>4. HopsUpto(i, compared, outcome, m + 1, g)
    BY <1>0, <2>3
  <2> HIDE DEF g
  <2> QED
    BY <2>4
<1>3. \A k \in 0 .. n : k \in T
  <2> HIDE DEF T
  <2> QED
    BY <1>1, <1>2, HandedOn
<1> QED
  BY <1>3

\* What each hop may be: on its way, at an instruction, or at none.
HopOK(at) ==
    /\ DOMAIN at = {"pc", "compared", "end"}
    /\ at["end"] \in {"spinning", "run", "crashed"}
    /\ at["end"] = "run" => at["pc"] \in DOMAIN code

\* Each hop leads on, to an instruction of the code, or to none.
LEMMA HopsAreOK ==
  ASSUME NEW at, HopOK(at), at.end = "spinning", NEW outcome
  PROVE  HopOK(Hop(at, outcome))
<1> DEFINE i == at.pc
           instr == code[i]
           new == Hop(at, outcome)
<1>1. CASE i \notin DOMAIN code
  <2>1. new = [at EXCEPT !.end = "crashed"]
    BY <1>1 DEF Hop
  <2> HIDE DEF i, instr
  <2> QED
    BY <2>1 DEF HopOK
<1>2. CASE i \in DOMAIN code /\ instr.op = "label"
  <2>1. new = [at EXCEPT !.pc = i + 1]
    BY <1>2 DEF Hop
  <2> HIDE DEF i, instr
  <2> QED
    BY <2>1 DEF HopOK
<1>3. CASE i \in DOMAIN code /\ instr.op = "goto"
  <2>1. new = [at EXCEPT !.pc = TargetOf(instr.label)]
    BY <1>3 DEF Hop
  <2> HIDE DEF i, instr
  <2> QED
    BY <2>1 DEF HopOK
<1>4. CASE i \in DOMAIN code /\ instr.op = "branch" /\ ~at.compared
  <2>1. new = [at EXCEPT !.end = "crashed"]
    BY <1>4 DEF Hop
  <2> HIDE DEF i, instr
  <2> QED
    BY <2>1 DEF HopOK
<1>5. CASE i \in DOMAIN code /\ instr.op = "branch" /\ at.compared
  <2>1. new = [pc |-> IF Holds(instr.on, outcome) THEN TargetOf(instr.label)
                                                  ELSE i + 1,
               compared |-> FALSE, end |-> "spinning"]
    BY <1>5 DEF Hop
  <2> HIDE DEF i, instr
  <2> QED
    BY <2>1 DEF HopOK
<1>6. CASE i \in DOMAIN code /\ instr.op \notin {"label", "goto", "branch"}
  <2>1. new = [at EXCEPT !.end = "run"] /\ at.pc \in DOMAIN code
    BY <1>6 DEF Hop
  <2> HIDE DEF i, instr
  <2> QED
    BY <1>6, <2>1 DEF HopOK
<1> QED
  BY <1>1, <1>2, <1>3, <1>4, <1>5, <1>6 DEF new

\* A run goes on at an instruction of the code, or ends: the code is never
\* rejected then.
LEMMA RunsTo ==
  ASSUME NEW i, NEW compared, NEW outcome, IsSequence(code),
         RunTo(i, compared, outcome)
  PROVE  /\ phase' \in {"spinning", "run", "crashed"}
         /\ pc' \in 0 .. Len(code)
         /\ phase' # "run" => pc' = 0
<1> DEFINE n == 2 * Len(code) + 1
           start == [pc |-> i, compared |-> compared, end |-> "spinning"]
           hop == CHOOSE f : HopsUpto(i, compared, outcome, n, f)
           T == {k \in 0 .. n : HopOK(hop[k])}
<1>1. Len(code) \in Nat /\ n \in Nat /\ DOMAIN code = 1 .. Len(code)
  BY SequenceLength
<1>2. phase' = hop[n].end /\ pc' = IF hop[n].end = "run" THEN hop[n].pc ELSE 0
  BY DEF RunTo, HopsUpto
<1> HIDE DEF n
<1>3. HopsUpto(i, compared, outcome, n, hop)
  <2>1. \E f : HopsUpto(i, compared, outcome, n, f)
    BY <1>1, HopsExist
  <2> QED
    BY <2>1, Zenon
<1> HIDE DEF hop
<1>4. hop[0] = start
  BY <1>1, <1>3 DEF HopsUpto
<1>5. ASSUME NEW k \in 0 .. n - 1
      PROVE  hop[k + 1] = IF hop[k].end = "spinning" THEN Hop(hop[k], outcome) ELSE hop[k]
  <2>1. k + 1 \in 0 .. n /\ k + 1 # 0 /\ k + 1 - 1 = k
    BY <1>1
  <2> DEFINE m == k + 1
  <2>2. hop[m] = IF m = 0 THEN start
                 ELSE LET at == hop[m - 1]
                      IN  IF at.end = "spinning" THEN Hop(at, outcome) ELSE at
    <3> HIDE DEF m
    <3> QED
      BY <1>3, <2>1 DEF HopsUpto, m
  <2> QED
    BY <2>1, <2>2
<1>6. 0 \in T
  BY <1>1, <1>4 DEF HopOK
<1>7. ASSUME NEW k \in 0 .. n - 1, k \in T PROVE k + 1 \in T
  <2>1. HopOK(hop[k]) /\ k + 1 \in 0 .. n
    BY <1>1, <1>7
  <2>2. HopOK(hop[k + 1])
    BY <1>5, <2>1, HopsAreOK
  <2> QED
    BY <2>1, <2>2
<1>8. HopOK(hop[n])
  <2>1. \A k \in 0 .. n : k \in T
    <3> HIDE DEF T
    <3> QED
      BY <1>1, <1>6, <1>7, HandedOn
  <2> QED
    BY <1>1, <2>1
<1> QED
  BY <1>1, <1>2, <1>8 DEF HopOK
-----------------------------------------------------------------------------
(* The theorems.                                                           *)

\* Nothing runs before the code is finished; what runs is an instruction.
Runs ==
    /\ phase \in {"gen", "failed", "rejected",
                  "run", "halted", "spinning", "crashed"}
    /\ pc \in 0 .. Len(code)
    /\ phase # "run" => pc = 0
    /\ nodes <= MaxNodes
    /\ seen \in Outcome

\* The invariants that the proof rests on.
GeneratorInv(W) ==
    /\ IInv /\ Numbered /\ LoopsAgree /\ Assembled(W) /\ Runs
    /\ opHint \in Hint /\ valueHint \in Hint

AssemblyInv(W) == GeneratorInv(W) /\ Mnemonics /\ CodeAssembles

\* At the start nothing is written, and no hint is pending.
LEMMA InitAssembly ==
  ASSUME NEW W, Init
  PROVE  AssemblyInv(W)
<1>1. IInv /\ Assembled(W)
  BY InitInvariant, InitAssembled
<1>2. todo = <<Function>> /\ nodes = 0 /\ code = <<>>
      /\ opHint = "None" /\ valueHint = "None" /\ phase = "gen" /\ pc = 0 /\ seen = "equal"
  BY DEF Init
<1>3. Numbered
  <2> DEFINE N == 1 .. nodes
  <2>1. DeepSound(todo, N) /\ Leads(todo) /\ Silent(todo)
        /\ Head(todo).do = "function"
    BY <1>2, FunctionIsPlain
  <2> QED
    BY <2>1 DEF Numbered, Silent
<1>4. LoopsAgree
  <2> DEFINE f == Function
  <2>1. IsSequence(<<f>>) /\ Len(<<f>>) = 1 /\ <<f>>[1] = f
    BY Singleton
  <2>2. DOMAIN <<f>> = 1 .. 1
    BY <2>1, SequenceLength
  <2>3. \A b : OuterAgrees(f, b)
    BY DEF Function, OuterAgrees, SaysLoop
  <2>4. todo = <<f>>
    BY <1>2
  <2> HIDE DEF f
  <2> QED
    BY <2>1, <2>2, <2>3, <2>4 DEF LoopsAgree, Agreement
<1>5. DOMAIN code = {} /\ Len(code) = 0
  BY <1>2, Singleton
<1>6. Mnemonics /\ opHint \in Hint /\ valueHint \in Hint /\ CodeAssembles
  BY <1>2, <1>5 DEF Mnemonics, GoodHint, Hint, CodeAssembles
<1>7. Runs
  BY <1>2, <1>5, BoundsAssumption DEF Runs, Outcome
<1> QED
  BY <1>1, <1>3, <1>4, <1>6, <1>7 DEF AssemblyInv, GeneratorInv
\* Generating keeps within the bound on the nodes and does not run anything.
LEMMA GeneratingSteps ==
  ASSUME IInv, Runs, phase = "gen", Next, ~StartRun
  PROVE  phase' \in {"gen", "failed"} /\ pc' = pc /\ seen' = seen /\ nodes' <= MaxNodes
<1>0. nodes \in Nat /\ nodes <= MaxNodes /\ MaxNodes \in Nat
  BY BoundsAssumption DEF IInv, Runs
<1> USE DEF runVars
<1>1. CASE \/ StartFunction \/ SkipPrototype \/ MissingReturn \/ NextFunction \/ Fail
           \/ EndFunction
  <2>1. CASE StartFunction
    BY <1>0, <2>1 DEF StartFunction
  <2>2. CASE SkipPrototype
    BY <1>0, <2>2 DEF SkipPrototype, genVars
  <2>3. CASE NextFunction
    <3>1. nodes' = 0 /\ UNCHANGED <<phase, pc, seen>>
      BY <2>3 DEF NextFunction
    <3> QED
      BY <1>0, <3>1
  <2>4. CASE MissingReturn \/ Fail \/ EndFunction
    BY <1>0, <2>4 DEF MissingReturn, Fail, EndFunction
  <2> QED
    BY <1>1, <2>1, <2>2, <2>3, <2>4
<1>2. CASE VisitSimple \/ VisitReturn \/ VisitBreak \/ VisitContinue
  BY <1>0, <1>2 DEF VisitSimple, VisitReturn, VisitBreak, VisitContinue
<1>3. CASE VisitIf \/ VisitWhile \/ VisitDo \/ VisitFor \/ VisitBlock
  <2>1. UNCHANGED <<phase, pc, seen>>
    BY <1>3 DEF VisitIf, VisitWhile, VisitDo, VisitFor, VisitBlock
  <2>2. CASE VisitIf
    <3>1. nodes' <= MaxNodes
      BY <2>2 DEF VisitIf
    <3> QED
      BY <2>1, <3>1
  <2>3. CASE VisitWhile \/ VisitDo \/ VisitFor
    <3>1. nodes < MaxNodes /\ nodes' = nodes + 1
      BY <2>3 DEF VisitWhile, VisitDo, VisitFor
    <3> QED
      BY <1>0, <2>1, <3>1
  <2>4. CASE VisitBlock
    <3>1. PICK k \in 0 .. MaxBlock : nodes + k <= MaxNodes /\ nodes' = nodes + k
      BY <2>4 DEF VisitBlock
    <3> QED
      BY <2>1, <3>1
  <2> QED
    BY <1>3, <2>2, <2>3, <2>4
<1>4. CASE \/ VisitAtom \/ VisitLogical \/ SkipCond \/ OpenScope \/ CloseScope
           \/ AskLabel \/ NameLabel
  BY <1>0, <1>4 DEF VisitAtom, VisitLogical, SkipCond, OpenScope, CloseScope,
                    AskLabel, NameLabel
<1>5. CASE EmitLabel \/ EmitGoto \/ EmitLine \/ EmitAct \/ EmitBranch
  BY <1>0, <1>5 DEF EmitLabel, EmitGoto, EmitLine, EmitAct, EmitBranch
<1>6. ~(RunEval \/ RunAct \/ RunReturn \/ Done)
  BY DEF RunEval, RunAct, RunReturn, Execute, Done
<1> QED
  BY <1>1, <1>2, <1>3, <1>4, <1>5, <1>6 DEF Next

\* Every step runs what was finished.
LEMMA StepRuns ==
  ASSUME IInv, NEW W, Assembled(W), Assembled(W)', Runs, [Next]_vars
  PROVE  Runs'
<1>1. CASE UNCHANGED vars \/ Done
  BY <1>1 DEF Runs, Done, vars, genVars, runVars, lmVars
<1>2. CASE StartRun
  <2>1. IsSequence(code) /\ UNCHANGED <<nodes, code, seen>>
    BY <1>2 DEF StartRun, Assembled
  <2>2. /\ phase' \in {"spinning", "run", "crashed", "rejected"}
        /\ pc' \in 0 .. Len(code) /\ (phase' # "run" => pc' = 0)
    <3>1. CASE RunTo(1, FALSE, seen)
      BY <2>1, <3>1, RunsTo
    <3>2. CASE phase' = "rejected" /\ pc' = 0
      BY <2>1, <3>2, SequenceLength
    <3> QED
      BY <1>2, <3>1, <3>2 DEF StartRun
  <2> QED
    BY <2>1, <2>2 DEF Runs
<1>3. CASE phase = "gen" /\ Next /\ ~StartRun
  <2>1. /\ phase' \in {"gen", "failed"} /\ pc' = 0 /\ seen' = seen
        /\ nodes' <= MaxNodes
    BY <1>3, GeneratingSteps DEF Runs
  <2>2. Len(code') \in Nat
    <3>1. CASE phase' = "gen"
      <4>1. IsSequence(code')
        BY <3>1 DEF Assembled
      <4> QED
        BY <4>1, SequenceLength
    <3>2. CASE code' = code
      <4>1. IsSequence(code)
        BY <1>3 DEF Assembled
      <4> QED
        BY <3>2, <4>1, SequenceLength
    <3>3. CASE code' = <<>>
      BY <3>3, Singleton
    <3>4. CASE \E x : code' = Append(code, x)
      <4>1. PICK x : code' = Append(code, x)
        BY <3>4
      <4>2. IsSequence(code)
        BY <1>3 DEF Assembled
      <4>3. IsSequence(code')
        BY <4>1, <4>2, Appended
      <4> QED
        BY <4>3, SequenceLength
    <3>5. CASE EmitBranch
      BY <3>1, <3>5, <1>3 DEF EmitBranch
    <3> QED
      BY <1>3, <3>2, <3>3, <3>4, <3>5, Writing
  <2> QED
    BY <2>1, <2>2 DEF Runs
<1>4. CASE RunEval \/ RunAct
  <2>1. phase = "run" /\ UNCHANGED <<nodes, code>>
    BY <1>4 DEF RunEval, RunAct, Execute, Ran
  <2>2. IsSequence(code)
    BY <2>1 DEF Assembled
  <2>3. /\ phase' \in {"spinning", "run", "crashed"}
        /\ pc' \in 0 .. Len(code) /\ (phase' # "run" => pc' = 0)
        /\ seen' \in Outcome
    <3>1. CASE RunEval
      <4>1. RunTo(pc + 1, TRUE, seen') /\ seen' \in Outcome
        BY <3>1 DEF RunEval
      <4> QED
        BY <2>2, <4>1, RunsTo
    <3>2. CASE RunAct
      <4>1. RunTo(pc + 1, FALSE, seen) /\ seen' = seen
        BY <3>2 DEF RunAct
      <4> QED
        BY <2>2, <4>1, RunsTo DEF Runs
    <3> QED
      BY <1>4, <3>1, <3>2
  <2> QED
    BY <2>1, <2>3 DEF Runs
<1>5. CASE RunReturn
  <2>1. phase = "run" /\ phase' = "halted" /\ pc' = 0
        /\ UNCHANGED <<nodes, code, seen>>
    BY <1>5 DEF RunReturn, Ran
  <2>2. Len(code) \in Nat
    BY <2>1, SequenceLength DEF Assembled
  <2> QED
    BY <2>1, <2>2 DEF Runs
<1>6. CASE Next /\ phase # "gen"
  <2>1. Done \/ RunEval \/ RunAct \/ RunReturn
    <3> USE DEF Do, Generating
    <3>1. ~(\/ StartFunction \/ SkipPrototype \/ MissingReturn \/ NextFunction \/ Fail
            \/ EndFunction \/ StartRun)
      BY <1>6 DEF StartFunction, SkipPrototype, MissingReturn, NextFunction, Fail,
                  EndFunction, StartRun
    <3>2. ~(\/ VisitSimple \/ VisitReturn \/ VisitBreak \/ VisitContinue
            \/ VisitIf \/ VisitWhile \/ VisitDo \/ VisitFor \/ VisitBlock)
      BY <1>6 DEF VisitSimple, VisitReturn, VisitBreak, VisitContinue, VisitIf,
                  VisitWhile, VisitDo, VisitFor, VisitBlock
    <3>3. ~(\/ VisitAtom \/ VisitLogical \/ SkipCond \/ OpenScope \/ CloseScope
            \/ AskLabel \/ NameLabel)
      BY <1>6 DEF VisitAtom, VisitLogical, SkipCond, OpenScope, CloseScope,
                  AskLabel, NameLabel
    <3>4. ~(EmitLabel \/ EmitGoto \/ EmitLine \/ EmitAct \/ EmitBranch)
      BY <1>6 DEF EmitLabel, EmitGoto, EmitLine, EmitAct, EmitBranch
    <3> QED
      BY <1>6, <3>1, <3>2, <3>3, <3>4 DEF Next
  <2> QED
    BY <2>1, <1>1, <1>4, <1>5
<1> QED
  BY <1>1, <1>2, <1>3, <1>6

\* Every step keeps the types and the labels.
LEMMA StepGenerator ==
  ASSUME NEW W, Understood(W), Hinted(W), GeneratorInv(W), [Next]_vars
  PROVE  GeneratorInv(W)'
<1> USE DEF GeneratorInv
<1>1. IInv' /\ Numbered'
  BY StepInvariant, StepNumbered
<1>2. LoopsAgree'
  BY VisitsKeepAgreement, LinesKeepAgreement, ScopesKeepAgreement,
     FunctionsKeepAgreement, RunKeepsAgreement DEF Next
<1>3. Assembled(W)'
  BY StepAssembled
<1>4. opHint' \in Hint /\ valueHint' \in Hint
  <2>1. "None" \in Hint
    BY DEF Hint
  <2> QED
    BY <2>1, StepHint DEF Hinted
<1>5. Runs'
  BY <1>3, StepRuns
<1> QED
  BY <1>1, <1>2, <1>3, <1>4, <1>5

\* No step rejects the code, when its branches have mnemonics.
LEMMA StepAssembles ==
  ASSUME NEW W, Assembled(W), Mnemonics, CodeAssembles, [Next]_vars
  PROVE  CodeAssembles'
<1>1. CASE StartRun
  <2>1. Assembles /\ IsSequence(code)
    BY <1>1, FinishedAssembles DEF StartRun, Assembled
  <2>2. RunTo(1, FALSE, seen)
    BY <1>1, <2>1 DEF StartRun
  <2> QED
    BY <2>1, <2>2, RunsTo DEF CodeAssembles
<1>2. CASE RunEval
  <2>1. RunTo(pc + 1, TRUE, seen') /\ IsSequence(code)
    BY <1>2 DEF RunEval, Execute, Assembled
  <2> QED
    BY <2>1, RunsTo DEF CodeAssembles
<1>3. CASE RunAct
  <2>1. RunTo(pc + 1, FALSE, seen) /\ IsSequence(code)
    BY <1>3 DEF RunAct, Execute, Assembled
  <2> QED
    BY <2>1, RunsTo DEF CodeAssembles
<1>4. CASE RunReturn \/ Done \/ UNCHANGED vars
  BY <1>4 DEF RunReturn, Done, vars, genVars, CodeAssembles
<1>5. CASE \/ StartFunction \/ SkipPrototype \/ MissingReturn \/ NextFunction \/ Fail
           \/ EndFunction
  BY <1>5 DEF StartFunction, SkipPrototype, MissingReturn, NextFunction, Fail,
              EndFunction, genVars, CodeAssembles
<1>6. CASE \/ VisitSimple \/ VisitReturn \/ VisitBreak \/ VisitContinue
           \/ VisitIf \/ VisitWhile \/ VisitDo \/ VisitFor \/ VisitBlock
  BY <1>6 DEF VisitSimple, VisitReturn, VisitBreak, VisitContinue, VisitIf,
              VisitWhile, VisitDo, VisitFor, VisitBlock, CodeAssembles
<1>7. CASE \/ VisitAtom \/ VisitLogical \/ SkipCond \/ OpenScope \/ CloseScope
           \/ AskLabel \/ NameLabel
  BY <1>7 DEF VisitAtom, VisitLogical, SkipCond, OpenScope, CloseScope,
              AskLabel, NameLabel, CodeAssembles
<1>8. CASE EmitLabel \/ EmitGoto \/ EmitLine \/ EmitAct \/ EmitBranch
  BY <1>8 DEF EmitLabel, EmitGoto, EmitLine, EmitAct, EmitBranch, CodeAssembles
<1> QED
  BY <1>1, <1>2, <1>3, <1>4, <1>5, <1>6, <1>7, <1>8 DEF Next

\* When the relations between floats, those of conditions and those used as
\* values, are all but >, whose entry in the tables of branches the assembler
\* rejects, every function that is generated
\* assembles: each goto and each branch goes to a label that is written, and
\* written once, however statements and conditions nest, and its mnemonic is
\* one.
THEOREM CodeAlwaysAssembles ==
  ASSUME NEW W, Understood(W), Expressible(W)
  PROVE  Spec => []CodeAssembles
<1>1. Hinted(W)
  BY DEF Hinted, Expressible, GoodHint
<1>2. Init => AssemblyInv(W)
  BY InitAssembly
<1>3. AssemblyInv(W) /\ [Next]_vars => AssemblyInv(W)'
  <2> SUFFICES ASSUME AssemblyInv(W), [Next]_vars PROVE AssemblyInv(W)'
    OBVIOUS
  <2>1. /\ GeneratorInv(W) /\ Mnemonics /\ CodeAssembles
        /\ IInv /\ Assembled(W)
    BY DEF AssemblyInv, GeneratorInv
  <2>2. GeneratorInv(W)'
    BY <1>1, <2>1, StepGenerator
  <2>3. Mnemonics' /\ CodeAssembles'
    BY <2>1, StepMnemonics, StepAssembles
  <2> QED
    BY <2>2, <2>3 DEF AssemblyInv
<1>4. AssemblyInv(W) => CodeAssembles
  BY DEF AssemblyInv
<1> QED
  BY <1>2, <1>3, <1>4, PTL DEF Spec

\* The generator keeps its types: the labels and the scopes those of the
\* label manager, the number of nodes its bound, the hints those of the
\* tables, and the instruction that runs is one of the code.
THEOREM GeneratorTypeCorrect ==
  ASSUME NEW W, Understood(W), Hinted(W)
  PROVE  Spec => []TypeOK
<1>1. Init => GeneratorInv(W)
  BY InitAssembly DEF AssemblyInv
<1>2. GeneratorInv(W) /\ [Next]_vars => GeneratorInv(W)'
  BY StepGenerator
<1>3. GeneratorInv(W) /\ LabelsTypeOK => TypeOK
  <2> SUFFICES ASSUME GeneratorInv(W), LabelsTypeOK PROVE TypeOK
    OBVIOUS
  <2>1. IInv /\ Runs /\ opHint \in Hint /\ valueHint \in Hint
    BY DEF GeneratorInv
  <2>2. nodes \in 0 .. MaxNodes
    BY <2>1, BoundsAssumption DEF IInv, Runs
  <2> QED
    BY <2>1, <2>2 DEF TypeOK, Runs
<1> QED
  BY <1>1, <1>2, <1>3, LabelsTypeCorrect, PTL DEF Spec
=============================================================================
