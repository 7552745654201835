------------------------ MODULE JVMControlFlowProofs ------------------------
(***************************************************************************)
(* Proofs about JVMControlFlow, for every bound and every set of           *)
(* conditions.  The argument is that of a call stack: the items of todo    *)
(* that leave a scope match the open scopes one to one, innermost first,   *)
(* whatever the visitors still have to emit in between.                    *)
(***************************************************************************)
EXTENDS JVMControlFlow, FiniteSetTheorems, SequenceTheorems, TLAPS

-----------------------------------------------------------------------------
(* Sequences of items, whose elements have no common type.                 *)

IsSequence(s) == s \in Seq({s[i] : i \in DOMAIN s})

\* A sequence over any set is one in this sense.
LEMMA AnySequence ==
  ASSUME NEW S, NEW s \in Seq(S)
  PROVE  IsSequence(s)
<1>1. Len(s) \in Nat /\ DOMAIN s = 1 .. Len(s) /\ s \in [1 .. Len(s) -> S]
  BY LenProperties
<1> DEFINE R == {s[i] : i \in DOMAIN s}
<1>2. s \in [1 .. Len(s) -> R]
  BY <1>1
<1> HIDE DEF R
<1>3. s \in Seq(R)
  BY <1>1, <1>2
<1> QED
  BY <1>3 DEF IsSequence, R

\* What concatenation does to two sequences of whatever elements.
LEMMA Concatenation ==
  ASSUME NEW s, NEW t, IsSequence(s), IsSequence(t)
  PROVE  /\ IsSequence(s \o t)
         /\ Len(s \o t) = Len(s) + Len(t)
         /\ DOMAIN (s \o t) = 1 .. Len(s) + Len(t)
         /\ \A i \in 1 .. Len(s) + Len(t) :
               (s \o t)[i] = IF i <= Len(s) THEN s[i] ELSE t[i - Len(s)]
<1> DEFINE S == {s[i] : i \in DOMAIN s} \union {t[i] : i \in DOMAIN t}
<1>1. s \in Seq(S) /\ t \in Seq(S)
  BY SeqMonotonic DEF IsSequence
<1> HIDE DEF S
<1>2. /\ s \o t \in Seq(S)
      /\ Len(s \o t) = Len(s) + Len(t)
      /\ \A i \in 1 .. Len(s) + Len(t) :
            (s \o t)[i] = IF i <= Len(s) THEN s[i] ELSE t[i - Len(s)]
  BY <1>1, ConcatProperties
<1>3. DOMAIN (s \o t) = 1 .. Len(s) + Len(t)
  BY <1>2, LenProperties
<1>4. IsSequence(s \o t)
  BY <1>2, AnySequence
<1> QED
  BY <1>2, <1>3, <1>4

\* The head and the tail of a sequence that is not empty.
LEMMA HeadAndTail ==
  ASSUME NEW s, IsSequence(s), s # <<>>
  PROVE  /\ Len(s) \in Nat \ {0}
         /\ DOMAIN s = 1 .. Len(s)
         /\ Head(s) = s[1]
         /\ IsSequence(Tail(s))
         /\ Len(Tail(s)) = Len(s) - 1
         /\ DOMAIN Tail(s) = 1 .. Len(s) - 1
         /\ \A i \in 1 .. Len(s) - 1 : Tail(s)[i] = s[i + 1]
<1> DEFINE S == {s[i] : i \in DOMAIN s}
<1>1. s \in Seq(S)
  BY DEF IsSequence
<1>2. Len(s) \in Nat \ {0} /\ DOMAIN s = 1 .. Len(s)
  BY <1>1, EmptySeq, LenProperties
<1>3. /\ Tail(s) \in Seq(S)
      /\ Len(Tail(s)) = Len(s) - 1
      /\ \A i \in 1 .. Len(Tail(s)) : Tail(s)[i] = s[i + 1]
  BY <1>1, HeadTailProperties
<1>4. Head(s) = s[1]
  BY <1>1
<1>5. DOMAIN Tail(s) = 1 .. Len(s) - 1
  BY <1>3, LenProperties
<1>6. IsSequence(Tail(s))
  BY <1>3, AnySequence
<1> HIDE DEF S
<1> QED
  BY <1>2, <1>3, <1>4, <1>5, <1>6

\* The length and the domain of a sequence, and the singleton.
LEMMA SequenceLength ==
  ASSUME NEW s, IsSequence(s)
  PROVE  Len(s) \in Nat /\ DOMAIN s = 1 .. Len(s)
BY LenProperties DEF IsSequence

LEMMA Singleton ==
  ASSUME NEW e
  PROVE  /\ IsSequence(<<e>>) /\ Len(<<e>>) = 1 /\ <<e>>[1] = e
         /\ IsSequence(<<>>) /\ Len(<<>>) = 0 /\ DOMAIN <<>> = {}
<1>1. <<e>> \in Seq({e}) /\ <<>> \in Seq({e})
  OBVIOUS
<1>2. IsSequence(<<e>>) /\ IsSequence(<<>>)
  BY <1>1, AnySequence
<1>3. Len(<<e>>) = 1 /\ <<e>>[1] = e /\ Len(<<>>) = 0
  OBVIOUS
<1>4. DOMAIN <<>> = 1 .. 0
  BY <1>2, <1>3, SequenceLength
<1> QED
  BY <1>2, <1>3, <1>4

-----------------------------------------------------------------------------
(* The items a plan may have.  No visitor plans to leave a scope it did    *)
(* not enter; the scopes of a plan nest at most one deep.                  *)

Leafy(x) == /\ x.do \notin {"leave", "function", "scope"}
            /\ x.do \in {"stmt", "block"} => x.node \in Nat

LeafPlan(p) == IsSequence(p) /\ \A i \in DOMAIN p : Leafy(p[i])

ScopeOf(x) == x.do = "scope" /\ x.node \in Nat /\ x.type \in ScopedType

Inner(x)     == Leafy(x) \/ (ScopeOf(x) /\ LeafPlan(x.plan))
InnerPlan(p) == IsSequence(p) /\ \A i \in DOMAIN p : Inner(p[i])

Outer(x)     == Leafy(x) \/ (ScopeOf(x) /\ InnerPlan(x.plan))
OuterPlan(p) == IsSequence(p) /\ \A i \in DOMAIN p : Outer(p[i])

\* The three kinds of plan are closed under concatenation.
LEMMA LeafConcatenation ==
  ASSUME NEW p, NEW q, LeafPlan(p), LeafPlan(q)
  PROVE  LeafPlan(p \o q)
BY Concatenation, SequenceLength DEF LeafPlan

LEMMA InnerConcatenation ==
  ASSUME NEW p, NEW q, InnerPlan(p), InnerPlan(q)
  PROVE  InnerPlan(p \o q)
BY Concatenation, SequenceLength DEF InnerPlan

LEMMA OuterConcatenation ==
  ASSUME NEW p, NEW q, OuterPlan(p), OuterPlan(q)
  PROVE  OuterPlan(p \o q)
BY Concatenation, SequenceLength DEF OuterPlan

\* A plan without scopes may stand for one with them.
LEMMA PlanInclusion ==
  ASSUME NEW p
  PROVE  /\ LeafPlan(p) => InnerPlan(p)
         /\ InnerPlan(p) => OuterPlan(p)
<1>1. LeafPlan(p) => InnerPlan(p)
  BY DEF LeafPlan, InnerPlan, Inner
<1>2. ASSUME NEW x, Inner(x) PROVE Outer(x)
  BY <1>2, <1>1 DEF Inner, Outer, LeafPlan, InnerPlan
<1> QED
  BY <1>1, <1>2 DEF InnerPlan, OuterPlan

\* Plans of no item, of one and of two.
LEMMA ShortPlans ==
  ASSUME NEW x, NEW y
  PROVE  /\ LeafPlan(<<>>)
         /\ Leafy(x) => LeafPlan(<<x>>)
         /\ Leafy(x) /\ Leafy(y) => LeafPlan(<<x, y>>)
         /\ Outer(x) => OuterPlan(<<x>>)
<1>1. LeafPlan(<<>>)
  BY Singleton DEF LeafPlan
<1>2. /\ Leafy(x) => LeafPlan(<<x>>)
      /\ Outer(x) => OuterPlan(<<x>>)
  <2>1. IsSequence(<<x>>) /\ DOMAIN <<x>> = 1 .. 1 /\ <<x>>[1] = x
    BY Singleton, SequenceLength
  <2> QED
    BY <2>1 DEF LeafPlan, OuterPlan
<1>3. Leafy(x) /\ Leafy(y) => LeafPlan(<<x, y>>)
  <2>1. <<x, y>> \in Seq({x, y})
    OBVIOUS
  <2>2. IsSequence(<<x, y>>)
    BY <2>1, AnySequence
  <2>3. DOMAIN <<x, y>> = 1 .. 2 /\ <<x, y>>[1] = x /\ <<x, y>>[2] = y
    BY <2>2, SequenceLength
  <2> QED
    BY <2>2, <2>3 DEF LeafPlan
<1> QED
  BY <1>1, <1>2, <1>3

-----------------------------------------------------------------------------
(* The stack of scopes and the continuation.                               *)

Leaves(td) == {i \in DOMAIN td : td[i].do = "leave"}

\* The items of td that leave a scope are at depths n, n - 1, ..., 1.
Matches(td, n) ==
    /\ \A i \in Leaves(td) : td[i].depth \in 1 .. n
    /\ \A i, j \in Leaves(td) : i < j => td[i].depth > td[j].depth
    /\ \A d \in 1 .. n : \E i \in Leaves(td) : td[i].depth = d

\* A continuation is made of the items of plans and of items that leave a
\* scope; that of a whole function stands alone.
Continuation(td) ==
    /\ IsSequence(td)
    /\ \A i \in DOMAIN td : \/ Outer(td[i])
                            \/ td[i].do = "leave"
                            \/ td[i].do = "function" /\ Len(td) = 1

\* Putting any sequence in the place of the head of a continuation.
LEMMA Splice ==
  ASSUME NEW td, NEW q, IsSequence(td), td # <<>>, IsSequence(q)
  PROVE  /\ IsSequence(q \o Tail(td))
         /\ Len(q) \in Nat /\ Len(td) \in Nat \ {0}
         /\ DOMAIN q = 1 .. Len(q) /\ DOMAIN td = 1 .. Len(td)
         /\ Len(q \o Tail(td)) = Len(q) + Len(td) - 1
         /\ DOMAIN (q \o Tail(td)) = 1 .. Len(q) + Len(td) - 1
         /\ \A i \in 1 .. Len(q) : (q \o Tail(td))[i] = q[i]
         /\ \A i \in 2 .. Len(td) : (q \o Tail(td))[i + Len(q) - 1] = td[i]
         /\ Head(td) = td[1]
<1>1. /\ Len(td) \in Nat \ {0} /\ DOMAIN td = 1 .. Len(td)
      /\ Head(td) = td[1]
      /\ IsSequence(Tail(td)) /\ Len(Tail(td)) = Len(td) - 1
      /\ \A i \in 1 .. Len(td) - 1 : Tail(td)[i] = td[i + 1]
  BY HeadAndTail
<1>2. Len(q) \in Nat /\ DOMAIN q = 1 .. Len(q)
  BY SequenceLength
<1> DEFINE r == q \o Tail(td)
<1>3. /\ IsSequence(r)
      /\ Len(r) = Len(q) + Len(Tail(td))
      /\ DOMAIN r = 1 .. Len(q) + Len(Tail(td))
      /\ \A i \in 1 .. Len(q) + Len(Tail(td)) :
            r[i] = IF i <= Len(q) THEN q[i] ELSE Tail(td)[i - Len(q)]
  BY <1>1, Concatenation
<1> HIDE DEF r
<1>4. \A i \in 1 .. Len(q) : r[i] = q[i]
  BY <1>1, <1>2, <1>3
<1>5. ASSUME NEW i \in 2 .. Len(td) PROVE r[i + Len(q) - 1] = td[i]
  <2>1. i - 1 \in 1 .. Len(td) - 1
    BY <1>1
  <2>2. /\ i + Len(q) - 1 \in 1 .. Len(q) + Len(Tail(td))
        /\ ~(i + Len(q) - 1 <= Len(q))
        /\ (i + Len(q) - 1) - Len(q) = i - 1
    BY <1>1, <1>2
  <2>3. r[i + Len(q) - 1] = Tail(td)[i - 1]
    BY <1>3, <2>2
  <2> QED
    BY <1>1, <2>1, <2>3
<1>6. Len(r) = Len(q) + Len(td) - 1 /\ DOMAIN r = 1 .. Len(q) + Len(td) - 1
  BY <1>1, <1>2, <1>3
<1> QED
  BY <1>1, <1>2, <1>3, <1>4, <1>5, <1>6 DEF r

\* The indices of a continuation whose head was replaced.
LEMMA SpliceIndices ==
  ASSUME NEW td, NEW q, IsSequence(td), td # <<>>, IsSequence(q),
         NEW i \in DOMAIN (q \o Tail(td))
  PROVE  \/ i \in DOMAIN q /\ (q \o Tail(td))[i] = q[i]
         \/ \E j \in DOMAIN td : /\ j # 1
                                 /\ i = j + Len(q) - 1
                                 /\ (q \o Tail(td))[i] = td[j]
<1>1. i \in 1 .. Len(q) + Len(td) - 1
  BY Splice
<1>2. CASE i <= Len(q)
  BY <1>1, <1>2, Splice
<1>3. CASE ~(i <= Len(q))
  <2>1. Len(q) \in Nat /\ Len(td) \in Nat \ {0} /\ DOMAIN td = 1 .. Len(td)
    BY Splice
  <2> DEFINE j == i - Len(q) + 1
  <2>2. j \in 2 .. Len(td) /\ i = j + Len(q) - 1
    BY <1>1, <1>3, <2>1
  <2> HIDE DEF j
  <2>3. \A k \in 2 .. Len(td) : (q \o Tail(td))[k + Len(q) - 1] = td[k]
    BY Splice
  <2>4. (q \o Tail(td))[i] = td[j]
    BY <2>2, <2>3
  <2> QED
    BY <2>1, <2>2, <2>4
<1> QED
  BY <1>2, <1>3

\* A visitor that puts its plan in its place keeps the correspondence.
LEMMA PushPlan ==
  ASSUME NEW td, NEW p, NEW n \in Nat,
         Continuation(td), td # <<>>, Head(td).do # "leave",
         OuterPlan(p), Matches(td, n)
  PROVE  Continuation(p \o Tail(td)) /\ Matches(p \o Tail(td), n)
<1> DEFINE r == p \o Tail(td)
<1>0. IsSequence(td) /\ IsSequence(p)
  BY DEF Continuation, OuterPlan
<1>1. /\ IsSequence(r) /\ Len(p) \in Nat /\ Len(td) \in Nat \ {0}
      /\ DOMAIN td = 1 .. Len(td)
      /\ DOMAIN r = 1 .. Len(p) + Len(td) - 1
      /\ \A i \in 2 .. Len(td) : r[i + Len(p) - 1] = td[i]
      /\ td[1].do # "leave"
  BY <1>0, Splice
<1>2. \A i \in DOMAIN r :
         \/ i \in DOMAIN p /\ r[i] = p[i]
         \/ \E j \in DOMAIN td : j # 1 /\ i = j + Len(p) - 1 /\ r[i] = td[j]
  BY <1>0, SpliceIndices
<1> HIDE DEF r
<1>3. \A i \in DOMAIN p : p[i].do # "leave"
  BY DEF OuterPlan, Outer, Leafy, ScopeOf
<1>4. \A j \in DOMAIN td : j # 1 => td[j].do # "function"
  <2> SUFFICES ASSUME NEW j \in DOMAIN td, j # 1, td[j].do = "function"
               PROVE  FALSE
    OBVIOUS
  <2>1. ~Outer(td[j])
    BY DEF Outer, Leafy, ScopeOf
  <2> QED
    BY <1>1, <2>1 DEF Continuation
<1>5. Continuation(r)
  BY <1>1, <1>2, <1>4 DEF Continuation, OuterPlan
<1>6. \A i \in Leaves(r) : /\ i - Len(p) + 1 \in Leaves(td)
                           /\ r[i] = td[i - Len(p) + 1]
  <2> SUFFICES ASSUME NEW i \in Leaves(r)
               PROVE  i - Len(p) + 1 \in Leaves(td) /\ r[i] = td[i - Len(p) + 1]
    OBVIOUS
  <2>1. i \in DOMAIN r /\ r[i].do = "leave"
    BY DEF Leaves
  <2>2. PICK j \in DOMAIN td : i = j + Len(p) - 1 /\ r[i] = td[j]
    BY <1>2, <1>3, <2>1
  <2>3. i - Len(p) + 1 = j
    BY <1>1, <2>2
  <2> QED
    BY <2>1, <2>2, <2>3 DEF Leaves
<1>7. \A j \in Leaves(td) : /\ j + Len(p) - 1 \in Leaves(r)
                            /\ r[j + Len(p) - 1] = td[j]
  BY <1>1 DEF Leaves
<1>8. Leaves(td) \subseteq Int /\ Leaves(r) \subseteq Int
  BY <1>1 DEF Leaves
<1>9. Matches(r, n)
  <2>1. \A i \in Leaves(r) : r[i].depth \in 1 .. n
    BY <1>6 DEF Matches
  <2>2. ASSUME NEW i \in Leaves(r), NEW j \in Leaves(r), i < j
        PROVE  r[i].depth > r[j].depth
    <3>1. i - Len(p) + 1 < j - Len(p) + 1
      BY <1>1, <1>8, <2>2
    <3> QED
      BY <1>6, <3>1 DEF Matches
  <2>3. \A d \in 1 .. n : \E i \in Leaves(r) : r[i].depth = d
    BY <1>7 DEF Matches
  <2> QED
    BY <2>1, <2>2, <2>3 DEF Matches
<1> QED
  BY <1>5, <1>9 DEF r

\* A visitor that enters a scope also plans to leave it.
LEMMA PushScope ==
  ASSUME NEW td, NEW p, NEW n \in Nat,
         Continuation(td), td # <<>>, Head(td).do # "leave",
         OuterPlan(p), Matches(td, n)
  PROVE  /\ Continuation((p \o <<Leave(n + 1)>>) \o Tail(td))
         /\ Matches((p \o <<Leave(n + 1)>>) \o Tail(td), n + 1)
<1> DEFINE q == p \o <<Leave(n + 1)>>
           r == q \o Tail(td)
<1>0. /\ IsSequence(td) /\ IsSequence(p) /\ IsSequence(<<Leave(n + 1)>>)
      /\ Len(<<Leave(n + 1)>>) = 1 /\ <<Leave(n + 1)>>[1] = Leave(n + 1)
  BY Singleton DEF Continuation, OuterPlan
<1>1. /\ IsSequence(q) /\ Len(q) = Len(p) + 1
      /\ DOMAIN q = 1 .. Len(p) + 1
      /\ \A i \in 1 .. Len(p) + 1 :
            q[i] = IF i <= Len(p) THEN p[i] ELSE <<Leave(n + 1)>>[i - Len(p)]
  BY <1>0, Concatenation
<1>2. Len(p) \in Nat /\ DOMAIN p = 1 .. Len(p)
  BY <1>0, SequenceLength
<1>3. /\ \A i \in 1 .. Len(p) : q[i] = p[i] /\ q[i].do # "leave"
      /\ \A i \in 1 .. Len(p) : Outer(q[i])
      /\ q[Len(p) + 1] = Leave(n + 1)
  <2>1. \A i \in 1 .. Len(p) : q[i] = p[i]
    BY <1>1, <1>2
  <2>2. \A i \in 1 .. Len(p) : Outer(p[i])
    BY <1>2 DEF OuterPlan
  <2>3. q[Len(p) + 1] = Leave(n + 1)
    <3>1. ~(Len(p) + 1 <= Len(p)) /\ (Len(p) + 1) - Len(p) = 1
      BY <1>2
    <3> QED
      BY <1>0, <1>1, <1>2, <3>1
  <2>4. \A i \in 1 .. Len(p) : p[i].do # "leave"
    BY <2>2 DEF Outer, Leafy, ScopeOf
  <2> QED
    BY <2>1, <2>2, <2>3, <2>4
<1> HIDE DEF q
<1>4. /\ IsSequence(r) /\ Len(td) \in Nat \ {0}
      /\ DOMAIN td = 1 .. Len(td)
      /\ DOMAIN r = 1 .. Len(p) + Len(td)
      /\ \A i \in 1 .. Len(p) + 1 : r[i] = q[i]
      /\ \A i \in 2 .. Len(td) : r[i + Len(p)] = td[i]
      /\ td[1].do # "leave"
  <2>1. /\ IsSequence(r) /\ Len(td) \in Nat \ {0} /\ DOMAIN td = 1 .. Len(td)
        /\ DOMAIN r = 1 .. Len(q) + Len(td) - 1
        /\ \A i \in 1 .. Len(q) : r[i] = q[i]
        /\ \A i \in 2 .. Len(td) : r[i + Len(q) - 1] = td[i]
        /\ td[1].do # "leave"
    <3>1. IsSequence(td) /\ IsSequence(q)
      BY <1>0, <1>1
    <3>2. Head(td) = td[1]
      BY <3>1, Splice
    <3> QED
      BY <3>1, <3>2, Splice
  <2> HIDE DEF r
  <2>2. \A i \in 2 .. Len(td) : i + Len(q) - 1 = i + Len(p)
    BY <1>1, <1>2
  <2> QED
    BY <1>1, <1>2, <2>1, <2>2
<1> HIDE DEF r
<1>5. \A i \in DOMAIN r :
         \/ i \in 1 .. Len(p) + 1
         \/ i - Len(p) \in 2 .. Len(td) /\ r[i] = td[i - Len(p)]
  <2> TAKE i \in DOMAIN r
  <2>1. CASE i <= Len(p) + 1
    BY <1>2, <1>4, <2>1
  <2>2. CASE ~(i <= Len(p) + 1)
    <3>1. i - Len(p) \in 2 .. Len(td) /\ (i - Len(p)) + Len(p) = i
      BY <1>2, <1>4, <2>2
    <3> QED
      BY <1>4, <3>1
  <2> QED
    BY <2>1, <2>2
<1>6. Continuation(r)
  <2>1. \A j \in 2 .. Len(td) : td[j].do = "leave" \/ Outer(td[j])
    BY <1>4 DEF Continuation
  <2>2. Leave(n + 1).do = "leave"
    BY DEF Leave
  <2>3. \A i \in 1 .. Len(p) + 1 : i \in 1 .. Len(p) \/ i = Len(p) + 1
    BY <1>2
  <2>4. \A i \in DOMAIN r : Outer(r[i]) \/ r[i].do = "leave"
    BY <1>3, <1>4, <1>5, <2>1, <2>2, <2>3
  <2> QED
    BY <1>4, <2>4 DEF Continuation
<1> DEFINE k == Len(p) + 1
<1>7. /\ k \in Leaves(r) /\ r[k].depth = n + 1
      /\ \A i \in Leaves(r) : i # k => /\ i > k
                                       /\ i - Len(p) \in Leaves(td)
                                       /\ r[i] = td[i - Len(p)]
  <2>1. k \in DOMAIN r /\ r[k] = Leave(n + 1)
    BY <1>2, <1>3, <1>4
  <2>2. r[k].do = "leave" /\ r[k].depth = n + 1
    BY <2>1 DEF Leave
  <2>3. ASSUME NEW i \in Leaves(r), i # k
        PROVE  i > k /\ i - Len(p) \in Leaves(td) /\ r[i] = td[i - Len(p)]
    <3>1. i \in DOMAIN r /\ r[i].do = "leave"
      BY DEF Leaves
    <3>2. ~(i \in 1 .. Len(p))
      BY <1>2, <1>3, <1>4, <3>1
    <3>3. i - Len(p) \in 2 .. Len(td) /\ r[i] = td[i - Len(p)]
      BY <1>2, <1>5, <2>3, <3>1, <3>2
    <3>4. i \in Int
      BY <1>2, <1>4, <3>1
    <3> QED
      BY <1>2, <1>4, <3>1, <3>3, <3>4 DEF Leaves
  <2> QED
    BY <2>1, <2>2, <2>3 DEF Leaves
<1>8. \A j \in Leaves(td) : j + Len(p) \in Leaves(r) /\ r[j + Len(p)] = td[j]
  <2> TAKE j \in Leaves(td)
  <2>1. j \in 2 .. Len(td) /\ td[j].do = "leave"
    BY <1>4 DEF Leaves
  <2>2. j + Len(p) \in DOMAIN r
    BY <1>2, <1>4, <2>1
  <2> QED
    BY <1>4, <2>1, <2>2 DEF Leaves
<1>9. Leaves(td) \subseteq Int /\ Leaves(r) \subseteq Int
  BY <1>2, <1>4 DEF Leaves
<1> HIDE DEF k
<1>10. Matches(r, n + 1)
  <2>1. \A i \in Leaves(r) : i # k => r[i].depth \in 1 .. n
    BY <1>7 DEF Matches
  <2>2. ASSUME NEW i \in Leaves(r), NEW j \in Leaves(r), i < j
        PROVE  r[i].depth > r[j].depth
    <3>1. j # k
      BY <1>7, <1>9, <2>2
    <3>2. CASE i = k
      BY <1>7, <2>1, <3>1, <3>2
    <3>3. CASE i # k
      <4>1. i - Len(p) < j - Len(p)
        BY <1>2, <1>9, <2>2
      <4>2. /\ i - Len(p) \in Leaves(td) /\ j - Len(p) \in Leaves(td)
            /\ r[i] = td[i - Len(p)] /\ r[j] = td[j - Len(p)]
        BY <1>7, <3>1, <3>3
      <4> QED
        BY <4>1, <4>2 DEF Matches
    <3> QED
      BY <3>2, <3>3
  <2>3. ASSUME NEW d \in 1 .. n + 1
        PROVE  \E i \in Leaves(r) : r[i].depth = d
    <3>1. CASE d = n + 1
      BY <1>7, <3>1
    <3>2. CASE d # n + 1
      <4>1. d \in 1 .. n
        BY <3>2
      <4> QED
        BY <1>8, <4>1 DEF Matches
    <3> QED
      BY <3>1, <3>2
  <2>4. \A i \in Leaves(r) : r[i].depth \in 1 .. n + 1
    BY <1>7, <2>1
  <2> QED
    BY <2>2, <2>3, <2>4 DEF Matches
<1> QED
  BY <1>6, <1>10 DEF q, r

\* An item that leaves a scope leaves the innermost one.
LEMMA PopScope ==
  ASSUME NEW td, NEW n \in Nat,
         Continuation(td), td # <<>>, Head(td).do = "leave", Matches(td, n)
  PROVE  /\ n # 0
         /\ Continuation(<<>> \o Tail(td))
         /\ Matches(<<>> \o Tail(td), n - 1)
<1> DEFINE r == <<>> \o Tail(td)
<1>1. /\ IsSequence(td) /\ IsSequence(<<>>) /\ Len(<<>>) = 0
      /\ DOMAIN <<>> = {}
  BY Singleton DEF Continuation
<1>2. /\ IsSequence(r) /\ Len(td) \in Nat \ {0} /\ DOMAIN td = 1 .. Len(td)
      /\ DOMAIN r = 1 .. Len(td) - 1
      /\ \A i \in 2 .. Len(td) : r[i - 1] = td[i]
      /\ td[1].do = "leave"
  <2>1. /\ IsSequence(r) /\ Len(td) \in Nat \ {0} /\ DOMAIN td = 1 .. Len(td)
        /\ DOMAIN r = 1 .. 0 + Len(td) - 1
        /\ \A i \in 2 .. Len(td) : r[i + 0 - 1] = td[i]
        /\ td[1].do = "leave"
    <3> DEFINE q == <<>>
    <3>1. IsSequence(td) /\ IsSequence(q) /\ Len(q) = 0
      BY <1>1
    <3> HIDE DEF q
    <3>2. /\ IsSequence(q \o Tail(td))
          /\ Len(q) \in Nat /\ Len(td) \in Nat \ {0}
          /\ DOMAIN q = 1 .. Len(q) /\ DOMAIN td = 1 .. Len(td)
          /\ Len(q \o Tail(td)) = Len(q) + Len(td) - 1
          /\ DOMAIN (q \o Tail(td)) = 1 .. Len(q) + Len(td) - 1
          /\ \A i \in 1 .. Len(q) : (q \o Tail(td))[i] = q[i]
          /\ \A i \in 2 .. Len(td) : (q \o Tail(td))[i + Len(q) - 1] = td[i]
          /\ Head(td) = td[1]
      BY <3>1, Splice, Zenon
    <3> QED
      BY <3>1, <3>2 DEF q
  <2> HIDE DEF r
  <2> QED
    BY <2>1
<1> HIDE DEF r
<1>3. 1 \in Leaves(td) /\ Leaves(td) \subseteq Int
  BY <1>2 DEF Leaves
<1>4. n # 0
  BY <1>3 DEF Matches
<1>5. td[1].depth = n
  <2>1. PICK i \in Leaves(td) : td[i].depth = n
    BY <1>4 DEF Matches
  <2>2. i = 1 \/ 1 < i
    BY <1>2 DEF Leaves
  <2>3. td[1].depth \in 1 .. n
    BY <1>3 DEF Matches
  <2>4. ~(1 < i)
    BY <1>3, <2>1, <2>3 DEF Matches
  <2> QED
    BY <2>1, <2>2, <2>4
<1>6. \A i \in DOMAIN r : i + 1 \in DOMAIN td /\ i + 1 # 1 /\ r[i] = td[i + 1]
  <2> TAKE i \in DOMAIN r
  <2>1. i + 1 \in 2 .. Len(td) /\ (i + 1) - 1 = i
    BY <1>2
  <2> QED
    BY <1>2, <2>1
<1>7. Continuation(r)
  <2>1. \A j \in DOMAIN td : j # 1 => td[j].do = "leave" \/ Outer(td[j])
    BY <1>2 DEF Continuation
  <2> QED
    BY <1>2, <1>6, <2>1 DEF Continuation
<1>8. /\ \A i \in Leaves(r) : i + 1 \in Leaves(td) /\ r[i] = td[i + 1]
      /\ \A j \in Leaves(td) : j # 1 => j - 1 \in Leaves(r) /\ r[j - 1] = td[j]
      /\ Leaves(r) \subseteq Nat \ {0}
  BY <1>2, <1>6 DEF Leaves
<1>9. \A j \in Leaves(td) : j # 1 => td[j].depth \in 1 .. n - 1
  <2> TAKE j \in Leaves(td)
  <2> HAVE j # 1
  <2>1. 1 < j
    BY <1>2 DEF Leaves
  <2>2. td[1].depth > td[j].depth /\ td[j].depth \in 1 .. n
    BY <1>3, <2>1 DEF Matches
  <2> QED
    BY <1>5, <2>2
<1>10. Matches(r, n - 1)
  <2>1. \A i \in Leaves(r) : r[i].depth \in 1 .. n - 1
    <3> TAKE i \in Leaves(r)
    <3>1. i + 1 \in Leaves(td) /\ i + 1 # 1 /\ r[i] = td[i + 1]
      BY <1>8
    <3> QED
      BY <1>9, <3>1
  <2>2. ASSUME NEW i \in Leaves(r), NEW j \in Leaves(r), i < j
        PROVE  r[i].depth > r[j].depth
    <3>1. i + 1 < j + 1
      BY <1>8, <2>2
    <3> QED
      BY <1>8, <3>1 DEF Matches
  <2>3. ASSUME NEW d \in 1 .. n - 1
        PROVE  \E i \in Leaves(r) : r[i].depth = d
    <3>1. PICK j \in Leaves(td) : td[j].depth = d
      BY DEF Matches
    <3>2. j # 1
      BY <1>5, <3>1
    <3> QED
      BY <1>8, <3>1, <3>2
  <2> QED
    BY <2>1, <2>2, <2>3 DEF Matches
<1> QED
  BY <1>4, <1>7, <1>10 DEF r

-----------------------------------------------------------------------------
(* The plans of the visitors.                                              *)

\* Plans of four, six and three leafy items.
LEMMA LeafTuples ==
  ASSUME NEW a, NEW b, NEW c, Leafy(a), Leafy(b), Leafy(c)
  PROVE  /\ LeafPlan(<<a, b, c>>)
         /\ \A d, e : Leafy(d) /\ Leafy(e) => LeafPlan(<<a, b, c, d, e>>)
         /\ \A d, e, f : Leafy(d) /\ Leafy(e) /\ Leafy(f)
                            => LeafPlan(<<a, b, c, d, e, f>>)
<1>1. LeafPlan(<<a, b, c>>)
  <2>1. <<a, b, c>> \in Seq({a, b, c})
    OBVIOUS
  <2>2. IsSequence(<<a, b, c>>)
    BY <2>1, AnySequence
  <2>3. DOMAIN <<a, b, c>> = 1 .. 3
    OBVIOUS
  <2> QED
    BY <2>2, <2>3 DEF LeafPlan
<1>2. ASSUME NEW d, NEW e, Leafy(d), Leafy(e)
      PROVE  LeafPlan(<<a, b, c, d, e>>)
  <2>1. <<a, b, c, d, e>> \in Seq({a, b, c, d, e})
    OBVIOUS
  <2>2. IsSequence(<<a, b, c, d, e>>)
    BY <2>1, AnySequence
  <2>3. DOMAIN <<a, b, c, d, e>> = 1 .. 5
    OBVIOUS
  <2> QED
    BY <1>2, <2>2, <2>3 DEF LeafPlan
<1>3. ASSUME NEW d, NEW e, NEW f, Leafy(d), Leafy(e), Leafy(f)
      PROVE  LeafPlan(<<a, b, c, d, e, f>>)
  <2>1. <<a, b, c, d, e, f>> \in Seq({a, b, c, d, e, f})
    OBVIOUS
  <2>2. IsSequence(<<a, b, c, d, e, f>>)
    BY <2>1, AnySequence
  <2>3. DOMAIN <<a, b, c, d, e, f>> = 1 .. 6
    OBVIOUS
  <2> QED
    BY <1>3, <2>2, <2>3 DEF LeafPlan
<1> QED
  BY <1>1, <1>2, <1>3

\* The items that are neither a scope nor the end of one.
LEMMA LeafItems ==
  /\ \A ref : Leafy(LabelLine(ref)) /\ Leafy(Goto(ref))
  /\ \A table, ref : Leafy(Branch(table, ref))
  /\ \A name : Leafy(NewLabel(name)) /\ Leafy(Ask(name))
  /\ \A point : Leafy(Line(point))
  /\ \A n : Leafy(Epilogue(n))
  /\ Leafy(LineNumber)
  /\ \A c, point, yes, no : Leafy(Cond(c, point, yes, no))
  /\ \A n \in Nat : \A next, ctx : /\ Leafy(Block(n, next, ctx))
                                   /\ Leafy(Visit(n, next, ctx))
BY DEF Leafy, LabelLine, Goto, Branch, NewLabel, Ask, Line, Epilogue,
       LineNumber, Cond, Block, Visit

LEMMA BlockPlanIsLeafy ==
  ASSUME NEW first \in Nat \ {0}, NEW k \in Nat, NEW next, NEW ctx
  PROVE  LeafPlan(BlockPlan(first, k, next, ctx))
<1> DEFINE p == BlockPlan(first, k, next, ctx)
<1>1. DOMAIN p = 1 .. 2 * k
  BY DEF BlockPlan
<1>2. p = [i \in 1 .. 2 * k |-> p[i]]
  BY DEF BlockPlan
<1>3. ASSUME NEW i \in 1 .. 2 * k PROVE Leafy(p[i])
  <2>1. CASE i % 2 = 1
    <3>1. p[i] = LineNumber
      BY <2>1 DEF BlockPlan
    <3> QED
      BY <3>1, LeafItems
  <2>2. CASE i % 2 # 1
    <3>1. first + (i \div 2) - 1 \in Nat
      <4>1. i \div 2 \in Nat
        OBVIOUS
      <4> QED
        BY <4>1
    <3>2. p[i] = Visit(first + (i \div 2) - 1,
                       IF i = 2 * k THEN next ELSE StartOf(first + (i \div 2)),
                       ctx)
      BY <2>2 DEF BlockPlan
    <3> QED
      BY <3>1, <3>2, LeafItems
  <2> QED
    BY <2>1, <2>2
<1> HIDE DEF p
<1>4. IsSequence(p)
  <2> DEFINE m == 2 * k
             R == {p[i] : i \in DOMAIN p}
  <2>1. m \in Nat
    OBVIOUS
  <2>2. p \in [1 .. m -> R]
    BY <1>1, <1>2
  <2> HIDE DEF m, R
  <2>3. p \in Seq(R)
    BY <2>1, <2>2
  <2> QED
    BY <2>3 DEF IsSequence, R
<1> QED
  BY <1>1, <1>3, <1>4 DEF LeafPlan, p

\* A single scope around a plan without scopes.
LEMMA OneScope ==
  ASSUME NEW n \in Nat, NEW type \in ScopedType, NEW p,
         LeafPlan(p) \/ InnerPlan(p)
  PROVE  OuterPlan(<<InScope(n, type, p)>>)
<1>1. Outer(InScope(n, type, p))
  BY PlanInclusion DEF Outer, ScopeOf, InScope
<1> QED
  BY <1>1, ShortPlans

LEMMA WhilePlanIsOuter ==
  ASSUME NEW s, NEW body \in Nat, NEW c, s.node \in Nat
  PROVE  OuterPlan(WhilePlan(s, body, c))
<1> DEFINE p == <<LabelLine(Here("entry")),
                  Cond(c, CondOf(s.node), StartOf(body), s.next),
                  Branch("unless", Here("exit")),
                  Block(body, CondOf(s.node),
                        InLoop("while", s.next, CondOf(s.node))),
                  Goto(Here("entry")),
                  LabelLine(Here("exit"))>>
<1>1. LeafPlan(p)
  BY LeafItems, LeafTuples
<1>2. "while" \in ScopedType
  BY DEF ScopedType
<1>3. WhilePlan(s, body, c) = <<InScope(s.node, "while", p)>>
  BY DEF WhilePlan
<1> HIDE DEF p
<1> QED
  BY <1>1, <1>2, <1>3, OneScope

LEMMA DoPlanIsOuter ==
  ASSUME NEW s, NEW body \in Nat, NEW c, s.node \in Nat
  PROVE  OuterPlan(DoPlan(s, body, c))
<1> DEFINE back == IF c.form = "none" THEN Goto(Here("entry"))
                                      ELSE Branch("if", Here("entry"))
           p == <<LabelLine(Here("entry")),
                  Block(body, CondOf(s.node),
                        InLoop("do", s.next, CondOf(s.node))),
                  Cond(c, CondOf(s.node), StartOf(body), s.next),
                  back,
                  LabelLine(Here("exit"))>>
<1>0. Leafy(back)
  BY LeafItems
<1>1. LeafPlan(p)
  <2> HIDE DEF back
  <2> QED
    BY <1>0, LeafItems, LeafTuples
<1>2. "do" \in ScopedType
  BY DEF ScopedType
<1>3. DoPlan(s, body, c) = <<InScope(s.node, "do", p)>>
  BY DEF DoPlan
<1> HIDE DEF p
<1> QED
  BY <1>1, <1>2, <1>3, OneScope

LEMMA ForPlanIsOuter ==
  ASSUME NEW s, NEW body \in Nat, NEW c, NEW full, s.node \in Nat
  PROVE  OuterPlan(ForPlan(s, body, c, full))
<1> DEFINE forCond == Saved(<<s.node, "for", "for_cond">>)
           Only(when, plan) == IF when THEN plan ELSE <<>>
           first  == <<NewLabel("for_cond"), LabelLine(forCond),
                       Cond(c, CondOf(s.node), StartOf(body), s.next)>>
           exit   == Only(c.form # "none", <<Branch("unless", Here("exit"))>>)
           middle == <<Block(body, StepOf(s.node),
                             InLoop("for", s.next, StepOf(s.node))),
                       LabelLine(Here("entry"))>>
           step   == Only(full, <<Line(StepOf(s.node))>>)
           last   == <<Goto(forCond), LabelLine(Here("exit"))>>
           init   == Only(full, <<Line(InitOf(s.node))>>)
           p      == first \o exit \o middle \o step \o last
<1>1. LeafPlan(first) /\ LeafPlan(exit) /\ LeafPlan(middle)
  BY LeafItems, LeafTuples, ShortPlans
<1>2. LeafPlan(step) /\ LeafPlan(last) /\ LeafPlan(init)
  BY LeafItems, ShortPlans
<1>3. ForPlan(s, body, c, full) = init \o <<InScope(s.node, "for", p)>>
  BY DEF ForPlan
<1>4. "for" \in ScopedType
  BY DEF ScopedType
<1> HIDE DEF first, exit, middle, step, last, init
<1>5. LeafPlan(p)
  BY <1>1, <1>2, LeafConcatenation
<1> HIDE DEF p
<1>6. OuterPlan(<<InScope(s.node, "for", p)>>)
  BY <1>4, <1>5, OneScope
<1>7. OuterPlan(init)
  BY <1>2, PlanInclusion
<1> QED
  BY <1>3, <1>6, <1>7, OuterConcatenation

LEMMA IfPlanIsOuter ==
  ASSUME NEW s, NEW cs, NEW hasElse, s.node \in Nat, nodes \in Nat,
         Len(cs) \in Nat \ {0}
  PROVE  OuterPlan(IfPlan(s, cs, hasElse))
<1> DEFINE n         == s.node
           branch(i) == IF i = 1 THEN n ELSE nodes + 2 * i - 2
           block(i)  == nodes + 2 * i - 1
           else      == nodes + 2 * Len(cs)
           otherwise(i) == IF i < Len(cs) THEN CondOf(branch(i + 1))
                           ELSE IF hasElse THEN StartOf(else) ELSE s.next
           ifExit == Saved(<<n, "if", "exit">>)
           ifEnd  == Saved(<<n, "if", "stmt_end">>)
           Arm(i, exit) ==
              <<Cond(cs[i], CondOf(branch(i)), StartOf(block(i)), otherwise(i)),
                Branch("unless", exit),
                LabelLine(Here("entry")),
                Block(block(i), s.next, s.ctx),
                Goto(ifEnd),
                LabelLine(exit)>>
           elseIf(i) == InScope(branch(i + 1), "else_if",
                                Arm(i + 1, Here("exit")))
           elseIfs == [i \in 1 .. Len(cs) - 1 |-> elseIf(i)]
           ask     == <<Ask("exit"), NewLabel("stmt_end")>>
           tail    == IF hasElse THEN <<Block(else, s.next, s.ctx)>> ELSE <<>>
           end     == <<LabelLine(ifEnd)>>
           p       == ask \o Arm(1, ifExit) \o elseIfs \o tail \o end
<1>1. IfPlan(s, cs, hasElse) = <<InScope(n, "if", p)>>
  BY DEF IfPlan
<1>2. \A i \in 1 .. Len(cs) : \A exit : LeafPlan(Arm(i, exit))
  <2> SUFFICES ASSUME NEW i \in 1 .. Len(cs), NEW exit
               PROVE  LeafPlan(Arm(i, exit))
    OBVIOUS
  <2>1. block(i) \in Nat
    OBVIOUS
  <2> HIDE DEF block, branch, otherwise, ifEnd
  <2> QED
    BY <2>1, LeafItems, LeafTuples
<1>3. \A i \in 1 .. Len(cs) - 1 : Inner(elseIf(i))
  <2> SUFFICES ASSUME NEW i \in 1 .. Len(cs) - 1 PROVE Inner(elseIf(i))
    OBVIOUS
  <2>1. branch(i + 1) \in Nat
    OBVIOUS
  <2>2. LeafPlan(Arm(i + 1, Here("exit")))
    <3>1. i + 1 \in 1 .. Len(cs)
      OBVIOUS
    <3> HIDE DEF Arm
    <3> QED
      BY <1>2, <3>1
  <2> HIDE DEF Arm, branch
  <2> QED
    BY <2>1, <2>2 DEF Inner, ScopeOf, InScope, ScopedType
<1> HIDE DEF elseIf
<1>4. InnerPlan(elseIfs)
  <2>1. DOMAIN elseIfs = 1 .. Len(cs) - 1 /\ Len(cs) - 1 \in Nat
    OBVIOUS
  <2>2. elseIfs \in [1 .. Len(cs) - 1 -> {elseIfs[i] : i \in DOMAIN elseIfs}]
    OBVIOUS
  <2>3. IsSequence(elseIfs)
    BY <2>1, <2>2 DEF IsSequence
  <2> QED
    BY <1>3, <2>1, <2>3 DEF InnerPlan
<1>5. LeafPlan(Arm(1, ifExit))
  <2> HIDE DEF Arm
  <2> QED
    BY <1>2
<1>6. LeafPlan(ask) /\ LeafPlan(end)
  BY LeafItems, ShortPlans
<1>7. LeafPlan(tail)
  <2>1. else \in Nat
    OBVIOUS
  <2> QED
    BY <2>1, LeafItems, ShortPlans
<1> HIDE DEF Arm, ask, end, tail, elseIfs
<1>8. InnerPlan(p)
  BY <1>4, <1>5, <1>6, <1>7, PlanInclusion, InnerConcatenation
<1>9. "if" \in ScopedType
  BY DEF ScopedType
<1> HIDE DEF p
<1> QED
  BY <1>1, <1>8, <1>9, OneScope

-----------------------------------------------------------------------------
(* The inductive invariant.  Generation that failed has dropped its        *)
(* continuation: the scopes that were open then stay open.                 *)

IInv ==
    /\ nodes \in Nat
    /\ labelCount \in Nat
    /\ scopeStack \in Seq([loc : Nat, type : ScopedType])
    /\ LoopsCounted
    /\ Continuation(todo)
    /\ phase # "failed" => Matches(todo, Len(scopeStack))

\* The scopes that count as loops, when nothing is open, when a scope is
\* entered and when one is left.
LEMMA NoLoopsOpen ==
  ASSUME scopeStack = <<>>
  PROVE  OpenLoops = {} /\ Cardinality(OpenLoops) = 0
BY FS_EmptySet DEF OpenLoops

LEMMA FiniteLoops ==
  ASSUME scopeStack \in Seq([loc : Nat, type : ScopedType])
  PROVE  IsFiniteSet(OpenLoops) /\ Cardinality(OpenLoops) \in Nat
<1>1. OpenLoops \in SUBSET (1 .. Len(scopeStack)) /\ Len(scopeStack) \in Nat
  BY DEF OpenLoops
<1>2. IsFiniteSet(1 .. Len(scopeStack))
  BY <1>1, FS_Interval
<1> QED
  BY <1>1, <1>2, FS_Subset, FS_CardinalityType

LEMMA EnterScopeCounts ==
  ASSUME NEW loc \in Nat, NEW type \in ScopedType, LoopsCounted,
         scopeStack \in Seq([loc : Nat, type : ScopedType]),
         EnterScope(loc, type)
  PROVE  /\ scopeStack' \in Seq([loc : Nat, type : ScopedType])
         /\ Len(scopeStack') = Len(scopeStack) + 1
         /\ LoopsCounted'
<1> DEFINE n == Len(scopeStack)
<1>1. /\ n \in Nat /\ DOMAIN scopeStack = 1 .. n
      /\ scopeStack' \in Seq([loc : Nat, type : ScopedType])
      /\ Len(scopeStack') = n + 1
      /\ DOMAIN scopeStack' = 1 .. n + 1
      /\ \A i \in 1 .. n : scopeStack'[i] = scopeStack[i]
      /\ scopeStack'[n + 1].type = type
  BY DEF EnterScope
<1>2. CASE type \in LoopType
  <2>1. OpenLoops' = OpenLoops \union {n + 1} /\ n + 1 \notin OpenLoops
    BY <1>1, <1>2 DEF OpenLoops
  <2>2. Cardinality(OpenLoops') = Cardinality(OpenLoops) + 1
    BY <2>1, FiniteLoops, FS_AddElement
  <2> QED
    BY <1>1, <1>2, <2>2 DEF EnterScope, LoopsCounted
<1>3. CASE type \notin LoopType
  <2>1. OpenLoops' = OpenLoops
    BY <1>1, <1>3 DEF OpenLoops
  <2> QED
    BY <1>1, <1>3, <2>1 DEF EnterScope, LoopsCounted
<1> QED
  BY <1>2, <1>3

LEMMA LeaveScopeCounts ==
  ASSUME LoopsCounted, LeaveScope,
         scopeStack \in Seq([loc : Nat, type : ScopedType])
  PROVE  /\ scopeStack' \in Seq([loc : Nat, type : ScopedType])
         /\ Len(scopeStack') = Len(scopeStack) - 1
         /\ LoopsCounted'
<1> DEFINE n == Len(scopeStack)
<1>1. /\ n \in Nat \ {0} /\ DOMAIN scopeStack = 1 .. n
      /\ scopeStack' \in Seq([loc : Nat, type : ScopedType])
      /\ Len(scopeStack') = n - 1
      /\ \A i \in 1 .. n - 1 : scopeStack'[i] = scopeStack[i]
  <2>1. n \in Nat \ {0} /\ DOMAIN scopeStack = 1 .. n
    BY EmptySeq DEF LeaveScope
  <2>2. \A i \in 1 .. n - 1 : scopeStack[i] \in [loc : Nat, type : ScopedType]
    <3> SUFFICES ASSUME NEW i \in 1 .. n - 1
                 PROVE  scopeStack[i] \in [loc : Nat, type : ScopedType]
      OBVIOUS
    <3>1. i \in 1 .. Len(scopeStack)
      BY <2>1
    <3> QED
      BY <3>1, ElementOfSeq
  <2>3. scopeStack' = SubSeq(scopeStack, 1, n - 1)
    BY DEF LeaveScope
  <2> HIDE DEF n
  <2> QED
    BY <2>1, <2>2, <2>3, SubSeqProperties
<1>2. DOMAIN scopeStack' = 1 .. n - 1
  BY <1>1
<1>0. Innermost = scopeStack[n]
  BY DEF Innermost
<1> HIDE DEF n
<1>3. CASE Innermost.type \in LoopType
  <2>1. n \in OpenLoops
    BY <1>0, <1>1, <1>3 DEF OpenLoops
  <2>2. OpenLoops' = OpenLoops \ {n}
    <3>1. \A i : i \in 1 .. n - 1 <=> i \in 1 .. n /\ i # n
      BY <1>1
    <3>2. OpenLoops' = {i \in 1 .. n - 1 : scopeStack[i].type \in LoopType}
      BY <1>1, <1>2 DEF OpenLoops
    <3>3. OpenLoops = {i \in 1 .. n : scopeStack[i].type \in LoopType}
      BY <1>1 DEF OpenLoops
    <3> QED
      BY <3>1, <3>2, <3>3
  <2>3. Cardinality(OpenLoops') = Cardinality(OpenLoops) - 1
    BY <2>1, <2>2, FiniteLoops, FS_RemoveElement
  <2> QED
    BY <1>1, <1>3, <2>3 DEF LeaveScope, LoopsCounted
<1>4. CASE Innermost.type \notin LoopType
  <2>1. OpenLoops' = OpenLoops
    <3>1. n \notin OpenLoops
      BY <1>0, <1>4 DEF OpenLoops
    <3>2. \A i : i \in 1 .. n - 1 <=> i \in 1 .. n /\ i # n
      BY <1>1
    <3>3. OpenLoops' = {i \in 1 .. n - 1 : scopeStack[i].type \in LoopType}
      BY <1>1, <1>2 DEF OpenLoops
    <3>4. OpenLoops = {i \in 1 .. n : scopeStack[i].type \in LoopType}
      BY <1>1 DEF OpenLoops
    <3> QED
      BY <3>1, <3>2, <3>3, <3>4
  <2> QED
    BY <1>1, <1>4, <2>1 DEF LeaveScope, LoopsCounted
<1> QED
  BY <1>1, <1>3, <1>4

\* A step that puts a plan in the place of the head and leaves the scopes be.
LEMMA PlanStep ==
  ASSUME IInv, Generating, Head(todo).do # "leave",
         NEW p, OuterPlan(p), Continue(p),
         UNCHANGED <<phase, scopeStack, loopCount>>,
         nodes' \in Nat, labelCount' \in Nat
  PROVE  IInv'
<1> DEFINE n == Len(scopeStack)
<1>1. n \in Nat /\ todo # <<>> /\ phase = "gen"
  BY LenProperties DEF IInv, Generating
<1>2. Continuation(todo) /\ Matches(todo, n)
  BY <1>1 DEF IInv
<1>3. todo' = p \o Tail(todo)
  BY DEF Continue
<1> HIDE DEF n
<1>4. Continuation(p \o Tail(todo)) /\ Matches(p \o Tail(todo), n)
  BY <1>1, <1>2, PushPlan
<1>5. Continuation(todo') /\ Matches(todo', n)
  BY <1>3, <1>4
<1>6. LoopsCounted'
  BY DEF IInv, LoopsCounted, OpenLoops
<1> QED
  BY <1>5, <1>6 DEF IInv, n

\* When nothing is left to do, or a function is about to start, no scope is
\* open.
LEMMA NothingOpen ==
  ASSUME IInv, phase # "failed",
         todo = <<>> \/ (todo # <<>> /\ Head(todo).do = "function")
  PROVE  scopeStack = <<>>
<1>1. Leaves(todo) = {}
  <2>1. CASE todo = <<>>
    BY <2>1 DEF Leaves
  <2>2. CASE todo # <<>> /\ Head(todo).do = "function"
    <3>1. /\ IsSequence(todo) /\ Len(todo) \in Nat /\ Head(todo) = todo[1]
          /\ DOMAIN todo = 1 .. Len(todo) /\ 1 \in DOMAIN todo
      BY <2>2, HeadAndTail DEF IInv, Continuation
    <3>2. ~Outer(todo[1])
      BY <2>2, <3>1 DEF Outer, Leafy, ScopeOf
    <3>3. Len(todo) = 1
      BY <2>2, <3>1, <3>2 DEF IInv, Continuation
    <3> QED
      BY <2>2, <3>1, <3>3 DEF Leaves
  <2> QED
    BY <2>1, <2>2
<1>2. Matches(todo, Len(scopeStack)) /\ Len(scopeStack) \in Nat
  BY LenProperties DEF IInv
<1>3. Len(scopeStack) = 0
  BY <1>1, <1>2 DEF Matches
<1> QED
  BY <1>3, EmptySeq DEF IInv

\* The initial state satisfies the invariant.
LEMMA InitInvariant == Init => IInv
<1> SUFFICES ASSUME Init PROVE IInv
  OBVIOUS
<1>1. scopeStack = <<>> /\ loopCount = 0 /\ labelCount = 0 /\ nodes = 0
      /\ todo = <<Function>>
  BY DEF Init, LabelManagerInit
<1>2. LoopsCounted
  BY <1>1, NoLoopsOpen DEF LoopsCounted
<1>3. IsSequence(todo) /\ DOMAIN todo = 1 .. 1 /\ todo[1] = Function /\ Len(todo) = 1
  <2> DEFINE f == Function
  <2>1. IsSequence(<<f>>) /\ Len(<<f>>) = 1 /\ <<f>>[1] = f
    BY Singleton
  <2>2. DOMAIN <<f>> = 1 .. 1
    BY <2>1, SequenceLength
  <2> QED
    BY <1>1, <2>1, <2>2
<1>4. Function.do = "function"
  BY DEF Function
<1>5. Continuation(todo)
  BY <1>3, <1>4 DEF Continuation
<1>6. Len(scopeStack) = 0 /\ scopeStack \in Seq([loc : Nat, type : ScopedType])
  BY <1>1
<1>7. Matches(todo, 0)
  BY <1>3, <1>4 DEF Matches, Leaves
<1> QED
  BY <1>1, <1>2, <1>5, <1>6, <1>7 DEF IInv

\* The kinds of item at the head; what a visit to a statement knows of it.
LEMMA HeadItem ==
  ASSUME IInv, NEW kind, Do(kind)
  PROVE  /\ Generating /\ phase = "gen" /\ todo # <<>> /\ Head(todo).do = kind
         /\ kind \in {"stmt", "block"} => Head(todo).node \in Nat
         /\ kind = "scope" => ScopeOf(Head(todo)) /\ InnerPlan(Head(todo).plan)
<1>1. Generating /\ phase = "gen" /\ todo # <<>> /\ Head(todo).do = kind
  BY DEF Do, Generating, h
<1>2. Head(todo) = todo[1] /\ 1 \in DOMAIN todo
  BY <1>1, HeadAndTail DEF IInv, Continuation
<1>3. kind \in {"stmt", "block", "scope"} => Outer(Head(todo))
  BY <1>1, <1>2 DEF IInv, Continuation
<1> QED
  BY <1>1, <1>3 DEF Outer, Leafy, ScopeOf

\* The visits to statements and blocks.
LEMMA VisitsKeepInvariant ==
  ASSUME IInv, \/ VisitSimple \/ VisitReturn \/ VisitBreak \/ VisitContinue
               \/ VisitIf \/ VisitWhile \/ VisitDo \/ VisitFor \/ VisitBlock
  PROVE  IInv'
<1> USE DEF lmVars
<1>0. nodes \in Nat /\ labelCount \in Nat
  BY DEF IInv
<1>2. CASE VisitSimple \/ VisitReturn \/ VisitBreak \/ VisitContinue
  <2>1. OuterPlan(<<>>)
    BY ShortPlans, PlanInclusion
  <2> QED
    BY <1>0, <1>2, <2>1, HeadItem, PlanStep
    DEF VisitSimple, VisitReturn, VisitBreak, VisitContinue
<1>3. CASE VisitIf
  <2>1. PICK m \in 0 .. MaxElseIf, c \in Conds["if"], hasElse \in BOOLEAN :
        \E cs \in [1 .. m -> Conds["else_if"]] :
           /\ nodes' = nodes + 2 * m + (IF hasElse THEN 2 ELSE 1)
           /\ Continue(IfPlan(h, <<c>> \o cs, hasElse))
    BY <1>3 DEF VisitIf
  <2>2. PICK cs \in [1 .. m -> Conds["else_if"]] :
           /\ nodes' = nodes + 2 * m + (IF hasElse THEN 2 ELSE 1)
           /\ Continue(IfPlan(h, <<c>> \o cs, hasElse))
    BY <2>1
  <2>3. nodes' \in Nat
    BY <1>0, <2>2
  <2>4. Do("stmt") /\ UNCHANGED <<phase, scopeStack, loopCount, labelCount>>
    BY <1>3 DEF VisitIf
  <2>5. h.node \in Nat
    BY <2>4, HeadItem DEF h
  <2>6. Len(<<c>> \o cs) \in Nat \ {0}
    <3>1. cs \in Seq(Conds["else_if"])
      OBVIOUS
    <3>2. IsSequence(cs) /\ IsSequence(<<c>>) /\ Len(<<c>>) = 1
      BY <3>1, AnySequence, Singleton
    <3>3. Len(cs) \in Nat /\ Len(<<c>> \o cs) = 1 + Len(cs)
      BY <3>2, SequenceLength, Concatenation
    <3> QED
      BY <3>3
  <2>7. OuterPlan(IfPlan(h, <<c>> \o cs, hasElse))
    BY <1>0, <2>5, <2>6, IfPlanIsOuter
  <2> QED
    BY <1>0, <2>2, <2>3, <2>4, <2>7, HeadItem, PlanStep
<1>4. CASE VisitWhile
  <2>1. PICK c \in Conds["while"] : Continue(WhilePlan(h, nodes', c))
    BY <1>4 DEF VisitWhile
  <2>2. nodes' \in Nat /\ Do("stmt")
        /\ UNCHANGED <<phase, scopeStack, loopCount, labelCount>>
    BY <1>0, <1>4 DEF VisitWhile
  <2>3. OuterPlan(WhilePlan(h, nodes', c))
    BY <2>2, HeadItem, WhilePlanIsOuter DEF h
  <2> QED
    BY <1>0, <2>1, <2>2, <2>3, HeadItem, PlanStep
<1>5. CASE VisitDo
  <2>1. PICK c \in Conds["do"] : Continue(DoPlan(h, nodes', c))
    BY <1>5 DEF VisitDo
  <2>2. nodes' \in Nat /\ Do("stmt")
        /\ UNCHANGED <<phase, scopeStack, loopCount, labelCount>>
    BY <1>0, <1>5 DEF VisitDo
  <2>3. OuterPlan(DoPlan(h, nodes', c))
    BY <2>2, HeadItem, DoPlanIsOuter DEF h
  <2> QED
    BY <1>0, <2>1, <2>2, <2>3, HeadItem, PlanStep
<1>6. CASE VisitFor
  <2>1. PICK c \in Conds["for"], full \in BOOLEAN :
           Continue(ForPlan(h, nodes', c, full))
    BY <1>6 DEF VisitFor
  <2>2. nodes' \in Nat /\ Do("stmt")
        /\ UNCHANGED <<phase, scopeStack, loopCount, labelCount>>
    BY <1>0, <1>6 DEF VisitFor
  <2>3. OuterPlan(ForPlan(h, nodes', c, full))
    BY <2>2, HeadItem, ForPlanIsOuter DEF h
  <2> QED
    BY <1>0, <2>1, <2>2, <2>3, HeadItem, PlanStep
<1>7. CASE VisitBlock
  <2>1. PICK k \in 0 .. MaxBlock :
           /\ nodes' = nodes + k
           /\ Continue(BlockPlan(nodes + 1, k, h.next, h.ctx))
    BY <1>7 DEF VisitBlock
  <2>2. nodes' \in Nat /\ k \in Nat /\ nodes + 1 \in Nat \ {0}
    BY <1>0, <2>1
  <2>3. OuterPlan(BlockPlan(nodes + 1, k, h.next, h.ctx))
    BY <2>2, BlockPlanIsLeafy, PlanInclusion
  <2>4. Do("block") /\ UNCHANGED <<phase, scopeStack, loopCount, labelCount>>
    BY <1>7 DEF VisitBlock
  <2> QED
    BY <1>0, <2>1, <2>2, <2>3, <2>4, HeadItem, PlanStep
<1> QED
  BY <1>2, <1>3, <1>4, <1>5, <1>6, <1>7

\* The visits to conditions.
LEMMA CondsKeepInvariant ==
  ASSUME IInv, VisitAtom \/ VisitLogical \/ SkipCond
  PROVE  IInv'
<1> USE DEF lmVars
<1>0. nodes \in Nat /\ labelCount \in Nat
  BY DEF IInv
<1>1. CASE VisitAtom \/ SkipCond
  <2>1. OuterPlan(<<>>)
    BY ShortPlans, PlanInclusion
  <2> QED
    BY <1>0, <1>1, <2>1, HeadItem, PlanStep DEF VisitAtom, SkipCond
<1>2. CASE VisitLogical
  <2>1. PICK p : Continue(p) /\ OuterPlan(p)
    <3> DEFINE l == Operand(h.point, "l")
               r == Operand(h.point, "r")
               and == <<Cond(h.cond.lhs, l, r, h.no),
                        Branch("unless", Here("exit")),
                        Cond(h.cond.rhs, r, h.yes, h.no)>>
               or  == <<Cond(h.cond.lhs, l, h.yes, r),
                        Branch("if", Here("entry")),
                        Cond(h.cond.rhs, r, h.yes, h.no)>>
    <3>1. LeafPlan(and) /\ LeafPlan(or)
      BY LeafItems, LeafTuples
    <3>2. Continue(IF h.cond.form = "and" THEN and ELSE or)
      BY <1>2 DEF VisitLogical
    <3> HIDE DEF and, or
    <3>3. OuterPlan(IF h.cond.form = "and" THEN and ELSE or)
      BY <3>1, PlanInclusion
    <3> QED
      BY <3>2, <3>3
  <2>2. Do("cond") /\ UNCHANGED <<phase, scopeStack, loopCount, labelCount, nodes>>
    BY <1>2 DEF VisitLogical
  <2> QED
    BY <1>0, <2>1, <2>2, HeadItem, PlanStep
<1> QED
  BY <1>1, <1>2

\* The items that write a line or ask for a label.
LEMMA LinesKeepInvariant ==
  ASSUME IInv, \/ EmitLabel \/ EmitGoto \/ EmitBranch \/ EmitLine \/ EmitAct
               \/ AskLabel \/ NameLabel \/ EndFunction
  PROVE  IInv'
<1> USE DEF lmVars
<1>0. nodes \in Nat /\ labelCount \in Nat /\ labelCount + 1 \in Nat
  BY DEF IInv
<1>1. OuterPlan(<<>>)
  BY ShortPlans, PlanInclusion
<1>2. ASSUME NEW ref, Named(ref)
      PROVE  UNCHANGED <<scopeStack, loopCount, labelCount>>
  BY <1>2 DEF Named, Record
<1>3. CASE EmitLabel \/ EmitGoto \/ EmitBranch
  BY <1>0, <1>1, <1>2, <1>3, HeadItem, PlanStep
  DEF EmitLabel, EmitGoto, EmitBranch
<1>4. CASE EmitLine
  BY <1>0, <1>1, <1>4, HeadItem, PlanStep DEF EmitLine, GenerateLineLabel
<1>5. CASE EmitAct \/ EndFunction
  BY <1>0, <1>1, <1>5, HeadItem, PlanStep DEF EmitAct, EndFunction
<1>6. CASE AskLabel \/ NameLabel
  BY <1>0, <1>1, <1>6, HeadItem, PlanStep
  DEF AskLabel, NameLabel, GenerateLabel, Record
<1> QED
  BY <1>3, <1>4, <1>5, <1>6

\* Entering and leaving a scope.
LEMMA ScopesKeepInvariant ==
  ASSUME IInv, OpenScope \/ CloseScope
  PROVE  IInv'
<1> DEFINE n == Len(scopeStack)
<1>0. n \in Nat /\ Continuation(todo)
  BY LenProperties DEF IInv
<1>1. CASE OpenScope
  <2>1. /\ Do("scope") /\ EnterScope(h.node, h.type)
        /\ Continue(h.plan \o <<Leave(n + 1)>>)
        /\ UNCHANGED <<phase, nodes>>
    BY <1>1 DEF OpenScope
  <2>2. /\ phase = "gen" /\ todo # <<>> /\ Head(todo).do = "scope"
        /\ ScopeOf(h) /\ OuterPlan(h.plan)
    BY <2>1, HeadItem, PlanInclusion DEF h
  <2>3. /\ scopeStack' \in Seq([loc : Nat, type : ScopedType])
        /\ Len(scopeStack') = n + 1
        /\ LoopsCounted'
    BY <2>1, <2>2, EnterScopeCounts DEF IInv, ScopeOf
  <2>4. Matches(todo, n)
    BY <2>2 DEF IInv
  <2>5. todo' = (h.plan \o <<Leave(n + 1)>>) \o Tail(todo)
    BY <2>1 DEF Continue
  <2> HIDE DEF n
  <2>6. Continuation(todo') /\ Matches(todo', n + 1)
    BY <1>0, <2>2, <2>4, <2>5, PushScope
  <2> QED
    BY <2>1, <2>2, <2>3, <2>6 DEF IInv, EnterScope
<1>2. CASE CloseScope
  <2>1. Do("leave") /\ LeaveScope /\ Continue(<<>>) /\ UNCHANGED <<phase, nodes>>
    BY <1>2 DEF CloseScope
  <2>2. phase = "gen" /\ todo # <<>> /\ Head(todo).do = "leave"
    BY <2>1, HeadItem
  <2>3. /\ scopeStack' \in Seq([loc : Nat, type : ScopedType])
        /\ Len(scopeStack') = n - 1
        /\ LoopsCounted'
    BY <2>1, LeaveScopeCounts DEF IInv
  <2>4. Matches(todo, n)
    BY <2>2 DEF IInv
  <2>5. todo' = <<>> \o Tail(todo)
    BY <2>1 DEF Continue
  <2> HIDE DEF n
  <2>6. Continuation(todo') /\ Matches(todo', n - 1)
    BY <1>0, <2>2, <2>4, <2>5, PopScope
  <2> QED
    BY <2>1, <2>2, <2>3, <2>6 DEF IInv, LeaveScope
<1> QED
  BY <1>1, <1>2

\* From one function to the next, and when generation fails.
LEMMA FunctionsKeepInvariant ==
  ASSUME IInv, \/ StartFunction \/ SkipPrototype \/ MissingReturn
               \/ NextFunction \/ Fail
  PROVE  IInv'
<1> USE DEF lmVars
<1>1. CASE StartFunction
  <2>1. PICK k \in 1 .. MaxBlock :
           /\ nodes' = 1 + k
           /\ Continue(BlockPlan(2, k, Halt, NoLoop) \o <<Epilogue(1 + k)>>)
    BY <1>1 DEF StartFunction
  <2> DEFINE p == BlockPlan(2, k, Halt, NoLoop) \o <<Epilogue(1 + k)>>
  <2>2. /\ Do("function") /\ UNCHANGED <<phase, loopCount>>
        /\ scopeStack' = <<>> /\ labelCount' = 0
    BY <1>1 DEF StartFunction, ResetLables
  <2>3. phase = "gen" /\ todo # <<>> /\ Head(todo).do = "function" /\ Generating
    BY <2>2, HeadItem
  <2>4. scopeStack = <<>>
    BY <2>3, NothingOpen
  <2>5. OuterPlan(p)
    <3>1. LeafPlan(BlockPlan(2, k, Halt, NoLoop))
      BY BlockPlanIsLeafy
    <3>2. LeafPlan(<<Epilogue(1 + k)>>)
      BY LeafItems, ShortPlans
    <3> QED
      BY <3>1, <3>2, LeafConcatenation, PlanInclusion
  <2>6. Continue(p) /\ nodes' \in Nat
    BY <2>1
  <2> HIDE DEF p
  <2> QED
    BY <2>2, <2>3, <2>4, <2>5, <2>6, PlanStep
<1>2. CASE NextFunction
  <2>1. /\ phase = "gen" /\ todo = <<>> /\ todo' = <<Function>> /\ nodes' = 0
        /\ UNCHANGED <<phase, scopeStack, loopCount, labelCount>>
    BY <1>2 DEF NextFunction
  <2>2. scopeStack = <<>>
    BY <2>1, NothingOpen
  <2> DEFINE f == Function
  <2>3. IsSequence(<<f>>) /\ Len(<<f>>) = 1 /\ <<f>>[1] = f
    BY Singleton
  <2>4. DOMAIN <<f>> = 1 .. 1 /\ f.do = "function"
    BY <2>3, SequenceLength DEF Function
  <2> HIDE DEF f
  <2>5. Continuation(<<f>>) /\ Matches(<<f>>, 0)
    BY <2>3, <2>4 DEF Continuation, Matches, Leaves
  <2>6. Continuation(todo') /\ Matches(todo', 0)
    BY <2>1, <2>5 DEF f
  <2>7. Len(scopeStack') = 0
    BY <2>1, <2>2
  <2>8. LoopsCounted'
    BY <2>1 DEF IInv, LoopsCounted, OpenLoops
  <2> QED
    BY <2>1, <2>6, <2>7, <2>8 DEF IInv
<1>3. CASE SkipPrototype \/ MissingReturn
  <2>1. /\ Do("function") /\ scopeStack' = <<>> /\ labelCount' = 0
        /\ UNCHANGED <<nodes, loopCount>>
    BY <1>3 DEF SkipPrototype, MissingReturn, ResetLables, genVars
  <2>2. phase = "gen" /\ todo # <<>> /\ Head(todo).do = "function"
    BY <2>1, HeadItem
  <2>3. scopeStack = <<>>
    BY <2>2, NothingOpen
  <2>4. \/ UNCHANGED <<phase, todo>>
        \/ phase' = "failed" /\ todo' = <<>>
    BY <1>3 DEF SkipPrototype, MissingReturn, genVars
  <2>5. Continuation(todo')
    BY <2>4, Singleton DEF IInv, Continuation
  <2>6. LoopsCounted'
    BY <2>1, <2>3 DEF IInv, LoopsCounted, OpenLoops
  <2>7. phase' # "failed" => Matches(todo', Len(scopeStack'))
    BY <2>1, <2>2, <2>3, <2>4 DEF IInv
  <2> QED
    BY <2>1, <2>3, <2>5, <2>6, <2>7 DEF IInv
<1>4. CASE Fail
  <2>1. /\ phase' = "failed" /\ todo' = <<>>
        /\ UNCHANGED <<nodes, scopeStack, loopCount, labelCount>>
    BY <1>4 DEF Fail
  <2>2. Continuation(todo')
    BY <2>1, Singleton DEF Continuation
  <2>3. LoopsCounted'
    BY <2>1 DEF IInv, LoopsCounted, OpenLoops
  <2> QED
    BY <2>1, <2>2, <2>3 DEF IInv
<1> QED
  BY <1>1, <1>2, <1>3, <1>4

\* Running the code, whatever comes of it, and standing still.
LEMMA RunKeepsInvariant ==
  ASSUME IInv, \/ StartRun \/ RunEval \/ RunAct \/ RunReturn \/ Done
               \/ UNCHANGED vars
  PROVE  IInv'
<1> USE DEF lmVars
<1>1. UNCHANGED <<lmVars, nodes, todo>>
  BY DEF StartRun, RunEval, RunAct, RunReturn, Ran, Done, vars, genVars
<1>2. LoopsCounted'
  BY <1>1 DEF IInv, LoopsCounted, OpenLoops
<1>3. phase # "failed" \/ UNCHANGED phase
  BY DEF StartRun, RunEval, RunAct, RunReturn, Execute, Done, vars, genVars
<1>4. phase' # "failed" => Matches(todo', Len(scopeStack'))
  BY <1>1, <1>3 DEF IInv
<1> QED
  BY <1>1, <1>2, <1>4 DEF IInv

\* Every step keeps the invariant.
LEMMA StepInvariant ==
  IInv /\ [Next]_vars => IInv'
<1> SUFFICES ASSUME IInv, [Next]_vars PROVE IInv'
  OBVIOUS
<1> QED
  BY VisitsKeepInvariant, CondsKeepInvariant, LinesKeepInvariant,
     ScopesKeepInvariant, FunctionsKeepInvariant, RunKeepsInvariant
  DEF Next

-----------------------------------------------------------------------------
(* The theorems.                                                           *)

\* The correspondence between the continuation and the open scopes.
THEOREM Invariance == Spec => []IInv
BY InitInvariant, StepInvariant, PTL DEF Spec

\* The stack holds scopes and the two counts are natural numbers: the count
\* of loops, an unsigned integer in the code, never wraps around.
THEOREM LabelsTypeCorrect == Spec => []LabelsTypeOK
<1>1. IInv => LabelsTypeOK
  BY FiniteLoops DEF IInv, LoopsCounted, LabelsTypeOK
<1> QED
  BY <1>1, Invariance, PTL

\* _loop_count is the number of loop scopes on the stack, however statements
\* nest and over any number of functions.
THEOREM LoopCountCorrect == Spec => []LoopsCounted
<1>1. IInv => LoopsCounted
  BY DEF IInv
<1> QED
  BY <1>1, Invariance, PTL

\* At the end of every function the visitors have left each scope they
\* entered, and no loop is counted that the next function could inherit.
THEOREM ScopesAlwaysBalanced == Spec => []ScopesBalanced
<1>1. IInv => ScopesBalanced
  <2> SUFFICES ASSUME IInv, phase = "gen", todo = <<>>
               PROVE  scopeStack = <<>> /\ loopCount = 0
    BY DEF ScopesBalanced
  <2>1. scopeStack = <<>>
    BY NothingOpen
  <2> QED
    BY <2>1, NoLoopsOpen DEF IInv, LoopsCounted
<1> QED
  BY <1>1, Invariance, PTL

-----------------------------------------------------------------------------
(* Line labels.                                                            *)

\* The line labels handed out since the last reset are numbered below
\* _label_count.
LineLabelsBelow ==
    /\ labelCount \in Nat
    /\ \A k \in Nat : LineLabel(k) \in generated => k < labelCount

\* A label of a scope is no line label: it has three parts.
LEMMA ScopeLabelsAreNotLines ==
  ASSUME NEW scope, NEW part, NEW k
  PROVE  LabelOf(scope, part) # LineLabel(k)
<1>1. Len(LabelOf(scope, part)) = 3 /\ Len(LineLabel(k)) = 2
  BY DEF LabelOf, LineLabel
<1> QED
  BY <1>1

\* Recording a label of a scope, or of none, adds no line label.
LEMMA RecordAddsNoLine ==
  ASSUME LineLabelsBelow, NEW label, Record(label),
         \A k \in Nat : label # LineLabel(k)
  PROVE  LineLabelsBelow'
BY DEF LineLabelsBelow, Record

\* Every step keeps the numbers of the line labels below the count.
LEMMA LineStep ==
  ASSUME LineLabelsBelow, [Next]_vars
  PROVE  LineLabelsBelow'
<1> USE DEF lmVars
<1>1. CASE UNCHANGED <<generated, labelCount>>
  BY <1>1 DEF LineLabelsBelow
<1>2. CASE StartFunction \/ SkipPrototype \/ MissingReturn
  BY <1>2 DEF StartFunction, SkipPrototype, MissingReturn, ResetLables,
              LineLabelsBelow
<1>3. CASE EmitLine
  <2>1. /\ generated' = generated \union {LineLabel(labelCount)}
        /\ labelCount' = labelCount + 1
    BY <1>3 DEF EmitLine, GenerateLineLabel
  <2>2. \A k \in Nat : LineLabel(k) = LineLabel(labelCount) => k = labelCount
    BY DEF LineLabel
  <2> QED
    BY <2>1, <2>2 DEF LineLabelsBelow
<1>4. ASSUME NEW part PROVE \A k \in Nat : ScopeLabel(part) # LineLabel(k)
  <2>1. \A k \in Nat : NoLabel # LineLabel(k)
    <3>1. Len(NoLabel) = 1 /\ \A k : Len(LineLabel(k)) = 2
      BY DEF NoLabel, LineLabel
    <3> QED
      BY <3>1
  <2> QED
    BY <2>1, ScopeLabelsAreNotLines DEF ScopeLabel
<1>5. ASSUME NEW ref, Named(ref) PROVE LineLabelsBelow'
  <2>1. CASE UNCHANGED lmVars
    BY <2>1 DEF LineLabelsBelow
  <2>2. CASE Record(ScopeLabel(ref.part))
    BY <1>4, <2>2, RecordAddsNoLine
  <2> QED
    BY <1>5, <2>1, <2>2 DEF Named, Resolve
<1>6. CASE EmitLabel \/ EmitGoto \/ EmitBranch
  BY <1>5, <1>6 DEF EmitLabel, EmitGoto, EmitBranch
<1>7. CASE AskLabel
  BY <1>4, <1>7, RecordAddsNoLine DEF AskLabel
<1>8. CASE NameLabel
  <2>1. Record(LabelOf(Innermost, h.name))
    BY <1>8 DEF NameLabel, GenerateLabel
  <2> QED
    BY <2>1, ScopeLabelsAreNotLines, RecordAddsNoLine
<1>9. CASE OpenScope \/ CloseScope
  BY <1>1, <1>9 DEF OpenScope, CloseScope, EnterScope, LeaveScope
<1>10. CASE \/ EndFunction \/ NextFunction \/ Fail
            \/ VisitSimple \/ VisitReturn \/ VisitBreak \/ VisitContinue
            \/ VisitIf \/ VisitWhile \/ VisitDo \/ VisitFor \/ VisitBlock
            \/ VisitAtom \/ VisitLogical \/ SkipCond \/ EmitAct
  BY <1>1, <1>10
  DEF EndFunction, NextFunction, Fail, VisitSimple, VisitReturn, VisitBreak,
      VisitContinue, VisitIf, VisitWhile, VisitDo, VisitFor, VisitBlock,
      VisitAtom, VisitLogical, SkipCond, EmitAct
<1>11. CASE StartRun \/ RunEval \/ RunAct \/ RunReturn \/ Done \/ UNCHANGED vars
  BY <1>1, <1>11 DEF StartRun, RunEval, RunAct, RunReturn, Ran, Done, vars
<1> QED
  BY <1>2, <1>3, <1>6, <1>7, <1>8, <1>9, <1>10, <1>11 DEF Next

\* GenerateLineLabel never returns a label it returned before since the last
\* reset, as it asserts.
THEOREM LineLabelsFresh ==
  Spec => [](LineLabel(labelCount) \notin generated)
<1>1. Init => LineLabelsBelow
  BY DEF Init, LabelManagerInit, LineLabelsBelow
<1>2. LineLabelsBelow /\ [Next]_vars => LineLabelsBelow'
  BY LineStep
<1>3. LineLabelsBelow => LineLabel(labelCount) \notin generated
  BY DEF LineLabelsBelow
<1> QED
  BY <1>1, <1>2, <1>3, PTL DEF Spec

=============================================================================
