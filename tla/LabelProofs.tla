----------------------------- MODULE LabelProofs -----------------------------
(***************************************************************************)
(* Proof that GenerateLabel and GenerateLineLabel never hand out a label a *)
(* second time: FreshLabels of JVMControlFlow, for every bound and every   *)
(* set of conditions.                                                      *)
(*                                                                         *)
(* A label of a scope is made from the location of its statement, so it is *)
(* fresh because each statement is visited once.  In the model a location  *)
(* is a number, and what has to be shown is that the numbers that wait in  *)
(* todo, in the visits and in the scopes and their plans, are all          *)
(* different, are among those given out, and are not among those for which *)
(* a label was made up: a number stays with one item from the plan that    *)
(* introduces it to the scope that is opened for it.                       *)
(***************************************************************************)
EXTENDS JVMControlFlowProofs

\* The parts of the labels that are made up, by a for and by an if.
Names == {"for_cond", "stmt_end"}

\* An item names a label of its scope by a part that is not made up, and
\* makes up one that is.
Proper(x) ==
    /\ x.do \in {"label", "goto", "branch"} /\ ~x.ref.saved
           => x.ref.part \notin Names
    /\ x.do = "ask" => x.part \notin Names
    /\ x.do = "newlabel" => x.name \in Names

\* The number n is that of a visit or a scope the item x stands for, as deep
\* as plans nest.
LeafOwns(x, n) == x.do \in {"stmt", "block"} /\ x.node = n

InnerOwns(x, n) ==
    \/ LeafOwns(x, n)
    \/ /\ x.do = "scope"
       /\ x.node = n \/ \E i \in DOMAIN x.plan : LeafOwns(x.plan[i], n)

Owns(x, n) ==
    \/ LeafOwns(x, n)
    \/ /\ x.do = "scope"
       /\ x.node = n \/ \E i \in DOMAIN x.plan : InnerOwns(x.plan[i], n)

PlanOwns(p, n) == \E i \in DOMAIN p : Owns(p[i], n)

\* The numbers of a plan are in S, and no two items have one in common.
Apart(p, S) ==
    \A i \in DOMAIN p : \A n : Owns(p[i], n) =>
        n \in S /\ \A j \in DOMAIN p : Owns(p[j], n) => i = j

\* A label is made up by the first item of a scope, or after its exit label
\* was asked for.
Leads(p) ==
    \A i \in DOMAIN p : p[i].do = "newlabel" =>
        i = 1 \/ (i = 2 /\ p[1].do = "ask")

FlatSound(p, S) ==
    /\ IsSequence(p) /\ Apart(p, S)
    /\ \A i \in DOMAIN p : Proper(p[i]) /\ p[i].do # "scope"

NestedSound(p, S) ==
    /\ IsSequence(p) /\ Apart(p, S)
    /\ \A i \in DOMAIN p :
          /\ Proper(p[i])
          /\ p[i].do = "scope" =>
                Leads(p[i].plan) /\ FlatSound(p[i].plan, S \ {p[i].node})

DeepSound(p, S) ==
    /\ IsSequence(p) /\ Apart(p, S)
    /\ \A i \in DOMAIN p :
          /\ Proper(p[i])
          /\ p[i].do = "scope" =>
                Leads(p[i].plan) /\ NestedSound(p[i].plan, S \ {p[i].node})

\* A label was made up for the scope at n.
Made(labels, n) == \E type : \E name \in Names : <<n, type, name>> \in labels

\* The labels that were made up are of statements that were visited, and so
\* is the scope that is about to make one up, for the first time.  What was
\* made up for one function is forgotten when the next is begun.
Numbered ==
    phase # "failed" =>
        /\ DeepSound(todo, 1 .. nodes)
        /\ Leads(todo)
        /\ todo # <<>> /\ Head(todo).do # "function" =>
              \A n : Made(generated, n) => n \in 1 .. nodes /\ ~PlanOwns(todo, n)
        /\ \A i \in DOMAIN todo : todo[i].do = "newlabel" =>
              LET n == Innermost.loc
              IN  n \in 1 .. nodes /\ ~PlanOwns(todo, n) /\ ~Made(generated, n)

\* No number that was given out waits in todo now that did not before.
Kept == \A m \in 1 .. nodes : PlanOwns(todo', m) => PlanOwns(todo, m)

-----------------------------------------------------------------------------
(* Plans.                                                                  *)

\* An item that owns no number and makes up no label.
Plain(x) ==
    /\ Proper(x) /\ x.do \notin {"scope", "newlabel"}
    /\ \A n : ~Owns(x, n)

\* The items of the visitors.
LEMMA PlainItems ==
  /\ \A label : Plain(LabelLine(Saved(label))) /\ Plain(Goto(Saved(label)))
  /\ \A table, label : Plain(Branch(table, Saved(label)))
  /\ \A part : part \notin Names =>
        /\ Plain(LabelLine(Here(part))) /\ Plain(Goto(Here(part)))
        /\ Plain(Ask(part))
        /\ \A table : Plain(Branch(table, Here(part)))
  /\ \A point : Plain(Line(point))
  /\ \A n : Plain(Epilogue(n)) /\ Plain(Leave(n))
  /\ Plain(LineNumber)
  /\ \A c, point, yes, no : Plain(Cond(c, point, yes, no))
<1> USE DEF Plain, Proper, Owns, LeafOwns
<1>1. ASSUME NEW label
      PROVE  /\ Plain(LabelLine(Saved(label))) /\ Plain(Goto(Saved(label)))
             /\ \A table : Plain(Branch(table, Saved(label)))
  BY DEF LabelLine, Goto, Branch, Saved
<1>2. ASSUME NEW part, part \notin Names
      PROVE  /\ Plain(LabelLine(Here(part))) /\ Plain(Goto(Here(part)))
             /\ Plain(Ask(part))
             /\ \A table : Plain(Branch(table, Here(part)))
  BY <1>2 DEF LabelLine, Goto, Branch, Here, Ask
<1>3. /\ \A point : Plain(Line(point))
      /\ \A n : Plain(Epilogue(n)) /\ Plain(Leave(n))
      /\ Plain(LineNumber)
  BY DEF Line, Epilogue, Leave, LineNumber
<1>4. \A c, point, yes, no : Plain(Cond(c, point, yes, no))
  BY DEF Cond
<1> QED
  BY <1>1, <1>2, <1>3, <1>4

\* The parts that are not made up.
LEMMA PartsAreNoNames == "entry" \notin Names /\ "exit" \notin Names
BY DEF Names

\* The visits, and what makes up a label.
LEMMA OwningItems ==
  ASSUME NEW n
  PROVE  /\ \A next, ctx :
               /\ Proper(Block(n, next, ctx)) /\ Proper(Visit(n, next, ctx))
               /\ Block(n, next, ctx).do \notin {"scope", "newlabel"}
               /\ Visit(n, next, ctx).do \notin {"scope", "newlabel"}
               /\ \A m : Owns(Block(n, next, ctx), m) => m = n
               /\ \A m : Owns(Visit(n, next, ctx), m) => m = n
         /\ \A name \in Names :
               /\ Proper(NewLabel(name)) /\ NewLabel(name).do = "newlabel"
               /\ \A m : ~Owns(NewLabel(name), m)
BY DEF Proper, Owns, LeafOwns, Block, Visit, NewLabel

\* A plan in S is one in any set around it; what an item that is not a scope
\* owns, it owns at any depth.
LEMMA ApartIn ==
  ASSUME NEW p, NEW S, NEW T, S \subseteq T
  PROVE  Apart(p, S) => Apart(p, T)
BY DEF Apart

\* A plan without scopes may stand for one with them, and its numbers be in
\* a larger set.
LEMMA SoundIn ==
  ASSUME NEW p, NEW S, NEW T, S \subseteq T
  PROVE  /\ FlatSound(p, S) => FlatSound(p, T)
         /\ NestedSound(p, S) => NestedSound(p, T)
         /\ DeepSound(p, S) => DeepSound(p, T)
         /\ FlatSound(p, S) => NestedSound(p, S)
         /\ NestedSound(p, S) => DeepSound(p, S)
<1>1. ASSUME NEW q, NEW A, NEW B, A \subseteq B, FlatSound(q, A)
      PROVE  FlatSound(q, B)
  BY <1>1, ApartIn DEF FlatSound
<1>2. ASSUME NEW q, NEW A, NEW B, A \subseteq B, NestedSound(q, A)
      PROVE  NestedSound(q, B)
  <2>1. Apart(q, B)
    BY <1>2, ApartIn DEF NestedSound
  <2>2. ASSUME NEW i \in DOMAIN q, q[i].do = "scope"
        PROVE  FlatSound(q[i].plan, B \ {q[i].node})
    <3>1. A \ {q[i].node} \subseteq B \ {q[i].node}
      BY <1>2
    <3>2. FlatSound(q[i].plan, A \ {q[i].node})
      BY <1>2, <2>2 DEF NestedSound
    <3> QED
      BY <1>1, <3>1, <3>2
  <2> QED
    BY <1>2, <2>1, <2>2 DEF NestedSound
<1>3. ASSUME DeepSound(p, S) PROVE DeepSound(p, T)
  <2>1. Apart(p, T)
    BY <1>3, ApartIn DEF DeepSound
  <2>2. ASSUME NEW i \in DOMAIN p, p[i].do = "scope"
        PROVE  NestedSound(p[i].plan, T \ {p[i].node})
    <3>1. S \ {p[i].node} \subseteq T \ {p[i].node}
      OBVIOUS
    <3>2. NestedSound(p[i].plan, S \ {p[i].node})
      BY <1>3, <2>2 DEF DeepSound
    <3> QED
      BY <1>2, <3>1, <3>2
  <2> QED
    BY <1>3, <2>1, <2>2 DEF DeepSound
<1>4. ASSUME NEW q, NEW A, FlatSound(q, A) PROVE NestedSound(q, A)
  BY <1>4 DEF FlatSound, NestedSound
<1>5. ASSUME NestedSound(p, S) PROVE DeepSound(p, S)
  BY <1>4, <1>5 DEF NestedSound, DeepSound
<1> QED
  BY <1>1, <1>2, <1>3, <1>4, <1>5

\* Plans whose numbers differ may be put one after the other.
LEMMA JoinedSound ==
  ASSUME NEW p, NEW q, NEW S, NEW T, S \intersect T = {}
  PROVE  /\ FlatSound(p, S) /\ FlatSound(q, T) => FlatSound(p \o q, S \union T)
         /\ NestedSound(p, S) /\ NestedSound(q, T)
               => NestedSound(p \o q, S \union T)
         /\ DeepSound(p, S) /\ DeepSound(q, T) => DeepSound(p \o q, S \union T)
<1> DEFINE r == p \o q
           U == S \union T
<1>1. ASSUME IsSequence(p), IsSequence(q), Apart(p, S), Apart(q, T)
      PROVE  /\ IsSequence(r) /\ Apart(r, U)
             /\ \A i \in DOMAIN r : \/ \E k \in DOMAIN p : r[i] = p[k]
                                    \/ \E k \in DOMAIN q : r[i] = q[k]
  <2>1. /\ Len(p) \in Nat /\ DOMAIN p = 1 .. Len(p)
        /\ Len(q) \in Nat /\ DOMAIN q = 1 .. Len(q)
    BY <1>1, SequenceLength
  <2>2. /\ IsSequence(r)
        /\ DOMAIN r = 1 .. Len(p) + Len(q)
        /\ \A k \in 1 .. Len(p) + Len(q) :
              r[k] = IF k <= Len(p) THEN p[k] ELSE q[k - Len(p)]
    BY <1>1, Concatenation
  <2> HIDE DEF r
  <2>3. ASSUME NEW i \in DOMAIN r
        PROVE  \/ i \in DOMAIN p /\ r[i] = p[i]
               \/ \E k \in DOMAIN q : i = k + Len(p) /\ r[i] = q[k]
    <3>1. CASE i <= Len(p)
      BY <2>1, <2>2, <3>1
    <3>2. CASE ~(i <= Len(p))
      <4> DEFINE k == i - Len(p)
      <4>1. k \in DOMAIN q /\ r[i] = q[k] /\ i = k + Len(p)
        BY <2>1, <2>2, <3>2
      <4> QED
        BY <4>1
    <3> QED
      BY <3>1, <3>2
  <2>4. ASSUME NEW i \in DOMAIN r, NEW n, Owns(r[i], n)
        PROVE  \/ n \in S /\ i \in DOMAIN p /\ Owns(p[i], n)
               \/ n \in T /\ \E k \in DOMAIN q : i = k + Len(p) /\ Owns(q[k], n)
    BY <1>1, <2>3, <2>4 DEF Apart
  <2>5. ASSUME NEW i \in DOMAIN r, NEW j \in DOMAIN r, NEW n,
               Owns(r[i], n), Owns(r[j], n)
        PROVE  n \in U /\ i = j
    <3>1. CASE n \in S
      <4>1. /\ i \in DOMAIN p /\ Owns(p[i], n)
            /\ j \in DOMAIN p /\ Owns(p[j], n)
        BY <2>4, <2>5, <3>1
      <4> QED
        BY <1>1, <3>1, <4>1 DEF Apart
    <3>2. CASE n \notin S
      <4>1. PICK k \in DOMAIN q : n \in T /\ i = k + Len(p) /\ Owns(q[k], n)
        BY <2>4, <2>5, <3>2
      <4>2. PICK m \in DOMAIN q : j = m + Len(p) /\ Owns(q[m], n)
        BY <2>4, <2>5, <3>2
      <4>3. k = m
        BY <1>1, <4>1, <4>2 DEF Apart
      <4> QED
        BY <4>1, <4>2, <4>3
    <3> QED
      BY <3>1, <3>2
  <2>6. Apart(r, U)
    BY <2>5 DEF Apart
  <2> QED
    BY <2>2, <2>3, <2>6
<1>2. S \subseteq U /\ T \subseteq U /\ \A m : S \ {m} \subseteq U \ {m}
      /\ T \ {m} \subseteq U \ {m}
  OBVIOUS
<1> HIDE DEF r, U
<1>3. ASSUME FlatSound(p, S), FlatSound(q, T) PROVE FlatSound(r, U)
  BY <1>1, <1>3 DEF FlatSound
<1>4. ASSUME NestedSound(p, S), NestedSound(q, T) PROVE NestedSound(r, U)
  <2>1. NestedSound(p, U) /\ NestedSound(q, U)
    BY <1>2, <1>4, SoundIn
  <2> QED
    BY <1>1, <1>4, <2>1 DEF NestedSound
<1>5. ASSUME DeepSound(p, S), DeepSound(q, T) PROVE DeepSound(r, U)
  <2>1. DeepSound(p, U) /\ DeepSound(q, U)
    BY <1>2, <1>5, SoundIn
  <2> QED
    BY <1>1, <1>5, <2>1 DEF DeepSound
<1> QED
  BY <1>3, <1>4, <1>5 DEF r, U

\* A plan that makes up no label, alone and after one that may.
Silent(p) == \A i \in DOMAIN p : p[i].do # "newlabel"

LEMMA JoinedLeads ==
  ASSUME NEW p, NEW q, IsSequence(p), IsSequence(q), Silent(q)
  PROVE  /\ Leads(p) => Leads(p \o q)
         /\ Silent(p) => Silent(p \o q)
         /\ Silent(p) => Leads(p)
<1> DEFINE r == p \o q
<1>1. /\ Len(p) \in Nat /\ DOMAIN p = 1 .. Len(p)
      /\ Len(q) \in Nat /\ DOMAIN q = 1 .. Len(q)
  BY SequenceLength
<1>2. /\ DOMAIN r = 1 .. Len(p) + Len(q)
      /\ \A k \in 1 .. Len(p) + Len(q) :
            r[k] = IF k <= Len(p) THEN p[k] ELSE q[k - Len(p)]
  BY Concatenation
<1> HIDE DEF r
<1>3. ASSUME NEW i \in DOMAIN r, r[i].do = "newlabel"
      PROVE  i \in DOMAIN p /\ p[i].do = "newlabel"
  <2>1. CASE i <= Len(p)
    BY <1>1, <1>2, <1>3, <2>1
  <2>2. CASE ~(i <= Len(p))
    <3>1. i - Len(p) \in DOMAIN q /\ r[i] = q[i - Len(p)]
      BY <1>1, <1>2, <2>2
    <3> QED
      BY <1>3, <3>1 DEF Silent
  <2> QED
    BY <2>1, <2>2
<1>4. ASSUME Leads(p) PROVE Leads(r)
  <2> SUFFICES ASSUME NEW i \in DOMAIN r, r[i].do = "newlabel"
               PROVE  i = 1 \/ (i = 2 /\ r[1].do = "ask")
    BY DEF Leads
  <2>1. i \in DOMAIN p /\ (i = 1 \/ (i = 2 /\ p[1].do = "ask"))
    BY <1>3, <1>4 DEF Leads
  <2>2. i = 2 => r[1] = p[1]
    BY <1>1, <1>2, <2>1
  <2> QED
    BY <2>1, <2>2
<1>5. Silent(p) => Silent(r) /\ Leads(p)
  BY <1>3 DEF Silent, Leads
<1> QED
  BY <1>4, <1>5 DEF r

\* An item that owns no number but some of S.
Owner(x, S) ==
    /\ Proper(x) /\ x.do \notin {"scope", "newlabel"}
    /\ \A n : Owns(x, n) => n \in S

\* A plan of which only the k-th item owns numbers.
LEMMA OneOwner ==
  ASSUME NEW p, NEW S, NEW k, IsSequence(p),
         \A i \in DOMAIN p : Plain(p[i]) \/ (i = k /\ Owner(p[i], S))
  PROVE  FlatSound(p, S) /\ Silent(p) /\ Leads(p)
<1>1. \A i \in DOMAIN p : Proper(p[i]) /\ p[i].do # "scope" /\ p[i].do # "newlabel"
  BY DEF Plain, Owner
<1>2. \A i \in DOMAIN p : \A n : Owns(p[i], n) => i = k /\ n \in S
  BY DEF Plain, Owner
<1> QED
  BY <1>1, <1>2 DEF FlatSound, Apart, Silent, Leads

\* Plans of no item and of one.
LEMMA ShortSound ==
  ASSUME NEW x, NEW S
  PROVE  /\ FlatSound(<<>>, S) /\ Silent(<<>>) /\ Leads(<<>>)
         /\ Plain(x) \/ Owner(x, S)
               => FlatSound(<<x>>, S) /\ Silent(<<x>>) /\ Leads(<<x>>)
<1>1. IsSequence(<<>>) /\ DOMAIN <<>> = {}
  BY Singleton
<1>2. \A i \in DOMAIN <<>> : Plain(<<>>[i])
  BY <1>1
<1>3. FlatSound(<<>>, S) /\ Silent(<<>>) /\ Leads(<<>>)
  BY <1>1, <1>2, OneOwner
<1>4. IsSequence(<<x>>) /\ DOMAIN <<x>> = 1 .. 1 /\ <<x>>[1] = x
  BY Singleton, SequenceLength
<1> DEFINE p == <<x>>
<1>5. IsSequence(p) /\ \A i \in DOMAIN p : i = 1 /\ p[i] = x
  BY <1>4
<1> HIDE DEF p
<1>6. Plain(x) \/ Owner(x, S) => FlatSound(p, S) /\ Silent(p) /\ Leads(p)
  BY <1>5, OneOwner
<1> QED
  BY <1>3, <1>6 DEF p

\* Plans of several items.
LEMMA SoundTuples ==
  ASSUME NEW S, NEW a, NEW b, NEW c, NEW d, NEW e, NEW f, Plain(a)
  PROVE  /\ Plain(b) => FlatSound(<<a, b>>, S) /\ Silent(<<a, b>>)
         /\ Owner(b, S) /\ Plain(c) /\ Plain(d) /\ Plain(e)
               => FlatSound(<<a, b, c, d, e>>, S) /\ Leads(<<a, b, c, d, e>>)
         /\ Plain(b) /\ Plain(c) /\ Owner(d, S) /\ Plain(e) /\ Plain(f)
               => /\ FlatSound(<<a, b, c, d, e, f>>, S)
                  /\ Silent(<<a, b, c, d, e, f>>) /\ Leads(<<a, b, c, d, e, f>>)
         /\ Owner(d, S) => FlatSound(<<d, a>>, S) /\ Silent(<<d, a>>)
<1>1. ASSUME Plain(b) PROVE FlatSound(<<a, b>>, S) /\ Silent(<<a, b>>)
  <2> DEFINE p == <<a, b>>
  <2>1. p \in Seq({a, b}) /\ DOMAIN p = 1 .. 2 /\ p[1] = a /\ p[2] = b
    OBVIOUS
  <2> HIDE DEF p
  <2>2. IsSequence(p) /\ \A i \in DOMAIN p : Plain(p[i])
    BY <1>1, <2>1, AnySequence
  <2> QED
    BY <2>2, OneOwner DEF p
<1>2. ASSUME Owner(b, S), Plain(c), Plain(d), Plain(e)
      PROVE  FlatSound(<<a, b, c, d, e>>, S) /\ Leads(<<a, b, c, d, e>>)
  <2> DEFINE p == <<a, b, c, d, e>>
  <2>1. /\ p \in Seq({a, b, c, d, e}) /\ DOMAIN p = 1 .. 5
        /\ p[1] = a /\ p[2] = b /\ p[3] = c /\ p[4] = d /\ p[5] = e
    OBVIOUS
  <2> HIDE DEF p
  <2>2. IsSequence(p)
    BY <2>1, AnySequence
  <2>3. \A i \in DOMAIN p : Plain(p[i]) \/ (i = 2 /\ Owner(p[i], S))
    BY <1>2, <2>1
  <2> QED
    BY <2>2, <2>3, OneOwner DEF p
<1>3. ASSUME Plain(b), Plain(c), Owner(d, S), Plain(e), Plain(f)
      PROVE  /\ FlatSound(<<a, b, c, d, e, f>>, S)
             /\ Silent(<<a, b, c, d, e, f>>) /\ Leads(<<a, b, c, d, e, f>>)
  <2> DEFINE p == <<a, b, c, d, e, f>>
  <2>1. /\ p \in Seq({a, b, c, d, e, f}) /\ DOMAIN p = 1 .. 6
        /\ p[1] = a /\ p[2] = b /\ p[3] = c /\ p[4] = d /\ p[5] = e /\ p[6] = f
    OBVIOUS
  <2> HIDE DEF p
  <2>2. IsSequence(p)
    BY <2>1, AnySequence
  <2>3. \A i \in DOMAIN p : Plain(p[i]) \/ (i = 4 /\ Owner(p[i], S))
    BY <1>3, <2>1
  <2>4. FlatSound(p, S) /\ Silent(p) /\ Leads(p)
    BY <2>2, <2>3, OneOwner
  <2> QED
    BY <2>4 DEF p
<1>4. ASSUME Owner(d, S) PROVE FlatSound(<<d, a>>, S) /\ Silent(<<d, a>>)
  <2> DEFINE p == <<d, a>>
  <2>1. p \in Seq({d, a}) /\ DOMAIN p = 1 .. 2 /\ p[1] = d /\ p[2] = a
    OBVIOUS
  <2> HIDE DEF p
  <2>2. IsSequence(p)
    BY <2>1, AnySequence
  <2>3. \A i \in DOMAIN p : Plain(p[i]) \/ (i = 1 /\ Owner(p[i], S))
    BY <1>4, <2>1
  <2> QED
    BY <2>2, <2>3, OneOwner DEF p
<1> QED
  BY <1>1, <1>2, <1>3, <1>4

\* The plans that make up a label: first, or after the exit label is asked for.
LEMMA LeadingTuples ==
  ASSUME NEW n, NEW a, NEW b, NEW S, Plain(a),
         Proper(n), n.do = "newlabel", \A m : ~Owns(n, m)
  PROVE  /\ Plain(b) => FlatSound(<<n, a, b>>, S) /\ Leads(<<n, a, b>>)
         /\ a.do = "ask" => FlatSound(<<a, n>>, S) /\ Leads(<<a, n>>)
<1>1. ASSUME Plain(b) PROVE FlatSound(<<n, a, b>>, S) /\ Leads(<<n, a, b>>)
  <2> DEFINE p == <<n, a, b>>
  <2>1. /\ p \in Seq({n, a, b}) /\ DOMAIN p = 1 .. 3
        /\ p[1] = n /\ p[2] = a /\ p[3] = b
    OBVIOUS
  <2> HIDE DEF p
  <2>2. IsSequence(p)
    BY <2>1, AnySequence
  <2>3. \A i \in DOMAIN p : /\ Proper(p[i]) /\ p[i].do # "scope"
                            /\ \A m : ~Owns(p[i], m)
                            /\ p[i].do = "newlabel" => i = 1
    BY <1>1, <2>1 DEF Plain
  <2> QED
    BY <2>2, <2>3 DEF FlatSound, Apart, Leads, p
<1>2. ASSUME a.do = "ask" PROVE FlatSound(<<a, n>>, S) /\ Leads(<<a, n>>)
  <2> DEFINE p == <<a, n>>
  <2>1. p \in Seq({a, n}) /\ DOMAIN p = 1 .. 2 /\ p[1] = a /\ p[2] = n
    OBVIOUS
  <2> HIDE DEF p
  <2>2. IsSequence(p)
    BY <2>1, AnySequence
  <2>3. \A i \in DOMAIN p : /\ Proper(p[i]) /\ p[i].do # "scope"
                            /\ \A m : ~Owns(p[i], m)
                            /\ p[i].do = "newlabel" => i = 2 /\ p[1].do = "ask"
    BY <1>2, <2>1 DEF Plain
  <2> QED
    BY <2>2, <2>3 DEF FlatSound, Apart, Leads, p
<1> QED
  BY <1>1, <1>2

\* A single scope: its number is none of those of its plan.
LEMMA OneScopeSound ==
  ASSUME NEW n, NEW type, NEW p, NEW S, n \notin S, Leads(p), NestedSound(p, S)
  PROVE  /\ DeepSound(<<InScope(n, type, p)>>, S \union {n})
         /\ Silent(<<InScope(n, type, p)>>)
<1> DEFINE x == InScope(n, type, p)
           T == S \union {n}
<1>1. x.do = "scope" /\ x.node = n /\ x.plan = p /\ Proper(x)
  BY DEF InScope, Proper
<1>2. T \ {n} = S
  OBVIOUS
<1> HIDE DEF x, T
<1>3. ASSUME NEW m, Owns(x, m) PROVE m = n \/ \E i \in DOMAIN p : InnerOwns(p[i], m)
  BY <1>1, <1>3 DEF Owns, LeafOwns
<1>4. ASSUME NEW i \in DOMAIN p, NEW m, InnerOwns(p[i], m) PROVE m \in S
  <2>1. Owns(p[i], m)
    <3>1. CASE p[i].do # "scope"
      BY <1>4, <3>1 DEF InnerOwns, Owns
    <3>2. CASE p[i].do = "scope"
      BY <1>4, <3>2 DEF InnerOwns, Owns
    <3> QED
      BY <3>1, <3>2
  <2> QED
    BY <2>1 DEF NestedSound, Apart
<1>5. \A m : Owns(x, m) => m \in T
  BY <1>3, <1>4 DEF T
<1>6. IsSequence(<<x>>) /\ DOMAIN <<x>> = 1 .. 1 /\ <<x>>[1] = x
  BY Singleton, SequenceLength
<1> DEFINE q == <<x>>
<1>7. IsSequence(q) /\ \A i \in DOMAIN q : i = 1 /\ q[i] = x
  BY <1>6
<1> HIDE DEF q
<1>8. DeepSound(q, T) /\ Silent(q)
  BY <1>1, <1>2, <1>5, <1>7 DEF DeepSound, Apart, Silent
<1> QED
  BY <1>8 DEF q, x, T

\* The statements of a block have the numbers from the first on.
LEMMA BlockPlanSound ==
  ASSUME NEW first \in Nat \ {0}, NEW k \in Nat, NEW next, NEW ctx
  PROVE  /\ FlatSound(BlockPlan(first, k, next, ctx), first .. first + k - 1)
         /\ Silent(BlockPlan(first, k, next, ctx))
<1> DEFINE p == BlockPlan(first, k, next, ctx)
           S == first .. first + k - 1
<1>1. DOMAIN p = 1 .. 2 * k
  BY DEF BlockPlan
<1>2. IsSequence(p)
  BY BlockPlanIsLeafy DEF LeafPlan
<1>3. ASSUME NEW i \in 1 .. 2 * k
      PROVE  \/ p[i] = LineNumber
             \/ /\ i % 2 # 1
                /\ \E to : p[i] = Visit(first + (i \div 2) - 1, to, ctx)
  BY DEF BlockPlan
<1> HIDE DEF p
<1>4. ASSUME NEW i \in 1 .. 2 * k
      PROVE  Proper(p[i]) /\ p[i].do # "scope" /\ p[i].do # "newlabel"
  BY <1>3, PlainItems, OwningItems DEF Plain
<1>5. ASSUME NEW i \in 1 .. 2 * k, NEW n, Owns(p[i], n)
      PROVE  i % 2 = 0 /\ n = first + (i \div 2) - 1
  <2>1. p[i] # LineNumber
    BY <1>5, PlainItems DEF Plain
  <2>2. i % 2 # 1 /\ \E to : p[i] = Visit(first + (i \div 2) - 1, to, ctx)
    BY <1>3, <2>1
  <2>3. n = first + (i \div 2) - 1
    BY <1>5, <2>2, OwningItems
  <2> QED
    BY <2>2, <2>3
<1>6. ASSUME NEW i \in 1 .. 2 * k, NEW j \in 1 .. 2 * k, NEW n,
             Owns(p[i], n), Owns(p[j], n)
      PROVE  n \in S /\ i = j
  <2>1. i % 2 = 0 /\ n = first + (i \div 2) - 1
    BY <1>5, <1>6
  <2>2. j % 2 = 0 /\ n = first + (j \div 2) - 1
    BY <1>5, <1>6
  <2>3. i \div 2 \in 1 .. k /\ j \div 2 \in 1 .. k
    BY <2>1, <2>2
  <2>4. i \div 2 = j \div 2
    BY <2>1, <2>2, <2>3
  <2> QED
    BY <2>1, <2>2, <2>3, <2>4
<1> QED
  BY <1>1, <1>2, <1>4, <1>6 DEF FlatSound, Apart, Silent, p

\* The body of a while or a do has a number of its own.
LEMMA LoopPlansSound ==
  ASSUME NEW s, NEW body, NEW c, body # s.node
  PROVE  /\ DeepSound(WhilePlan(s, body, c), {body} \union {s.node})
         /\ Silent(WhilePlan(s, body, c))
         /\ DeepSound(DoPlan(s, body, c), {body} \union {s.node})
         /\ Silent(DoPlan(s, body, c))
<1> DEFINE entry == LabelLine(Here("entry"))
           exit  == LabelLine(Here("exit"))
           cond  == Cond(c, CondOf(s.node), StartOf(body), s.next)
           leave == Branch("unless", Here("exit"))
           goto  == Goto(Here("entry"))
           jump  == Branch("if", Here("entry"))
           back  == IF c.form = "none" THEN goto ELSE jump
           loop  == Block(body, CondOf(s.node),
                          InLoop("while", s.next, CondOf(s.node)))
           twice == Block(body, CondOf(s.node),
                          InLoop("do", s.next, CondOf(s.node)))
           p     == <<entry, cond, leave, loop, goto, exit>>
           q     == <<entry, twice, cond, back, exit>>
<1>1. /\ WhilePlan(s, body, c) = <<InScope(s.node, "while", p)>>
      /\ DoPlan(s, body, c) = <<InScope(s.node, "do", q)>>
  BY DEF WhilePlan, DoPlan
<1>2. /\ Plain(entry) /\ Plain(exit) /\ Plain(cond) /\ Plain(leave)
      /\ Plain(goto) /\ Plain(jump)
  BY PlainItems, PartsAreNoNames
<1>3. Plain(back)
  <2> HIDE DEF goto, jump
  <2> QED
    BY <1>2
<1>4. Owner(loop, {body}) /\ Owner(twice, {body})
  BY OwningItems DEF Owner
<1> HIDE DEF entry, exit, cond, leave, goto, jump, back, loop, twice
<1>5. FlatSound(p, {body}) /\ Leads(p)
  BY <1>2, <1>4, SoundTuples
<1>6. FlatSound(q, {body}) /\ Leads(q)
  BY <1>2, <1>3, <1>4, SoundTuples
<1> HIDE DEF p, q
<1>7. NestedSound(p, {body}) /\ NestedSound(q, {body}) /\ s.node \notin {body}
  BY <1>5, <1>6, SoundIn
<1> QED
  BY <1>1, <1>5, <1>6, <1>7, OneScopeSound

\* The same of a for, which makes up the label of its condition first.
LEMMA ForPlanSound ==
  ASSUME NEW s, NEW body, NEW c, NEW full, body # s.node
  PROVE  /\ DeepSound(ForPlan(s, body, c, full), {body} \union {s.node})
         /\ Silent(ForPlan(s, body, c, full))
<1> DEFINE forCond == Saved(<<s.node, "for", "for_cond">>)
           Only(when, plan) == IF when THEN plan ELSE <<>>
           name   == NewLabel("for_cond")
           test   == LabelLine(forCond)
           cond   == Cond(c, CondOf(s.node), StartOf(body), s.next)
           first  == <<name, test, cond>>
           branch == Branch("unless", Here("exit"))
           exit   == Only(c.form # "none", <<branch>>)
           block  == Block(body, StepOf(s.node),
                           InLoop("for", s.next, StepOf(s.node)))
           entry  == LabelLine(Here("entry"))
           middle == <<block, entry>>
           step   == Only(full, <<Line(StepOf(s.node))>>)
           again  == Goto(forCond)
           after  == LabelLine(Here("exit"))
           last   == <<again, after>>
           init   == Only(full, <<Line(InitOf(s.node))>>)
           p      == first \o exit \o middle \o step \o last
<1>1. ForPlan(s, body, c, full) = init \o <<InScope(s.node, "for", p)>>
  BY DEF ForPlan
<1>2. /\ Plain(test) /\ Plain(cond) /\ Plain(branch) /\ Plain(entry)
      /\ Plain(again) /\ Plain(after)
      /\ Plain(Line(StepOf(s.node))) /\ Plain(Line(InitOf(s.node)))
  BY PlainItems, PartsAreNoNames
<1>3. Proper(name) /\ name.do = "newlabel" /\ \A m : ~Owns(name, m)
  BY OwningItems DEF Names
<1>4. Owner(block, {body})
  BY OwningItems DEF Owner
<1> HIDE DEF name, test, cond, branch, block, entry, again, after
<1>5. FlatSound(first, {}) /\ Leads(first)
  BY <1>2, <1>3, LeadingTuples
<1>6. /\ FlatSound(exit, {}) /\ Silent(exit)
      /\ FlatSound(step, {}) /\ Silent(step)
      /\ FlatSound(init, {}) /\ Silent(init)
  BY <1>2, ShortSound
<1>7. /\ FlatSound(middle, {body}) /\ Silent(middle)
      /\ FlatSound(last, {}) /\ Silent(last)
  BY <1>2, <1>4, SoundTuples
<1> HIDE DEF first, exit, middle, step, last, init
<1>8. FlatSound(p, {body}) /\ Leads(p)
  <2> DEFINE a == first \o exit
             b == a \o middle
             d == b \o step
             B == {body}
  <2>0. {} \union {} = {} /\ {} \union B = B /\ B \union {} = B
    OBVIOUS
  <2>1. FlatSound(a, {} \union {}) /\ Leads(a)
    BY <1>5, <1>6, JoinedSound, JoinedLeads DEF FlatSound
  <2>2. FlatSound(a, {})
    BY <2>0, <2>1
  <2> HIDE DEF a, B
  <2>3. FlatSound(b, {} \union B) /\ Leads(b)
    BY <1>7, <2>1, <2>2, JoinedSound, JoinedLeads DEF FlatSound, B
  <2>4. FlatSound(b, B)
    BY <2>0, <2>3
  <2> HIDE DEF b
  <2>5. FlatSound(d, B \union {}) /\ Leads(d)
    BY <1>6, <2>3, <2>4, JoinedSound, JoinedLeads DEF FlatSound
  <2>6. FlatSound(d, B)
    BY <2>0, <2>5
  <2> HIDE DEF d
  <2>7. FlatSound(d \o last, B \union {}) /\ Leads(d \o last)
    BY <1>7, <2>5, <2>6, JoinedSound, JoinedLeads DEF FlatSound
  <2>8. FlatSound(d \o last, B)
    BY <2>0, <2>7
  <2> QED
    BY <2>7, <2>8 DEF a, b, d, B
<1> HIDE DEF p
<1> DEFINE q == <<InScope(s.node, "for", p)>>
           T == {body} \union {s.node}
<1>9. DeepSound(q, T) /\ Silent(q)
  BY <1>8, SoundIn, OneScopeSound
<1>10. DeepSound(init, {}) /\ Silent(init)
  BY <1>6, SoundIn
<1>11. {} \union T = T /\ {} \intersect T = {}
  OBVIOUS
<1> HIDE DEF q, T
<1>12. DeepSound(init \o q, {} \union T)
  BY <1>9, <1>10, <1>11, JoinedSound
<1>13. Silent(init \o q)
  BY <1>9, <1>10, JoinedLeads DEF DeepSound
<1> QED
  BY <1>1, <1>11, <1>12, <1>13 DEF q, T

\* The numbers of an if: those of its arms, of the scopes of its else-ifs and
\* of its else, each given out once.
LEMMA IfPlanSound ==
  ASSUME NEW s, NEW cs, NEW hasElse \in BOOLEAN, nodes \in Nat,
         Len(cs) \in Nat \ {0}, s.node \in 1 .. nodes
  PROVE  LET new == nodes + 1 .. nodes + 2 * Len(cs) - (IF hasElse THEN 0 ELSE 1)
         IN  /\ DeepSound(IfPlan(s, cs, hasElse), new \union {s.node})
             /\ Silent(IfPlan(s, cs, hasElse))
<1> DEFINE n         == s.node
           branch(i) == IF i = 1 THEN n ELSE nodes + 2 * i - 2
           block(i)  == nodes + 2 * i - 1
           else      == nodes + 2 * Len(cs)
           otherwise(i) == IF i < Len(cs) THEN CondOf(branch(i + 1))
                           ELSE IF hasElse THEN StartOf(else) ELSE s.next
           ifExit == Saved(<<n, "if", "exit">>)
           ifEnd  == Saved(<<n, "if", "stmt_end">>)
           test(i) == Cond(cs[i], CondOf(branch(i)), StartOf(block(i)), otherwise(i))
           entry  == LabelLine(Here("entry"))
           goto   == Goto(ifEnd)
           Arm(i, exit) ==
              <<test(i),
                Branch("unless", exit),
                entry,
                Block(block(i), s.next, s.ctx),
                goto,
                LabelLine(exit)>>
           elseIf(i) == InScope(branch(i + 1), "else_if",
                                Arm(i + 1, Here("exit")))
           elseIfs == [i \in 1 .. Len(cs) - 1 |-> elseIf(i)]
           ask     == <<Ask("exit"), NewLabel("stmt_end")>>
           tail    == IF hasElse THEN <<Block(else, s.next, s.ctx)>> ELSE <<>>
           end     == <<LabelLine(ifEnd)>>
           p       == ask \o Arm(1, ifExit) \o elseIfs \o tail \o end
           A       == {nodes + 1}
           B       == nodes + 2 .. nodes + 2 * Len(cs) - 1
           C       == IF hasElse THEN {else} ELSE {}
           new     == nodes + 1 .. nodes + 2 * Len(cs) - (IF hasElse THEN 0 ELSE 1)
<1>1. IfPlan(s, cs, hasElse) = <<InScope(n, "if", p)>>
  BY DEF IfPlan
<1>2. ASSUME NEW i, NEW exit, Plain(Branch("unless", exit)), Plain(LabelLine(exit))
      PROVE  /\ FlatSound(Arm(i, exit), {block(i)})
             /\ Silent(Arm(i, exit)) /\ Leads(Arm(i, exit))
  <2> DEFINE body  == Block(block(i), s.next, s.ctx)
             jump  == Branch("unless", exit)
             after == LabelLine(exit)
  <2>1. Plain(test(i)) /\ Plain(entry) /\ Plain(goto) /\ Plain(jump) /\ Plain(after)
    BY <1>2, PlainItems, PartsAreNoNames
  <2>2. Owner(body, {block(i)})
    BY OwningItems DEF Owner
  <2>3. Arm(i, exit) = <<test(i), jump, entry, body, goto, after>>
    OBVIOUS
  <2> HIDE DEF test, entry, goto, jump, after, body, Arm, block
  <2> QED
    BY <2>1, <2>2, <2>3, SoundTuples
<1>3. /\ Plain(Branch("unless", ifExit)) /\ Plain(LabelLine(ifExit))
      /\ Plain(Branch("unless", Here("exit"))) /\ Plain(LabelLine(Here("exit")))
      /\ Plain(LabelLine(ifEnd))
  BY PlainItems, PartsAreNoNames
<1> HIDE DEF test, entry, goto, ifExit, ifEnd
<1>4. FlatSound(Arm(1, ifExit), A) /\ Silent(Arm(1, ifExit))
  <2>1. block(1) = nodes + 1
    OBVIOUS
  <2> HIDE DEF Arm, block
  <2> QED
    BY <1>2, <1>3, <2>1
<1>5. ASSUME NEW i \in 1 .. Len(cs) - 1
      PROVE  LET x == elseIf(i)
             IN  /\ x.do = "scope" /\ x.node = nodes + 2 * i /\ Proper(x)
                 /\ Leads(x.plan) /\ FlatSound(x.plan, {nodes + 2 * i + 1})
  <2> DEFINE arm == Arm(i + 1, Here("exit"))
  <2>1. block(i + 1) = nodes + 2 * i + 1 /\ branch(i + 1) = nodes + 2 * i
    OBVIOUS
  <2>2. FlatSound(arm, {nodes + 2 * i + 1}) /\ Leads(arm)
    <3> HIDE DEF Arm, block
    <3> QED
      BY <1>2, <1>3, <2>1
  <2>3. elseIf(i) = InScope(nodes + 2 * i, "else_if", arm)
    BY <2>1
  <2> HIDE DEF arm, branch, elseIf
  <2> QED
    BY <2>2, <2>3 DEF InScope, Proper
<1> HIDE DEF elseIf
<1>6. NestedSound(elseIfs, B) /\ Silent(elseIfs)
  <2>1. DOMAIN elseIfs = 1 .. Len(cs) - 1 /\ Len(cs) - 1 \in Nat
    OBVIOUS
  <2>2. elseIfs \in [1 .. Len(cs) - 1 -> {elseIfs[i] : i \in DOMAIN elseIfs}]
    OBVIOUS
  <2>3. IsSequence(elseIfs)
    BY <2>1, <2>2 DEF IsSequence
  <2>4. \A i \in DOMAIN elseIfs : elseIfs[i] = elseIf(i)
    OBVIOUS
  <2> HIDE DEF elseIfs
  <2>5. ASSUME NEW i \in DOMAIN elseIfs, NEW m, Owns(elseIfs[i], m)
        PROVE  m = nodes + 2 * i \/ m = nodes + 2 * i + 1
    <3> DEFINE x == elseIf(i)
    <3>1. /\ x.do = "scope" /\ x.node = nodes + 2 * i
          /\ FlatSound(x.plan, {nodes + 2 * i + 1})
      BY <1>5, <2>1
    <3>2. Owns(x, m)
      BY <2>4, <2>5
    <3> HIDE DEF x
    <3>3. m = nodes + 2 * i \/ \E k \in DOMAIN x.plan : InnerOwns(x.plan[k], m)
      BY <3>1, <3>2 DEF Owns, LeafOwns
    <3>4. \A k \in DOMAIN x.plan : InnerOwns(x.plan[k], m) => Owns(x.plan[k], m)
      BY <3>1 DEF FlatSound, InnerOwns, Owns
    <3>5. \A k \in DOMAIN x.plan : Owns(x.plan[k], m) => m = nodes + 2 * i + 1
      BY <3>1 DEF FlatSound, Apart
    <3> QED
      BY <3>3, <3>4, <3>5
  <2>6. Apart(elseIfs, B)
    <3> SUFFICES ASSUME NEW i \in DOMAIN elseIfs, NEW m, Owns(elseIfs[i], m)
                 PROVE  /\ m \in B
                        /\ \A j \in DOMAIN elseIfs : Owns(elseIfs[j], m) => i = j
      BY DEF Apart
    <3>1. m = nodes + 2 * i \/ m = nodes + 2 * i + 1
      BY <2>5
    <3>2. ASSUME NEW j \in DOMAIN elseIfs, Owns(elseIfs[j], m) PROVE i = j
      <4>1. m = nodes + 2 * j \/ m = nodes + 2 * j + 1
        BY <2>5, <3>2
      <4> QED
        BY <2>1, <3>1, <4>1
    <3>3. m \in B
      BY <2>1, <3>1
    <3> QED
      BY <3>2, <3>3
  <2>7. ASSUME NEW i \in DOMAIN elseIfs
        PROVE  LET x == elseIfs[i]
               IN  /\ x.do = "scope" /\ Proper(x) /\ Leads(x.plan)
                   /\ FlatSound(x.plan, B \ {x.node})
    <3> DEFINE x == elseIfs[i]
               one == {nodes + 2 * i + 1}
    <3>1. /\ x.do = "scope" /\ x.node = nodes + 2 * i /\ Proper(x)
          /\ Leads(x.plan) /\ FlatSound(x.plan, one)
      BY <1>5, <2>1, <2>4
    <3>2. one \subseteq B \ {x.node}
      BY <2>1, <3>1
    <3> HIDE DEF x, one
    <3>3. FlatSound(x.plan, B \ {x.node})
      BY <3>1, <3>2, SoundIn
    <3> QED
      BY <3>1, <3>3 DEF x
  <2> QED
    BY <2>3, <2>6, <2>7 DEF NestedSound, Silent
<1>7. /\ FlatSound(ask, {}) /\ Leads(ask)
  <2> DEFINE name == NewLabel("stmt_end")
             first == Ask("exit")
  <2>1. Proper(name) /\ name.do = "newlabel" /\ \A m : ~Owns(name, m)
    BY OwningItems DEF Names
  <2>2. Plain(first) /\ first.do = "ask"
    BY PlainItems, PartsAreNoNames DEF Ask
  <2> HIDE DEF name, first
  <2> QED
    BY <2>1, <2>2, LeadingTuples DEF name, first
<1>8. FlatSound(tail, C) /\ Silent(tail)
  <2> DEFINE b == Block(else, s.next, s.ctx)
  <2>1. Owner(b, {else})
    BY OwningItems DEF Owner
  <2> HIDE DEF b, else
  <2> QED
    BY <2>1, ShortSound DEF b
<1>9. FlatSound(end, {}) /\ Silent(end)
  BY <1>3, ShortSound
<1>10. /\ A \intersect B = {} /\ (A \union B) \intersect C = {}
       /\ (A \union B) \union C = new /\ n \notin new
  <2>1. CASE hasElse
    BY <2>1
  <2>2. CASE ~hasElse
    BY <2>2
  <2> QED
    BY <2>1, <2>2
<1>11. IsSequence(ask) /\ IsSequence(Arm(1, ifExit)) /\ IsSequence(elseIfs)
       /\ IsSequence(tail) /\ IsSequence(end)
  <2> HIDE DEF ask, Arm, elseIfs, tail, end
  <2> QED
    BY <1>4, <1>6, <1>7, <1>8, <1>9 DEF FlatSound, NestedSound
<1> DEFINE arm == Arm(1, ifExit)
           a == ask \o arm
           b == a \o elseIfs
           d == b \o tail
<1> HIDE DEF A, B, C, new, ask, tail, end, elseIfs, arm, Arm, else
<1>12. p = d \o end
  BY DEF arm
<1>13. FlatSound(arm, A) /\ Silent(arm) /\ IsSequence(arm)
  BY <1>4, <1>11 DEF arm
<1>14. FlatSound(a, A) /\ Leads(a) /\ IsSequence(a)
  <2>1. FlatSound(a, {} \union A)
    BY <1>7, <1>13, JoinedSound
  <2>2. {} \union A = A
    OBVIOUS
  <2>3. Leads(a) /\ IsSequence(a)
    BY <1>7, <1>11, <1>13, JoinedLeads, Concatenation
  <2> HIDE DEF a
  <2> QED
    BY <2>1, <2>2, <2>3
<1> HIDE DEF a, p
<1>15. NestedSound(b, A \union B) /\ Leads(b) /\ IsSequence(b)
  BY <1>6, <1>10, <1>11, <1>14, SoundIn, JoinedSound, JoinedLeads, Concatenation
<1> HIDE DEF b
<1>16. NestedSound(d, new) /\ Leads(d) /\ IsSequence(d)
  <2>1. NestedSound(d, (A \union B) \union C)
    BY <1>8, <1>10, <1>15, SoundIn, JoinedSound
  <2>2. Leads(d) /\ IsSequence(d)
    BY <1>8, <1>11, <1>15, JoinedLeads, Concatenation
  <2> HIDE DEF d
  <2> QED
    BY <1>10, <2>1, <2>2
<1> HIDE DEF d
<1>17. NestedSound(d \o end, new) /\ Leads(d \o end)
  <2>0. NestedSound(end, {}) /\ new \intersect {} = {}
    BY <1>9, SoundIn
  <2>1. NestedSound(d \o end, new \union {})
    BY <1>16, <2>0, JoinedSound
  <2>2. new \union {} = new
    OBVIOUS
  <2>3. Leads(d \o end)
    BY <1>9, <1>11, <1>16, JoinedLeads
  <2> DEFINE r == d \o end
  <2> HIDE DEF r
  <2> QED
    BY <2>1, <2>2, <2>3 DEF r
<1>18. DeepSound(<<InScope(n, "if", p)>>, new \union {n})
       /\ Silent(<<InScope(n, "if", p)>>)
  BY <1>10, <1>12, <1>17, OneScopeSound
<1> QED
  BY <1>1, <1>18 DEF new

-----------------------------------------------------------------------------
(* Steps.                                                                  *)

\* Putting a plan in the place of the head: its numbers are the head's or new.
LEMMA PushSound ==
  ASSUME NEW td, NEW p, NEW S, NEW T, DeepSound(td, S), td # <<>>,
         DeepSound(p, T), \A m : PlanOwns(p, m) => Owns(td[1], m) \/ m \notin S
  PROVE  /\ DeepSound(p \o Tail(td), S \union T)
         /\ \A m : PlanOwns(p \o Tail(td), m) =>
               \/ PlanOwns(p, m)
               \/ \E j \in DOMAIN td : j # 1 /\ Owns(td[j], m)
<1> DEFINE r == p \o Tail(td)
           U == S \union T
<1>0. IsSequence(td) /\ IsSequence(p)
  BY DEF DeepSound
<1>1. IsSequence(r) /\ 1 \in DOMAIN td /\ Len(p) \in Nat
  <2>1. Len(td) \in Nat \ {0} /\ DOMAIN td = 1 .. Len(td)
    BY <1>0, HeadAndTail
  <2> QED
    BY <1>0, <2>1, Splice
<1>2. ASSUME NEW i \in DOMAIN r
      PROVE  \/ i \in DOMAIN p /\ r[i] = p[i]
             \/ \E j \in DOMAIN td : j # 1 /\ i = j + Len(p) - 1 /\ r[i] = td[j]
  BY <1>0, SpliceIndices
<1> HIDE DEF r
<1>3. ASSUME NEW i \in DOMAIN r, NEW m, Owns(r[i], m)
      PROVE  \/ PlanOwns(p, m) /\ m \in T /\ i \in DOMAIN p /\ Owns(p[i], m)
             \/ \E j \in DOMAIN td : /\ j # 1 /\ i = j + Len(p) - 1
                                     /\ Owns(td[j], m) /\ m \in S
                                     /\ ~PlanOwns(p, m)
  <2>1. CASE i \in DOMAIN p /\ r[i] = p[i]
    BY <1>3, <2>1 DEF DeepSound, Apart, PlanOwns
  <2>2. CASE \E j \in DOMAIN td : j # 1 /\ i = j + Len(p) - 1 /\ r[i] = td[j]
    <3>1. PICK j \in DOMAIN td : j # 1 /\ i = j + Len(p) - 1 /\ r[i] = td[j]
      BY <2>2
    <3>2. Owns(td[j], m)
      BY <1>3, <3>1
    <3>3. m \in S /\ ~Owns(td[1], m)
      BY <1>1, <3>1, <3>2 DEF DeepSound, Apart
    <3> QED
      BY <3>1, <3>2, <3>3
  <2> QED
    BY <1>2, <2>1, <2>2
<1>4. ASSUME NEW i \in DOMAIN r, NEW k \in DOMAIN r, NEW m,
             Owns(r[i], m), Owns(r[k], m)
      PROVE  m \in U /\ i = k
  <2>1. CASE PlanOwns(p, m)
    <3>1. /\ i \in DOMAIN p /\ Owns(p[i], m) /\ m \in T
          /\ k \in DOMAIN p /\ Owns(p[k], m)
      BY <1>3, <1>4, <2>1
    <3> QED
      BY <3>1 DEF DeepSound, Apart
  <2>2. CASE ~PlanOwns(p, m)
    <3>1. PICK j \in DOMAIN td : i = j + Len(p) - 1 /\ Owns(td[j], m) /\ m \in S
      BY <1>3, <1>4, <2>2
    <3>2. PICK l \in DOMAIN td : k = l + Len(p) - 1 /\ Owns(td[l], m)
      BY <1>3, <1>4, <2>2
    <3>3. j = l
      BY <3>1, <3>2 DEF DeepSound, Apart
    <3> QED
      BY <3>1, <3>2, <3>3
  <2> QED
    BY <2>1, <2>2
<1>5. Apart(r, U)
  BY <1>4 DEF Apart
<1>6. DeepSound(td, U) /\ DeepSound(p, U)
  <2>1. S \subseteq U /\ T \subseteq U
    OBVIOUS
  <2> HIDE DEF U
  <2> QED
    BY <2>1, SoundIn
<1> HIDE DEF U
<1>7. DeepSound(r, U)
  BY <1>1, <1>2, <1>5, <1>6 DEF DeepSound
<1>8. ASSUME NEW m, PlanOwns(r, m)
      PROVE  PlanOwns(p, m) \/ \E j \in DOMAIN td : j # 1 /\ Owns(td[j], m)
  <2>1. PICK i \in DOMAIN r : Owns(r[i], m)
    BY <1>8 DEF PlanOwns
  <2> QED
    BY <1>3, <2>1
<1> QED
  BY <1>7, <1>8 DEF r, U

\* Where the head neither makes up a label nor asks for one, nothing in todo
\* makes one up.
LEMMA HeadLeads ==
  ASSUME Numbered, Generating,
         Head(todo).do \notin {"ask", "newlabel"}
  PROVE  Silent(todo)
<1>1. Leads(todo) /\ IsSequence(todo) /\ todo # <<>>
  BY DEF Numbered, Generating, DeepSound
<1>2. Head(todo) = todo[1] /\ 1 \in DOMAIN todo
  BY <1>1, HeadAndTail
<1>3. ASSUME NEW i \in DOMAIN todo, todo[i].do = "newlabel" PROVE FALSE
  <2>1. i = 1 \/ todo[1].do = "ask"
    BY <1>1, <1>3 DEF Leads
  <2> QED
    BY <1>2, <1>3, <2>1
<1> QED
  BY <1>3 DEF Silent

\* What is left when the head is taken away makes up a label only if what was
\* there did.
LEMMA TailItems ==
  ASSUME NEW td, NEW p, IsSequence(td), td # <<>>, IsSequence(p)
  PROVE  /\ Silent(p) /\ Silent(td) => Silent(p \o Tail(td))
         /\ Leads(p) /\ Silent(td) => Leads(p \o Tail(td))
<1>1. IsSequence(Tail(td)) /\ (Silent(td) => Silent(Tail(td)))
  <2>1. /\ IsSequence(Tail(td)) /\ DOMAIN td = 1 .. Len(td) /\ Len(td) \in Nat
        /\ DOMAIN Tail(td) = 1 .. Len(td) - 1
        /\ \A i \in 1 .. Len(td) - 1 : Tail(td)[i] = td[i + 1]
    BY HeadAndTail
  <2>2. \A i \in 1 .. Len(td) - 1 : i + 1 \in DOMAIN td
    BY <2>1
  <2> QED
    BY <2>1, <2>2 DEF Silent
<1> QED
  BY <1>1, JoinedLeads

\* A step that puts a plan in the place of the head, one that does not make up
\* a label, and hands out no label that is made up.
LEMMA PlanNumbered ==
  ASSUME IInv, Numbered, NEW kind, Do(kind), kind \notin {"ask", "newlabel"},
         NEW p, NEW T, DeepSound(p, T), Silent(p), Continue(p),
         nodes' \in Nat, nodes <= nodes', T \subseteq 1 .. nodes',
         \A m \in T : Owns(Head(todo), m) \/ m \notin 1 .. nodes,
         kind # "function", phase' = phase,
         \A n : Made(generated', n) => Made(generated, n)
  PROVE  Numbered' /\ Kept
<1> DEFINE S == 1 .. nodes
<1>1. /\ Generating /\ phase = "gen" /\ todo # <<>> /\ Head(todo).do = kind
      /\ IsSequence(todo) /\ DeepSound(todo, S) /\ nodes \in Nat
      /\ \A n : Made(generated, n) => n \in S /\ ~PlanOwns(todo, n)
  BY DEF Do, Generating, h, Numbered, DeepSound, IInv
<1>2. Head(todo) = todo[1] /\ 1 \in DOMAIN todo
  BY <1>1, HeadAndTail
<1>3. todo' = p \o Tail(todo)
  BY DEF Continue
<1>4. /\ DeepSound(todo', S \union T)
      /\ \A m : PlanOwns(todo', m) =>
            m \in T \/ \E j \in DOMAIN todo : Owns(todo[j], m)
  <2>1. \A m : PlanOwns(p, m) => m \in T
    BY DEF DeepSound, Apart, PlanOwns
  <2>2. \A m \in T : Owns(todo[1], m) \/ m \notin S
    BY <1>2
  <2> HIDE DEF S
  <2> QED
    BY <1>1, <1>3, <2>1, <2>2, PushSound
<1>5. DeepSound(todo', 1 .. nodes')
  <2> DEFINE U == S \union T
             N == 1 .. nodes'
  <2>1. U \subseteq N
    BY <1>1
  <2> HIDE DEF U, N
  <2>2. DeepSound(todo', U)
    BY <1>4 DEF U
  <2>3. DeepSound(todo', N)
    BY <2>1, <2>2, SoundIn
  <2> QED
    BY <2>3 DEF N
<1>6. Silent(todo') /\ Leads(todo')
  <2>1. Silent(todo)
    BY <1>1, HeadLeads
  <2>2. IsSequence(p)
    BY DEF DeepSound
  <2>3. Silent(todo')
    BY <1>1, <1>3, <2>1, <2>2, TailItems
  <2> QED
    BY <2>3 DEF Silent, Leads
<1>7. ASSUME NEW n, Made(generated', n) PROVE n \in 1 .. nodes' /\ ~PlanOwns(todo', n)
  <2>1. n \in S /\ ~PlanOwns(todo, n)
    BY <1>1, <1>7
  <2>2. ~PlanOwns(todo', n)
    BY <1>2, <1>4, <2>1 DEF PlanOwns
  <2> QED
    BY <1>1, <2>1, <2>2
<1>8. Kept
  BY <1>2, <1>4 DEF PlanOwns, Kept
<1> QED
  BY <1>5, <1>6, <1>7, <1>8 DEF Numbered, Silent

\* A label of a scope, or of none, is made up only if its part is; a line
\* label never is.
LEMMA OnlyNamesAreMade ==
  ASSUME NEW n, NEW part, NEW scope, NEW k
  PROVE  /\ part \notin Names /\ Made(generated \union {LabelOf(scope, part)}, n)
               => Made(generated, n)
         /\ Made(generated \union {LabelOf(scope, part)}, n)
               => Made(generated, n) \/ n = scope.loc
         /\ Made(generated \union {LineLabel(k)}, n) => Made(generated, n)
<1>1. ASSUME NEW type, NEW name, <<n, type, name>> = LabelOf(scope, part)
      PROVE  n = scope.loc /\ name = part
  BY <1>1 DEF LabelOf
<1>2. ASSUME NEW type, NEW name PROVE <<n, type, name>> # LineLabel(k)
  <2>1. Len(<<n, type, name>>) = 3 /\ Len(LineLabel(k)) = 2
    BY DEF LineLabel
  <2> QED
    BY <2>1
<1>3. ASSUME part \notin Names, Made(generated \union {LabelOf(scope, part)}, n)
      PROVE  Made(generated, n)
  <2>0. PICK type : \E name \in Names :
           <<n, type, name>> \in generated \union {LabelOf(scope, part)}
    BY <1>3 DEF Made
  <2>1. PICK name \in Names :
           <<n, type, name>> \in generated \union {LabelOf(scope, part)}
    BY <2>0
  <2>2. <<n, type, name>> # LabelOf(scope, part)
    BY <1>1, <1>3
  <2> QED
    BY <2>1, <2>2 DEF Made
<1>4. ASSUME Made(generated \union {LabelOf(scope, part)}, n), n # scope.loc
      PROVE  Made(generated, n)
  BY <1>1, <1>4 DEF Made
<1>5. ASSUME Made(generated \union {LineLabel(k)}, n) PROVE Made(generated, n)
  BY <1>2, <1>5 DEF Made
<1> QED
  BY <1>3, <1>4, <1>5

\* Asking for a label of the scope, by a part that is not made up.
LEMMA AskingMakesNone ==
  ASSUME NEW part, part \notin Names, Record(ScopeLabel(part))
  PROVE  /\ \A n : Made(generated', n) => Made(generated, n)
         /\ UNCHANGED scopeStack
<1>1. \/ generated' = generated
      \/ generated' = generated \union {LabelOf(Innermost, part)}
  BY DEF Record, ScopeLabel
<1> QED
  BY <1>1, OnlyNamesAreMade DEF Record

\* The visits to statements and blocks.
LEMMA VisitsAreNumbered ==
  ASSUME IInv, Numbered,
         \/ VisitSimple \/ VisitReturn \/ VisitBreak \/ VisitContinue
         \/ VisitIf \/ VisitWhile \/ VisitDo \/ VisitFor \/ VisitBlock
  PROVE  Numbered' /\ Kept
<1> USE DEF lmVars
<1>0. nodes \in Nat /\ nodes <= nodes
  BY DEF IInv
<1>1. phase' = phase /\ generated' = generated /\ (Do("stmt") \/ Do("block"))
  BY DEF VisitSimple, VisitReturn, VisitBreak, VisitContinue, VisitIf,
         VisitWhile, VisitDo, VisitFor, VisitBlock
<1>2. /\ Generating /\ todo # <<>> /\ Owns(Head(todo), h.node)
      /\ h.node \in 1 .. nodes
  <2>0. /\ Generating /\ phase = "gen" /\ todo # <<>>
        /\ h.do = "stmt" \/ h.do = "block"
    BY <1>1 DEF Do, Generating, h
  <2>1. /\ Generating /\ phase = "gen" /\ todo # <<>> /\ h.do \in {"stmt", "block"}
        /\ DeepSound(todo, 1 .. nodes)
    BY <2>0 DEF Numbered
  <2>2. h = todo[1] /\ 1 \in DOMAIN todo
    BY <2>1, HeadAndTail DEF DeepSound, h
  <2>3. Owns(h, h.node)
    BY <2>1 DEF Owns, LeafOwns
  <2>4. h.node \in 1 .. nodes
    BY <2>1, <2>2, <2>3 DEF DeepSound, Apart
  <2> QED
    BY <2>1, <2>3, <2>4 DEF h
<1>3. ASSUME NEW p, NEW new, DeepSound(p, new \union {h.node}), Silent(p),
             Continue(p), nodes' \in Nat, nodes <= nodes',
             new \subseteq nodes + 1 .. nodes'
      PROVE  Numbered' /\ Kept
  <2> DEFINE T == new \union {h.node}
  <2>0. nodes + 1 .. nodes' \subseteq 1 .. nodes' /\ h.node \in 1 .. nodes'
    BY <1>0, <1>2, <1>3
  <2>1. T \subseteq 1 .. nodes'
    BY <1>3, <2>0
  <2>2. \A m \in T : Owns(Head(todo), m) \/ m \notin 1 .. nodes
    BY <1>0, <1>2, <1>3
  <2>3. DeepSound(p, T)
    BY <1>3
  <2>4. PICK kind \in {"stmt", "block"} : Do(kind)
    BY <1>1
  <2>5. kind \notin {"ask", "newlabel"} /\ kind # "function"
    OBVIOUS
  <2>6. \A n : Made(generated', n) => Made(generated, n)
    BY <1>1
  <2> HIDE DEF T
  <2> QED
    BY <1>1, <1>3, <2>1, <2>2, <2>3, <2>4, <2>5, <2>6, PlanNumbered
<1>4. ASSUME NEW p, FlatSound(p, {}), Silent(p), Continue(p), nodes' = nodes
      PROVE  Numbered' /\ Kept
  <2> DEFINE T == {} \union {h.node}
  <2>1. {} \subseteq T /\ {} \subseteq nodes + 1 .. nodes'
    OBVIOUS
  <2> HIDE DEF T
  <2>2. DeepSound(p, T)
    BY <1>4, <2>1, SoundIn
  <2> QED
    BY <1>0, <1>3, <1>4, <2>1, <2>2 DEF T
<1>6. CASE VisitSimple \/ VisitReturn \/ VisitBreak \/ VisitContinue
  <2>1. Continue(<<>>) /\ nodes' = nodes
    BY <1>6 DEF VisitSimple, VisitReturn, VisitBreak, VisitContinue
  <2> QED
    BY <1>4, <2>1, ShortSound
<1>7. CASE VisitIf
  <2>1. PICK m \in 0 .. MaxElseIf, c \in Conds["if"], hasElse \in BOOLEAN :
        \E cs \in [1 .. m -> Conds["else_if"]] :
           /\ nodes' = nodes + 2 * m + (IF hasElse THEN 2 ELSE 1)
           /\ Continue(IfPlan(h, <<c>> \o cs, hasElse))
    BY <1>7 DEF VisitIf
  <2>2. PICK cs \in [1 .. m -> Conds["else_if"]] :
           /\ nodes' = nodes + 2 * m + (IF hasElse THEN 2 ELSE 1)
           /\ Continue(IfPlan(h, <<c>> \o cs, hasElse))
    BY <2>1
  <2>3. Len(<<c>> \o cs) = m + 1 /\ m \in Nat
    <3>1. cs \in Seq(Conds["else_if"]) /\ Len(cs) = m /\ m \in Nat
      OBVIOUS
    <3>2. IsSequence(cs) /\ IsSequence(<<c>>) /\ Len(<<c>>) = 1
      BY <3>1, AnySequence, Singleton
    <3>3. Len(<<c>> \o cs) = 1 + Len(cs)
      BY <3>2, SequenceLength, Concatenation
    <3> QED
      BY <3>1, <3>3
  <2> DEFINE all == <<c>> \o cs
             new == nodes + 1 .. nodes + 2 * Len(all) - (IF hasElse THEN 0 ELSE 1)
             p   == IfPlan(h, all, hasElse)
  <2>4. DeepSound(p, new \union {h.node}) /\ Silent(p)
    <3>1. Len(all) \in Nat \ {0}
      BY <2>3
    <3> HIDE DEF all
    <3> QED
      BY <1>0, <1>2, <3>1, IfPlanSound
  <2>5. Continue(p)
    BY <2>2
  <2>6. nodes' \in Nat /\ nodes <= nodes' /\ new \subseteq nodes + 1 .. nodes'
    <3>1. CASE hasElse
      BY <1>0, <2>2, <2>3, <3>1
    <3>2. CASE ~hasElse
      BY <1>0, <2>2, <2>3, <3>2
    <3> QED
      BY <3>1, <3>2
  <2> HIDE DEF p, new
  <2> QED
    BY <1>3, <2>4, <2>5, <2>6
<1> DEFINE body == nodes'
<1>8. ASSUME nodes' = nodes + 1
      PROVE  /\ body # h.node /\ nodes' \in Nat /\ nodes <= nodes'
             /\ {body} \subseteq nodes + 1 .. nodes'
  BY <1>0, <1>2, <1>8
<1>9. CASE VisitWhile \/ VisitDo
  <2>1. nodes' = nodes + 1
    BY <1>9 DEF VisitWhile, VisitDo
  <2>2. PICK c : Continue(WhilePlan(h, body, c)) \/ Continue(DoPlan(h, body, c))
    BY <1>9 DEF VisitWhile, VisitDo
  <2>3. body # h.node /\ {body} \subseteq nodes + 1 .. nodes'
        /\ nodes' \in Nat /\ nodes <= nodes'
    BY <1>8, <2>1
  <2> HIDE DEF body
  <2>4. PICK p : /\ Continue(p) /\ DeepSound(p, {body} \union {h.node})
                 /\ Silent(p)
    BY <2>2, <2>3, LoopPlansSound
  <2> QED
    BY <1>3, <2>3, <2>4
<1>10. CASE VisitFor
  <2>1. nodes' = nodes + 1
    BY <1>10 DEF VisitFor
  <2>2. PICK c \in Conds["for"], full \in BOOLEAN :
           Continue(ForPlan(h, body, c, full))
    BY <1>10 DEF VisitFor
  <2>3. body # h.node /\ {body} \subseteq nodes + 1 .. nodes'
        /\ nodes' \in Nat /\ nodes <= nodes'
    BY <1>8, <2>1
  <2> HIDE DEF body
  <2>4. PICK p : /\ Continue(p) /\ DeepSound(p, {body} \union {h.node})
                 /\ Silent(p)
    BY <2>2, <2>3, ForPlanSound
  <2> QED
    BY <1>3, <2>3, <2>4
<1>11. CASE VisitBlock
  <2>1. PICK k \in 0 .. MaxBlock :
           /\ nodes' = nodes + k
           /\ Continue(BlockPlan(nodes + 1, k, h.next, h.ctx))
    BY <1>11 DEF VisitBlock
  <2>2. nodes' \in Nat /\ k \in Nat /\ nodes + 1 \in Nat \ {0} /\ nodes <= nodes'
        /\ (nodes + 1) + k - 1 = nodes'
    BY <1>0, <2>1
  <2> DEFINE p == BlockPlan(nodes + 1, k, h.next, h.ctx)
             new == nodes + 1 .. nodes'
             T == new \union {h.node}
  <2>3. FlatSound(p, new) /\ Silent(p)
    BY <2>2, BlockPlanSound
  <2>4. Continue(p) /\ new \subseteq nodes + 1 .. nodes' /\ new \subseteq T
    BY <2>1
  <2> HIDE DEF p, new, T
  <2>5. DeepSound(p, T)
    BY <2>3, <2>4, SoundIn
  <2> QED
    BY <1>3, <2>2, <2>3, <2>4, <2>5 DEF T
<1> QED
  BY <1>6, <1>7, <1>9, <1>10, <1>11

\* The visits to conditions, and the items that write a line.
LEMMA LinesAreNumbered ==
  ASSUME IInv, Numbered,
         \/ VisitAtom \/ VisitLogical \/ SkipCond
         \/ EmitLabel \/ EmitGoto \/ EmitBranch \/ EmitLine \/ EmitAct
         \/ EndFunction
  PROVE  Numbered' /\ Kept
<1> USE DEF lmVars
<1>0. nodes \in Nat /\ nodes <= nodes
  BY DEF IInv
<1>1. ASSUME NEW kind, Do(kind)
      PROVE  Generating /\ phase = "gen" /\ h.do = kind /\ Proper(h)
  <2>1. Generating /\ phase = "gen" /\ todo # <<>> /\ h.do = kind
    BY <1>1 DEF Do, Generating, h
  <2>2. DeepSound(todo, 1 .. nodes)
    BY <2>1 DEF Numbered
  <2>3. h = todo[1] /\ 1 \in DOMAIN todo
    BY <2>1, <2>2, HeadAndTail DEF DeepSound, h
  <2> QED
    BY <2>1, <2>2, <2>3 DEF DeepSound
<1>2. ASSUME NEW kind, Do(kind), kind \notin {"ask", "newlabel"}, kind # "function",
             NEW p, FlatSound(p, {}), Silent(p), Continue(p),
             UNCHANGED <<phase, nodes>>,
             \A n : Made(generated', n) => Made(generated, n)
      PROVE  Numbered' /\ Kept
  <2> DEFINE T == {}
  <2>1. T \subseteq 1 .. nodes' /\ T \subseteq T /\ nodes' \in Nat /\ nodes <= nodes'
        /\ \A m \in T : Owns(Head(todo), m) \/ m \notin 1 .. nodes
    BY <1>0, <1>2
  <2>2. FlatSound(p, T)
    BY <1>2
  <2> HIDE DEF T
  <2>3. DeepSound(p, T)
    BY <2>1, <2>2, SoundIn
  <2> QED
    BY <1>2, <2>1, <2>3, PlanNumbered
<1>3. FlatSound(<<>>, {}) /\ Silent(<<>>)
  BY ShortSound
<1>4. CASE VisitAtom \/ SkipCond \/ EmitAct \/ EndFunction
  <2>1. /\ Continue(<<>>) /\ UNCHANGED <<phase, nodes, generated>>
        /\ Do("cond") \/ Do("act") \/ Do("epilogue")
    BY <1>4 DEF VisitAtom, SkipCond, EmitAct, EndFunction
  <2>2. \A n : Made(generated', n) => Made(generated, n)
    BY <2>1
  <2> QED
    BY <1>2, <1>3, <2>1, <2>2
<1>5. CASE VisitLogical
  <2> DEFINE l == Operand(h.point, "l")
             r == Operand(h.point, "r")
             and == <<Cond(h.cond.lhs, l, r, h.no),
                      Branch("unless", Here("exit")),
                      Cond(h.cond.rhs, r, h.yes, h.no)>>
             or  == <<Cond(h.cond.lhs, l, h.yes, r),
                      Branch("if", Here("entry")),
                      Cond(h.cond.rhs, r, h.yes, h.no)>>
  <2>1. ASSUME NEW a, NEW b, NEW c, Plain(a), Plain(b), Plain(c)
        PROVE  FlatSound(<<a, b, c>>, {}) /\ Silent(<<a, b, c>>)
    <3> DEFINE p == <<a, b, c>>
    <3>1. /\ p \in Seq({a, b, c}) /\ DOMAIN p = 1 .. 3
          /\ p[1] = a /\ p[2] = b /\ p[3] = c
      OBVIOUS
    <3> HIDE DEF p
    <3>2. IsSequence(p) /\ \A i \in DOMAIN p : Plain(p[i])
      BY <2>1, <3>1, AnySequence
    <3> QED
      BY <3>2, OneOwner DEF p
  <2>2. /\ FlatSound(and, {}) /\ Silent(and)
        /\ FlatSound(or, {}) /\ Silent(or)
    BY <2>1, PlainItems, PartsAreNoNames
  <2>3. /\ Continue(IF h.cond.form = "and" THEN and ELSE or)
        /\ Do("cond") /\ UNCHANGED <<phase, nodes, generated>>
    BY <1>5 DEF VisitLogical
  <2> HIDE DEF and, or
  <2>4. PICK p : FlatSound(p, {}) /\ Silent(p) /\ Continue(p)
    BY <2>2, <2>3
  <2>5. \A n : Made(generated', n) => Made(generated, n)
    BY <2>3
  <2> QED
    BY <1>2, <2>3, <2>4, <2>5
<1>6. CASE EmitLabel \/ EmitGoto \/ EmitBranch
  <2>1. PICK kind \in {"label", "goto", "branch"} :
           /\ Do(kind) /\ Continue(<<>>) /\ Named(h.ref)
           /\ UNCHANGED <<phase, nodes>>
    BY <1>6 DEF EmitLabel, EmitGoto, EmitBranch
  <2>2. h.ref.saved \/ h.ref.part \notin Names
    BY <1>1, <2>1 DEF Proper
  <2>3. \A n : Made(generated', n) => Made(generated, n)
    <3>1. CASE generated' = generated
      BY <3>1
    <3>2. CASE ~h.ref.saved /\ Record(ScopeLabel(h.ref.part))
      BY <2>2, <3>2, AskingMakesNone
    <3> QED
      BY <2>1, <3>1, <3>2 DEF Named, Resolve
  <2>4. kind \notin {"ask", "newlabel"} /\ kind # "function"
    OBVIOUS
  <2> QED
    BY <1>2, <1>3, <2>1, <2>3, <2>4
<1>7. CASE EmitLine
  <2>1. /\ Do("line") /\ Continue(<<>>) /\ UNCHANGED <<phase, nodes>>
        /\ generated' = generated \union {LineLabel(labelCount)}
    BY <1>7 DEF EmitLine, GenerateLineLabel
  <2>2. \A n : Made(generated', n) => Made(generated, n)
    BY <2>1, OnlyNamesAreMade
  <2> QED
    BY <1>2, <1>3, <2>1, <2>2
<1> QED
  BY <1>4, <1>5, <1>6, <1>7

\* Taking away a head that asks for a label or makes one up.
LEMMA LabelsAreNumbered ==
  ASSUME IInv, Numbered, AskLabel \/ NameLabel
  PROVE  Numbered' /\ Kept
<1> DEFINE S == 1 .. nodes
           n == Innermost.loc
<1>0. /\ todo' = <<>> \o Tail(todo) /\ phase' = phase /\ nodes' = nodes
      /\ scopeStack' = scopeStack
  BY DEF AskLabel, NameLabel, GenerateLabel, Record, Continue
<1>1. /\ Generating /\ phase = "gen" /\ todo # <<>>
      /\ h.do \in {"ask", "newlabel"} /\ Head(todo).do # "function"
  BY DEF AskLabel, NameLabel, Do, Generating, h
<1>2. /\ DeepSound(todo, S) /\ Leads(todo)
      /\ \A m : Made(generated, m) => m \in S /\ ~PlanOwns(todo, m)
      /\ \A i \in DOMAIN todo : todo[i].do = "newlabel" =>
            n \in S /\ ~PlanOwns(todo, n) /\ ~Made(generated, n)
  BY <1>1 DEF Numbered
<1>3. /\ IsSequence(todo) /\ Head(todo) = todo[1] /\ 1 \in DOMAIN todo
      /\ Len(todo) \in Nat /\ DOMAIN todo = 1 .. Len(todo)
  BY <1>1, <1>2, HeadAndTail DEF DeepSound
<1>4. /\ DeepSound(todo', S)
      /\ \A m : PlanOwns(todo', m) => PlanOwns(todo, m)
  <2> DEFINE p == <<>>
             T == {}
  <2>1. DeepSound(p, T) /\ \A m : ~PlanOwns(p, m)
    <3>1. FlatSound(p, {})
      BY ShortSound
    <3>2. {} \subseteq T
      OBVIOUS
    <3> HIDE DEF p
    <3> QED
      BY <3>1, <3>2, SoundIn DEF FlatSound, Apart, PlanOwns
  <2>2. todo' = p \o Tail(todo)
    BY <1>0
  <2>3. S \union T = S /\ \A m : m \notin T
    OBVIOUS
  <2> HIDE DEF p, T, S
  <2>4. /\ DeepSound(todo', S \union T)
        /\ \A m : PlanOwns(todo', m) =>
              PlanOwns(p, m) \/ \E j \in DOMAIN todo : j # 1 /\ Owns(todo[j], m)
    BY <1>1, <1>2, <2>1, <2>2, PushSound
  <2> QED
    BY <2>1, <2>3, <2>4 DEF PlanOwns
<1>5. /\ DOMAIN todo' = 1 .. Len(todo) - 1
      /\ \A i \in 1 .. Len(todo) - 1 : todo'[i] = todo[i + 1]
  <2> DEFINE p == <<>>
  <2>1. IsSequence(p) /\ Len(p) = 0
    BY Singleton
  <2>2. todo' = p \o Tail(todo)
    BY <1>0
  <2> HIDE DEF p
  <2>3. /\ DOMAIN todo' = 1 .. 0 + Len(todo) - 1
        /\ \A i \in 2 .. Len(todo) : todo'[i + 0 - 1] = todo[i]
    BY <1>1, <1>3, <2>1, <2>2, Splice
  <2>4. ASSUME NEW i \in 1 .. Len(todo) - 1 PROVE todo'[i] = todo[i + 1]
    <3>1. i + 1 \in 2 .. Len(todo) /\ (i + 1) + 0 - 1 = i
      BY <1>3
    <3> QED
      BY <2>3, <3>1
  <2> QED
    BY <1>3, <2>3, <2>4
<1>6. ASSUME NEW i \in DOMAIN todo', todo'[i].do = "newlabel"
      PROVE  i = 1 /\ h.do = "ask" /\ \E j \in DOMAIN todo : todo[j].do = "newlabel"
  <2>1. i + 1 \in DOMAIN todo /\ todo[i + 1].do = "newlabel" /\ i \in Nat \ {0}
    BY <1>3, <1>5, <1>6
  <2>2. i + 1 = 1 \/ (i + 1 = 2 /\ todo[1].do = "ask")
    BY <1>2, <2>1 DEF Leads
  <2> QED
    BY <1>3, <2>1, <2>2 DEF h
<1>7. Leads(todo')
  BY <1>6 DEF Leads
<1>8. Kept
  BY <1>4 DEF Kept
<1>9. CASE AskLabel
  <2>1. h.do = "ask" /\ Record(ScopeLabel(h.part))
    BY <1>9 DEF AskLabel, Do, h
  <2>2. h.part \notin Names
    BY <1>2, <1>3, <2>1 DEF DeepSound, Proper, h
  <2>3. \A m : Made(generated', m) => Made(generated, m)
    BY <2>1, <2>2, AskingMakesNone
  <2>4. ASSUME NEW i \in DOMAIN todo', todo'[i].do = "newlabel"
        PROVE  n \in S /\ ~PlanOwns(todo', n) /\ ~Made(generated', n)
    <3>1. n \in S /\ ~PlanOwns(todo, n) /\ ~Made(generated, n)
      BY <1>2, <1>6, <2>4
    <3> QED
      BY <1>4, <2>3, <3>1
  <2>5. \A m : Made(generated', m) => m \in S /\ ~PlanOwns(todo', m)
    BY <1>2, <1>4, <2>3
  <2>6. Innermost' = Innermost
    BY <1>0 DEF Innermost
  <2> QED
    BY <1>0, <1>4, <1>7, <1>8, <2>4, <2>5, <2>6 DEF Numbered
<1>10. CASE NameLabel
  <2>1. h.do = "newlabel" /\ Record(LabelOf(Innermost, h.name))
    BY <1>10 DEF NameLabel, Do, GenerateLabel, h
  <2>2. n \in S /\ ~PlanOwns(todo, n)
    BY <1>2, <1>3, <2>1 DEF h
  <2>3. \A m : Made(generated', m) => Made(generated, m) \/ m = n
    <3>1. generated' = generated
          \/ generated' = generated \union {LabelOf(Innermost, h.name)}
      BY <2>1 DEF Record
    <3> QED
      BY <3>1, OnlyNamesAreMade
  <2>4. \A m : Made(generated', m) => m \in S /\ ~PlanOwns(todo', m)
    BY <1>2, <1>4, <2>2, <2>3
  <2>5. \A i \in DOMAIN todo' : todo'[i].do # "newlabel"
    BY <1>6, <2>1
  <2> QED
    BY <1>0, <1>4, <1>7, <1>8, <2>4, <2>5 DEF Numbered
<1> QED
  BY <1>9, <1>10

\* Entering a scope: its number is no longer waiting, and no label was made up
\* for it yet.
LEMMA EnteredIsNumbered ==
  ASSUME IInv, Numbered, OpenScope
  PROVE  /\ Numbered' /\ Kept
         /\ PlanOwns(todo, h.node) /\ ~PlanOwns(todo', h.node)
<1> DEFINE S == 1 .. nodes
           n == h.node
           T == S \ {n}
           leave == Leave(Len(scopeStack) + 1)
           q == <<leave>>
           p == h.plan \o q
<1>1. /\ todo' = p \o Tail(todo) /\ phase' = phase /\ nodes' = nodes
      /\ EnterScope(n, h.type) /\ Do("scope")
  BY DEF OpenScope, Continue
<1>2. /\ Generating /\ phase = "gen" /\ todo # <<>> /\ h.do = "scope"
      /\ Head(todo).do # "function" /\ Head(todo).do \notin {"ask", "newlabel"}
      /\ generated' = generated
  BY <1>1 DEF Do, Generating, h, EnterScope
<1>3. /\ DeepSound(todo, S) /\ IsSequence(todo)
      /\ \A m : Made(generated, m) => m \in S /\ ~PlanOwns(todo, m)
  BY <1>2 DEF Numbered, DeepSound
<1>4. h = todo[1] /\ 1 \in DOMAIN todo
  BY <1>2, <1>3, HeadAndTail DEF h
<1>5. Leads(h.plan) /\ NestedSound(h.plan, T)
  BY <1>2, <1>3, <1>4 DEF DeepSound
<1>6. Owns(h, n) /\ n \in S /\ PlanOwns(todo, n)
  <2>1. Owns(h, n)
    BY <1>2 DEF Owns
  <2> QED
    BY <1>3, <1>4, <2>1 DEF DeepSound, Apart, PlanOwns
<1>7. Silent(todo)
  BY <1>2, HeadLeads
<1>8. Plain(leave) /\ FlatSound(q, {}) /\ Silent(q) /\ IsSequence(q)
  <2>1. Plain(leave)
    BY PlainItems
  <2> HIDE DEF leave
  <2>2. FlatSound(q, {}) /\ Silent(q)
    BY <2>1, ShortSound
  <2> QED
    BY <2>1, <2>2 DEF FlatSound
<1>9. \A m : ~PlanOwns(q, m)
  <2> HIDE DEF q
  <2> QED
    BY <1>8 DEF FlatSound, Apart, PlanOwns
<1> HIDE DEF leave, q, S
<1>10. DeepSound(p, T) /\ Leads(p) /\ IsSequence(p)
  <2>1. NestedSound(q, {}) /\ T \intersect {} = {}
    BY <1>8, SoundIn
  <2>2. NestedSound(p, T \union {})
    BY <1>5, <2>1, JoinedSound
  <2>3. T \union {} = T
    OBVIOUS
  <2>4. Leads(p)
    BY <1>5, <1>8, JoinedLeads DEF NestedSound
  <2> HIDE DEF p, T
  <2>5. NestedSound(p, T)
    BY <2>2, <2>3
  <2>6. DeepSound(p, T)
    BY <2>5, SoundIn
  <2> QED
    BY <2>4, <2>6 DEF DeepSound
<1>11. ASSUME NEW m, PlanOwns(p, m) PROVE Owns(h, m) /\ m # n
  <2>1. m \in T
    <3> HIDE DEF p, T
    <3> QED
      BY <1>10, <1>11 DEF DeepSound, Apart, PlanOwns
  <2>2. PICK i \in DOMAIN p : Owns(p[i], m)
    BY <1>11 DEF PlanOwns
  <2>3. \/ \E k \in DOMAIN h.plan : p[i] = h.plan[k]
        \/ \E k \in DOMAIN q : p[i] = q[k]
    <3>1. /\ IsSequence(h.plan)
          /\ Len(h.plan) \in Nat /\ DOMAIN h.plan = 1 .. Len(h.plan)
          /\ Len(q) \in Nat /\ DOMAIN q = 1 .. Len(q)
      BY <1>5, <1>8, SequenceLength DEF NestedSound
    <3>2. /\ DOMAIN p = 1 .. Len(h.plan) + Len(q)
          /\ \A k \in 1 .. Len(h.plan) + Len(q) :
                p[k] = IF k <= Len(h.plan) THEN h.plan[k] ELSE q[k - Len(h.plan)]
      BY <1>8, <3>1, Concatenation
    <3> HIDE DEF p
    <3>3. CASE i <= Len(h.plan)
      BY <3>1, <3>2, <3>3
    <3>4. CASE ~(i <= Len(h.plan))
      <4>1. i - Len(h.plan) \in DOMAIN q
        BY <3>1, <3>2, <3>4
      <4> QED
        BY <3>2, <3>4, <4>1
    <3> QED
      BY <3>3, <3>4
  <2>4. PICK k \in DOMAIN h.plan : Owns(h.plan[k], m)
    BY <1>9, <2>2, <2>3 DEF PlanOwns
  <2>5. InnerOwns(h.plan[k], m)
    <3> DEFINE x == h.plan[k]
    <3>1. x.do = "scope" => \A j \in DOMAIN x.plan : x.plan[j].do # "scope"
      BY <1>5 DEF NestedSound, FlatSound
    <3> HIDE DEF x
    <3>2. Owns(x, m)
      BY <2>4 DEF x
    <3>3. CASE LeafOwns(x, m)
      BY <3>3 DEF InnerOwns, x
    <3>4. CASE x.do = "scope" /\ x.node = m
      BY <3>4 DEF InnerOwns, x
    <3>5. CASE x.do = "scope" /\ \E j \in DOMAIN x.plan : InnerOwns(x.plan[j], m)
      <4>1. PICK j \in DOMAIN x.plan : InnerOwns(x.plan[j], m)
        BY <3>5
      <4>2. LeafOwns(x.plan[j], m)
        BY <3>1, <3>5, <4>1 DEF InnerOwns
      <4> QED
        BY <3>5, <4>2 DEF InnerOwns, x
    <3> QED
      BY <3>2, <3>3, <3>4, <3>5 DEF Owns
  <2> QED
    BY <1>2, <2>1, <2>5 DEF Owns
<1> HIDE DEF p
<1>12. /\ DeepSound(todo', S \union T)
       /\ \A m : PlanOwns(todo', m) =>
             PlanOwns(p, m) \/ \E j \in DOMAIN todo : j # 1 /\ Owns(todo[j], m)
  BY <1>1, <1>2, <1>3, <1>4, <1>10, <1>11, PushSound
<1>13. DeepSound(todo', S)
  <2>1. S \union T = S
    OBVIOUS
  <2> QED
    BY <1>12, <2>1
<1>14. Leads(todo')
  BY <1>1, <1>2, <1>3, <1>7, <1>10, TailItems
<1>15. \A m : PlanOwns(todo', m) => PlanOwns(todo, m) /\ m # n
  <2> SUFFICES ASSUME NEW m, PlanOwns(todo', m)
               PROVE  PlanOwns(todo, m) /\ m # n
    OBVIOUS
  <2>1. CASE PlanOwns(p, m)
    BY <1>4, <1>11, <2>1 DEF PlanOwns
  <2>2. CASE \E j \in DOMAIN todo : j # 1 /\ Owns(todo[j], m)
    <3>1. PICK j \in DOMAIN todo : j # 1 /\ Owns(todo[j], m)
      BY <2>2
    <3>2. m # n
      BY <1>3, <1>4, <1>6, <3>1 DEF DeepSound, Apart
    <3> QED
      BY <3>1, <3>2 DEF PlanOwns
  <2> QED
    BY <1>12, <2>1, <2>2
<1>16. Innermost'.loc = n
  <2>1. Len(scopeStack') = Len(scopeStack) + 1
        /\ scopeStack'[Len(scopeStack) + 1].loc = n
    BY <1>1 DEF IInv, EnterScope
  <2> QED
    BY <2>1 DEF Innermost
<1>17. ~Made(generated', n) /\ ~PlanOwns(todo', n)
  BY <1>2, <1>3, <1>6, <1>15
<1>18. \A m : Made(generated', m) => m \in S /\ ~PlanOwns(todo', m)
  BY <1>2, <1>3, <1>15
<1>19. Numbered'
  BY <1>1, <1>6, <1>13, <1>14, <1>16, <1>17, <1>18 DEF Numbered, S
<1> QED
  BY <1>6, <1>15, <1>17, <1>19 DEF Kept

\* Entering and leaving a scope.
LEMMA ScopesAreNumbered ==
  ASSUME IInv, Numbered, OpenScope \/ CloseScope
  PROVE  Numbered' /\ Kept
<1>1. CASE OpenScope
  BY <1>1, EnteredIsNumbered
<1>2. CASE CloseScope
  <2> DEFINE p == <<>>
             T == {}
             kind == "leave"
  <2>1. /\ Do(kind) /\ Continue(p) /\ phase' = phase /\ nodes' = nodes
        /\ generated' = generated
    BY <1>2 DEF CloseScope, LeaveScope
  <2>2. /\ nodes' \in Nat /\ nodes <= nodes' /\ T \subseteq 1 .. nodes'
        /\ \A m \in T : Owns(Head(todo), m) \/ m \notin 1 .. nodes
    BY <2>1 DEF IInv
  <2>3. FlatSound(p, {}) /\ Silent(p)
    BY ShortSound
  <2>4. kind \notin {"ask", "newlabel"} /\ kind # "function"
        /\ \A m : Made(generated', m) => Made(generated, m)
    BY <2>1
  <2>5. {} \subseteq T
    OBVIOUS
  <2> HIDE DEF p, T, kind
  <2>6. DeepSound(p, T)
    BY <2>3, <2>5, SoundIn
  <2> QED
    BY <2>1, <2>2, <2>3, <2>4, <2>6, PlanNumbered
<1> QED
  BY <1>1, <1>2

\* The continuation of a whole function owns no number and makes up no label.
LEMMA FunctionIsPlain ==
  LET td == <<Function>>
  IN  /\ IsSequence(td) /\ Len(td) = 1 /\ td # <<>>
      /\ Head(td).do = "function" /\ Tail(td) = <<>>
      /\ Silent(td) /\ Leads(td) /\ \A S : DeepSound(td, S)
<1> DEFINE f == Function
           td == <<f>>
<1>1. Plain(f) /\ f.do = "function"
  BY DEF Plain, Proper, Owns, LeafOwns, Function
<1> HIDE DEF f
<1>2. /\ IsSequence(td) /\ Len(td) = 1 /\ td # <<>>
      /\ Head(td) = f /\ Tail(td) = <<>>
  BY Singleton
<1>3. \A S : FlatSound(td, S) /\ Silent(td) /\ Leads(td)
  BY <1>1, ShortSound
<1> HIDE DEF td
<1>4. \A S : DeepSound(td, S)
  BY <1>3, SoundIn
<1> QED
  BY <1>1, <1>2, <1>3, <1>4 DEF f, td

\* From one function to the next: the numbers start afresh, and what was made
\* up is forgotten before the first of them is visited.
LEMMA FunctionsAreNumbered ==
  ASSUME IInv, Numbered,
         \/ StartFunction \/ SkipPrototype \/ MissingReturn
         \/ NextFunction \/ Fail
  PROVE  Numbered'
<1>0. \A n : ~Made({}, n)
  BY DEF Made
<1>1. CASE StartFunction
  <2>1. PICK k \in 1 .. MaxBlock :
           /\ nodes' = 1 + k
           /\ Continue(BlockPlan(2, k, Halt, NoLoop) \o <<Epilogue(1 + k)>>)
    BY <1>1 DEF StartFunction
  <2>2. Do("function") /\ generated' = {} /\ phase' = phase
    BY <1>1 DEF StartFunction, ResetLables
  <2>3. Generating /\ phase = "gen" /\ todo # <<>> /\ Head(todo).do = "function"
    BY <2>2 DEF Do, Generating, h
  <2>4. Leads(todo) /\ IsSequence(todo) /\ Silent(todo) /\ DeepSound(todo, 1 .. nodes)
    BY <2>3, HeadLeads DEF Numbered, DeepSound
  <2> DEFINE block == BlockPlan(2, k, Halt, NoLoop)
             end == <<Epilogue(1 + k)>>
             S == {}
             B == 2 .. 2 + k - 1
             p == block \o end
  <2>5. FlatSound(block, B) /\ Silent(block)
    BY BlockPlanSound
  <2>6. FlatSound(end, {}) /\ Silent(end)
    BY PlainItems, ShortSound
  <2>7. B \subseteq 1 .. nodes' /\ B \intersect {} = {} /\ B \union {} = B
        /\ S \union B = B
    BY <2>1
  <2>8. todo' = p \o Tail(todo)
    BY <2>1 DEF Continue
  <2> HIDE DEF block, end, B, S
  <2>9. FlatSound(p, B)
    <3>1. FlatSound(p, B \union {})
      BY <2>5, <2>6, <2>7, JoinedSound
    <3> HIDE DEF p
    <3> QED
      BY <2>7, <3>1
  <2>10. Silent(p) /\ IsSequence(p)
    BY <2>5, <2>6, JoinedLeads, Concatenation DEF FlatSound
  <2> HIDE DEF p
  <2>11. Len(todo) = 1
    <3>1. 1 \in DOMAIN todo /\ Head(todo) = todo[1]
      BY <2>3, <2>4, HeadAndTail
    <3>2. ~Outer(todo[1])
      BY <2>3, <3>1 DEF Outer, Leafy, ScopeOf
    <3> QED
      BY <2>3, <3>1, <3>2 DEF IInv, Continuation
  <2>12. DeepSound(todo, S)
    <3>1. DOMAIN todo = {1} /\ todo[1].do = "function"
      BY <2>3, <2>4, <2>11, HeadAndTail
    <3>2. \A n : ~Owns(todo[1], n)
      BY <3>1 DEF Owns, LeafOwns
    <3> QED
      BY <2>4, <3>1, <3>2 DEF DeepSound, Apart
  <2>13. DeepSound(todo', S \union B)
    <3>1. DeepSound(p, B)
      BY <2>9, SoundIn
    <3>2. \A m : m \notin S
      BY DEF S
    <3> QED
      BY <2>3, <2>8, <2>12, <3>1, <3>2, PushSound
  <2>14. DeepSound(todo', 1 .. nodes')
    <3> DEFINE N == 1 .. nodes'
    <3>1. B \subseteq N /\ DeepSound(todo', B)
      BY <2>7, <2>13
    <3> HIDE DEF N
    <3>2. DeepSound(todo', N)
      BY <3>1, SoundIn
    <3> QED
      BY <3>2 DEF N
  <2>15. Silent(todo') /\ Leads(todo')
    <3>1. Silent(todo')
      BY <2>3, <2>4, <2>8, <2>10, TailItems
    <3> QED
      BY <3>1 DEF Silent, Leads
  <2> QED
    BY <1>0, <2>2, <2>14, <2>15 DEF Numbered, Silent
<1>2. CASE NextFunction
  <2>1. todo' = <<Function>> /\ nodes' = 0
    BY <1>2 DEF NextFunction
  <2> DEFINE N == 1 .. nodes'
  <2>2. DeepSound(todo', N) /\ Leads(todo') /\ Silent(todo')
        /\ Head(todo').do = "function"
    BY <2>1, FunctionIsPlain
  <2> QED
    BY <2>2 DEF Numbered, Silent
<1>3. CASE SkipPrototype
  <2>1. /\ Do("function") /\ generated' = {}
        /\ UNCHANGED <<phase, todo, nodes>>
    BY <1>3 DEF SkipPrototype, ResetLables, genVars
  <2>2. Generating /\ phase = "gen" /\ todo # <<>> /\ Head(todo).do = "function"
    BY <2>1 DEF Do, Generating, h
  <2>3. Leads(todo) /\ Silent(todo) /\ DeepSound(todo, 1 .. nodes)
    BY <2>2, HeadLeads DEF Numbered
  <2> QED
    BY <2>1, <2>2, <2>3 DEF Numbered, Silent
<1>4. CASE MissingReturn \/ Fail
  BY <1>4 DEF MissingReturn, Fail, Numbered
<1> QED
  BY <1>1, <1>2, <1>3, <1>4

\* Running the code, and standing still.
LEMMA RunIsNumbered ==
  ASSUME Numbered, \/ StartRun \/ RunEval \/ RunAct \/ RunReturn \/ Done
                   \/ UNCHANGED vars
  PROVE  Numbered'
<1> USE DEF lmVars
<1>1. UNCHANGED <<todo, nodes, scopeStack, generated>>
  BY DEF StartRun, RunEval, RunAct, RunReturn, Ran, Done, vars, genVars
<1>2. phase # "failed" \/ UNCHANGED phase
  BY DEF StartRun, RunEval, RunAct, RunReturn, Execute, Done, vars, genVars
<1> QED
  BY <1>1, <1>2 DEF Numbered, Innermost

-----------------------------------------------------------------------------
(* The theorem.                                                            *)

\* Every step keeps the numbers apart.
LEMMA StepNumbered ==
  IInv /\ Numbered /\ [Next]_vars => Numbered'
<1> SUFFICES ASSUME IInv, Numbered, [Next]_vars PROVE Numbered'
  OBVIOUS
<1> QED
  BY VisitsAreNumbered, LinesAreNumbered, LabelsAreNumbered, ScopesAreNumbered,
     FunctionsAreNumbered, RunIsNumbered DEF Next

\* GenerateLabel and GenerateLineLabel never return a label they returned
\* before, nor one that was asked for, as they assert: no two statements of
\* any function make up the same one, and none is kept from an earlier one.
THEOREM LabelsAlwaysFresh == Spec => []FreshLabels
<1>1. Init => Numbered
  <2> SUFFICES ASSUME Init PROVE Numbered
    OBVIOUS
  <2>1. todo = <<Function>> /\ nodes = 0
    BY DEF Init
  <2> DEFINE N == 1 .. nodes
  <2>2. DeepSound(todo, N) /\ Leads(todo) /\ Silent(todo)
        /\ Head(todo).do = "function"
    BY <2>1, FunctionIsPlain
  <2> QED
    BY <2>2 DEF Numbered, Silent
<1>2. IInv /\ Numbered /\ [Next]_vars => Numbered'
  BY StepNumbered
<1>3. IInv /\ Numbered /\ LineLabel(labelCount) \notin generated => FreshLabels
  <2> SUFFICES ASSUME Numbered, Do("newlabel")
               PROVE  LabelOf(Innermost, h.name) \notin generated
    BY DEF FreshLabels
  <2>1. /\ phase = "gen" /\ todo # <<>> /\ h.do = "newlabel"
        /\ DeepSound(todo, 1 .. nodes) /\ IsSequence(todo)
    BY DEF Do, Generating, h, Numbered, DeepSound
  <2>2. h = todo[1] /\ 1 \in DOMAIN todo
    BY <2>1, HeadAndTail DEF h
  <2>3. h.name \in Names /\ ~Made(generated, Innermost.loc)
    BY <2>1, <2>2 DEF DeepSound, Proper, Numbered
  <2> QED
    BY <2>3 DEF Made, LabelOf
<1> QED
  BY <1>1, <1>2, <1>3, Invariance, LineLabelsFresh, PTL DEF Spec
=============================================================================
