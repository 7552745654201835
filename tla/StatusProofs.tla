---------------------------- MODULE StatusProofs ----------------------------
(***************************************************************************)
(* Proofs about Status and StatusOr, for any number of handles, reps,      *)
(* codes, messages and values.  The argument: an operation is a sequence   *)
(* of stores, each of which takes a word out of one handle and puts        *)
(* another in; a store changes the number of holders of a rep by what Ref  *)
(* and Unref change its count.                                             *)
(***************************************************************************)
EXTENDS StatusOr, FiniteSetTheorems, TLAPS

-----------------------------------------------------------------------------
(* Words.                                                                  *)

LEMMA InlinedWords ==
  /\ \A c \in StatusCode : IsInlined(CodeToInlinedRep(c))
  /\ IsInlined(MovedFromRep)
  BY DEF StatusCode, IsInlined, CodeToInlinedRep, MovedFromRep, kInternal

LEMMA PointerWords ==
  ASSUME NEW a \in Reps
  PROVE  ~IsInlined(PointerToRep(a)) /\ RepToPointer(PointerToRep(a)) = a
<1>1. a \in Nat /\ a % 8 = 0
  BY StatusAssumption DEF StatusAssumption, Aligned
<1>2. (a + 1) % 2 = 1
  BY <1>1
<1> QED
  BY <1>1, <1>2 DEF IsInlined, PointerToRep, RepToPointer

\* A word is inlined or refers to a rep, and an OK word is inlined.
LEMMA WordKinds ==
  ASSUME NEW w \in Words(Reps)
  PROVE  \/ IsInlined(w) /\ \A a \in Reps : w # PointerToRep(a)
         \/ \E a \in Reps : w = PointerToRep(a)
  BY InlinedWords, PointerWords DEF Words

LEMMA SomeWords ==
  /\ CodeToInlinedRep(kOk) \in Words(Reps)
  /\ \A c \in StatusCode : CodeToInlinedRep(c) \in Words(Reps)
  /\ MovedFromRep \in Words(Reps)
  /\ \A a \in Reps : PointerToRep(a) \in Words(Reps)
  /\ MovedFromRep # CodeToInlinedRep(kOk)
  /\ \A a \in Reps : PointerToRep(a) # CodeToInlinedRep(kOk)
  /\ CodeToInlinedRep(kUnknown) # CodeToInlinedRep(kOk)
<1>1. kOk \in StatusCode /\ kOk = 0 /\ kUnknown = 2 /\ kInternal = 13
  BY DEF StatusCode, kOk, kUnknown, kInternal
<1>2. \A a \in Reps : PointerToRep(a) # CodeToInlinedRep(kOk)
  BY <1>1, InlinedWords, PointerWords
<1> QED
  BY <1>1, <1>2 DEF Words, CodeToInlinedRep, MovedFromRep

-----------------------------------------------------------------------------
(* Holders of a rep, and how a store changes their number.                 *)

HoldersIn(L, R, a) == {h \in L : R[h] = PointerToRep(a)}
One(w, a) == IF w = PointerToRep(a) THEN 1 ELSE 0

LEMMA HoldersFinite ==
  ASSUME NEW L \in SUBSET Handles, NEW R, NEW a
  PROVE  /\ IsFiniteSet(HoldersIn(L, R, a))
         /\ Cardinality(HoldersIn(L, R, a)) \in Nat
<1>1. IsFiniteSet(Handles)
  BY StatusAssumption DEF StatusAssumption
<1>2. HoldersIn(L, R, a) \subseteq Handles
  BY DEF HoldersIn
<1> QED
  BY <1>1, <1>2, FS_Subset, FS_CardinalityType

\* Q is R after a store into h.
Stored(Q, R, h) == \A x \in Handles \ {h} : Q[x] = R[x]

LEMMA HoldersGained ==
  ASSUME NEW L \in SUBSET Handles, NEW h \in Handles \ L, NEW R, NEW Q, NEW a,
         Stored(Q, R, h)
  PROVE  Cardinality(HoldersIn(L \union {h}, Q, a))
           = Cardinality(HoldersIn(L, R, a)) + One(Q[h], a)
<1> DEFINE S == HoldersIn(L, R, a)
<1>1. HoldersIn(L \union {h}, Q, a) = IF Q[h] = PointerToRep(a) THEN S \union {h} ELSE S
  BY DEF HoldersIn, Stored
<1>2. IsFiniteSet(S) /\ Cardinality(S) \in Nat /\ h \notin S
  BY HoldersFinite DEF HoldersIn
<1>3. Cardinality(S \union {h}) = Cardinality(S) + 1
  BY <1>2, FS_AddElement
<1> QED
  BY <1>1, <1>2, <1>3 DEF One

LEMMA HoldersLost ==
  ASSUME NEW L \in SUBSET Handles, NEW h \in L, NEW R, NEW Q, NEW a,
         Stored(Q, R, h)
  PROVE  Cardinality(HoldersIn(L \ {h}, Q, a))
           = Cardinality(HoldersIn(L, R, a)) - One(R[h], a)
<1> DEFINE S == HoldersIn(L, R, a)
<1>1. HoldersIn(L \ {h}, Q, a) = S \ {h}
  BY DEF HoldersIn, Stored
<1>2. IsFiniteSet(S) /\ Cardinality(S) \in Nat
  BY HoldersFinite
<1>3. Cardinality(S \ {h}) = IF h \in S THEN Cardinality(S) - 1 ELSE Cardinality(S)
  BY <1>2, FS_RemoveElement
<1>4. One(R[h], a) = IF h \in S THEN 1 ELSE 0
  BY DEF HoldersIn, One
<1>5. Cardinality(S \ {h}) = Cardinality(S) - One(R[h], a)
  <2> HIDE DEF S
  <2> QED
    BY <1>2, <1>3, <1>4
<1> QED
  BY <1>1, <1>5

LEMMA HoldersChanged ==
  ASSUME NEW L \in SUBSET Handles, NEW h \in L, NEW R, NEW Q, NEW a,
         Stored(Q, R, h)
  PROVE  Cardinality(HoldersIn(L, Q, a))
           = Cardinality(HoldersIn(L, R, a)) - One(R[h], a) + One(Q[h], a)
<1> DEFINE K == L \ {h}
<1>1. Cardinality(HoldersIn(K, Q, a))
        = Cardinality(HoldersIn(L, R, a)) - One(R[h], a)
  BY HoldersLost
<1>2. K \in SUBSET Handles /\ h \in Handles \ K /\ K \union {h} = L /\ Stored(Q, Q, h)
  BY DEF Stored
<1>3. Cardinality(HoldersIn(K \union {h}, Q, a))
        = Cardinality(HoldersIn(K, Q, a)) + One(Q[h], a)
  <2> HIDE DEF K
  <2> QED
    BY <1>2, HoldersGained
<1> QED
  BY <1>1, <1>2, <1>3

-----------------------------------------------------------------------------
(* Counts.                                                                 *)

Heaps == [Reps -> StatusRep]

Balanced(L, R, hp) == \A a \in Reps : hp[a].ref = Cardinality(HoldersIn(L, R, a))

\* A count changes and what the rep says does not.
SameText(hp, hq) == \A a \in Reps : hp[a].code = hq[a].code /\ hp[a].message = hq[a].message

LEMMA RefCounts ==
  ASSUME NEW hp \in Heaps, NEW w \in Words(Reps)
  PROVE  /\ Ref(hp, w) \in Heaps
         /\ SameText(Ref(hp, w), hp)
         /\ \A a \in Reps : Ref(hp, w)[a].ref = hp[a].ref + One(w, a)
         /\ IsInlined(w) => Ref(hp, w) = hp
<1>1. CASE IsInlined(w)
  <2>1. \A a \in Reps : One(w, a) = 0
    BY <1>1, PointerWords DEF One
  <2> QED
    BY <1>1, <2>1 DEF Ref, Heaps, StatusRep, SameText
<1>2. CASE ~IsInlined(w)
  <2>1. PICK b \in Reps : w = PointerToRep(b)
    BY <1>2, WordKinds
  <2>2. RepToPointer(w) = b /\ \A a \in Reps : One(w, a) = IF a = b THEN 1 ELSE 0
    BY <2>1, PointerWords DEF One
  <2>3. Ref(hp, w) = [hp EXCEPT ![b] = [hp[b] EXCEPT !.ref = hp[b].ref + 1]]
    BY <1>2, <2>2 DEF Ref
  <2> QED
    BY <1>2, <2>2, <2>3 DEF Heaps, StatusRep, SameText
<1> QED
  BY <1>1, <1>2

LEMMA UnrefCounts ==
  ASSUME NEW hp \in Heaps, NEW w \in Words(Reps)
  PROVE  /\ Unref(hp, w) \in Heaps
         /\ SameText(Unref(hp, w), hp)
         /\ \A a \in Reps : Unref(hp, w)[a].ref = hp[a].ref - One(w, a)
         /\ IsInlined(w) => Unref(hp, w) = hp
<1>1. CASE IsInlined(w)
  <2>1. \A a \in Reps : One(w, a) = 0
    BY <1>1, PointerWords DEF One
  <2> QED
    BY <1>1, <2>1 DEF Unref, Heaps, StatusRep, SameText
<1>2. CASE ~IsInlined(w)
  <2>1. PICK b \in Reps : w = PointerToRep(b)
    BY <1>2, WordKinds
  <2>2. RepToPointer(w) = b /\ \A a \in Reps : One(w, a) = IF a = b THEN 1 ELSE 0
    BY <2>1, PointerWords DEF One
  <2>3. Unref(hp, w) = [hp EXCEPT ![b] = [hp[b] EXCEPT !.ref = hp[b].ref - 1]]
    BY <1>2, <2>2 DEF Unref
  <2> QED
    BY <1>2, <2>2, <2>3 DEF Heaps, StatusRep, SameText
<1> QED
  BY <1>1, <1>2

-----------------------------------------------------------------------------
(* Stores keep the balance.                                                *)

LEMMA BalancedGain ==
  ASSUME NEW L \in SUBSET Handles, NEW h \in Handles \ L,
         NEW R \in [Handles -> Words(Reps)], NEW w \in Words(Reps),
         NEW hp \in Heaps, Balanced(L, R, hp)
  PROVE  Balanced(L \union {h}, [R EXCEPT ![h] = w], Ref(hp, w))
<1> DEFINE Q == [R EXCEPT ![h] = w]
<1>1. Stored(Q, R, h) /\ Q[h] = w
  BY DEF Stored
<1>2. SUFFICES ASSUME NEW a \in Reps
               PROVE  Ref(hp, w)[a].ref = Cardinality(HoldersIn(L \union {h}, Q, a))
  BY DEF Balanced
<1> HIDE DEF Q
<1>3. Cardinality(HoldersIn(L \union {h}, Q, a)) = Cardinality(HoldersIn(L, R, a)) + One(w, a)
  BY <1>1, HoldersGained
<1> QED
  BY <1>3, RefCounts DEF Balanced

LEMMA BalancedLoss ==
  ASSUME NEW L \in SUBSET Handles, NEW h \in L,
         NEW R \in [Handles -> Words(Reps)], NEW w \in Words(Reps),
         NEW hp \in Heaps, Balanced(L, R, hp)
  PROVE  Balanced(L \ {h}, [R EXCEPT ![h] = w], Unref(hp, R[h]))
<1> DEFINE Q == [R EXCEPT ![h] = w]
<1>1. Stored(Q, R, h) /\ R[h] \in Words(Reps)
  BY DEF Stored
<1>2. SUFFICES ASSUME NEW a \in Reps
               PROVE  Unref(hp, R[h])[a].ref = Cardinality(HoldersIn(L \ {h}, Q, a))
  BY DEF Balanced
<1> HIDE DEF Q
<1>3. Cardinality(HoldersIn(L \ {h}, Q, a)) = Cardinality(HoldersIn(L, R, a)) - One(R[h], a)
  BY <1>1, HoldersLost
<1>4. Unref(hp, R[h])[a].ref = hp[a].ref - One(R[h], a)
  BY <1>1, UnrefCounts
<1>5. hp[a].ref = Cardinality(HoldersIn(L, R, a))
  BY DEF Balanced
<1> QED
  BY <1>3, <1>4, <1>5

LEMMA BalancedChange ==
  ASSUME NEW L \in SUBSET Handles, NEW h \in L,
         NEW R \in [Handles -> Words(Reps)], NEW w \in Words(Reps),
         NEW hp \in Heaps, Balanced(L, R, hp)
  PROVE  Balanced(L, [R EXCEPT ![h] = w], Unref(Ref(hp, w), R[h]))
<1> DEFINE Q == [R EXCEPT ![h] = w]
           hq == Ref(hp, w)
<1>1. Stored(Q, R, h) /\ Q[h] = w /\ R[h] \in Words(Reps)
  BY DEF Stored
<1>2. SUFFICES ASSUME NEW a \in Reps
               PROVE  Unref(hq, R[h])[a].ref = Cardinality(HoldersIn(L, Q, a))
  BY DEF Balanced
<1>3. hq \in Heaps /\ hq[a].ref = hp[a].ref + One(w, a)
  BY RefCounts
<1> HIDE DEF Q, hq
<1>4. Cardinality(HoldersIn(L, Q, a))
        = Cardinality(HoldersIn(L, R, a)) - One(R[h], a) + One(w, a)
  BY <1>1, HoldersChanged
<1>5. Unref(hq, R[h])[a].ref = hq[a].ref - One(R[h], a)
  BY <1>1, <1>3, UnrefCounts
<1>6. hp[a].ref = Cardinality(HoldersIn(L, R, a)) /\ hp[a].ref \in Int
  BY DEF Balanced, Heaps, StatusRep
<1>7. One(w, a) \in Int /\ One(R[h], a) \in Int
  BY DEF One
<1> QED
  BY <1>3, <1>4, <1>5, <1>6, <1>7

LEMMA NoInlinedHolder == \A w \in Words(Reps), a \in Reps :
  /\ One(w, a) \in {0, 1}
  /\ IsInlined(w) => One(w, a) = 0
  BY PointerWords DEF One

\* A word moves from x into h, where there was nothing.
LEMMA BalancedMove ==
  ASSUME NEW L \in SUBSET Handles, NEW h \in Handles \ L, NEW x \in L,
         NEW R \in [Handles -> Words(Reps)],
         NEW hp \in Heaps, Balanced(L, R, hp)
  PROVE  Balanced(L \union {h}, [R EXCEPT ![h] = R[x], ![x] = MovedFromRep], hp)
<1> DEFINE P == [R EXCEPT ![h] = R[x]]
           Q == [R EXCEPT ![h] = R[x], ![x] = MovedFromRep]
<1>1. /\ Stored(P, R, h) /\ Stored(Q, P, x) /\ R[x] \in Words(Reps)
      /\ P[h] = R[x] /\ P[x] = R[x] /\ Q[x] = MovedFromRep
  BY DEF Stored
<1>2. SUFFICES ASSUME NEW a \in Reps
               PROVE  hp[a].ref = Cardinality(HoldersIn(L \union {h}, Q, a))
  BY DEF Balanced
<1> HIDE DEF P, Q
<1>3. Cardinality(HoldersIn(L \union {h}, P, a))
        = Cardinality(HoldersIn(L, R, a)) + One(R[x], a)
  BY <1>1, HoldersGained
<1>4. Cardinality(HoldersIn(L \union {h}, Q, a))
        = Cardinality(HoldersIn(L \union {h}, P, a)) - One(R[x], a) + One(MovedFromRep, a)
  <2>1. L \union {h} \in SUBSET Handles /\ x \in L \union {h}
    OBVIOUS
  <2> QED
    BY <1>1, <2>1, HoldersChanged
<1>5. One(MovedFromRep, a) = 0 /\ One(R[x], a) \in {0, 1}
  BY <1>1, NoInlinedHolder, InlinedWords, SomeWords
<1>6. hp[a].ref = Cardinality(HoldersIn(L, R, a)) /\ hp[a].ref \in Int
  BY DEF Balanced, Heaps, StatusRep
<1> QED
  BY <1>3, <1>4, <1>5, <1>6

\* A word moves from x into h, whose own is dropped.
LEMMA BalancedMoveOver ==
  ASSUME NEW L \in SUBSET Handles, NEW h \in L, NEW x \in L, h # x,
         NEW R \in [Handles -> Words(Reps)],
         NEW hp \in Heaps, Balanced(L, R, hp)
  PROVE  Balanced(L, [R EXCEPT ![h] = R[x], ![x] = MovedFromRep], Unref(hp, R[h]))
<1> DEFINE P == [R EXCEPT ![h] = R[x]]
           Q == [R EXCEPT ![h] = R[x], ![x] = MovedFromRep]
<1>1. /\ Stored(P, R, h) /\ Stored(Q, P, x) /\ R[x] \in Words(Reps) /\ R[h] \in Words(Reps)
      /\ P[h] = R[x] /\ P[x] = R[x] /\ Q[x] = MovedFromRep
  BY DEF Stored
<1>2. SUFFICES ASSUME NEW a \in Reps
               PROVE  Unref(hp, R[h])[a].ref = Cardinality(HoldersIn(L, Q, a))
  BY DEF Balanced
<1> HIDE DEF P, Q
<1>3. Cardinality(HoldersIn(L, P, a))
        = Cardinality(HoldersIn(L, R, a)) - One(R[h], a) + One(R[x], a)
  BY <1>1, HoldersChanged
<1>4. Cardinality(HoldersIn(L, Q, a))
        = Cardinality(HoldersIn(L, P, a)) - One(R[x], a) + One(MovedFromRep, a)
  BY <1>1, HoldersChanged
<1>5. One(MovedFromRep, a) = 0 /\ One(R[x], a) \in {0, 1} /\ One(R[h], a) \in {0, 1}
  BY <1>1, NoInlinedHolder, InlinedWords, SomeWords
<1>6. hp[a].ref = Cardinality(HoldersIn(L, R, a)) /\ hp[a].ref \in Int
  BY DEF Balanced, Heaps, StatusRep
<1>7. Unref(hp, R[h])[a].ref = hp[a].ref - One(R[h], a)
  BY <1>1, UnrefCounts
<1> QED
  BY <1>3, <1>4, <1>5, <1>6, <1>7

LEMMA BalancedSwap ==
  ASSUME NEW L \in SUBSET Handles, NEW h \in L, NEW x \in L,
         NEW R \in [Handles -> Words(Reps)],
         NEW hp \in Heaps, Balanced(L, R, hp)
  PROVE  Balanced(L, [R EXCEPT ![h] = R[x], ![x] = R[h]], hp)
<1>1. CASE h = x
  <2>1. [R EXCEPT ![h] = R[x], ![x] = R[h]] = R
    BY <1>1
  <2> QED
    BY <2>1
<1>2. CASE h # x
  <2> DEFINE P == [R EXCEPT ![h] = R[x]]
             Q == [R EXCEPT ![h] = R[x], ![x] = R[h]]
  <2>1. /\ Stored(P, R, h) /\ Stored(Q, P, x) /\ R[x] \in Words(Reps) /\ R[h] \in Words(Reps)
        /\ P[h] = R[x] /\ P[x] = R[x] /\ Q[x] = R[h]
    BY <1>2 DEF Stored
  <2>2. SUFFICES ASSUME NEW a \in Reps
                 PROVE  hp[a].ref = Cardinality(HoldersIn(L, Q, a))
    BY DEF Balanced
  <2> HIDE DEF P, Q
  <2>3. Cardinality(HoldersIn(L, P, a))
          = Cardinality(HoldersIn(L, R, a)) - One(R[h], a) + One(R[x], a)
    BY <2>1, HoldersChanged
  <2>4. Cardinality(HoldersIn(L, Q, a))
          = Cardinality(HoldersIn(L, P, a)) - One(R[x], a) + One(R[h], a)
    BY <2>1, HoldersChanged
  <2>5. One(R[x], a) \in {0, 1} /\ One(R[h], a) \in {0, 1}
    BY <2>1, NoInlinedHolder
  <2>6. hp[a].ref = Cardinality(HoldersIn(L, R, a)) /\ hp[a].ref \in Int
    BY DEF Balanced, Heaps, StatusRep
  <2> QED
    BY <2>3, <2>4, <2>5, <2>6
<1> QED
  BY <1>1, <1>2

\* A new rep at an address without holders.
LEMMA BalancedNew ==
  ASSUME NEW L \in SUBSET Handles, NEW h \in Handles \ L,
         NEW R \in [Handles -> Words(Reps)],
         NEW hp \in Heaps, Balanced(L, R, hp),
         NEW b \in Reps, hp[b].ref = 0, NEW code \in StatusCode, NEW message \in Messages
  PROVE  /\ Balanced(L \union {h}, [R EXCEPT ![h] = PointerToRep(b)],
                     [hp EXCEPT ![b] = NewRep(code, message)])
         /\ [hp EXCEPT ![b] = NewRep(code, message)] \in Heaps
<1> DEFINE Q == [R EXCEPT ![h] = PointerToRep(b)]
           hq == [hp EXCEPT ![b] = NewRep(code, message)]
<1>1. Stored(Q, R, h) /\ Q[h] = PointerToRep(b)
  BY DEF Stored
<1>2. hq \in Heaps
  BY DEF Heaps, StatusRep, NewRep
<1>3. ASSUME NEW a \in Reps
      PROVE  hq[a].ref = Cardinality(HoldersIn(L \union {h}, Q, a))
  <2>1. One(PointerToRep(b), a) = IF a = b THEN 1 ELSE 0
    BY PointerWords DEF One
  <2>2. hq[a].ref = IF a = b THEN 1 ELSE hp[a].ref
    BY DEF Heaps, NewRep
  <2>3. hp[a].ref = Cardinality(HoldersIn(L, R, a)) /\ hp[a].ref \in Int
    BY DEF Balanced, Heaps, StatusRep
  <2> HIDE DEF Q, hq
  <2>4. Cardinality(HoldersIn(L \union {h}, Q, a))
          = Cardinality(HoldersIn(L, R, a)) + One(PointerToRep(b), a)
    BY <1>1, HoldersGained
  <2> QED
    BY <2>1, <2>2, <2>3, <2>4
<1> QED
  BY <1>2, <1>3 DEF Balanced

-----------------------------------------------------------------------------
(* The operations on a status.                                             *)

\* Every part of the counted representation is in order.
Counted == /\ live \in SUBSET Handles
           /\ rep \in [Handles -> Words(Reps)]
           /\ heap \in Heaps
           /\ Balanced(live, rep, heap)

\* A store of a new word where there was nothing.
LEMMA GainCounts ==
  ASSUME Counted, NEW h \in Handles \ live, NEW w \in Words(Reps),
         live' = live \union {h}, SetWord(h, w), heap' = Ref(heap, w)
  PROVE  Counted'
  BY BalancedGain, RefCounts DEF Counted, SetWord

LEMMA ConstructCounts ==
  ASSUME Counted, NEW h \in Handles, NEW code \in StatusCode, NEW message \in Messages,
         Construct(h, code, message)
  PROVE  Counted'
<1>1. CASE code = kOk \/ message = ""
  <2>1. /\ CodeToInlinedRep(code) \in Words(Reps)
        /\ Ref(heap, CodeToInlinedRep(code)) = heap
    BY SomeWords, InlinedWords, RefCounts DEF Counted
  <2> QED
    BY <1>1, <2>1, GainCounts DEF Construct
<1>2. CASE ~(code = kOk \/ message = "")
  <2>1. PICK a \in Reps : /\ heap[a].ref = 0
                          /\ SetWord(h, PointerToRep(a))
                          /\ heap' = [heap EXCEPT ![a] = NewRep(code, message)]
    BY <1>2 DEF Construct, Unused
  <2> QED
    BY <2>1, BalancedNew, SomeWords DEF Counted, Construct, SetWord
<1> QED
  BY <1>1, <1>2

LEMMA InlinedGainCounts ==
  ASSUME Counted, NEW h \in Handles \ live,
         live' = live \union {h}, SetWord(h, CodeToInlinedRep(kOk)), UNCHANGED heap
  PROVE  Counted'
<1>1. /\ CodeToInlinedRep(kOk) \in Words(Reps)
      /\ Ref(heap, CodeToInlinedRep(kOk)) = heap
  BY SomeWords, InlinedWords, RefCounts DEF Counted, StatusCode, kOk
<1> QED
  BY <1>1, GainCounts

LEMMA MoveIntoCounts ==
  ASSUME Counted, NEW h \in Handles \ live, NEW x \in live,
         live' = live \union {h}, MoveInto(h, x)
  PROVE  Counted'
  BY BalancedMove, SomeWords DEF Counted, MoveInto

LEMMA AssignCopyCounts ==
  ASSUME Counted, NEW h \in live, NEW x \in live, UNCHANGED live, AssignCopy(h, x)
  PROVE  Counted'
<1>1. CASE rep[x] = rep[h]
  BY <1>1 DEF Counted, AssignCopy, Balanced, HoldersIn
<1>2. CASE rep[x] # rep[h]
  <2>1. rep[x] \in Words(Reps) /\ rep[h] \in Words(Reps)
    BY DEF Counted
  <2>2. Unref(Ref(heap, rep[x]), rep[h]) \in Heaps
    BY <2>1, RefCounts, UnrefCounts DEF Counted
  <2> QED
    BY <1>2, <2>1, <2>2, BalancedChange DEF Counted, AssignCopy, SetWord
<1> QED
  BY <1>1, <1>2

LEMMA AssignMoveCounts ==
  ASSUME Counted, NEW h \in live, NEW x \in live, UNCHANGED live, AssignMove(h, x)
  PROVE  Counted'
<1>1. CASE rep[x] = rep[h]
  BY <1>1 DEF Counted, AssignMove, Balanced, HoldersIn
<1>2. CASE rep[x] # rep[h]
  <2>1. rep[x] \in Words(Reps) /\ rep[h] \in Words(Reps) /\ h # x
    BY <1>2 DEF Counted
  <2>2. Unref(heap, rep[h]) \in Heaps
    BY <2>1, UnrefCounts DEF Counted
  <2> QED
    BY <1>2, <2>1, <2>2, BalancedMoveOver, SomeWords DEF Counted, AssignMove
<1> QED
  BY <1>1, <1>2

LEMMA MoveThroughCounts ==
  ASSUME Counted, NEW h \in live, NEW x \in live, h # x, UNCHANGED live,
         MoveThroughTemporary(h, x)
  PROVE  Counted'
<1>1. rep[x] \in Words(Reps) /\ rep[h] \in Words(Reps)
  BY DEF Counted
<1>2. Unref(heap, rep[h]) \in Heaps
  BY <1>1, UnrefCounts DEF Counted
<1> QED
  BY <1>1, <1>2, BalancedMoveOver, SomeWords DEF Counted, MoveThroughTemporary

LEMMA SwapCounts ==
  ASSUME Counted, NEW h \in Handles, NEW x \in live, Swap(h, x)
  PROVE  Counted'
  BY BalancedSwap DEF Counted, Swap

LEMMA DestroyCounts ==
  ASSUME Counted, NEW h \in Handles, Destroy(h)
  PROVE  Counted'
<1>1. CodeToInlinedRep(kOk) \in Words(Reps) /\ rep[h] \in Words(Reps)
  BY SomeWords DEF Counted
<1> QED
  BY <1>1, BalancedLoss, UnrefCounts DEF Counted, Destroy, SetWord

LEMMA ForgetErrorCounts ==
  ASSUME Counted, NEW o \in live, UNCHANGED live, ForgetError(o)
  PROVE  Counted'
<1> DEFINE w == CodeToInlinedRep(kOk)
<1>1. w \in Words(Reps) /\ rep[o] \in Words(Reps) /\ Ref(heap, w) = heap
  BY SomeWords, InlinedWords, RefCounts DEF Counted, StatusCode, kOk
<1>2. Unref(Ref(heap, w), rep[o]) \in Heaps
  BY <1>1, UnrefCounts DEF Counted
<1> HIDE DEF w
<1>3. Balanced(live, [rep EXCEPT ![o] = w], Unref(Ref(heap, w), rep[o]))
  BY <1>1, BalancedChange DEF Counted
<1> QED
  BY <1>1, <1>2, <1>3 DEF Counted, ForgetError, SetWord, w

LEMMA SameCounts ==
  ASSUME Counted, UNCHANGED <<live, rep, heap>>
  PROVE  Counted'
  BY DEF Counted, Balanced, HoldersIn

LEMMA NamedConstants ==
  /\ "" \in Messages
  /\ kUnknown \in StatusCode /\ kOk \in StatusCode
<1>1. "" \in Messages
  BY StatusAssumption DEF StatusAssumption
<1>2. kUnknown \in StatusCode /\ kOk \in StatusCode
  BY DEF StatusCode, kUnknown, kOk
<1> QED
  BY <1>1, <1>2

-----------------------------------------------------------------------------
(* The operations on a StatusOr.                                           *)

LEMMA AbortCounts ==
  ASSUME Counted, NEW operation, Abort(operation)
  PROVE  Counted'
  BY SameCounts DEF Abort

LEMMA AssignCounts ==
  ASSUME Counted, NEW o \in live, NEW d, UNCHANGED live, Assign(o, d)
  PROVE  Counted'
  BY SameCounts, ForgetErrorCounts DEF Assign

LEMMA CopyConstructCounts ==
  ASSUME Counted, NEW h \in Handles, NEW x \in live, CopyConstruct(h, x)
  PROVE  Counted'
  BY GainCounts DEF CopyConstruct, CopyInto, Counted

LEMMA MoveConstructCounts ==
  ASSUME Counted, NEW h \in Handles, NEW x \in live, MoveConstruct(h, x)
  PROVE  Counted'
  BY MoveIntoCounts DEF MoveConstruct

LEMMA OnStatusCounts ==
  ASSUME Counted, OnStatus
  PROVE  Counted'
<1>1. Plain \subseteq Handles /\ Codes \subseteq StatusCode
  BY StatusAssumption DEF Plain, StatusAssumption
<1>2. ASSUME NEW h \in Plain, NEW c \in Codes, NEW m \in Messages, Construct(h, c, m)
      PROVE  Counted'
  BY <1>1, <1>2, ConstructCounts
<1>3. ASSUME NEW h \in Plain, NEW x \in live, CopyConstruct(h, x)
      PROVE  Counted'
  BY <1>1, <1>3, CopyConstructCounts
<1>4. ASSUME NEW h \in Plain, NEW x \in live, MoveConstruct(h, x)
      PROVE  Counted'
  BY <1>1, <1>4, MoveConstructCounts
<1>5. ASSUME NEW h \in Plain, NEW x \in live, CopyAssign(h, x)
      PROVE  Counted'
  BY <1>5, AssignCopyCounts DEF CopyAssign
<1>6. ASSUME NEW h \in Plain, NEW x \in live, MoveAssign(h, x)
      PROVE  Counted'
  BY <1>6, AssignMoveCounts DEF MoveAssign
<1>7. ASSUME NEW h \in Plain, NEW x \in live, Update(h, x)
      PROVE  Counted'
  BY <1>5, <1>6, <1>7 DEF Update
<1>8. ASSUME NEW h \in Plain, NEW x \in live, Swap(h, x)
      PROVE  Counted'
  BY <1>1, <1>8, SwapCounts
<1>9. ASSUME NEW h \in Plain, Destroy(h)
      PROVE  Counted'
  BY <1>1, <1>9, DestroyCounts
<1> QED
  BY <1>2, <1>3, <1>4, <1>5, <1>6, <1>7, <1>8, <1>9 DEF OnStatus

LEMMA OnStatusOrCounts ==
  ASSUME Counted, NEW o \in Ors, OnStatusOr(o)
  PROVE  Counted'
<1>1. Ors \subseteq Handles /\ Plain \subseteq Handles /\ kUnknown \in StatusCode /\ "" \in Messages
  BY NamedConstants, StatusOrAssumption DEF Plain, StatusOrAssumption
<1>2. ASSUME NEW v \in Values, OrFromValue(o, v)
      PROVE  Counted'
  BY <1>1, <1>2, InlinedGainCounts DEF OrFromValue
<1>3. CASE OrDefault(o)
  BY <1>1, <1>3, ConstructCounts DEF OrDefault
<1>4. ASSUME NEW x \in live, OrFromStatus(o, x)
      PROVE  Counted'
  BY <1>1, <1>4, AbortCounts, CopyConstructCounts, MoveConstructCounts DEF OrFromStatus
<1>5. ASSUME NEW p \in live, OrCopyConstruct(o, p)
      PROVE  Counted'
  <2>1. CASE ok(p)
    BY <1>1, <1>5, <2>1, InlinedGainCounts DEF OrCopyConstruct
  <2>2. CASE ~ok(p)
    BY <1>1, <1>5, <2>2, CopyConstructCounts DEF OrCopyConstruct, CopyConstruct
  <2> QED
    BY <2>1, <2>2
<1>6. ASSUME NEW p \in live, OrMoveConstruct(o, p)
      PROVE  Counted'
  <2>1. CASE ok(p)
    BY <1>1, <1>6, <2>1, InlinedGainCounts DEF OrMoveConstruct
  <2>2. CASE ~ok(p)
    BY <1>1, <1>6, <2>2, MoveIntoCounts DEF OrMoveConstruct
  <2> QED
    BY <2>1, <2>2
<1>7. ASSUME NEW p \in live, OrCopyAssign(o, p)
      PROVE  Counted'
  BY <1>7, AssignCounts, AssignCopyCounts DEF OrCopyAssign
<1>8. ASSUME NEW p \in live, OrMoveAssign(o, p)
      PROVE  Counted'
  BY <1>8, SameCounts, ForgetErrorCounts, MoveThroughCounts DEF OrMoveAssign
<1>9. ASSUME NEW v \in Values, OrAssignValue(o, v)
      PROVE  Counted'
  BY <1>9, AssignCounts DEF OrAssignValue
<1>10. ASSUME NEW x \in live \ Ors, OrAssignStatus(o, x)
       PROVE  Counted'
  BY <1>10, AbortCounts, AssignCopyCounts, MoveThroughCounts DEF OrAssignStatus
<1>11. CASE OrAccess(o) \/ OrValueOr(o) \/ CheckOrAssign(o)
  BY <1>11, SameCounts, AbortCounts DEF OrAccess, OrValueOr, CheckOrAssign
<1>12. ASSUME NEW h \in Plain, o \in live, OrTakeStatus(h, o)
       PROVE  Counted'
  BY <1>1, <1>12, InlinedGainCounts, MoveIntoCounts DEF OrTakeStatus
<1>13. CASE OrDestroy(o)
  BY <1>1, <1>13, DestroyCounts DEF OrDestroy
<1> QED
  BY <1>2, <1>3, <1>4, <1>5, <1>6, <1>7, <1>8, <1>9, <1>10, <1>11, <1>12, <1>13
     DEF OnStatusOr

LEMMA InitCounts ==
  ASSUME Init
  PROVE  Counted
<1>1. rep \in [Handles -> Words(Reps)] /\ live \in SUBSET Handles
  BY SomeWords DEF Init
<1>3. heap \in Heaps
  <2>1. ASSUME NEW m \in Messages
        PROVE  [ref |-> 0, code |-> kOk, message |-> m] \in StatusRep
    BY DEF StatusRep, StatusCode, kOk
  <2>2. [ref |-> 0, code |-> kOk, message |-> ""] \in StatusRep
    BY <2>1, NamedConstants
  <2> QED
    BY <2>2 DEF Init, Heaps
<1>2. \A a \in Reps : HoldersIn(live, rep, a) = {} /\ heap[a].ref = 0
  BY DEF Init, HoldersIn
<1> QED
  BY <1>1, <1>2, <1>3, FS_EmptySet DEF Counted, Balanced

-----------------------------------------------------------------------------
(* The T of a StatusOr.                                                    *)

\* A T is alive exactly while its StatusOr is there and OK: stronger than
\* DataActive, for the storage a constructor finds has no T in it either.
DataInv ==
  /\ data \in [Ors -> {Dead, Taken} \union {Alive(v) : v \in Values}]
  /\ \A o \in Ors : data[o].alive <=> o \in live /\ ok(o)

LEMMA Storage ==
  /\ ~Dead.alive /\ Taken.alive /\ \A v : Alive(v).alive
  BY DEF Dead, Taken, Alive

LEMMA OnStatusData ==
  ASSUME Counted, DataInv, OnStatus
  PROVE  DataInv'
<1>1. UNCHANGED data
  BY DEF OnStatus
<1>2. \A o \in Ors : rep'[o] = rep[o] /\ (o \in live' <=> o \in live)
  <2>1. rep \in [Handles -> Words(Reps)] /\ Ors \subseteq Handles
    BY StatusOrAssumption DEF Counted, StatusOrAssumption
  <2>2. ASSUME NEW h \in Plain, NEW x \in live, NEW o \in Ors,
               CopyConstruct(h, x) \/ CopyAssign(h, x)
        PROVE  rep'[o] = rep[o] /\ (o \in live' <=> o \in live)
    BY <2>1, <2>2 DEF Plain, CopyConstruct, CopyInto, CopyAssign, AssignCopy, SetWord
  <2>3. ASSUME NEW h \in Plain, NEW x \in live \ Ors, NEW o \in Ors,
               MoveConstruct(h, x) \/ MoveAssign(h, x) \/ CopyAssign(h, x) \/ Swap(h, x)
        PROVE  rep'[o] = rep[o] /\ (o \in live' <=> o \in live)
    BY <2>1, <2>2, <2>3
       DEF Plain, MoveConstruct, MoveInto, MoveAssign, AssignMove, Swap, SetWord
  <2>4. ASSUME NEW h \in Plain, NEW x \in live \ Ors, NEW o \in Ors, Update(h, x)
        PROVE  rep'[o] = rep[o] /\ (o \in live' <=> o \in live)
    BY <2>3, <2>4 DEF Update
  <2>5. ASSUME NEW h \in Plain, NEW c \in Codes, NEW m \in Messages, NEW o \in Ors,
               Construct(h, c, m)
        PROVE  rep'[o] = rep[o] /\ (o \in live' <=> o \in live)
    BY <2>1, <2>5 DEF Plain, Construct, SetWord
  <2>6. ASSUME NEW h \in Plain, NEW o \in Ors, Destroy(h)
        PROVE  rep'[o] = rep[o] /\ (o \in live' <=> o \in live)
    BY <2>1, <2>6 DEF Plain, Destroy, SetWord
  <2> QED
    BY <2>2, <2>3, <2>4, <2>5, <2>6 DEF OnStatus
<1> QED
  BY <1>1, <1>2 DEF DataInv, ok

LEMMA OnStatusOrData ==
  ASSUME Counted, DataInv, NEW o \in Ors, OnStatusOr(o)
  PROVE  DataInv'
<1> DEFINE D == {Dead, Taken} \union {Alive(v) : v \in Values}
<1>1. rep \in [Handles -> Words(Reps)] /\ Ors \subseteq Handles /\ o \in Handles
  BY StatusOrAssumption DEF Counted, StatusOrAssumption
<1>2. /\ data \in [Ors -> D] /\ Dead \in D /\ Taken \in D /\ \A v \in Values : Alive(v) \in D
      /\ \A q \in Ors : data[q].alive <=> q \in live /\ ok(q)
  BY DEF DataInv
<1> DEFINE Kept == /\ data' \in [Ors -> D]
                   /\ \A q \in Ors : data'[q].alive <=> q \in live' /\ ok(q)'
<1>3. SUFFICES Kept
  BY DEF DataInv
<1> HIDE DEF D
<1> USE SomeWords, Storage, <1>1, <1>2 DEF ok, SetWord, MakeValue, Alone
<1>4. ASSUME NEW v \in Values, OrFromValue(o, v)
      PROVE  Kept
  BY <1>4 DEF OrFromValue
<1>5. CASE OrDefault(o)
  BY <1>5 DEF OrDefault, Construct
<1>6. ASSUME NEW x \in live \ Ors, OrFromStatus(o, x)
      PROVE  Kept
  BY <1>6 DEF OrFromStatus, EnsureNotOk, CopyConstruct, CopyInto, MoveConstruct, MoveInto, Abort
<1>7. ASSUME NEW p \in live \intersect Ors, OrCopyConstruct(o, p)
      PROVE  Kept
  BY <1>7 DEF OrCopyConstruct, CopyInto
<1>8. ASSUME NEW p \in live \intersect Ors, OrMoveConstruct(o, p)
      PROVE  Kept
  BY <1>8 DEF OrMoveConstruct, MoveInto
<1>9. ASSUME NEW p \in live \intersect Ors, OrCopyAssign(o, p)
      PROVE  Kept
  BY <1>9 DEF OrCopyAssign, Assign, ForgetError, Clear, AssignCopy
<1>10. ASSUME NEW p \in live \intersect Ors, OrMoveAssign(o, p)
       PROVE  Kept
  BY <1>10 DEF OrMoveAssign, ForgetError, Clear, MoveThroughTemporary
<1>11. ASSUME NEW v \in Values, OrAssignValue(o, v)
       PROVE  Kept
  BY <1>11 DEF OrAssignValue, Assign, ForgetError
<1>12. ASSUME NEW x \in live \ Ors, OrAssignStatus(o, x)
       PROVE  Kept
  BY <1>12 DEF OrAssignStatus, EnsureNotOk, Clear, AssignCopy, MoveThroughTemporary,
                Abort
<1>13. CASE OrAccess(o) \/ OrValueOr(o) \/ CheckOrAssign(o)
  BY <1>13 DEF OrAccess, OrValueOr, CheckOrAssign, EnsureOk, Abort
<1>14. ASSUME NEW h \in Plain, o \in live, OrTakeStatus(h, o)
       PROVE  Kept
  BY <1>14 DEF OrTakeStatus, MoveInto, Plain
<1>15. CASE OrDestroy(o)
  BY <1>15 DEF OrDestroy, Destroy, Clear
<1> QED
  BY <1>4, <1>5, <1>6, <1>7, <1>8, <1>9, <1>10, <1>11, <1>12, <1>13, <1>14, <1>15
     DEF OnStatusOr

-----------------------------------------------------------------------------
(* The inductive invariant, and the safety properties.                     *)

Outcomes == {"no", "an OK status for a StatusOr",
             "access to the value of an error", "passing an error on"}

IndInv == Counted /\ DataInv /\ aborted \in Outcomes

LEMMA NextOutcome ==
  ASSUME aborted \in Outcomes, Next
  PROVE  aborted' \in Outcomes
<1>1. CASE OnStatus
  BY <1>1 DEF OnStatus, Alone
<1>2. ASSUME NEW o \in Ors, OnStatusOr(o)
      PROVE  aborted' \in Outcomes
  BY <1>2 DEF OnStatusOr, OrFromValue, OrDefault, OrFromStatus, OrCopyConstruct,
     OrMoveConstruct, OrCopyAssign, OrMoveAssign, OrAssignValue, OrAssignStatus, OrAccess,
     OrValueOr, OrTakeStatus, CheckOrAssign, OrDestroy, Abort, Alone, Outcomes
<1> QED
  BY <1>1, <1>2 DEF Next

LEMMA InitInv == Init => IndInv
<1> SUFFICES ASSUME Init PROVE IndInv
  OBVIOUS
<1>1. DataInv
  BY Storage DEF Init, DataInv
<1> QED
  BY <1>1, InitCounts DEF IndInv, Init, Outcomes

LEMMA NextInv == IndInv /\ [Next]_vars => IndInv'
<1> SUFFICES ASSUME IndInv, [Next]_vars PROVE IndInv'
  OBVIOUS
<1>1. CASE Next
  BY <1>1, OnStatusCounts, OnStatusOrCounts, OnStatusData, OnStatusOrData, NextOutcome
     DEF Next, IndInv
<1>2. CASE UNCHANGED vars
  BY <1>2, SameCounts DEF vars, IndInv, DataInv, ok
<1> QED
  BY <1>1, <1>2

THEOREM Invariance == Spec => []IndInv
  BY InitInv, NextInv, PTL DEF Spec

\* Every status holds a word that is a code, the mark of a move or the address
\* of a rep, and no count ever goes below zero.
THEOREM TypeCorrect == Spec => []TypeOK
<1>1. IndInv => TypeOK
  <2> SUFFICES ASSUME IndInv PROVE TypeOK
    OBVIOUS
  <2>1. ASSUME NEW a \in Reps PROVE heap[a].ref >= 0
    <3>1. heap[a].ref \in Nat
      BY HoldersFinite DEF IndInv, Counted, Balanced
    <3> QED
      BY <3>1
  <2> QED
    BY <2>1 DEF TypeOK, IndInv, Counted, DataInv, Heaps, Outcomes
<1> QED
  BY <1>1, Invariance, PTL

\* The count of a rep is the number of statuses that refer to it, whatever the
\* sequence of copies, moves, swaps and destructions.
THEOREM ReferencesCounted == Spec => []RefCounted
<1>1. IndInv => RefCounted
  BY DEF IndInv, Counted, Balanced, HoldersIn, RefCounted, Holders
<1> QED
  BY <1>1, Invariance, PTL

\* The T of a StatusOr is alive exactly while the StatusOr is OK.
THEOREM ValueAliveIffOk == Spec => []DataActive
<1>1. IndInv => DataActive
  BY DEF IndInv, DataInv, DataActive
<1> QED
  BY <1>1, Invariance, PTL

-----------------------------------------------------------------------------
(* What a status says changes only with its own word, because a rep is     *)
(* written only while nothing refers to it.                                *)

\* A rep in use keeps its code and its message.
TextKept == \A a \in Reps : heap[a].ref # 0 =>
              heap'[a].code = heap[a].code /\ heap'[a].message = heap[a].message

LEMMA ReleaseKeepsText ==
  ASSUME Counted, NEW v \in Words(Reps), NEW w \in Words(Reps),
         \/ heap' = heap
         \/ heap' = Ref(heap, v)
         \/ heap' = Unref(heap, w)
         \/ heap' = Unref(Ref(heap, v), w)
  PROVE  TextKept
<1>1. Ref(heap, v) \in Heaps /\ SameText(Ref(heap, v), heap)
  BY RefCounts DEF Counted
<1>2. /\ SameText(Unref(heap, w), heap)
      /\ SameText(Unref(Ref(heap, v), w), Ref(heap, v))
  BY <1>1, UnrefCounts DEF Counted
<1> QED
  BY <1>1, <1>2 DEF SameText, TextKept

LEMMA OnStatusText ==
  ASSUME Counted, OnStatus
  PROVE  TextKept
<1>1. /\ \A h \in Handles : rep[h] \in Words(Reps)
      /\ live \subseteq Handles /\ Plain \subseteq Handles
  BY DEF Counted, Plain
<1>2. ASSUME NEW h \in Plain, NEW c \in Codes, NEW m \in Messages, Construct(h, c, m)
      PROVE  TextKept
  BY <1>2 DEF Construct, TextKept, Unused, Counted, Heaps
<1>3. ASSUME NEW h \in Plain, NEW x \in live,
             CopyConstruct(h, x) \/ MoveConstruct(h, x) \/ CopyAssign(h, x)
               \/ MoveAssign(h, x) \/ Update(h, x) \/ Swap(h, x)
      PROVE  TextKept
  <2>1. rep[h] \in Words(Reps) /\ rep[x] \in Words(Reps)
    BY <1>1
  <2> QED
    BY <1>3, <2>1, ReleaseKeepsText
       DEF CopyConstruct, CopyInto, MoveConstruct, MoveInto, CopyAssign, AssignCopy,
           MoveAssign, AssignMove, Update, Swap
<1>4. ASSUME NEW h \in Plain, Destroy(h)
      PROVE  TextKept
  BY <1>1, <1>4, ReleaseKeepsText DEF Destroy
<1> QED
  BY <1>2, <1>3, <1>4 DEF OnStatus

LEMMA OnStatusOrText ==
  ASSUME Counted, NEW o \in Ors, OnStatusOr(o)
  PROVE  TextKept
<1>1. /\ \A h \in Handles : rep[h] \in Words(Reps)
      /\ live \subseteq Handles /\ o \in Handles /\ kUnknown \in StatusCode
  BY StatusOrAssumption, NamedConstants DEF Counted, StatusOrAssumption
<1>2. CASE OrDefault(o)
  BY <1>2 DEF OrDefault, Construct, TextKept, Unused, Counted, Heaps
<1>3. ASSUME NEW x \in live,
             \/ OrFromStatus(o, x) \/ OrAssignStatus(o, x)
             \/ OrCopyConstruct(o, x) \/ OrMoveConstruct(o, x)
             \/ OrCopyAssign(o, x) \/ OrMoveAssign(o, x)
      PROVE  TextKept
  <2>1. rep[o] \in Words(Reps) /\ rep[x] \in Words(Reps)
    BY <1>1
  <2> QED
    BY <1>3, <2>1, ReleaseKeepsText
       DEF OrFromStatus, OrAssignStatus, OrCopyConstruct, OrMoveConstruct, OrCopyAssign,
           OrMoveAssign, CopyConstruct, CopyInto, MoveConstruct, MoveInto, AssignCopy,
           MoveThroughTemporary, Assign, ForgetError, Abort
<1>4. ASSUME NEW v \in Values, OrFromValue(o, v) \/ OrAssignValue(o, v)
      PROVE  TextKept
  BY <1>1, <1>4, ReleaseKeepsText DEF OrFromValue, OrAssignValue, Assign, ForgetError
<1>5. CASE OrAccess(o) \/ OrValueOr(o) \/ CheckOrAssign(o) \/ OrDestroy(o)
  BY <1>1, <1>5, ReleaseKeepsText
     DEF OrAccess, OrValueOr, CheckOrAssign, OrDestroy, Destroy, Abort
<1>6. ASSUME NEW h \in Plain, OrTakeStatus(h, o)
      PROVE  TextKept
  BY <1>1, <1>6, ReleaseKeepsText DEF OrTakeStatus, MoveInto
<1> QED
  BY <1>2, <1>3, <1>4, <1>5, <1>6 DEF OnStatusOr

\* A status that holds, after a step, the word another held before it says
\* what that one said.
LEMMA SameWord ==
  ASSUME Counted, TextKept, NEW g \in Handles, NEW x \in live, rep'[g] = rep[x]
  PROVE  raw_code(g)' = raw_code(x) /\ Message(g)' = Message(x)
<1>1. rep[x] \in Words(Reps)
  BY DEF Counted
<1>2. CASE IsInlined(rep[x])
  BY <1>2 DEF raw_code, Message
<1>3. CASE ~IsInlined(rep[x])
  <2>1. PICK a \in Reps : rep[x] = PointerToRep(a)
    BY <1>1, <1>3, WordKinds
  <2>2. RepToPointer(rep[x]) = a
    BY <2>1, PointerWords
  <2>3. heap[a].ref # 0
    <3>1. x \in HoldersIn(live, rep, a)
      BY <2>1 DEF HoldersIn
    <3>2. IsFiniteSet(HoldersIn(live, rep, a))
      BY HoldersFinite DEF Counted
    <3>3. Cardinality(HoldersIn(live, rep, a)) # 0
      BY <3>1, <3>2, FS_EmptySet
    <3> QED
      BY <3>3 DEF Counted, Balanced
  <2> QED
    BY <1>3, <2>2, <2>3 DEF raw_code, Message, TextKept
<1> QED
  BY <1>2, <1>3

-----------------------------------------------------------------------------
(* What reps are made for: errors that have a message.                     *)

Worded == \A a \in Reps : heap[a].ref # 0 => heap[a].message # "" /\ heap[a].code # kOk

\* Where the word of each handle comes from in a step: from a handle that was
\* alive, from none, or from the constructor that wrote a message.
WordsPassed ==
  \A h \in live' : \/ \E x \in live : rep'[h] = rep[x]
                   \/ IsInlined(rep'[h])
                   \/ \E a \in Reps : /\ rep'[h] = PointerToRep(a)
                                      /\ heap'[a].message # "" /\ heap'[a].code # kOk

LEMMA ConstructPasses ==
  ASSUME Counted, NEW h \in Handles, NEW code \in StatusCode, NEW message,
         Construct(h, code, message)
  PROVE  WordsPassed
<1>1. ASSUME NEW g \in live', g # h
      PROVE  g \in live /\ rep'[g] = rep[g]
  BY <1>1 DEF Construct, SetWord, Counted
<1>2. CASE code = kOk \/ message = ""
  <2>1. IsInlined(rep'[h])
    BY <1>2, InlinedWords DEF Construct, SetWord, Counted
  <2> QED
    BY <1>1, <2>1 DEF WordsPassed
<1>3. CASE ~(code = kOk \/ message = "")
  <2>1. PICK a \in Reps : /\ rep' = [rep EXCEPT ![h] = PointerToRep(a)]
                          /\ heap' = [heap EXCEPT ![a] = NewRep(code, message)]
    BY <1>3 DEF Construct, Unused, SetWord
  <2>2. rep'[h] = PointerToRep(a) /\ heap'[a].message # "" /\ heap'[a].code # kOk
    BY <1>3, <2>1 DEF Counted, Heaps, NewRep
  <2> QED
    BY <1>1, <2>2 DEF WordsPassed
<1> QED
  BY <1>2, <1>3

LEMMA OnStatusPasses ==
  ASSUME Counted, OnStatus
  PROVE  WordsPassed
<1>1. /\ Plain \subseteq Handles /\ Codes \subseteq StatusCode
      /\ kOk \in StatusCode /\ live \subseteq Handles
  BY StatusAssumption, NamedConstants DEF Plain, StatusAssumption, Counted
<1>2. IsInlined(CodeToInlinedRep(kOk)) /\ IsInlined(MovedFromRep)
  BY <1>1, InlinedWords
<1>3. ASSUME NEW h \in Plain, NEW c \in Codes, NEW m \in Messages, Construct(h, c, m)
      PROVE  WordsPassed
  BY <1>1, <1>3, ConstructPasses
<1>4. ASSUME NEW h \in Plain, NEW x \in live, CopyConstruct(h, x) \/ MoveConstruct(h, x)
      PROVE  WordsPassed
  BY <1>1, <1>2, <1>4
     DEF CopyConstruct, CopyInto, MoveConstruct, MoveInto, SetWord, Counted, WordsPassed
<1>5. ASSUME NEW h \in Plain, NEW x \in live, CopyAssign(h, x) \/ MoveAssign(h, x)
      PROVE  WordsPassed
  BY <1>1, <1>2, <1>5
     DEF CopyAssign, AssignCopy, MoveAssign, AssignMove, SetWord, Counted, WordsPassed
<1>6. ASSUME NEW h \in Plain, NEW x \in live, Swap(h, x)
      PROVE  WordsPassed
  BY <1>1, <1>6 DEF Swap, Counted, WordsPassed
<1>7. ASSUME NEW h \in Plain, Destroy(h)
      PROVE  WordsPassed
  BY <1>1, <1>2, <1>7 DEF Destroy, SetWord, Counted, WordsPassed
<1> QED
  BY <1>3, <1>4, <1>5, <1>6, <1>7 DEF OnStatus, Update

LEMMA OnStatusOrPasses ==
  ASSUME Counted, NEW o \in Ors, OnStatusOr(o)
  PROVE  WordsPassed
<1>1. /\ o \in Handles /\ Plain \subseteq Handles /\ live \subseteq Handles
      /\ kUnknown \in StatusCode /\ kOk \in StatusCode
  BY StatusOrAssumption, NamedConstants DEF Plain, StatusOrAssumption, Counted
<1>2. IsInlined(CodeToInlinedRep(kOk)) /\ IsInlined(MovedFromRep)
  BY <1>1, InlinedWords
<1>3. ASSUME NEW v \in Values, OrFromValue(o, v) \/ OrAssignValue(o, v)
      PROVE  WordsPassed
  <2>1. live' \subseteq live \union {o} /\ rep \in [Handles -> Words(Reps)]
    BY <1>3 DEF OrFromValue, OrAssignValue, Counted
  <2>2. \/ live' = live /\ rep' = rep
        \/ rep' = [rep EXCEPT ![o] = CodeToInlinedRep(kOk)]
    BY <1>3 DEF OrFromValue, OrAssignValue, Assign, ForgetError, SetWord
  <2> QED
    BY <1>1, <1>2, <2>1, <2>2 DEF WordsPassed
<1>4. CASE OrDefault(o)
  BY <1>1, <1>4, ConstructPasses DEF OrDefault
<1>5. ASSUME NEW x \in live, OrFromStatus(o, x) \/ OrAssignStatus(o, x)
      PROVE  WordsPassed
  BY <1>1, <1>2, <1>5
     DEF OrFromStatus, OrAssignStatus, CopyConstruct, CopyInto, MoveConstruct, MoveInto,
         AssignCopy, MoveThroughTemporary, Abort, SetWord, Counted, WordsPassed
<1>6. ASSUME NEW p \in live, OrCopyConstruct(o, p) \/ OrMoveConstruct(o, p)
      PROVE  WordsPassed
  BY <1>1, <1>2, <1>6
     DEF OrCopyConstruct, OrMoveConstruct, CopyInto, MoveInto, SetWord, Counted, WordsPassed
<1>7. ASSUME NEW p \in live, OrCopyAssign(o, p) \/ OrMoveAssign(o, p)
      PROVE  WordsPassed
  <2>1. live' = live /\ rep \in [Handles -> Words(Reps)] /\ p \in Handles
    BY <1>1, <1>7 DEF OrCopyAssign, OrMoveAssign, Counted
  <2>2. \/ rep' = rep
        \/ rep' = [rep EXCEPT ![o] = rep[p]]
        \/ rep' = [rep EXCEPT ![o] = rep[p], ![p] = MovedFromRep]
        \/ rep' = [rep EXCEPT ![o] = CodeToInlinedRep(kOk)]
    BY <1>7 DEF OrCopyAssign, OrMoveAssign, AssignCopy, MoveThroughTemporary, Assign,
                ForgetError, SetWord
  <2> QED
    BY <1>1, <1>2, <2>1, <2>2 DEF WordsPassed
<1>8. CASE OrAccess(o) \/ OrValueOr(o) \/ CheckOrAssign(o)
  BY <1>8 DEF OrAccess, OrValueOr, CheckOrAssign, Abort, WordsPassed
<1>9. ASSUME NEW h \in Plain, o \in live, OrTakeStatus(h, o)
      PROVE  WordsPassed
  BY <1>1, <1>2, <1>9 DEF OrTakeStatus, MoveInto, SetWord, Counted, WordsPassed
<1>10. CASE OrDestroy(o)
  BY <1>1, <1>2, <1>10 DEF OrDestroy, Destroy, SetWord, Counted, WordsPassed
<1> QED
  BY <1>3, <1>4, <1>5, <1>6, <1>7, <1>8, <1>9, <1>10 DEF OnStatusOr

\* A rep is in use exactly if a live handle refers to it.
LEMMA InUse ==
  ASSUME Counted, NEW a \in Reps
  PROVE  heap[a].ref # 0 <=> \E h \in live : rep[h] = PointerToRep(a)
<1>1. IsFiniteSet(HoldersIn(live, rep, a))
  BY HoldersFinite DEF Counted
<1>2. Cardinality(HoldersIn(live, rep, a)) # 0 <=> HoldersIn(live, rep, a) # {}
  BY <1>1, FS_EmptySet
<1> QED
  BY <1>2 DEF Counted, Balanced, HoldersIn

LEMMA NextWorded ==
  ASSUME Counted, Counted', Worded, TextKept, WordsPassed
  PROVE  Worded'
<1> SUFFICES ASSUME NEW a \in Reps, heap'[a].ref # 0
             PROVE  heap'[a].message # "" /\ heap'[a].code # kOk
  BY DEF Worded
<1>1. PICK h \in live' : rep'[h] = PointerToRep(a)
  <2>1. heap'[a].ref = Cardinality(HoldersIn(live', rep', a))
    BY DEF Counted, Balanced
  <2>2. HoldersIn(live', rep', a) # {}
    BY <2>1, FS_EmptySet
  <2> QED
    BY <2>2 DEF HoldersIn
<1>2. CASE \E x \in live : rep'[h] = rep[x]
  BY <1>1, <1>2, InUse DEF Worded, TextKept
<1>3. CASE IsInlined(rep'[h])
  BY <1>1, <1>3, PointerWords
<1>4. CASE \E b \in Reps : /\ rep'[h] = PointerToRep(b)
                           /\ heap'[b].message # "" /\ heap'[b].code # kOk
  BY <1>1, <1>4, PointerWords
<1> QED
  BY <1>2, <1>3, <1>4 DEF WordsPassed

THEOREM RepsWorded == Spec => []Worded
<1>1. Init => Worded
  <2>1. ASSUME Init, NEW a \in Reps
        PROVE  heap[a].ref = 0
    BY <2>1 DEF Init
  <2> QED
    BY <2>1 DEF Worded
<1>2. IndInv /\ Worded /\ [Next]_vars => Worded'
  <2> SUFFICES ASSUME IndInv, Worded, [Next]_vars PROVE Worded'
    OBVIOUS
  <2>1. CASE Next
    <3>1. IndInv'
      BY NextInv
    <3>2. TextKept /\ WordsPassed
      BY <2>1, OnStatusText, OnStatusOrText, OnStatusPasses, OnStatusOrPasses
         DEF Next, IndInv
    <3> QED
      BY <3>1, <3>2, NextWorded DEF IndInv
  <2>2. CASE UNCHANGED vars
    BY <2>2 DEF vars, Worded
  <2> QED
    BY <2>1, <2>2
<1> QED
  BY <1>1, <1>2, Invariance, PTL DEF Spec

-----------------------------------------------------------------------------
(* StatusOr implements StatusValue, operation by operation.                *)

\* What an OK word and that of a moved status say.
LEMMA FixedWords ==
  ASSUME NEW g
  PROVE  /\ ok(g) => raw_code(g) = 0 /\ Message(g) = ""
         /\ ok(g)' => raw_code(g)' = 0 /\ Message(g)' = ""
         /\ rep'[g] = MovedFromRep => raw_code(g)' # 0
<1>1. /\ IsInlined(CodeToInlinedRep(kOk)) /\ InlinedRepToCode(CodeToInlinedRep(kOk)) = 0
      /\ ~IsMovedFrom(CodeToInlinedRep(kOk))
  BY DEF IsInlined, CodeToInlinedRep, InlinedRepToCode, IsMovedFrom, kOk
<1>2. IsInlined(MovedFromRep) /\ InlinedRepToCode(MovedFromRep) # 0
  BY DEF IsInlined, CodeToInlinedRep, InlinedRepToCode, MovedFromRep, kInternal
<1>3. /\ ok(g) => raw_code(g) = 0
      /\ ok(g)' => raw_code(g)' = 0
      /\ rep'[g] = MovedFromRep => raw_code(g)' # 0
  BY <1>1, <1>2 DEF raw_code, ok
<1>4. /\ ok(g) => Message(g) = ""
      /\ ok(g)' => Message(g)' = ""
  BY <1>1, Zenon DEF Message, ok
<1> QED
  BY <1>3, <1>4, Zenon

\* A status says code 0 only if it is OK.
LEMMA ErrorCodes ==
  ASSUME Counted, Worded, NEW h \in live
  PROVE  raw_code(h) = 0 => ok(h)
<1>1. rep[h] \in Words(Reps)
  BY DEF Counted
<1>2. CASE IsInlined(rep[h])
  <2>1. \/ \E c \in StatusCode : rep[h] = CodeToInlinedRep(c)
        \/ rep[h] = MovedFromRep
    BY <1>1, <1>2, PointerWords DEF Words
  <2> QED
    BY <1>2, <2>1 DEF raw_code, ok, InlinedRepToCode, CodeToInlinedRep, MovedFromRep,
                      StatusCode, kOk, kInternal
<1>3. CASE ~IsInlined(rep[h])
  <2>1. PICK a \in Reps : rep[h] = PointerToRep(a)
    BY <1>1, <1>3, WordKinds
  <2>2. raw_code(h) = heap[a].code
    BY <1>3, <2>1, PointerWords DEF raw_code
  <2> QED
    BY <2>1, <2>2, InUse DEF Worded, kOk
<1> QED
  BY <1>2, <1>3

\* Every handle outside hs holds what it held.
Frame(hs) == \A g \in Handles \ hs : /\ rep'[g] = rep[g]
                                     /\ g \in live' <=> g \in live
                                     /\ g \in Ors => data'[g] = data[g]

LEMMA FrameValues ==
  ASSUME Counted, TextKept, NEW hs, Frame(hs)
  PROVE  \A g \in Handles \ hs : ValueOf(g)' = ValueOf(g)
<1> SUFFICES ASSUME NEW g \in Handles \ hs
             PROVE  ValueOf(g)' = ValueOf(g)
  OBVIOUS
<1>1. CASE g \in live
  <2>1. raw_code(g)' = raw_code(g) /\ Message(g)' = Message(g)
    BY <1>1, SameWord DEF Frame
  <2> QED
    BY <1>1, <2>1 DEF Frame, ValueOf
<1>2. CASE g \notin live
  BY <1>2 DEF Frame, ValueOf
<1> QED
  BY <1>1, <1>2

LEMMA StepMake ==
  ASSUME Counted, TextKept, NEW h \in Handles, NEW code \in StatusCode,
         NEW message \in Messages, Construct(h, code, message), Frame({h}),
         h \in Ors => data'[h] = Dead
  PROVE  Abstract!Make(h, code, message)
<1>1. \A g \in Handles \ {h} : ValueOf(g)' = ValueOf(g)
  BY FrameValues
<1>2. /\ raw_code(h)' = code
      /\ Message(h)' = IF code = 0 THEN "" ELSE message
  <2>1. CASE code = kOk \/ message = ""
    <3> DEFINE w == CodeToInlinedRep(code)
    <3>1. rep'[h] = w
      BY <2>1 DEF Construct, SetWord, Counted
    <3>2. IsInlined(w) /\ InlinedRepToCode(w) = code /\ ~IsMovedFrom(w)
      BY DEF IsInlined, CodeToInlinedRep, InlinedRepToCode, IsMovedFrom, StatusCode
    <3> HIDE DEF w
    <3>3. raw_code(h)' = code
      BY <3>1, <3>2 DEF raw_code
    <3>4. Message(h)' = ""
      BY <3>1, <3>2, Zenon DEF Message
    <3> QED
      BY <2>1, <3>3, <3>4 DEF kOk
  <2>2. CASE ~(code = kOk \/ message = "")
    <3>1. PICK a \in Reps : /\ rep' = [rep EXCEPT ![h] = PointerToRep(a)]
                            /\ heap' = [heap EXCEPT ![a] = NewRep(code, message)]
      BY <2>2 DEF Construct, Unused, SetWord
    <3>2. rep'[h] = PointerToRep(a) /\ heap'[a] = NewRep(code, message)
      BY <3>1 DEF Counted, Heaps
    <3>3. ~IsInlined(rep'[h]) /\ RepToPointer(rep'[h]) = a
      BY <3>2, PointerWords
    <3> HIDE DEF Frame, SetWord
    <3>4. raw_code(h)' = code
      BY <3>2, <3>3 DEF raw_code, NewRep
    <3>5. Message(h)' = message
      BY <3>2, <3>3 DEF Message, NewRep
    <3> QED
      BY <2>2, <3>4, <3>5 DEF kOk
  <2> QED
    BY <2>1, <2>2
<1>3. h \notin live /\ h \in live'
  BY DEF Construct
<1> QED
  BY <1>1, <1>2, <1>3
     DEF ValueOf, Abstract!Make, Abstract!Worth, Abstract!Others, Abstract!There

LEMMA StepGive ==
  ASSUME Counted, TextKept, NEW h \in Ors, h \in Handles, h \in live', ok(h)',
         Frame({h}), NEW t, data'[h] = t
  PROVE  Abstract!Give(h, t)
<1>1. \A g \in Handles \ {h} : ValueOf(g)' = ValueOf(g)
  BY FrameValues
<1>2. raw_code(h)' = 0 /\ Message(h)' = ""
  BY FixedWords
<1> QED
  BY <1>1, <1>2 DEF ValueOf, Abstract!Give, Abstract!Worth, Abstract!Others

LEMMA StepCopy ==
  ASSUME Counted, TextKept, NEW h \in Handles, NEW x \in live, h \in live', Frame({h}),
         rep'[h] = rep[x], h \in Ors => data'[h] = IF x \in Ors THEN data[x] ELSE Dead
  PROVE  Abstract!Copy(h, x)
<1>1. raw_code(h)' = raw_code(x) /\ Message(h)' = Message(x)
  BY SameWord
<1>2. \A g \in Handles \ {h} : ValueOf(g)' = ValueOf(g)
  BY FrameValues
<1>3. x \in Handles
  BY DEF Counted
<1> QED
  BY <1>1, <1>2, <1>3
     DEF ValueOf, Abstract!Copy, Abstract!SameAs, Abstract!Worth, Abstract!Others,
         Abstract!There

\* The source of a move of an error is marked; that of a move of a value keeps
\* its word.
LEMMA StepMove ==
  ASSUME Counted, Worded, TextKept, NEW h \in Handles, NEW x \in live, h \in live',
         x \in live', Frame({h, x}), rep'[h] = rep[x],
         rep'[x] \in {rep[x], MovedFromRep}, x \in Ors /\ ok(x) => rep'[x] = rep[x],
         h \in Ors => data'[h] = IF x \in Ors THEN data[x] ELSE Dead
  PROVE  Abstract!Move(h, x)
<1>1. raw_code(h)' = raw_code(x) /\ Message(h)' = Message(x)
  BY SameWord
<1>2. \A g \in Handles \ {h, x} : ValueOf(g)' = ValueOf(g)
  BY FrameValues
<1>3. x \in Handles
  BY DEF Counted
<1>4. raw_code(x) # 0 => raw_code(x)' # 0
  BY <1>3, SameWord, FixedWords
<1>5. x \in Ors /\ raw_code(x) = 0 => raw_code(x)' = 0
  BY <1>3, SameWord, ErrorCodes
<1> QED
  BY <1>1, <1>2, <1>3, <1>4, <1>5
     DEF ValueOf, Abstract!Move, Abstract!SameAs, Abstract!Worth, Abstract!Others,
         Abstract!There, Abstract!IsError

LEMMA StepSwap ==
  ASSUME Counted, TextKept, NEW h \in live, NEW x \in live, UNCHANGED live,
         Frame({h, x}), rep'[h] = rep[x], rep'[x] = rep[h], h \notin Ors, x \notin Ors
  PROVE  Abstract!Swap(h, x)
<1>1. live \subseteq Handles
  BY DEF Counted
<1>2. /\ raw_code(h)' = raw_code(x) /\ Message(h)' = Message(x)
      /\ raw_code(x)' = raw_code(h) /\ Message(x)' = Message(h)
  BY <1>1, SameWord
<1>3. \A g \in Handles \ {h, x} : ValueOf(g)' = ValueOf(g)
  BY FrameValues
<1> QED
  BY <1>1, <1>2, <1>3 DEF ValueOf, Abstract!Swap, Abstract!Others, Abstract!There

LEMMA StepDrop ==
  ASSUME Counted, TextKept, NEW h \in Handles, h \in live, h \notin live', Frame({h})
  PROVE  Abstract!Drop(h)
<1>1. \A g \in Handles \ {h} : ValueOf(g)' = ValueOf(g)
  BY FrameValues
<1> QED
  BY <1>1 DEF ValueOf, Abstract!Drop, Abstract!Others, Abstract!There, Abstract!Gone

Val == [h \in Handles |-> ValueOf(h)]

LEMMA NoStep ==
  ASSUME UNCHANGED <<live, rep, heap, data>>
  PROVE  UNCHANGED Val /\ Abstract!Others({})
  BY DEF Val, ValueOf, raw_code, Message, Abstract!Others

\* The operations on a status keep their promises.
LEMMA StatusKeepsPromises ==
  ASSUME Counted, Worded
  PROVE  StatusPromises
<1> SUFFICES ASSUME UNCHANGED data, Alone PROVE
      /\ \A h \in Plain, c \in Codes, m \in Messages :
            Construct(h, c, m) => Abstract!Make(h, c, m)
      /\ \A h \in Plain, x \in live :
            CopyConstruct(h, x) \/ CopyAssign(h, x) => Abstract!Copy(h, x)
      /\ \A h \in Plain, x \in live \ Ors :
            /\ MoveConstruct(h, x) \/ MoveAssign(h, x) => Abstract!Move(h, x)
            /\ Update(h, x) => Abstract!Copy(h, x) \/ Abstract!Move(h, x)
            /\ Swap(h, x) => Abstract!Swap(h, x)
      /\ \A h \in Plain : Destroy(h) => Abstract!Drop(h)
  BY DEF StatusPromises
<1>1. OnStatus => TextKept
  BY OnStatusText
<1>2. /\ Plain \subseteq Handles /\ live \subseteq Handles /\ rep \in [Handles -> Words(Reps)]
      /\ Plain \intersect Ors = {} /\ Codes \subseteq StatusCode
  BY StatusAssumption DEF Counted, Plain, StatusAssumption
<1> USE <1>2 DEF Frame, SetWord
<1>3. ASSUME NEW h \in Plain, NEW c \in Codes, NEW m \in Messages, Construct(h, c, m)
      PROVE  Abstract!Make(h, c, m)
  <2>1. TextKept
    BY <1>1, <1>3 DEF OnStatus
  <2>2. Frame({h})
    BY <1>3 DEF Construct
  <2> QED
    BY <1>3, <2>1, <2>2, StepMake
<1>4. ASSUME NEW h \in Plain, NEW x \in live, CopyConstruct(h, x) \/ CopyAssign(h, x)
      PROVE  Abstract!Copy(h, x)
  <2>1. TextKept
    BY <1>1, <1>4 DEF OnStatus
  <2> QED
    BY <1>4, <2>1, StepCopy DEF CopyConstruct, CopyInto, CopyAssign, AssignCopy
<1>5. ASSUME NEW h \in Plain, NEW x \in live \ Ors, MoveConstruct(h, x) \/ MoveAssign(h, x)
      PROVE  Abstract!Move(h, x)
  <2>1. TextKept
    BY <1>1, <1>5 DEF OnStatus
  <2> QED
    BY <1>5, <2>1, StepMove DEF MoveConstruct, MoveInto, MoveAssign, AssignMove
<1>6. ASSUME NEW h \in Plain, NEW x \in live \ Ors, Update(h, x)
      PROVE  Abstract!Copy(h, x) \/ Abstract!Move(h, x)
  BY <1>4, <1>5, <1>6 DEF Update
<1>7. ASSUME NEW h \in Plain, NEW x \in live \ Ors, Swap(h, x)
      PROVE  Abstract!Swap(h, x)
  <2>1. TextKept
    BY <1>1, <1>7 DEF OnStatus
  <2> QED
    BY <1>7, <2>1, StepSwap DEF Swap
<1>8. ASSUME NEW h \in Plain, Destroy(h)
      PROVE  Abstract!Drop(h)
  <2>1. TextKept
    BY <1>1, <1>8 DEF OnStatus
  <2> QED
    BY <1>8, <2>1, StepDrop DEF Destroy
<1> QED
  BY <1>3, <1>4, <1>5, <1>6, <1>7, <1>8

\* The operations on a StatusOr keep theirs.
LEMMA StatusOrKeepsPromises ==
  ASSUME Counted, Worded, DataInv, NEW o \in Ors
  PROVE  StatusOrPromises(o)
<1>1. OnStatusOr(o) => TextKept
  BY OnStatusOrText
<1>2. /\ o \in Handles /\ Ors \subseteq Handles /\ Plain \subseteq Handles /\ Plain \intersect Ors = {}
      /\ live \subseteq Handles /\ rep \in [Handles -> Words(Reps)]
  BY StatusOrAssumption DEF Counted, Plain, StatusOrAssumption
<1>3. /\ data \in [Ors -> {Dead, Taken} \union {Alive(v) : v \in Values}]
      /\ \A q \in Ors : q \notin live \/ ~ok(q) => data[q] = Dead
  BY Storage DEF DataInv
<1> USE <1>2, <1>3 DEF Frame, SetWord, MakeValue
<1>4. ASSUME NEW v \in Values, OrFromValue(o, v) \/ OrAssignValue(o, v)
      PROVE  Abstract!Give(o, Alive(v))
  <2>1. TextKept
    BY <1>1, <1>4 DEF OnStatusOr
  <2> QED
    BY <1>4, <2>1, StepGive DEF OrFromValue, OrAssignValue, Assign, ForgetError, ok
<1>5. ASSUME OrDefault(o)
      PROVE  Abstract!Make(o, kUnknown, "")
  <2>1. TextKept
    BY <1>1, <1>5 DEF OnStatusOr
  <2>2. Frame({o}) /\ data'[o] = Dead
    BY <1>5 DEF OrDefault, Construct
  <2> QED
    BY <1>5, <2>1, <2>2, StepMake, NamedConstants DEF OrDefault
<1>6. ASSUME NEW x \in live \ Ors, EnsureNotOk(x), OrFromStatus(o, x)
      PROVE  Abstract!Copy(o, x) \/ Abstract!Move(o, x)
  <2>1. TextKept
    BY <1>1, <1>6 DEF OnStatusOr
  <2>2. CASE CopyConstruct(o, x) /\ UNCHANGED data
    BY <2>1, <2>2, StepCopy DEF CopyConstruct, CopyInto
  <2>3. CASE MoveConstruct(o, x) /\ UNCHANGED data
    BY <2>1, <2>3, StepMove DEF MoveConstruct, MoveInto
  <2> QED
    BY <1>6, <2>2, <2>3 DEF OrFromStatus
<1>7. ASSUME NEW x \in live \ Ors, EnsureNotOk(x), OrAssignStatus(o, x)
      PROVE  Abstract!Copy(o, x) \/ Abstract!Move(o, x)
  <2>1. TextKept
    BY <1>1, <1>7 DEF OnStatusOr
  <2>2. o \in live /\ UNCHANGED live /\ Clear(o)
    BY <1>7 DEF OrAssignStatus
  <2>3. data'[o] = Dead /\ \A q \in Ors \ {o} : data'[q] = data[q]
    BY <2>2 DEF Clear
  <2>4. CASE AssignCopy(o, x)
    BY <2>1, <2>2, <2>3, <2>4, StepCopy DEF AssignCopy
  <2>5. CASE MoveThroughTemporary(o, x)
    BY <2>1, <2>2, <2>3, <2>5, StepMove DEF MoveThroughTemporary
  <2> QED
    BY <1>7, <2>4, <2>5 DEF OrAssignStatus
<1>8. ASSUME NEW p \in live \intersect Ors, OrCopyConstruct(o, p) \/ OrCopyAssign(o, p)
      PROVE  Abstract!Copy(o, p)
  <2>1. TextKept
    BY <1>1, <1>8 DEF OnStatusOr
  <2>2. CASE OrCopyConstruct(o, p)
    BY <2>1, <2>2, StepCopy DEF OrCopyConstruct, CopyInto, ok
  <2>3. CASE OrCopyAssign(o, p)
    BY <2>1, <2>3, StepCopy DEF OrCopyAssign, Assign, ForgetError, Clear, AssignCopy, ok
  <2> QED
    BY <1>8, <2>2, <2>3
<1>9. ASSUME NEW p \in live \intersect Ors, OrMoveConstruct(o, p) \/ OrMoveAssign(o, p)
      PROVE  Abstract!Move(o, p)
  <2>1. TextKept
    BY <1>1, <1>9 DEF OnStatusOr
  <2>2. CASE OrMoveConstruct(o, p)
    BY <2>1, <2>2, StepMove DEF OrMoveConstruct, MoveInto, ok
  <2>3. CASE OrMoveAssign(o, p)
    BY <2>1, <2>3, StepMove
       DEF OrMoveAssign, ForgetError, Clear, MoveThroughTemporary, ok
  <2> QED
    BY <1>9, <2>2, <2>3
<1>10. ASSUME OrAccess(o) \/ OrValueOr(o) \/ CheckOrAssign(o)
       PROVE  Abstract!Give(o, Taken) \/ Abstract!Others({})
  <2>1. CASE UNCHANGED <<live, rep, heap, data>>
    BY <2>1, NoStep
  <2>2. CASE /\ o \in live /\ ok(o) /\ MakeValue(o, Taken)
             /\ UNCHANGED <<live, rep, heap>>
    <3>1. TextKept
      BY <1>1, <1>10 DEF OnStatusOr
    <3> QED
      BY <2>2, <3>1, StepGive DEF ok
  <2> QED
    BY <1>10, <2>1, <2>2 DEF OrAccess, OrValueOr, CheckOrAssign, EnsureOk, Abort
<1>11. ASSUME NEW h \in Plain, o \in live, OrTakeStatus(h, o)
       PROVE  Abstract!Move(h, o)
  <2>1. TextKept
    BY <1>1, <1>11 DEF OnStatusOr
  <2> QED
    BY <1>11, <2>1, StepMove DEF OrTakeStatus, MoveInto, ok
<1>12. ASSUME OrDestroy(o)
       PROVE  Abstract!Drop(o)
  <2>1. TextKept
    BY <1>1, <1>12 DEF OnStatusOr
  <2> QED
    BY <1>12, <2>1, StepDrop DEF OrDestroy, Destroy, Clear
<1> QED
  BY <1>4, <1>5, <1>6, <1>7, <1>8, <1>9, <1>10, <1>11, <1>12 DEF StatusOrPromises

\* A step of the abstract specification, or none.
Simulated == Abstract!Next \/ UNCHANGED Val

LEMMA OnStatusSimulated ==
  ASSUME StatusPromises, Counted, OnStatus
  PROVE  Simulated
<1>1. UNCHANGED data /\ Alone /\ Plain \subseteq Handles /\ live \subseteq Handles
  BY DEF OnStatus, Counted, Plain
<1> QED
  BY <1>1 DEF OnStatus, StatusPromises, Simulated, Abstract!Next, Update

LEMMA OnStatusOrSimulated ==
  ASSUME Counted, NEW o \in Ors, StatusOrPromises(o), OnStatusOr(o)
  PROVE  Simulated
<1>1. /\ o \in Handles /\ live \subseteq Handles /\ Plain \subseteq Handles
      /\ kUnknown \in Codes \union {kUnknown} /\ "" \in Messages
  BY StatusOrAssumption, NamedConstants DEF Counted, StatusOrAssumption, Plain
<1>2. ASSUME Abstract!Others({}) PROVE UNCHANGED Val
  BY <1>2 DEF Abstract!Others, Val
<1>3. ASSUME NEW t \in {Taken} \union {Alive(v) : v \in Values}, Abstract!Give(o, t)
      PROVE  Simulated
  BY <1>1, <1>3 DEF Simulated, Abstract!Next
<1>4. ASSUME NEW h \in Handles, NEW x \in Handles,
             Abstract!Copy(h, x) \/ Abstract!Move(h, x) \/ Abstract!Drop(h)
      PROVE  Simulated
  BY <1>4 DEF Simulated, Abstract!Next
<1>5. ASSUME Abstract!Make(o, kUnknown, "") PROVE Simulated
  BY <1>1, <1>5 DEF Simulated, Abstract!Next
<1>6. ASSUME NEW x \in live \ Ors, OrFromStatus(o, x) \/ OrAssignStatus(o, x)
      PROVE  Simulated
  <2>1. CASE EnsureNotOk(x)
    BY <1>1, <1>4, <1>6, <2>1 DEF StatusOrPromises
  <2>2. CASE ~EnsureNotOk(x)
    <3>1. UNCHANGED <<live, rep, heap, data>>
      BY <1>6, <2>2 DEF OrFromStatus, OrAssignStatus, Abort
    <3> QED
      BY <3>1, NoStep DEF Simulated
  <2> QED
    BY <2>1, <2>2
<1>7. ASSUME NEW p \in live \intersect Ors,
             \/ OrCopyConstruct(o, p) \/ OrMoveConstruct(o, p)
             \/ OrCopyAssign(o, p) \/ OrMoveAssign(o, p)
      PROVE  Simulated
  BY <1>1, <1>4, <1>7 DEF StatusOrPromises
<1>8. ASSUME NEW v \in Values, OrFromValue(o, v) \/ OrAssignValue(o, v)
      PROVE  Simulated
  BY <1>3, <1>8 DEF StatusOrPromises
<1>9. CASE OrAccess(o) \/ OrValueOr(o) \/ CheckOrAssign(o)
  BY <1>2, <1>3, <1>9 DEF StatusOrPromises, Simulated
<1>10. ASSUME NEW h \in Plain, o \in live, OrTakeStatus(h, o)
       PROVE  Simulated
  BY <1>1, <1>4, <1>10 DEF StatusOrPromises
<1>11. CASE OrDefault(o) \/ OrDestroy(o)
  BY <1>1, <1>4, <1>5, <1>11 DEF StatusOrPromises
<1> QED
  BY <1>6, <1>7, <1>8, <1>9, <1>10, <1>11 DEF OnStatusOr

\* Handles that share reps behave as independent values: whatever is copied,
\* moved, swapped or destroyed, the handles named in an operation are worth
\* what it promises, and no other changes.
THEOREM ValuesIndependent == Spec => ValueSemantics
<1>1. Init => Abstract!Init
  BY DEF Init, Abstract!Init, Abstract!Gone, ValueOf
<1>2. IndInv /\ Worded => StatusPromises /\ \A o \in Ors : StatusOrPromises(o)
  BY StatusKeepsPromises, StatusOrKeepsPromises DEF IndInv
<1>3. IndInv /\ Worded /\ [Next]_vars => [Abstract!Next]_Val
  <2> SUFFICES ASSUME IndInv, Worded, [Next]_vars PROVE Simulated
    BY DEF Simulated
  <2>1. CASE Next
    BY <1>2, <2>1, OnStatusSimulated, OnStatusOrSimulated DEF Next, IndInv
  <2>2. CASE UNCHANGED vars
    BY <2>2, NoStep DEF vars, Simulated
  <2> QED
    BY <2>1, <2>2
<1>4. Spec => [][Abstract!Next]_Val
  BY <1>3, Invariance, RepsWorded, PTL DEF Spec
<1>5. Spec => [][StatusPromises /\ \A o \in Ors : StatusOrPromises(o)]_vars
  BY <1>2, Invariance, RepsWorded, PTL
<1> QED
  BY <1>1, <1>4, <1>5, PTL DEF Spec, ValueSemantics, Abstract!Spec, Val

-----------------------------------------------------------------------------
(* Comparison.  A rep in use has a message, so a status with a rep and one *)
(* without never say the same: EqualsSlow may tell them apart at once.     *)

\* What an inlined word says.
LEMMA InlinedSays ==
  ASSUME NEW h, IsInlined(rep[h])
  PROVE  Message(h) \in {"", kMovedFromString}
  BY DEF Message

\* What a word with a rep says.
LEMMA PointerSays ==
  ASSUME Counted, Worded, NEW h \in live, ~IsInlined(rep[h])
  PROVE  Message(h) \notin {"", kMovedFromString}
<1>1. PICK a \in Reps : rep[h] = PointerToRep(a)
  BY WordKinds DEF Counted
<1>2. Message(h) = heap[a].message
  BY <1>1, PointerWords DEF Message
<1>3. heap[a].message # ""
  BY <1>1, InUse DEF Worded
<1>4. heap[a].message \in Messages
  BY DEF Counted, Heaps, StatusRep
<1> QED
  BY <1>2, <1>3, <1>4, MovedFromAssumption

\* What comparing two statuses gives, of any statuses the program can build: it
\* calls different exactly those that differ in code or message, although
\* EqualsSlow gives up as soon as one of the two has a rep and the other none;
\* of those that agree it reads a null payload if each has a rep of its own,
\* and calls the others equal.
THEOREM ComparesValues == Spec => []EqualityIsOfValues
<1>1. IndInv /\ Worded => EqualityIsOfValues
  <2> SUFFICES ASSUME Counted, Worded, NEW a \in live, NEW b \in live
               PROVE  Equals(a, b) =
                        IF raw_code(a) # raw_code(b) \/ Message(a) # Message(b)
                        THEN "different"
                        ELSE IF SeparateReps(a, b) THEN "null payload read" ELSE "equal"
    BY DEF IndInv, EqualityIsOfValues
  <2>1. IsInlined(rep[a]) \in BOOLEAN /\ IsInlined(rep[b]) \in BOOLEAN
    BY DEF IsInlined
  <2>2. CASE rep[a] = rep[b]
    <3>1. raw_code(a) = raw_code(b) /\ Message(a) = Message(b)
      BY <2>2 DEF raw_code, Message
    <3> QED
      BY <2>2, <3>1 DEF Equals, SeparateReps
  <2>3. CASE rep[a] # rep[b] /\ IsInlined(rep[a]) # IsInlined(rep[b])
    <3>1. Message(a) # Message(b)
      <4>1. CASE IsInlined(rep[a]) /\ ~IsInlined(rep[b])
        BY <4>1, InlinedSays, PointerSays
      <4>2. CASE ~IsInlined(rep[a]) /\ IsInlined(rep[b])
        BY <4>2, InlinedSays, PointerSays
      <4> QED
        BY <2>1, <2>3, <4>1, <4>2
    <3> QED
      BY <2>3, <3>1 DEF Equals, EqualsSlow
  <2>4. CASE rep[a] # rep[b] /\ IsInlined(rep[a]) = IsInlined(rep[b])
    BY <2>1, <2>4 DEF Equals, EqualsSlow, SeparateReps
  <2> QED
    BY <2>2, <2>3, <2>4
<1> QED
  BY <1>1, Invariance, RepsWorded, PTL
=============================================================================
