------------------------------- MODULE Status -------------------------------
(***************************************************************************)
(* hzcc::Status (utils/status/status.h, status.cc): the error value that   *)
(* every stage of the compiler returns.  Statuses with a message share a   *)
(* counted StatusRep; each operation is one action.  A handle is a place   *)
(* for one Status object, alive or not; handles that belong to a StatusOr  *)
(* are driven by the module StatusOr.                                      *)
(***************************************************************************)
EXTENDS StatusWord, FiniteSets

CONSTANTS Handles,   \* the places where a Status object may live
          Reps,      \* the addresses of StatusRep objects
          Codes,     \* the codes that callers construct
          Messages   \* the messages that callers construct, "" among them

ASSUME StatusAssumption ==
  /\ IsFiniteSet(Handles)
  /\ \A a \in Reps : Aligned(a)
  /\ Codes \subseteq StatusCode
  /\ Messages \subseteq STRING /\ "" \in Messages

VARIABLES live,   \* the handles that hold an object
          rep,    \* the word of each handle
          heap    \* the StatusRep at each address; a free one counts nothing

statusVars == <<live, rep, heap>>

kMovedFromString == "Status accessed after move."

\* What a status that was moved from says, no caller says.
ASSUME MovedFromAssumption == kMovedFromString \notin Messages

StatusRep == [ref : Int, code : StatusCode, message : Messages]

-----------------------------------------------------------------------------
(* Counting references.                                                    *)

Ref(hp, word) ==
  IF IsInlined(word) THEN hp ELSE [hp EXCEPT ![RepToPointer(word)].ref = @ + 1]

\* The last reference deletes the rep: its count is then 0.
Unref(hp, word) ==
  IF IsInlined(word) THEN hp ELSE [hp EXCEPT ![RepToPointer(word)].ref = @ - 1]

Unused == {a \in Reps : heap[a].ref = 0}

NewRep(code, message) == [ref |-> 1, code |-> code, message |-> message]

-----------------------------------------------------------------------------
(* What a status answers.                                                  *)

ok(h) == rep[h] = CodeToInlinedRep(kOk)

raw_code(h) == IF IsInlined(rep[h]) THEN InlinedRepToCode(rep[h])
               ELSE heap[RepToPointer(rep[h])].code

Message(h) == IF ~IsInlined(rep[h]) THEN heap[RepToPointer(rep[h])].message
              ELSE IF IsMovedFrom(rep[h]) THEN kMovedFromString ELSE ""

\* Fault: codes are not compared.
EqualsSlowByMessage(a, b) ==
  IF \/ IsInlined(rep[a]) # IsInlined(rep[b])
     \/ Message(a) # Message(b)
  THEN "different"
  ELSE IF IsInlined(rep[a]) THEN "equal" ELSE "null payload read"

\* EqualsSlow reads the payloads of two reps that agree so far, and a payload
\* is always a null pointer.
EqualsSlow(a, b) ==
  IF \/ IsInlined(rep[a]) # IsInlined(rep[b])
     \/ Message(a) # Message(b)
     \/ raw_code(a) # raw_code(b)
  THEN "different"
  ELSE IF IsInlined(rep[a]) THEN "equal" ELSE "null payload read"

Equals(a, b) == IF rep[a] = rep[b] THEN "equal" ELSE EqualsSlow(a, b)

-----------------------------------------------------------------------------
(* Storing a word in a handle.                                             *)

SetWord(h, word) == rep' = [rep EXCEPT ![h] = word]

\* Fault: the copy has the code alone.
CopyIntoCode(h, x) == SetWord(h, CodeToInlinedRep(raw_code(x))) /\ UNCHANGED heap

\* The word of a copy; Status(const Status&).
CopyInto(h, x) == SetWord(h, rep[x]) /\ heap' = Ref(heap, rep[x])

\* Fault: the old rep is not released.
AssignCopyLeaking(h, x) == SetWord(h, rep[x]) /\ heap' = Ref(heap, rep[x])

\* operator=(const Status&) and, with the source marked, operator=(Status&&).
AssignCopy(h, x) ==
  IF rep[x] = rep[h] THEN UNCHANGED <<rep, heap>>
  ELSE SetWord(h, rep[x]) /\ heap' = Unref(Ref(heap, rep[x]), rep[h])

\* Fault: the source keeps its word.
MoveIntoKeeping(h, x) == SetWord(h, rep[x]) /\ UNCHANGED heap

\* Status(Status&&): the word changes hands.
MoveInto(h, x) ==
  rep' = [rep EXCEPT ![h] = rep[x], ![x] = MovedFromRep] /\ UNCHANGED heap

\* Fault: equal words are not told apart.
AssignMoveUntested(h, x) ==
  /\ rep' = [rep EXCEPT ![h] = rep[x], ![x] = MovedFromRep]
  /\ heap' = Unref(heap, rep[h])

AssignMove(h, x) ==
  IF rep[x] = rep[h] THEN UNCHANGED <<rep, heap>>
  ELSE /\ rep' = [rep EXCEPT ![h] = rep[x], ![x] = MovedFromRep]
       /\ heap' = Unref(heap, rep[h])

\* AssignStatus of a StatusOr, given a status to move: the source is moved to a
\* temporary first, so that it is moved from whatever it held.  The temporary
\* gives its word to h in exchange for nothing; when h held the same word, it
\* is the temporary that is destroyed with it, and one reference is dropped
\* all the same.
MoveThroughTemporary(h, x) ==
  /\ rep' = [rep EXCEPT ![h] = rep[x], ![x] = MovedFromRep]
  /\ heap' = Unref(heap, rep[h])

-----------------------------------------------------------------------------
(* The operations.                                                         *)

\* Status(code, message), which is also what CompileError, InternalError and
\* their like return, and Status() and NoError() with kOk.
Construct(h, code, message) ==
  /\ h \notin live
  /\ live' = live \union {h}
  /\ IF code = kOk \/ message = ""
     THEN SetWord(h, CodeToInlinedRep(code)) /\ UNCHANGED heap
     ELSE \E a \in Unused : /\ SetWord(h, PointerToRep(a))
                            /\ heap' = [heap EXCEPT ![a] = NewRep(code, message)]

CopyConstruct(h, x) == /\ h \notin live
                       /\ live' = live \union {h}
                       /\ CopyInto(h, x)

MoveConstruct(h, x) == /\ h \notin live
                       /\ live' = live \union {h}
                       /\ MoveInto(h, x)

CopyAssign(h, x) == h \in live /\ AssignCopy(h, x) /\ UNCHANGED live

MoveAssign(h, x) == h \in live /\ AssignMove(h, x) /\ UNCHANGED live

\* Both forms of Update; it does nothing once the status holds an error.
Update(h, x) == ok(h) /\ (CopyAssign(h, x) \/ MoveAssign(h, x))

Swap(h, x) == /\ h \in live
              /\ rep' = [rep EXCEPT ![h] = rep[x], ![x] = rep[h]]
              /\ UNCHANGED <<live, heap>>

\* Nothing reads the word of an object that is gone.
Destroy(h) == /\ h \in live
              /\ live' = live \ {h}
              /\ heap' = Unref(heap, rep[h])
              /\ SetWord(h, CodeToInlinedRep(kOk))

-----------------------------------------------------------------------------

\* The handles that refer to the rep at an address.
Holders(a) == {h \in live : rep[h] = PointerToRep(a)}

\* The count of every rep is the number of statuses that refer to it: none is
\* freed while in use, freed twice, or never freed (Ref, Unref and
\* UnrefNonInlined, over every sequence of copies, moves and destructions).
RefCounted == \A a \in Reps : heap[a].ref = Cardinality(Holders(a))

\* Two errors that were built apart from each other.
SeparateReps(a, b) == ~IsInlined(rep[a]) /\ ~IsInlined(rep[b]) /\ rep[a] # rep[b]

\* What comparing two statuses gives, whatever was copied, moved or swapped:
\* they are different exactly if their codes or messages are, an error whose
\* message was moved away from one that never had any included; of those that
\* agree, the ones with a rep each make the comparison read a null payload
\* (where status_test.cc:402-405 expects that they are equal), and all others
\* are equal.
EqualityIsOfValues ==
  \A a, b \in live :
    Equals(a, b) =
      IF raw_code(a) # raw_code(b) \/ Message(a) # Message(b) THEN "different"
      ELSE IF SeparateReps(a, b) THEN "null payload read" ELSE "equal"
=============================================================================
