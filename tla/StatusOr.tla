------------------------------ MODULE StatusOr ------------------------------
(***************************************************************************)
(* hzcc::StatusOr<T> over hzcc::Status (utils/status/statusor.h,           *)
(* internal/statusor_internal.h): a union of an error and a T.  The T      *)
(* lives in raw storage next to status_, and whether it is alive is only   *)
(* known from status_; so each operation must end with the two in step.    *)
(* A StatusOr is a handle of Status, its status_, plus data.  The actions  *)
(* are those of a program that uses the classes as hzcc does, one          *)
(* operation at a time, among them the macro HZCC_CHECK_OR_ASSIGN with     *)
(* which the parser passes errors on.                                      *)
(***************************************************************************)
EXTENDS Status

CONSTANTS Ors,      \* the handles that are the status_ of a StatusOr
          Values    \* values of T

ASSUME StatusOrAssumption == Ors \subseteq Handles

VARIABLES data,     \* the T of each StatusOr: dead storage, or a value
          aborted   \* LOG(FATAL) ended the program, and in which operation

vars == <<live, rep, heap, data, aborted>>

Dead  == [alive |-> FALSE, value |-> ""]
Alive(v) == [alive |-> TRUE, value |-> v]
\* What a move leaves in a T.
Taken == Alive("")

Init == /\ live = {}
        /\ rep = [h \in Handles |-> CodeToInlinedRep(kOk)]
        /\ heap = [a \in Reps |-> [ref |-> 0, code |-> kOk, message |-> ""]]
        /\ data = [o \in Ors |-> Dead]
        /\ aborted = "no"

-----------------------------------------------------------------------------
(* The helpers of StatusOrData.                                            *)

MakeValue(o, d) == data' = [data EXCEPT ![o] = d]

\* Clear, which leaves status_ as it is; so does the destructor.
Clear(o) == IF ok(o) THEN MakeValue(o, Dead) ELSE UNCHANGED data

\* The end of Assign and of emplace when there was an error before.
ForgetError(o) == SetWord(o, CodeToInlinedRep(kOk)) /\ heap' = Unref(heap, rep[o])

\* Fault: the error is kept.
AssignKeepingError(o, d) == MakeValue(o, d) /\ UNCHANGED <<rep, heap>>

Assign(o, d) == /\ MakeValue(o, d)
                /\ IF ok(o) THEN UNCHANGED <<rep, heap>> ELSE ForgetError(o)

Abort(operation) == aborted' = operation /\ UNCHANGED <<live, rep, heap, data>>

\* EnsureNotOk after a status was stored, decided before it is: in the only
\* build that compiles an OK status is fatal (statusor.cc:78 names a macro that
\* is defined nowhere).
EnsureNotOk(x) == ~ok(x)
EnsureOk(o) == ok(o)

-----------------------------------------------------------------------------
(* Construction.                                                           *)

Alone == UNCHANGED aborted

OrFromValue(o, v) ==
  /\ o \notin live
  /\ live' = live \union {o}
  /\ SetWord(o, CodeToInlinedRep(kOk))
  /\ MakeValue(o, Alive(v))
  /\ UNCHANGED heap /\ Alone

\* A constructor that makes an error does not touch the storage of the T.
OrDefault(o) == Construct(o, kUnknown, "") /\ UNCHANGED data /\ Alone

OrFromStatus(o, x) ==
  /\ o \notin live
  /\ IF EnsureNotOk(x)
     THEN (CopyConstruct(o, x) \/ MoveConstruct(o, x)) /\ UNCHANGED data /\ Alone
     ELSE Abort("an OK status for a StatusOr")

OrCopyConstruct(o, p) ==
  /\ o \notin live
  /\ live' = live \union {o}
  /\ IF ok(p) THEN /\ MakeValue(o, data[p])
                   /\ SetWord(o, CodeToInlinedRep(kOk))
                   /\ UNCHANGED heap
     ELSE CopyInto(o, p) /\ UNCHANGED data
  /\ Alone

\* Moving a value leaves the source OK with what is left of it; moving an error
\* leaves the source not OK.
OrMoveConstruct(o, p) ==
  /\ o \notin live
  /\ live' = live \union {o}
  /\ IF ok(p) THEN /\ data' = [data EXCEPT ![o] = data[p], ![p] = Taken]
                   /\ SetWord(o, CodeToInlinedRep(kOk))
                   /\ UNCHANGED heap
     ELSE MoveInto(o, p) /\ UNCHANGED data
  /\ Alone

-----------------------------------------------------------------------------
(* Assignment.                                                             *)

OrCopyAssign(o, p) ==
  /\ o \in live /\ o # p
  /\ IF ok(p) THEN Assign(o, data[p]) ELSE Clear(o) /\ AssignCopy(o, p)
  /\ UNCHANGED live /\ Alone

OrMoveAssign(o, p) ==
  /\ o \in live /\ o # p
  /\ IF ok(p)
     THEN /\ data' = [data EXCEPT ![o] = data[p], ![p] = Taken]
          /\ IF ok(o) THEN UNCHANGED <<rep, heap>> ELSE ForgetError(o)
     ELSE Clear(o) /\ MoveThroughTemporary(o, p)
  /\ UNCHANGED live /\ Alone

\* Assignment of a T; emplace does the same to the state.
OrAssignValue(o, v) ==
  o \in live /\ Assign(o, Alive(v)) /\ UNCHANGED live /\ Alone

\* The temporary makes no difference when the status is copied.
OrAssignStatus(o, x) ==
  /\ o \in live
  /\ IF EnsureNotOk(x)
     THEN /\ Clear(o)
          /\ AssignCopy(o, x) \/ MoveThroughTemporary(o, x)
          /\ UNCHANGED live /\ Alone
     ELSE Abort("an OK status for a StatusOr")

-----------------------------------------------------------------------------
(* Access.                                                                 *)

\* value, operator* and operator->; a caller of the && forms takes the T away.
OrAccess(o) ==
  /\ o \in live
  /\ IF EnsureOk(o)
     THEN /\ MakeValue(o, Taken) \/ UNCHANGED data
          /\ UNCHANGED <<live, rep, heap>> /\ Alone
     ELSE Abort("access to the value of an error")

OrValueOr(o) == /\ o \in live /\ ok(o)
                /\ MakeValue(o, Taken)
                /\ UNCHANGED <<live, rep, heap>> /\ Alone

\* Status h = std::move(o).status().
OrTakeStatus(h, o) ==
  /\ h \notin live
  /\ live' = live \union {h}
  /\ IF ok(o) THEN SetWord(h, CodeToInlinedRep(kOk)) /\ UNCHANGED heap
     ELSE MoveInto(h, o)
  /\ UNCHANGED data /\ Alone

\* HZCC_CHECK_OR_ASSIGN of a result o.  The
\* value goes to the variable that is assigned.  On an error the macro logs the
\* address of *o before it returns o.status(), and operator* is fatal on an
\* error: it is never returned.
CheckOrAssign(o) ==
  /\ o \in live
  /\ IF ok(o)
     THEN MakeValue(o, Taken) /\ UNCHANGED <<live, rep, heap>> /\ Alone
     ELSE Abort("passing an error on")

OrDestroy(o) == Destroy(o) /\ Clear(o) /\ Alone

-----------------------------------------------------------------------------

Plain == Handles \ Ors

OnStatus ==
  /\ \/ \E h \in Plain, c \in Codes, m \in Messages : Construct(h, c, m)
     \/ \E h \in Plain, x \in live : CopyConstruct(h, x)
     \/ \E h \in Plain, x \in live \ Ors : MoveConstruct(h, x)
     \/ \E h \in Plain, x \in live : CopyAssign(h, x)
     \/ \E h \in Plain, x \in live \ Ors : MoveAssign(h, x)
     \/ \E h \in Plain, x \in live \ Ors : Update(h, x)
     \/ \E h \in Plain, x \in live \ Ors : Swap(h, x)
     \/ \E h \in Plain : Destroy(h)
  /\ UNCHANGED data /\ Alone

OnStatusOr(o) ==
  \/ \E v \in Values : OrFromValue(o, v)
  \/ OrDefault(o)
  \/ \E x \in live \ Ors : OrFromStatus(o, x)
  \/ \E p \in live \intersect Ors : OrCopyConstruct(o, p)
  \/ \E p \in live \intersect Ors : OrMoveConstruct(o, p)
  \/ \E p \in live \intersect Ors : OrCopyAssign(o, p)
  \/ \E p \in live \intersect Ors : OrMoveAssign(o, p)
  \/ \E v \in Values : OrAssignValue(o, v)
  \/ \E x \in live \ Ors : OrAssignStatus(o, x)
  \/ OrAccess(o)
  \/ OrValueOr(o)
  \/ \E h \in Plain : o \in live /\ OrTakeStatus(h, o)
  \/ CheckOrAssign(o)
  \/ OrDestroy(o)

Next == aborted = "no" /\ (OnStatus \/ \E o \in Ors : OnStatusOr(o))

Spec == Init /\ [][Next]_vars

-----------------------------------------------------------------------------

\* Each variable holds what the code's types allow; a count is never negative,
\* a dead T has no value.
TypeOK ==
  /\ live \subseteq Handles
  /\ rep \in [Handles -> Words(Reps)]
  /\ heap \in [Reps -> StatusRep]
  /\ \A a \in Reps : heap[a].ref >= 0
  /\ data \in [Ors -> {Dead, Taken} \union {Alive(v) : v \in Values}]
  /\ aborted \in {"no", "an OK status for a StatusOr",
                  "access to the value of an error", "passing an error on"}

\* statusor_internal.h says "data_ is active iff status_.ok()==true".  The
\* destructor, assignment and every access rely on it; moves, where the source
\* keeps its status_ or loses it, are where it could break.
DataActive == \A o \in live \intersect Ors : data[o].alive <=> ok(o)

-----------------------------------------------------------------------------
(* What the handles are worth to their users: a value each.                *)

ValueOf(h) ==
  IF h \notin live THEN [there |-> FALSE]
  ELSE [there |-> TRUE, code |-> raw_code(h), message |-> Message(h),
        data |-> IF h \in Ors THEN data[h] ELSE Dead]

Abstract == INSTANCE StatusValue WITH
              val <- [h \in Handles |-> ValueOf(h)],
              Codes <- Codes \union {kUnknown},
              Ts <- {Taken} \union {Alive(v) : v \in Values}, NoT <- Dead

\* What each operation on a status promises of the values.
StatusPromises ==
  UNCHANGED data /\ Alone =>
    /\ \A h \in Plain, c \in Codes, m \in Messages :
          Construct(h, c, m) => Abstract!Make(h, c, m)
    /\ \A h \in Plain, x \in live :
          CopyConstruct(h, x) \/ CopyAssign(h, x) => Abstract!Copy(h, x)
    /\ \A h \in Plain, x \in live \ Ors :
          /\ MoveConstruct(h, x) \/ MoveAssign(h, x) => Abstract!Move(h, x)
          /\ Update(h, x) => Abstract!Copy(h, x) \/ Abstract!Move(h, x)
          /\ Swap(h, x) => Abstract!Swap(h, x)
    /\ \A h \in Plain : Destroy(h) => Abstract!Drop(h)

\* What each operation on a StatusOr promises.
StatusOrPromises(o) ==
  /\ \A v \in Values :
        OrFromValue(o, v) \/ OrAssignValue(o, v) => Abstract!Give(o, Alive(v))
  /\ OrDefault(o) => Abstract!Make(o, kUnknown, "")
  /\ \A x \in live \ Ors :
        EnsureNotOk(x) /\ (OrFromStatus(o, x) \/ OrAssignStatus(o, x))
           => Abstract!Copy(o, x) \/ Abstract!Move(o, x)
  /\ \A p \in live \intersect Ors :
        /\ OrCopyConstruct(o, p) \/ OrCopyAssign(o, p) => Abstract!Copy(o, p)
        /\ OrMoveConstruct(o, p) \/ OrMoveAssign(o, p) => Abstract!Move(o, p)
  /\ OrAccess(o) \/ OrValueOr(o) \/ CheckOrAssign(o)
        => Abstract!Give(o, Taken) \/ Abstract!Others({})
  /\ \A h \in Plain :
        o \in live /\ OrTakeStatus(h, o) => Abstract!Move(h, o)
  /\ OrDestroy(o) => Abstract!Drop(o)

\* Handles are independent values although they share reps (StatusValue): each
\* operation gives the handles it names the values it promises, through every
\* sequence of copies, moves, swaps and destructions, and shows in no other.
ValueSemantics ==
  Abstract!Spec /\ [][StatusPromises /\ \A o \in Ors : StatusOrPromises(o)]_vars
=============================================================================
