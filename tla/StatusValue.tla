----------------------------- MODULE StatusValue -----------------------------
(***************************************************************************)
(* What users of Status and StatusOr rely on: each object is a value of    *)
(* its own, a code and a message and, for a StatusOr that is a success, a  *)
(* T.  An operation names the objects it may change and says what they are *)
(* worth after it; all others stay as they are.  Only the source of a move *)
(* is "valid but unspecified" (status.h:475), though an error it held does *)
(* not turn into success.  Nothing here is shared or counted.              *)
(***************************************************************************)
CONSTANTS Handles, Ors,      \* the objects, and those that are a StatusOr
          Codes, Messages,   \* what errors are made from
          Ts, NoT            \* the values of a T, and that there is none
VARIABLE val

Gone == [there |-> FALSE]
There(h) == val[h].there

Worth(code, message, t) ==
  [there |-> TRUE, code |-> code, message |-> message, data |-> t]

\* Success is code 0 for a plain status and for a StatusOr.
IsError(v) == v.code # 0

Others(hs) == \A h \in Handles \ hs : val'[h] = val[h]

\* A new status with a code and a message, of which a success has none.
Make(h, code, message) ==
  /\ ~There(h)
  /\ val'[h] = Worth(code, IF code = 0 THEN "" ELSE message, NoT)
  /\ Others({h})

\* A StatusOr, new or not, is given a T: it is a success after it.
Give(h, t) == val'[h] = Worth(0, "", t) /\ Others({h})

Drop(h) == There(h) /\ val'[h] = Gone /\ Others({h})

\* What h is worth as a copy of x: the T goes along if both may have one.
SameAs(h, x) == Worth(val[x].code, val[x].message,
                      IF {h, x} \subseteq Ors THEN val[x].data ELSE NoT)

\* The value of x, or the status of x, becomes that of h, new or not.
Copy(h, x) == There(x) /\ val'[h] = SameAs(h, x) /\ Others({h})

\* A StatusOr that was a success stays one when it is moved from.
Move(h, x) == /\ There(x) /\ val'[x].there
              /\ val'[h] = SameAs(h, x)
              /\ IsError(val[x]) => IsError(val'[x])
              /\ x \in Ors /\ ~IsError(val[x]) => ~IsError(val'[x])
              /\ Others({h, x})

Swap(h, x) == /\ There(h) /\ There(x)
              /\ val'[h] = val[x] /\ val'[x] = val[h]
              /\ Others({h, x})

Init == \A h \in Handles : val[h] = Gone

Next == \E h \in Handles :
          \/ \E code \in Codes, message \in Messages : Make(h, code, message)
          \/ \E t \in Ts : Give(h, t)
          \/ \E x \in Handles : Copy(h, x) \/ Move(h, x) \/ Swap(h, x)
          \/ Drop(h)

Spec == Init /\ [][Next]_val
=============================================================================
