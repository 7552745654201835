--------------------------- MODULE StructuredFlow ---------------------------
(***************************************************************************)
(* What a C function with structured control flow promises: which          *)
(* operation follows which, and on what outcome of a comparison.  "flow"   *)
(* gives the successors of every point of the source; "at" is the point    *)
(* about to be executed, and "seen" the outcome of the last comparison.    *)
(* While the function is still being compiled nothing is executed.         *)
(***************************************************************************)
EXTENDS FiniteSets, OpHint, SourcePoint

VARIABLES flow, at, seen

vars == <<flow, at, seen>>

IsAlias(p) == p \in DOMAIN flow /\ flow[p].kind = "alias"

\* The first point from p on that does something; Spin if there is none.
Settle(p) ==
    LET hop[k \in 0 .. Cardinality(DOMAIN flow)] ==
          IF k = 0 THEN p
          ELSE LET q == hop[k - 1] IN IF IsAlias(q) THEN flow[q].next ELSE q
        end == hop[Cardinality(DOMAIN flow)]
    IN  IF IsAlias(end) THEN Spin ELSE end

Successor(p, outcome) ==
    CASE flow[p].kind = "act"    -> Settle(flow[p].next)
      [] flow[p].kind = "return" -> Halt
      [] flow[p].kind = "test"   -> Settle(IF Holds(flow[p].rel, outcome)
                                           THEN flow[p].yes ELSE flow[p].no)

Init == at = Building

Compile == at = Building /\ at' = Building

Start == /\ at = Building
         /\ at' = Settle(Root)
         /\ UNCHANGED <<flow, seen>>

\* A point that only acts keeps the last outcome; a test brings a new one.
Proceed == /\ at \in DOMAIN flow
           /\ flow[at].kind # "test"
           /\ at' = Successor(at, seen)
           /\ UNCHANGED <<flow, seen>>

Compare == /\ at \in DOMAIN flow
           /\ flow[at].kind = "test"
           /\ seen' \in Outcome
           /\ at' = Successor(at, seen')
           /\ UNCHANGED flow

Next == Compile \/ Start \/ Proceed \/ Compare

Spec == Init /\ [][Next]_vars

=============================================================================
