----------------------------- MODULE SourcePoint -----------------------------
(***************************************************************************)
(* Points of the execution of a C function.  A point is a node of the      *)
(* syntax tree with the path to the part of it that is executed there: the *)
(* statement itself, its condition, an operand of the condition, or the    *)
(* initialiser or step of a for loop.                                      *)
(***************************************************************************)
EXTENDS Naturals, Sequences

Building == <<0, <<"building">>>>
Halt     == <<0, <<"halt">>>>
Spin     == <<0, <<"spin">>>>
Crash    == <<0, <<"crash">>>>
NoPoint  == <<0, <<"none">>>>

Root      == <<1, <<>>>>
StartOf(n) == <<n, <<>>>>
CondOf(n)  == <<n, <<"cond">>>>
InitOf(n)  == <<n, <<"init">>>>
StepOf(n)  == <<n, <<"step">>>>

Operand(point, side) == <<point[1], Append(point[2], side)>>

\* The four kinds of point.  An alias does nothing: a statement that only
\* transfers control, or the start of one that begins with a condition.
Alias(next)        == [kind |-> "alias", next |-> next]
Act(next)          == [kind |-> "act", next |-> next]
Test(rel, yes, no) == [kind |-> "test", rel |-> rel, yes |-> yes, no |-> no]
Return             == [kind |-> "return"]

=============================================================================
