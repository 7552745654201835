-------------------------- MODULE CompilationUnit --------------------------
(***************************************************************************)
(* The unit that is compiled (ast/CompilationUnit.cc) with its symbol      *)
(* tables (ast/SymbTbl.cc): the scope that is open, and the struct types   *)
(* each table has.  A table is known by its name.  Variables and functions *)
(* are never entered at this commit: addDecl is not reached.  _named_types *)
(* of the unit itself stays empty, as types are added to a table whenever  *)
(* one is open.                                                            *)
(***************************************************************************)
EXTENDS SequencesExt

VARIABLES scope,    \* the open table and those above it, the outermost first
          structs   \* the struct types of each table

unitVars == <<scope, structs>>

ROOT == "ROOT"

UnitInit == /\ scope = <<ROOT>>
            /\ structs = [t \in {ROOT} |-> {}]

-----------------------------------------------------------------------------

\* Only the root table has no return type.
at_root == Last(scope) = ROOT

\* For the name of a struct.  In a table, or in one above it.
has_type(name) == \E i \in DOMAIN scope : name \in structs[scope[i]]

\* It ends the program when the name is taken or qualifiers are left over for it.
CanAddStruct(name, attr_list) == ~has_type(name) /\ attr_list = <<>>

add_struct_type(name) ==
  /\ structs' = [structs EXCEPT ![Last(scope)] = @ \union {name}]
  /\ UNCHANGED scope

\* A table of that name, of an earlier function, is replaced.
create_func(name) ==
  /\ scope' = Append(scope, name)
  /\ structs' = [t \in DOMAIN structs \union {name} |-> IF t = name THEN {} ELSE structs[t]]

\* Fault: the scope of a function is left open.
leave_scope_late == UNCHANGED <<scope, structs>>

\* Fault: the scope above the function is left as well.
leave_scope_twice == scope' = Front(Front(scope)) /\ UNCHANGED structs

leave_scope == scope' = Front(scope) /\ UNCHANGED structs

\* An unnamed scope is looked up, as if it had the name "", and never there:
\* the program ends.
enter_scope_finds == "" \in DOMAIN structs
=============================================================================
