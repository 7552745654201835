---------------------------- MODULE StackManager ----------------------------
(***************************************************************************)
(* Hzcc::Codegen::JVM::StackManager: where the variables of the function   *)
(* being generated live, and the instructions that read and write them.    *)
(***************************************************************************)
EXTENDS OperandMachine

CONSTANT GlobalVars    \* the global variables, with their types

VARIABLE localVars     \* _local_vars: name to slot and type

IsLocalVar(name)  == name \in DOMAIN localVars
IsGlobalVar(name) == name \in DOMAIN GlobalVars
GetStackID(name)  == localVars[name].slot

GetVarType(name) == IF IsLocalVar(name) THEN localVars[name].type
                                        ELSE GlobalVars[name]

\* A local variable hides a global one.  Saving to an array stores to an
\* element of it.
SaveToVariable(name) ==
    CASE ~IsLocalVar(name) /\ ~IsGlobalVar(name) -> Abort
      [] (IsLocalVar(name) \/ IsGlobalVar(name)) /\ IsArray(GetVarType(name)) ->
            ArrayStore(ElementOf(GetVarType(name)))
      [] IsLocalVar(name) /\ ~IsArray(GetVarType(name)) ->
            StoreSlot(Wide(GetVarType(name)), GetStackID(name))
      [] ~IsLocalVar(name) /\ IsGlobalVar(name) /\ ~IsArray(GetVarType(name)) ->
            PutStatic(name)

\* Loading a local array gives an array load with an operand, which the
\* assembler refuses.
LoadFromVariable(name) ==
    CASE IsLocalVar(name) /\ IsArray(GetVarType(name)) -> Malformed
      [] IsLocalVar(name) /\ ~IsArray(GetVarType(name)) ->
            LoadSlot(Wide(GetVarType(name)), GetStackID(name))
      [] ~IsLocalVar(name) /\ IsGlobalVar(name) -> GetStatic(name)
      [] ~IsLocalVar(name) /\ ~IsGlobalVar(name) -> Abort

\* Fault: the first two variables share a slot.
TableOfLate(list) ==
    [name \in {list[i].name : i \in DOMAIN list} |->
        LET i == CHOOSE k \in DOMAIN list : list[k].name = name
        IN  [slot |-> IF i = 1 THEN 0 ELSE i - 2, type |-> list[i].type]]

\* The table of the function, from the list of its local variables: those of
\* the list in order, from slot 0 on.
TableOf(list) ==
    [name \in {list[i].name : i \in DOMAIN list} |->
        LET i == CHOOSE k \in DOMAIN list : list[k].name = name
        IN  [slot |-> i - 1, type |-> list[i].type]]

=============================================================================
