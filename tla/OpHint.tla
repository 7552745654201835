------------------------------- MODULE OpHint -------------------------------
(***************************************************************************)
(* How a relational operator becomes a JVM branch (codegen/jvm).  The      *)
(* visitor of a relational expression leaves its two operands on the       *)
(* operand stack, or the result of fcmp/dcmp for floating-point operands,  *)
(* and a hint; the statement around it looks the branch mnemonic up by     *)
(* that hint in one of two tables.  A mnemonic is modelled by the relation *)
(* between the operands on which it jumps.  Two entries of the tables lack *)
(* the blank that separates mnemonic and label ("ifle" and "ifgt"): the    *)
(* label is glued to the mnemonic, which no assembler accepts.             *)
(***************************************************************************)

Relation == {"lt", "eq", "ne", "gt", "le", "ge"}

Outcome == {"less", "equal", "greater"}

\* The outcomes of comparing two operands for which a relation holds.
HoldsOn == [lt |-> {"less"},            gt |-> {"greater"},
            eq |-> {"equal"},           ne |-> {"less", "greater"},
            le |-> {"less", "equal"},   ge |-> {"greater", "equal"}]

Holds(rel, outcome) == outcome \in HoldsOn[rel]

Hint == {"Less", "Equal", "NEqual", "Greater", "LessEqual", "GreaterEqual",
         "Logical_Less", "Logical_Equal", "Logical_NEqual", "Logical_Greater",
         "Logical_LessEqual", "Logical_GreaterEqual", "None"}

IntHint == [lt |-> "Less", eq |-> "Equal", ne |-> "NEqual",
            gt |-> "Greater", le |-> "LessEqual", ge |-> "GreaterEqual"]

\* The switch of the relational visitor for float and double operands.
FloatHint == [lt |-> "Logical_GreaterEqual", eq |-> "Logical_NEqual",
              ne |-> "Logical_Equal",        gt |-> "Logical_LessEqual",
              le |-> "Logical_Greater",      ge |-> "Logical_Less"]

\* An operand of a condition: a relation over ints or floats, or a plain
\* value, which holds when it is not zero and sets no hint.
HintOf(atom) == CASE atom.operands = "int"   -> IntHint[atom.rel]
                  [] atom.operands = "float" -> FloatHint[atom.rel]
                  [] atom.operands = "value" -> "None"

Glued == "glued"

\* kOpHintStrings of the do and logical visitors.
JumpIf == [Less |-> "lt", Equal |-> "eq", NEqual |-> "ne",
           Greater |-> "gt", LessEqual |-> "le", GreaterEqual |-> "ge",
           Logical_Less |-> "lt", Logical_Equal |-> "eq",
           Logical_NEqual |-> "ne", Logical_Greater |-> "gt",
           Logical_LessEqual |-> Glued, Logical_GreaterEqual |-> "ge",
           None |-> "ne"]

\* kOpHintReversedStrings of the if, while, for and logical visitors.
JumpUnless == [Less |-> "ge", Equal |-> "ne", NEqual |-> "eq",
               Greater |-> "le", LessEqual |-> "gt", GreaterEqual |-> "lt",
               Logical_Less |-> "ge", Logical_Equal |-> "ne",
               Logical_NEqual |-> "eq", Logical_Greater |-> "le",
               Logical_LessEqual |-> Glued, Logical_GreaterEqual |-> "lt",
               None |-> "eq"]

=============================================================================
