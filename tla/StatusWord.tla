----------------------------- MODULE StatusWord -----------------------------
(***************************************************************************)
(* The one word an hzcc::Status consists of (utils/status/status.h).  Its  *)
(* low bit tells an inlined code, shifted left by two, from the address of *)
(* a counted StatusRep plus one; bit 1 of an inlined word marks a status   *)
(* that was moved from.                                                    *)
(***************************************************************************)
EXTENDS Integers

\* The enumeration StatusCode, and the enumerators the code compares with.
StatusCode == 0 .. 16
kOk == 0
kUnknown == 2
kInternal == 13

CodeToInlinedRep(code) == code * 4
InlinedRepToCode(word) == word \div 4
MovedFromRep == CodeToInlinedRep(kInternal) + 2
PointerToRep(address) == address + 1
RepToPointer(word) == word - 1
IsInlined(word) == word % 2 = 0
IsMovedFrom(word) == IsInlined(word) /\ (word \div 2) % 2 = 1

\* Where an allocator may put a StatusRep.
Aligned(address) == address \in Nat /\ address > 0 /\ address % 8 = 0

\* The words a status may hold when reps are at the addresses given.
Words(addresses) == {CodeToInlinedRep(c) : c \in StatusCode}
                      \union {MovedFromRep} \union {PointerToRep(a) : a \in addresses}
=============================================================================
