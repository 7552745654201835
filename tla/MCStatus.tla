------------------------------ MODULE MCStatus ------------------------------
(***************************************************************************)
(* StatusOr with two statuses and two results over two reps.               *)
(***************************************************************************)
EXTENDS StatusOr, TLC

MCReps == {8, 16}
MCCodes == {kOk, 9, kInternal}
MCMessages == {"", "m"}

\* Neither statuses nor results are told apart from their like.
Alike == Permutations(Plain) \union Permutations(Ors)
=============================================================================
