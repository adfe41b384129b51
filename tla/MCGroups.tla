------------------------------ MODULE MCGroups ------------------------------
(***************************************************************************)
(* Groups of two students.                                                 *)
(***************************************************************************)
EXTENDS GroupsContract, TLC

HandlerSymmetry == Permutations(Worker)
=============================================================================
