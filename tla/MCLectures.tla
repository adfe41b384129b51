----------------------------- MODULE MCLectures -----------------------------
(***************************************************************************)
(* One group, one or two teachers and two handlers at a time.              *)
(***************************************************************************)
EXTENDS LecturesContract, TLC

HandlerSymmetry == Permutations(Worker)
=============================================================================
