----------------------------- MODULE MCLearning -----------------------------
(***************************************************************************)
(* A course of two blocks, whose last lesson has no homework, or of one.   *)
(***************************************************************************)
EXTENDS Learning

TwoBlocks == <<2, 1>>
OneBlock == <<2>>
LastLesson == {<<2, 1>>}
=============================================================================
