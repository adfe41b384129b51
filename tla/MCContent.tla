------------------------------ MODULE MCContent ------------------------------
(* An instance of Content for TLC. *)
EXTENDS Content, TLC

\* Nothing tells blocks, lessons or workers apart, and no liveness is checked.
Symmetry == Permutations(Block) \cup Permutations(Lesson) \cup Permutations(Worker)
=============================================================================
