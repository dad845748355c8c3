---------------------------- MODULE MCFileWrite ----------------------------
(* Instances of FileWrite for TLC. *)
EXTENDS FileWrite, TLC

\* Calls are interchangeable; they are told apart by what they do.
Symmetry == Permutations(Writes)
=============================================================================
