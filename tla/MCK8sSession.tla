---------------------------- MODULE MCK8sSession ----------------------------
(* Instances of K8sSession for TLC. *)
EXTENDS K8sSession, TLC

Symmetry == Permutations(Sessions)
=============================================================================
