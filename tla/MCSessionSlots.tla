--------------------------- MODULE MCSessionSlots ---------------------------
(* Instances of SessionSlots for TLC. *)
EXTENDS SessionSlots, TLC

\* Replicas and sessions are interchangeable: nothing orders them.
Symmetry == Permutations(Replicas) \cup Permutations(Sessions)
=============================================================================
