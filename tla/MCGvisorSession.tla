-------------------------- MODULE MCGvisorSession --------------------------
(* Instances of GvisorSession for TLC: no symmetry, the run is about       *)
(* liveness.                                                               *)
EXTENDS GvisorSession
=============================================================================
