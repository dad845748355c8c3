----------------------------- MODULE MCExecCall -----------------------------
(* Instances of ExecCall for TLC. *)
EXTENDS ExecCall

\* Around a cap of 2 on both sides, in chunks smaller and larger than it.
SmallSizes == {0, 2, 3, 4}
SmallLimits == {1, 3}
SmallChunks == {1, 3}
=============================================================================
