------------------------------ MODULE MCRunCli ------------------------------
(* Instances of RunCli for TLC. *)
EXTENDS RunCli

\* No stdin, one that fits into the pipe, and one that does not.
SmallPayload == {0, 1, 3}
=============================================================================
