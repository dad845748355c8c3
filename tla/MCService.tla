----------------------------- MODULE MCService -----------------------------
(* Instances of Service for TLC. *)
EXTENDS Service

C(p, t, rc, none) == [provider |-> p, token |-> t, runtimeClass |-> rc, allowNone |-> none]

\* A backend of each kind, one of none, and k8s with and without gVisor.
SmallConfigs == {C("gvisor", TRUE, FALSE, FALSE), C("k8s", FALSE, TRUE, FALSE),
                 C("k8s", TRUE, FALSE, FALSE), C("k8s", TRUE, FALSE, TRUE),
                 C("other", TRUE, FALSE, FALSE)}

\* No body, one at the limit of 2, one beyond it.
SmallLengths == {0, 2, 3}

\* Below the floors, between them and the ceilings, above; 0 tenths of a
\* cpu is a ceiling below its floor.
SmallMemories == {-1, 64, 66}
SmallCpus == {0, 2}
=============================================================================
