---------------------------- MODULE FileContract ----------------------------
(***************************************************************************)
(* What write_file promises of the file at one path, with the coroutine,   *)
(* the upload, the script and the inodes taken away.  A text write lands   *)
(* whole, in one step, once, or never; it may land after its caller was    *)
(* told of a failure, but never after it failed.  A binary write may show  *)
(* part of itself before it lands, and remove the file when it fails.      *)
(*                                                                         *)
(* The caller is answered once.  A success that rests on an exit code is   *)
(* of a write that landed; a success that rests on a stream that closed    *)
(* without one ("assumed", the same 200 to the client) says nothing of the *)
(* write, and neither does an error.                                       *)
(*                                                                         *)
(* FileWrite implements this module (FileWriteProofs).                     *)
(***************************************************************************)
CONSTANT Writes   \* calls of write_file

VARIABLES
    file,       \* what a reader sees: a write, "absent", "old", "part", "mixed"
    encoding,   \* encoding[w]: "utf-8", "base64"
    stage,      \* stage[w]: "idle", "pending", "landed", "failed"
    answer      \* answer[w]: "none", "ok", "assumed", "failed"

vars == <<file, encoding, stage, answer>>

Init ==
    /\ file \in {"old", "absent"}
    /\ encoding = [w \in Writes |-> "utf-8"]
    /\ stage = [w \in Writes |-> "idle"]
    /\ answer = [w \in Writes |-> "none"]

Goes(w, from, to) == stage[w] = from /\ stage' = [stage EXCEPT ![w] = to]

Call(w, enc) ==
    /\ Goes(w, "idle", "pending")
    /\ encoding' = [encoding EXCEPT ![w] = enc]
    /\ UNCHANGED <<file, answer>>

(* A binary write may find the file it wrote to renamed away or shared.    *)
Land(w) ==
    /\ Goes(w, "pending", "landed")
    /\ file' \in {w} \cup IF encoding[w] = "base64" THEN {file, "mixed"} ELSE {}
    /\ UNCHANGED <<encoding, answer>>

Fail(w) ==
    /\ Goes(w, "pending", "failed")
    /\ file' \in {file} \cup IF encoding[w] = "base64" THEN {"absent"} ELSE {}
    /\ UNCHANGED <<encoding, answer>>

ShowPart(w) ==
    /\ stage[w] = "pending" /\ encoding[w] = "base64"
    /\ file' = "part"
    /\ UNCHANGED <<encoding, stage, answer>>

Tell(w, what) ==
    /\ stage[w] # "idle" /\ answer[w] = "none"
    /\ answer' = [answer EXCEPT ![w] = what]
    /\ UNCHANGED <<file, encoding, stage>>

Acknowledge(w) == stage[w] = "landed" /\ Tell(w, "ok")
Assume(w) == Tell(w, "assumed")
Refuse(w) == Tell(w, "failed")

Next ==
    \E w \in Writes :
        \/ \E enc \in {"utf-8", "base64"} : Call(w, enc)
        \/ Land(w) \/ Fail(w) \/ ShowPart(w)
        \/ Acknowledge(w) \/ Assume(w) \/ Refuse(w)

Spec == Init /\ [][Next]_vars
=============================================================================
