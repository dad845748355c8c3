--------------------------- MODULE SessionBackend ---------------------------
(***************************************************************************)
(* What the HTTP layer may rely on when it calls a provider's create and   *)
(* destroy: a create returns only a session whose box came up, a box is    *)
(* used once, and the service takes a box away only when it is over, when  *)
(* its create failed or was given up, or when its destroy was asked for.   *)
(***************************************************************************)
CONSTANT Sessions

VARIABLES
    call,     \* call[s]: the create of s: "none", "open", "returned", "failed"
    asked,    \* sessions whose destroy was asked for
    box,      \* box[s]: the container or pod of s
    cameUp    \* sessions whose box has been up

vars == <<call, asked, box, cameUp>>

Init ==
    /\ call = [s \in Sessions |-> "none"]
    /\ asked = {}
    /\ box = [s \in Sessions |-> "none"]
    /\ cameUp = {}

Start(s) ==
    /\ call[s] = "none"
    /\ call' = [call EXCEPT ![s] = "open"]
    /\ box' = [box EXCEPT ![s] = "starting"]
    /\ UNCHANGED <<asked, cameUp>>

Return(s) ==
    /\ call[s] = "open"
    /\ s \in cameUp
    /\ call' = [call EXCEPT ![s] = "returned"]
    /\ UNCHANGED <<asked, box, cameUp>>

(* One create fails or is given up, or all of them when the process dies.  *)
Fail(S) ==
    /\ \A s \in S : call[s] = "open"
    /\ call' = [s \in Sessions |-> IF s \in S THEN "failed" ELSE call[s]]
    /\ UNCHANGED <<asked, box, cameUp>>

Ask(s) ==
    /\ call[s] = "returned"
    /\ asked' = asked \cup {s}
    /\ UNCHANGED <<call, box, cameUp>>

(* A box comes up even if its create was given up in the meantime.         *)
ComeUp(s) ==
    /\ box[s] = "starting"
    /\ box' = [box EXCEPT ![s] = "up"]
    /\ cameUp' = cameUp \cup {s}
    /\ UNCHANGED <<call, asked>>

(* The box ends by itself: its `sleep` ran out, or it could not start.     *)
End(s) ==
    /\ box[s] \in {"starting", "up"}
    /\ box' = [box EXCEPT ![s] = "over"]
    /\ UNCHANGED <<call, asked, cameUp>>

(* The service removes every box in S with one request.                    *)
Remove(S) ==
    /\ \A s \in S :
          \/ box[s] = "over"
          \/ box[s] \in {"starting", "up"} /\ (call[s] = "failed" \/ s \in asked)
    /\ box' = [s \in Sessions |-> IF s \in S THEN "removed" ELSE box[s]]
    /\ UNCHANGED <<call, asked, cameUp>>

Next ==
    \/ \E S \in SUBSET Sessions : Fail(S) \/ Remove(S)
    \/ \E s \in Sessions : Start(s) \/ Return(s) \/ Ask(s) \/ ComeUp(s) \/ End(s)

Spec == Init /\ [][Next]_vars
=============================================================================
