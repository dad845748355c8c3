------------------------------ MODULE SlotPool ------------------------------
(***************************************************************************)
(* What the session cap promises, with the bookkeeping taken away: each    *)
(* replica holds a set of slots, a slot is taken only while the replica    *)
(* holds fewer than Limit of them, and a slot may be given up at any time. *)
(* SessionSlots implements this module.                                    *)
(***************************************************************************)
EXTENDS Integers, FiniteSets

CONSTANTS
    Replicas,   \* the replicas of the service, each with a pool of its own
    Sessions,   \* the sessions ever asked for
    Limit       \* slots per replica; no cap when it is not positive

VARIABLE held   \* held[q]: the sessions that hold a slot of replica q

Init == held = [q \in Replicas |-> {}]

(* A session no replica holds takes a slot of q, possibly after q gave up  *)
(* the slots in stale.                                                     *)
Acquire(q, s, stale) ==
    /\ \A r \in Replicas : s \notin held[r]
    /\ Limit <= 0 \/ Cardinality(held[q] \ stale) < Limit
    /\ held' = [held EXCEPT ![q] = (held[q] \ stale) \cup {s}]

GiveUp(q, stale) == held' = [held EXCEPT ![q] = held[q] \ stale]

Next ==
    \E q \in Replicas, stale \in SUBSET Sessions :
        \/ GiveUp(q, stale)
        \/ \E s \in Sessions : Acquire(q, s, stale)

Spec == Init /\ [][Next]_held
=============================================================================
