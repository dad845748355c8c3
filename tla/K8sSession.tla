----------------------------- MODULE K8sSession -----------------------------
(***************************************************************************)
(* Sessions as pods: create, _wait_ready, destroy and _reap_loop of        *)
(* providers/k8s.py, with the apiserver and the kubelet around them.       *)
(*                                                                         *)
(* A request to the apiserver is sent, takes effect and is answered in     *)
(* three steps; the answer may never come (timeout, connection error,      *)
(* cancellation) although the request still takes effect.  Control         *)
(* requests share _ctl_sem.  Clocks are abstracted: _wait_ready may give   *)
(* up at any poll, a pod that was scheduled ends at some time.             *)
(***************************************************************************)
EXTENDS Integers, FiniteSets

CONSTANTS
    Sessions,   \* calls of create; each draws a session id of its own
    LaneSize    \* permits of _ctl_sem (8)

ASSUME SessionsAreFinite == IsFiniteSet(Sessions)
ASSUME LaneIsUsable == LaneSize \in Nat \ {0}

VARIABLES
    call,      \* call[s]: where the coroutine of create(s) stands
    ask,       \* ask[s]: where the coroutine of a client's destroy(s) stands
    free,      \* permits of _ctl_sem not taken
    posts,     \* POSTs on their way to the apiserver
    deletes,   \* DELETEs of one pod on their way to the apiserver
    pod,       \* pod[s]: the pod of s
    reaper,    \* the reaper task: "sleeping" or "asking" (DELETE in flight)
    cameUp,    \* history: pods that were Ready once
    excused    \* history: creates whose POST or clean-up went unanswered or
               \* was refused, so that a pod may be left behind

callVars == <<call, ask, free>>
wireVars == <<posts, deletes>>
history == <<cameUp, excused>>
vars == <<callVars, wireVars, pod, reaper, history>>

CallStates == {"idle", "queued", "posting", "polling", "sawReady",
               "cleanupQueued", "cleaning", "returned", "raised", "cancelled", "lost"}
AskStates == {"none", "queued", "deleting", "done"}
PodStates == {"absent", "unscheduled", "scheduled", "stuck", "ready", "finished", "deleted"}

(* Types; no path out of create or destroy gives a permit of _ctl_sem back *)
(* twice or without having taken it.                                       *)
TypeOK ==
    /\ call \in [Sessions -> CallStates]
    /\ ask \in [Sessions -> AskStates]
    /\ free \in 0..LaneSize
    /\ posts \in SUBSET Sessions
    /\ deletes \in SUBSET Sessions
    /\ pod \in [Sessions -> PodStates]
    /\ reaper \in {"sleeping", "asking"}
    /\ cameUp \in SUBSET Sessions
    /\ excused \in SUBSET Sessions

Init ==
    /\ call = [s \in Sessions |-> "idle"]
    /\ ask = [s \in Sessions |-> "none"]
    /\ free = LaneSize
    /\ posts = {}
    /\ deletes = {}
    /\ pod = [s \in Sessions |-> "absent"]
    /\ reaper = "sleeping"
    /\ cameUp = {}
    /\ excused = {}

TakePermit == free > 0 /\ free' = free - 1
GivePermit == free' = free + 1

CallGoes(s, from, to) == call[s] = from /\ call' = [call EXCEPT ![s] = to]
AskGoes(s, from, to) == ask[s] = from /\ ask' = [ask EXCEPT ![s] = to]

(* status.phase of a pod that exists: what field selectors look at.        *)
Phase(s) ==
    CASE pod[s] \in {"unscheduled", "scheduled", "stuck"} -> "Pending"
      [] pod[s] = "ready" -> "Running"
      [] OTHER -> "Finished"

Existing == {s \in Sessions : pod[s] \notin {"absent", "deleted"}}

-----------------------------------------------------------------------------
(* create: POST the pod under _ctl_sem                                     *)

StartCreate(s) ==
    /\ CallGoes(s, "idle", "queued")
    /\ UNCHANGED <<ask, free, wireVars, pod, reaper, history>>

SendPost(s) ==
    /\ CallGoes(s, "queued", "posting")
    /\ TakePermit
    /\ posts' = posts \cup {s}
    /\ UNCHANGED <<ask, deletes, pod, reaper, history>>

(* Mutant: the permit is kept while _wait_ready polls.                     *)
PostAnsweredInLane(s) ==
    /\ CallGoes(s, "posting", "polling")
    /\ pod[s] # "absent"
    /\ UNCHANGED <<ask, free, wireVars, pod, reaper, history>>

PostAnswered(s) ==
    /\ CallGoes(s, "posting", "polling")
    /\ pod[s] # "absent"
    /\ GivePermit
    /\ UNCHANGED <<ask, wireVars, pod, reaper, history>>

(* status >= 400, and nothing was created.                                 *)
PostRefused(s) ==
    /\ CallGoes(s, "posting", "raised")
    /\ s \in posts
    /\ posts' = posts \ {s}
    /\ GivePermit
    /\ UNCHANGED <<ask, deletes, pod, reaper, history>>

(* The request raised, or was answered with a 5xx after its effect, which  *)
(* create makes the same of.  It is outside the try block: no clean-up,    *)
(* although the POST may have taken effect or may do so later.             *)
PostRaises(s) ==
    /\ CallGoes(s, "posting", "raised")
    /\ GivePermit
    /\ excused' = excused \cup {s}
    /\ UNCHANGED <<ask, wireVars, pod, reaper, cameUp>>

(* _wait_ready *)

(* Mutant: a pod is taken for ready as soon as it is scheduled.            *)
PollScheduled(s) ==
    /\ CallGoes(s, "polling", "sawReady")
    /\ pod[s] \in {"scheduled", "ready"}
    /\ UNCHANGED <<ask, free, wireVars, pod, reaper, history>>

PollReady(s) ==
    /\ CallGoes(s, "polling", "sawReady")
    /\ pod[s] = "ready"
    /\ UNCHANGED <<ask, free, wireVars, pod, reaper, history>>

(* The pod may be over when the answer that it was Ready gets here.        *)
CreateReturns(s) ==
    /\ CallGoes(s, "sawReady", "returned")
    /\ UNCHANGED <<ask, free, wireVars, pod, reaper, history>>

(* The deadline passed, the pod is Failed or Succeeded, or it waits for a  *)
(* reason that never clears: SandboxError.                                 *)
PollGivesUp(s) ==
    /\ CallGoes(s, "polling", "cleanupQueued")
    /\ UNCHANGED <<ask, free, wireVars, pod, reaper, history>>

(* Mutant: `except SandboxError`, which an HTTP client error is not.       *)
PollRaisesUncaught(s) ==
    /\ CallGoes(s, "polling", "raised")
    /\ UNCHANGED <<ask, free, wireVars, pod, reaper, history>>

(* A GET raised (timeout, connection): caught by the same except clause.   *)
PollRaises(s) ==
    /\ CallGoes(s, "polling", "cleanupQueued")
    /\ UNCHANGED <<ask, free, wireVars, pod, reaper, history>>

(* The except clause awaits destroy before it raises.                      *)
SendCleanup(s) ==
    /\ CallGoes(s, "cleanupQueued", "cleaning")
    /\ TakePermit
    /\ deletes' = deletes \cup {s}
    /\ UNCHANGED <<ask, posts, pod, reaper, history>>

CleanupAnswered(s) ==
    /\ CallGoes(s, "cleaning", "raised")
    /\ s \notin deletes
    /\ GivePermit
    /\ UNCHANGED <<ask, wireVars, pod, reaper, history>>

(* Refused (only logged) or raised, the DELETE being lost or not.          *)
CleanupFails(s) ==
    /\ CallGoes(s, "cleaning", "raised")
    /\ deletes' \in {deletes, deletes \ {s}}
    /\ GivePermit
    /\ excused' = excused \cup {s}
    /\ UNCHANGED <<ask, posts, pod, reaper, cameUp>>

Awaiting == {"queued", "posting", "polling", "sawReady", "cleanupQueued", "cleaning"}

(* Mutant: the permit is released in a `finally` around all of create.     *)
CancelReleases(s) ==
    /\ call[s] \in Awaiting
    /\ call' = [call EXCEPT ![s] = "cancelled"]
    /\ GivePermit
    /\ UNCHANGED <<ask, wireVars, pod, reaper, history>>

(* CancelledError, which `except Exception` does not catch.                *)
CancelCreate(s) ==
    /\ call[s] \in Awaiting
    /\ call' = [call EXCEPT ![s] = "cancelled"]
    /\ IF call[s] \in {"posting", "cleaning"} THEN GivePermit ELSE UNCHANGED free
    /\ UNCHANGED <<ask, wireVars, pod, reaper, history>>

-----------------------------------------------------------------------------
(* destroy, called by DELETE /sessions/{sid}                               *)

StartDestroy(s) ==
    /\ call[s] = "returned"
    /\ ask[s] \in {"none", "done"}
    /\ ask' = [ask EXCEPT ![s] = "queued"]
    /\ UNCHANGED <<call, free, wireVars, pod, reaper, history>>

SendDelete(s) ==
    /\ AskGoes(s, "queued", "deleting")
    /\ TakePermit
    /\ deletes' = deletes \cup {s}
    /\ UNCHANGED <<call, posts, pod, reaper, history>>

(* Answered, refused, raised or cancelled: the caller learns nothing.      *)
DestroyEnds(s) ==
    /\ AskGoes(s, "deleting", "done")
    /\ deletes' \in {deletes, deletes \ {s}}
    /\ GivePermit
    /\ UNCHANGED <<call, posts, pod, reaper, history>>

-----------------------------------------------------------------------------
(* _reap_loop                                                              *)

ReapWakes ==
    /\ reaper = "sleeping"
    /\ reaper' = "asking"
    /\ UNCHANGED <<callVars, wireVars, pod, history>>

(* Mutant: the field selector without status.phase!=Pending.               *)
ReapedOrPending == {s \in Existing : Phase(s) # "Running"}

(* status.phase!=Running,status.phase!=Pending                             *)
Reaped == {s \in Existing : Phase(s) \notin {"Running", "Pending"}}

ReapLands ==
    /\ reaper = "asking"
    /\ pod' = [s \in Sessions |-> IF s \in Reaped THEN "deleted" ELSE pod[s]]
    /\ reaper' = "sleeping"
    /\ UNCHANGED <<callVars, wireVars, history>>

(* Mutant: an exception ends the task.                                     *)
ReaperDies ==
    /\ reaper = "asking"
    /\ reaper' = "dead"
    /\ UNCHANGED <<callVars, wireVars, pod, history>>

(* Refused or raised: logged, and the loop goes on.                        *)
ReapFails ==
    /\ reaper = "asking"
    /\ reaper' = "sleeping"
    /\ UNCHANGED <<callVars, wireVars, pod, history>>

(* The process dies: its coroutines, its semaphore and its reaper with it. *)
Restart ==
    /\ call' = [s \in Sessions |->
            IF call[s] \in {"idle", "returned", "raised", "cancelled"} THEN call[s] ELSE "lost"]
    /\ ask' = [s \in Sessions |-> IF ask[s] \in {"queued", "deleting"} THEN "done" ELSE ask[s]]
    /\ free' = LaneSize
    /\ reaper' = "sleeping"
    /\ UNCHANGED <<wireVars, pod, history>>

-----------------------------------------------------------------------------
(* The apiserver and the kubelet                                           *)

ApiCreates(s) ==
    /\ s \in posts
    /\ posts' = posts \ {s}
    /\ pod' = [pod EXCEPT ![s] = "unscheduled"]
    /\ UNCHANGED <<callVars, deletes, reaper, history>>

ApiDeletes(s) ==
    /\ s \in deletes
    /\ deletes' = deletes \ {s}
    /\ pod' = [pod EXCEPT ![s] = "deleted"]
    /\ UNCHANGED <<callVars, posts, reaper, history>>

(* A POST nobody waits for any longer never arrives.                       *)
PostLost(s) ==
    /\ s \in posts
    /\ call[s] # "posting"
    /\ posts' = posts \ {s}
    /\ UNCHANGED <<callVars, deletes, pod, reaper, history>>

PodGoes(s, from, to) ==
    /\ pod[s] \in from
    /\ pod' = [pod EXCEPT ![s] = to]
    /\ UNCHANGED <<callVars, wireVars, reaper, excused>>

Schedule(s) == PodGoes(s, {"unscheduled"}, "scheduled") /\ UNCHANGED cameUp
GetStuck(s) == PodGoes(s, {"scheduled"}, "stuck") /\ UNCHANGED cameUp
GetReady(s) == PodGoes(s, {"scheduled", "stuck"}, "ready") /\ cameUp' = cameUp \cup {s}

(* `sleep` returned, the container failed, or activeDeadlineSeconds, which *)
(* counts from the moment a node took the pod, has passed.                 *)
Finish(s) == PodGoes(s, {"scheduled", "stuck", "ready"}, "finished") /\ UNCHANGED cameUp

-----------------------------------------------------------------------------
PostEnds(s) == PostAnswered(s) \/ PostRefused(s) \/ PostRaises(s)
PollEnds(s) == PollReady(s) \/ CreateReturns(s) \/ PollGivesUp(s) \/ PollRaises(s)
CleanupEnds(s) == CleanupAnswered(s) \/ CleanupFails(s)

Create(s) ==
    StartCreate(s) \/ SendPost(s) \/ PostEnds(s) \/ PollEnds(s)
    \/ SendCleanup(s) \/ CleanupEnds(s) \/ CancelCreate(s)

Destroy(s) == StartDestroy(s) \/ SendDelete(s) \/ DestroyEnds(s)

Cluster(s) ==
    ApiCreates(s) \/ ApiDeletes(s) \/ PostLost(s)
    \/ Schedule(s) \/ GetStuck(s) \/ GetReady(s) \/ Finish(s)

Next ==
    \/ \E s \in Sessions : Create(s) \/ Destroy(s) \/ Cluster(s)
    \/ ReapWakes \/ ReapLands \/ ReapFails \/ Restart

Spec == Init /\ [][Next]_vars

(* Every request and the poll loop have timeouts; the semaphore serves its *)
(* waiters in order.                                                       *)
CallFairness ==
    \A s \in Sessions :
        /\ SF_vars(SendPost(s)) /\ SF_vars(SendCleanup(s)) /\ SF_vars(SendDelete(s))
        /\ WF_vars(PostEnds(s)) /\ WF_vars(PollEnds(s))
        /\ WF_vars(CleanupEnds(s)) /\ WF_vars(DestroyEnds(s))

(* The reaper keeps asking and is not refused for ever; a pod on a node    *)
(* ends.  Nothing makes a pod that no node takes move.                     *)
SweepFairness ==
    /\ WF_vars(ReapWakes)
    /\ SF_vars(ReapLands)
    /\ \A s \in Sessions : WF_vars(Finish(s))

FairSpec == Spec /\ CallFairness /\ SweepFairness

-----------------------------------------------------------------------------
(* A create that raised left no pod running, unless its POST or its        *)
(* clean-up got no proper answer.                                          *)
RaisedLeavesNoPod ==
    \A s \in Sessions :
        call[s] = "raised" /\ s \notin excused =>
            s \notin posts /\ pod[s] \in {"absent", "finished", "deleted"}

(* The provider keeps the promises of SessionBackend: in particular neither*)
(* the reaper nor a clean-up ever deletes the pod of a session that is     *)
(* being created or in use.                                                *)
CallSeen(c) ==
    CASE c = "idle" -> "none"
      [] c \in {"queued", "posting", "polling", "sawReady"} -> "open"
      [] c = "returned" -> "returned"
      [] OTHER -> "failed"

BoxSeen(c, p) ==
    CASE c = "idle" -> "none"
      [] p = "ready" -> "up"
      [] p = "finished" -> "over"
      [] p = "deleted" -> "removed"
      [] OTHER -> "starting"

Backend == INSTANCE SessionBackend WITH
    call <- [s \in Sessions |-> CallSeen(call[s])],
    asked <- {s \in Sessions : ask[s] # "none"},
    box <- [s \in Sessions |-> BoxSeen(call[s], pod[s])]

ImplementsBackend == Backend!Spec

(* Every create ends, whatever the apiserver does: no create waits for a   *)
(* permit that another one holds while it waits itself.                    *)
EveryCreateEnds ==
    \A s \in Sessions :
        call[s] = "queued" ~> call[s] \in {"returned", "raised", "cancelled", "lost"}

(* Every pod a node ever took is deleted in the end, whoever forgot it.    *)
EveryScheduledPodSwept ==
    \A s \in Sessions : pod[s] \in {"scheduled", "stuck", "ready", "finished"} ~> pod[s] = "deleted"

(* What the README promises of a session: destroyed or reaped in the end.  *)
EveryPodGoes ==
    \A s \in Sessions : s \in Existing ~> pod[s] = "deleted"
=============================================================================
