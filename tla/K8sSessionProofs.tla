-------------------------- MODULE K8sSessionProofs --------------------------
(***************************************************************************)
(* The safety properties of K8sSession for every finite set of sessions    *)
(* and every width of the lane.                                            *)
(*                                                                         *)
(* The invariant has two parts: what the coroutines, the requests and the  *)
(* pod of one session know of each other (Fits), and that every permit of  *)
(* _ctl_sem that is not free has a coroutine that will give it back.       *)
(***************************************************************************)
EXTENDS K8sSession, FiniteSetTheorems, TLAPS

(* What holds of one session between two steps.                            *)
Fits(s) ==
    /\ call[s] \in {"idle", "queued"} => pod[s] = "absent" /\ s \notin posts
    /\ s \in posts => pod[s] = "absent"
    /\ call[s] \in {"polling", "sawReady", "cleanupQueued", "cleaning", "returned"} =>
          pod[s] # "absent"
    /\ ask[s] # "none" => call[s] = "returned"
    /\ s \in deletes => /\ pod[s] # "absent"
                        /\ call[s] \in {"cleaning", "raised", "cancelled", "lost"} \/ ask[s] # "none"
    /\ call[s] = "cleaning" => s \in deletes \/ pod[s] = "deleted"
    /\ pod[s] = "ready" => s \in cameUp
    /\ call[s] = "sawReady" => s \in cameUp
    /\ call[s] = "raised" /\ s \notin excused =>
          s \notin posts /\ pod[s] \in {"absent", "finished", "deleted"}

(* Who holds a permit: creates in a POST or a clean-up, and destroys.      *)
Creating == {s \in Sessions : call[s] \in {"posting", "cleaning"}}
Destroying == {s \in Sessions : ask[s] = "deleting"}

PermitsAreHeld == free = LaneSize - Cardinality(Creating) - Cardinality(Destroying)

(* The inductive invariant.                                                *)
IInv ==
    /\ TypeOK
    /\ PermitsAreHeld
    /\ \A s \in Sessions : Fits(s)

-----------------------------------------------------------------------------
(* What the cardinality of a set of sessions does when one joins, leaves.  *)
LEMMA Counting ==
    ASSUME NEW A \in SUBSET Sessions
    PROVE  /\ Cardinality(A) \in Nat
           /\ \A s \in Sessions \ A : Cardinality(A \cup {s}) = Cardinality(A) + 1
           /\ \A s \in A : Cardinality(A \ {s}) = Cardinality(A) - 1 /\ Cardinality(A) > 0
<1>1. IsFiniteSet(A) /\ Cardinality(A) \in Nat
  BY SessionsAreFinite, FS_Subset, FS_CardinalityType
<1>2. \A s \in Sessions \ A : Cardinality(A \cup {s}) = Cardinality(A) + 1
  BY <1>1, FS_AddElement
<1>3. \A s \in A : Cardinality(A \ {s}) = Cardinality(A) - 1
  BY <1>1, FS_RemoveElement
<1>4. \A s \in A : Cardinality(A \ {s}) \in Nat
  BY <1>1, FS_Subset, FS_CardinalityType, FS_RemoveElement
<1> QED
  BY <1>1, <1>2, <1>3, <1>4

(* The invariant holds at the start.                                       *)
LEMMA Initially == Init => IInv
<1> SUFFICES ASSUME Init PROVE IInv
  OBVIOUS
<1>1. TypeOK /\ \A s \in Sessions : Fits(s)
  BY LaneIsUsable DEF Init, TypeOK, CallStates, AskStates, PodStates, Fits
<1>2. Creating = {} /\ Destroying = {}
  BY DEF Init, Creating, Destroying
<1>3. PermitsAreHeld
  BY <1>2, FS_EmptySet, LaneIsUsable DEF Init, PermitsAreHeld
<1> QED
  BY <1>1, <1>3 DEF IInv

-----------------------------------------------------------------------------
(* One session moves: the others fit as before.                            *)
Alone(s) ==
    /\ \A x \in Sessions \ {s} :
          /\ call'[x] = call[x] /\ ask'[x] = ask[x] /\ pod'[x] = pod[x]
          /\ (x \in posts') = (x \in posts) /\ (x \in deletes') = (x \in deletes)
          /\ (x \in cameUp') = (x \in cameUp) /\ (x \in excused') = (x \in excused)
    /\ reaper' = reaper

(* A step of one coroutine of create.                                      *)
LEMMA CreateFits ==
    ASSUME IInv, NEW s \in Sessions, Create(s)
    PROVE  /\ Alone(s) /\ Fits(s)' /\ ask' = ask /\ pod' = pod
           /\ call' \in [Sessions -> CallStates] /\ posts' \in SUBSET Sessions
           /\ deletes' \in SUBSET Sessions /\ cameUp' = cameUp /\ excused' \in SUBSET Sessions
<1> USE DEF IInv, TypeOK, Fits, Alone, CallGoes, callVars, wireVars, history, CallStates, AskStates, PodStates
<1>1. CASE StartCreate(s) \/ SendPost(s)
  BY <1>1 DEF StartCreate, SendPost
<1>2. CASE PostEnds(s)
  BY <1>2 DEF PostEnds, PostAnswered, PostRefused, PostRaises
<1>3. CASE PollEnds(s)
  BY <1>3 DEF PollEnds, PollReady, CreateReturns, PollGivesUp, PollRaises
<1>4. CASE SendCleanup(s)
  BY <1>4 DEF SendCleanup
<1>5. CASE CleanupEnds(s)
  BY <1>5 DEF CleanupEnds, CleanupAnswered, CleanupFails
<1>6. CASE CancelCreate(s)
  BY <1>6 DEF CancelCreate, Awaiting
<1> QED
  BY <1>1, <1>2, <1>3, <1>4, <1>5, <1>6 DEF Create

(* A step of a destroy.                                                    *)
LEMMA DestroyFits ==
    ASSUME IInv, NEW s \in Sessions, Destroy(s)
    PROVE  /\ Alone(s) /\ Fits(s)' /\ call' = call /\ pod' = pod
           /\ ask' \in [Sessions -> AskStates] /\ posts' = posts
           /\ deletes' \in SUBSET Sessions /\ cameUp' = cameUp /\ excused' = excused
<1> USE DEF IInv, TypeOK, Fits, Alone, AskGoes, callVars, wireVars, history, CallStates, AskStates, PodStates
<1>1. CASE StartDestroy(s)
  BY <1>1 DEF StartDestroy
<1>2. CASE SendDelete(s)
  BY <1>2 DEF SendDelete
<1>3. CASE DestroyEnds(s)
  BY <1>3 DEF DestroyEnds
<1> QED
  BY <1>1, <1>2, <1>3 DEF Destroy

(* A step of the apiserver or the kubelet.                                 *)
LEMMA ClusterFits ==
    ASSUME IInv, NEW s \in Sessions, Cluster(s)
    PROVE  /\ Alone(s) /\ Fits(s)' /\ UNCHANGED callVars
           /\ pod' \in [Sessions -> PodStates] /\ posts' \in SUBSET Sessions
           /\ deletes' \in SUBSET Sessions /\ cameUp' \in SUBSET Sessions /\ excused' = excused
<1> USE DEF IInv, TypeOK, Fits, Alone, callVars, wireVars, history, CallStates, AskStates, PodStates
<1>1. CASE ApiCreates(s)
  BY <1>1 DEF ApiCreates
<1>2. CASE ApiDeletes(s)
  BY <1>2 DEF ApiDeletes
<1>3. CASE PostLost(s)
  BY <1>3 DEF PostLost
<1>4. CASE Schedule(s) \/ GetStuck(s) \/ GetReady(s) \/ Finish(s)
  BY <1>4 DEF Schedule, GetStuck, GetReady, Finish, PodGoes
<1> QED
  BY <1>1, <1>2, <1>3, <1>4 DEF Cluster

(* If one session moves and fits, all fit.                                 *)
LEMMA OthersFit ==
    ASSUME IInv, NEW s \in Sessions, Alone(s), Fits(s)'
    PROVE  \A x \in Sessions : Fits(x)'
BY DEF IInv, Alone, Fits

-----------------------------------------------------------------------------
(* Permits.  A coroutine of create that starts or ends a request takes or  *)
(* gives back one permit; a step that does neither leaves them.            *)
LEMMA CreatePermits ==
    ASSUME IInv, NEW s \in Sessions, Create(s)
    PROVE  free' \in 0..LaneSize /\ PermitsAreHeld'
<1> USE DEF IInv, TypeOK, CallGoes, callVars, wireVars, history
<1>a. Destroying' = Destroying
  BY CreateFits DEF Destroying
<1>b. Creating \in SUBSET Sessions /\ Destroying \in SUBSET Sessions
  BY DEF Creating, Destroying
<1>c. Cardinality(Creating) \in Nat /\ Cardinality(Destroying) \in Nat
  BY <1>b, Counting
<1>1. CASE SendPost(s) \/ SendCleanup(s)
  <2>1. Creating' = Creating \cup {s} /\ s \notin Creating /\ free > 0 /\ free' = free - 1
    BY <1>1 DEF SendPost, SendCleanup, TakePermit, Creating
  <2> QED
    BY <2>1, <1>a, <1>b, <1>c, Counting, LaneIsUsable DEF PermitsAreHeld
<1>2. CASE PostEnds(s) \/ CleanupEnds(s) \/ (CancelCreate(s) /\ s \in Creating)
  <2>1. Creating' = Creating \ {s} /\ s \in Creating /\ free' = free + 1
    <3>1. CASE PostEnds(s)
      BY <3>1 DEF PostEnds, PostAnswered, PostRefused, PostRaises, GivePermit, Creating
    <3>2. CASE CleanupEnds(s)
      BY <3>2 DEF CleanupEnds, CleanupAnswered, CleanupFails, GivePermit, Creating
    <3>3. CASE CancelCreate(s) /\ s \in Creating
      BY <3>3 DEF CancelCreate, GivePermit, Creating
    <3> QED
      BY <1>2, <3>1, <3>2, <3>3
  <2>2. Cardinality(Creating') = Cardinality(Creating) - 1 /\ Cardinality(Creating) > 0
    BY <2>1, <1>b, Counting
  <2> QED
    BY <2>1, <2>2, <1>a, <1>c, LaneIsUsable DEF PermitsAreHeld
<1>3. CASE StartCreate(s) \/ PollEnds(s) \/ (CancelCreate(s) /\ s \notin Creating)
  <2>1. Creating' = Creating /\ free' = free
    <3>1. CASE StartCreate(s)
      BY <3>1 DEF StartCreate, Creating
    <3>2. CASE PollEnds(s)
      BY <3>2 DEF PollEnds, PollReady, CreateReturns, PollGivesUp, PollRaises, Creating
    <3>3. CASE CancelCreate(s) /\ s \notin Creating
      BY <3>3 DEF CancelCreate, Creating
    <3> QED
      BY <1>3, <3>1, <3>2, <3>3
  <2> QED
    BY <2>1, <1>a DEF PermitsAreHeld
<1> QED
  BY <1>1, <1>2, <1>3 DEF Create

(* The same for destroy.                                                   *)
LEMMA DestroyPermits ==
    ASSUME IInv, NEW s \in Sessions, Destroy(s)
    PROVE  free' \in 0..LaneSize /\ PermitsAreHeld'
<1> USE DEF IInv, TypeOK, AskGoes, callVars, wireVars, history
<1>a. Creating' = Creating
  BY DestroyFits DEF Creating
<1>b. Creating \in SUBSET Sessions /\ Destroying \in SUBSET Sessions
  BY DEF Creating, Destroying
<1>c. Cardinality(Creating) \in Nat /\ Cardinality(Destroying) \in Nat
  BY <1>b, Counting
<1>1. CASE SendDelete(s)
  <2>1. Destroying' = Destroying \cup {s} /\ s \notin Destroying /\ free > 0 /\ free' = free - 1
    BY <1>1 DEF SendDelete, TakePermit, Destroying
  <2> QED
    BY <2>1, <1>a, <1>b, <1>c, Counting, LaneIsUsable DEF PermitsAreHeld
<1>2. CASE DestroyEnds(s)
  <2>1. Destroying' = Destroying \ {s} /\ s \in Destroying /\ free' = free + 1
    BY <1>2 DEF DestroyEnds, GivePermit, Destroying
  <2>2. Cardinality(Destroying') = Cardinality(Destroying) - 1 /\ Cardinality(Destroying) > 0
    BY <2>1, <1>b, Counting
  <2> QED
    BY <2>1, <2>2, <1>a, <1>c, LaneIsUsable DEF PermitsAreHeld
<1>3. CASE StartDestroy(s)
  <2>1. Destroying' = Destroying /\ free' = free
    BY <1>3 DEF StartDestroy, Destroying
  <2> QED
    BY <2>1, <1>a DEF PermitsAreHeld
<1> QED
  BY <1>1, <1>2, <1>3 DEF Destroy

-----------------------------------------------------------------------------
(* The reaper deletes finished pods only.                                  *)
LEMMA ReapedAreFinished ==
    ASSUME TypeOK, NEW s \in Sessions
    PROVE  s \in Reaped <=> pod[s] = "finished"
BY DEF TypeOK, PodStates, Reaped, Existing, Phase

(* A step of the reaper.                                                   *)
LEMMA ReaperStep ==
    ASSUME IInv, ReapWakes \/ ReapLands \/ ReapFails
    PROVE  IInv'
<1>1. UNCHANGED <<callVars, wireVars, history>> /\ reaper' \in {"sleeping", "asking"}
  BY DEF ReapWakes, ReapLands, ReapFails
<1>2. /\ pod' \in [Sessions -> PodStates]
      /\ \A s \in Sessions : pod'[s] = pod[s] \/ (pod[s] = "finished" /\ pod'[s] = "deleted")
  <2>1. CASE ReapLands
    <3>1. pod' = [s \in Sessions |-> IF pod[s] = "finished" THEN "deleted" ELSE pod[s]]
      BY <2>1, ReapedAreFinished DEF ReapLands, IInv
    <3> QED
      BY <3>1 DEF IInv, TypeOK, PodStates
  <2>2. CASE ReapWakes \/ ReapFails
    BY <2>2 DEF ReapWakes, ReapFails, IInv, TypeOK
  <2> QED
    BY <2>1, <2>2
<1>3. TypeOK'
  BY <1>1, <1>2 DEF IInv, TypeOK, callVars, wireVars, history
<1>4. \A s \in Sessions : Fits(s)'
  BY <1>1, <1>2 DEF IInv, Fits, callVars, wireVars, history
<1>5. PermitsAreHeld'
  BY <1>1 DEF IInv, PermitsAreHeld, Creating, Destroying, callVars
<1> QED
  BY <1>3, <1>4, <1>5 DEF IInv

(* The process dies: no coroutine is left that holds a permit.             *)
LEMMA RestartStep ==
    ASSUME IInv, Restart
    PROVE  IInv'
<1>1. TypeOK'
  BY LaneIsUsable DEF Restart, IInv, TypeOK, CallStates, AskStates, wireVars, history
<1>2. \A s \in Sessions : Fits(s)'
  BY DEF Restart, IInv, TypeOK, Fits, CallStates, AskStates, wireVars, history
<1>3. Creating' = {} /\ Destroying' = {}
  BY DEF Restart, IInv, TypeOK, CallStates, AskStates, Creating, Destroying
<1>4. PermitsAreHeld'
  BY <1>3, FS_EmptySet, LaneIsUsable DEF Restart, PermitsAreHeld
<1> QED
  BY <1>1, <1>2, <1>4 DEF IInv

(* The invariant is inductive.                                             *)
THEOREM Invariance == Spec => []IInv
<1>1. IInv /\ [Next]_vars => IInv'
  <2> SUFFICES ASSUME IInv, [Next]_vars PROVE IInv'
    OBVIOUS
  <2>1. ASSUME NEW s \in Sessions, Create(s) PROVE IInv'
    BY <2>1, CreateFits, OthersFit, CreatePermits DEF IInv, TypeOK, Alone
  <2>2. ASSUME NEW s \in Sessions, Destroy(s) PROVE IInv'
    BY <2>2, DestroyFits, OthersFit, DestroyPermits DEF IInv, TypeOK, Alone
  <2>3. ASSUME NEW s \in Sessions, Cluster(s) PROVE IInv'
    <3>1. Creating' = Creating /\ Destroying' = Destroying /\ free' = free
      BY <2>3, ClusterFits DEF Creating, Destroying, callVars
    <3> QED
      BY <2>3, <3>1, ClusterFits, OthersFit DEF IInv, TypeOK, Alone, PermitsAreHeld, callVars
  <2>4. CASE ReapWakes \/ ReapLands \/ ReapFails
    BY <2>4, ReaperStep
  <2>5. CASE Restart
    BY <2>5, RestartStep
  <2>6. CASE UNCHANGED vars
    BY <2>6 DEF vars, callVars, wireVars, history, IInv, TypeOK, Fits, PermitsAreHeld, Creating, Destroying
  <2> QED
    BY <2>1, <2>2, <2>3, <2>4, <2>5, <2>6 DEF Next
<1> QED
  BY Initially, <1>1, PTL DEF Spec

(* Type correctness: no permit is given back twice or without being taken. *)
THEOREM Typing == Spec => []TypeOK
<1>1. IInv => TypeOK
  BY DEF IInv
<1> QED
  BY <1>1, Invariance, PTL

(* A create that raised left no pod, unless a request of it got no proper  *)
(* answer.                                                                 *)
THEOREM FailuresAreClean == Spec => []RaisedLeavesNoPod
<1>1. IInv => RaisedLeavesNoPod
  BY DEF IInv, Fits, RaisedLeavesNoPod
<1> QED
  BY <1>1, Invariance, PTL

-----------------------------------------------------------------------------
(* What the backend sees of a call, and of a box.                          *)
LEMMA Views ==
    ASSUME NEW c, NEW p
    PROVE  /\ c = "idle" => CallSeen(c) = "none"
           /\ c \in {"queued", "posting", "polling", "sawReady"} => CallSeen(c) = "open"
           /\ c = "returned" => CallSeen(c) = "returned"
           /\ c \in {"cleanupQueued", "cleaning", "raised", "cancelled", "lost"} =>
                 CallSeen(c) = "failed"
           /\ c = "idle" /\ p = "absent" => BoxSeen(c, p) = "none"
           /\ c # "idle" /\ p \in {"absent", "unscheduled", "scheduled", "stuck"} =>
                 BoxSeen(c, p) = "starting"
           /\ c # "idle" /\ p = "ready" => BoxSeen(c, p) = "up"
           /\ c # "idle" /\ p = "finished" => BoxSeen(c, p) = "over"
           /\ c # "idle" /\ p = "deleted" => BoxSeen(c, p) = "removed"
<1>1. c = "idle" => CallSeen(c) = "none"
  BY DEF CallSeen
<1>2. c \in {"queued", "posting", "polling", "sawReady"} => CallSeen(c) = "open"
  BY DEF CallSeen
<1>3. c = "returned" => CallSeen(c) = "returned"
  BY DEF CallSeen
<1>4. c \in {"cleanupQueued", "cleaning", "raised", "cancelled", "lost"} => CallSeen(c) = "failed"
  BY DEF CallSeen
<1>5. c = "idle" /\ p = "absent" => BoxSeen(c, p) = "none"
  BY DEF BoxSeen
<1>6. c # "idle" /\ p \in {"absent", "unscheduled", "scheduled", "stuck"} => BoxSeen(c, p) = "starting"
  BY DEF BoxSeen
<1>7. c # "idle" /\ p = "ready" => BoxSeen(c, p) = "up"
  BY DEF BoxSeen
<1>8. c # "idle" /\ p = "finished" => BoxSeen(c, p) = "over"
  BY DEF BoxSeen
<1>9. c # "idle" /\ p = "deleted" => BoxSeen(c, p) = "removed"
  BY DEF BoxSeen
<1> QED
  BY <1>1, <1>2, <1>3, <1>4, <1>5, <1>6, <1>7, <1>8, <1>9

(* The refinement mapping.                                                 *)
Calls == [s \in Sessions |-> CallSeen(call[s])]
Boxes == [s \in Sessions |-> BoxSeen(call[s], pod[s])]
Asked == {s \in Sessions : ask[s] # "none"}

(* Nothing the backend sees changes.                                       *)
SeenAlike == Calls' = Calls /\ Boxes' = Boxes /\ Asked' = Asked /\ cameUp' = cameUp

(* A step of create starts, returns or fails a call, or nothing is seen.   *)
LEMMA CreateRefines ==
    ASSUME IInv, NEW s \in Sessions, Create(s)
    PROVE  SeenAlike \/ Backend!Start(s) \/ Backend!Return(s) \/ Backend!Fail({s})
<1> USE DEF CallGoes
<1>0. call \in [Sessions -> CallStates] /\ pod \in [Sessions -> PodStates]
  BY DEF IInv, TypeOK
<1>1. CASE StartCreate(s)
  <2>1. call' = [call EXCEPT ![s] = "queued"] /\ pod' = pod /\ call[s] = "idle" /\ pod[s] = "absent"
    BY <1>1 DEF StartCreate, IInv, Fits
  <2>2. Calls[s] = "none" /\ Boxes[s] = "none"
    BY <2>1, Views DEF Calls, Boxes
  <2>3. Calls' = [Calls EXCEPT ![s] = "open"]
    BY <1>0, <2>1, Views DEF Calls
  <2>4. Boxes' = [Boxes EXCEPT ![s] = "starting"]
    <3>1. BoxSeen("queued", "absent") = "starting"
      BY Views
    <3> QED
      BY <1>0, <2>1, <3>1 DEF Boxes
  <2>5. Asked' = Asked /\ cameUp' = cameUp
    BY <1>1 DEF StartCreate, Asked, history
  <2> QED
    BY <2>2, <2>3, <2>4, <2>5 DEF Backend!Start, Calls, Boxes, Asked
<1>2. CASE ~StartCreate(s)
  <2> DEFINE c == call'[s]
  <2>1. call' = [call EXCEPT ![s] = c] /\ c \in CallStates /\ c # "idle"
    <3>1. call' \in [Sessions -> CallStates] /\ \A x \in Sessions \ {s} : call'[x] = call[x]
      BY CreateFits DEF Alone
    <3>2. c # "idle"
      BY <1>0, <1>2 DEF Create, SendPost, PostEnds, PostAnswered, PostRefused, PostRaises, PollEnds, PollReady,
         CreateReturns, PollGivesUp, PollRaises, SendCleanup, CleanupEnds, CleanupAnswered, CleanupFails,
         CancelCreate
    <3> QED
      BY <1>0, <3>1, <3>2
  <2> HIDE DEF c
  <2>2. call[s] # "idle" /\ pod' = pod /\ Asked' = Asked /\ cameUp' = cameUp
    BY <1>2, CreateFits DEF Create, SendPost, PostEnds, PostAnswered, PostRefused, PostRaises, PollEnds, PollReady,
         CreateReturns, PollGivesUp, PollRaises, SendCleanup, CleanupEnds, CleanupAnswered, CleanupFails,
         CancelCreate, Awaiting, Asked
  <2>3. Boxes' = Boxes
    <3>1. \A p \in PodStates : BoxSeen(c, p) = BoxSeen(call[s], p)
      BY <2>1, <2>2, Views DEF PodStates
    <3> QED
      BY <1>0, <2>1, <2>2, <3>1 DEF Boxes
  <2>4. Calls' = [Calls EXCEPT ![s] = CallSeen(c)]
    BY <1>0, <2>1 DEF Calls
  <2>5. CASE CallSeen(c) = CallSeen(call[s])
    BY <2>2, <2>3, <2>4, <2>5 DEF SeenAlike, Calls
  <2>6. CASE CallSeen(call[s]) = "open" /\ CallSeen(c) = "failed"
    <3>1. Calls[s] = "open" /\ Calls' = [x \in Sessions |-> IF x \in {s} THEN "failed" ELSE Calls[x]]
      BY <2>4, <2>6 DEF Calls
    <3> QED
      BY <2>2, <2>3, <3>1 DEF Backend!Fail, Calls, Boxes, Asked
  <2>7. CASE CreateReturns(s)
    <3>1. call[s] = "sawReady" /\ c = "returned" /\ s \in cameUp
      BY <1>0, <2>1, <2>7 DEF CreateReturns, IInv, Fits, c
    <3>2. Calls[s] = "open" /\ Calls' = [Calls EXCEPT ![s] = "returned"]
      BY <2>4, <3>1, Views DEF Calls
    <3> QED
      BY <2>2, <2>3, <3>1, <3>2 DEF Backend!Return, Calls, Boxes, Asked
  <2>8. CASE ~CreateReturns(s)
    <3>1. \/ call[s] \in {"queued", "posting", "polling", "sawReady"} /\ c \in {"queued", "posting", "polling", "sawReady"}
          \/ call[s] \in {"queued", "posting", "polling", "sawReady"}
             /\ c \in {"cleanupQueued", "cleaning", "raised", "cancelled", "lost"}
          \/ call[s] \in {"cleanupQueued", "cleaning", "raised", "cancelled", "lost"}
             /\ c \in {"cleanupQueued", "cleaning", "raised", "cancelled", "lost"}
      BY <1>0, <1>2, <2>1, <2>8 DEF Create, SendPost, PostEnds, PostAnswered, PostRefused, PostRaises, PollEnds, PollReady,
         PollGivesUp, PollRaises, SendCleanup, CleanupEnds, CleanupAnswered, CleanupFails,
         CancelCreate, Awaiting, c
    <3> QED
      BY <3>1, <2>5, <2>6, Views
  <2> QED
    BY <2>7, <2>8
<1> QED
  BY <1>1, <1>2

(* A step of destroy asks for a destroy, or nothing is seen.               *)
LEMMA DestroyRefines ==
    ASSUME IInv, NEW s \in Sessions, Destroy(s)
    PROVE  SeenAlike \/ Backend!Ask(s)
<1>0. /\ call' = call /\ pod' = pod /\ cameUp' = cameUp /\ Calls' = Calls /\ Boxes' = Boxes
      /\ ask' \in [Sessions -> AskStates] /\ ask \in [Sessions -> AskStates]
  BY DestroyFits DEF Calls, Boxes, IInv, TypeOK
<1>1. CASE StartDestroy(s)
  <2>1. call[s] = "returned" /\ ask' = [ask EXCEPT ![s] = "queued"]
    BY <1>1 DEF StartDestroy
  <2>2. Calls[s] = "returned" /\ Asked' = Asked \cup {s}
    BY <1>0, <2>1, Views DEF Calls, Asked
  <2> QED
    BY <1>0, <2>2 DEF Backend!Ask, Calls, Boxes, Asked
<1>2. CASE SendDelete(s) \/ DestroyEnds(s)
  <2>1. Asked' = Asked
    BY <1>0, <1>2 DEF SendDelete, DestroyEnds, AskGoes, Asked
  <2> QED
    BY <1>0, <2>1 DEF SeenAlike
<1> QED
  BY <1>1, <1>2 DEF Destroy

(* A pod that exists belongs to a create that was started.                 *)
LEMMA PodsHaveCalls ==
    ASSUME IInv, NEW s \in Sessions, pod[s] # "absent"
    PROVE  call[s] # "idle"
BY DEF IInv, Fits

(* A step of the cluster brings a box up, ends or removes it, or nothing   *)
(* is seen.                                                                *)
LEMMA ClusterRefines ==
    ASSUME IInv, NEW s \in Sessions, Cluster(s)
    PROVE  SeenAlike \/ Backend!ComeUp(s) \/ Backend!End(s) \/ Backend!Remove({s})
<1>0. /\ call \in [Sessions -> CallStates] /\ pod \in [Sessions -> PodStates]
      /\ call' = call /\ Calls' = Calls /\ Asked' = Asked
  BY ClusterFits DEF IInv, TypeOK, callVars, Calls, Asked
<1>1. CASE ApiCreates(s)
  <2>1. call[s] # "idle" /\ pod[s] = "absent" /\ pod' = [pod EXCEPT ![s] = "unscheduled"]
    BY <1>1 DEF ApiCreates, IInv, Fits
  <2>2. BoxSeen(call[s], "unscheduled") = BoxSeen(call[s], "absent")
    BY <2>1, Views
  <2>3. Boxes' = Boxes
    BY <1>0, <2>1, <2>2 DEF Boxes
  <2> QED
    BY <1>0, <1>1, <2>3 DEF SeenAlike, ApiCreates, history
<1>2. CASE ApiDeletes(s)
  <2>1. /\ pod[s] # "absent" /\ call[s] # "idle" /\ pod' = [pod EXCEPT ![s] = "deleted"]
        /\ call[s] \in {"cleaning", "raised", "cancelled", "lost"} \/ ask[s] # "none"
        /\ cameUp' = cameUp
    BY <1>2, PodsHaveCalls DEF ApiDeletes, IInv, Fits, history
  <2>2. BoxSeen(call[s], "deleted") = "removed"
    BY <2>1, Views
  <2>3. Boxes' = [x \in Sessions |-> IF x \in {s} THEN "removed" ELSE Boxes[x]]
    BY <1>0, <2>1, <2>2 DEF Boxes
  <2>4. CASE pod[s] = "deleted"
    BY <1>0, <2>1, <2>2, <2>3, <2>4 DEF SeenAlike, Boxes
  <2>5. CASE pod[s] # "deleted"
    <3>1. Boxes[s] \in {"starting", "up", "over"}
      BY <1>0, <2>1, <2>5, Views DEF Boxes, PodStates
    <3>2. Calls[s] = "failed" \/ s \in Asked
      BY <2>1, Views DEF Calls, Asked
    <3> QED
      BY <1>0, <2>1, <2>3, <3>1, <3>2 DEF Backend!Remove, Calls, Boxes, Asked
  <2> QED
    BY <2>4, <2>5
<1>3. CASE PostLost(s)
  BY <1>0, <1>3 DEF PostLost, SeenAlike, Boxes, history
<1>4. CASE Schedule(s) \/ GetStuck(s)
  <2>1. PICK to \in {"scheduled", "stuck"} :
            /\ call[s] # "idle" /\ pod[s] \in {"unscheduled", "scheduled"}
            /\ pod' = [pod EXCEPT ![s] = to] /\ cameUp' = cameUp
    BY <1>4, PodsHaveCalls DEF Schedule, GetStuck, PodGoes
  <2>2. BoxSeen(call[s], to) = BoxSeen(call[s], pod[s])
    BY <2>1, Views
  <2>3. Boxes' = Boxes
    BY <1>0, <2>1, <2>2 DEF Boxes
  <2> QED
    BY <1>0, <2>1, <2>3 DEF SeenAlike
<1>5. CASE GetReady(s)
  <2>1. /\ call[s] # "idle" /\ pod[s] \in {"scheduled", "stuck"}
        /\ pod' = [pod EXCEPT ![s] = "ready"] /\ cameUp' = cameUp \cup {s}
    BY <1>5, PodsHaveCalls DEF GetReady, PodGoes
  <2>2. BoxSeen(call[s], "ready") = "up" /\ Boxes[s] = "starting"
    BY <2>1, Views DEF Boxes
  <2>3. Boxes' = [Boxes EXCEPT ![s] = "up"]
    BY <1>0, <2>1, <2>2 DEF Boxes
  <2> QED
    BY <1>0, <2>1, <2>2, <2>3 DEF Backend!ComeUp, Calls, Boxes, Asked
<1>6. CASE Finish(s)
  <2>1. /\ call[s] # "idle" /\ pod[s] \in {"scheduled", "stuck", "ready"}
        /\ pod' = [pod EXCEPT ![s] = "finished"] /\ cameUp' = cameUp
    BY <1>6, PodsHaveCalls DEF Finish, PodGoes
  <2>2. BoxSeen(call[s], "finished") = "over" /\ Boxes[s] \in {"starting", "up"}
    BY <2>1, Views DEF Boxes
  <2>3. Boxes' = [Boxes EXCEPT ![s] = "over"]
    BY <1>0, <2>1, <2>2 DEF Boxes
  <2> QED
    BY <1>0, <2>1, <2>2, <2>3 DEF Backend!End, Calls, Boxes, Asked
<1> QED
  BY <1>1, <1>2, <1>3, <1>4, <1>5, <1>6 DEF Cluster

(* A sweep removes every box that is over.                                 *)
LEMMA ReaperRefines ==
    ASSUME IInv, ReapWakes \/ ReapLands \/ ReapFails
    PROVE  SeenAlike \/ Backend!Remove(Reaped)
<1>1. CASE ReapWakes \/ ReapFails
  BY <1>1 DEF ReapWakes, ReapFails, SeenAlike, Calls, Boxes, Asked, callVars, history
<1>2. CASE ReapLands
  <2>1. \A s \in Reaped : s \in Sessions /\ pod[s] = "finished" /\ call[s] # "idle"
    BY ReapedAreFinished, PodsHaveCalls DEF Reaped, Existing, IInv
  <2>2. \A s \in Reaped : Boxes[s] = "over" /\ BoxSeen(call[s], "deleted") = "removed"
    BY <2>1, Views DEF Boxes
  <2>3. UNCHANGED <<call, ask, cameUp>> /\ pod' = [s \in Sessions |-> IF s \in Reaped THEN "deleted" ELSE pod[s]]
    BY <1>2 DEF ReapLands, callVars, history
  <2>4. Boxes' = [s \in Sessions |-> IF s \in Reaped THEN "removed" ELSE Boxes[s]]
    BY <2>2, <2>3 DEF Boxes
  <2>5. Calls' = Calls /\ Asked' = Asked
    BY <2>3 DEF Calls, Asked
  <2> QED
    BY <2>2, <2>3, <2>4, <2>5 DEF Backend!Remove, Calls, Boxes, Asked
<1> QED
  BY <1>1, <1>2

(* A crash fails every call that is open, and only those.                  *)
LEMMA RestartRefines ==
    ASSUME IInv, Restart
    PROVE  Backend!Fail({s \in Sessions : Calls[s] = "open"})
<1> DEFINE Open == {s \in Sessions : Calls[s] = "open"}
<1>0. /\ call \in [Sessions -> CallStates] /\ pod \in [Sessions -> PodStates]
      /\ pod' = pod /\ cameUp' = cameUp
  BY DEF IInv, TypeOK, Restart, history
<1>1. Asked' = Asked
  BY DEF Restart, Asked
<1>2. \A s \in Sessions : CallSeen(call'[s]) = IF CallSeen(call[s]) = "open" THEN "failed" ELSE CallSeen(call[s])
  <2> SUFFICES ASSUME NEW s \in Sessions
               PROVE  CallSeen(call'[s]) = IF CallSeen(call[s]) = "open" THEN "failed" ELSE CallSeen(call[s])
    OBVIOUS
  <2>1. call'[s] = IF call[s] \in {"idle", "returned", "raised", "cancelled"} THEN call[s] ELSE "lost"
    BY DEF Restart
  <2>2. CallSeen("lost") = "failed"
    BY Views
  <2>3. CASE call[s] \in {"idle", "returned", "raised", "cancelled"}
    BY <2>1, <2>3, Views
  <2>4. CASE call[s] \notin {"idle", "returned", "raised", "cancelled"}
    BY <1>0, <2>1, <2>2, <2>4, Views DEF CallStates
  <2> QED
    BY <2>3, <2>4
<1>3. Calls' = [s \in Sessions |-> IF s \in Open THEN "failed" ELSE Calls[s]]
  BY <1>2 DEF Calls
<1>4. Boxes' = Boxes
  <2>1. ASSUME NEW s \in Sessions PROVE BoxSeen(call'[s], pod[s]) = BoxSeen(call[s], pod[s])
    <3>1. (call'[s] = "idle") <=> (call[s] = "idle")
      BY DEF Restart
    <3>2. call[s] = "idle" => pod[s] = "absent"
      BY DEF IInv, Fits
    <3>3. pod[s] \in PodStates
      BY <1>0
    <3> QED
      BY <3>1, <3>2, <3>3, Views DEF PodStates
  <2> QED
    BY <1>0, <2>1 DEF Boxes
<1> QED
  BY <1>0, <1>1, <1>3, <1>4 DEF Backend!Fail, Calls, Boxes, Asked

(* The provider keeps the promises of SessionBackend.                      *)
THEOREM KeepsPromises == Spec => ImplementsBackend
<1>1. Init => Backend!Init
  <2> SUFFICES ASSUME Init PROVE Backend!Init
    OBVIOUS
  <2>1. Calls = [s \in Sessions |-> "none"] /\ Boxes = [s \in Sessions |-> "none"] /\ Asked = {}
    BY Views DEF Init, Calls, Boxes, Asked
  <2> QED
    BY <2>1 DEF Init, Backend!Init, Calls, Boxes, Asked
<1>2. IInv /\ [Next]_vars => [Backend!Next]_Backend!vars
  <2> SUFFICES ASSUME IInv, [Next]_vars PROVE Backend!Next \/ UNCHANGED Backend!vars
    OBVIOUS
  <2>0. SeenAlike => UNCHANGED Backend!vars
    BY DEF SeenAlike, Backend!vars, Calls, Boxes, Asked
  <2>1. ASSUME NEW s \in Sessions, Create(s) \/ Destroy(s) \/ Cluster(s)
        PROVE  Backend!Next \/ UNCHANGED Backend!vars
    BY <2>0, <2>1, CreateRefines, DestroyRefines, ClusterRefines DEF Backend!Next
  <2>2. CASE ReapWakes \/ ReapLands \/ ReapFails
    BY <2>0, <2>2, ReaperRefines DEF Backend!Next, Reaped, Existing
  <2>3. CASE Restart
    BY <2>3, RestartRefines DEF Backend!Next
  <2>4. CASE UNCHANGED vars
    BY <2>0, <2>4 DEF vars, callVars, wireVars, history, SeenAlike, Calls, Boxes, Asked
  <2> QED
    BY <2>1, <2>2, <2>3, <2>4 DEF Next
<1> QED
  BY <1>1, <1>2, Invariance, PTL DEF Spec, ImplementsBackend, Backend!Spec

-----------------------------------------------------------------------------
(* What follows from the promises, for sessions of this provider.          *)
Contract == INSTANCE SessionBackendProofs WITH call <- Calls, asked <- Asked, box <- Boxes

(* The refinement, with the mapping by its names.                          *)
LEMMA KeepsContract == Spec => Contract!Spec
<1>1. Backend!Init <=> Contract!Init
  BY DEF Backend!Init, Contract!Init, Calls, Boxes, Asked
<1>2. Backend!Next <=> Contract!Next
  BY DEF Backend!Next, Contract!Next, Backend!Fail, Contract!Fail, Backend!Remove, Contract!Remove,
         Backend!Start, Contract!Start, Backend!Return, Contract!Return, Backend!Ask, Contract!Ask,
         Backend!ComeUp, Contract!ComeUp, Backend!End, Contract!End, Calls, Boxes, Asked
<1>3. UNCHANGED Backend!vars <=> UNCHANGED Contract!vars
  BY DEF Backend!vars, Contract!vars, Calls, Boxes, Asked
<1> QED
  BY <1>1, <1>2, <1>3, KeepsPromises, PTL DEF ImplementsBackend, Backend!Spec, Contract!Spec

(* What a session of the contract is, in pods.                             *)
LEMMA PodsSeen ==
    ASSUME IInv, NEW s \in Sessions
    PROVE  /\ Calls[s] = "returned" <=> call[s] = "returned"
           /\ Boxes[s] = "up" <=> pod[s] = "ready"
           /\ Boxes[s] = "over" <=> pod[s] = "finished"
           /\ Boxes[s] = "removed" <=> pod[s] = "deleted"
           /\ s \in Asked <=> ask[s] # "none"
<1>1. call[s] \in CallStates /\ pod[s] \in PodStates /\ (call[s] = "idle" => pod[s] = "absent")
  BY DEF IInv, TypeOK, Fits
<1>2. Calls[s] = CallSeen(call[s]) /\ Boxes[s] = BoxSeen(call[s], pod[s])
  BY DEF Calls, Boxes
<1>3. Calls[s] = "returned" <=> call[s] = "returned"
  BY <1>1, <1>2, Views DEF CallStates
<1>4. /\ Boxes[s] = "up" <=> pod[s] = "ready"
      /\ Boxes[s] = "over" <=> pod[s] = "finished"
      /\ Boxes[s] = "removed" <=> pod[s] = "deleted"
  <2>1. CASE call[s] = "idle"
    <3>1. Boxes[s] = "none" /\ pod[s] = "absent"
      BY <1>1, <1>2, <2>1, Views
    <3> QED
      BY <3>1
  <2>2. CASE call[s] # "idle"
    BY <1>1, <1>2, <2>2, Views DEF PodStates
  <2> QED
    BY <2>1, <2>2
<1> QED
  BY <1>3, <1>4 DEF Asked

(* A pod has one life: a create that returned saw its pod Ready, and a pod *)
(* that was Ready is Ready until it is over or deleted, and not again.     *)
PodLivesOnce ==
    \A s \in Sessions :
        /\ call[s] = "returned" => s \in cameUp
        /\ s \in cameUp => pod[s] \in {"ready", "finished", "deleted"}

(* create returns only after Ready, and no pod comes back.                 *)
THEOREM PodsLiveOnce == Spec => []PodLivesOnce
<1>1. IInv /\ Contract!ReturnedWasUp /\ Contract!UsedOnce => PodLivesOnce
  BY PodsSeen DEF Contract!ReturnedWasUp, Contract!UsedOnce, PodLivesOnce
<1> QED
  BY <1>1, Invariance, KeepsContract, Contract!SessionsLiveOnce, PTL

(* The pod of a session in use (created, its destroy never asked for)      *)
(* leaves Ready only by its own end: neither the reaper, whose one request *)
(* deletes every pod that matches, nor the clean-up of another create, nor *)
(* a DELETE that arrives late takes it away.                               *)
UsedPodsKept ==
    [][ \A s \in Sessions :
          call[s] = "returned" /\ ask[s] = "none" /\ pod[s] = "ready" =>
              pod'[s] \in {"ready", "finished"} ]_vars

(* The reaper and the clean-ups leave sessions in use alone.               *)
THEOREM UsedPodsAreKept == Spec => UsedPodsKept
<1> DEFINE Kept == \A s \in Sessions : Contract!InUse(s) /\ Boxes[s] = "up" => Boxes'[s] \in {"up", "over"}
           KeptPods == \A s \in Sessions :
               call[s] = "returned" /\ ask[s] = "none" /\ pod[s] = "ready" => pod'[s] \in {"ready", "finished"}
<1>1. IInv /\ IInv' /\ [Kept]_Contract!vars => [KeptPods]_vars
  <2> SUFFICES ASSUME IInv, IInv', [Kept]_Contract!vars, NEW s \in Sessions,
                      call[s] = "returned", ask[s] = "none", pod[s] = "ready"
               PROVE  pod'[s] \in {"ready", "finished"}
    OBVIOUS
  <2>1. Contract!InUse(s) /\ Boxes[s] = "up"
    BY PodsSeen DEF Contract!InUse
  <2>2. Boxes'[s] \in {"up", "over"}
    BY <2>1 DEF Contract!vars
  <2>3. /\ Boxes'[s] = "up" <=> pod'[s] = "ready"
        /\ Boxes'[s] = "over" <=> pod'[s] = "finished"
    <3>1. call'[s] \in CallStates /\ pod'[s] \in PodStates /\ (call'[s] = "idle" => pod'[s] = "absent")
      BY DEF IInv, TypeOK, Fits
    <3>2. Boxes'[s] = BoxSeen(call'[s], pod'[s])
      BY DEF Boxes
    <3>3. CASE call'[s] = "idle"
      <4>1. Boxes'[s] = "none" /\ pod'[s] = "absent"
        BY <3>1, <3>2, <3>3, Views
      <4> QED
        BY <4>1
    <3>4. CASE call'[s] # "idle"
      BY <3>1, <3>2, <3>4, Views DEF PodStates
    <3> QED
      BY <3>3, <3>4
  <2> QED
    BY <2>2, <2>3
<1> QED
  BY <1>1, Invariance, KeepsContract, Contract!SessionsInUseAreKept, PTL
     DEF Contract!KeptWhileInUse, UsedPodsKept

(* A pod that is not Ready yet has a create waiting for it, unless that    *)
(* create was cancelled, died with its process, or had a POST or a         *)
(* clean-up that was not properly answered.  These are all the causes of   *)
(* the pods that the run k8s_orphan shows nobody deletes.                  *)
OrphanHasCause ==
    \A s \in Sessions :
        pod[s] \in {"unscheduled", "scheduled", "stuck"} =>
            \/ call[s] \in Awaiting
            \/ call[s] \in {"cancelled", "lost"}
            \/ call[s] = "raised" /\ s \in excused

(* No other path out of create or destroy leaves a pod behind that is yet  *)
(* to start.                                                               *)
THEOREM OrphansHaveCauses == Spec => []OrphanHasCause
<1>1. IInv /\ PodLivesOnce => OrphanHasCause
  BY DEF IInv, TypeOK, CallStates, Fits, PodLivesOnce, OrphanHasCause, Awaiting
<1> QED
  BY <1>1, Invariance, PodsLiveOnce, PTL

(* Every permit of _ctl_sem that is not free is held by a coroutine whose  *)
(* request is under way: a create that polls or queues holds none, and no  *)
(* cancellation, error or crash loses one.  The safety half of             *)
(* EveryCreateEnds: whoever holds a permit does not wait for another.      *)
THEOREM PermitsAreNotLost == Spec => []PermitsAreHeld
<1>1. IInv => PermitsAreHeld
  BY DEF IInv
<1> QED
  BY <1>1, Invariance, PTL
=============================================================================
