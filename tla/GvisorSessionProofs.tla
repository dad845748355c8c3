------------------------ MODULE GvisorSessionProofs ------------------------
(***************************************************************************)
(* The safety properties of GvisorSession for every finite set of sessions *)
(* and every width of the two lanes.                                       *)
(*                                                                         *)
(* That no lane is exceeded is inductive with the types; the refinement    *)
(* also needs what docker's processes and containers say of the            *)
(* coroutines that started them and may be gone (Fits).                    *)
(***************************************************************************)
EXTENDS GvisorSession, FiniteSetTheorems, TLAPS

(* A process or a container has a coroutine that once asked for it.        *)
Fits(s) ==
    /\ <<"run", s>> \in cli => call[s] # "idle"
    /\ <<"rm", s>> \in cli => ask[s] # "none"
    /\ container[s] # "absent" => call[s] # "idle"

(* The inductive invariant.                                                *)
IInv == TypeOK /\ \A s \in Sessions : Fits(s)

(* The coroutines' states as TypeOK lists them, without the lanes.         *)
CallStates == {"idle", "queued", "running", "returned", "raised", "cancelled", "lost"}
AskStates == {"none", "queued", "removing", "done"}
ExecStates == {"none", "queued", "running", "suspect", "inspecting",
               "answered", "notFound", "cancelled"}
Commands == {"run", "rm", "exec", "inspect"}
Containers == {"absent", "created", "up", "expired", "removed"}

(* Who waits in which lane.                                                *)
In(f, state) == {s \in Sessions : f[s] = state}

-----------------------------------------------------------------------------
(* The lanes of TypeOK, by the sets that are counted.                      *)
LEMMA Lanes ==
    /\ CtlBusy = Cardinality(In(call, "running")) + Cardinality(In(ask, "removing"))
                    + Cardinality(In(exec, "inspecting"))
    /\ ExecBusy = Cardinality(In(exec, "running"))
  BY DEF CtlBusy, ExecBusy, In

(* The move of one session adds at most that session to a count, and       *)
(* nothing when the session does not go there.                             *)
LEMMA OneMoves ==
    ASSUME NEW f, NEW g, NEW s \in Sessions, NEW state,
           \A x \in Sessions \ {s} : g[x] = f[x]
    PROVE  /\ Cardinality(In(f, state)) \in Nat
           /\ Cardinality(In(g, state)) \in Nat
           /\ Cardinality(In(g, state)) <= Cardinality(In(f, state)) + 1
           /\ g[s] # state => Cardinality(In(g, state)) <= Cardinality(In(f, state))
<1> DEFINE A == In(f, state)
           B == In(g, state)
<1>1. A \subseteq Sessions /\ B \subseteq Sessions /\ B \subseteq A \cup {s} /\ (g[s] # state => B \subseteq A)
  BY DEF In
<1> HIDE DEF A, B
<1>2. IsFiniteSet(A) /\ IsFiniteSet(B) /\ Cardinality(A) \in Nat /\ Cardinality(B) \in Nat
  BY <1>1, SessionsAreFinite, FS_Subset, FS_CardinalityType
<1>3. IsFiniteSet(A \cup {s}) /\ Cardinality(A \cup {s}) <= Cardinality(A) + 1
  <2>1. IsFiniteSet(A \cup {s}) /\ (s \notin A => Cardinality(A \cup {s}) = Cardinality(A) + 1)
    BY <1>2, FS_AddElement
  <2>2. s \in A => A \cup {s} = A
    OBVIOUS
  <2> QED
    BY <1>2, <2>1, <2>2
<1>4. Cardinality(B) <= Cardinality(A \cup {s}) /\ Cardinality(A \cup {s}) \in Nat
  BY <1>1, <1>3, FS_Subset, FS_CardinalityType
<1>5. Cardinality(B) <= Cardinality(A) + 1
  BY <1>2, <1>3, <1>4
<1>6. g[s] # state => Cardinality(B) <= Cardinality(A)
  BY <1>1, <1>2, FS_Subset
<1> QED
  BY <1>2, <1>5, <1>6 DEF A, B

(* The same coroutine of every other session stands where it stood.        *)
OthersStay(f, g, s) == \A x \in Sessions \ {s} : g[x] = f[x]

(* No lane is exceeded after a step of one session, if it enters a lane    *)
(* only where a permit was free.                                           *)
LEMMA LanesKept ==
    ASSUME TypeOK, NEW s \in Sessions,
           OthersStay(call, call', s), OthersStay(ask, ask', s), OthersStay(exec, exec', s),
           \/ /\ call'[s] # "running" \/ call' = call
              /\ ask'[s] # "removing" \/ ask' = ask
              /\ exec'[s] # "inspecting" \/ exec' = exec
              /\ exec'[s] # "running" \/ exec' = exec
           \/ /\ CtlBusy < CtlLane
              /\ exec'[s] # "running" \/ exec' = exec
              /\ \/ ask' = ask /\ exec' = exec
                 \/ call' = call /\ exec' = exec
                 \/ call' = call /\ ask' = ask
           \/ ExecBusy < ExecLane /\ call' = call /\ ask' = ask /\ exec'[s] # "inspecting"
    PROVE  CtlBusy' <= CtlLane /\ ExecBusy' <= ExecLane
<1> DEFINE Count(f, state) == Cardinality(In(f, state))
<1>1. /\ Count(call, "running") \in Nat /\ Count(call', "running") \in Nat
      /\ Count(call', "running") <= Count(call, "running") + 1
      /\ call'[s] # "running" => Count(call', "running") <= Count(call, "running")
  BY OneMoves DEF OthersStay
<1>2. /\ Count(ask, "removing") \in Nat /\ Count(ask', "removing") \in Nat
      /\ Count(ask', "removing") <= Count(ask, "removing") + 1
      /\ ask'[s] # "removing" => Count(ask', "removing") <= Count(ask, "removing")
  BY OneMoves DEF OthersStay
<1>3. \A state \in {"running", "inspecting"} :
        /\ Count(exec, state) \in Nat /\ Count(exec', state) \in Nat
        /\ Count(exec', state) <= Count(exec, state) + 1
        /\ exec'[s] # state => Count(exec', state) <= Count(exec, state)
  BY OneMoves DEF OthersStay
<1>4. /\ CtlBusy = Count(call, "running") + Count(ask, "removing") + Count(exec, "inspecting")
      /\ ExecBusy = Count(exec, "running")
  BY Lanes
<1>5. /\ CtlBusy' = Count(call', "running") + Count(ask', "removing") + Count(exec', "inspecting")
      /\ ExecBusy' = Count(exec', "running")
  BY DEF CtlBusy, ExecBusy, In
<1>6. CtlBusy <= CtlLane /\ ExecBusy <= ExecLane
  BY DEF TypeOK
<1> HIDE DEF Count
<1> QED
  BY <1>1, <1>2, <1>3, <1>4, <1>5, <1>6, LanesAreUsable

-----------------------------------------------------------------------------
(* One session moves.                                                      *)
Alone(s) ==
    /\ OthersStay(call, call', s) /\ OthersStay(ask, ask', s) /\ OthersStay(exec, exec', s)
    /\ OthersStay(container, container', s)
    /\ \A x \in Sessions \ {s} : \A c \in Commands : <<c, x>> \in cli' => <<c, x>> \in cli

(* What TypeOK says without the lanes.                                     *)
Typed ==
    /\ call \in [Sessions -> CallStates]
    /\ ask \in [Sessions -> AskStates]
    /\ exec \in [Sessions -> ExecStates]
    /\ cli \in SUBSET (Commands \X Sessions)
    /\ container \in [Sessions -> Containers]
    /\ cameUp \in SUBSET Sessions
    /\ seenDown \in SUBSET Sessions

LEMMA TypedIs == TypeOK <=> Typed /\ CtlBusy <= CtlLane /\ ExecBusy <= ExecLane
  BY DEF TypeOK, Typed, CallStates, AskStates, ExecStates, Commands, Containers

(* A step of create.                                                       *)
LEMMA CreateStep ==
    ASSUME IInv, NEW s \in Sessions, Create(s)
    PROVE  /\ Typed' /\ Alone(s) /\ Fits(s)' /\ CtlBusy' <= CtlLane /\ ExecBusy' <= ExecLane
           /\ ask' = ask /\ exec' = exec /\ container' = container /\ cameUp' = cameUp
<1>1. Typed /\ TypeOK
  BY TypedIs DEF IInv
<1>2. /\ ask' = ask /\ exec' = exec /\ container' = container /\ cameUp' = cameUp /\ seenDown' = seenDown
      /\ \/ call'[s] # "running"
         \/ CtlBusy < CtlLane
      /\ \E to \in CallStates \ {"idle"} : call' = [call EXCEPT ![s] = to]
      /\ \/ cli' = cli \cup {<<"run", s>>}
         \/ cli' = cli \ {<<"run", s>>}
         \/ cli' = cli
  BY <1>1 DEF Create, StartCreate, SpawnRun, RunEnds, RunSucceeds, RunFails, CancelCreate, CallGoes,
       Spawn, Ends, history, CallStates, Typed
<1>3. Typed'
  BY <1>1, <1>2 DEF Typed, Commands
<1>4. Alone(s)
  BY <1>1, <1>2 DEF Alone, OthersStay, Typed
<1>5. Fits(s)'
  BY <1>1, <1>2 DEF IInv, Fits, Typed
<1>6. CtlBusy' <= CtlLane /\ ExecBusy' <= ExecLane
  BY <1>1, <1>2, <1>4, LanesKept DEF Alone
<1> QED
  BY <1>2, <1>3, <1>4, <1>5, <1>6

(* A step of destroy.                                                      *)
LEMMA DestroyStep ==
    ASSUME IInv, NEW s \in Sessions, Destroy(s)
    PROVE  /\ Typed' /\ Alone(s) /\ Fits(s)' /\ CtlBusy' <= CtlLane /\ ExecBusy' <= ExecLane
           /\ call' = call /\ exec' = exec /\ container' = container /\ cameUp' = cameUp
<1>1. Typed /\ TypeOK
  BY TypedIs DEF IInv
<1>2. /\ call' = call /\ exec' = exec /\ container' = container /\ cameUp' = cameUp /\ seenDown' = seenDown
      /\ \/ ask'[s] # "removing"
         \/ CtlBusy < CtlLane
      /\ \E to \in AskStates \ {"none"} : ask' = [ask EXCEPT ![s] = to]
      /\ \/ cli' = cli \cup {<<"rm", s>>}
         \/ cli' = cli \ {<<"rm", s>>}
         \/ cli' = cli
  BY <1>1 DEF Destroy, StartDestroy, SpawnRm, RmEnds, CancelDestroy, AskGoes,
       Spawn, Ends, history, AskStates, Typed
<1>3. Typed'
  BY <1>1, <1>2 DEF Typed, Commands
<1>4. Alone(s)
  BY <1>1, <1>2 DEF Alone, OthersStay, Typed
<1>5. Fits(s)'
  BY <1>1, <1>2 DEF IInv, Fits, Typed
<1>6. CtlBusy' <= CtlLane /\ ExecBusy' <= ExecLane
  BY <1>1, <1>2, <1>4, LanesKept DEF Alone
<1> QED
  BY <1>2, <1>3, <1>4, <1>5, <1>6

(* A step of an exec.                                                      *)
LEMMA ExecStep ==
    ASSUME IInv, NEW s \in Sessions, Exec(s)
    PROVE  /\ Typed' /\ Alone(s) /\ Fits(s)' /\ CtlBusy' <= CtlLane /\ ExecBusy' <= ExecLane
           /\ call' = call /\ ask' = ask /\ container' = container /\ cameUp' = cameUp
<1>1. Typed /\ TypeOK
  BY TypedIs DEF IInv
<1>2. /\ call' = call /\ ask' = ask /\ container' = container /\ cameUp' = cameUp
      /\ seenDown' \in SUBSET Sessions
      /\ \/ exec'[s] \notin {"running", "inspecting"}
         \/ exec'[s] = "inspecting" /\ CtlBusy < CtlLane
         \/ exec'[s] = "running" /\ ExecBusy < ExecLane
      /\ \E to \in ExecStates : exec' = [exec EXCEPT ![s] = to]
      /\ \E c \in {"exec", "inspect"} :
            \/ cli' = cli \cup {<<c, s>>}
            \/ cli' = cli \ {<<c, s>>}
            \/ cli' = cli
  BY <1>1 DEF Exec, StartExec, SpawnExec, ExecAnswers, ExecLooksGone, SpawnInspect, InspectEnds,
       InspectFindsUp, InspectFindsDown, InspectFails, CancelExec, ExecGoes,
       Spawn, Ends, history, ExecStates, Typed
<1>3. Typed'
  BY <1>1, <1>2 DEF Typed, Commands
<1>4. Alone(s)
  BY <1>1, <1>2 DEF Alone, OthersStay, Typed
<1>5. Fits(s)'
  BY <1>1, <1>2 DEF IInv, Fits, Typed
<1>6. CtlBusy' <= CtlLane /\ ExecBusy' <= ExecLane
  BY <1>1, <1>2, <1>4, LanesKept DEF Alone
<1> QED
  BY <1>2, <1>3, <1>4, <1>5, <1>6

(* A step of docker.                                                       *)
LEMMA DockerStep ==
    ASSUME IInv, NEW s \in Sessions, Docker(s)
    PROVE  /\ Typed' /\ Alone(s) /\ Fits(s)' /\ CtlBusy' <= CtlLane /\ ExecBusy' <= ExecLane
           /\ UNCHANGED coroutines
<1>1. Typed /\ TypeOK
  BY TypedIs DEF IInv
<1>2. UNCHANGED coroutines
  BY DEF Docker, DaemonCreates, DaemonStarts, DaemonRemoves, Expire, OrphanEnds, ContainerGoes
<1>3. CASE OrphanEnds(s)
  <2>1. cli' \subseteq cli /\ container' = container /\ cameUp' = cameUp /\ seenDown' = seenDown
    BY <1>3 DEF OrphanEnds, Ends, history
  <2> QED
    BY <1>1, <1>2, <2>1 DEF IInv, Typed, TypeOK, Alone, OthersStay, Fits, coroutines, CtlBusy, ExecBusy
<1>4. CASE ~OrphanEnds(s)
  <2>1. /\ cli' = cli /\ seenDown' = seenDown /\ cameUp' \in {cameUp, cameUp \cup {s}}
        /\ \E to \in Containers : container' = [container EXCEPT ![s] = to]
        /\ <<"run", s>> \in cli \/ container[s] # "absent"
    BY <1>1, <1>4 DEF Docker, DaemonCreates, DaemonStarts, DaemonRemoves, Expire, ContainerGoes, Containers
  <2> QED
    BY <1>1, <1>2, <2>1 DEF IInv, Typed, TypeOK, Alone, OthersStay, Fits, coroutines, CtlBusy, ExecBusy
<1> QED
  BY <1>2, <1>3, <1>4

(* The process dies: nobody waits in a lane any longer.                    *)
LEMMA RestartStep ==
    ASSUME IInv, Restart
    PROVE  IInv'
<1>1. Typed
  BY TypedIs DEF IInv
<1>2. Typed' /\ \A s \in Sessions : Fits(s)'
  BY <1>1 DEF IInv, Restart, Typed, Fits, CallStates, AskStates, ExecStates, history
<1>3. In(call', "running") = {} /\ In(ask', "removing") = {}
      /\ In(exec', "inspecting") = {} /\ In(exec', "running") = {}
  BY <1>1 DEF Restart, In, Typed
<1>4. CtlBusy' = 0 /\ ExecBusy' = 0
  BY <1>3, FS_EmptySet DEF CtlBusy, ExecBusy, In
<1>5. TypeOK'
  BY <1>2, <1>4, LanesAreUsable DEF TypeOK, Typed, CallStates, AskStates, ExecStates, Commands, Containers
<1> QED
  BY <1>2, <1>5 DEF IInv

(* The invariant holds at the start.                                       *)
LEMMA Initially == Init => IInv
<1> SUFFICES ASSUME Init PROVE IInv
  OBVIOUS
<1>1. Typed /\ \A s \in Sessions : Fits(s)
  BY DEF Init, Typed, Fits, CallStates, AskStates, ExecStates, Commands, Containers
<1>2. In(call, "running") = {} /\ In(ask, "removing") = {}
      /\ In(exec, "inspecting") = {} /\ In(exec, "running") = {}
  BY DEF Init, In
<1>3. CtlBusy = 0 /\ ExecBusy = 0
  BY <1>2, Lanes, FS_EmptySet
<1> QED
  BY <1>1, <1>3, TypedIs, LanesAreUsable DEF IInv

(* The invariant is inductive.                                             *)
THEOREM Invariance == Spec => []IInv
<1>1. IInv /\ [Next]_vars => IInv'
  <2> SUFFICES ASSUME IInv, [Next]_vars PROVE IInv'
    OBVIOUS
  <2>1. ASSUME NEW s \in Sessions, Create(s) \/ Destroy(s) \/ Exec(s) \/ Docker(s) PROVE IInv'
    <3>1. Typed' /\ Alone(s) /\ Fits(s)' /\ CtlBusy' <= CtlLane /\ ExecBusy' <= ExecLane
      BY <2>1, CreateStep, DestroyStep, ExecStep, DockerStep
    <3>2. \A x \in Sessions : Fits(x)'
      BY <3>1 DEF IInv, Alone, OthersStay, Fits, Commands
    <3>3. TypeOK'
      BY <3>1 DEF TypeOK, Typed, CallStates, AskStates, ExecStates, Commands, Containers
    <3> QED
      BY <3>2, <3>3 DEF IInv
  <2>2. CASE Restart
    BY <2>2, RestartStep
  <2>3. CASE UNCHANGED vars
    BY <2>3 DEF vars, coroutines, history, IInv, TypeOK, Fits, CtlBusy, ExecBusy
  <2> QED
    BY <2>1, <2>2, <2>3 DEF Next
<1> QED
  BY Initially, <1>1, PTL DEF Spec

(* Type correctness: no lane is exceeded.                                  *)
THEOREM Typing == Spec => []TypeOK
<1>1. IInv => TypeOK
  BY DEF IInv
<1> QED
  BY <1>1, Invariance, PTL

-----------------------------------------------------------------------------
(* What the backend sees of a call, and of a box.                          *)
LEMMA Views ==
    ASSUME NEW c, NEW b
    PROVE  /\ c = "idle" => CallSeen(c) = "none"
           /\ c \in {"queued", "running"} => CallSeen(c) = "open"
           /\ c = "returned" => CallSeen(c) = "returned"
           /\ c \in {"raised", "cancelled", "lost"} => CallSeen(c) = "failed"
           /\ c = "idle" /\ b = "absent" => BoxSeen(c, b) = "none"
           /\ c # "idle" /\ b \in {"absent", "created"} => BoxSeen(c, b) = "starting"
           /\ c # "idle" /\ b = "up" => BoxSeen(c, b) = "up"
           /\ c # "idle" /\ b = "expired" => BoxSeen(c, b) = "over"
           /\ c # "idle" /\ b = "removed" => BoxSeen(c, b) = "removed"
<1>1. c = "idle" => CallSeen(c) = "none"
  BY DEF CallSeen
<1>2. c \in {"queued", "running"} => CallSeen(c) = "open"
  BY DEF CallSeen
<1>3. c = "returned" => CallSeen(c) = "returned"
  BY DEF CallSeen
<1>4. c \in {"raised", "cancelled", "lost"} => CallSeen(c) = "failed"
  BY DEF CallSeen
<1>5. c = "idle" /\ b = "absent" => BoxSeen(c, b) = "none"
  BY DEF BoxSeen
<1>6. c # "idle" /\ b \in {"absent", "created"} => BoxSeen(c, b) = "starting"
  BY DEF BoxSeen
<1>7. c # "idle" /\ b = "up" => BoxSeen(c, b) = "up"
  BY DEF BoxSeen
<1>8. c # "idle" /\ b = "expired" => BoxSeen(c, b) = "over"
  BY DEF BoxSeen
<1>9. c # "idle" /\ b = "removed" => BoxSeen(c, b) = "removed"
  BY DEF BoxSeen
<1> QED
  BY <1>1, <1>2, <1>3, <1>4, <1>5, <1>6, <1>7, <1>8, <1>9

(* The refinement mapping.                                                 *)
Calls == [s \in Sessions |-> CallSeen(call[s])]
Boxes == [s \in Sessions |-> BoxSeen(call[s], container[s])]
Asked == {s \in Sessions : ask[s] # "none"}

(* Nothing the backend sees changes.                                       *)
SeenAlike == Calls' = Calls /\ Boxes' = Boxes /\ Asked' = Asked /\ cameUp' = cameUp

(* A step of create starts, returns or fails a call, or nothing is seen.   *)
LEMMA CreateRefines ==
    ASSUME IInv, NEW s \in Sessions, Create(s)
    PROVE  SeenAlike \/ Backend!Start(s) \/ Backend!Return(s) \/ Backend!Fail({s})
<1>0. /\ call \in [Sessions -> CallStates] /\ container \in [Sessions -> Containers]
      /\ container' = container /\ cameUp' = cameUp /\ Asked' = Asked
  BY CreateStep, TypedIs DEF IInv, Typed, Asked
<1>1. CASE StartCreate(s)
  <2>1. call' = [call EXCEPT ![s] = "queued"] /\ call[s] = "idle" /\ container[s] = "absent"
    BY <1>0, <1>1 DEF StartCreate, CallGoes, IInv, Fits
  <2>2. BoxSeen("queued", "absent") = "starting" /\ CallSeen("queued") = "open"
    BY Views
  <2>3. Calls[s] = "none" /\ Boxes[s] = "none"
    BY <2>1, Views DEF Calls, Boxes
  <2>4. Calls' = [Calls EXCEPT ![s] = "open"] /\ Boxes' = [Boxes EXCEPT ![s] = "starting"]
    BY <1>0, <2>1, <2>2 DEF Calls, Boxes
  <2> QED
    BY <1>0, <2>3, <2>4 DEF Backend!Start, Calls, Boxes, Asked
<1>2. CASE ~StartCreate(s)
  <2> DEFINE c == call'[s]
  <2>1. /\ call' = [call EXCEPT ![s] = c]
        /\ \/ call[s] = "queued" /\ c = "running"
           \/ call[s] = "running" /\ c = "returned" /\ s \in cameUp
           \/ call[s] \in {"queued", "running"} /\ c \in {"raised", "cancelled"}
    BY <1>0, <1>2 DEF Create, SpawnRun, RunEnds, RunSucceeds, RunFails, CancelCreate, CallGoes
  <2> HIDE DEF c
  <2>2. \A b \in Containers : BoxSeen(c, b) = BoxSeen(call[s], b)
    BY <2>1, Views DEF Containers
  <2>3. Boxes' = Boxes /\ Calls' = [Calls EXCEPT ![s] = CallSeen(c)] /\ CallSeen(call[s]) = "open"
    <3>1. CallSeen(call[s]) = "open"
      BY <2>1, Views
    <3>2. Boxes' = Boxes
      BY <1>0, <2>1, <2>2 DEF Boxes
    <3>3. Calls' = [Calls EXCEPT ![s] = CallSeen(c)]
      BY <1>0, <2>1 DEF Calls
    <3> QED
      BY <3>1, <3>2, <3>3
  <2>4. CASE c = "running"
    <3>1. CallSeen(c) = "open"
      BY <2>4, Views
    <3> QED
      BY <1>0, <2>3, <3>1 DEF SeenAlike, Calls
  <2>5. CASE c = "returned"
    BY <1>0, <2>1, <2>3, <2>5, Views DEF Backend!Return, Calls, Boxes, Asked
  <2>6. CASE c \in {"raised", "cancelled"}
    <3>1. Calls' = [x \in Sessions |-> IF x \in {s} THEN "failed" ELSE Calls[x]] /\ Calls[s] = "open"
      <4>1. CallSeen(c) = "failed"
        BY <2>6, Views
      <4> QED
        BY <2>3, <4>1 DEF Calls
    <3> QED
      BY <1>0, <2>3, <3>1 DEF Backend!Fail, Calls, Boxes, Asked
  <2> QED
    BY <2>1, <2>4, <2>5, <2>6
<1> QED
  BY <1>1, <1>2

(* A step of destroy asks for a destroy, or nothing is seen.               *)
LEMMA DestroyRefines ==
    ASSUME IInv, NEW s \in Sessions, Destroy(s)
    PROVE  SeenAlike \/ Backend!Ask(s)
<1>0. /\ cameUp' = cameUp /\ Calls' = Calls /\ Boxes' = Boxes /\ ask \in [Sessions -> AskStates]
  BY DestroyStep, TypedIs DEF Calls, Boxes, IInv, Typed
<1>1. CASE StartDestroy(s)
  <2>1. call[s] = "returned" /\ ask' = [ask EXCEPT ![s] = "queued"]
    BY <1>1 DEF StartDestroy, AskGoes
  <2>2. Calls[s] = "returned" /\ Asked' = Asked \cup {s}
    BY <1>0, <2>1, Views DEF Calls, Asked
  <2> QED
    BY <1>0, <2>2 DEF Backend!Ask, Calls, Boxes, Asked
<1>2. CASE SpawnRm(s) \/ RmEnds(s) \/ CancelDestroy(s)
  <2>1. Asked' = Asked
    BY <1>0, <1>2 DEF SpawnRm, RmEnds, CancelDestroy, AskGoes, Asked
  <2> QED
    BY <1>0, <2>1 DEF SeenAlike
<1> QED
  BY <1>1, <1>2 DEF Destroy

(* A step of docker brings a box up, ends or removes it, or nothing is     *)
(* seen.                                                                   *)
LEMMA DockerRefines ==
    ASSUME IInv, NEW s \in Sessions, Docker(s)
    PROVE  SeenAlike \/ Backend!ComeUp(s) \/ Backend!End(s) \/ Backend!Remove({s})
<1>0. /\ container \in [Sessions -> Containers]
      /\ call' = call /\ Calls' = Calls /\ Asked' = Asked
  BY DockerStep, TypedIs DEF IInv, Typed, coroutines, Calls, Asked
<1>1. CASE DaemonCreates(s)
  <2>1. call[s] # "idle" /\ container[s] = "absent" /\ container' = [container EXCEPT ![s] = "created"]
        /\ cameUp' = cameUp
    BY <1>1 DEF DaemonCreates, ContainerGoes, IInv, Fits
  <2>2. BoxSeen(call[s], "created") = BoxSeen(call[s], "absent")
    BY <2>1, Views
  <2> QED
    BY <1>0, <2>1, <2>2 DEF SeenAlike, Boxes
<1>2. CASE DaemonStarts(s)
  <2>1. call[s] # "idle" /\ container[s] = "created" /\ container' = [container EXCEPT ![s] = "up"]
        /\ cameUp' = cameUp \cup {s}
    BY <1>2 DEF DaemonStarts, ContainerGoes, IInv, Fits
  <2>2. BoxSeen(call[s], "up") = "up" /\ Boxes[s] = "starting"
    BY <2>1, Views DEF Boxes
  <2>3. Boxes' = [Boxes EXCEPT ![s] = "up"]
    BY <1>0, <2>1, <2>2 DEF Boxes
  <2> QED
    BY <1>0, <2>1, <2>2, <2>3 DEF Backend!ComeUp, Calls, Boxes, Asked
<1>3. CASE DaemonRemoves(s)
  <2>1. /\ call[s] # "idle" /\ container[s] \in {"created", "up"} /\ ask[s] # "none"
        /\ container' = [container EXCEPT ![s] = "removed"] /\ cameUp' = cameUp
    BY <1>3 DEF DaemonRemoves, ContainerGoes, IInv, Fits
  <2>2. BoxSeen(call[s], "removed") = "removed" /\ Boxes[s] \in {"starting", "up"} /\ s \in Asked
    BY <2>1, Views DEF Boxes, Asked
  <2>3. Boxes' = [x \in Sessions |-> IF x \in {s} THEN "removed" ELSE Boxes[x]]
    BY <1>0, <2>1, <2>2 DEF Boxes
  <2> QED
    BY <1>0, <2>1, <2>2, <2>3 DEF Backend!Remove, Calls, Boxes, Asked
<1>4. CASE Expire(s)
  <2>1. /\ call[s] # "idle" /\ container[s] = "up"
        /\ container' = [container EXCEPT ![s] = "expired"] /\ cameUp' = cameUp
    BY <1>4 DEF Expire, ContainerGoes, IInv, Fits
  <2>2. BoxSeen(call[s], "expired") = "over" /\ Boxes[s] = "up"
    BY <2>1, Views DEF Boxes
  <2>3. Boxes' = [Boxes EXCEPT ![s] = "over"]
    BY <1>0, <2>1, <2>2 DEF Boxes
  <2> QED
    BY <1>0, <2>1, <2>2, <2>3 DEF Backend!End, Calls, Boxes, Asked
<1>5. CASE OrphanEnds(s)
  BY <1>0, <1>5 DEF OrphanEnds, SeenAlike, Boxes, history
<1> QED
  BY <1>1, <1>2, <1>3, <1>4, <1>5 DEF Docker

(* A crash fails every call that is open, and only those.                  *)
LEMMA RestartRefines ==
    ASSUME IInv, Restart
    PROVE  Backend!Fail({s \in Sessions : Calls[s] = "open"})
<1> DEFINE Open == {s \in Sessions : Calls[s] = "open"}
<1>0. /\ call \in [Sessions -> CallStates] /\ container \in [Sessions -> Containers]
      /\ container' = container /\ cameUp' = cameUp /\ Asked' = Asked
      /\ \A s \in Sessions : call'[s] = IF call[s] \in {"queued", "running"} THEN "lost" ELSE call[s]
  BY TypedIs DEF IInv, Typed, Restart, history, Asked
<1>1. \A s \in Sessions : CallSeen(call'[s]) = IF CallSeen(call[s]) = "open" THEN "failed" ELSE CallSeen(call[s])
  <2> SUFFICES ASSUME NEW s \in Sessions
               PROVE  CallSeen(call'[s]) = IF CallSeen(call[s]) = "open" THEN "failed" ELSE CallSeen(call[s])
    OBVIOUS
  <2>1. CASE call[s] \in {"queued", "running"}
    <3>1. call'[s] = "lost"
      BY <1>0, <2>1
    <3> QED
      BY <2>1, <3>1, Views
  <2>2. CASE call[s] \in {"idle", "returned", "raised", "cancelled", "lost"}
    <3>1. call'[s] = call[s]
      BY <1>0, <2>2
    <3> QED
      BY <2>2, <3>1, Views
  <2> QED
    BY <1>0, <2>1, <2>2 DEF CallStates
<1>2. Calls' = [s \in Sessions |-> IF s \in Open THEN "failed" ELSE Calls[s]]
  BY <1>1 DEF Calls
<1>3. Boxes' = Boxes
  <2>1. ASSUME NEW s \in Sessions PROVE BoxSeen(call'[s], container[s]) = BoxSeen(call[s], container[s])
    <3>1. (call'[s] = "idle") <=> (call[s] = "idle")
      BY <1>0
    <3>2. call[s] = "idle" => container[s] = "absent"
      BY DEF IInv, Fits
    <3>3. container[s] \in Containers
      BY <1>0
    <3> QED
      BY <3>1, <3>2, <3>3, Views DEF Containers
  <2> QED
    BY <1>0, <2>1 DEF Boxes
<1> QED
  BY <1>0, <1>2, <1>3 DEF Backend!Fail, Calls, Boxes, Asked

(* The provider keeps the promises of SessionBackend, whatever processes   *)
(* outlive their coroutines.                                               *)
THEOREM KeepsPromises == Spec => ImplementsBackend
<1>1. Init => Backend!Init
  <2> SUFFICES ASSUME Init PROVE Backend!Init
    OBVIOUS
  <2>1. Calls = [s \in Sessions |-> "none"] /\ Boxes = [s \in Sessions |-> "none"] /\ Asked = {}
    BY Views DEF Init, Calls, Boxes, Asked
  <2> QED
    BY <2>1 DEF Init, Backend!Init, Calls, Boxes, Asked
<1>2. IInv /\ [Next]_vars => [Backend!Next]_Backend!vars
  <2> SUFFICES ASSUME IInv, [Next]_vars PROVE Backend!Next \/ UNCHANGED Backend!vars
    OBVIOUS
  <2>0. SeenAlike => UNCHANGED Backend!vars
    BY DEF SeenAlike, Backend!vars, Calls, Boxes, Asked
  <2>1. ASSUME NEW s \in Sessions, Create(s) \/ Destroy(s) \/ Docker(s)
        PROVE  Backend!Next \/ UNCHANGED Backend!vars
    BY <2>0, <2>1, CreateRefines, DestroyRefines, DockerRefines DEF Backend!Next
  <2>2. ASSUME NEW s \in Sessions, Exec(s)
        PROVE  UNCHANGED Backend!vars
    BY <2>0, <2>2, ExecStep DEF SeenAlike, Calls, Boxes, Asked
  <2>3. CASE Restart
    BY <2>3, RestartRefines DEF Backend!Next
  <2>4. CASE UNCHANGED vars
    BY <2>0, <2>4 DEF vars, coroutines, history, SeenAlike, Calls, Boxes, Asked
  <2> QED
    BY <2>1, <2>2, <2>3, <2>4 DEF Next
<1> QED
  BY <1>1, <1>2, Invariance, PTL DEF Spec, ImplementsBackend, Backend!Spec

-----------------------------------------------------------------------------
(* What follows from the promises, for sessions of this provider.          *)
Contract == INSTANCE SessionBackendProofs WITH call <- Calls, asked <- Asked, box <- Boxes

(* The refinement, with the mapping by its names.                          *)
LEMMA KeepsContract == Spec => Contract!Spec
<1>1. Backend!Init <=> Contract!Init
  BY DEF Backend!Init, Contract!Init, Calls, Boxes, Asked
<1>2. Backend!Next <=> Contract!Next
  BY DEF Backend!Next, Contract!Next, Backend!Fail, Contract!Fail, Backend!Remove, Contract!Remove,
         Backend!Start, Contract!Start, Backend!Return, Contract!Return, Backend!Ask, Contract!Ask,
         Backend!ComeUp, Contract!ComeUp, Backend!End, Contract!End, Calls, Boxes, Asked
<1>3. UNCHANGED Backend!vars <=> UNCHANGED Contract!vars
  BY DEF Backend!vars, Contract!vars, Calls, Boxes, Asked
<1> QED
  BY <1>1, <1>2, <1>3, KeepsPromises, PTL DEF ImplementsBackend, Backend!Spec, Contract!Spec

(* What a session of the contract is, in containers.                       *)
LEMMA ContainersSeen ==
    ASSUME IInv, NEW s \in Sessions
    PROVE  /\ Calls[s] = "returned" <=> call[s] = "returned"
           /\ Boxes[s] = "up" <=> container[s] = "up"
           /\ Boxes[s] = "over" <=> container[s] = "expired"
           /\ Boxes[s] = "removed" <=> container[s] = "removed"
           /\ s \in Asked <=> ask[s] # "none"
<1>1. call[s] \in CallStates /\ container[s] \in Containers /\ (call[s] = "idle" => container[s] = "absent")
  BY TypedIs DEF IInv, Typed, Fits
<1>2. Calls[s] = CallSeen(call[s]) /\ Boxes[s] = BoxSeen(call[s], container[s])
  BY DEF Calls, Boxes
<1>3. Calls[s] = "returned" <=> call[s] = "returned"
  BY <1>1, <1>2, Views DEF CallStates
<1>4. /\ Boxes[s] = "up" <=> container[s] = "up"
      /\ Boxes[s] = "over" <=> container[s] = "expired"
      /\ Boxes[s] = "removed" <=> container[s] = "removed"
  <2>1. CASE call[s] = "idle"
    <3>1. Boxes[s] = "none" /\ container[s] = "absent"
      BY <1>1, <1>2, <2>1, Views
    <3> QED
      BY <3>1
  <2>2. CASE call[s] # "idle"
    BY <1>1, <1>2, <2>2, Views DEF Containers
  <2> QED
    BY <2>1, <2>2
<1> QED
  BY <1>3, <1>4 DEF Asked

(* A container has one life: `docker run -d` returned 0 only once it was   *)
(* up, and a container that was up does not start again.                   *)
ContainerLivesOnce ==
    \A s \in Sessions :
        /\ call[s] = "returned" => s \in cameUp
        /\ s \in cameUp => container[s] \in {"up", "expired", "removed"}

(* create returns only sessions that were up, each with one life.          *)
THEOREM ContainersLiveOnce == Spec => []ContainerLivesOnce
<1>1. IInv /\ Contract!ReturnedWasUp /\ Contract!UsedOnce => ContainerLivesOnce
  BY ContainersSeen DEF Contract!ReturnedWasUp, Contract!UsedOnce, ContainerLivesOnce
<1> QED
  BY <1>1, Invariance, KeepsContract, Contract!SessionsLiveOnce, PTL

(* The container of a session in use (created, its destroy never asked     *)
(* for) stays up until its own end, whatever docker processes without a    *)
(* coroutine are still at work.                                            *)
UsedContainersKept ==
    [][ \A s \in Sessions :
          call[s] = "returned" /\ ask[s] = "none" /\ container[s] = "up" =>
              container'[s] \in {"up", "expired"} ]_vars

(* No process left behind takes a container in use away.                   *)
THEOREM UsedContainersAreKept == Spec => UsedContainersKept
<1> DEFINE Kept == \A s \in Sessions : Contract!InUse(s) /\ Boxes[s] = "up" => Boxes'[s] \in {"up", "over"}
           KeptHere == \A s \in Sessions :
               call[s] = "returned" /\ ask[s] = "none" /\ container[s] = "up" => container'[s] \in {"up", "expired"}
<1>1. IInv /\ IInv' /\ [Kept]_Contract!vars => [KeptHere]_vars
  <2> SUFFICES ASSUME IInv, IInv', [Kept]_Contract!vars, NEW s \in Sessions,
                      call[s] = "returned", ask[s] = "none", container[s] = "up"
               PROVE  container'[s] \in {"up", "expired"}
    OBVIOUS
  <2>1. Contract!InUse(s) /\ Boxes[s] = "up"
    BY ContainersSeen DEF Contract!InUse
  <2>2. Boxes'[s] \in {"up", "over"}
    BY <2>1 DEF Contract!vars
  <2>3. call'[s] \in CallStates /\ container'[s] \in Containers /\ (call'[s] = "idle" => container'[s] = "absent")
    BY DEF IInv, TypeOK, Fits, CallStates, Containers
  <2>4. Boxes'[s] = BoxSeen(call'[s], container'[s])
    BY DEF Boxes
  <2>5. CASE call'[s] = "idle"
    <3>1. Boxes'[s] = "none"
      BY <2>3, <2>4, <2>5, Views
    <3> QED
      BY <2>2, <3>1
  <2>6. CASE call'[s] # "idle"
    BY <2>2, <2>3, <2>4, <2>6, Views DEF Containers
  <2> QED
    BY <2>5, <2>6
<1> QED
  BY <1>1, Invariance, KeepsContract, Contract!SessionsInUseAreKept, PTL
     DEF Contract!KeptWhileInUse, UsedContainersKept

-----------------------------------------------------------------------------
(* What is left behind, and what a 404 is worth.                           *)

(* The coroutine of a create and its `docker run` know of each other; an   *)
(* exec is only ever made in a session that was returned; what the daemon  *)
(* found down during an exec is down for good.                             *)
Settled(s) ==
    /\ call[s] \in {"idle", "queued"} => <<"run", s>> \notin cli /\ container[s] = "absent"
    /\ call[s] = "running" => <<"run", s>> \in cli
    /\ exec[s] # "none" => call[s] = "returned"
    /\ s \in seenDown => container[s] \in {"expired", "removed"}

AllSettled == \A s \in Sessions : Settled(s)

(* A step of create settles its own session and touches no other's.        *)
LEMMA CreateSettles ==
    ASSUME IInv, AllSettled, NEW s \in Sessions, Create(s)
    PROVE  AllSettled'
<1>1. Typed
  BY TypedIs DEF IInv
<1>2. UNCHANGED <<ask, exec, container, seenDown>>
  BY DEF Create, StartCreate, SpawnRun, RunEnds, RunSucceeds, RunFails, CancelCreate, CallGoes, history
<1>3. /\ \A x \in Sessions \ {s} : call'[x] = call[x] /\ (<<"run", x>> \in cli' <=> <<"run", x>> \in cli)
      /\ \/ call[s] = "idle" /\ call'[s] = "queued" /\ cli' = cli
         \/ call[s] = "queued" /\ call'[s] = "running" /\ <<"run", s>> \in cli'
         \/ call[s] \in {"queued", "running"} /\ call'[s] \in {"returned", "raised", "cancelled"}
  BY <1>1 DEF Create, StartCreate, SpawnRun, RunEnds, RunSucceeds, RunFails, CancelCreate, CallGoes,
              Spawn, Ends, Typed
<1> QED
  BY <1>2, <1>3 DEF AllSettled, Settled

(* A step of destroy or of an exec; an exec finds a container down only    *)
(* once that container has had its life.                                   *)
LEMMA OthersSettle ==
    ASSUME IInv, ContainerLivesOnce, AllSettled, NEW s \in Sessions, Destroy(s) \/ Exec(s)
    PROVE  AllSettled'
<1>1. Typed
  BY TypedIs DEF IInv
<1>2. CASE Destroy(s)
  <2>1. /\ UNCHANGED <<call, exec, container, seenDown>>
        /\ \A x \in Sessions : <<"run", x>> \in cli' <=> <<"run", x>> \in cli
    BY <1>2 DEF Destroy, StartDestroy, SpawnRm, RmEnds, CancelDestroy, AskGoes, Spawn, Ends, history
  <2> QED
    BY <2>1 DEF AllSettled, Settled
<1>3. CASE Exec(s)
  <2>1. /\ UNCHANGED <<call, container>>
        /\ \A x \in Sessions : <<"run", x>> \in cli' <=> <<"run", x>> \in cli
    BY <1>3 DEF Exec, StartExec, SpawnExec, ExecAnswers, ExecLooksGone, SpawnInspect, InspectEnds,
                InspectFindsUp, InspectFindsDown, InspectFails, CancelExec, ExecGoes, Spawn, Ends
  <2>2. \A x \in Sessions \ {s} : exec'[x] = exec[x]
    BY <1>1, <1>3, ExecStep DEF Alone, OthersStay
  <2>3. call[s] = "returned"
    BY <1>3 DEF Exec, StartExec, SpawnExec, ExecAnswers, ExecLooksGone, SpawnInspect, InspectEnds,
                InspectFindsUp, InspectFindsDown, InspectFails, CancelExec, ExecGoes, AllSettled, Settled
  <2>4. \/ seenDown' = seenDown
        \/ seenDown' = seenDown \cup {s} /\ container[s] # "up"
    BY <1>3 DEF Exec, StartExec, SpawnExec, ExecAnswers, ExecLooksGone, SpawnInspect, InspectEnds,
                InspectFindsUp, InspectFindsDown, InspectFails, CancelExec, history
  <2>5. container[s] \in {"up", "expired", "removed"}
    BY <2>3 DEF ContainerLivesOnce
  <2>6. Settled(s)'
    BY <2>1, <2>3, <2>4, <2>5 DEF AllSettled, Settled
  <2>7. \A x \in Sessions \ {s} : Settled(x)'
    BY <2>1, <2>2, <2>4 DEF AllSettled, Settled
  <2> QED
    BY <2>6, <2>7 DEF AllSettled
<1> QED
  BY <1>2, <1>3

(* A step of docker, with or without a coroutine that waits for it.        *)
LEMMA DockerSettles ==
    ASSUME IInv, AllSettled, NEW s \in Sessions, Docker(s)
    PROVE  AllSettled'
<1>1. Typed
  BY TypedIs DEF IInv
<1>2. CASE OrphanEnds(s)
  <2>1. /\ UNCHANGED <<call, ask, exec, container, seenDown>>
        /\ \A x \in Sessions : <<"run", x>> \in cli' => <<"run", x>> \in cli
        /\ \A x \in Sessions : <<"run", x>> \in cli /\ <<"run", x>> \notin cli' => x = s /\ call[s] # "running"
    BY <1>2 DEF OrphanEnds, Ends, Waited, coroutines, history
  <2> QED
    BY <2>1 DEF AllSettled, Settled
<1>3. CASE ~OrphanEnds(s)
  <2>1. UNCHANGED <<call, ask, exec, cli, seenDown>>
    BY <1>3 DEF Docker, DaemonCreates, DaemonStarts, DaemonRemoves, Expire, ContainerGoes, coroutines
  <2>2. PICK to \in Containers :
            /\ container' = [container EXCEPT ![s] = to]
            /\ container[s] \in {"absent", "created", "up"}
            /\ <<"run", s>> \in cli \/ container[s] # "absent"
    BY <1>3 DEF Docker, DaemonCreates, DaemonStarts, DaemonRemoves, Expire, ContainerGoes, Containers
  <2> QED
    BY <1>1, <2>1, <2>2 DEF AllSettled, Settled, Typed
<1> QED
  BY <1>2, <1>3

(* AllSettled is inductive, given what the contract says of containers.    *)
LEMMA SettledInvariance == Spec => []AllSettled
<1>1. Init => AllSettled
  BY DEF Init, AllSettled, Settled
<1>2. IInv /\ ContainerLivesOnce /\ AllSettled /\ [Next]_vars => AllSettled'
  <2> SUFFICES ASSUME IInv, ContainerLivesOnce, AllSettled, [Next]_vars PROVE AllSettled'
    OBVIOUS
  <2>1. ASSUME NEW s \in Sessions, Create(s) \/ Destroy(s) \/ Exec(s) \/ Docker(s) PROVE AllSettled'
    BY <2>1, CreateSettles, OthersSettle, DockerSettles
  <2>2. CASE Restart
    BY <2>2 DEF Restart, history, AllSettled, Settled
  <2>3. CASE UNCHANGED vars
    BY <2>3 DEF vars, coroutines, history, AllSettled, Settled
  <2> QED
    BY <2>1, <2>2, <2>3 DEF Next
<1> QED
  BY <1>1, <1>2, Invariance, ContainersLiveOnce, PTL DEF Spec

(* A container that was created and that no `docker run` will start any    *)
(* more is what a create left that failed, was cancelled or died with its  *)
(* process: gvisor.py:108 cleans nothing up, but no client was ever given  *)
(* the id of such a session.                                               *)
LeftoverHasCause ==
    \A s \in Sessions :
        container[s] = "created" /\ <<"run", s>> \notin cli =>
            call[s] \in {"raised", "cancelled", "lost"}

(* A session that was returned is never one of the leftovers.              *)
THEOREM LeftoversHaveCauses == Spec => []LeftoverHasCause
<1>1. IInv /\ AllSettled /\ ContainerLivesOnce => LeftoverHasCause
  BY TypedIs DEF IInv, Typed, CallStates, AllSettled, Settled, ContainerLivesOnce, LeftoverHasCause
<1> QED
  BY <1>1, Invariance, SettledInvariance, ContainersLiveOnce, PTL

(* What _exec_cli answers 404 for is over and stays so: once the daemon    *)
(* found the container of an exec down, it never comes up again.           *)
DownIsFinal == \A s \in seenDown : container[s] \in {"expired", "removed"}

(* A 404 that the daemon confirmed is never taken back.                    *)
THEOREM DownStaysDown == Spec => []DownIsFinal
<1>1. IInv /\ AllSettled => DownIsFinal
  BY TypedIs DEF IInv, Typed, AllSettled, Settled, DownIsFinal
<1> QED
  BY <1>1, Invariance, SettledInvariance, PTL

(* An exec is answered 404 only for a session that is over for good, or    *)
(* because `docker inspect` itself failed: the one cause of what the run   *)
(* gvisor_not_found shows.                                                 *)
NotFoundHasReason ==
    [][ \A s \in Sessions :
          exec[s] # "notFound" /\ exec'[s] = "notFound" =>
              container[s] \in {"expired", "removed"} \/ InspectFails(s) ]_vars

(* A wrong 404 has the failed inspect as its only cause.                   *)
THEOREM NotFoundsHaveReasons == Spec => NotFoundHasReason
<1> DEFINE Justified == \A s \in Sessions :
              exec[s] # "notFound" /\ exec'[s] = "notFound" =>
                  container[s] \in {"expired", "removed"} \/ InspectFails(s)
<1>1. IInv /\ AllSettled /\ ContainerLivesOnce /\ [Next]_vars => [Justified]_vars
  <2> SUFFICES ASSUME IInv, AllSettled, ContainerLivesOnce, Next, NEW x \in Sessions,
                      exec[x] # "notFound", exec'[x] = "notFound"
               PROVE  container[x] \in {"expired", "removed"} \/ InspectFails(x)
    OBVIOUS
  <2>1. Typed
    BY TypedIs DEF IInv
  <2>2. ASSUME NEW s \in Sessions, Exec(s)
        PROVE  container[x] \in {"expired", "removed"} \/ InspectFails(x)
    <3>1. s = x
      BY <2>2, ExecStep DEF Alone, OthersStay
    <3>2. InspectFindsDown(x) \/ InspectFails(x)
      BY <2>1, <2>2, <3>1 DEF Exec, StartExec, SpawnExec, ExecAnswers, ExecLooksGone, SpawnInspect,
         InspectEnds, InspectFindsUp, CancelExec, ExecGoes, Typed
    <3>3. CASE InspectFindsDown(x)
      <4>1. call[x] = "returned" /\ container[x] # "up"
        BY <3>3 DEF InspectFindsDown, ExecGoes, AllSettled, Settled
      <4> QED
        BY <4>1 DEF ContainerLivesOnce
    <3> QED
      BY <3>2, <3>3
  <2>3. ASSUME NEW s \in Sessions, Create(s) \/ Destroy(s) \/ Docker(s) PROVE FALSE
    BY <2>3, CreateStep, DestroyStep, DockerStep DEF coroutines
  <2>4. CASE Restart
    BY <2>4 DEF Restart
  <2> QED
    BY <2>2, <2>3, <2>4 DEF Next
<1> QED
  BY <1>1, Invariance, SettledInvariance, ContainersLiveOnce, PTL DEF Spec, NotFoundHasReason
=============================================================================
