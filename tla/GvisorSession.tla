--------------------------- MODULE GvisorSession ---------------------------
(***************************************************************************)
(* Sessions as containers: create, destroy, _exec_cli and _is_running of   *)
(* providers/gvisor.py over run_cli of providers/base.py, with the docker  *)
(* CLI processes they start and the daemon behind them.                    *)
(*                                                                         *)
(* A coroutine holds a permit of its lane exactly while it waits for its   *)
(* CLI process, so the lanes are functions of the coroutines' states.      *)
(* run_cli kills the process on a timeout and leaves it running when the   *)
(* coroutine is cancelled; what the daemon was told stays told.            *)
(* Bound: a session gets one exec and one destroy.                         *)
(***************************************************************************)
EXTENDS Integers, FiniteSets

CONSTANTS
    Sessions,   \* calls of create; each draws a session id of its own
    ExecLane,   \* permits of _sem (SANDBOX_MAX_CONCURRENCY)
    CtlLane     \* permits of _ctl_sem (8)

ASSUME SessionsAreFinite == IsFiniteSet(Sessions)
ASSUME LanesAreUsable == ExecLane \in Nat \ {0} /\ CtlLane \in Nat \ {0}

VARIABLES
    call,        \* call[s]: the coroutine of create(s)
    ask,         \* ask[s]: the coroutine of destroy(s)
    exec,        \* exec[s]: the coroutine of an exec in s
    cli,         \* docker processes alive, or killed with a request at the
                 \* daemon: pairs of a command and a session
    container,   \* container[s]: the container of s
    cameUp,      \* history: sessions whose container was up once
    seenDown     \* history: sessions whose container was found not running
                 \* by the daemon while their exec was under way

coroutines == <<call, ask, exec>>
history == <<cameUp, seenDown>>
vars == <<coroutines, cli, container, history>>

CtlBusy ==
    Cardinality({s \in Sessions : call[s] = "running"})
    + Cardinality({s \in Sessions : ask[s] = "removing"})
    + Cardinality({s \in Sessions : exec[s] = "inspecting"})

ExecBusy == Cardinality({s \in Sessions : exec[s] = "running"})

(* The lanes are part of it: no more permits are taken than there are.     *)
TypeOK ==
    /\ call \in [Sessions -> {"idle", "queued", "running", "returned", "raised",
                              "cancelled", "lost"}]
    /\ ask \in [Sessions -> {"none", "queued", "removing", "done"}]
    /\ exec \in [Sessions -> {"none", "queued", "running", "suspect", "inspecting",
                              "answered", "notFound", "cancelled"}]
    /\ cli \in SUBSET ({"run", "rm", "exec", "inspect"} \X Sessions)
    /\ container \in [Sessions -> {"absent", "created", "up", "expired", "removed"}]
    /\ cameUp \in SUBSET Sessions
    /\ seenDown \in SUBSET Sessions
    /\ CtlBusy <= CtlLane
    /\ ExecBusy <= ExecLane

Init ==
    /\ call = [s \in Sessions |-> "idle"]
    /\ ask = [s \in Sessions |-> "none"]
    /\ exec = [s \in Sessions |-> "none"]
    /\ cli = {}
    /\ container = [s \in Sessions |-> "absent"]
    /\ cameUp = {}
    /\ seenDown = {}

CallGoes(s, from, to) ==
    call[s] \in from /\ call' = [call EXCEPT ![s] = to] /\ UNCHANGED <<ask, exec>>
AskGoes(s, from, to) ==
    ask[s] \in from /\ ask' = [ask EXCEPT ![s] = to] /\ UNCHANGED <<call, exec>>
ExecGoes(s, from, to) ==
    exec[s] \in from /\ exec' = [exec EXCEPT ![s] = to] /\ UNCHANGED <<call, ask>>

Spawn(command, s) == cli' = cli \cup {<<command, s>>}

(* The process exited by itself or was killed by run_cli.                  *)
Ends(command, s) == cli' = cli \ {<<command, s>>}

-----------------------------------------------------------------------------
(* create: docker run -d --rm                                              *)

StartCreate(s) ==
    /\ CallGoes(s, {"idle"}, "queued")
    /\ UNCHANGED <<cli, container, history>>

SpawnRun(s) ==
    /\ CtlBusy < CtlLane
    /\ CallGoes(s, {"queued"}, "running")
    /\ Spawn("run", s)
    /\ UNCHANGED <<container, history>>

(* Mutant: the id is returned whatever `docker run` said.                  *)
RunUnchecked(s) ==
    /\ CallGoes(s, {"running"}, "returned")
    /\ Ends("run", s)
    /\ UNCHANGED <<container, history>>

(* rc 0: `docker run -d` exits once the container has started.             *)
RunSucceeds(s) ==
    /\ s \in cameUp
    /\ CallGoes(s, {"running"}, "returned")
    /\ Ends("run", s)
    /\ UNCHANGED <<container, history>>

(* rc # 0: the daemon refused, or run_cli killed the process after 60 s,   *)
(* and what it had asked of the daemon may still be done.  Nothing is      *)
(* cleaned up.                                                             *)
RunFails(s) ==
    /\ CallGoes(s, {"running"}, "raised")
    /\ Ends("run", s) \/ UNCHANGED cli
    /\ UNCHANGED <<container, history>>

CancelCreate(s) ==
    /\ CallGoes(s, {"queued", "running"}, "cancelled")
    /\ UNCHANGED <<cli, container, history>>

-----------------------------------------------------------------------------
(* destroy: docker rm -f                                                   *)

StartDestroy(s) ==
    /\ call[s] = "returned"
    /\ AskGoes(s, {"none"}, "queued")
    /\ UNCHANGED <<cli, container, history>>

(* Mutant: destroy without control=True.                                   *)
SpawnRmAmongExecs(s) ==
    /\ ExecBusy < ExecLane
    /\ AskGoes(s, {"queued"}, "removing")
    /\ Spawn("rm", s)
    /\ UNCHANGED <<container, history>>

SpawnRm(s) ==
    /\ CtlBusy < CtlLane
    /\ AskGoes(s, {"queued"}, "removing")
    /\ Spawn("rm", s)
    /\ UNCHANGED <<container, history>>

(* Whatever the exit code, which nobody looks at; after 30 s at the latest,*)
(* when the process is killed but not what it asked of the daemon.         *)
RmEnds(s) ==
    /\ AskGoes(s, {"removing"}, "done")
    /\ Ends("rm", s) \/ UNCHANGED cli
    /\ UNCHANGED <<container, history>>

CancelDestroy(s) ==
    /\ AskGoes(s, {"queued", "removing"}, "done")
    /\ UNCHANGED <<cli, container, history>>

-----------------------------------------------------------------------------
(* _exec_cli: docker exec, and docker inspect when in doubt                *)

StartExec(s) ==
    /\ call[s] = "returned"
    /\ ExecGoes(s, {"none"}, "queued")
    /\ UNCHANGED <<cli, container, history>>

SpawnExec(s) ==
    /\ ExecBusy < ExecLane
    /\ ExecGoes(s, {"queued"}, "running")
    /\ Spawn("exec", s)
    /\ UNCHANGED <<container, history>>

(* The command ran, or the backstop killed the CLI: exit code 124.         *)
ExecAnswers(s) ==
    /\ ExecGoes(s, {"running"}, "answered")
    /\ Ends("exec", s)
    /\ UNCHANGED <<container, history>>

(* A non-zero exit code, and stderr reads like the daemon's "No such       *)
(* container": it is the daemon's when the container is down, and what the *)
(* command printed when it is up.                                          *)
ExecLooksGone(s) ==
    /\ ExecGoes(s, {"running"}, "suspect")
    /\ Ends("exec", s)
    /\ seenDown' = IF container[s] = "up" THEN seenDown ELSE seenDown \cup {s}
    /\ UNCHANGED <<container, cameUp>>

(* Mutant: the confirmation runs outside the lanes.                        *)
SpawnInspectOutside(s) ==
    /\ ExecGoes(s, {"suspect"}, "inspecting")
    /\ Spawn("inspect", s)
    /\ UNCHANGED <<container, history>>

SpawnInspect(s) ==
    /\ CtlBusy < CtlLane
    /\ ExecGoes(s, {"suspect"}, "inspecting")
    /\ Spawn("inspect", s)
    /\ UNCHANGED <<container, history>>

(* It is running: the exit code was the command's own.                     *)
InspectFindsUp(s) ==
    /\ container[s] = "up"
    /\ ExecGoes(s, {"inspecting"}, "answered")
    /\ Ends("inspect", s)
    /\ UNCHANGED <<container, history>>

InspectFindsDown(s) ==
    /\ container[s] # "up"
    /\ ExecGoes(s, {"inspecting"}, "notFound")
    /\ Ends("inspect", s)
    /\ seenDown' = seenDown \cup {s}
    /\ UNCHANGED <<container, cameUp>>

(* rc # 0 or 15 s: _is_running says False all the same.                    *)
InspectFails(s) ==
    /\ ExecGoes(s, {"inspecting"}, "notFound")
    /\ Ends("inspect", s)
    /\ UNCHANGED <<container, history>>

CancelExec(s) ==
    /\ ExecGoes(s, {"queued", "running", "suspect", "inspecting"}, "cancelled")
    /\ UNCHANGED <<cli, container, history>>

(* The process dies: its coroutines and lanes with it, its CLI processes   *)
(* and the containers stay.                                                *)
Restart ==
    /\ call' = [s \in Sessions |->
            IF call[s] \in {"queued", "running"} THEN "lost" ELSE call[s]]
    /\ ask' = [s \in Sessions |-> IF ask[s] = "none" THEN "none" ELSE "done"]
    /\ exec' = [s \in Sessions |->
            IF exec[s] \in {"queued", "running", "suspect", "inspecting"}
            THEN "cancelled" ELSE exec[s]]
    /\ UNCHANGED <<cli, container, history>>

-----------------------------------------------------------------------------
(* The docker CLI and its daemon                                           *)

ContainerGoes(s, from, to) ==
    /\ container[s] \in from
    /\ container' = [container EXCEPT ![s] = to]
    /\ UNCHANGED <<coroutines, cli, seenDown>>

(* `docker run` asks the daemon twice: to create, then to start.           *)
DaemonCreates(s) ==
    <<"run", s>> \in cli /\ ContainerGoes(s, {"absent"}, "created") /\ UNCHANGED cameUp
DaemonStarts(s) ==
    /\ <<"run", s>> \in cli
    /\ ContainerGoes(s, {"created"}, "up")
    /\ cameUp' = cameUp \cup {s}
DaemonRemoves(s) ==
    /\ <<"rm", s>> \in cli
    /\ ContainerGoes(s, {"created", "up"}, "removed")
    /\ UNCHANGED cameUp

(* `sleep` ran out or the container died; --rm.                            *)
Expire(s) == ContainerGoes(s, {"up"}, "expired") /\ UNCHANGED cameUp

(* A process whose coroutine was cancelled ends in its own time, and so    *)
(* does the request of one that was killed.                                *)
Waited(command, s) ==
    CASE command = "run" -> call[s] = "running"
      [] command = "rm" -> ask[s] = "removing"
      [] command = "exec" -> exec[s] = "running"
      [] command = "inspect" -> exec[s] = "inspecting"

OrphanEnds(s) ==
    \E command \in {"run", "rm", "exec", "inspect"} :
        /\ <<command, s>> \in cli
        /\ ~Waited(command, s)
        /\ Ends(command, s)
        /\ UNCHANGED <<coroutines, container, history>>

-----------------------------------------------------------------------------
RunEnds(s) == RunSucceeds(s) \/ RunFails(s)
InspectEnds(s) == InspectFindsUp(s) \/ InspectFindsDown(s) \/ InspectFails(s)

Create(s) == StartCreate(s) \/ SpawnRun(s) \/ RunEnds(s) \/ CancelCreate(s)
Destroy(s) == StartDestroy(s) \/ SpawnRm(s) \/ RmEnds(s) \/ CancelDestroy(s)
Exec(s) ==
    \/ StartExec(s) \/ SpawnExec(s) \/ ExecAnswers(s) \/ ExecLooksGone(s)
    \/ SpawnInspect(s) \/ InspectEnds(s) \/ CancelExec(s)
Docker(s) ==
    DaemonCreates(s) \/ DaemonStarts(s) \/ DaemonRemoves(s) \/ Expire(s) \/ OrphanEnds(s)

Next ==
    \/ \E s \in Sessions : Create(s) \/ Destroy(s) \/ Exec(s) \/ Docker(s)
    \/ Restart

Spec == Init /\ [][Next]_vars

(* Control commands have timeouts (60 s, 30 s, 15 s) and their lane serves *)
(* its waiters in order.  Nothing is assumed of execs.                     *)
Fairness ==
    \A s \in Sessions :
        /\ SF_vars(SpawnRun(s)) /\ SF_vars(SpawnRm(s)) /\ SF_vars(SpawnInspect(s))
        /\ WF_vars(RunEnds(s)) /\ WF_vars(RmEnds(s)) /\ WF_vars(InspectEnds(s))

FairSpec == Spec /\ Fairness

-----------------------------------------------------------------------------
(* The provider keeps the promises of SessionBackend: a create returns     *)
(* only a session whose container started, and only `docker rm` of a       *)
(* session whose destroy was asked for takes a live container away, even   *)
(* when processes outlive the coroutines that started them.                *)
CallSeen(c) ==
    CASE c = "idle" -> "none"
      [] c \in {"queued", "running"} -> "open"
      [] c = "returned" -> "returned"
      [] OTHER -> "failed"

BoxSeen(c, b) ==
    CASE c = "idle" -> "none"
      [] b = "up" -> "up"
      [] b = "expired" -> "over"
      [] b = "removed" -> "removed"
      [] OTHER -> "starting"

Backend == INSTANCE SessionBackend WITH
    call <- [s \in Sessions |-> CallSeen(call[s])],
    asked <- {s \in Sessions : ask[s] # "none"},
    box <- [s \in Sessions |-> BoxSeen(call[s], container[s])]

ImplementsBackend == Backend!Spec

(* "Create/destroy get their own lane so long execs cannot hold up a       *)
(* DELETE": every destroy ends even if no exec ever does.                  *)
DeleteNotHeldUp == \A s \in Sessions : ask[s] = "queued" ~> ask[s] = "done"

(* "Only the daemon can say if the container exists": an exec is answered  *)
(* 404 only if the daemon found its container not running.  A failed       *)
(* `docker inspect` breaks it (see the README).                            *)
NotFoundIsConfirmed == \A s \in Sessions : exec[s] = "notFound" => s \in seenDown
=============================================================================
