# Verification of llm-sandbox

TLA+ modules, TLC runs and TLAPS proofs for the llm-sandbox service (`src/src/llm_sandbox`):
an HTTP service that gives each caller a sandbox session (a docker container or a Kubernetes
pod), runs commands and files in it, and throws it away. Paths and line numbers below are
relative to `src/src/llm_sandbox/` unless they say otherwise.

## 1. The system

| Component | State it keeps | Operations | Talks to |
|---|---|---|---|
| session cap (`app.py:115-182`, handlers `296-321`) | `_deadlines`, `_pending`, `_lock`, per replica, in memory | `acquire`, `_resync`, `commit`, `rollback`, `release`; POST and DELETE `/sessions` | provider `create`, `destroy`, `live_session_ids` |
| k8s provider, life cycle (`k8s.py:182-390`) | `_ctl_sem` (8 permits), reaper task; the pods themselves | `create`, `_wait_ready`, `destroy`, `_reap_loop`, `live_session_ids` | apiserver, kubelet |
| k8s provider, exec (`k8s.py:394-438`) | `_sem`; one WebSocket per exec | `_exec_cli`, `_stream` | apiserver |
| apiserver client (`k8s.py:101-172`) | HTTP client, cached token | `request`, `_bearer` | apiserver |
| gVisor provider (`gvisor.py`) | `_sem`, `_ctl_sem`; the containers themselves | `create`, `destroy`, `_exec_cli`, `_is_running`, `live_session_ids`, `preflight` | docker CLI through `run_cli` |
| `run_cli` (`base.py:53-96`) | one child process, two buffers | spawn, pump, feed, kill on timeout | the CLI |
| session operations (`base.py:111-193`) | none in the service; files and processes in the session | `exec`, `run_script`, `write_file`, `read_file`, `list_files` | `_exec_cli` of the provider |
| HTTP front: readiness and lifespan (`app.py:49-63, 275-281`) | `app.state.ready` | start-up preflight, `/healthz`, `/readyz`, shutdown | provider |
| HTTP front: body limit (`app.py:185-227`) | bytes received per request | declared and streamed check | ASGI |
| HTTP front: authentication, allowlist, clamps, handlers, exception table | the request | every route from its first check to its answer | session cap, provider |
| configuration, provider factory, wire models | read once | `build_provider`, field bounds | environment |
| logging helpers; Dockerfiles, manifests, scripts | none | | |

Everything runs in one asyncio loop per replica. Replicas share nothing but the backend.

What is hard here, and what correctness means for it:

* **Shared counts around awaits.** `acquire` awaits a recount with a lock held while `commit`,
  `rollback` and `release` change the same counts without it; a client may go away at any await.
  Correct: no count leaks or is taken back twice, the limit holds, a slot is not lost while its
  session lives, a 429 is justified.
* **A backend that does not answer.** A POST or DELETE may take effect after its caller gave up.
  Correct: the caller of a failed create leaves nothing running, except when the answer was lost;
  what is left is swept; nothing in use is ever swept.
* **Work that outlives its coroutine.** A cancelled `run_cli` leaves its docker process running; a
  dropped exec stream leaves the command running in the session. Correct: late effects stay within
  the provider's contract; an acknowledged file write stands.
* **Waiting.** Lanes of limited width and a lock. Correct: every create is answered, and a DELETE
  ends however long execs run.
* **Three clocks on one command.** GNU `timeout` in the session, the service's own wait around the
  call, and the connection's. Correct: the command stops at its deadline whatever became of the
  caller, and what the caller is told is the command's.
* **Pipes.** `run_cli` feeds and drains a child that reads and writes in its own order. Correct: the
  two never wait for each other, and nothing the child wrote before it ended is lost.
* **Boundaries.** Output and request bodies are cut at several limits, in chunks. Correct: the
  `truncated` flag is true exactly when something is missing, a body beyond the limit has no effect,
  and floors and ceilings are applied in the right order.

The hazards are listed one by one, with the line where each bites, in `PROJECT.json`.

## 2. Modules

| Module | Models | Abstract specification |
|---|---|---|
| `SlotPool` | what the session cap promises: a pool of slots per replica | |
| `SessionSlots` | `SessionSlots` and its handlers, several replicas, an abstract backend | implements `SlotPool` |
| `SessionBackend` | what the HTTP layer may rely on in a provider's `create` and `destroy` | |
| `K8sSession` | the k8s provider's life cycle, apiserver, kubelet, reaper | implements `SessionBackend` |
| `GvisorSession` | the gVisor provider over `run_cli`, docker processes and daemon | implements `SessionBackend` |
| `RunCli` | one call of `run_cli`: child, pipes and tasks | |
| `FileContract` | what `write_file` promises of the file at one path | |
| `FileWrite` | `write_file`: the coroutine and the shell script in the session | implements `FileContract` |
| `ExecOutput` | lengths of output from the stream to the caller, for exec, read and list | |
| `ExecCall` | one exec, `run_script`, read or list in time; EXTENDS `ExecOutput` and says when its steps happen | |
| `Service` | the HTTP front: process, requests, what reaches the provider | |
| `SessionSlotsProofs`, `SessionBackendProofs`, `K8sSessionProofs`, `GvisorSessionProofs`, `RunCliProofs`, `FileWriteProofs`, `ExecCallProofs`, `ServiceProofs` | theorems about the module of the same name; `ExecCallProofs` also holds those about `ExecOutput` | |
| `MC...` | the instances TLC checks | |

How they fit: a request is followed by `Service` up to its one call of the provider, by `SessionSlots`
through the cap, by `K8sSession` or `GvisorSession` through `create` and `destroy`, and by `ExecCall`
(with `ExecOutput`) or `FileWrite` through an operation in the session. `RunCli` is the inside of what
`GvisorSession` sees as one docker process. `SlotPool` and `SessionBackend` are the contracts between
these layers: the cap and the HTTP front use a provider only through them. `FileContract` is the same
for the files of a session.

A definition that begins with the comment `Mutant:` is a plausible bug in the operator that follows
it. No specification uses these; `PROJECT.json` says which property notices which of them.

### SessionSlots

A step is the code a coroutine runs between two awaits. A session stands for the request that
creates it (`stage`) and then for the session itself. `deadlines[q]` is the dict `_deadlines` of
replica `q` (a function with a changing domain), `pending[q]` is `_pending`, `lock[q]` the holder of
`_lock`, `snapshot[q]` the set the recount returned and the coroutine still holds. Everything around
`acquire` follows the code: below the cap there is no await, so the count, the check and the
increment are one step (`AcquireBelow`); at the cap the lock stays held (`AcquireAtCap`), the listing
is taken by the backend at some moment (`ListingTaken`) and used later (`ResyncDone`), or the recount
fails, times out or returns `None` (`ResyncFails`). `commit` runs in the step in which `create`
returns; `rollback` in the step in which it raises or is cancelled. `Delete` may be served by any
replica, and the teardown lands or fails later. `Restart` forgets a replica's memory and its requests.
The backend starts sessions, lists them (a session still starting may or may not be listed), lets them
end after their `sleep`, or loses them.

`racing[q]` is a history variable: the creates in flight at `q` when the last listing was taken.

`_pending` has its `max(0, ...)` in the model too, so that it is not negative says nothing; what would
go wrong with a second rollback is `PendingExact`. All bounds are per process life, as the counts are
in memory only.

| Property | Says |
|---|---|
| `TypeOK` | includes that a recount never works with the `None` of a backend that cannot list |
| `PendingExact` | `_pending` is the number of creates in flight; `max(0, ...)` never hides anything |
| `WithinLimit` | entries and creates in flight never exceed the limit |
| `SlotOutlivesSession` | a slot belongs to a session of this process and does not expire before the session's `sleep` |
| `LiveSlotKept` | a live session that nobody asked to delete loses its slot only to a resync whose listing is older than its commit |
| `RejectJustified` | a 429 after a successful recount is backed by creates in flight and listed sessions |
| `ImplementsPool` | with `held` = entries and creates in flight, every step is a step or stutter of `SlotPool` |
| `EveryCreateAnswered` | every request leaves `acquire` and `create` |
| `LiveWithinLimit` | (violated) a replica never holds more live sessions than the limit |

### K8sSession

A request is sent (it takes a permit of `_ctl_sem`), takes effect (`ApiCreates`, `ApiDeletes`,
`ReapLands`) and is answered, in separate steps; the answer may be an error or never come, and the
request may still take effect then. `call[s]` is where `create` stands, `ask[s]` a client's
`destroy`. `_wait_ready` is the state `polling`: it may give up at any poll, which stands for its
deadline, for a phase of Failed or Succeeded and for a fatal waiting reason; `sawReady` separates the
answer from the return. The `except Exception` clause leads to the clean-up, `CancelledError` past it.
The reaper's request has no permit. A pod is unscheduled, scheduled, stuck, ready, finished or
deleted; `activeDeadlineSeconds` counts from the start time a node gives the pod, so only a scheduled
pod can finish (`Finish`).

A status of 400 and above is `PostRefused`: nothing was created. A 5xx that comes after the effect is
an answer that is no use, like a lost one: it is among the outcomes of `PostRaises`.

`excused` is a history variable: creates whose POST or clean-up raised or was refused.

| Property | Says |
|---|---|
| `RaisedLeavesNoPod` | a create that raised left no pod, unless its POST or clean-up got no proper answer |
| `ImplementsBackend` | a create returns only a pod that was Ready; only a failed or given-up create, a destroy or the pod's end lets a pod be deleted |
| `EveryCreateEnds` | no create waits for ever, for the lane or for its pod |
| `EveryScheduledPodSwept` | every pod a node took is deleted in the end |
| `EveryPodGoes` | (violated) every pod is deleted in the end |

### GvisorSession

Each docker command is a process in `cli`. A coroutine holds a permit exactly while it waits for its
process, so the lanes are functions (`CtlBusy`, `ExecBusy`) of the coroutines' states. A timeout kills
the process, but a request that is with the daemon by then may still land; a cancelled coroutine
leaves the process (`run_cli` catches only `TimeoutError`), which goes on talking to the daemon. `docker run` creates, then starts. An exec whose stderr reads like the
daemon's error is confirmed with `docker inspect` through the control lane.

| Property | Says |
|---|---|
| `TypeOK` | includes that no lane is exceeded |
| `ImplementsBackend` | the same contract as for k8s |
| `DeleteNotHeldUp` | a destroy ends even if no exec ever does (`gvisor.py:29`) |
| `NotFoundIsConfirmed` | (violated) a 404 to an exec means the daemon found the container down |

### FileWrite

Several writes to one path. The coroutine (`client`), the upload (`upload`) and the script (`script`)
are separate: when the coroutine gives up, the script only sees its stdin end. The destination is an
inode, because `mv` replaces it, `base64 -d > dest` opens it in place and `rm -f` unlinks it while
another script may be writing. A child that ends its step after its shell was killed looks, to the
caller and in the file, like that step after `GivesUp`, so `Killed` ends the script at once. The shell's precedence is kept: in `A && B && base64 -d || C` the part
`C` runs whenever anything before it fails. A stream that closes without a status counts as exit
code 0 in the code (`_exit_code_from_status`); such an answer is `assumed`, apart from `ok`.

| Property | Says |
|---|---|
| `LastWriteStands` | a write that was answered ok and ran beside no other script is the destination's content until another script starts |
| `PartOnlyWhileDecoding` | part of a payload is visible only while a binary write decodes, or after it was killed there |
| `CutOnlyUnlinks` | a script whose upload was cut leaves what a reader sees, or is a binary write and removes the file: no part of a cut payload gets in |
| `ImplementsContract` | a text write lands whole, in one step, once or never, perhaps after its caller was told of a failure; a success answered on an exit code is of a write that landed |
| `CutUploadsTouchNothing` | (violated) a script whose upload was cut leaves the destination alone |

### ExecOutput

Only lengths. Output arrives in chunks and is kept up to one byte past the cap (`pump`, `_stream`);
`cap_output` or `read_file` cut it again, the latter after `head -c limit+1`. A listing takes one entry past `LIST_MAX_ENTRIES` (`Taken`), prints the first
ones and whether there was one more, and is parsed from what the cap has left of that JSON (`Parses`);
empty output reads as an empty listing. A stream that closes without a status is `assumed` to have ended with 0.

| Property | Says |
|---|---|
| `ExecIsTruthful`, `ReadIsTruthful` | the caller gets as much as the limits allow, and `truncated` is set exactly when something is missing |
| `ListIsTruthful` | a listing has as many entries as the limit allows and is `truncated` exactly when the directory has more; a cut of the output never passes for a short or empty directory |

### ExecCall

The call in time. `wait` is the coroutine in `_exec_cli` (waiting for a permit of `_sem`, opening the
WebSocket, reading it, over), `shell` is what runs in the session, and `clock` counts seconds from the
permit. GNU `timeout` sends TERM at `began + seconds` and KILL a second later; the service waits 2
seconds more than the deadline for an exec, 5 for `run_script`, 30 for a read or a list, and 30 for the
opening. stdin goes out before any frame is read; a script is stored in `/tmp/_run_<uuid>`, compared
with its size, run and removed (`scratch`). The session is told nothing when the coroutine ends: its
stdin is cut, and that is all. A command ends by itself with any code (`Exits`), also 124 or 137. Time stops at a timer that is due (`Due`, `GivesUp`), so a timer is
never late, but everything else may take any time.

| Property | Says |
|---|---|
| `ExecTypeOK` | includes that the deadline handed to `timeout` is never 0, which would mean none |
| `CommandStops` | an exec or script is over one second after its deadline, whatever became of the caller |
| `ScratchRemoved` | only a call killed in the session leaves its file in `/tmp` |
| `CodeIsTheCommands` | an exit code that came over the stream is what the command came to: 0 only if it ran, 124 or 137 whenever it ran past its deadline |
| `NoPathHasReason` | a 404 for a path means a command that failed or a wait that was used up |
| `BackstopIsLast` | the service's wait cuts a call only if the way to the session took the margin |
| `EveryCallAnswered` | every call ends |

That part of a script never runs is not stated: it is the guard of `SizeMatches`.

### RunCli

The child is any program that reads and writes a byte at a time in any order, blocks on a pipe that is
empty or full, exits early, is killed, or leaves a descendant (`heir`) that holds its output open. The
service has one pump per stream, the feeder and the wait for the exit, gathered under `wait_for`
(`call`); a timeout kills the child and waits for it.

| Property | Says |
|---|---|
| `TypeOK` | includes that a pipe holds no more than its size and a buffer no more than its cap |
| `OutputComplete` | a call that returns an exit code has all of the output, up to the cap |
| `NoPipeDeadlock` | child and service never wait for each other; only a descendant can hold a call up |

### Service

One process from its configuration to its end (`life`), and its requests. `Boot` reads the
configuration and builds the provider, which for k8s may refuse; `preflight` asks the backend
(`probing`) and then for the RuntimeClass or the runtime (`runtimes`); its result is `ready`, for good.
A request arrives with a declared length or in chunks, passes `BodyLimitMiddleware`, then FastAPI in
its own order (JSON, `_auth`, fields), then the handler, the cap and one call of the provider; each
check has its own answer. The cap and the provider are seen by their answers alone; a client sends the
body it announced or hangs up.

| Property | Says |
|---|---|
| `TypeOK` | includes that no handler holds more of a body than the limit |
| `OnlyVettedCalls` | what reaches the provider is authorised, whole, for a listed image and clamped, the floor winning |
| `RefusalsHaveNoEffect` | 400, 401, 413, 422, 429 and 503 come without the call of the provider the request is for, 404, 500 and 502 with it; the recount before a 429 only reads |
| `ReadyMeansReached` | `/readyz` says yes only in a process that reached the backend itself |
| `EveryRequestAnswered` | every request is answered, loses its client or its process; a stopping process ends |

## 3. Runs

| Run | Checks | Instance |
|---|---|---|
| `slots` | `TypeOK`, `PendingExact`, `WithinLimit`, `SlotOutlivesSession`, `LiveSlotKept`, `RejectJustified`, `ImplementsPool` | 2 replicas, 3 sessions, limit 1, timeout 3 clamped to 2, clock to 2 |
| `slots_liveness` | `EveryCreateAnswered` | 1 replica, 3 sessions, limit 1, clock stopped |
| `slots_over_admit` | `LiveWithinLimit` is violated | 1 replica, 2 sessions, limit 1 |
| `k8s` | `TypeOK`, `RaisedLeavesNoPod`, `ImplementsBackend`, `EveryCreateEnds`, `EveryScheduledPodSwept` | 2 sessions, lane of 1 |
| `k8s_orphan` | `EveryPodGoes` is violated | 1 session |
| `gvisor` | `TypeOK`, `ImplementsBackend`, `DeleteNotHeldUp` | 2 sessions, both lanes of 1 |
| `gvisor_not_found` | `NotFoundIsConfirmed` is violated | 1 session |
| `file_writes` | `TypeOK`, `LastWriteStands`, `PartOnlyWhileDecoding`, `CutOnlyUnlinks`, `ImplementsContract` | 3 writes, both encodings |
| `file_cut` | `CutUploadsTouchNothing` is violated | 1 write |
| `exec` | the properties of `ExecOutput` and `ExecCall` | cap 2, files of 0 to 4 bytes, directories of 0 to 4 entries around a limit of 2, chunks of 1 and 3, deadlines of 1 and 3 under ceilings of 0 and 2, clock to 9 |
| `run_cli` | `TypeOK`, `OutputComplete`, `NoPipeDeadlock` | pipes of 2, stdin of 0, 1 or 3, cap 2, 3 bytes per stream |
| `service` | `TypeOK`, `OnlyVettedCalls`, `RefusalsHaveNoEffect`, `ReadyMeansReached`, `EveryRequestAnswered` | 1 request at a time, any number one after the other; 5 configurations, bodies of 0, 2 and 3 with a limit of 2, values below, between and above floors and ceilings, and a ceiling below its floor |

Why the bounds are enough. The races of the cap are between a holder of the lock, a create in flight
and a committed session, so three sessions meet all of them; two replicas are enough for a sibling
DELETE and for a restart beside a healthy process; the clock reaches every order of purge, commit and
end of session. A lane is exhausted by one more create than it has permits. Two scripts can interfere
on one inode and a third can arrive between them. Around a cap of 2 every length from below to above
occurs, in chunks that end before, at and after the boundary; the clock passes the largest backstop
(2 + 5 seconds) and the KILL after it. A pipe of 2 with 3 bytes to write on each side fills in both
directions. Requests share nothing in `Service` but the process, so one at a time shows what the
front does. The safety results, of `Service` with any number of requests at once among them, do not
rest on these bounds: they are proved for all (section 5).

The runs of `Service` check for deadlock. The others switch the check off: a service with no request
left, or a finite set of sessions, writes or calls all used up, may stop.

Fairness. `SessionSlots`: strong fairness of acquiring, because an asyncio lock wakes its waiters in
order; weak fairness of the recount (10 s) and of `create` (every request in it has a timeout).
`K8sSession`: strong fairness of taking a permit (a semaphore serves in order), weak fairness of every
request and of the poll loop, which all have deadlines; for the sweep also that the reaper's DELETE
is not refused for ever and that a pod on a node ends (its `sleep` and `activeDeadlineSeconds`).
Nothing is assumed of the scheduler. `GvisorSession`: the same for the control lane; nothing of
execs. `ExecCall`: time passes, timers that are due fire, and a permit comes free (every call that
holds one ends); nothing of the connection or the command. `RunCli`: the event loop runs every task
that can go on; the child goes on where its pipes let it and, free again and again, exits; nothing of
the timeout, so the result is not its doing. `Service`: a client sends its body or hangs up; the tasks
of a running process go on. Cancellation, restarts and failures are never assumed and never excluded.

## 4. What the violations show

* **`slots_over_admit`.** At the cap, request A asks for a listing; the backend takes it before
  session B is listed; B's create returns and commits; A's `_resync` drops B's entry as stale and A is
  admitted: two live sessions at a limit of one. `LiveSlotKept` shows that this is the only way to
  lose the slot of a live session. (`app.py:159`, against `app.py:116` and `src/.env.example:74`)
* **`k8s_orphan`.** A pod is created, its create is dropped (cancelled, lost with the process, or its
  clean-up unanswered), and no node takes the pod. It stays Pending, which the reaper's selector
  leaves out, and no deadline runs. (`k8s.py:300`, against `src/README.md:256` and `k8s.py:255`)
* **`file_cut`.** A base64 write whose upload is cut removes the file that was at the destination.
  (`base.py:162`, against `base.py:160` and `src/tests/test_base.py:95`)
* **`gvisor_not_found`.** A command prints the daemon's error text and fails, and the confirming
  `docker inspect` fails or times out: the caller is told 404 for a session that runs.
  (`gvisor.py:86`, against `gvisor.py:76` and `src/tests/test_gvisor_provider.py:131`)

Disagreements met while modelling that no run is spent on:

* A read or a list whose wait is used up gets exit code 124 from the service and so a 404, although
  `base.py:33` keeps that error for "No such path". `NoPathHasReason` names the case.
* `models.py:44` and `src/README.md:42` say that exit code 124 means that the command hit its deadline.
  A command that ends by itself with 124 gets the same answer, because GNU `timeout` passes it on
  (`base.py:127`). `Exits` of `ExecCall` has such commands, and `CodeIsTheCommands` states only the
  direction that holds.
* An exec is also answered 124 when the backstop or the opening timeout of the WebSocket ends the call.
  `CodeIsTheCommands` speaks of codes that came over the stream, `BackstopIsLast` of the others.
* A stream that closes without a status is answered like exit code 0 (`k8s.py:84`): a write with 200
  that may not have landed, a listing whose output never came as an empty directory. The answer
  `assumed` stands for it; `FileContract` has it promise nothing.
* `/readyz` repeats the one preflight of the start (`app.py:277` and the README speak of the backend
  being reachable). `ReadyMeansReached` says what is true, and
  nothing about a backend that goes away later.
* A read or a list is not wrapped in `timeout`, so its command may outlive the call; `CommandStops` is
  about execs and scripts only.

## 5. Proofs

Every safety property of a passing run is proved with TLAPS for all values of the constants, from the
`ASSUME`s of its module: invariants by an inductive invariant `IInv`, action properties and
refinements from it and the step. The assumptions say that the sessions are finitely many, that lanes
and pipes are not empty, that lengths and times are natural numbers or integers, and that marker values
(`Nobody`, `Nowhere`, `Never`) are not members of the sets they mark. `FileWrite` also assumes that no
write is named like the contents "old", "part" or "mixed".

Beyond these there are theorems of three kinds. Their statements are in the proof modules, but for
those of `CutUploadsOnlyUnlink` and `WritesKeepContract`, which a run also checks.

* **The cause of each finding.** A run with a violation shows that something can go wrong; these
  theorems say that it can go wrong in no other way.

  | Finding | Theorem | Says |
  |---|---|---|
  | `slots_over_admit` | `CapHoldsWithoutRaces` | if no resync uses a listing that a commit has overtaken, a replica never has more live sessions than its cap, whatever is cancelled, fails or is deleted through a sibling |
  | `k8s_orphan` | `OrphansHaveCauses` | a pod yet to start belongs to a create under way, or to one that was cancelled, lost with its process, or raised without a proper answer to its POST or clean-up |
  | `file_cut` | `CutUploadsOnlyUnlink` | a script whose upload was cut leaves the file alone, or is a binary write and removes it |
  | `gvisor_not_found` | `NotFoundsHaveReasons` | a 404 to an exec is for a session that is over for good, or `docker inspect` itself failed |
  | (hazard `gvisor.py:108`) | `LeftoversHaveCauses` | a container that was created and will never start belongs to a create that raised, was cancelled or died: no client holds its id |

* **The safety half of a liveness property.** What a run checks as "every request is answered" under
  fairness rests on nobody holding what another waits for. That part is proved for all instances:
  `LockIsNotLeaked` (`_lock` is held only by a request in its recount, for `EveryCreateAnswered`),
  `PermitsAreNotLost` (the permits of `_ctl_sem` that are not free are with coroutines whose request
  is under way, for `EveryCreateEnds`) and `NobodyIsBlocked` (whatever pipe the child blocks on, the
  task at its other end can go on by itself, for `NoPipeDeadlock`).

* **What follows from a contract.** `SessionBackendProofs` proves of `SessionBackend` alone that a
  session in use loses its box only to the box's own end, that a box lives once and that nothing over
  comes back. Each provider is shown to implement the contract, so `PodsLiveOnce`, `UsedPodsAreKept`,
  `ContainersLiveOnce` and `UsedContainersAreKept` say the same of pods and containers without a new
  induction. `ProvidersFitTheCap` looks the other way: whatever a provider that keeps the contract
  does to a session is among the moves `SessionSlots` allows its backend, so the cap's theorems leave
  nothing out. It speaks of one session's moves; what a listing contains and when a `sleep` runs out
  are assumptions of `SessionSlots` about the backend that the contract has no words for.
  `CallsAreTruthful` brings the theorems on `ExecOutput` to every call in time: the calls take the
  steps of `ExecOutput` by construction, so the theorem adds no induction.
  `WritesKeepContract` shows that `FileWrite` implements `FileContract`: a text write lands whole, in
  one step, at most once, possibly after its caller was told of a failure; only a write that was
  called and is not over changes the file; a success that rests on an exit code is of a write that
  landed, and the 200 for a stream that closed without a status promises nothing.

Module by module:

* `SessionSlotsProofs`: `TypeOK`, `PendingExact`, `WithinLimit`, `SlotOutlivesSession`, `LiveSlotKept`,
  `RejectJustified`, `ImplementsPool`, for any replicas, limit (also none), timeouts and clock.
  The invariant adds `HandlersHaveHomes` (a request being handled has a replica), `LockHeld` (who is in
  a recount holds the lock, so two recounts of a replica never overlap), `TeardownAfterDelete`,
  `BootedInTime` (a session that came up before its create returned ends no later than a slot
  committed now would) and `ListingCovers` (what lives or is in flight while a listing waits to be used
  is in the listing or was in flight when it was taken). `CapHoldsWithoutRaces` is proved under
  `[][NoRacedResync]`, an assumption about the execution that holds of every one in which commits do
  not overtake a listing; its own invariant is `LiveAreTracked`: every live session of a replica that
  nobody deleted has an entry there. Entries are bounded by `WithinLimit`, so live sessions are.
* `SessionBackendProofs`: the invariant says what call, box and `cameUp` of a session know of each
  other.
* `K8sSessionProofs`: `TypeOK`, `RaisedLeavesNoPod`, `ImplementsBackend`, for any sessions and lane.
  The invariant adds what the coroutines, requests and pod of one session know of each other (`Fits`:
  a POST in flight has no pod yet, a DELETE in flight is for a failed create or was asked for, a
  clean-up is in flight or has worked) and `PermitsAreHeld`: the free permits are those no coroutine
  will give back, without which `free` could not be shown to stay within the lane.
* `GvisorSessionProofs`: `TypeOK` (no lane is exceeded) and `ImplementsBackend`, for any sessions and
  lanes. `Fits` ties processes and containers to coroutines that may be long gone. For the causes,
  `AllSettled` adds that a create under way has its `docker run`, that only returned sessions have
  execs, and that what the daemon found down stays down; it is inductive only together with what the
  contract says (`ContainersLiveOnce`).
* `FileWriteProofs`: `TypeOK`, `LastWriteStands`, `PartOnlyWhileDecoding`, `CutOnlyUnlinks` and
  `ImplementsContract`, for any number of writes.
  `Standing` says that the write whose script started last and met no other has the destination for
  itself until the next script starts. `ScriptEffect` sums up what each step of a script does to a
  reader's view; the refinement and `CutUploadsOnlyUnlink` are read off it.
* `ExecCallProofs`, on `ExecOutput`: `TypeOK`, `ExecIsTruthful`, `ReadIsTruthful`, `ListIsTruthful`, for
  every cap, length, number of entries, limit and division into chunks. The heart is `KeptExtends`: keeping a chunk on top
  of the first `Cap+1` bytes keeps the first `Cap+1` bytes of the longer stream. On `ExecCall`:
  `ExecTypeOK`, `CommandStops`, `ScratchRemoved`, `CodeIsTheCommands`, `NoPathHasReason` and
  `BackstopIsLast`.
* `RunCliProofs`: `TypeOK` and `OutputComplete`, for any pipe, cap and child. A pump that is over has
  seen the end of its stream, which comes only when nobody is left who could write; so while the child
  runs both pumps do, which is also why nobody blocks.
* `ServiceProofs`: `TypeOK`, `OnlyVettedCalls`, `RefusalsHaveNoEffect`, `ReadyMeansReached`, for any
  number of requests, limits and configurations. A step changes one request or the process, so the
  invariant says what one request must satisfy at each stage (`Fits`) and what the process must.

Only model-checked: every liveness property (`EveryCreateAnswered`, `EveryCreateEnds`,
`EveryScheduledPodSwept`, `DeleteNotHeldUp`, `EveryCallAnswered`, `NoPipeDeadlock`,
`EveryRequestAnswered`), because liveness under fairness and `ENABLED` are out of the prover's reach;
where a theorem speaks of a step that can be taken, it states the guard. No module with a theorem uses
a recursive operator or needs induction over data, which the prover cannot do either.

## 6. Plan

1. Done: every component with state of its own is modelled, checked, and its safety properties proved,
   with the causes of the findings.
2. Next: a specification that puts the handlers of `SessionSlots` on top of `SessionBackend` step by
   step, proved to implement `SessionSlots`, in place of the move-by-move `ProvidersFitTheCap`; a
   second request in the `service` run once its state space allows it.

## Not modelled

* The apiserver client and its token cache (`k8s.py:101-172`): a thin HTTP client. The token is read
  again every 60 seconds and is replaced long before it expires, so a copy one minute old is as good.
* Encodings: a read is returned as UTF-8 or base64 depending on its bytes. Only lengths are modelled.
* Reading the environment and the field validation of pydantic: a nondeterministic choice of values.
  `live_session_ids` of both providers is modelled by its answers (`SessionSlots`).
* Quoting of shell commands, formatting of errors and logs: no property is about them.
* uvicorn, FastAPI, asyncio, docker, the apiserver, the kubelet and the programs that run in a session
  are external: they are modelled by how the code uses them.
* Dockerfiles, manifests and shell scripts deploy the service but are not its logic.
