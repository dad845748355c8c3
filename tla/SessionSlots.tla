---------------------------- MODULE SessionSlots ----------------------------
(***************************************************************************)
(* The session cap of app.py: class SessionSlots, the handlers POST        *)
(* /sessions and DELETE /sessions/{sid} around it, and the backend they    *)
(* talk to.  Several replicas share one backend and each keeps its own     *)
(* slots in memory.  A session stands for the request that creates it and, *)
(* once created, for the session itself.                                   *)
(*                                                                         *)
(* A step of the model is the code a coroutine runs between two awaits.    *)
(* acquire() holds an asyncio lock across the recount; commit(),           *)
(* rollback() and release() are synchronous and take no lock.              *)
(***************************************************************************)
EXTENDS Integers, FiniteSets, Functions

CONSTANTS
    Replicas,            \* service processes
    Sessions,            \* create requests, one session each
    Limit,               \* SANDBOX_MAX_SESSIONS; no cap when not positive
    Timeouts,            \* timeout_seconds a client may ask for
    MaxSessionSeconds,   \* SANDBOX_MAX_SESSION_SECONDS
    MaxTime,             \* bound: the clock stops here
    Nobody               \* no replica, no request

ASSUME SessionsFinite == IsFiniteSet(Sessions)
ASSUME LimitIsInt == Limit \in Int
ASSUME TimesAreInts ==
    Timeouts \subseteq Int /\ MaxSessionSeconds \in Int /\ MaxTime \in Nat
ASSUME NobodyIsFresh == Nobody \notin Replicas /\ Nobody \notin Sessions

VARIABLES
    now,         \* time.monotonic()
    deadlines,   \* deadlines[q]: _deadlines, a dict from session to reap time
    pending,     \* pending[q]: _pending, creates counted but not committed
    lock,        \* lock[q]: the request holding _lock, or Nobody
    snapshot,    \* snapshot[q]: what the recount under way at q listed
    stage,       \* stage[s]: how far the request for s has come
    home,        \* home[s]: the replica process that serves s, or Nobody
    ttl,         \* ttl[s]: timeout_seconds after the clamp
    backend,     \* backend[s]: the container or pod of s
    ends,        \* ends[s]: when its `sleep` runs out
    teardown,    \* sessions whose DELETE waits for provider.destroy
    racing       \* racing[q]: creates in flight at q when the last listing
                 \* was taken (history variable, read by properties only)

slotVars == <<deadlines, pending, lock, snapshot>>
requestVars == <<stage, home, ttl>>
backendVars == <<backend, ends, teardown>>
vars == <<now, slotVars, requestVars, backendVars, racing>>

InHandler == {"arrived", "recounting", "listed", "creating"}
Stages == InHandler \cup
    {"idle", "done", "rejected", "failed", "cancelled", "lost", "deleted"}
BackendStates == {"none", "launching", "aborted", "up", "gone"}
IsDict(d) == DOMAIN d \subseteq Sessions /\ d \in [DOMAIN d -> Int]

(* Types.  What a recount hands on is a set of sessions: the None of a     *)
(* backend that cannot list is never worked with.                          *)
TypeOK ==
    /\ now \in Nat
    /\ deadlines = [q \in Replicas |-> deadlines[q]]
    /\ \A q \in Replicas : IsDict(deadlines[q])
    /\ pending \in [Replicas -> Nat]
    /\ lock \in [Replicas -> Sessions \cup {Nobody}]
    /\ snapshot \in [Replicas -> SUBSET Sessions]
    /\ stage \in [Sessions -> Stages]
    /\ home \in [Sessions -> Replicas \cup {Nobody}]
    /\ ttl \in [Sessions -> Int]
    /\ backend \in [Sessions -> BackendStates]
    /\ ends \in [Sessions -> Int]
    /\ teardown \in SUBSET Sessions
    /\ racing \in [Replicas -> SUBSET Sessions]

Least(a, b) == IF a <= b THEN a ELSE b
Greatest(a, b) == IF a >= b THEN a ELSE b

Capped == Limit > 0
Tracked(q) == DOMAIN deadlines[q]
At(q, st) == {s \in Sessions : home[s] = q /\ stage[s] = st}

(* The entries of _deadlines that _live() does not purge.                  *)
Unexpired(q) == {s \in Tracked(q) : deadlines[q][s] > now}

(* Mutant: creates in flight are not counted.                              *)
LiveCountOfEntries(q, kept) == Cardinality(kept)

(* What _live() returns when it keeps the entries in kept.                 *)
LiveCount(q, kept) == Cardinality(kept) + pending[q]

Live(s) == backend[s] = "up" /\ now < ends[s]

Init ==
    /\ now = 0
    /\ deadlines = [q \in Replicas |-> [s \in {} |-> 0]]
    /\ pending = [q \in Replicas |-> 0]
    /\ lock = [q \in Replicas |-> Nobody]
    /\ snapshot = [q \in Replicas |-> {}]
    /\ stage = [s \in Sessions |-> "idle"]
    /\ home = [s \in Sessions |-> Nobody]
    /\ ttl = [s \in Sessions |-> 0]
    /\ backend = [s \in Sessions |-> "none"]
    /\ ends = [s \in Sessions |-> 0]
    /\ teardown = {}
    /\ racing = [q \in Replicas |-> {}]

Tick ==
    /\ now < MaxTime
    /\ now' = now + 1
    /\ UNCHANGED <<slotVars, requestVars, backendVars, racing>>

-----------------------------------------------------------------------------
(* POST /sessions                                                          *)

Arrive(s, q, t) ==
    /\ stage[s] = "idle"
    /\ stage' = [stage EXCEPT ![s] = "arrived"]
    /\ home' = [home EXCEPT ![s] = q]
    /\ ttl' = [ttl EXCEPT ![s] = Least(t, MaxSessionSeconds)]
    /\ UNCHANGED <<now, slotVars, backendVars, racing>>

(* The request is counted and provider.create starts, in one step.  kept   *)
(* are the entries of _deadlines that survive the purge and the resync.    *)
Admit(s, q, kept) ==
    /\ deadlines' = [deadlines EXCEPT ![q] = Restrict(@, kept)]
    /\ pending' = [pending EXCEPT ![q] = IF Capped THEN @ + 1 ELSE @]
    /\ stage' = [stage EXCEPT ![s] = "creating"]
    /\ backend' = [backend EXCEPT ![s] = "launching"]

(* What commit() and rollback() both do to _pending.                       *)
TakeBackPending(q) ==
    pending' = [pending EXCEPT ![q] = IF Capped THEN Greatest(0, @ - 1) ELSE @]

(* Mutant: acquire() inside the try block, so a 429 runs rollback() too.   *)
RejectAndRollback(s, q, kept) ==
    /\ deadlines' = [deadlines EXCEPT ![q] = Restrict(@, kept)]
    /\ stage' = [stage EXCEPT ![s] = "rejected"]
    /\ TakeBackPending(q)
    /\ UNCHANGED backend

Reject(s, q, kept) ==
    /\ deadlines' = [deadlines EXCEPT ![q] = Restrict(@, kept)]
    /\ stage' = [stage EXCEPT ![s] = "rejected"]
    /\ UNCHANGED <<pending, backend>>

(* Mutant: a path out of the recount that leaves _lock taken.              *)
KeepLock(q) ==
    /\ snapshot' = [snapshot EXCEPT ![q] = {}]
    /\ UNCHANGED lock

FreeLock(q) ==
    /\ lock' = [lock EXCEPT ![q] = Nobody]
    /\ snapshot' = [snapshot EXCEPT ![q] = {}]

(* acquire() below the cap: no await while the lock is held.               *)
AcquireBelow(s) ==
    LET q == home[s] IN
    /\ stage[s] = "arrived"
    /\ lock[q] = Nobody
    /\ Capped => LiveCount(q, Unexpired(q)) < Limit
    /\ Admit(s, q, Unexpired(q))
    /\ UNCHANGED <<now, lock, snapshot, home, ttl, ends, teardown, racing>>

(* acquire() at the cap: the lock stays held while the backend is asked.   *)
AcquireAtCap(s) ==
    LET q == home[s] IN
    /\ stage[s] = "arrived"
    /\ lock[q] = Nobody
    /\ Capped /\ LiveCount(q, Unexpired(q)) >= Limit
    /\ deadlines' = [deadlines EXCEPT ![q] = Restrict(@, Unexpired(q))]
    /\ lock' = [lock EXCEPT ![q] = s]
    /\ stage' = [stage EXCEPT ![s] = "recounting"]
    /\ UNCHANGED <<now, pending, snapshot, home, ttl, backendVars, racing>>

(* Mutant: no `if actual is None`: the answer of a backend that cannot     *)
(* list goes on as if it were a listing; {Nobody} stands for the None.     *)
ListingOrNone(s) ==
    LET q == home[s] IN
    /\ stage[s] = "recounting"
    /\ stage' = [stage EXCEPT ![s] = "listed"]
    /\ \E listing \in {{x \in Sessions : Live(x)}, {Nobody}} :
          snapshot' = [snapshot EXCEPT ![q] = listing]
    /\ racing' = [racing EXCEPT ![q] = At(q, "creating")]
    /\ UNCHANGED <<now, deadlines, pending, lock, home, ttl, backendVars>>

(* The backend answers the recount: every live session, and those of the   *)
(* sessions still starting that it already lists.                          *)
ListingTaken(s) ==
    LET q == home[s] IN
    /\ stage[s] = "recounting"
    /\ stage' = [stage EXCEPT ![s] = "listed"]
    /\ \E early \in SUBSET {x \in Sessions : backend[x] = "launching"} :
          snapshot' = [snapshot EXCEPT ![q] = {x \in Sessions : Live(x)} \cup early]
    /\ racing' = [racing EXCEPT ![q] = At(q, "creating")]
    /\ UNCHANGED <<now, deadlines, pending, lock, home, ttl, backendVars>>

(* Mutant: the recount is taken for a licence to admit.                    *)
AdmitUnchecked(s, q, kept) ==
    /\ Admit(s, q, kept)
    /\ FreeLock(q)
    /\ UNCHANGED <<now, home, ttl, ends, teardown, racing>>

(* acquire() goes on after the recount with the entries in kept.           *)
AdmitOrReject(s, q, kept) ==
    /\ \/ LiveCount(q, kept) < Limit /\ Admit(s, q, kept)
       \/ LiveCount(q, kept) >= Limit /\ Reject(s, q, kept)
    /\ FreeLock(q)
    /\ UNCHANGED <<now, home, ttl, ends, teardown, racing>>

(* Mutant: the entries the backend no longer has are kept.                 *)
ResyncKeepsStale(s) ==
    /\ stage[s] = "listed"
    /\ AdmitOrReject(s, home[s], Unexpired(home[s]))

ResyncDone(s) ==
    LET q == home[s] IN
    /\ stage[s] = "listed"
    /\ AdmitOrReject(s, q, Unexpired(q) \cap snapshot[q])

(* Mutant: a listing that failed is taken for an empty one.                *)
ResyncFailsEmpty(s) ==
    /\ stage[s] = "recounting"
    /\ AdmitOrReject(s, home[s], {})

(* The recount raised, timed out or returned None: keep the local view.    *)
(* Whether the backend was ever asked then makes no difference.            *)
ResyncFails(s) ==
    LET q == home[s] IN
    /\ stage[s] = "recounting"
    /\ AdmitOrReject(s, q, Unexpired(q))

(* Mutant: the duration is stored where the instant belongs.               *)
CommitDuration(s) == Greatest(0, ttl[s])

(* commit(): the reap time of a session created this instant.              *)
CommitDeadline(s) == now + Greatest(0, ttl[s])

(* provider.create returned and commit() runs in the same step.  The       *)
(* backend reported the session up; it may have gone since.                *)
CreateReturns(s) ==
    LET q == home[s] IN
    /\ stage[s] = "creating"
    /\ backend[s] \in {"up", "gone"}
    /\ TakeBackPending(q)
    /\ deadlines' = [deadlines EXCEPT ![q] =
            IF Capped
            THEN [x \in DOMAIN @ \cup {s} |-> IF x = s THEN CommitDeadline(s) ELSE @[x]]
            ELSE @]
    /\ stage' = [stage EXCEPT ![s] = "done"]
    /\ UNCHANGED <<now, lock, snapshot, home, ttl, backendVars, racing>>

(* provider.create raised; it may or may not have removed what it started. *)
CreateFails(s) ==
    /\ stage[s] = "creating"
    /\ TakeBackPending(home[s])
    /\ stage' = [stage EXCEPT ![s] = "failed"]
    /\ \E b \in {backend[s], "gone"} : backend' = [backend EXCEPT ![s] = b]
    /\ UNCHANGED <<now, deadlines, lock, snapshot, home, ttl, ends, teardown, racing>>

(* Mutant: `except Exception`, which CancelledError is not.                *)
CancelWithoutRollback(s) ==
    /\ stage[s] \in InHandler
    /\ stage' = [stage EXCEPT ![s] = "cancelled"]
    /\ IF stage[s] \in {"recounting", "listed"}
       THEN FreeLock(home[s])
       ELSE UNCHANGED <<lock, snapshot>>
    /\ UNCHANGED <<now, deadlines, pending, home, ttl, backendVars, racing>>

(* The client went away: CancelledError at whatever the handler awaits.    *)
Cancel(s) ==
    LET q == home[s] IN
    /\ stage' = [stage EXCEPT ![s] = "cancelled"]
    /\ \/ /\ stage[s] = "arrived"
          /\ UNCHANGED <<pending, lock, snapshot>>
       \/ /\ stage[s] \in {"recounting", "listed"}
          /\ FreeLock(q)
          /\ UNCHANGED pending
       \/ /\ stage[s] = "creating"
          /\ TakeBackPending(q)
          /\ UNCHANGED <<lock, snapshot>>
    /\ UNCHANGED <<now, deadlines, home, ttl, backendVars, racing>>

-----------------------------------------------------------------------------
(* DELETE /sessions/{sid}: release(), then provider.destroy.               *)

Delete(s, q) ==
    /\ stage[s] \in {"done", "deleted"}
    /\ deadlines' = [deadlines EXCEPT ![q] = Restrict(@, DOMAIN @ \ {s})]
    /\ stage' = [stage EXCEPT ![s] = "deleted"]
    /\ teardown' = teardown \cup {s}
    /\ UNCHANGED <<now, pending, lock, snapshot, home, ttl, backend, ends, racing>>

TeardownLands(s) ==
    /\ s \in teardown
    /\ teardown' = teardown \ {s}
    /\ backend' = [backend EXCEPT ![s] = "gone"]
    /\ UNCHANGED <<now, slotVars, requestVars, ends, racing>>

TeardownFails(s) ==
    /\ s \in teardown
    /\ teardown' = teardown \ {s}
    /\ UNCHANGED <<now, slotVars, requestVars, backend, ends, racing>>

-----------------------------------------------------------------------------
(* The backend on its own, and a replica that restarts.                    *)

(* A launch under way completes even if nobody waits for it any longer.    *)
Boot(s) ==
    /\ backend[s] = "launching"
    /\ backend' = [backend EXCEPT ![s] = "up"]
    /\ ends' = [ends EXCEPT ![s] = now + Greatest(0, ttl[s])]
    /\ UNCHANGED <<now, slotVars, requestVars, teardown, racing>>

LaunchAborted(s) ==
    /\ backend[s] = "launching"
    /\ backend' = [backend EXCEPT ![s] = "aborted"]
    /\ UNCHANGED <<now, slotVars, requestVars, ends, teardown, racing>>

(* A node, an eviction or an operator takes the session away.              *)
Vanish(s) ==
    /\ backend[s] = "up"
    /\ backend' = [backend EXCEPT ![s] = "gone"]
    /\ UNCHANGED <<now, slotVars, requestVars, ends, teardown, racing>>

(* The process dies with its memory; the backend keeps the sessions.       *)
Restart(q) ==
    /\ deadlines' = [deadlines EXCEPT ![q] = [s \in {} |-> 0]]
    /\ pending' = [pending EXCEPT ![q] = 0]
    /\ FreeLock(q)
    /\ stage' = [s \in Sessions |->
            IF home[s] = q /\ stage[s] \in InHandler
            THEN "lost" ELSE stage[s]]
    /\ home' = [s \in Sessions |-> IF home[s] = q THEN Nobody ELSE home[s]]
    /\ racing' = [racing EXCEPT ![q] = {}]
    /\ UNCHANGED <<now, ttl, backendVars>>

-----------------------------------------------------------------------------
Acquire(s) == AcquireBelow(s) \/ AcquireAtCap(s)
Resync(s) == ResyncDone(s) \/ ResyncFails(s)

Request(s) ==
    \/ \E q \in Replicas, t \in Timeouts : Arrive(s, q, t)
    \/ Acquire(s)
    \/ Resync(s)
    \/ CreateReturns(s)
    \/ CreateFails(s)
    \/ Cancel(s)
    \/ \E q \in Replicas : Delete(s, q)

Backend(s) ==
    \/ ListingTaken(s)
    \/ TeardownLands(s)
    \/ TeardownFails(s)
    \/ Boot(s)
    \/ LaunchAborted(s)
    \/ Vanish(s)

Next ==
    \/ Tick
    \/ \E s \in Sessions : Request(s) \/ Backend(s)
    \/ \E q \in Replicas : Restart(q)

Spec == Init /\ [][Next]_vars

(* asyncio wakes lock waiters in order, so a request that could take the   *)
(* lock again and again gets it; the recount and provider.create both end, *)
(* because every backend call they make has a timeout.                     *)
Fairness ==
    \A s \in Sessions :
        /\ SF_vars(Acquire(s))
        /\ WF_vars(Resync(s))
        /\ WF_vars(CreateReturns(s) \/ CreateFails(s))

FairSpec == Spec /\ Fairness

-----------------------------------------------------------------------------
(* _pending is exactly the number of creates in flight at the replica: no  *)
(* path out of create_session (commit, rollback, cancellation) leaks a     *)
(* count or takes one back twice, which max(0, ...) would hide.            *)
PendingExact ==
    Capped => \A q \in Replicas : pending[q] = Cardinality(At(q, "creating"))

(* Slots of committed sessions and creates in flight never exceed the      *)
(* limit, although commit, rollback and release change both counts while   *)
(* another request sits in the recount with the lock held.                 *)
WithinLimit ==
    Capped => \A q \in Replicas : Cardinality(Tracked(q)) + pending[q] <= Limit

(* A slot is kept by a session this process created and nobody deleted     *)
(* through it, and is not purged by _live() before the session's own       *)
(* `sleep` has run out on the backend.                                     *)
SlotOutlivesSession ==
    \A q \in Replicas : \A s \in Tracked(q) :
        /\ home[s] = q
        /\ stage[s] \in {"done", "deleted"}
        /\ backend[s] \in {"up", "gone"}
        /\ ends[s] <= deadlines[q][s]

(* A live session that nobody deleted keeps its slot while its process     *)
(* lives, unless its create was still in flight when the last recount took *)
(* its listing.                                                            *)
LiveSlotLoss ==
    \A q \in Replicas : \A s \in Tracked(q) \ Tracked(q)' :
        (stage'[s] = "done" /\ home'[s] = q /\ Live(s)) => s \in racing[q]

LiveSlotKept == [][LiveSlotLoss]_vars

(* A 429 after a recount that succeeded is justified by the backend, not   *)
(* by the bookkeeping: the replica's creates in flight and those of its    *)
(* sessions that the backend listed fill the cap between them.             *)
FullyBacked(q) ==
    Cardinality(At(q, "creating") \cup {x \in snapshot[q] : home[x] = q}) >= Limit

RejectStep ==
    \A s \in Sessions :
        stage[s] = "listed" /\ stage'[s] = "rejected" => FullyBacked(home[s])

RejectJustified == [][RejectStep]_vars

(* The bookkeeping implements the abstract pool: a session holds a slot    *)
(* from the moment its create is counted until its entry is dropped.       *)
Held(q) == Tracked(q) \cup At(q, "creating")

AllHeld == [q \in Replicas |-> Held(q)]

Pool == INSTANCE SlotPool WITH held <- AllHeld

ImplementsPool == Pool!Spec

(* Every POST /sessions is answered: no request waits for ever on the lock *)
(* that another one holds across its recount.                              *)
EveryCreateAnswered ==
    \A s \in Sessions :
        stage[s] = "arrived" ~> stage[s] \notin InHandler

(* The parts of the inductive invariant behind the properties above that   *)
(* are not properties of interest themselves.                              *)
HandlersHaveHomes == \A s \in Sessions : stage[s] \in InHandler => home[s] \in Replicas

LockHeld ==
    \A s \in Sessions : stage[s] \in {"recounting", "listed"} => lock[home[s]] = s

TeardownAfterDelete == \A s \in teardown : stage[s] = "deleted"

BootedInTime ==
    \A s \in Sessions :
        stage[s] = "creating" /\ backend[s] \in {"up", "gone"} =>
            ends[s] <= now + Greatest(0, ttl[s])

ListingCovers ==
    \A r \in Sessions : stage[r] = "listed" =>
        LET q == home[r] IN
        /\ At(q, "creating") \subseteq racing[q]
        /\ \A s \in Tracked(q) : Live(s) => s \in snapshot[q] \cup racing[q]

(* The inductive invariant.                                                *)
IInv ==
    /\ TypeOK
    /\ HandlersHaveHomes
    /\ LockHeld
    /\ TeardownAfterDelete
    /\ BootedInTime
    /\ PendingExact
    /\ WithinLimit
    /\ SlotOutlivesSession
    /\ ListingCovers

(* What the class promises: a replica never holds more live sessions than  *)
(* the cap.  The resync breaks it (see the README).                        *)
LiveWithinLimit ==
    Capped => \A q \in Replicas :
        Cardinality({s \in At(q, "done") : Live(s)}) <= Limit
=============================================================================
