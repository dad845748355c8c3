------------------------- MODULE SessionSlotsProofs -------------------------
(***************************************************************************)
(* The safety properties of SessionSlots, for any number of replicas,      *)
(* sessions and slots.  IInv is the inductive invariant; each of its parts *)
(* has a lemma saying that a step preserves it, given the parts it needs.  *)
(***************************************************************************)
EXTENDS SessionSlots, FiniteSetTheorems, TLAPS

USE TimesAreInts, LimitIsInt, NobodyIsFresh

-----------------------------------------------------------------------------
(* Purging, releasing and committing keep the dicts dicts.                 *)
LEMMA RestrictIsDict ==
    ASSUME NEW d, IsDict(d), NEW K, K \subseteq DOMAIN d
    PROVE  /\ IsDict(Restrict(d, K))
           /\ DOMAIN Restrict(d, K) = K
           /\ \A s \in K : Restrict(d, K)[s] = d[s]
BY DEF IsDict, Restrict

(* The purge of _live() only drops entries of _deadlines.                  *)
LEMMA KeptIsTracked ==
    ASSUME NEW q
    PROVE  Unexpired(q) \subseteq Tracked(q)
BY DEF Unexpired

(* After the purge or the resync of one replica, every _deadlines is still *)
(* a dict of sessions.                                                     *)
LEMMA DictsStayDicts ==
    ASSUME TypeOK, NEW q \in Replicas, NEW K \in SUBSET Tracked(q),
           deadlines' = [deadlines EXCEPT ![q] = Restrict(@, K)]
    PROVE  /\ deadlines' = [r \in Replicas |-> deadlines'[r]]
           /\ \A r \in Replicas : IsDict(deadlines'[r])
           /\ Tracked(q)' = K
           /\ \A s \in K : deadlines'[q][s] = deadlines[q][s]
           /\ \A r \in Replicas \ {q} : deadlines'[r] = deadlines[r]
BY RestrictIsDict DEF TypeOK, Tracked

(* The purge and the resync leave the entries they keep, and every other   *)
(* replica's, as they were.                                                *)
LEMMA EntriesOnlyDropped ==
    ASSUME TypeOK, NEW q \in Replicas, NEW K \in SUBSET Tracked(q),
           deadlines' = [deadlines EXCEPT ![q] = Restrict(@, K)]
    PROVE  \A r \in Replicas : \A s \in Tracked(r)' :
               s \in Tracked(r) /\ deadlines'[r][s] = deadlines[r][s]
<1>1. ASSUME NEW s \in Tracked(q)'
      PROVE  s \in Tracked(q) /\ deadlines'[q][s] = deadlines[q][s]
    BY <1>1, DictsStayDicts
<1>2. ASSUME NEW r \in Replicas \ {q}, NEW s \in Tracked(r)'
      PROVE  s \in Tracked(r) /\ deadlines'[r][s] = deadlines[r][s]
    BY <1>2, DictsStayDicts DEF Tracked
<1> QED
    BY <1>1, <1>2

(* acquire(), commit() and rollback() keep _pending natural; the last two  *)
(* because of max(0, ...).                                                 *)
LEMMA PendingStaysNatural ==
    ASSUME pending \in [Replicas -> Nat], NEW q,
           \/ TakeBackPending(q)
           \/ pending' = [pending EXCEPT ![q] = IF Capped THEN @ + 1 ELSE @]
    PROVE  pending' \in [Replicas -> Nat]
BY DEF TakeBackPending, Greatest

(* Every variable keeps its type; _pending never goes below zero.          *)
LEMMA TypingStep ==
    ASSUME TypeOK, HandlersHaveHomes, [Next]_vars
    PROVE  TypeOK'
<1> USE DEF TypeOK, Stages, InHandler, BackendStates
<1>1. CASE Tick
    BY <1>1 DEF Tick, slotVars, requestVars, backendVars
<1>2. ASSUME NEW s \in Sessions, NEW q \in Replicas, NEW t \in Timeouts, Arrive(s, q, t)
      PROVE  TypeOK'
    BY <1>2 DEF Arrive, slotVars, backendVars, Least
<1>3. ASSUME NEW s \in Sessions, AcquireBelow(s)
      PROVE  TypeOK'
  <2>1. home[s] \in Replicas
    BY <1>3 DEF HandlersHaveHomes, AcquireBelow
  <2>2. PICK kept \in SUBSET Tracked(home[s]) : Admit(s, home[s], kept)
    BY <1>3, KeptIsTracked DEF AcquireBelow
  <2>3. pending' \in [Replicas -> Nat]
    BY <2>2, PendingStaysNatural DEF Admit
  <2>4. UNCHANGED <<now, lock, snapshot, home, ttl, ends, teardown, racing>>
    BY <1>3 DEF AcquireBelow
  <2> QED
    BY <2>1, <2>2, <2>3, <2>4, DictsStayDicts DEF Admit
<1>4. ASSUME NEW s \in Sessions, AcquireAtCap(s)
      PROVE  TypeOK'
  <2>1. home[s] \in Replicas
    BY <1>4 DEF HandlersHaveHomes, AcquireAtCap
  <2>2. PICK kept \in SUBSET Tracked(home[s]) :
            deadlines' = [deadlines EXCEPT ![home[s]] = Restrict(@, kept)]
    BY <1>4, KeptIsTracked DEF AcquireAtCap
  <2> QED
    BY <1>4, <2>1, <2>2, DictsStayDicts DEF AcquireAtCap, backendVars
<1>5. ASSUME NEW s \in Sessions, ListingTaken(s)
      PROVE  TypeOK'
  <2>1. PICK listed \in SUBSET Sessions : snapshot' = [snapshot EXCEPT ![home[s]] = listed]
    <3>1. PICK early \in SUBSET {x \in Sessions : backend[x] = "launching"} :
              snapshot' = [snapshot EXCEPT ![home[s]] = {x \in Sessions : Live(x)} \cup early]
      BY <1>5 DEF ListingTaken
    <3> QED
      BY <3>1
  <2>2. At(home[s], "creating") \subseteq Sessions
    BY DEF At
  <2> QED
    BY <1>5, <2>1, <2>2 DEF ListingTaken, backendVars
<1>6. ASSUME NEW s \in Sessions, Resync(s)
      PROVE  TypeOK'
  <2>1. home[s] \in Replicas
    BY <1>6 DEF HandlersHaveHomes, Resync, ResyncDone, ResyncFails
  <2>2. PICK kept \in SUBSET Tracked(home[s]) : AdmitOrReject(s, home[s], kept)
    BY <1>6, KeptIsTracked DEF Resync, ResyncDone, ResyncFails
  <2> QED
    BY <2>1, <2>2, DictsStayDicts DEF AdmitOrReject, Admit, Reject, FreeLock
<1>7. ASSUME NEW s \in Sessions, CreateReturns(s)
      PROVE  TypeOK'
  <2>1. home[s] \in Replicas
    BY <1>7 DEF HandlersHaveHomes, CreateReturns
  <2>2. IsDict(deadlines'[home[s]])
    BY <1>7, <2>1 DEF CreateReturns, CommitDeadline, Greatest, IsDict
  <2> QED
    BY <1>7, <2>1, <2>2 DEF CreateReturns, TakeBackPending, Greatest, backendVars
<1>8. ASSUME NEW s \in Sessions, CreateFails(s)
      PROVE  TypeOK'
  <2>1. pending' \in [Replicas -> Nat]
    BY <1>8, PendingStaysNatural DEF CreateFails
  <2> QED
    BY <1>8, <2>1 DEF CreateFails
<1>9. ASSUME NEW s \in Sessions, Cancel(s)
      PROVE  TypeOK'
    BY <1>9 DEF Cancel, TakeBackPending, FreeLock, Greatest, backendVars
<1>10. ASSUME NEW s \in Sessions, NEW q \in Replicas, Delete(s, q)
       PROVE  TypeOK'
    BY <1>10, RestrictIsDict DEF Delete
<1>11. ASSUME NEW s \in Sessions, TeardownLands(s) \/ TeardownFails(s)
       PROVE  TypeOK'
    BY <1>11 DEF TeardownLands, TeardownFails, slotVars, requestVars
<1>12. ASSUME NEW s \in Sessions, Boot(s) \/ LaunchAborted(s) \/ Vanish(s)
       PROVE  TypeOK'
    BY <1>12 DEF Boot, LaunchAborted, Vanish, Greatest, slotVars, requestVars
<1>13. ASSUME NEW q \in Replicas, Restart(q)
       PROVE  TypeOK'
    BY <1>13 DEF Restart, FreeLock, backendVars, IsDict
<1>14. CASE UNCHANGED vars
    BY <1>14 DEF vars, slotVars, requestVars, backendVars, IsDict
<1> QED
    BY <1>1, <1>2, <1>3, <1>4, <1>5, <1>6, <1>7, <1>8, <1>9, <1>10, <1>11,
       <1>12, <1>13, <1>14 DEF Next, Request, Backend, Acquire

-----------------------------------------------------------------------------
(* A request in a handler is served by a replica.                          *)
LEMMA HomesStep ==
    ASSUME TypeOK, HandlersHaveHomes, [Next]_vars
    PROVE  HandlersHaveHomes'
<1> USE DEF TypeOK, HandlersHaveHomes, InHandler
<1>1. CASE Tick
    BY <1>1 DEF Tick, requestVars
<1>2. ASSUME NEW s \in Sessions, NEW q \in Replicas, NEW t \in Timeouts, Arrive(s, q, t)
      PROVE  HandlersHaveHomes'
    BY <1>2 DEF Arrive
<1>3. ASSUME NEW s \in Sessions, Acquire(s)
      PROVE  HandlersHaveHomes'
    BY <1>3 DEF Acquire, AcquireBelow, AcquireAtCap, Admit
<1>4. ASSUME NEW s \in Sessions, Resync(s)
      PROVE  HandlersHaveHomes'
    BY <1>4 DEF Resync, ResyncDone, ResyncFails, AdmitOrReject, Admit, Reject
<1>5. ASSUME NEW s \in Sessions, CreateReturns(s) \/ CreateFails(s) \/ Cancel(s)
      PROVE  HandlersHaveHomes'
    BY <1>5 DEF CreateReturns, CreateFails, Cancel
<1>6. ASSUME NEW s \in Sessions, NEW q \in Replicas, Delete(s, q)
      PROVE  HandlersHaveHomes'
    BY <1>6 DEF Delete
<1>7. ASSUME NEW s \in Sessions, Backend(s)
      PROVE  HandlersHaveHomes'
    BY <1>7 DEF Backend, ListingTaken, TeardownLands, TeardownFails, Boot,
                LaunchAborted, Vanish, requestVars
<1>8. ASSUME NEW q \in Replicas, Restart(q)
      PROVE  HandlersHaveHomes'
    BY <1>8 DEF Restart
<1>9. CASE UNCHANGED vars
    BY <1>9 DEF vars, requestVars
<1> QED
    BY <1>1, <1>2, <1>3, <1>4, <1>5, <1>6, <1>7, <1>8, <1>9 DEF Next, Request

(* Whoever recounts holds the lock of its replica, so at most one does.    *)
LEMMA LockStep ==
    ASSUME TypeOK, HandlersHaveHomes, LockHeld, [Next]_vars
    PROVE  LockHeld'
<1> USE DEF TypeOK, HandlersHaveHomes, LockHeld, InHandler
<1>1. CASE Tick
    BY <1>1 DEF Tick, requestVars, slotVars
<1>2. ASSUME NEW s \in Sessions, NEW q \in Replicas, NEW t \in Timeouts, Arrive(s, q, t)
      PROVE  LockHeld'
    BY <1>2 DEF Arrive, slotVars
<1>3. ASSUME NEW s \in Sessions, AcquireBelow(s)
      PROVE  LockHeld'
    BY <1>3 DEF AcquireBelow, Admit
<1>4. ASSUME NEW s \in Sessions, AcquireAtCap(s)
      PROVE  LockHeld'
    BY <1>4 DEF AcquireAtCap
<1>5. ASSUME NEW s \in Sessions, Resync(s)
      PROVE  LockHeld'
  <2>1. lock[home[s]] = s /\ stage' = [stage EXCEPT ![s] = stage'[s]]
    BY <1>5 DEF Resync, ResyncDone, ResyncFails, AdmitOrReject, Admit, Reject
  <2>2. stage'[s] \notin {"recounting", "listed"}
    BY <1>5 DEF Resync, ResyncDone, ResyncFails, AdmitOrReject, Admit, Reject
  <2>3. lock' = [lock EXCEPT ![home[s]] = Nobody] /\ home' = home
    BY <1>5 DEF Resync, ResyncDone, ResyncFails, AdmitOrReject, FreeLock
  <2> QED
    BY <2>1, <2>2, <2>3
<1>6. ASSUME NEW s \in Sessions, CreateReturns(s) \/ CreateFails(s)
      PROVE  LockHeld'
    BY <1>6 DEF CreateReturns, CreateFails
<1>7. ASSUME NEW s \in Sessions, Cancel(s)
      PROVE  LockHeld'
    BY <1>7 DEF Cancel, FreeLock
<1>8. ASSUME NEW s \in Sessions, NEW q \in Replicas, Delete(s, q)
      PROVE  LockHeld'
    BY <1>8 DEF Delete
<1>9. ASSUME NEW s \in Sessions, Backend(s)
      PROVE  LockHeld'
    BY <1>9 DEF Backend, ListingTaken, TeardownLands, TeardownFails, Boot,
                LaunchAborted, Vanish, requestVars, slotVars
<1>10. ASSUME NEW q \in Replicas, Restart(q)
       PROVE  LockHeld'
    BY <1>10 DEF Restart, FreeLock
<1>11. CASE UNCHANGED vars
    BY <1>11 DEF vars, requestVars, slotVars
<1> QED
    BY <1>1, <1>2, <1>3, <1>4, <1>5, <1>6, <1>7, <1>8, <1>9, <1>10, <1>11
    DEF Next, Request, Acquire

(* provider.destroy runs only for sessions a client has deleted.           *)
LEMMA TeardownStep ==
    ASSUME TypeOK, TeardownAfterDelete, [Next]_vars
    PROVE  TeardownAfterDelete'
<1> USE DEF TypeOK, TeardownAfterDelete
<1>1. CASE Tick
    BY <1>1 DEF Tick, requestVars, backendVars
<1>2. ASSUME NEW s \in Sessions, NEW q \in Replicas, NEW t \in Timeouts, Arrive(s, q, t)
      PROVE  TeardownAfterDelete'
    BY <1>2 DEF Arrive, backendVars
<1>3. ASSUME NEW s \in Sessions, Acquire(s)
      PROVE  TeardownAfterDelete'
    BY <1>3 DEF Acquire, AcquireBelow, AcquireAtCap, Admit, backendVars
<1>4. ASSUME NEW s \in Sessions, Resync(s)
      PROVE  TeardownAfterDelete'
    BY <1>4 DEF Resync, ResyncDone, ResyncFails, AdmitOrReject, Admit, Reject
<1>5. ASSUME NEW s \in Sessions, CreateReturns(s) \/ CreateFails(s) \/ Cancel(s)
      PROVE  TeardownAfterDelete'
    BY <1>5 DEF CreateReturns, CreateFails, Cancel, backendVars
<1>6. ASSUME NEW s \in Sessions, NEW q \in Replicas, Delete(s, q)
      PROVE  TeardownAfterDelete'
    BY <1>6 DEF Delete
<1>7. ASSUME NEW s \in Sessions, Backend(s)
      PROVE  TeardownAfterDelete'
    BY <1>7 DEF Backend, ListingTaken, TeardownLands, TeardownFails, Boot,
                LaunchAborted, Vanish, requestVars, backendVars
<1>8. ASSUME NEW q \in Replicas, Restart(q)
      PROVE  TeardownAfterDelete'
    BY <1>8 DEF Restart, backendVars, InHandler
<1>9. CASE UNCHANGED vars
    BY <1>9 DEF vars, requestVars, backendVars
<1> QED
    BY <1>1, <1>2, <1>3, <1>4, <1>5, <1>6, <1>7, <1>8, <1>9 DEF Next, Request

(* A session that is up before its create returns ends within its ttl.     *)
LEMMA BootedStep ==
    ASSUME TypeOK, TeardownAfterDelete, BootedInTime, [Next]_vars
    PROVE  BootedInTime'
<1> USE DEF TypeOK, BootedInTime, Greatest
<1>1. CASE Tick
    BY <1>1 DEF Tick, requestVars, backendVars
<1>2. ASSUME NEW s \in Sessions, NEW q \in Replicas, NEW t \in Timeouts, Arrive(s, q, t)
      PROVE  BootedInTime'
    BY <1>2 DEF Arrive, backendVars
<1>3. ASSUME NEW s \in Sessions, Acquire(s)
      PROVE  BootedInTime'
    BY <1>3 DEF Acquire, AcquireBelow, AcquireAtCap, Admit, backendVars
<1>4. ASSUME NEW s \in Sessions, Resync(s)
      PROVE  BootedInTime'
    BY <1>4 DEF Resync, ResyncDone, ResyncFails, AdmitOrReject, Admit, Reject
<1>5. ASSUME NEW s \in Sessions, CreateReturns(s) \/ CreateFails(s) \/ Cancel(s)
      PROVE  BootedInTime'
    BY <1>5 DEF CreateReturns, CreateFails, Cancel, backendVars
<1>6. ASSUME NEW s \in Sessions, NEW q \in Replicas, Delete(s, q)
      PROVE  BootedInTime'
    BY <1>6 DEF Delete
<1>7. ASSUME NEW s \in Sessions, Backend(s)
      PROVE  BootedInTime'
    BY <1>7 DEF TeardownAfterDelete, Backend, ListingTaken, TeardownLands, TeardownFails, Boot,
                LaunchAborted, Vanish, requestVars, backendVars
<1>8. ASSUME NEW q \in Replicas, Restart(q)
      PROVE  BootedInTime'
    BY <1>8 DEF Restart, backendVars, InHandler
<1>9. CASE UNCHANGED vars
    BY <1>9 DEF vars, requestVars, backendVars
<1> QED
    BY <1>1, <1>2, <1>3, <1>4, <1>5, <1>6, <1>7, <1>8, <1>9 DEF Next, Request

-----------------------------------------------------------------------------
(* Counting: the creates in flight and the entries are finite sets.        *)
LEMMA CountsAreNatural ==
    ASSUME TypeOK, NEW q \in Replicas
    PROVE  /\ \A st : IsFiniteSet(At(q, st)) /\ Cardinality(At(q, st)) \in Nat
           /\ \A K \in SUBSET Tracked(q) :
                 /\ IsFiniteSet(K)
                 /\ Cardinality(K) \in Nat
                 /\ Cardinality(K) <= Cardinality(Tracked(q))
<1>1. \A T \in SUBSET Sessions : IsFiniteSet(T) /\ Cardinality(T) \in Nat
    BY SessionsFinite, FS_Subset, FS_CardinalityType
<1>2. \A st : At(q, st) \in SUBSET Sessions
    BY DEF At
<1>3. Tracked(q) \in SUBSET Sessions
    BY DEF TypeOK, IsDict, Tracked
<1>4. \A K \in SUBSET Tracked(q) : Cardinality(K) <= Cardinality(Tracked(q))
    BY <1>1, <1>3, FS_Subset
<1> QED
    BY <1>1, <1>2, <1>3, <1>4

(* A request that is counted joins the creates in flight of its replica.   *)
LEMMA JoinsCreates ==
    ASSUME TypeOK, NEW s \in Sessions, NEW q \in Replicas, home[s] = q,
           stage[s] # "creating", home' = home,
           stage' = [stage EXCEPT ![s] = "creating"]
    PROVE  /\ Cardinality(At(q, "creating"))' = Cardinality(At(q, "creating")) + 1
           /\ \A r \in Replicas \ {q} : At(r, "creating")' = At(r, "creating")
<1>1. At(q, "creating")' = At(q, "creating") \cup {s} /\ s \notin At(q, "creating")
    BY DEF At, TypeOK
<1>2. \A r \in Replicas \ {q} : At(r, "creating")' = At(r, "creating")
    BY DEF At, TypeOK
<1> QED
    BY <1>1, <1>2, CountsAreNatural, FS_AddElement

(* One whose create ends, for whatever reason, leaves them.                *)
LEMMA LeavesCreates ==
    ASSUME TypeOK, NEW s \in Sessions, NEW q \in Replicas, home[s] = q,
           stage[s] = "creating", home' = home, NEW st, st # "creating",
           stage' = [stage EXCEPT ![s] = st]
    PROVE  /\ Cardinality(At(q, "creating"))' = Cardinality(At(q, "creating")) - 1
           /\ Cardinality(At(q, "creating")) > 0
           /\ \A r \in Replicas \ {q} : At(r, "creating")' = At(r, "creating")
<1>1. At(q, "creating")' = At(q, "creating") \ {s} /\ s \in At(q, "creating")
    BY DEF At, TypeOK
<1>2. \A r \in Replicas \ {q} : At(r, "creating")' = At(r, "creating")
    BY DEF At, TypeOK
<1>3. Cardinality(At(q, "creating")) # 0
    BY <1>1, CountsAreNatural, FS_EmptySet
<1> QED
    BY <1>1, <1>2, <1>3, CountsAreNatural, FS_RemoveElement

(* _pending counts the creates in flight, step by step.                    *)
LEMMA PendingStep ==
    ASSUME TypeOK, HandlersHaveHomes, PendingExact, [Next]_vars
    PROVE  PendingExact'
<1> SUFFICES ASSUME Capped
             PROVE  \A r \in Replicas : pending'[r] = Cardinality(At(r, "creating"))'
    BY DEF PendingExact, Capped
<1>a. \A r \in Replicas : pending[r] = Cardinality(At(r, "creating"))
    BY DEF PendingExact
<1> DEFINE Same == pending' = pending /\ \A r \in Replicas : At(r, "creating")' = At(r, "creating")
<1>b. Same => \A r \in Replicas : pending'[r] = Cardinality(At(r, "creating"))'
    BY <1>a
<1>1. CASE Tick
    BY <1>1, <1>b DEF Tick, requestVars, slotVars, At
<1>2. ASSUME NEW s \in Sessions, NEW q \in Replicas, NEW t \in Timeouts, Arrive(s, q, t)
      PROVE  Same
    BY <1>2 DEF Arrive, slotVars, At, TypeOK
<1>3. ASSUME NEW s \in Sessions, NEW kept, home[s] \in Replicas, stage[s] # "creating",
             Admit(s, home[s], kept), home' = home
      PROVE  \A r \in Replicas : pending'[r] = Cardinality(At(r, "creating"))'
  <2>1. pending' = [pending EXCEPT ![home[s]] = @ + 1]
    BY <1>3 DEF Admit
  <2>2. Cardinality(At(home[s], "creating"))' = Cardinality(At(home[s], "creating")) + 1
    BY <1>3, JoinsCreates DEF Admit
  <2>3. \A r \in Replicas \ {home[s]} : At(r, "creating")' = At(r, "creating")
    BY <1>3, JoinsCreates DEF Admit
  <2> QED
    BY <1>3, <1>a, <2>1, <2>2, <2>3 DEF TypeOK
<1>4. ASSUME NEW s \in Sessions, NEW st, home[s] \in Replicas, stage[s] = "creating",
             st # "creating", stage' = [stage EXCEPT ![s] = st], home' = home,
             TakeBackPending(home[s])
      PROVE  \A r \in Replicas : pending'[r] = Cardinality(At(r, "creating"))'
  <2>1. /\ Cardinality(At(home[s], "creating"))' = Cardinality(At(home[s], "creating")) - 1
        /\ Cardinality(At(home[s], "creating")) > 0
        /\ \A r \in Replicas \ {home[s]} : At(r, "creating")' = At(r, "creating")
    BY <1>4, LeavesCreates
  <2>2. pending' = [pending EXCEPT ![home[s]] = Greatest(0, @ - 1)]
    BY <1>4 DEF TakeBackPending
  <2> QED
    BY <1>4, <1>a, <2>1, <2>2 DEF TypeOK, Greatest
<1>5. ASSUME NEW s \in Sessions, AcquireBelow(s)
      PROVE  \A r \in Replicas : pending'[r] = Cardinality(At(r, "creating"))'
    BY <1>5, <1>3 DEF AcquireBelow, HandlersHaveHomes, InHandler
<1>6. ASSUME NEW s \in Sessions, AcquireAtCap(s)
      PROVE  Same
    BY <1>6 DEF AcquireAtCap, At, TypeOK
<1>7. ASSUME NEW s \in Sessions, Resync(s)
      PROVE  \A r \in Replicas : pending'[r] = Cardinality(At(r, "creating"))'
  <2>1. home[s] \in Replicas /\ stage[s] # "creating"
    BY <1>7 DEF Resync, ResyncDone, ResyncFails, HandlersHaveHomes, InHandler
  <2>2. PICK kept : AdmitOrReject(s, home[s], kept)
    BY <1>7 DEF Resync, ResyncDone, ResyncFails
  <2>3. CASE Admit(s, home[s], kept)
    BY <2>1, <2>2, <2>3, <1>3 DEF AdmitOrReject
  <2>4. CASE Reject(s, home[s], kept)
    <3>1. Same
      BY <2>1, <2>2, <2>4 DEF AdmitOrReject, Reject, At, TypeOK
    <3> QED
      BY <3>1, <1>b
  <2> QED
    BY <2>2, <2>3, <2>4 DEF AdmitOrReject
<1>8. ASSUME NEW s \in Sessions, CreateReturns(s) \/ CreateFails(s)
      PROVE  \A r \in Replicas : pending'[r] = Cardinality(At(r, "creating"))'
    BY <1>8, <1>4 DEF CreateReturns, CreateFails, HandlersHaveHomes, InHandler
<1>9. ASSUME NEW s \in Sessions, Cancel(s)
      PROVE  \A r \in Replicas : pending'[r] = Cardinality(At(r, "creating"))'
  <2>1. CASE stage[s] = "creating"
    BY <1>9, <2>1, <1>4 DEF Cancel, HandlersHaveHomes, InHandler
  <2>2. CASE stage[s] # "creating"
    <3>1. Same
      BY <1>9, <2>2 DEF Cancel, At, TypeOK
    <3> QED
      BY <3>1, <1>b
  <2> QED
    BY <2>1, <2>2
<1>10. ASSUME NEW s \in Sessions, NEW q \in Replicas, Delete(s, q)
       PROVE  Same
    BY <1>10 DEF Delete, At, TypeOK
<1>11. ASSUME NEW s \in Sessions, Backend(s)
       PROVE  Same
    BY <1>11 DEF Backend, ListingTaken, TeardownLands, TeardownFails, Boot,
                 LaunchAborted, Vanish, requestVars, slotVars, At, TypeOK
<1>12. ASSUME NEW q \in Replicas, Restart(q)
       PROVE  \A r \in Replicas : pending'[r] = Cardinality(At(r, "creating"))'
  <2>1. At(q, "creating")' = {} /\ pending'[q] = 0
    BY <1>12, NobodyIsFresh DEF Restart, At, TypeOK
  <2>2. \A r \in Replicas \ {q} :
            At(r, "creating")' = At(r, "creating") /\ pending'[r] = pending[r]
    BY <1>12, NobodyIsFresh DEF Restart, At, TypeOK
  <2> QED
    BY <2>1, <2>2, <1>a, FS_EmptySet
<1>13. CASE UNCHANGED vars
    BY <1>13, <1>b DEF vars, requestVars, slotVars, At
<1> QED
    BY <1>b, <1>1, <1>2, <1>5, <1>6, <1>7, <1>8, <1>9, <1>10, <1>11, <1>12, <1>13
    DEF Next, Request, Acquire

-----------------------------------------------------------------------------
(* Slots: a step drops entries, counts one create more below the cap, or   *)
(* turns a counted create into an entry.                                   *)
LEMMA LimitStep ==
    ASSUME TypeOK, HandlersHaveHomes, PendingExact, WithinLimit, [Next]_vars
    PROVE  WithinLimit'
<1> SUFFICES ASSUME Capped
             PROVE  \A r \in Replicas : Cardinality(Tracked(r))' + pending'[r] <= Limit
    BY DEF WithinLimit, Capped
<1>a. \A r \in Replicas : /\ Cardinality(Tracked(r)) + pending[r] <= Limit
                          /\ Cardinality(Tracked(r)) \in Nat
                          /\ pending[r] \in Nat
    BY CountsAreNatural DEF WithinLimit, TypeOK
<1> DEFINE Within == \A r \in Replicas : Cardinality(Tracked(r))' + pending'[r] <= Limit
           Same == UNCHANGED <<deadlines, pending>>
<1>b. Same => Within
    BY <1>a DEF Tracked
<1>c. ASSUME NEW q \in Replicas, NEW kept \in SUBSET Tracked(q),
             deadlines' = [deadlines EXCEPT ![q] = Restrict(@, kept)]
      PROVE  /\ Tracked(q)' = kept
             /\ Cardinality(kept) \in Nat
             /\ Cardinality(kept) <= Cardinality(Tracked(q))
             /\ \A r \in Replicas \ {q} : Tracked(r)' = Tracked(r)
    BY <1>c, DictsStayDicts, CountsAreNatural DEF Tracked
<1>1. CASE Tick
    BY <1>1, <1>b DEF Tick, slotVars
<1>2. ASSUME NEW s \in Sessions, NEW q \in Replicas, NEW t \in Timeouts, Arrive(s, q, t)
      PROVE  Same
    BY <1>2 DEF Arrive, slotVars
<1>3. ASSUME NEW s \in Sessions, NEW q \in Replicas, NEW kept \in SUBSET Tracked(q),
             LiveCount(q, kept) < Limit, Admit(s, q, kept)
      PROVE  Within
  <2>1. /\ Tracked(q)' = kept
        /\ Cardinality(kept) \in Nat
        /\ \A r \in Replicas \ {q} : Tracked(r)' = Tracked(r)
    BY <1>3, <1>c DEF Admit
  <2>2. pending' = [pending EXCEPT ![q] = @ + 1]
    BY <1>3 DEF Admit
  <2>3. Cardinality(kept) + pending[q] < Limit
    BY <1>3 DEF LiveCount
  <2> QED
    BY <2>1, <2>2, <2>3, <1>a, LimitIsInt DEF TypeOK
<1>4. ASSUME NEW q \in Replicas, NEW kept \in SUBSET Tracked(q),
             deadlines' = [deadlines EXCEPT ![q] = Restrict(@, kept)], pending' = pending
      PROVE  Within
  <2>1. /\ Tracked(q)' = kept
        /\ Cardinality(kept) \in Nat
        /\ Cardinality(kept) <= Cardinality(Tracked(q))
        /\ \A r \in Replicas \ {q} : Tracked(r)' = Tracked(r)
    BY <1>4, <1>c
  <2>2. Cardinality(Tracked(q))' + pending'[q] <= Limit
    BY <1>4, <2>1, <1>a, LimitIsInt
  <2> QED
    BY <1>4, <2>1, <2>2, <1>a
<1>5. ASSUME NEW s \in Sessions, AcquireBelow(s)
      PROVE  Within
    BY <1>5, <1>3, KeptIsTracked DEF AcquireBelow, HandlersHaveHomes, InHandler
<1>6. ASSUME NEW s \in Sessions, AcquireAtCap(s)
      PROVE  Within
    BY <1>6, <1>4, KeptIsTracked DEF AcquireAtCap, HandlersHaveHomes, InHandler
<1>7. ASSUME NEW s \in Sessions, Resync(s)
      PROVE  Within
  <2>1. home[s] \in Replicas
    BY <1>7 DEF Resync, ResyncDone, ResyncFails, HandlersHaveHomes, InHandler
  <2>2. PICK kept \in SUBSET Tracked(home[s]) : AdmitOrReject(s, home[s], kept)
    BY <1>7, KeptIsTracked DEF Resync, ResyncDone, ResyncFails
  <2>3. CASE LiveCount(home[s], kept) < Limit /\ Admit(s, home[s], kept)
    BY <2>1, <2>3, <1>3
  <2>4. CASE Reject(s, home[s], kept)
    BY <2>1, <2>4, <1>4 DEF Reject
  <2> QED
    BY <2>2, <2>3, <2>4 DEF AdmitOrReject
<1>8. ASSUME NEW s \in Sessions, CreateReturns(s)
      PROVE  Within
  <2> DEFINE q == home[s]
  <2>1. q \in Replicas /\ s \in At(q, "creating")
    BY <1>8 DEF CreateReturns, HandlersHaveHomes, InHandler, At
  <2>2. pending[q] > 0
    BY <2>1, CountsAreNatural, FS_EmptySet DEF PendingExact
  <2>3. pending' = [pending EXCEPT ![q] = @ - 1]
    <3>1. pending' = [pending EXCEPT ![q] = Greatest(0, @ - 1)]
      BY <1>8 DEF CreateReturns, TakeBackPending
    <3>2. Greatest(0, pending[q] - 1) = pending[q] - 1
      BY <2>1, <2>2, <1>a DEF Greatest
    <3> QED
      BY <3>1, <3>2
  <2>4. /\ Tracked(q)' = Tracked(q) \cup {s}
        /\ \A r \in Replicas \ {q} : Tracked(r)' = Tracked(r)
    BY <1>8, <2>1 DEF CreateReturns, Tracked, TypeOK
  <2>5. Cardinality(Tracked(q) \cup {s}) <= Cardinality(Tracked(q)) + 1
    BY <2>1, <1>a, CountsAreNatural, FS_AddElement
  <2>6. Cardinality(Tracked(q) \cup {s}) \in Nat
    BY <2>1, CountsAreNatural, FS_AddElement, FS_CardinalityType
  <2>7. Cardinality(Tracked(q))' + pending'[q] <= Limit
    BY <2>1, <2>3, <2>4, <2>5, <2>6, <1>a, LimitIsInt DEF TypeOK
  <2>8. home' = home
    BY <1>8 DEF CreateReturns
  <2>9. \A r \in Replicas \ {q} : Cardinality(Tracked(r))' + pending'[r] <= Limit
    BY <2>3, <2>4, <1>a DEF TypeOK
  <2> QED
    BY <2>7, <2>8, <2>9
<1>9. ASSUME NEW s \in Sessions, NEW q \in Replicas, deadlines' = deadlines,
             pending' = pending \/ TakeBackPending(q)
      PROVE  Within
  <2>1. \A r \in Replicas : pending'[r] \in Nat /\ pending'[r] <= pending[r]
    BY <1>9, <1>a DEF TakeBackPending, Greatest, TypeOK
  <2> QED
    BY <1>9, <2>1, <1>a, LimitIsInt DEF Tracked
<1>10. ASSUME NEW s \in Sessions, CreateFails(s)
       PROVE  Within
    BY <1>10, <1>9 DEF CreateFails, HandlersHaveHomes, InHandler
<1>11. ASSUME NEW s \in Sessions, Cancel(s)
       PROVE  Within
    BY <1>11, <1>9 DEF Cancel, HandlersHaveHomes, InHandler
<1>12. ASSUME NEW s \in Sessions, NEW q \in Replicas, Delete(s, q)
       PROVE  Within
  <2>1. DOMAIN deadlines[q] \ {s} \in SUBSET Tracked(q)
    BY DEF Tracked
  <2> QED
    BY <1>12, <1>4, <2>1 DEF Delete
<1>13. ASSUME NEW s \in Sessions, Backend(s)
       PROVE  Same
    BY <1>13 DEF Backend, ListingTaken, TeardownLands, TeardownFails, Boot,
                 LaunchAborted, Vanish, slotVars
<1>14. ASSUME NEW q \in Replicas, Restart(q)
       PROVE  Within
  <2>1. Tracked(q)' = {} /\ pending'[q] = 0
    BY <1>14 DEF Restart, Tracked, TypeOK
  <2>2. \A r \in Replicas \ {q} : Tracked(r)' = Tracked(r) /\ pending'[r] = pending[r]
    BY <1>14 DEF Restart, Tracked, TypeOK
  <2>3. 0 + 0 <= Limit
    BY LimitIsInt DEF Capped
  <2> QED
    BY <2>1, <2>2, <2>3, <1>a, FS_EmptySet
<1>15. CASE UNCHANGED vars
    BY <1>15, <1>b DEF vars, slotVars
<1> QED
    BY <1>b, <1>1, <1>2, <1>5, <1>6, <1>7, <1>8, <1>10, <1>11, <1>12, <1>13, <1>14,
       <1>15 DEF Next, Request, Acquire

-----------------------------------------------------------------------------
(* A step that only drops entries, and moves the sessions of the others no *)
(* further than to deleted and gone, keeps every slot long enough.         *)
LEMMA EntriesKept ==
    ASSUME SlotOutlivesSession,
           \A q \in Replicas : \A s \in Tracked(q)' :
              /\ s \in Tracked(q)
              /\ deadlines'[q][s] = deadlines[q][s]
              /\ home'[s] = home[s]
              /\ ends'[s] = ends[s]
              /\ stage'[s] = stage[s] \/ stage'[s] = "deleted"
              /\ backend'[s] = backend[s] \/ backend'[s] = "gone"
    PROVE  SlotOutlivesSession'
BY DEF SlotOutlivesSession

(* Every step keeps SlotOutlivesSession: commit() writes a reap time that  *)
(* BootedInTime bounds, and nothing else writes one.                       *)
LEMMA OutlivesStep ==
    ASSUME TypeOK, HandlersHaveHomes, BootedInTime, SlotOutlivesSession, [Next]_vars
    PROVE  SlotOutlivesSession'
<1> USE DEF TypeOK
<1>a. \A q \in Replicas : \A s \in Tracked(q) :
          /\ s \in Sessions
          /\ home[s] = q
          /\ stage[s] \in {"done", "deleted"}
          /\ backend[s] \in {"up", "gone"}
    BY DEF SlotOutlivesSession, Tracked, IsDict
<1>1. CASE Tick
    BY <1>1, EntriesKept DEF Tick, slotVars, requestVars, backendVars, Tracked
<1>2. ASSUME NEW s \in Sessions, NEW q \in Replicas, NEW t \in Timeouts, Arrive(s, q, t)
      PROVE  SlotOutlivesSession'
    BY <1>2, <1>a, EntriesKept DEF Arrive, slotVars, backendVars, Tracked
<1>3. ASSUME NEW s \in Sessions, NEW q \in Replicas, NEW kept \in SUBSET Tracked(q),
             deadlines' = [deadlines EXCEPT ![q] = Restrict(@, kept)],
             home' = home, ends' = ends, stage[s] \notin {"done", "deleted"},
             NEW st, stage' = [stage EXCEPT ![s] = st],
             NEW b, backend' = [backend EXCEPT ![s] = b]
      PROVE  SlotOutlivesSession'
  <2>1. \A r \in Replicas : \A x \in Tracked(r)' :
            x \in Tracked(r) /\ deadlines'[r][x] = deadlines[r][x]
    BY <1>3, EntriesOnlyDropped
  <2>2. \A r \in Replicas : \A x \in Tracked(r) :
            stage'[x] = stage[x] /\ backend'[x] = backend[x]
    BY <1>3, <1>a
  <2> QED
    BY <1>3, <2>1, <2>2, EntriesKept
<1>4. ASSUME NEW s \in Sessions, AcquireBelow(s)
      PROVE  SlotOutlivesSession'
    BY <1>4, <1>3, KeptIsTracked DEF AcquireBelow, Admit, HandlersHaveHomes, InHandler
<1>5. ASSUME NEW s \in Sessions, AcquireAtCap(s)
      PROVE  SlotOutlivesSession'
  <2>1. backend' = [backend EXCEPT ![s] = backend[s]]
    BY <1>5 DEF AcquireAtCap, backendVars
  <2>2. home[s] \in Replicas
    BY <1>5 DEF AcquireAtCap, HandlersHaveHomes, InHandler
  <2> QED
    BY <1>5, <2>1, <2>2, <1>3, KeptIsTracked DEF AcquireAtCap, backendVars
<1>6. ASSUME NEW s \in Sessions, Resync(s)
      PROVE  SlotOutlivesSession'
  <2>1. home[s] \in Replicas /\ stage[s] \notin {"done", "deleted"}
    BY <1>6 DEF Resync, ResyncDone, ResyncFails, HandlersHaveHomes, InHandler
  <2>2. PICK kept \in SUBSET Tracked(home[s]) : AdmitOrReject(s, home[s], kept)
    BY <1>6, KeptIsTracked DEF Resync, ResyncDone, ResyncFails
  <2>3. CASE Admit(s, home[s], kept)
    BY <2>1, <2>2, <2>3, <1>3 DEF Admit, AdmitOrReject
  <2>4. CASE Reject(s, home[s], kept)
    <3>1. backend' = [backend EXCEPT ![s] = backend[s]]
      BY <2>4 DEF Reject
    <3> QED
      BY <2>1, <2>2, <2>4, <3>1, <1>3 DEF Reject, AdmitOrReject
  <2> QED
    BY <2>2, <2>3, <2>4 DEF AdmitOrReject
<1>7. ASSUME NEW s \in Sessions, CreateReturns(s)
      PROVE  SlotOutlivesSession'
  <2>1. /\ home[s] \in Replicas
        /\ backend[s] \in {"up", "gone"}
        /\ ends[s] <= CommitDeadline(s)
    BY <1>7 DEF CreateReturns, HandlersHaveHomes, InHandler, BootedInTime, CommitDeadline
  <2>2. \A r \in Replicas : \A x \in Tracked(r)' :
            \/ x = s /\ r = home[s] /\ deadlines'[r][x] = CommitDeadline(s)
            \/ x \in Tracked(r) /\ deadlines'[r][x] = deadlines[r][x]
    BY <1>7, <2>1 DEF CreateReturns, Tracked
  <2>3. /\ UNCHANGED <<home, ends, backend>>
        /\ stage' = [stage EXCEPT ![s] = "done"]
    BY <1>7 DEF CreateReturns, backendVars
  <2> QED
    BY <2>1, <2>2, <2>3, <1>a DEF SlotOutlivesSession
<1>8. ASSUME NEW s \in Sessions, CreateFails(s)
      PROVE  SlotOutlivesSession'
    BY <1>8, <1>a, EntriesKept DEF CreateFails, Tracked
<1>9. ASSUME NEW s \in Sessions, Cancel(s)
      PROVE  SlotOutlivesSession'
    BY <1>9, <1>a, EntriesKept DEF Cancel, backendVars, Tracked
<1>10. ASSUME NEW s \in Sessions, NEW q \in Replicas, Delete(s, q)
       PROVE  SlotOutlivesSession'
  <2>1. DOMAIN deadlines[q] \ {s} \in SUBSET Tracked(q)
    BY DEF Tracked
  <2>2. \A r \in Replicas : \A x \in Tracked(r)' :
            x \in Tracked(r) /\ deadlines'[r][x] = deadlines[r][x]
    BY <1>10, <2>1, EntriesOnlyDropped DEF Delete
  <2> QED
    BY <1>10, <2>2, <1>a, EntriesKept DEF Delete
<1>11. ASSUME NEW s \in Sessions, ListingTaken(s)
       PROVE  SlotOutlivesSession'
    BY <1>11, <1>a, EntriesKept DEF ListingTaken, backendVars, Tracked
<1>12. ASSUME NEW s \in Sessions, TeardownLands(s) \/ TeardownFails(s)
       PROVE  SlotOutlivesSession'
    BY <1>12, <1>a, EntriesKept DEF TeardownLands, TeardownFails, slotVars, requestVars, Tracked
<1>13. ASSUME NEW s \in Sessions, Boot(s) \/ LaunchAborted(s) \/ Vanish(s)
       PROVE  SlotOutlivesSession'
    BY <1>13, <1>a, EntriesKept DEF Boot, LaunchAborted, Vanish, slotVars, requestVars, Tracked
<1>14. ASSUME NEW q \in Replicas, Restart(q)
       PROVE  SlotOutlivesSession'
  <2>1. \A r \in Replicas : \A x \in Tracked(r)' :
            r # q /\ x \in Tracked(r) /\ deadlines'[r][x] = deadlines[r][x]
    BY <1>14 DEF Restart, Tracked
  <2> QED
    BY <1>14, <2>1, <1>a, EntriesKept DEF Restart, backendVars, InHandler
<1>15. CASE UNCHANGED vars
    BY <1>15, EntriesKept DEF vars, slotVars, requestVars, backendVars, Tracked
<1> QED
    BY <1>1, <1>2, <1>4, <1>5, <1>6, <1>7, <1>8, <1>9, <1>10, <1>11, <1>12, <1>13,
       <1>14, <1>15 DEF Next, Request, Backend, Acquire

-----------------------------------------------------------------------------
(* While a listing is on its way back, no create can join the race: the    *)
(* lock keeps every other request of the replica out of acquire().         *)
LEMMA CoverKept ==
    ASSUME ListingCovers, NEW r \in Sessions, NEW q \in Replicas,
           stage[r] = "listed", home[r] = q,
           racing'[q] = racing[q], snapshot'[q] = snapshot[q],
           At(q, "creating")' \subseteq At(q, "creating"),
           \A s \in Tracked(q)' :
              \/ s \in At(q, "creating")
              \/ s \in Tracked(q) /\ (Live(s)' => Live(s))
    PROVE  /\ At(q, "creating")' \subseteq racing'[q]
           /\ \A s \in Tracked(q)' : Live(s)' => s \in snapshot'[q] \cup racing'[q]
BY DEF ListingCovers

(* Every step keeps ListingCovers: what becomes live or tracked while a    *)
(* listing is pending was in flight when it was taken.                     *)
LEMMA ListingStep ==
    ASSUME TypeOK, HandlersHaveHomes, LockHeld, SlotOutlivesSession, ListingCovers,
           [Next]_vars
    PROVE  ListingCovers'
<1> DEFINE Covered(r, q) ==
        /\ At(q, "creating")' \subseteq racing'[q]
        /\ \A s \in Tracked(q)' : Live(s)' => s \in snapshot'[q] \cup racing'[q]
<1> SUFFICES ASSUME NEW r \in Sessions, NEW q \in Replicas, stage'[r] = "listed",
                    home'[r] = q
             PROVE  Covered(r, q)
  <2>1. HandlersHaveHomes'
    BY HomesStep
  <2> QED
    BY <2>1 DEF ListingCovers, HandlersHaveHomes, InHandler
<1> USE DEF TypeOK
<1>a. \A s \in Tracked(q) :
          s \in Sessions /\ stage[s] \in {"done", "deleted"} /\ backend[s] \in {"up", "gone"}
    BY DEF SlotOutlivesSession, Tracked, IsDict
<1>b. \A s \in Sessions : stage[s] \in {"recounting", "listed"} => lock[home[s]] = s
    BY DEF LockHeld
<1>1. CASE Tick
  <2>1. \A s \in Sessions : Live(s)' => Live(s)
    BY <1>1 DEF Tick, backendVars, Live
  <2> QED
    BY <1>1, <2>1, <1>a, CoverKept DEF Tick, slotVars, requestVars, At, Tracked
<1>2. ASSUME NEW s \in Sessions, NEW p \in Replicas, NEW t \in Timeouts, Arrive(s, p, t)
      PROVE  Covered(r, q)
  <2>1. /\ stage[r] = "listed" /\ home[r] = q
        /\ At(q, "creating")' = At(q, "creating")
    BY <1>2 DEF Arrive, At
  <2> QED
    BY <1>2, <2>1, CoverKept DEF Arrive, slotVars, backendVars, Tracked, Live
<1>3. ASSUME NEW s \in Sessions, s # r, home[s] \in Replicas \ {q}, home' = home,
             stage[s] \notin {"creating", "done", "deleted"},
             NEW st, stage' = [stage EXCEPT ![s] = st],
             NEW b, backend' = [backend EXCEPT ![s] = b],
             deadlines'[q] = deadlines[q], racing'[q] = racing[q],
             snapshot'[q] = snapshot[q], UNCHANGED <<now, ends>>
      PROVE  Covered(r, q)
  <2>1. /\ stage[r] = "listed" /\ home[r] = q
        /\ At(q, "creating")' = At(q, "creating")
    BY <1>3 DEF At
  <2>2. \A x \in Tracked(q)' : x \in Tracked(q) /\ (Live(x)' => Live(x))
    BY <1>3, <1>a DEF Live, Tracked
  <2> QED
    BY <1>3, <2>1, <2>2, CoverKept
<1>4. ASSUME NEW s \in Sessions, AcquireBelow(s)
      PROVE  Covered(r, q)
  <2>1. s # r /\ stage[r] = "listed" /\ home[r] = q /\ home[s] \in Replicas
    BY <1>4 DEF AcquireBelow, Admit, HandlersHaveHomes, InHandler
  <2>2. home[s] # q
    BY <1>4, <1>b, <2>1, NobodyIsFresh DEF AcquireBelow
  <2> QED
    BY <1>4, <2>1, <2>2, <1>3 DEF AcquireBelow, Admit
<1>5. ASSUME NEW s \in Sessions, AcquireAtCap(s)
      PROVE  Covered(r, q)
  <2>1. s # r /\ stage[r] = "listed" /\ home[r] = q /\ home[s] \in Replicas
    BY <1>5 DEF AcquireAtCap, HandlersHaveHomes, InHandler
  <2>2. home[s] # q
    BY <1>5, <1>b, <2>1, NobodyIsFresh DEF AcquireAtCap
  <2>3. backend' = [backend EXCEPT ![s] = backend[s]]
    BY <1>5 DEF AcquireAtCap, backendVars
  <2> QED
    BY <1>5, <2>1, <2>2, <2>3, <1>3 DEF AcquireAtCap, backendVars
<1>6. ASSUME NEW s \in Sessions, ListingTaken(s)
      PROVE  Covered(r, q)
  <2>0. home[s] \in Replicas
    BY <1>6 DEF ListingTaken, HandlersHaveHomes, InHandler
  <2>1. PICK early \in SUBSET Sessions :
            snapshot' = [snapshot EXCEPT ![home[s]] = {x \in Sessions : Live(x)} \cup early]
    <3>1. PICK early \in SUBSET {x \in Sessions : backend[x] = "launching"} :
              snapshot' = [snapshot EXCEPT ![home[s]] = {x \in Sessions : Live(x)} \cup early]
      BY <1>6 DEF ListingTaken
    <3> QED
      BY <3>1
  <2>2. CASE r = s
    <3>1. At(q, "creating")' = At(q, "creating") /\ racing'[q] = At(q, "creating")
      BY <1>6, <2>2 DEF ListingTaken, At
    <3>2. \A x \in Tracked(q)' : Live(x)' => x \in snapshot'[q]
      BY <1>6, <2>1, <2>2, <1>a DEF ListingTaken, backendVars, Tracked, Live
    <3> QED
      BY <3>1, <3>2
  <2>3. CASE r # s
    <3>1. home[s] # q
      BY <1>6, <2>3, <1>b DEF ListingTaken
    <3>2. backend' = [backend EXCEPT ![s] = backend[s]]
      BY <1>6 DEF ListingTaken, backendVars
    <3> QED
      BY <1>6, <2>0, <2>1, <2>3, <3>1, <3>2, <1>3 DEF ListingTaken, backendVars
  <2> QED
    BY <2>2, <2>3
<1>7. ASSUME NEW s \in Sessions, Resync(s)
      PROVE  Covered(r, q)
  <2>1. PICK kept : AdmitOrReject(s, home[s], kept)
    BY <1>7 DEF Resync, ResyncDone, ResyncFails
  <2>2. stage[s] \in {"recounting", "listed"} /\ home[s] \in Replicas
    BY <1>7 DEF Resync, ResyncDone, ResyncFails, HandlersHaveHomes, InHandler
  <2>3. home' = home /\ s # r /\ stage[r] = "listed" /\ home[r] = q
    BY <2>1 DEF AdmitOrReject, Admit, Reject
  <2>4. home[s] # q
    BY <2>2, <2>3, <1>b
  <2>5. CASE Admit(s, home[s], kept)
    BY <2>1, <2>2, <2>3, <2>4, <2>5, <1>3 DEF AdmitOrReject, Admit, FreeLock
  <2>6. CASE Reject(s, home[s], kept)
    <3>1. backend' = [backend EXCEPT ![s] = backend[s]]
      BY <2>6 DEF Reject
    <3> QED
      BY <2>1, <2>2, <2>3, <2>4, <2>6, <3>1, <1>3 DEF AdmitOrReject, Reject, FreeLock
  <2> QED
    BY <2>1, <2>5, <2>6 DEF AdmitOrReject
<1>8. ASSUME NEW s \in Sessions, CreateReturns(s)
      PROVE  Covered(r, q)
  <2>1. /\ s # r /\ stage[r] = "listed" /\ home[r] = q
        /\ At(q, "creating")' \subseteq At(q, "creating")
    BY <1>8 DEF CreateReturns, At
  <2>2. \A x \in Tracked(q)' : x \in At(q, "creating") \/ x \in Tracked(q)
    BY <1>8 DEF CreateReturns, Tracked, At
  <2> QED
    BY <1>8, <2>1, <2>2, CoverKept DEF CreateReturns, backendVars, Live
<1>9. ASSUME NEW s \in Sessions, CreateFails(s)
      PROVE  Covered(r, q)
  <2>1. /\ s # r /\ stage[r] = "listed" /\ home[r] = q
        /\ At(q, "creating")' \subseteq At(q, "creating")
    BY <1>9 DEF CreateFails, At
  <2>2. \A x \in Tracked(q) : Live(x)' => Live(x)
    BY <1>9, <1>a DEF CreateFails, Live
  <2> QED
    BY <1>9, <2>1, <2>2, CoverKept DEF CreateFails, Tracked
<1>10. ASSUME NEW s \in Sessions, Cancel(s)
       PROVE  Covered(r, q)
  <2>1. /\ s # r /\ stage[r] = "listed" /\ home[r] = q
        /\ At(q, "creating")' \subseteq At(q, "creating")
    BY <1>10 DEF Cancel, At
  <2>2. snapshot'[q] = snapshot[q]
    BY <1>10, <2>1, <1>b DEF Cancel, FreeLock
  <2> QED
    BY <1>10, <2>1, <2>2, CoverKept DEF Cancel, backendVars, Tracked, Live
<1>11. ASSUME NEW s \in Sessions, NEW p \in Replicas, Delete(s, p)
       PROVE  Covered(r, q)
  <2>1. /\ s # r /\ stage[r] = "listed" /\ home[r] = q
        /\ At(q, "creating")' \subseteq At(q, "creating")
    BY <1>11 DEF Delete, At
  <2>2. DOMAIN deadlines[p] \ {s} \in SUBSET Tracked(p)
    BY DEF Tracked
  <2>3. \A x \in Tracked(q)' : x \in Tracked(q)
    BY <1>11, <2>2, EntriesOnlyDropped DEF Delete
  <2> QED
    BY <1>11, <2>1, <2>3, CoverKept DEF Delete, Live
<1>12. ASSUME NEW s \in Sessions, TeardownLands(s) \/ TeardownFails(s) \/ Boot(s) \/ LaunchAborted(s) \/ Vanish(s)
       PROVE  Covered(r, q)
  <2>1. /\ stage[r] = "listed" /\ home[r] = q
        /\ At(q, "creating")' = At(q, "creating")
        /\ UNCHANGED <<now, deadlines, snapshot, racing>>
    BY <1>12 DEF TeardownLands, TeardownFails, Boot, LaunchAborted, Vanish, slotVars, requestVars, At
  <2>2. \A x \in Tracked(q) : Live(x)' => Live(x)
    BY <1>12, <1>a DEF TeardownLands, TeardownFails, Boot, LaunchAborted, Vanish, Live
  <2> QED
    BY <2>1, <2>2, CoverKept DEF Tracked
<1>13. ASSUME NEW p \in Replicas, Restart(p)
       PROVE  Covered(r, q)
  <2>1. stage[r] = "listed" /\ home[r] = q /\ p # q
    BY <1>13, NobodyIsFresh DEF Restart, InHandler
  <2>2. /\ At(q, "creating")' = At(q, "creating")
        /\ Tracked(q)' = Tracked(q)
        /\ racing'[q] = racing[q] /\ snapshot'[q] = snapshot[q]
    BY <1>13, <2>1, NobodyIsFresh DEF Restart, FreeLock, At, Tracked, InHandler
  <2>3. \A x \in Tracked(q) : Live(x)' => Live(x)
    BY <1>13 DEF Restart, backendVars, Live
  <2> QED
    BY <2>1, <2>2, <2>3, CoverKept
<1>14. CASE UNCHANGED vars
    BY <1>14, CoverKept DEF vars, slotVars, requestVars, backendVars, At, Tracked, Live
<1> QED
    BY <1>1, <1>2, <1>4, <1>5, <1>6, <1>7, <1>8, <1>9, <1>10, <1>11, <1>12, <1>13,
       <1>14 DEF Next, Request, Backend, Acquire

-----------------------------------------------------------------------------
(* A service that just started satisfies the inductive invariant.          *)
LEMMA InitInvariant ==
    Init => IInv
<1> SUFFICES ASSUME Init
             PROVE  IInv
    OBVIOUS
<1> USE DEF Init
<1>1. TypeOK
    BY DEF TypeOK, IsDict, Stages, BackendStates
<1>2. HandlersHaveHomes /\ LockHeld /\ TeardownAfterDelete /\ BootedInTime /\ SlotOutlivesSession
    BY DEF HandlersHaveHomes, LockHeld, TeardownAfterDelete, BootedInTime, SlotOutlivesSession, InHandler, Tracked
<1>3. \A q \in Replicas : At(q, "creating") = {} /\ Tracked(q) = {}
    BY DEF At, Tracked
<1>4. PendingExact
    BY <1>3, FS_EmptySet DEF PendingExact
<1>5. WithinLimit
  <2>1. \A q \in Replicas : Cardinality(Tracked(q)) = 0 /\ pending[q] = 0
    BY <1>3, FS_EmptySet
  <2> QED
    BY <2>1, LimitIsInt DEF WithinLimit, Capped
<1>6. ListingCovers
    BY DEF ListingCovers
<1> QED
    BY <1>1, <1>2, <1>4, <1>5, <1>6 DEF IInv

(* Every step of the handlers, the backend and the clock keeps it.         *)
LEMMA NextInvariant ==
    IInv /\ [Next]_vars => IInv'
<1> SUFFICES ASSUME IInv, [Next]_vars
             PROVE  IInv'
    OBVIOUS
<1>1. TypeOK' /\ HandlersHaveHomes' /\ LockHeld' /\ TeardownAfterDelete' /\ BootedInTime'
    BY TypingStep, HomesStep, LockStep, TeardownStep, BootedStep DEF IInv
<1>2. PendingExact' /\ WithinLimit'
    BY PendingStep, LimitStep DEF IInv
<1>3. SlotOutlivesSession' /\ ListingCovers'
    BY OutlivesStep, ListingStep DEF IInv
<1> QED
    BY <1>1, <1>2, <1>3 DEF IInv

(* IInv holds in every reachable state, whatever the constants.            *)
THEOREM Invariance == Spec => []IInv
BY InitInvariant, NextInvariant, PTL DEF Spec

(* Every variable has its type; _pending is never negative.                *)
THEOREM Typing == Spec => []TypeOK
<1>1. IInv => TypeOK
    BY DEF IInv
<1> QED
    BY <1>1, Invariance, PTL

(* _pending is exactly the number of creates in flight (commit, rollback   *)
(* and cancellation in create_session neither leak nor double-free).       *)
THEOREM PendingIsExact == Spec => []PendingExact
<1>1. IInv => PendingExact
    BY DEF IInv
<1> QED
    BY <1>1, Invariance, PTL

(* No interleaving of acquire, resync, commit, rollback and release pushes *)
(* entries plus creates in flight past the limit.                          *)
THEOREM SlotsStayWithinLimit == Spec => []WithinLimit
<1>1. IInv => WithinLimit
    BY DEF IInv
<1> QED
    BY <1>1, Invariance, PTL

(* _live() never purges the entry of a session whose `sleep` still runs.   *)
THEOREM SlotsOutliveSessions == Spec => []SlotOutlivesSession
<1>1. IInv => SlotOutlivesSession
    BY DEF IInv
<1> QED
    BY <1>1, Invariance, PTL

-----------------------------------------------------------------------------
(* A live session nobody deleted is dropped only by a resync, and then it  *)
(* was in flight when that resync's listing was taken.                     *)
LEMMA SlotLossStep ==
    ASSUME IInv, [Next]_vars, NEW q \in Replicas, NEW s \in Tracked(q),
           s \notin Tracked(q)', stage'[s] = "done", home'[s] = q, Live(s)
    PROVE  \E x \in Sessions : ResyncDone(x) /\ home[x] = q /\ s \in racing[q]
<1> USE DEF IInv, TypeOK
<1>a. s \in Sessions /\ s \in Unexpired(q)
    BY DEF SlotOutlivesSession, Tracked, IsDict, Unexpired, Live
<1>b. ASSUME NEW p \in Replicas, NEW kept \in SUBSET Tracked(p),
             deadlines' = [deadlines EXCEPT ![p] = Restrict(@, kept)]
      PROVE  p = q /\ s \notin kept
  <2>1. Tracked(p)' = kept /\ \A r \in Replicas \ {p} : deadlines'[r] = deadlines[r]
    BY <1>b, DictsStayDicts
  <2>2. p = q
    BY <2>1 DEF Tracked
  <2> QED
    BY <2>1, <2>2
<1>1. CASE Tick
    BY <1>1 DEF Tick, slotVars, Tracked
<1>2. ASSUME NEW x \in Sessions, NEW p \in Replicas, NEW t \in Timeouts, Arrive(x, p, t)
      PROVE  FALSE
    BY <1>2 DEF Arrive, slotVars, Tracked
<1>3. ASSUME NEW x \in Sessions, Acquire(x)
      PROVE  FALSE
  <2>1. home[x] \in Replicas
    BY <1>3 DEF Acquire, AcquireBelow, AcquireAtCap, HandlersHaveHomes, InHandler
  <2>2. deadlines' = [deadlines EXCEPT ![home[x]] = Restrict(@, Unexpired(home[x]))]
    BY <1>3 DEF Acquire, AcquireBelow, AcquireAtCap, Admit
  <2>3. PICK kept \in SUBSET Tracked(home[x]) :
            /\ kept = Unexpired(home[x])
            /\ deadlines' = [deadlines EXCEPT ![home[x]] = Restrict(@, kept)]
    BY <2>2, KeptIsTracked
  <2> QED
    BY <2>1, <2>3, <1>a, <1>b
<1>4. ASSUME NEW x \in Sessions, ResyncFails(x)
      PROVE  FALSE
  <2>1. home[x] \in Replicas
    BY <1>4 DEF ResyncFails, HandlersHaveHomes, InHandler
  <2>2. deadlines' = [deadlines EXCEPT ![home[x]] = Restrict(@, Unexpired(home[x]))]
    BY <1>4 DEF ResyncFails, AdmitOrReject, Admit, Reject
  <2>3. PICK kept \in SUBSET Tracked(home[x]) :
            /\ kept = Unexpired(home[x])
            /\ deadlines' = [deadlines EXCEPT ![home[x]] = Restrict(@, kept)]
    BY <2>2, KeptIsTracked
  <2> QED
    BY <2>1, <2>3, <1>a, <1>b
<1>5. ASSUME NEW x \in Sessions, ResyncDone(x)
      PROVE  home[x] = q /\ s \in racing[q]
  <2>1. home[x] \in Replicas
    BY <1>5 DEF ResyncDone, HandlersHaveHomes, InHandler
  <2>2. deadlines' = [deadlines EXCEPT ![home[x]] =
                        Restrict(@, Unexpired(home[x]) \cap snapshot[home[x]])]
    BY <1>5 DEF ResyncDone, AdmitOrReject, Admit, Reject
  <2>3. PICK kept \in SUBSET Tracked(home[x]) :
            /\ kept = Unexpired(home[x]) \cap snapshot[home[x]]
            /\ deadlines' = [deadlines EXCEPT ![home[x]] = Restrict(@, kept)]
    BY <2>2, KeptIsTracked
  <2>4. home[x] = q /\ s \notin kept
    <3>1. deadlines' = [deadlines EXCEPT ![home[x]] = Restrict(@, kept)]
      BY <2>3
    <3> QED
      BY <2>1, <3>1, <1>b
  <2>5. s \notin snapshot[q]
    BY <2>3, <2>4, <1>a
  <2> QED
    BY <1>5, <2>4, <2>5 DEF ListingCovers, ResyncDone
<1>6. ASSUME NEW x \in Sessions, CreateReturns(x)
      PROVE  FALSE
    BY <1>6 DEF CreateReturns, Tracked
<1>7. ASSUME NEW x \in Sessions, CreateFails(x) \/ Cancel(x)
      PROVE  FALSE
    BY <1>7 DEF CreateFails, Cancel, Tracked
<1>8. ASSUME NEW x \in Sessions, NEW p \in Replicas, Delete(x, p)
      PROVE  FALSE
  <2>1. DOMAIN deadlines[p] \ {x} \in SUBSET Tracked(p)
    BY DEF Tracked
  <2>2. p = q /\ s \notin DOMAIN deadlines[p] \ {x}
    BY <1>8, <2>1, <1>b DEF Delete
  <2>3. s = x
    BY <2>2 DEF Tracked
  <2> QED
    BY <1>8, <2>3 DEF Delete
<1>9. ASSUME NEW x \in Sessions, Backend(x)
      PROVE  FALSE
    BY <1>9 DEF Backend, ListingTaken, TeardownLands, TeardownFails, Boot,
                LaunchAborted, Vanish, slotVars, Tracked
<1>10. ASSUME NEW p \in Replicas, Restart(p)
       PROVE  FALSE
    BY <1>10, <1>a, NobodyIsFresh DEF Restart, Tracked
<1>11. CASE UNCHANGED vars
    BY <1>11 DEF vars, slotVars, Tracked
<1> QED
    BY <1>1, <1>2, <1>3, <1>4, <1>5, <1>6, <1>7, <1>8, <1>9, <1>10, <1>11
    DEF Next, Request, Resync

(* While its process lives, a live session that nobody deleted keeps its   *)
(* slot, except for the creates that race a recount.                       *)
THEOREM LiveSlotsAreKept == Spec => LiveSlotKept
<1>1. IInv /\ [Next]_vars => [LiveSlotLoss]_vars
    BY SlotLossStep DEF LiveSlotLoss
<1> QED
    BY <1>1, Invariance, PTL DEF Spec, LiveSlotKept

-----------------------------------------------------------------------------
(* Entries and creates in flight are different sessions, so keeping some   *)
(* entries leaves as many slots as _live() says.                           *)
LEMMA SlotsAreCounted ==
    ASSUME IInv, Capped, NEW q \in Replicas, NEW kept \in SUBSET Tracked(q)
    PROVE  /\ kept \cap At(q, "creating") = {}
           /\ IsFiniteSet(kept \cup At(q, "creating"))
           /\ Cardinality(kept \cup At(q, "creating")) = LiveCount(q, kept)
<1>1. kept \cap At(q, "creating") = {}
    BY DEF IInv, SlotOutlivesSession, At
<1>2. /\ IsFiniteSet(kept) /\ Cardinality(kept) \in Nat
      /\ IsFiniteSet(At(q, "creating")) /\ Cardinality(At(q, "creating")) \in Nat
    BY CountsAreNatural DEF IInv
<1>3. Cardinality(kept \cap At(q, "creating")) = 0
    BY <1>1, FS_EmptySet
<1>4. pending[q] = Cardinality(At(q, "creating"))
    BY DEF IInv, PendingExact
<1>5. /\ IsFiniteSet(kept \cup At(q, "creating"))
      /\ Cardinality(kept \cup At(q, "creating"))
            = Cardinality(kept) + Cardinality(At(q, "creating")) - Cardinality(kept \cap At(q, "creating"))
    BY <1>2, FS_Union
<1> QED
    BY <1>1, <1>2, <1>3, <1>4, <1>5 DEF LiveCount

(* A 429 after a successful recount: what LiveCount counted are creates in *)
(* flight and listed sessions of the replica, and they are distinct.       *)
LEMMA RejectIsJustified ==
    ASSUME IInv, [Next]_vars
    PROVE  RejectStep
<1> SUFFICES ASSUME NEW s \in Sessions, stage[s] = "listed", stage'[s] = "rejected"
             PROVE  FullyBacked(home[s])
    BY DEF RejectStep
<1> DEFINE q == home[s]
           kept == Unexpired(q) \cap snapshot[q]
           backed == At(q, "creating") \cup {x \in snapshot[q] : home[x] = q}
<1>1. q \in Replicas
    BY DEF IInv, HandlersHaveHomes, InHandler
<1>2. ResyncDone(s)
  <2>1. ASSUME NEW x \in Sessions, Request(x) \/ Backend(x)
        PROVE  ResyncDone(s)
    BY <2>1 DEF IInv, TypeOK, Request, Backend, Acquire, Resync, Arrive, AcquireBelow,
                AcquireAtCap, ResyncDone, ResyncFails, AdmitOrReject, Admit, Reject,
                CreateReturns, CreateFails, Cancel, Delete, ListingTaken, TeardownLands,
                TeardownFails, Boot, LaunchAborted, Vanish, requestVars
  <2>2. ~ Tick /\ ~ UNCHANGED vars /\ \A p \in Replicas : ~ Restart(p)
    BY DEF Tick, vars, requestVars, Restart, IInv, TypeOK
  <2> QED
    BY <2>1, <2>2 DEF Next
<1>3. LiveCount(q, kept) >= Limit
    BY <1>2 DEF ResyncDone, AdmitOrReject, Admit, IInv, TypeOK
<1>4. IsFiniteSet(backed) /\ Cardinality(backed) \in Nat
  <2>1. backed \in SUBSET Sessions
    BY <1>1 DEF IInv, TypeOK, At
  <2> QED
    BY <2>1, SessionsFinite, FS_Subset, FS_CardinalityType
<1>5. CASE ~ Capped
    BY <1>4, <1>5, LimitIsInt DEF Capped, FullyBacked
<1>6. CASE Capped
  <2>1. kept \in SUBSET Tracked(q)
    BY KeptIsTracked
  <2>2. Cardinality(kept \cup At(q, "creating")) = LiveCount(q, kept)
    BY <1>1, <1>6, <2>1, SlotsAreCounted
  <2>3. kept \cup At(q, "creating") \in SUBSET backed
    BY <1>1, <2>1 DEF IInv, SlotOutlivesSession
  <2>4. /\ Cardinality(kept \cup At(q, "creating")) <= Cardinality(backed)
        /\ Cardinality(kept \cup At(q, "creating")) \in Nat
    BY <1>4, <2>3, FS_Subset, FS_CardinalityType
  <2> QED
    BY <1>3, <1>4, <2>2, <2>4, LimitIsInt DEF FullyBacked
<1> QED
    BY <1>5, <1>6

(* A 429 after a recount that worked is never the fault of stale entries.  *)
THEOREM RejectsAreJustified == Spec => RejectJustified
<1>1. IInv /\ [Next]_vars => [RejectStep]_vars
    BY RejectIsJustified
<1> QED
    BY <1>1, Invariance, PTL DEF Spec, RejectJustified

-----------------------------------------------------------------------------
(* Refinement: every step of the bookkeeping is a step of the pool.        *)

(* A step that touches the slots of q alone, described by what q holds.    *)
LEMMA PoolGivesUp ==
    ASSUME NEW q \in Replicas, NEW stale \in SUBSET Sessions,
           Held(q)' = Held(q) \ stale,
           \A r \in Replicas \ {q} : Held(r)' = Held(r)
    PROVE  Pool!Next
<1>1. Pool!GiveUp(q, stale)
    BY DEF Pool!GiveUp, AllHeld
<1> QED
    BY <1>1 DEF Pool!Next

(* The instance counts with a Cardinality of its own, defined alike.       *)
LEMMA PoolCounts ==
    ASSUME NEW S
    PROVE  Pool!Cardinality(S) = Cardinality(S)
BY DEF Pool!Cardinality, Cardinality

(* A replica that takes a slot and changes no other's is a step of the     *)
(* pool.                                                                   *)
LEMMA PoolAcquires ==
    ASSUME NEW q \in Replicas, NEW s \in Sessions, NEW stale \in SUBSET Sessions,
           \A r \in Replicas : s \notin Held(r),
           Limit <= 0 \/ Cardinality(Held(q) \ stale) < Limit,
           Held(q)' = (Held(q) \ stale) \cup {s},
           \A r \in Replicas \ {q} : Held(r)' = Held(r)
    PROVE  Pool!Next
<1>1. \A r \in Replicas : AllHeld[r] = Held(r)
    BY DEF AllHeld
<1>2. AllHeld' = [AllHeld EXCEPT ![q] = (AllHeld[q] \ stale) \cup {s}]
    BY DEF AllHeld
<1>3. Limit <= 0 \/ Pool!Cardinality(AllHeld[q] \ stale) < Limit
    <2>1. AllHeld[q] = Held(q)
      BY <1>1
    <2> QED
      BY <2>1, PoolCounts
<1>4. Pool!Acquire(q, s, stale)
    BY <1>1, <1>2, <1>3 DEF Pool!Acquire
<1> QED
    BY <1>4 DEF Pool!Next

(* A step that leaves every replica its slots is a stutter of the pool.     *)
LEMMA PoolStutters ==
    ASSUME \A r \in Replicas : Held(r)' = Held(r)
    PROVE  UNCHANGED AllHeld
BY DEF AllHeld

(* The purge and the resync give up the entries they drop.                 *)
LEMMA DropMapsToPool ==
    ASSUME IInv, NEW q \in Replicas, NEW kept \in SUBSET Tracked(q),
           deadlines' = [deadlines EXCEPT ![q] = Restrict(@, kept)],
           \A r \in Replicas : At(r, "creating")' = At(r, "creating")
    PROVE  Pool!Next
<1> DEFINE stale == Tracked(q) \ kept
<1>1. stale \in SUBSET Sessions
    BY DEF IInv, TypeOK, IsDict, Tracked
<1>2. Tracked(q)' = kept /\ \A r \in Replicas \ {q} : Tracked(r)' = Tracked(r)
    BY DictsStayDicts DEF IInv, Tracked
<1>3. stale \cap At(q, "creating") = {}
    BY DEF IInv, SlotOutlivesSession, At
<1>4. Held(q)' = Held(q) \ stale
    BY <1>2, <1>3 DEF Held
<1>5. \A r \in Replicas \ {q} : Held(r)' = Held(r)
    BY <1>2 DEF Held
<1> QED
    BY <1>1, <1>4, <1>5, PoolGivesUp

(* Admitting a create takes a slot below the limit.                        *)
LEMMA AdmitMapsToPool ==
    ASSUME IInv, NEW s \in Sessions, NEW q \in Replicas, home[s] = q,
           stage[s] \in {"arrived", "recounting", "listed"},
           NEW kept \in SUBSET Tracked(q), Capped => LiveCount(q, kept) < Limit,
           Admit(s, q, kept), home' = home
    PROVE  Pool!Next
<1> DEFINE stale == Tracked(q) \ kept
<1>1. stale \in SUBSET Sessions
    BY DEF IInv, TypeOK, IsDict, Tracked
<1>2. Tracked(q)' = kept /\ \A r \in Replicas \ {q} : Tracked(r)' = Tracked(r)
    BY DictsStayDicts DEF IInv, Tracked, Admit
<1>3. /\ At(q, "creating")' = At(q, "creating") \cup {s}
      /\ \A r \in Replicas \ {q} : At(r, "creating")' = At(r, "creating")
    BY DEF Admit, At, IInv, TypeOK
<1>4. stale \cap At(q, "creating") = {}
    BY DEF IInv, SlotOutlivesSession, At
<1>5. Held(q) \ stale = kept \cup At(q, "creating")
    BY <1>4 DEF Held
<1>6. Limit <= 0 \/ Cardinality(Held(q) \ stale) < Limit
  <2>1. CASE Capped
    BY <2>1, <1>5, SlotsAreCounted
  <2>2. CASE ~ Capped
    BY <2>2, LimitIsInt DEF Capped
  <2> QED
    BY <2>1, <2>2
<1>7. \A r \in Replicas : s \notin Held(r)
    BY DEF Held, At, IInv, SlotOutlivesSession
<1>8. Held(q)' = (Held(q) \ stale) \cup {s}
    BY <1>2, <1>3, <1>5 DEF Held
<1>9. \A r \in Replicas \ {q} : Held(r)' = Held(r)
    BY <1>2, <1>3 DEF Held
<1> QED
    BY <1>1, <1>6, <1>7, <1>8, <1>9, PoolAcquires

(* A create that ends without an entry gives its slot up.                  *)
LEMMA EndMapsToPool ==
    ASSUME IInv, NEW s \in Sessions, NEW q \in Replicas, home[s] = q,
           stage[s] = "creating", NEW st, st # "creating",
           stage' = [stage EXCEPT ![s] = st], home' = home, deadlines' = deadlines
    PROVE  Pool!Next
<1>1. \A r \in Replicas : Tracked(r)' = Tracked(r) /\ s \notin Tracked(r)
    BY DEF Tracked, IInv, SlotOutlivesSession
<1>2. /\ At(q, "creating")' = At(q, "creating") \ {s}
      /\ \A r \in Replicas \ {q} : At(r, "creating")' = At(r, "creating")
    BY DEF At, IInv, TypeOK
<1>3. Held(q)' = Held(q) \ {s}
    BY <1>1, <1>2 DEF Held
<1>4. \A r \in Replicas \ {q} : Held(r)' = Held(r)
    BY <1>1, <1>2 DEF Held
<1> QED
    BY <1>3, <1>4, PoolGivesUp

(* Every step of the service is a step or a stutter of the pool.           *)
LEMMA StepMapsToPool ==
    ASSUME IInv, [Next]_vars
    PROVE  Pool!Next \/ UNCHANGED AllHeld
<1> DEFINE Goal == Pool!Next \/ UNCHANGED AllHeld
           Same == deadlines' = deadlines /\ \A r \in Replicas : At(r, "creating")' = At(r, "creating")
<1>a. Same => Goal
    BY PoolStutters DEF Held, Tracked
<1>b. TypeOK /\ HandlersHaveHomes /\ SlotOutlivesSession
    BY DEF IInv
<1>1. CASE Tick
    BY <1>1, <1>a DEF Tick, slotVars, requestVars, At
<1>2. ASSUME NEW s \in Sessions, NEW q \in Replicas, NEW t \in Timeouts, Arrive(s, q, t)
      PROVE  Same
    BY <1>2, <1>b DEF Arrive, slotVars, At, TypeOK
<1>3. ASSUME NEW s \in Sessions, AcquireBelow(s)
      PROVE  Goal
    BY <1>3, <1>b, AdmitMapsToPool, KeptIsTracked
    DEF AcquireBelow, HandlersHaveHomes, InHandler
<1>4. ASSUME NEW s \in Sessions, AcquireAtCap(s)
      PROVE  Goal
  <2>1. home[s] \in Replicas
    BY <1>4, <1>b DEF AcquireAtCap, HandlersHaveHomes, InHandler
  <2>2. \A r \in Replicas : At(r, "creating")' = At(r, "creating")
    BY <1>4, <1>b DEF AcquireAtCap, At, TypeOK
  <2> QED
    BY <1>4, <2>1, <2>2, DropMapsToPool, KeptIsTracked DEF AcquireAtCap
<1>5. ASSUME NEW s \in Sessions, Resync(s)
      PROVE  Goal
  <2>1. home[s] \in Replicas /\ stage[s] \in {"recounting", "listed"}
    BY <1>5, <1>b DEF Resync, ResyncDone, ResyncFails, HandlersHaveHomes, InHandler
  <2>2. PICK kept \in SUBSET Tracked(home[s]) : AdmitOrReject(s, home[s], kept)
    BY <1>5, KeptIsTracked DEF Resync, ResyncDone, ResyncFails
  <2>3. CASE LiveCount(home[s], kept) < Limit /\ Admit(s, home[s], kept)
    BY <2>1, <2>2, <2>3, AdmitMapsToPool DEF AdmitOrReject
  <2>4. CASE Reject(s, home[s], kept)
    <3>1. \A r \in Replicas : At(r, "creating")' = At(r, "creating")
      BY <2>1, <2>2, <2>4, <1>b DEF AdmitOrReject, Reject, At, TypeOK
    <3> QED
      BY <2>1, <2>4, <3>1, DropMapsToPool DEF Reject
  <2> QED
    BY <2>2, <2>3, <2>4 DEF AdmitOrReject
<1>6. ASSUME NEW s \in Sessions, CreateReturns(s)
      PROVE  Goal
  <2>1. home[s] \in Replicas /\ stage[s] = "creating" /\ home' = home
    BY <1>6, <1>b DEF CreateReturns, HandlersHaveHomes, InHandler
  <2>2. stage' = [stage EXCEPT ![s] = "done"]
    BY <1>6 DEF CreateReturns
  <2>3. CASE ~ Capped
    <3>1. deadlines' = deadlines
      BY <1>6, <2>3, <1>b DEF CreateReturns, TypeOK
    <3> QED
      BY <2>1, <2>2, <3>1, EndMapsToPool
  <2>4. CASE Capped
    <3>1. /\ Tracked(home[s])' = Tracked(home[s]) \cup {s}
          /\ \A r \in Replicas \ {home[s]} : Tracked(r)' = Tracked(r)
      BY <1>6, <2>1, <2>4, <1>b DEF CreateReturns, Tracked, TypeOK
    <3>2. /\ At(home[s], "creating")' = At(home[s], "creating") \ {s}
          /\ s \in At(home[s], "creating")
          /\ \A r \in Replicas \ {home[s]} : At(r, "creating")' = At(r, "creating")
      BY <2>1, <2>2, <1>b DEF At, TypeOK
    <3>3. \A r \in Replicas : Held(r)' = Held(r)
      BY <2>1, <3>1, <3>2 DEF Held
    <3> QED
      BY <3>3, PoolStutters
  <2> QED
    BY <2>3, <2>4
<1>7. ASSUME NEW s \in Sessions, CreateFails(s)
      PROVE  Goal
    BY <1>7, <1>b, EndMapsToPool DEF CreateFails, HandlersHaveHomes, InHandler
<1>8. ASSUME NEW s \in Sessions, Cancel(s)
      PROVE  Goal
  <2>1. CASE stage[s] = "creating"
    BY <1>8, <2>1, <1>b, EndMapsToPool DEF Cancel, HandlersHaveHomes, InHandler
  <2>2. CASE stage[s] # "creating"
    BY <1>8, <2>2, <1>a, <1>b DEF Cancel, At, TypeOK
  <2> QED
    BY <2>1, <2>2
<1>9. ASSUME NEW s \in Sessions, NEW q \in Replicas, Delete(s, q)
      PROVE  Goal
  <2>1. \A r \in Replicas : At(r, "creating")' = At(r, "creating")
    BY <1>9, <1>b DEF Delete, At, TypeOK
  <2>2. DOMAIN deadlines[q] \ {s} \in SUBSET Tracked(q)
    BY DEF Tracked
  <2> QED
    BY <1>9, <2>1, <2>2, DropMapsToPool DEF Delete
<1>10. ASSUME NEW s \in Sessions, Backend(s)
       PROVE  Same
    BY <1>10, <1>b DEF Backend, ListingTaken, TeardownLands, TeardownFails, Boot,
                       LaunchAborted, Vanish, slotVars, requestVars, At, TypeOK
<1>11. ASSUME NEW q \in Replicas, Restart(q)
       PROVE  Goal
  <2>1. Held(q)' = Held(q) \ Sessions
    BY <1>11, <1>b, NobodyIsFresh DEF Restart, Held, Tracked, At, TypeOK, IsDict
  <2>2. \A r \in Replicas \ {q} : Held(r)' = Held(r)
    BY <1>11, <1>b, NobodyIsFresh DEF Restart, Held, Tracked, At, TypeOK
  <2> QED
    BY <2>1, <2>2, PoolGivesUp
<1>12. CASE UNCHANGED vars
    BY <1>12, <1>a DEF vars, slotVars, requestVars, At
<1> QED
    BY <1>a, <1>1, <1>2, <1>3, <1>4, <1>5, <1>6, <1>7, <1>8, <1>9, <1>10, <1>11, <1>12
    DEF Next, Request, Acquire

(* The bookkeeping of app.py implements the abstract pool of slots.        *)
THEOREM SlotsImplementPool == Spec => ImplementsPool
<1>1. Init => Pool!Init
    BY DEF Init, Pool!Init, AllHeld, Held, Tracked, At
<1>2. IInv /\ [Next]_vars => [Pool!Next]_AllHeld
    BY StepMapsToPool
<1> QED
    BY <1>1, <1>2, Invariance, PTL DEF Spec, ImplementsPool, Pool!Spec

-----------------------------------------------------------------------------
(* What the lock and the race are worth.  Nothing here is a run's property: *)
(* the runs' properties follow from the same invariant.                    *)

(* Who holds _lock is in the middle of its recount at that replica: no way *)
(* out of acquire(), an exception or a cancellation included, leaves the   *)
(* lock taken.  Every other request of the replica would wait for ever.    *)
LockNotLeaked ==
    \A q \in Replicas : lock[q] # Nobody =>
        /\ home[lock[q]] = q
        /\ stage[lock[q]] \in {"recounting", "listed"}

(* Every step keeps LockNotLeaked: the lock is taken with the recount and  *)
(* given back with it.                                                     *)
LEMMA LockFreedStep ==
    ASSUME TypeOK, HandlersHaveHomes, LockHeld, LockNotLeaked, [Next]_vars
    PROVE  LockNotLeaked'
<1> USE DEF TypeOK, LockNotLeaked
<1>1. CASE Tick
    BY <1>1 DEF Tick, requestVars, slotVars
<1>2. ASSUME NEW s \in Sessions, NEW q \in Replicas, NEW t \in Timeouts, Arrive(s, q, t)
      PROVE  LockNotLeaked'
    BY <1>2 DEF Arrive, slotVars
<1>3. ASSUME NEW s \in Sessions, AcquireBelow(s)
      PROVE  LockNotLeaked'
    BY <1>3 DEF AcquireBelow, Admit
<1>4. ASSUME NEW s \in Sessions, AcquireAtCap(s)
      PROVE  LockNotLeaked'
    BY <1>4 DEF AcquireAtCap, HandlersHaveHomes, InHandler
<1>5. ASSUME NEW s \in Sessions, Resync(s)
      PROVE  LockNotLeaked'
  <2>1. /\ home[s] \in Replicas
        /\ lock[home[s]] = s
        /\ stage' = [stage EXCEPT ![s] = stage'[s]]
        /\ lock' = [lock EXCEPT ![home[s]] = Nobody]
        /\ home' = home
    BY <1>5 DEF Resync, ResyncDone, ResyncFails, AdmitOrReject, Admit, Reject, FreeLock,
                LockHeld, HandlersHaveHomes, InHandler
  <2> QED
    BY <2>1
<1>6. ASSUME NEW s \in Sessions, CreateReturns(s) \/ CreateFails(s)
      PROVE  LockNotLeaked'
    BY <1>6 DEF CreateReturns, CreateFails
<1>7. ASSUME NEW s \in Sessions, Cancel(s)
      PROVE  LockNotLeaked'
  <2>1. home[s] \in Replicas /\ home' = home /\ stage' = [stage EXCEPT ![s] = "cancelled"]
    BY <1>7 DEF Cancel, HandlersHaveHomes, InHandler
  <2>2. CASE stage[s] \in {"recounting", "listed"}
    <3>1. lock[home[s]] = s /\ lock' = [lock EXCEPT ![home[s]] = Nobody]
      BY <1>7, <2>2 DEF Cancel, FreeLock, LockHeld
    <3> QED
      BY <2>1, <3>1
  <2>3. CASE stage[s] \notin {"recounting", "listed"}
    BY <1>7, <2>1, <2>3 DEF Cancel
  <2> QED
    BY <2>2, <2>3
<1>8. ASSUME NEW s \in Sessions, NEW q \in Replicas, Delete(s, q)
      PROVE  LockNotLeaked'
    BY <1>8 DEF Delete
<1>9. ASSUME NEW s \in Sessions, ListingTaken(s)
      PROVE  LockNotLeaked'
    BY <1>9 DEF ListingTaken
<1>10. ASSUME NEW s \in Sessions, TeardownLands(s) \/ TeardownFails(s) \/ Boot(s) \/ LaunchAborted(s) \/ Vanish(s)
       PROVE  LockNotLeaked'
    BY <1>10 DEF TeardownLands, TeardownFails, Boot, LaunchAborted, Vanish, requestVars, slotVars
<1>11. ASSUME NEW q \in Replicas, Restart(q)
       PROVE  LockNotLeaked'
    BY <1>11 DEF Restart, FreeLock
<1>12. CASE UNCHANGED vars
    BY <1>12 DEF vars, requestVars, slotVars
<1> QED
    BY <1>1, <1>2, <1>3, <1>4, <1>5, <1>6, <1>7, <1>8, <1>9, <1>10, <1>11, <1>12
    DEF Next, Request, Backend, Acquire

(* The lock of a replica is held by its recounting request or by nobody:   *)
(* the safety half of EveryCreateAnswered.                                 *)
THEOREM LockIsNotLeaked == Spec => []LockNotLeaked
<1>1. Init => LockNotLeaked
    BY DEF Init, LockNotLeaked
<1>2. IInv /\ LockNotLeaked /\ [Next]_vars => LockNotLeaked'
    BY LockFreedStep DEF IInv
<1> QED
    BY <1>1, <1>2, Invariance, PTL DEF Spec

-----------------------------------------------------------------------------
(* The race is the whole of the finding: without it the cap is a cap.      *)

(* A resync is raced when a create that was in flight when its listing was *)
(* taken has been committed by the time acquire() uses the listing.        *)
Raced(s) == ResyncDone(s) /\ racing[home[s]] \cap At(home[s], "done") # {}

NoRacedResync == \A s \in Sessions : ~ Raced(s)

(* create_session answers 201 only for a session the backend had up.       *)
DoneWasUp ==
    \A s \in Sessions : stage[s] \in {"done", "deleted"} => backend[s] \in {"up", "gone"}

(* Every session that is live and not deleted is known to the replica that *)
(* created it.                                                             *)
LiveAreTracked ==
    Capped => \A q \in Replicas : \A s \in At(q, "done") : Live(s) => s \in Tracked(q)

(* Every step keeps DoneWasUp.                                             *)
LEMMA DoneStep ==
    ASSUME TypeOK, DoneWasUp, [Next]_vars
    PROVE  DoneWasUp'
<1> USE DEF TypeOK, DoneWasUp
<1>1. CASE Tick
    BY <1>1 DEF Tick, requestVars, backendVars
<1>2. ASSUME NEW s \in Sessions, NEW q \in Replicas, NEW t \in Timeouts, Arrive(s, q, t)
      PROVE  DoneWasUp'
    BY <1>2 DEF Arrive, backendVars
<1>3. ASSUME NEW s \in Sessions, Acquire(s)
      PROVE  DoneWasUp'
    BY <1>3 DEF Acquire, AcquireBelow, AcquireAtCap, Admit, backendVars
<1>4. ASSUME NEW s \in Sessions, Resync(s)
      PROVE  DoneWasUp'
    BY <1>4 DEF Resync, ResyncDone, ResyncFails, AdmitOrReject, Admit, Reject
<1>5. ASSUME NEW s \in Sessions, CreateReturns(s) \/ CreateFails(s) \/ Cancel(s)
      PROVE  DoneWasUp'
    BY <1>5 DEF CreateReturns, CreateFails, Cancel, backendVars
<1>6. ASSUME NEW s \in Sessions, NEW q \in Replicas, Delete(s, q)
      PROVE  DoneWasUp'
    BY <1>6 DEF Delete
<1>7. ASSUME NEW s \in Sessions, Backend(s)
      PROVE  DoneWasUp'
    BY <1>7 DEF Backend, ListingTaken, TeardownLands, TeardownFails, Boot,
                LaunchAborted, Vanish, requestVars, backendVars
<1>8. ASSUME NEW q \in Replicas, Restart(q)
      PROVE  DoneWasUp'
    BY <1>8 DEF Restart, backendVars, InHandler
<1>9. CASE UNCHANGED vars
    BY <1>9 DEF vars, requestVars, backendVars
<1> QED
    BY <1>1, <1>2, <1>3, <1>4, <1>5, <1>6, <1>7, <1>8, <1>9 DEF Next, Request

(* A session that is done and live after a step was so before it, or its   *)
(* create returns in that step.                                            *)
LEMMA LiveDoneBefore ==
    ASSUME TypeOK, DoneWasUp, [Next]_vars, NEW q \in Replicas,
           NEW s \in Sessions, stage'[s] = "done", home'[s] = q, Live(s)'
    PROVE  CreateReturns(s) \/ (s \in At(q, "done") /\ Live(s))
<1> USE DEF TypeOK, DoneWasUp, At, Live
<1>1. CASE Tick
    BY <1>1 DEF Tick, requestVars, backendVars
<1>2. ASSUME NEW x \in Sessions, NEW p \in Replicas, NEW t \in Timeouts, Arrive(x, p, t)
      PROVE  s \in At(q, "done") /\ Live(s)
    BY <1>2 DEF Arrive, backendVars
<1>3. ASSUME NEW x \in Sessions, Acquire(x) \/ Resync(x)
      PROVE  s \in At(q, "done") /\ Live(s)
  <2>1. /\ UNCHANGED <<now, home, ends>>
        /\ stage' = [stage EXCEPT ![x] = stage'[x]]
        /\ stage'[x] # "done"
        /\ backend' = [backend EXCEPT ![x] = backend'[x]]
    BY <1>3 DEF Acquire, AcquireBelow, AcquireAtCap, Resync, ResyncDone, ResyncFails,
                AdmitOrReject, Admit, Reject, backendVars
  <2> QED
    BY <2>1
<1>4. ASSUME NEW x \in Sessions, CreateReturns(x)
      PROVE  CreateReturns(s) \/ (s \in At(q, "done") /\ Live(s))
    BY <1>4 DEF CreateReturns, backendVars
<1>5. ASSUME NEW x \in Sessions, CreateFails(x) \/ Cancel(x)
      PROVE  s \in At(q, "done") /\ Live(s)
    BY <1>5 DEF CreateFails, Cancel, backendVars
<1>6. ASSUME NEW x \in Sessions, NEW p \in Replicas, Delete(x, p)
      PROVE  s \in At(q, "done") /\ Live(s)
    BY <1>6 DEF Delete
<1>7. ASSUME NEW x \in Sessions, Backend(x)
      PROVE  s \in At(q, "done") /\ Live(s)
    BY <1>7 DEF Backend, ListingTaken, TeardownLands, TeardownFails, Boot,
                LaunchAborted, Vanish, requestVars, backendVars
<1>8. ASSUME NEW p \in Replicas, Restart(p)
      PROVE  s \in At(q, "done") /\ Live(s)
    BY <1>8, NobodyIsFresh DEF Restart, backendVars
<1>9. CASE UNCHANGED vars
    BY <1>9 DEF vars, requestVars, backendVars
<1> QED
    BY <1>1, <1>2, <1>3, <1>4, <1>5, <1>6, <1>7, <1>8, <1>9 DEF Next, Request

(* Only a raced resync makes a live session unknown to its replica.        *)
LEMMA TrackedStep ==
    ASSUME IInv, DoneWasUp, LiveAreTracked, [Next]_vars, [NoRacedResync]_vars
    PROVE  LiveAreTracked'
<1> SUFFICES ASSUME Capped, NEW q \in Replicas, NEW s \in Sessions,
                    stage'[s] = "done", home'[s] = q, Live(s)'
             PROVE  s \in Tracked(q)'
    BY DEF LiveAreTracked, Capped, At
<1> USE DEF IInv, TypeOK
<1>1. CASE CreateReturns(s)
    BY <1>1 DEF CreateReturns, Tracked
<1>2. CASE s \in At(q, "done") /\ Live(s)
  <2> SUFFICES ASSUME s \notin Tracked(q)'
               PROVE  FALSE
      OBVIOUS
  <2>1. s \in Tracked(q)
    BY <1>2 DEF LiveAreTracked
  <2>2. PICK x \in Sessions : ResyncDone(x) /\ home[x] = q /\ s \in racing[q]
    BY <2>1, <1>2, SlotLossStep
  <2>3. ~ UNCHANGED vars
    BY <2>1 DEF vars, slotVars, Tracked
  <2> QED
    BY <1>2, <2>2, <2>3 DEF NoRacedResync, Raced
<1> QED
    BY <1>1, <1>2, LiveDoneBefore

(* While no resync is raced, a service process never has more live         *)
(* sessions of its own than the cap, whatever else happens: cancellations, *)
(* failed recounts, failed teardowns, deletes through any replica.  The    *)
(* over-admission the run slots_over_admit finds has that race as its only *)
(* cause.                                                                  *)
THEOREM CapHoldsWithoutRaces == Spec /\ [][NoRacedResync]_vars => []LiveWithinLimit
<1> DEFINE Calm == IInv /\ DoneWasUp /\ LiveAreTracked
<1>1. Init => DoneWasUp /\ LiveAreTracked
    BY DEF Init, DoneWasUp, LiveAreTracked, At
<1>2. Calm /\ [Next]_vars /\ [NoRacedResync]_vars => Calm'
    BY NextInvariant, DoneStep, TrackedStep DEF IInv
<1>3. ASSUME Calm
      PROVE  LiveWithinLimit
  <2> SUFFICES ASSUME Capped, NEW q \in Replicas
               PROVE  Cardinality({s \in At(q, "done") : Live(s)}) <= Limit
      BY DEF LiveWithinLimit
  <2>1. {s \in At(q, "done") : Live(s)} \in SUBSET Tracked(q)
    BY <1>3 DEF LiveAreTracked
  <2>2. /\ Cardinality({s \in At(q, "done") : Live(s)}) \in Nat
        /\ Cardinality({s \in At(q, "done") : Live(s)}) <= Cardinality(Tracked(q))
        /\ Cardinality(Tracked(q)) \in Nat
    BY <1>3, <2>1, CountsAreNatural DEF IInv
  <2>3. Cardinality(Tracked(q)) + pending[q] <= Limit /\ pending[q] \in Nat
    BY <1>3 DEF IInv, TypeOK, WithinLimit
  <2> QED
    BY <2>2, <2>3, LimitIsInt
<1>4. Init => Calm
    BY <1>1, InitInvariant
<1> QED
  <2>1. Calm => LiveWithinLimit
    BY <1>3
  <2> QED
    BY <1>2, <1>4, <2>1, PTL DEF Spec
=============================================================================
