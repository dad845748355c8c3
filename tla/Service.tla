------------------------------ MODULE Service ------------------------------
(***************************************************************************)
(* The HTTP front (app.py): one process of the service from the reading of *)
(* its configuration to its end, and the requests it answers.              *)
(*                                                                         *)
(* A request goes through BodyLimitMiddleware, FastAPI (body, _auth, then  *)
(* the fields), the handler and one call of the provider.  The cap on      *)
(* sessions (SessionSlots.tla) and the provider (the other modules) are    *)
(* seen here by their answers alone.  uvicorn and FastAPI are external.    *)
(***************************************************************************)
EXTENDS Integers

CONSTANTS
    Requests,        \* requests in flight
    Configs,         \* configurations a process may be started with
    Limit,           \* max_request_bytes
    Lengths,         \* lengths of request bodies
    Images,          \* images a caller may name
    DefaultImage,
    AllowedImages,   \* SANDBOX_ALLOWED_IMAGES
    Memories,        \* memory_mb a caller may ask for
    Cpus,            \* cpus a caller may ask for, in tenths
    Timeouts,        \* timeout_seconds a caller may ask for
    MemoryCeiling, CpuCeiling, SessionCeiling, ExecCeiling

ASSUME ConfigFields ==
    Configs \subseteq [provider : {"gvisor", "k8s", "other"}, token : BOOLEAN,
                       runtimeClass : BOOLEAN, allowNone : BOOLEAN]
ASSUME BytesAreNats == Lengths \subseteq Nat /\ Limit \in Nat
ASSUME SizesAreInts ==
    /\ Memories \cup Cpus \subseteq Int
    /\ {MemoryCeiling, CpuCeiling, SessionCeiling, ExecCeiling} \subseteq Int

\* Field(..., ge=1)
ASSUME TimeoutsArePositive == Timeouts \subseteq Nat \ {0}

VARIABLES
    conf,      \* the configuration of the process
    life,      \* "down", "starting", "probing", "runtimes", "serving", "stopping"
    ready,     \* app.state.ready
    backend,   \* the backend answers, with the rights the service needs
    reached,   \* it did so when this process asked
    req        \* the requests

vars == <<conf, life, ready, backend, reached, req>>

-----------------------------------------------------------------------------
Probes == {"healthz", "readyz"}
WithBody == {"create", "exec", "run", "write"}
Routes == Probes \cup WithBody \cup {"destroy", "read", "list"}

MinMemory == 64
MinCpus == 1

Least(a, b) == IF a <= b THEN a ELSE b
Greatest(a, b) == IF a >= b THEN a ELSE b

(* Mutant: the floor before the ceiling.                                   *)
ClampLast(floor, asked, ceiling) == Least(Greatest(floor, asked), ceiling)

(* clamp_resources: the floor wins against a ceiling below it.             *)
Clamp(floor, asked, ceiling) == Greatest(floor, Least(asked, ceiling))

(* What a call asks for or is given; the fields it does not have are idle. *)
Demand == [image : {DefaultImage} \cup Images, memory : Int, cpus : Int, timeout : Int]
NoDemand == [image |-> DefaultImage, memory |-> 0, cpus |-> 0, timeout |-> 0]

Request == [at : {"free", "reading", "handling", "acquiring", "calling", "answered"},
            route : Routes, length : Nat, got : Nat, bearer : BOOLEAN,
            asked : Demand, given : Demand, called : BOOLEAN,
            code : {0, 200, 400, 401, 404, 413, 422, 429, 500, 502, 503}]

NoRequest == [at |-> "free", route |-> "healthz", length |-> 0, got |-> 0,
              bearer |-> FALSE, asked |-> NoDemand, given |-> NoDemand,
              called |-> FALSE, code |-> 0]

(* Types.  A handler holds no more of a body than the limit.               *)
TypeOK ==
    /\ conf \in Configs
    /\ life \in {"down", "starting", "probing", "runtimes", "serving", "stopping"}
    /\ ready \in BOOLEAN /\ backend \in BOOLEAN /\ reached \in BOOLEAN
    /\ req \in [Requests -> Request]
    /\ \A r \in Requests : req[r].got > 0 => req[r].got <= Limit

Init ==
    /\ conf \in Configs
    /\ life = "down"
    /\ ready = FALSE
    /\ backend \in BOOLEAN
    /\ reached = FALSE
    /\ req = [r \in Requests |-> NoRequest]

-----------------------------------------------------------------------------
(* The process                                                             *)

(* Mutant: an empty RuntimeClass is taken for the cluster's default.       *)
DefaultClass(c) == TRUE

(* K8sProvider refuses to run without gVisor unless it is told to.         *)
ClassOrOptOut(c) == c.runtimeClass \/ c.allowNone

(* build_provider; anything else is a ValueError.                          *)
Builds(c) ==
    \/ c.provider = "gvisor"
    \/ c.provider = "k8s" /\ ClassOrOptOut(c)

(* A new process imports app.py: configuration, provider, app.state empty. *)
Boot ==
    /\ life = "down"
    /\ conf' \in Configs /\ Builds(conf')
    /\ life' = "starting"
    /\ ready' = FALSE /\ reached' = FALSE
    /\ UNCHANGED <<backend, req>>

(* provider.startup()                                                      *)
Startup ==
    /\ life = "starting"
    /\ life' = "probing"
    /\ UNCHANGED <<conf, ready, backend, reached, req>>

(* Mutant: a failed preflight is logged and nothing else.                  *)
ProbeFailsQuietly ==
    /\ life = "probing"
    /\ ~backend
    /\ life' = "serving" /\ ready' = TRUE
    /\ UNCHANGED <<conf, backend, reached, req>>

(* preflight raises: stay up, unready.                                     *)
ProbeFails ==
    /\ life = "probing"
    /\ ~backend
    /\ life' = "serving" /\ ready' = FALSE
    /\ UNCHANGED <<conf, backend, reached, req>>

(* GET pods answers below 400; `docker version` exits 0.                   *)
ProbePasses ==
    /\ life = "probing"
    /\ backend
    /\ reached' = TRUE
    /\ \/ conf.provider = "k8s" /\ life' = "serving" /\ ready' = TRUE
       \/ conf.provider # "k8s" /\ life' = "runtimes" /\ ready' = ready
    /\ UNCHANGED <<conf, backend, req>>

(* `docker info`: an unregistered runtime is refused; a daemon that does   *)
(* not answer this one is let pass.                                        *)
Runtimes ==
    /\ life = "runtimes"
    /\ ready' \in IF backend THEN BOOLEAN ELSE {TRUE}
    /\ life' = "serving"
    /\ UNCHANGED <<conf, backend, reached, req>>

(* SIGTERM: no new request; the ones in flight are waited for.             *)
Stop ==
    /\ life = "serving"
    /\ life' = "stopping"
    /\ UNCHANGED <<conf, ready, backend, reached, req>>

(* provider.shutdown()                                                     *)
Shutdown ==
    /\ life = "stopping"
    /\ \A r \in Requests : req[r].at = "free"
    /\ life' = "down"
    /\ UNCHANGED <<conf, ready, backend, reached, req>>

Crash ==
    /\ life # "down"
    /\ life' = "down"
    /\ req' = [r \in Requests |-> NoRequest]
    /\ UNCHANGED <<conf, ready, backend, reached>>

BackendTurns == backend' = ~backend /\ UNCHANGED <<conf, life, ready, reached, req>>

-----------------------------------------------------------------------------
(* The requests                                                            *)

Becomes(r, new) == req' = [req EXCEPT ![r] = new] /\ UNCHANGED <<conf, life, ready, backend, reached>>

(* A request as the middleware hands it on.                                *)
Arrived(at, route, length, bearer, code) ==
    [at |-> at, route |-> route, length |-> length, got |-> 0, bearer |-> bearer,
     asked |-> NoDemand, given |-> NoDemand, called |-> FALSE, code |-> code]

(* A request that is on its way to the provider, or there.                 *)
Placed(r, at, asked, given) ==
    [at |-> at, route |-> req[r].route, length |-> req[r].length, got |-> req[r].got,
     bearer |-> req[r].bearer, asked |-> asked, given |-> given,
     called |-> at = "calling", code |-> 0]

(* What is left of a request once its answer is known.                     *)
Answered(r, code) ==
    [at |-> "answered", route |-> req[r].route, length |-> req[r].length, got |-> 0,
     bearer |-> FALSE, asked |-> NoDemand, given |-> NoDemand,
     called |-> req[r].called, code |-> code]

(* BodyLimitMiddleware sees a request; a length that is not declared, or   *)
(* not a number, counts as 0.                                              *)
Arrive(r) ==
    /\ life = "serving"
    /\ req[r].at = "free"
    /\ \E route \in Routes, length \in Lengths, declared \in BOOLEAN, bearer \in BOOLEAN :
          \/ declared /\ length > Limit
             /\ Becomes(r, Arrived("answered", route, length, bearer, 413))
          \/ (declared => length <= Limit)
             /\ Becomes(r, Arrived(IF route \in WithBody THEN "reading" ELSE "handling",
                                   route, length, bearer, 0))

(* Mutant: only the chunk at hand is held against the limit.               *)
TooMuchAtOnce(r, n) == n > Limit

(* received += len(body); received > limit                                 *)
TooMuch(r, n) == req[r].got + n > Limit

(* Mutant: what goes beyond the limit is dropped.                          *)
DropsExcess(r) ==
    /\ req[r].at = "reading"
    /\ \E n \in 1..(req[r].length - req[r].got) :
          Becomes(r, IF TooMuch(r, n) THEN req[r] ELSE [req[r] EXCEPT !.got = @ + n])

(* limited_receive; what the client has not sent yet is still to come.     *)
Chunk(r) ==
    /\ req[r].at = "reading"
    /\ \E n \in 1..(req[r].length - req[r].got) :
          Becomes(r, IF TooMuch(r, n) THEN Answered(r, 413)
                     ELSE [req[r] EXCEPT !.got = @ + n])

BodyEnds(r) ==
    /\ req[r].at = "reading"
    /\ req[r].got = req[r].length
    /\ Becomes(r, [req[r] EXCEPT !.at = "handling"])

(* The client is gone before its body is.                                  *)
HangsUp(r) == req[r].at = "reading" /\ Becomes(r, NoRequest)

Probe(r) ==
    /\ req[r].at = "handling"
    /\ req[r].route \in Probes
    /\ Becomes(r, Answered(r, IF req[r].route = "healthz" \/ ready THEN 200 ELSE 503))

(* The body is no JSON: found before _auth runs.                           *)
Malformed(r) ==
    /\ req[r].at = "handling"
    /\ req[r].route \in WithBody /\ req[r].length > 0
    /\ Becomes(r, Answered(r, 422))

(* _auth; an empty token turns it off.                                     *)
Authorised(r) == conf.token => req[r].bearer

Unauthorised(r) ==
    /\ req[r].at = "handling"
    /\ req[r].route \notin Probes /\ ~Authorised(r)
    /\ Becomes(r, Answered(r, 401))

(* Mutant: the token is asked for where a body is sent.                    *)
AdmittedLaxly(r) ==
    /\ req[r].at = "handling"
    /\ req[r].route \notin Probes
    /\ req[r].route \in WithBody => Authorised(r)

Admitted(r) ==
    /\ req[r].at = "handling"
    /\ req[r].route \notin Probes /\ Authorised(r)

(* A field, a query parameter or the session id does not validate, or the  *)
(* body is missing.                                                        *)
Invalid(r) == Admitted(r) /\ Becomes(r, Answered(r, 422))

Valid(r) == Admitted(r) /\ (req[r].route \in WithBody => req[r].length > 0)

(* create_session up to slots.acquire(): _resolve_image and the clamps.    *)
Create(r) ==
    /\ Valid(r)
    /\ req[r].route = "create"
    /\ \E image \in Images \cup {DefaultImage}, m \in Memories, c \in Cpus, t \in Timeouts :
          \/ image \notin AllowedImages \cup {DefaultImage} /\ Becomes(r, Answered(r, 400))
          \/ image \in AllowedImages \cup {DefaultImage}
             /\ Becomes(r, Placed(r, "acquiring",
                    [image |-> image, memory |-> m, cpus |-> c, timeout |-> t],
                    [image |-> image, memory |-> Clamp(MinMemory, m, MemoryCeiling),
                     cpus |-> Clamp(MinCpus, c, CpuCeiling),
                     timeout |-> Least(t, SessionCeiling)]))

(* slots.acquire() raises: its own module says when.                       *)
Rejected(r) == req[r].at = "acquiring" /\ Becomes(r, Answered(r, 429))

Acquired(r) ==
    /\ req[r].at = "acquiring"
    /\ Becomes(r, Placed(r, "calling", req[r].asked, req[r].given))

(* exec_command, run_code.                                                 *)
Execute(r) ==
    /\ Valid(r)
    /\ req[r].route \in {"exec", "run"}
    /\ \E t \in Timeouts :
          Becomes(r, Placed(r, "calling", [NoDemand EXCEPT !.timeout = t],
                            [NoDemand EXCEPT !.timeout = Least(t, ExecCeiling)]))

(* destroy_session, write_file, read_file, list_files.                     *)
Forward(r) ==
    /\ Valid(r)
    /\ req[r].route \in {"destroy", "write", "read", "list"}
    /\ Becomes(r, Placed(r, "calling", NoDemand, NoDemand))

(* How a call of the provider ends: the result, SandboxError, SessionNotFound *)
(* or PathNotFound, anything else.                                         *)
Codes(route) == {200, 500, 502} \cup (IF route \in {"create", "destroy"} THEN {} ELSE {404})

ProviderReturns(r) ==
    /\ req[r].at = "calling"
    /\ \E code \in Codes(req[r].route) : Becomes(r, Answered(r, code))

Sent(r) == req[r].at = "answered" /\ Becomes(r, NoRequest)

-----------------------------------------------------------------------------
Lifespan == Boot \/ Startup \/ ProbeFails \/ ProbePasses \/ Runtimes \/ Stop \/ Shutdown \/ Crash

Handles(r) ==
    \/ Probe(r) \/ Malformed(r) \/ Unauthorised(r) \/ Invalid(r) \/ Create(r)
    \/ Rejected(r) \/ Acquired(r) \/ Execute(r) \/ Forward(r) \/ ProviderReturns(r)

Next ==
    \/ Lifespan \/ BackendTurns
    \/ \E r \in Requests :
          Arrive(r) \/ Chunk(r) \/ BodyEnds(r) \/ HangsUp(r) \/ Handles(r) \/ Sent(r)

(* The process goes on with its start, its requests and its shutdown; a    *)
(* client sends the body it began.  No crash, no stop is assumed.          *)
Fairness ==
    /\ WF_vars(Startup) /\ WF_vars(ProbeFails \/ ProbePasses) /\ WF_vars(Runtimes)
    /\ WF_vars(Shutdown)
    /\ \A r \in Requests :
          WF_vars(Chunk(r)) /\ WF_vars(BodyEnds(r)) /\ WF_vars(Handles(r)) /\ WF_vars(Sent(r))

Spec == Init /\ [][Next]_vars
FairSpec == Spec /\ Fairness

-----------------------------------------------------------------------------
(* What a call is given lies between the floor and the ceiling, the floor  *)
(* winning, and is what was asked for if that does.                        *)
Within(given, asked, floor, ceiling) ==
    /\ given >= floor
    /\ given > ceiling => given = floor
    /\ given # asked => asked < floor \/ asked > ceiling

CallIsVetted(q) ==
    /\ q.route \notin Probes
    /\ conf.token => q.bearer
    /\ q.route \in WithBody => q.length \in 1..Limit
    /\ conf.provider = "gvisor" \/ conf.runtimeClass \/ conf.allowNone

DemandIsBounded(q) ==
    /\ q.route = "create" =>
          /\ q.given.image = DefaultImage \/ q.given.image \in AllowedImages
          /\ Within(q.given.memory, q.asked.memory, MinMemory, MemoryCeiling)
          /\ Within(q.given.cpus, q.asked.cpus, MinCpus, CpuCeiling)
          /\ q.given.timeout <= SessionCeiling
    /\ q.route \in {"exec", "run"} => q.given.timeout <= ExecCeiling
    /\ q.given.timeout <= q.asked.timeout

(* Nothing reaches the provider but an authorised request with a whole body *)
(* within the limit, however its length was announced, for an image of the *)
(* allowlist and with limits the configuration allows; a k8s process that  *)
(* runs at all has a RuntimeClass or the explicit opt-out.                 *)
OnlyVettedCalls ==
    \A r \in Requests : req[r].at = "calling" =>
        CallIsVetted(req[r]) /\ DemandIsBounded(req[r])

RefusalIsClean(q) ==
    /\ q.code \in {400, 401, 413, 422, 429, 503} => ~q.called
    /\ q.code \in {404, 500, 502} => q.called
    /\ q.code = 200 => (q.called <=> q.route \notin Probes)
    /\ q.code = 413 => q.length > Limit
    /\ q.length > Limit /\ q.route \in WithBody => q.code = 413

(* An answer can be relied on for a retry: a refusal (400, 401, 413, 422,  *)
(* 429) had no effect on the backend, everything else on a session's route *)
(* comes from it; 413 is for a body beyond the limit, which no other code  *)
(* lets through to the provider.                                           *)
RefusalsHaveNoEffect ==
    \A r \in Requests : req[r].at = "answered" => RefusalIsClean(req[r])

ProbeIsTrue(q) ==
    /\ q.route = "readyz" /\ q.code = 200 => reached
    /\ q.route = "healthz" => q.code \in {200, 413}

(* /readyz says yes only in a process that itself reached the backend with *)
(* its rights, whatever an earlier process found; an unready one serves    *)
(* all the same, /healthz included.                                        *)
ReadyMeansReached ==
    /\ ready /\ life \in {"serving", "stopping"} => reached
    /\ \A r \in Requests : req[r].at = "answered" => ProbeIsTrue(req[r])

(* Every request that was accepted is answered, its client hangs up or the *)
(* process dies, and a stopped process comes to its end.                   *)
EveryRequestAnswered ==
    /\ \A r \in Requests : req[r].at # "free" ~> req[r].at = "free"
    /\ life = "stopping" ~> life = "down"
=============================================================================
