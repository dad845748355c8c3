--------------------------- MODULE ServiceProofs ---------------------------
(***************************************************************************)
(* The safety properties of Service for any number of requests, any limit, *)
(* length, ceiling and set of configurations.                              *)
(*                                                                         *)
(* A step changes one request or the process, so the invariant says what   *)
(* one request must fit (Fits) and what the process must (ProcessFits).    *)
(***************************************************************************)
EXTENDS Service, TLAPS

Serving == life \in {"serving", "stopping"}

(* What is true of a request before its handler called the provider.       *)
Fresh(q) == q.asked = NoDemand /\ q.given = NoDemand /\ ~q.called

(* What is true of a request at each of its stages.                        *)
Fits(q) ==
    /\ q \in Request
    /\ q.got > 0 => q.got <= Limit
    /\ q.at \in {"reading", "handling"} => Fresh(q)
    /\ q.at = "reading" => q.route \in WithBody
    /\ q.at = "handling" /\ q.route \in WithBody => q.length <= Limit
    /\ q.at = "acquiring" => q.route = "create" /\ ~q.called
    /\ q.at = "calling" => q.called
    /\ q.at \in {"acquiring", "calling"} => CallIsVetted(q) /\ DemandIsBounded(q)
    /\ q.at = "answered" => RefusalIsClean(q) /\ ProbeIsTrue(q)

ProcessFits ==
    /\ conf \in Configs
    /\ life \in {"down", "starting", "probing", "runtimes", "serving", "stopping"}
    /\ ready \in BOOLEAN /\ backend \in BOOLEAN /\ reached \in BOOLEAN
    /\ life # "down" => Builds(conf)
    /\ life \in {"starting", "probing"} => ~ready
    /\ life = "runtimes" => reached
    /\ Serving /\ ready => reached

(* The inductive invariant: a process that does not serve has no requests. *)
IInv ==
    /\ ProcessFits
    /\ req \in [Requests -> Request]
    /\ \A r \in Requests : Fits(req[r])
    /\ \A r \in Requests : req[r].at # "free" => Serving

-----------------------------------------------------------------------------
(* The idle request fits whatever the process.                             *)
LEMMA NoRequestFits == NoRequest \in Request /\ Fits(NoRequest) /\ NoRequest.at = "free"
  BY ConfigFields DEF NoRequest, Request, NoDemand, Demand, Fits, Routes, Probes, WithBody

(* The invariant holds at the start.                                       *)
LEMMA Initially == Init => IInv
  BY NoRequestFits DEF Init, IInv, ProcessFits, Serving

(* A step of one request keeps the invariant if what it becomes fits.      *)
LEMMA OneRequest ==
    ASSUME IInv, NEW r \in Requests, Serving, NEW new, Fits(new), Becomes(r, new)
    PROVE  IInv'
<1>1. req' \in [Requests -> Request] /\ \A q \in Requests : req'[q] = IF q = r THEN new ELSE req[q]
  BY DEF Becomes, IInv, Fits
<1>2. ProcessFits' /\ Serving'
  BY DEF Becomes, IInv, ProcessFits, Serving
<1>3. \A q : Fits(q) => Fits(q)'
  BY DEF Becomes, Fits, Fresh, CallIsVetted, DemandIsBounded, RefusalIsClean, ProbeIsTrue, Within
<1>4. \A q \in Requests : Fits(req'[q])
  BY <1>1 DEF IInv
<1>5. (\A q \in Requests : Fits(req[q]))'
  BY <1>3, <1>4 DEF Becomes, Fits, Fresh, CallIsVetted, DemandIsBounded, RefusalIsClean, ProbeIsTrue, Within
<1> QED
  BY <1>1, <1>2, <1>5 DEF IInv

(* A step of the process keeps the invariant if no request is in flight.   *)
LEMMA NobodyThere ==
    ASSUME IInv, ProcessFits',
           \/ ~Serving /\ UNCHANGED req
           \/ req' = [r \in Requests |-> NoRequest]
           \/ UNCHANGED req /\ \A r \in Requests : req[r].at = "free"
    PROVE  IInv'
<1>1. \A r \in Requests : req'[r].at = "free"
  BY NoRequestFits DEF IInv
<1>2. req' \in [Requests -> Request]
  BY NoRequestFits DEF IInv
<1>3. \A r \in Requests : req'[r] \in Request /\ (req'[r].got > 0 => req'[r].got <= Limit)
  BY NoRequestFits DEF IInv, Fits
<1>4. (\A r \in Requests : Fits(req[r]))'
  BY <1>1, <1>3 DEF Fits
<1> QED
  BY <1>1, <1>2, <1>4 DEF IInv

-----------------------------------------------------------------------------
(* An answer is free of what went before.                                  *)
LEMMA AnswerFits ==
    ASSUME IInv, NEW r \in Requests, req[r].at # "free",
           NEW code \in {200, 400, 401, 404, 413, 422, 429, 500, 502, 503}
    PROVE  LET a == Answered(r, code) IN
             /\ a.at = "answered" /\ a.route = req[r].route /\ a.length = req[r].length
             /\ a.called = req[r].called /\ a.code = code
             /\ RefusalIsClean(a) /\ ProbeIsTrue(a) => Fits(a)
<1> DEFINE a == Answered(r, code)
<1>1. req[r] \in Request
  BY DEF IInv
<1>2. a \in Request
  <2>2. NoDemand \in Demand
    BY DEF NoDemand, Demand
  <2> QED
    BY <1>1, <2>2 DEF Request, Answered
<1>3. /\ a.at = "answered" /\ a.route = req[r].route /\ a.length = req[r].length
      /\ a.called = req[r].called /\ a.code = code /\ a.got = 0
  BY <1>1 DEF Answered, Request
<1> HIDE DEF a
<1>4. RefusalIsClean(a) /\ ProbeIsTrue(a) => Fits(a)
  BY <1>2, <1>3 DEF Fits
<1> QED
  BY <1>3, <1>4 DEF a

(* The process keeps the invariant.                                        *)
LEMMA LifespanStep ==
    ASSUME IInv, Lifespan \/ BackendTurns
    PROVE  IInv'
<1>1. CASE Boot
  BY <1>1, NobodyThere DEF Boot, IInv, ProcessFits, Serving, Builds
<1>2. CASE Startup
  BY <1>2, NobodyThere DEF Startup, IInv, ProcessFits, Serving, Builds, ClassOrOptOut
<1>3. CASE ProbeFails
  BY <1>3, NobodyThere DEF ProbeFails, IInv, ProcessFits, Serving, Builds, ClassOrOptOut
<1>4. CASE ProbePasses
  BY <1>4, NobodyThere DEF ProbePasses, IInv, ProcessFits, Serving, Builds, ClassOrOptOut
<1>5. CASE Runtimes
  BY <1>5, NobodyThere DEF Runtimes, IInv, ProcessFits, Serving, Builds, ClassOrOptOut
<1>6. CASE Crash
  BY <1>6, NobodyThere DEF Crash, IInv, ProcessFits, Serving
<1>7. CASE Shutdown
  BY <1>7, NobodyThere DEF Shutdown, IInv, ProcessFits, Serving
<1>8. CASE Stop \/ BackendTurns
  <2>1. ProcessFits' /\ UNCHANGED <<conf, reached, req>> /\ (Serving => Serving')
    <3>1. CASE Stop
      BY <1>8, <3>1 DEF Stop, IInv, ProcessFits, Serving, Builds, ClassOrOptOut
    <3>2. CASE BackendTurns
      BY <1>8, <3>2 DEF BackendTurns, IInv, ProcessFits, Serving, Builds, ClassOrOptOut
    <3> QED
      BY <1>8, <3>1, <3>2
  <2> QED
    BY <2>1 DEF IInv, Fits, Fresh, CallIsVetted, DemandIsBounded, RefusalIsClean, ProbeIsTrue
<1> QED
  BY <1>1, <1>2, <1>3, <1>4, <1>5, <1>6, <1>7, <1>8 DEF Lifespan

-----------------------------------------------------------------------------
(* Up to the handler.                                                      *)
LEMMA ArriveStep ==
    ASSUME IInv, NEW r \in Requests, Arrive(r) PROVE IInv'
<1>1. PICK route \in Routes, length \in Lengths, declared \in BOOLEAN, bearer \in BOOLEAN :
         \/ declared /\ length > Limit
            /\ Becomes(r, Arrived("answered", route, length, bearer, 413))
         \/ (declared => length <= Limit)
            /\ Becomes(r, Arrived(IF route \in WithBody THEN "reading" ELSE "handling",
                                  route, length, bearer, 0))
  BY DEF Arrive
<1>2. NoDemand \in Demand /\ length \in Nat
  BY BytesAreNats DEF NoDemand, Demand
<1>3. CASE declared /\ length > Limit
  <2>1. Fits(Arrived("answered", route, length, bearer, 413))
    BY <1>2, <1>3, BytesAreNats
    DEF Arrived, Request, Fits, RefusalIsClean, ProbeIsTrue, Probes
  <2> QED
    BY <1>1, <1>2, <1>3, <2>1, OneRequest, BytesAreNats DEF Arrive, Serving
<1>4. CASE ~(declared /\ length > Limit)
  <2> DEFINE at == IF route \in WithBody THEN "reading" ELSE "handling"
  <2>1. Fits(Arrived(at, route, length, bearer, 0))
    BY <1>2, BytesAreNats DEF Arrived, Request, Fits, Fresh
  <2> QED
    BY <1>1, <1>4, <2>1, OneRequest DEF Arrive, Serving
<1> QED
  BY <1>3, <1>4

(* A chunk: the body that is kept stays within the limit.                  *)
LEMMA ChunkStep ==
    ASSUME IInv, NEW r \in Requests, Chunk(r) PROVE IInv'
<1>1. PICK n \in 1..(req[r].length - req[r].got) :
         Becomes(r, IF TooMuch(r, n) THEN Answered(r, 413) ELSE [req[r] EXCEPT !.got = @ + n])
  BY DEF Chunk
<1>2. /\ req[r] \in Request /\ req[r].length \in Nat /\ req[r].got \in Nat /\ Fits(req[r])
      /\ req[r].at = "reading" /\ req[r].route \in WithBody /\ ~req[r].called /\ Serving
  BY DEF IInv, Chunk, Request, Fits, Fresh
<1>3. CASE TooMuch(r, n)
  <2>1. req[r].length > Limit
    BY <1>2, <1>3, BytesAreNats DEF TooMuch
  <2>2. Fits(Answered(r, 413))
    BY <1>2, <2>1, AnswerFits DEF RefusalIsClean, ProbeIsTrue, WithBody
  <2> QED
    BY <1>1, <1>2, <1>3, <2>2, OneRequest
<1>4. CASE ~TooMuch(r, n)
  <2> DEFINE new == [req[r] EXCEPT !.got = @ + n]
  <2>1. new \in Request /\ new.got = req[r].got + n /\ new.at = "reading"
    BY <1>2 DEF Request
  <2>2. new.asked = req[r].asked /\ new.given = req[r].given /\ new.called = req[r].called
        /\ new.route = req[r].route
    BY <1>2 DEF Request
  <2> HIDE DEF new
  <2>3. Fits(new)
    BY <1>2, <1>4, <2>1, <2>2, BytesAreNats DEF Fits, Fresh, TooMuch
  <2> QED
    BY <1>1, <1>2, <1>4, <2>3, OneRequest DEF new
<1> QED
  BY <1>3, <1>4

(* The end of the body, or of the client.                                  *)
LEMMA BodyStep ==
    ASSUME IInv, NEW r \in Requests, BodyEnds(r) \/ HangsUp(r) \/ Sent(r) PROVE IInv'
<1>1. CASE BodyEnds(r)
  <2> DEFINE new == [req[r] EXCEPT !.at = "handling"]
  <2>1. /\ req[r] \in Request /\ req[r].length \in Nat /\ req[r].got \in Nat /\ Fits(req[r])
        /\ req[r].at = "reading" /\ req[r].got = req[r].length /\ Serving
    BY <1>1 DEF IInv, BodyEnds, Request
  <2>2. new \in Request /\ new.got = req[r].got /\ new.at = "handling"
    BY <2>1 DEF Request
  <2>3. new.asked = req[r].asked /\ new.given = req[r].given /\ new.called = req[r].called
        /\ new.route = req[r].route /\ new.length = req[r].length
    BY <2>1 DEF Request
  <2> HIDE DEF new
  <2>4. Fits(new)
    BY <2>1, <2>2, <2>3, BytesAreNats DEF Fits, Fresh
  <2> QED
    BY <1>1, <2>1, <2>4, OneRequest DEF new, BodyEnds
<1>2. CASE HangsUp(r) \/ Sent(r)
  <2>1. Serving /\ Becomes(r, NoRequest)
    BY <1>2 DEF HangsUp, Sent, IInv
  <2> QED
    BY <2>1, NoRequestFits, OneRequest
<1> QED
  BY <1>1, <1>2

-----------------------------------------------------------------------------
(* In the handler: refusals, and the probes.                               *)
LEMMA RefusalStep ==
    ASSUME IInv, NEW r \in Requests,
           Probe(r) \/ Malformed(r) \/ Unauthorised(r) \/ Invalid(r) \/ Rejected(r)
    PROVE  IInv'
<1>1. /\ req[r].at \in {"handling", "acquiring"} /\ ~req[r].called /\ Fits(req[r]) /\ Serving
      /\ req[r].length \in Nat
      /\ req[r].route \in WithBody => req[r].length <= Limit
  BY BytesAreNats DEF IInv, Fits, Fresh, CallIsVetted, Request, Probe, Malformed, Unauthorised, Invalid,
                      Admitted, Rejected
<1>2. CASE Probe(r)
  <2>1. PICK code \in {200, 503} :
           /\ code = IF req[r].route = "healthz" \/ ready THEN 200 ELSE 503
           /\ Becomes(r, Answered(r, code))
    BY <1>2 DEF Probe
  <2>2. /\ req[r].route \in Probes /\ req[r].route \notin WithBody
        /\ req[r].route = "readyz" /\ code = 200 => reached
        /\ req[r].route = "healthz" => code = 200
    BY <1>1, <1>2, <2>1 DEF Probe, IInv, ProcessFits, Probes, WithBody
  <2>3. RefusalIsClean(Answered(r, code)) /\ ProbeIsTrue(Answered(r, code))
    BY <1>1, <2>1, <2>2, AnswerFits DEF RefusalIsClean, ProbeIsTrue
  <2> QED
    BY <1>1, <2>1, <2>3, AnswerFits, OneRequest
<1>3. CASE Malformed(r) \/ Unauthorised(r) \/ Invalid(r) \/ Rejected(r)
  <2>1. PICK code \in {401, 422, 429} : Becomes(r, Answered(r, code))
    BY <1>3 DEF Malformed, Unauthorised, Invalid, Rejected
  <2>2. req[r].route \notin Probes
    BY <1>1, <1>3 DEF Malformed, Unauthorised, Invalid, Admitted, Rejected, Fits, Probes, WithBody
  <2>3. RefusalIsClean(Answered(r, code)) /\ ProbeIsTrue(Answered(r, code))
    BY <1>1, <2>1, <2>2, AnswerFits, BytesAreNats DEF RefusalIsClean, ProbeIsTrue, Probes
  <2> QED
    BY <1>1, <2>1, <2>3, AnswerFits, OneRequest
<1> QED
  BY <1>2, <1>3

(* The clamps keep a demand between its floor and its ceiling.             *)
LEMMA ClampIsWithin ==
    ASSUME NEW floor \in Int, NEW asked \in Int, NEW ceiling \in Int
    PROVE  /\ Clamp(floor, asked, ceiling) \in Int
           /\ Within(Clamp(floor, asked, ceiling), asked, floor, ceiling)
  BY DEF Clamp, Greatest, Least, Within

(* A valid request is vetted.                                              *)
LEMMA ValidIsVetted ==
    ASSUME IInv, NEW r \in Requests, Valid(r)
    PROVE  CallIsVetted(req[r]) /\ Serving /\ Fits(req[r]) /\ req[r] \in Request
                /\ req[r].at = "handling"
<1>1. req[r].at = "handling" /\ Fits(req[r]) /\ Serving /\ req[r] \in Request
  BY DEF Valid, Admitted, IInv
<1>2. Builds(conf) /\ req[r].length \in Nat
  BY <1>1 DEF IInv, ProcessFits, Serving, Request
<1> QED
  BY <1>1, <1>2, BytesAreNats
  DEF Valid, Admitted, Authorised, CallIsVetted, Fits, Builds, ClassOrOptOut

(* What a handler places fits if the demand does.                          *)
LEMMA PlacedFits ==
    ASSUME IInv, NEW r \in Requests, req[r] \in Request, Fits(req[r]), CallIsVetted(req[r]),
           NEW at \in {"acquiring", "calling"}, at = "acquiring" => req[r].route = "create",
           NEW asked \in Demand, NEW given \in Demand,
           DemandIsBounded(Placed(r, at, asked, given))
    PROVE  Fits(Placed(r, at, asked, given))
<1> DEFINE q == Placed(r, at, asked, given)
<1>1. q \in Request
  BY DEF Placed, Request
<1>2. /\ q.at = at /\ q.route = req[r].route /\ q.length = req[r].length /\ q.got = req[r].got
      /\ q.bearer = req[r].bearer /\ q.called = (at = "calling")
  BY DEF Placed
<1>3. CallIsVetted(q)
  BY <1>2 DEF CallIsVetted
<1> HIDE DEF q
<1>4. Fits(q)
  BY <1>1, <1>2, <1>3 DEF Fits, q
<1> QED
  BY <1>4 DEF q

(* create_session up to the slot.                                          *)
LEMMA CreateStep ==
    ASSUME IInv, NEW r \in Requests, Create(r) PROVE IInv'
<1>1. CallIsVetted(req[r]) /\ Serving /\ Fits(req[r]) /\ req[r] \in Request
      /\ req[r].at = "handling" /\ req[r].route = "create"
  BY ValidIsVetted DEF Create
<1>2. PICK image \in Images \cup {DefaultImage}, m \in Memories, c \in Cpus, t \in Timeouts :
         \/ image \notin AllowedImages \cup {DefaultImage} /\ Becomes(r, Answered(r, 400))
         \/ image \in AllowedImages \cup {DefaultImage}
            /\ Becomes(r, Placed(r, "acquiring",
                   [image |-> image, memory |-> m, cpus |-> c, timeout |-> t],
                   [image |-> image, memory |-> Clamp(MinMemory, m, MemoryCeiling),
                    cpus |-> Clamp(MinCpus, c, CpuCeiling),
                    timeout |-> Least(t, SessionCeiling)]))
  BY DEF Create
<1>3. CASE Becomes(r, Answered(r, 400))
  <2>1. ~req[r].called /\ req[r].length \in Nat /\ ~(req[r].length > Limit)
    BY <1>1, BytesAreNats DEF Fits, Fresh, Request, CallIsVetted, WithBody
  <2>2. RefusalIsClean(Answered(r, 400)) /\ ProbeIsTrue(Answered(r, 400))
    BY <1>1, <2>1, AnswerFits DEF RefusalIsClean, ProbeIsTrue
  <2> QED
    BY <1>1, <1>3, <2>2, AnswerFits, OneRequest
<1>4. CASE ~Becomes(r, Answered(r, 400))
  <2> DEFINE asked == [image |-> image, memory |-> m, cpus |-> c, timeout |-> t]
             given == [image |-> image, memory |-> Clamp(MinMemory, m, MemoryCeiling),
                       cpus |-> Clamp(MinCpus, c, CpuCeiling),
                       timeout |-> Least(t, SessionCeiling)]
             q == Placed(r, "acquiring", asked, given)
  <2>1. m \in Int /\ c \in Int /\ t \in Int /\ {MemoryCeiling, CpuCeiling, SessionCeiling} \subseteq Int
    BY SizesAreInts, TimeoutsArePositive
  <2>2. /\ Clamp(MinMemory, m, MemoryCeiling) \in Int
        /\ Within(Clamp(MinMemory, m, MemoryCeiling), m, MinMemory, MemoryCeiling)
        /\ Clamp(MinCpus, c, CpuCeiling) \in Int
        /\ Within(Clamp(MinCpus, c, CpuCeiling), c, MinCpus, CpuCeiling)
    <3>1. MinMemory \in Int /\ MinCpus \in Int /\ MemoryCeiling \in Int /\ CpuCeiling \in Int
      BY <2>1 DEF MinMemory, MinCpus
    <3> QED
      BY <2>1, <3>1, ClampIsWithin
  <2>3. Least(t, SessionCeiling) \in Int /\ Least(t, SessionCeiling) <= t
        /\ Least(t, SessionCeiling) <= SessionCeiling
    BY <2>1 DEF Least
  <2>4. asked \in Demand /\ given \in Demand
    BY <2>1, <2>2, <2>3 DEF Demand
  <2>5. q.asked = asked /\ q.given = given /\ q.route = "create"
    BY <1>1 DEF Placed
  <2>6. image \in AllowedImages \cup {DefaultImage} /\ Becomes(r, q)
    BY <1>2, <1>4
  <2> HIDE DEF q
  <2>7. DemandIsBounded(q)
    BY <2>2, <2>3, <2>5, <2>6 DEF DemandIsBounded
  <2>8. Fits(q)
    BY <1>1, <2>4, <2>7, PlacedFits DEF q
  <2> QED
    BY <1>1, <2>6, <2>8, OneRequest
<1> QED
  BY <1>3, <1>4

(* The calls of the provider.                                              *)
LEMMA CallStep ==
    ASSUME IInv, NEW r \in Requests, Acquired(r) \/ Execute(r) \/ Forward(r) PROVE IInv'
<1>1. NoDemand \in Demand
  BY DEF NoDemand, Demand
<1>2. CASE Acquired(r)
  <2> DEFINE q == Placed(r, "calling", req[r].asked, req[r].given)
  <2>1. req[r].at = "acquiring" /\ Fits(req[r]) /\ Serving /\ req[r] \in Request /\ Becomes(r, q)
    BY <1>2 DEF Acquired, IInv
  <2>2. q.asked = req[r].asked /\ q.given = req[r].given /\ q.route = req[r].route
    BY DEF Placed
  <2> HIDE DEF q
  <2>3. CallIsVetted(req[r]) /\ DemandIsBounded(q)
    BY <2>1, <2>2 DEF Fits, DemandIsBounded
  <2>4. req[r].asked \in Demand /\ req[r].given \in Demand
    BY <2>1 DEF Request
  <2>5. Fits(q)
    BY <2>1, <2>3, <2>4, PlacedFits DEF q
  <2> QED
    BY <2>1, <2>5, OneRequest
<1>3. CASE Execute(r)
  <2>1. PICK t \in Timeouts :
           Becomes(r, Placed(r, "calling", [NoDemand EXCEPT !.timeout = t],
                             [NoDemand EXCEPT !.timeout = Least(t, ExecCeiling)]))
    BY <1>3 DEF Execute
  <2> DEFINE asked == [NoDemand EXCEPT !.timeout = t]
             given == [NoDemand EXCEPT !.timeout = Least(t, ExecCeiling)]
             q == Placed(r, "calling", asked, given)
  <2>2. /\ t \in Int /\ Least(t, ExecCeiling) \in Int
        /\ Least(t, ExecCeiling) <= t /\ Least(t, ExecCeiling) <= ExecCeiling
    BY SizesAreInts, TimeoutsArePositive DEF Least
  <2>3. asked \in Demand /\ given \in Demand
        /\ asked.timeout = t /\ given.timeout = Least(t, ExecCeiling)
    BY <2>2 DEF NoDemand, Demand
  <2>4. q.asked = asked /\ q.given = given /\ q.route \in {"exec", "run"} /\ Valid(r)
    BY <1>3 DEF Placed, Execute
  <2> HIDE DEF asked, given
  <2>5. DemandIsBounded(q)
    BY <2>2, <2>3, <2>4 DEF DemandIsBounded
  <2>6. Fits(q)
    BY <2>3, <2>4, <2>5, ValidIsVetted, PlacedFits
  <2> QED
    BY <2>1, <2>4, <2>6, ValidIsVetted, OneRequest DEF asked, given
<1>4. CASE Forward(r)
  <2> DEFINE q == Placed(r, "calling", NoDemand, NoDemand)
  <2>1. /\ q.asked = NoDemand /\ q.given = NoDemand
        /\ q.route \in {"destroy", "write", "read", "list"} /\ Valid(r) /\ Becomes(r, q)
    BY <1>4 DEF Placed, Forward
  <2>2. DemandIsBounded(q)
    BY <2>1 DEF DemandIsBounded, NoDemand
  <2>3. Fits(q)
    BY <1>1, <2>1, <2>2, ValidIsVetted, PlacedFits
  <2> QED
    BY <2>1, <2>3, ValidIsVetted, OneRequest
<1> QED
  BY <1>2, <1>3, <1>4

(* The provider's answer.                                                  *)
LEMMA ReturnStep ==
    ASSUME IInv, NEW r \in Requests, ProviderReturns(r) PROVE IInv'
<1>1. PICK code \in {200, 404, 500, 502} : Becomes(r, Answered(r, code))
  BY DEF ProviderReturns, Codes
<1>2. /\ req[r].at = "calling" /\ Serving /\ req[r].called /\ CallIsVetted(req[r])
      /\ req[r].length \in Nat
  BY DEF ProviderReturns, IInv, Fits, Request
<1>3. RefusalIsClean(Answered(r, code)) /\ ProbeIsTrue(Answered(r, code))
  BY <1>2, AnswerFits, BytesAreNats DEF RefusalIsClean, ProbeIsTrue, CallIsVetted, Probes
<1> QED
  BY <1>1, <1>2, <1>3, AnswerFits, OneRequest

-----------------------------------------------------------------------------
(* The invariant is inductive.                                             *)
THEOREM Invariance == Spec => []IInv
<1>1. IInv /\ [Next]_vars => IInv'
  <2> SUFFICES ASSUME IInv, [Next]_vars PROVE IInv'
    OBVIOUS
  <2>1. CASE Lifespan \/ BackendTurns
    BY <2>1, LifespanStep
  <2>2. ASSUME NEW r \in Requests, Arrive(r) \/ Chunk(r) \/ BodyEnds(r) \/ HangsUp(r) \/ Sent(r)
        PROVE IInv'
    BY <2>2, ArriveStep, ChunkStep, BodyStep
  <2>3. ASSUME NEW r \in Requests, Handles(r) PROVE IInv'
    BY <2>3, RefusalStep, CreateStep, CallStep, ReturnStep DEF Handles
  <2>4. CASE UNCHANGED vars
    BY <2>4 DEF vars, IInv, ProcessFits, Serving, Fits, Fresh, CallIsVetted, DemandIsBounded,
                RefusalIsClean, ProbeIsTrue
  <2> QED
    BY <2>1, <2>2, <2>3, <2>4 DEF Next
<1> QED
  BY Initially, <1>1, PTL DEF Spec

(* Type correctness; no handler holds more of a body than the limit.       *)
THEOREM Typing == Spec => []TypeOK
<1>1. IInv => TypeOK
  BY DEF IInv, ProcessFits, Fits, TypeOK
<1> QED
  BY <1>1, Invariance, PTL

(* Nothing but authorised, whole and clamped requests reaches the provider. *)
THEOREM CallsAreVetted == Spec => []OnlyVettedCalls
<1>1. IInv => OnlyVettedCalls
  BY DEF IInv, Fits, OnlyVettedCalls
<1> QED
  BY <1>1, Invariance, PTL

(* An answer tells whether the provider was called.                        *)
THEOREM RefusalsAreClean == Spec => []RefusalsHaveNoEffect
<1>1. IInv => RefusalsHaveNoEffect
  BY DEF IInv, Fits, RefusalsHaveNoEffect
<1> QED
  BY <1>1, Invariance, PTL

(* A yes of /readyz comes from this process's own preflight.               *)
THEOREM ReadinessIsOwn == Spec => []ReadyMeansReached
<1>1. IInv => ReadyMeansReached
  BY DEF IInv, ProcessFits, Serving, Fits, ReadyMeansReached
<1> QED
  BY <1>1, Invariance, PTL
=============================================================================
