------------------------ MODULE SessionBackendProofs ------------------------
(***************************************************************************)
(* What follows from the promises of SessionBackend alone, and so holds of *)
(* every provider that implements it: K8sSessionProofs and                 *)
(* GvisorSessionProofs take these theorems over through their refinements. *)
(***************************************************************************)
EXTENDS SessionBackend, TLAPS

Calls == {"none", "open", "returned", "failed"}
Boxes == {"none", "starting", "up", "over", "removed"}

(* Types.                                                                  *)
TypeOK ==
    /\ call \in [Sessions -> Calls]
    /\ asked \in SUBSET Sessions
    /\ box \in [Sessions -> Boxes]
    /\ cameUp \in SUBSET Sessions

(* What the HTTP layer answers 201 for has been up.                        *)
ReturnedWasUp == \A s \in Sessions : call[s] = "returned" => s \in cameUp

(* A session has one box and one life: a box that was up is up until it is *)
(* over or removed, and is never started again.                            *)
UsedOnce == \A s \in Sessions : box[s] = "up" \/ (s \in cameUp) =>
    s \in cameUp /\ box[s] \in {"up", "over", "removed"}

(* Only a session whose create returned is ever asked to go.               *)
AskedReturned == \A s \in asked : call[s] = "returned"

(* A session in use (its create returned, nobody asked for its destroy)    *)
(* loses its box only to the end of the box itself: no clean-up of another *)
(* create, no destroy of another session and no sweep takes it away.       *)
InUse(s) == call[s] = "returned" /\ s \notin asked

KeptWhileInUse ==
    [][ \A s \in Sessions :
          InUse(s) /\ box[s] = "up" => box'[s] \in {"up", "over"} ]_vars

(* A session over for good does not come back: neither the box of a        *)
(* session that is over nor a failed create ever serves again.             *)
NoReturn ==
    [][ \A s \in Sessions :
          /\ box[s] \in {"over", "removed"} => box'[s] \in {"over", "removed"}
          /\ call[s] \in {"returned", "failed"} => call'[s] = call[s] ]_vars

(* The inductive invariant; a call that was not made has no box.           *)
Inv ==
    /\ TypeOK
    /\ ReturnedWasUp
    /\ UsedOnce
    /\ AskedReturned
    /\ \A s \in Sessions : call[s] = "none" => box[s] = "none"

-----------------------------------------------------------------------------
(* The invariant holds before the first create.                            *)
LEMMA InitInv == Init => Inv
  BY DEF Init, Inv, TypeOK, Calls, Boxes, ReturnedWasUp, UsedOnce, AskedReturned

(* Every step of the contract keeps it.                                    *)
LEMMA NextInv == Inv /\ [Next]_vars => Inv'
<1> SUFFICES ASSUME Inv, [Next]_vars PROVE Inv'
  OBVIOUS
<1> USE DEF Inv, TypeOK, Calls, Boxes, ReturnedWasUp, UsedOnce, AskedReturned
<1>1. ASSUME NEW S \in SUBSET Sessions, Fail(S) PROVE Inv'
  BY <1>1 DEF Fail
<1>2. ASSUME NEW S \in SUBSET Sessions, Remove(S) PROVE Inv'
  BY <1>2 DEF Remove
<1>3. ASSUME NEW s \in Sessions, Start(s) PROVE Inv'
  BY <1>3 DEF Start
<1>4. ASSUME NEW s \in Sessions, Return(s) \/ Ask(s) PROVE Inv'
  BY <1>4 DEF Return, Ask
<1>5. ASSUME NEW s \in Sessions, ComeUp(s) \/ End(s) PROVE Inv'
  BY <1>5 DEF ComeUp, End
<1>6. CASE UNCHANGED vars
  BY <1>6 DEF vars
<1> QED
  BY <1>1, <1>2, <1>3, <1>4, <1>5, <1>6 DEF Next

(* The invariant of the contract.                                          *)
THEOREM Invariance == Spec => []Inv
  BY InitInv, NextInv, PTL DEF Spec

(* A create that returned has had its box up, and each box lives once.     *)
THEOREM SessionsLiveOnce == Spec => [](ReturnedWasUp /\ UsedOnce)
<1>1. Inv => ReturnedWasUp /\ UsedOnce
  BY DEF Inv
<1> QED
  BY <1>1, Invariance, PTL

(* The box of a session in use is left alone.                              *)
THEOREM SessionsInUseAreKept == Spec => KeptWhileInUse
<1> DEFINE Kept == \A s \in Sessions : InUse(s) /\ box[s] = "up" => box'[s] \in {"up", "over"}
<1>1. Inv /\ [Next]_vars => Kept
  <2> SUFFICES ASSUME Inv, [Next]_vars, NEW x \in Sessions, InUse(x), box[x] = "up"
               PROVE  box'[x] \in {"up", "over"}
    OBVIOUS
  <2>1. ASSUME NEW S \in SUBSET Sessions, Fail(S) \/ Remove(S) PROVE box'[x] \in {"up", "over"}
    BY <2>1 DEF Fail, Remove, InUse
  <2>2. ASSUME NEW s \in Sessions, Start(s) \/ Return(s) \/ Ask(s) \/ ComeUp(s) \/ End(s)
        PROVE  box'[x] \in {"up", "over"}
    BY <2>2 DEF Start, Return, Ask, ComeUp, End, InUse, Inv, TypeOK
  <2>3. CASE UNCHANGED vars
    BY <2>3 DEF vars
  <2> QED
    BY <2>1, <2>2, <2>3 DEF Next
<1> QED
  BY <1>1, Invariance, PTL DEF Spec, KeptWhileInUse

(* Nothing that is over comes back.                                        *)
THEOREM SessionsDoNotReturn == Spec => NoReturn
<1> DEFINE Gone == \A s \in Sessions :
            /\ box[s] \in {"over", "removed"} => box'[s] \in {"over", "removed"}
            /\ call[s] \in {"returned", "failed"} => call'[s] = call[s]
<1>1. Inv /\ [Next]_vars => Gone
  <2> SUFFICES ASSUME Inv, [Next]_vars PROVE Gone
    OBVIOUS
  <2>1. ASSUME NEW S \in SUBSET Sessions, Fail(S) \/ Remove(S) PROVE Gone
    BY <2>1 DEF Fail, Remove, Inv, TypeOK
  <2>2. ASSUME NEW s \in Sessions, Start(s) \/ Return(s) \/ Ask(s) \/ ComeUp(s) \/ End(s)
        PROVE  Gone
    BY <2>2 DEF Start, Return, Ask, ComeUp, End, Inv, TypeOK
  <2>3. CASE UNCHANGED vars
    BY <2>3 DEF vars
  <2> QED
    BY <2>1, <2>2, <2>3 DEF Next
<1> QED
  BY <1>1, Invariance, PTL DEF Spec, NoReturn

-----------------------------------------------------------------------------
(* What SessionSlots expects of its backend.                               *)

(* The box of s as SessionSlots names it (its variable `backend`).         *)
SlotsSee(s) ==
    IF box[s] = "none" THEN "none"
    ELSE IF box[s] = "starting" THEN "launching"
    ELSE IF box[s] = "up" THEN "up"
    ELSE IF s \in cameUp THEN "gone" ELSE "aborted"

Turns(s, from, to) == SlotsSee(s) = from /\ SlotsSee(s)' = to

(* A provider that keeps this contract changes a session only as the       *)
(* actions Admit, Boot, LaunchAborted and Vanish of SessionSlots do, the   *)
(* first only when its create starts, and lets a create return only as     *)
(* CreateReturns does, when the session is up or has gone since: the cap's *)
(* theorems leave out nothing that a provider may do to a session.         *)
FitsTheCap ==
    [][ \A s \in Sessions :
          /\ \/ SlotsSee(s)' = SlotsSee(s)
             \/ Turns(s, "none", "launching") /\ call[s] = "none" /\ call'[s] = "open"
             \/ Turns(s, "launching", "up") \/ Turns(s, "launching", "aborted")
             \/ Turns(s, "up", "gone")
          /\ call[s] = "open" /\ call'[s] = "returned" => SlotsSee(s) \in {"up", "gone"} ]_vars

(* The cap's view of its backend is sound for every provider.              *)
THEOREM ProvidersFitTheCap == Spec => FitsTheCap
<1> DEFINE AsExpected(s) ==
            /\ \/ SlotsSee(s)' = SlotsSee(s)
               \/ Turns(s, "none", "launching") /\ call[s] = "none" /\ call'[s] = "open"
               \/ Turns(s, "launching", "up") \/ Turns(s, "launching", "aborted")
               \/ Turns(s, "up", "gone")
            /\ call[s] = "open" /\ call'[s] = "returned" => SlotsSee(s) \in {"up", "gone"}
<1>1. Inv /\ [Next]_vars => [\A s \in Sessions : AsExpected(s)]_vars
  <2> SUFFICES ASSUME Inv, Next, NEW x \in Sessions PROVE AsExpected(x)
    OBVIOUS
  <2> USE DEF SlotsSee, Turns
  <2>1. ASSUME NEW S \in SUBSET Sessions, Fail(S) PROVE AsExpected(x)
    BY <2>1 DEF Fail
  <2>2. ASSUME NEW S \in SUBSET Sessions, Remove(S) PROVE AsExpected(x)
    BY <2>2 DEF Remove, Inv, TypeOK, Boxes, UsedOnce
  <2>3. ASSUME NEW s \in Sessions, Start(s) \/ Ask(s) PROVE AsExpected(x)
    BY <2>3 DEF Start, Ask, Inv, TypeOK
  <2>4. ASSUME NEW s \in Sessions, Return(s) PROVE AsExpected(x)
    BY <2>4 DEF Return, Inv, TypeOK, UsedOnce
  <2>5. ASSUME NEW s \in Sessions, ComeUp(s) \/ End(s) PROVE AsExpected(x)
    BY <2>5 DEF ComeUp, End, Inv, TypeOK, UsedOnce
  <2> QED
    BY <2>1, <2>2, <2>3, <2>4, <2>5 DEF Next
<1> QED
  BY <1>1, Invariance, PTL DEF Spec, FitsTheCap
===============================================================================
