---------------------------- MODULE RunCliProofs ----------------------------
(***************************************************************************)
(* run_cli keeps all it should of the output, for every pipe size, cap,    *)
(* length of stdin and child.                                              *)
(***************************************************************************)
EXTENDS RunCli, TLAPS

(* A buffer holds what was pumped, up to the cap.                          *)
Buffered == \A c \in Channels : buf[c] = Least(pumped[c], MaxBytes)

(* A pump that ended left nothing behind, and nobody to write more.        *)
Drained ==
    \A c \in Channels \ pumping : pumped[c] = wrote[c] /\ child # "running" /\ ~heir

(* A call that returned waited for both pumps.                             *)
PumpsOver == call = "returned" => pumping = {}

(* The inductive invariant.                                                *)
IInv == TypeOK /\ Buffered /\ Drained /\ PumpsOver

-----------------------------------------------------------------------------
(* The invariant holds at the start.                                       *)
LEMMA Initially == Init => IInv
<1> SUFFICES ASSUME Init PROVE IInv
  OBVIOUS
<1>1. MaxBytes \in Nat /\ MaxWrites \in Nat /\ PipeSize \in Nat /\ stdin \in Nat
  BY PipeHolds, LengthsAreNats DEF Init
<1>2. TypeOK
  <2>1. /\ wrote \in [Channels -> 0..MaxWrites] /\ pumped \in [Channels -> 0..MaxWrites]
        /\ buf \in [Channels -> 0..MaxBytes]
    BY <1>1 DEF Init
  <2>2. eaten \in 0..fed /\ fed \in 0..stdin /\ fed - eaten <= PipeSize
    BY <1>1 DEF Init
  <2>3. \A c \in Channels : wrote[c] - pumped[c] \in 0..PipeSize
    BY <1>1 DEF Init
  <2> QED
    BY <1>1, <2>1, <2>2, <2>3 DEF Init, TypeOK
<1>3. Buffered
  BY <1>1 DEF Init, Buffered, Least
<1> QED
  BY <1>2, <1>3 DEF Init, IInv, Drained, PumpsOver

(* The cap on what is kept does not depend on the division into chunks.    *)
LEMMA KeptIsCapped ==
    ASSUME NEW pos \in Nat, NEW n \in Nat
    PROVE  /\ Kept(Least(pos, MaxBytes), n) = Least(pos + n, MaxBytes)
           /\ Least(pos + n, MaxBytes) \in 0..MaxBytes
  BY LengthsAreNats DEF Kept, Least

(* The tasks of the service.                                               *)
LEMMA ServiceStep == ASSUME IInv, Service PROVE IInv'
<1>1. ASSUME NEW c \in Channels, NEW n \in 1..PipeSize, Pump(c, n) PROVE IInv'
  <2>1. pumped[c] \in Nat /\ wrote[c] \in Nat /\ n \in Nat /\ pumped[c] + n <= wrote[c]
    BY <1>1, PipeHolds, LengthsAreNats DEF Pump, IInv, TypeOK
  <2>2. Kept(buf[c], n) = Least(pumped[c] + n, MaxBytes) /\ Kept(buf[c], n) \in 0..MaxBytes
    BY <2>1, KeptIsCapped DEF IInv, Buffered
  <2>3. TypeOK'
    BY <1>1, <2>1, <2>2, PipeHolds, LengthsAreNats DEF Pump, IInv, TypeOK, process
  <2>4. Buffered'
    BY <1>1, <2>2 DEF Pump, IInv, TypeOK, Buffered
  <2>5. Drained' /\ PumpsOver'
    BY <1>1 DEF Pump, Pumps, IInv, TypeOK, Drained, PumpsOver, process
  <2> QED
    BY <2>3, <2>4, <2>5 DEF IInv
<1>2. ASSUME NEW c \in Channels, PumpEnds(c) PROVE IInv'
  BY <1>2 DEF PumpEnds, Pumps, IInv, TypeOK, Buffered, Drained, PumpsOver, process
<1>3. CASE Feed
  BY <1>3, PipeHolds DEF Feed, IInv, TypeOK, Buffered, Drained, PumpsOver, process
<1>4. CASE FeedEnds \/ Returns \/ TimesOut \/ Reaped
  BY <1>4 DEF FeedEnds, Returns, TimesOut, Reaped, IInv, TypeOK, Buffered, Drained, PumpsOver,
              process, tasks
<1> QED
  BY <1>1, <1>2, <1>3, <1>4 DEF Service

(* The child and what it leaves behind.                                    *)
LEMMA ChildStep == ASSUME IInv, Child PROVE IInv'
<1>1. CASE \E op \in {"in"} \cup Channels : Chooses(op)
  BY <1>1 DEF Chooses, OnlyChild, IInv, TypeOK, Buffered, Drained, PumpsOver, tasks
<1>2. CASE ChildReads
  <2>1. eaten \in Nat /\ fed \in Nat /\ PipeSize \in Nat
    BY PipeHolds DEF IInv, TypeOK
  <2>2. eaten' \in 0..fed /\ fed - eaten' <= PipeSize
    BY <1>2, <2>1 DEF ChildReads, IInv, TypeOK
  <2>3. TypeOK'
    BY <1>2, <2>2 DEF ChildReads, OnlyChild, IInv, TypeOK, tasks
  <2> QED
    BY <1>2, <2>3 DEF ChildReads, OnlyChild, IInv, Buffered, Drained, PumpsOver, tasks
<1>3. CASE ChildExits \/ ChildDies \/ HeirLeaves
  BY <1>3 DEF ChildExits, ChildDies, HeirLeaves, OnlyChild, IInv, TypeOK, Buffered, Drained,
              PumpsOver, tasks
<1>4. ASSUME NEW c \in Channels, ChildWrites(c) \/ HeirWrites(c) PROVE IInv'
  <2>1. TypeOK'
    BY <1>4, PipeHolds, LengthsAreNats
    DEF ChildWrites, HeirWrites, Written, OnlyChild, IInv, TypeOK, tasks
  <2>2. Buffered' /\ PumpsOver'
    BY <1>4 DEF ChildWrites, HeirWrites, OnlyChild, IInv, Buffered, PumpsOver, tasks
  <2>3. Drained'
    BY <1>4 DEF ChildWrites, HeirWrites, Written, OnlyChild, IInv, TypeOK, Drained, tasks
  <2> QED
    BY <2>1, <2>2, <2>3 DEF IInv
<1> QED
  BY <1>1, <1>2, <1>3, <1>4 DEF Child

(* The invariant is inductive.                                             *)
THEOREM Invariance == Spec => []IInv
<1>1. IInv /\ UNCHANGED vars => IInv'
  BY DEF vars, tasks, process, IInv, TypeOK, Buffered, Drained, PumpsOver
<1>2. IInv /\ [Next]_vars => IInv'
  BY <1>1, ServiceStep, ChildStep DEF Next
<1> QED
  BY Initially, <1>2, PTL DEF Spec

(* Type correctness; no pipe holds more than its size, no buffer more than *)
(* the cap.                                                                *)
THEOREM Typing == Spec => []TypeOK
<1>1. IInv => TypeOK
  BY DEF IInv
<1> QED
  BY <1>1, Invariance, PTL

(* A call that returns an exit code lost nothing of the output.            *)
THEOREM OutputIsComplete == Spec => []OutputComplete
<1>1. IInv => OutputComplete
  BY DEF IInv, Buffered, Drained, PumpsOver, OutputComplete
<1> QED
  BY <1>1, Invariance, PTL

-----------------------------------------------------------------------------
(* No pipe deadlock, as far as a state can say it.                         *)

(* What the pump of c, and the feed, can do in this state.                 *)
PumpGoesOn(c) == Pumps(c) /\ pumped[c] < wrote[c]
FeedGoesOn == feeding = "running" /\ (fed = stdin \/ fed - eaten < PipeSize)

(* A child that runs chose to write what the bound lets it write, and has  *)
(* left no descendant yet.                                                 *)
Willing == child = "running" => ~heir /\ \A c \in Channels : wants = c => wrote[c] < MaxWrites

(* While the call waits, a child that blocks on a pipe waits for nobody    *)
(* but the task at the other end, and that task waits for nobody: the pump *)
(* of the full pipe has bytes to take, whatever became of the feed, and    *)
(* the feed has room or is done.  Once the child is gone and nobody holds  *)
(* its pipes, every task that is left can go on.  This is what gathering   *)
(* pumps, feed and wait side by side is for (base.py, run_cli).            *)
NobodyBlocks ==
    call = "waiting" =>
        /\ child = "running" =>
              /\ \A c \in Channels : wants = c =>
                    wrote[c] < MaxWrites /\ (wrote[c] - pumped[c] < PipeSize \/ PumpGoesOn(c))
              /\ wants = "in" => eaten < fed \/ feeding = "over" \/ FeedGoesOn
        /\ child # "running" /\ ~heir =>
              \A c \in pumping : Pumps(c) /\ (pumped[c] = wrote[c] \/ PumpGoesOn(c))

(* Only a child that is gone has left a descendant.                        *)
LEMMA StaysWilling == ASSUME IInv, Willing, [Next]_vars PROVE Willing'
<1>1. CASE Service
  BY <1>1 DEF Service, PumpEnds, Pump, Feed, FeedEnds, Returns, TimesOut, Reaped, Willing, process, tasks
<1>2. CASE Child
  <2>1. CASE \E op \in {"in"} \cup Channels : Chooses(op)
    BY <2>1 DEF Chooses, OnlyChild, Willing, Channels
  <2>2. CASE ChildReads \/ ChildExits \/ ChildDies \/ HeirLeaves
    BY <2>2 DEF ChildReads, ChildExits, ChildDies, HeirLeaves, OnlyChild, Willing, Channels
  <2>3. ASSUME NEW c \in Channels, ChildWrites(c) \/ HeirWrites(c) PROVE Willing'
    BY <2>3 DEF ChildWrites, HeirWrites, OnlyChild, Willing, Channels
  <2> QED
    BY <1>2, <2>1, <2>2, <2>3 DEF Child
<1>3. CASE UNCHANGED vars
  BY <1>3 DEF vars, process, Willing
<1> QED
  BY <1>1, <1>2, <1>3 DEF Next

(* Every state of every execution is free of a circular wait on the pipes; *)
(* that the steps that can be taken are taken is for the fair run.         *)
THEOREM NobodyIsBlocked == Spec => []NobodyBlocks
<1>1. Init => Willing
  BY DEF Init, Willing, Channels
<1>2. IInv /\ Willing => NobodyBlocks
  <2> SUFFICES ASSUME IInv, Willing, call = "waiting" PROVE NobodyBlocks
    BY DEF NobodyBlocks
  <2>1. \A c \in Channels : pumped[c] \in Nat /\ wrote[c] \in Nat /\ pumped[c] <= wrote[c]
    BY PipeHolds, LengthsAreNats DEF IInv, TypeOK
  <2>2. ASSUME child = "running", NEW c \in Channels
        PROVE  wrote[c] - pumped[c] < PipeSize \/ PumpGoesOn(c)
    BY <2>1, <2>2, PipeHolds DEF IInv, Drained, PumpGoesOn, Pumps
  <2>3. eaten < fed \/ feeding = "over" \/ FeedGoesOn
    BY PipeHolds DEF IInv, TypeOK, FeedGoesOn
  <2>4. \A c \in pumping : Pumps(c) /\ (pumped[c] = wrote[c] \/ PumpGoesOn(c))
    BY <2>1 DEF IInv, TypeOK, PumpGoesOn, Pumps
  <2> QED
    BY <2>2, <2>3, <2>4 DEF Willing, NobodyBlocks
<1> QED
  BY <1>1, <1>2, StaysWilling, Invariance, PTL DEF Spec
=============================================================================
