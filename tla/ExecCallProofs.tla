--------------------------- MODULE ExecCallProofs ---------------------------
(***************************************************************************)
(* The safety properties of ExecOutput and of ExecCall, for every cap,     *)
(* length, division into chunks, deadline, ceiling and wait.               *)
(*                                                                         *)
(* First the bytes alone (ExecOutput); then the calls in time (ExecCall);  *)
(* last the two together: what the caller of a call is told of its bytes   *)
(* is true whatever the timers do.                                         *)
(***************************************************************************)
EXTENDS ExecCall, TLAPS

-----------------------------------------------------------------------------
(* The bytes: ExecOutput                                                   *)

(* Keeping a chunk on top of the first Cap+1 bytes keeps the first Cap+1   *)
(* bytes of the longer stream (`room` in pump and in _stream).             *)
LEMMA KeptExtends ==
    ASSUME NEW had \in Nat, NEW n \in Nat
    PROVE  Kept(Least(had, Cap + 1), n) = Least(had + n, Cap + 1)
  BY CapIsNat DEF Kept, Least

(* The invariant holds before the first chunk.                             *)
LEMMA InitInvariant == Init => IInv
  BY CapIsNat, LengthsAreNats
     DEF Init, IInv, TypeOK, BufferExact, ExecIsTruthful, ReadIsTruthful, ListIsTruthful, NoAnswer,
         Channels, Least

(* Every step of the transport and of the caller keeps the invariant.      *)
LEMMA NextInvariant == IInv /\ [Next]_vars => IInv'
<1> SUFFICES ASSUME IInv, [Next]_vars PROVE IInv'
  OBVIOUS
<1> USE CapIsNat, LengthsAreNats
<1>1. ASSUME NEW c \in Channels, NEW n \in Chunks, Receive(c, n) PROVE IInv'
  <2>1. n \in Nat
    OBVIOUS
  <2>2. BufferExact'
    <3> SUFFICES ASSUME NEW d \in Channels PROVE buf'[d] = Least(sent'[d], Cap + 1)
      BY DEF BufferExact
    <3>1. CASE d # c
      BY <1>1, <3>1 DEF Receive, IInv, TypeOK, BufferExact
    <3>2. CASE d = c
      <4>1. sent[c] \in Nat /\ sent'[c] = sent[c] + n /\ buf'[c] = Kept(buf[c], n)
        BY <1>1 DEF Receive, IInv, TypeOK
      <4>2. buf[c] = Least(sent[c], Cap + 1)
        BY DEF IInv, BufferExact
      <4> QED BY <2>1, <3>2, <4>1, <4>2, KeptExtends
    <3> QED BY <3>1, <3>2
  <2>3. TypeOK'
    <3>1. sent' \in [Channels -> Nat]
      BY <1>1, <2>1 DEF Receive, IInv, TypeOK
    <3>2. buf' \in [Channels -> 0..(Cap + 1)]
      <4>1. DOMAIN buf' = Channels /\ buf' = [d \in Channels |-> buf'[d]]
        BY <1>1 DEF Receive, IInv, TypeOK
      <4>2. \A d \in Channels : buf'[d] \in 0..(Cap + 1)
        BY <2>2, <3>1 DEF BufferExact, Least
      <4> QED BY <4>1, <4>2
    <3> QED BY <1>1, <3>1, <3>2 DEF Receive, IInv, TypeOK
  <2>4. ExecIsTruthful' /\ ReadIsTruthful' /\ ListIsTruthful'
    BY <1>1 DEF Receive, ExecIsTruthful, ReadIsTruthful, ReadLimit, ListIsTruthful
  <2> QED BY <2>2, <2>3, <2>4 DEF IInv
<1>2. ASSUME NEW how \in {"answered", "assumed"}, ExecEnds(how) PROVE IInv'
  <2>1. BufferExact'
    BY <1>2 DEF ExecEnds, Answer, IInv, BufferExact
  <2>2. TypeOK'
    BY <1>2 DEF ExecEnds, Answer, IInv, TypeOK, Channels, Least
  <2>3. \A c \in Channels : /\ sent[c] \in Nat
                            /\ buf[c] = Least(sent[c], Cap + 1)
                            /\ Least(buf[c], Cap) = Least(sent[c], Cap)
                            /\ buf[c] > Cap <=> Least(buf[c], Cap) < sent[c]
    BY DEF IInv, TypeOK, BufferExact, Least
  <2>4. ExecIsTruthful'
    <3>1. /\ answer'.kept = [c \in Channels |-> Least(buf[c], Cap)]
          /\ answer'.truncated = (\E c \in Channels : buf[c] > Cap)
          /\ sent' = sent
      BY <1>2 DEF ExecEnds, Answer
    <3>2. \A c \in Channels : answer'.kept[c] = Least(buf[c], Cap)
      BY <3>1
    <3> QED BY <2>3, <3>1, <3>2 DEF ExecIsTruthful
  <2>5. ReadIsTruthful' /\ ListIsTruthful'
    BY <1>2 DEF ExecEnds, Answer, ReadIsTruthful, ListIsTruthful
  <2> QED BY <2>1, <2>2, <2>4, <2>5 DEF IInv
<1>3. ASSUME NEW how \in {"answered", "assumed"}, ReadEnds(how) PROVE IInv'
  <2>1. BufferExact'
    BY <1>3 DEF ReadEnds, Answer, IInv, BufferExact
  <2>2. TypeOK'
    BY <1>3 DEF ReadEnds, OnlyOut, Answer, IInv, TypeOK, Channels, Least, ReadLimit
  <2>3. /\ size \in Nat /\ wanted \in Nat /\ sent["out"] \in Nat
        /\ buf["out"] = Least(sent["out"], Cap + 1)
        /\ how = "answered" => sent["out"] = Least(size, ReadLimit + 1)
    BY <1>3 DEF ReadEnds, Complete, Length, HeadLength, IInv, TypeOK, BufferExact, Channels
  <2>4. ReadIsTruthful'
    <3>1. /\ answer'.kept["out"] = Least(buf["out"], ReadLimit)
          /\ answer'.truncated = (buf["out"] > ReadLimit)
          /\ size' = size /\ wanted' = wanted /\ phase' = how
      BY <1>3 DEF ReadEnds, OnlyOut, Answer, Channels
    <3>2. how = "answered" =>
            /\ Least(buf["out"], ReadLimit) = Least(size, ReadLimit)
            /\ buf["out"] > ReadLimit <=> Least(buf["out"], ReadLimit) < size
      BY <2>3 DEF ReadLimit, Least
    <3>3. ReadLimit' = ReadLimit
      BY <3>1 DEF ReadLimit
    <3> QED BY <3>1, <3>2, <3>3 DEF ReadIsTruthful
  <2>5. ExecIsTruthful' /\ ListIsTruthful'
    BY <1>3 DEF ReadEnds, Answer, ExecIsTruthful, ListIsTruthful
  <2> QED BY <2>1, <2>2, <2>4, <2>5 DEF IInv
<1>4. ASSUME NEW how \in {"answered", "assumed"}, ListEnds(how) PROVE IInv'
  <2>1. BufferExact'
    BY <1>4 DEF ListEnds, Answer, IInv, BufferExact
  <2>2. TypeOK'
    <3>1. entries \in Nat /\ MaxEntries \in Nat
      BY DEF IInv, TypeOK
    <3>2. Taken \in Nat
      BY <3>1 DEF Taken, Least
    <3>3. Listed \in Nat
      BY <3>2 DEF Listed
    <3>4. Least(Listed, MaxEntries) \in Nat
      BY <3>1, <3>3 DEF Least
    <3> QED BY <1>4, <3>4 DEF ListEnds, OnlyOut, Answer, IInv, TypeOK, Channels
  <2>3. ListIsTruthful'
    <3>1. /\ size \in Nat /\ entries \in Nat /\ MaxEntries \in Nat
          /\ buf["out"] = Least(sent["out"], Cap + 1)
          /\ how = "answered" => sent["out"] = size
      BY <1>4 DEF ListEnds, Complete, Length, IInv, TypeOK, BufferExact, Channels
    <3>2. how = "answered" => Listed = Taken
      BY <1>4, <3>1 DEF ListEnds, Parses, Least, Listed
    <3>3. /\ answer'.kept["out"] = Least(Listed, MaxEntries)
          /\ answer'.truncated = (Listed > MaxEntries)
          /\ entries' = entries /\ phase' = how
      BY <1>4 DEF ListEnds, OnlyOut, Answer, Channels
    <3>4. /\ Least(Taken, MaxEntries) = Least(entries, MaxEntries)
          /\ Taken > MaxEntries <=> Least(entries, MaxEntries) < entries
      BY <3>1 DEF Taken, Least
    <3> QED BY <3>2, <3>3, <3>4 DEF ListIsTruthful
  <2>4. ExecIsTruthful' /\ ReadIsTruthful'
    BY <1>4 DEF ListEnds, Answer, ExecIsTruthful, ReadIsTruthful
  <2> QED BY <2>1, <2>2, <2>3, <2>4 DEF IInv
<1>5. CASE Fails
  BY <1>5 DEF Fails, IInv, TypeOK, BufferExact, ExecIsTruthful, ReadIsTruthful, ListIsTruthful
<1>6. CASE UNCHANGED vars
  BY <1>6 DEF vars, IInv, TypeOK, BufferExact, ExecIsTruthful, ReadIsTruthful,
              ListIsTruthful, ReadLimit
<1> QED BY <1>1, <1>2, <1>3, <1>4, <1>5, <1>6 DEF Next

(* The inductive invariant: the types, the buffers as prefixes of what was *)
(* sent, and the two properties.                                           *)
THEOREM Invariance == Spec => []IInv
  BY InitInvariant, NextInvariant, PTL DEF Spec

(* The service never keeps more than Cap+1 bytes of a stream (TypeOK),     *)
(* whatever the command writes.                                            *)
THEOREM Typing == Spec => []TypeOK
  BY Invariance, PTL DEF IInv

(* The truncated flag of an exec tells the truth at every boundary.        *)
THEOREM ExecsAreTruthful == Spec => []ExecIsTruthful
  BY Invariance, PTL DEF IInv

(* So does the truncated flag of a read, through three cuts.               *)
THEOREM ReadsAreTruthful == Spec => []ReadIsTruthful
  BY Invariance, PTL DEF IInv

(* A listing holds the entries the limit allows, and its truncated flag    *)
(* tells the truth, although the cap on the output may cut its JSON.       *)
THEOREM ListingsAreTruthful == Spec => []ListIsTruthful
  BY Invariance, PTL DEF IInv

-----------------------------------------------------------------------------
(* The calls in time: ExecCall                                             *)

Kinds == op \in {"exec", "read", "list"} /\ (script => op = "exec")

(* The service's side of a call: nothing is told before the call is over,  *)
(* and only a call that is over cuts its upload.                           *)
Caller ==
    /\ wait # "over" => told = "nothing" /\ phase = "streaming"
    /\ told = "no_path" => op # "exec"
    /\ phase = "answered" => shell \in {"ended", "killed"}
    /\ phase = "answered" /\ op = "exec" => told = code

(* The session's side: when the command began and ended.                   *)
Stages ==
    /\ shell \in {"absent", "requested", "receiving"} => began = Never
    /\ shell \in {"absent"} \cup Alive <=> ended = Never
    /\ shell \in {"running", "terminated"} => began # Never
    /\ shell = "receiving" => script
    /\ shell = "terminated" => op = "exec"
    /\ began # Never => began <= clock
    /\ ended # Never => ended <= clock

(* The in-session deadline: what it has to do with the clock, and with the *)
(* exit code of a command that is over.                                    *)
Timers ==
    /\ shell = "running" /\ op = "exec" => clock <= began + seconds
    /\ shell = "terminated" => clock >= began + seconds /\ clock <= began + seconds + 1
    /\ op = "exec" /\ began # Never /\ ended # Never => ended <= began + seconds + 1
    /\ op = "exec" /\ began # Never /\ ended # Never /\ code \in {"exit0", "exit1"} =>
          ended <= began + seconds
    /\ ended # Never /\ code = "exit0" => began # Never

(* The inductive invariant.                                                *)
ExecInv ==
    /\ ExecTypeOK /\ Kinds /\ Caller /\ Stages /\ Timers
    /\ ScratchRemoved /\ NoPathHasReason

-----------------------------------------------------------------------------
(* The deadline is never zero, which GNU timeout would take for none.      *)
LEMMA DeadlineIsPositive ==
    ASSUME NEW t \in Timeouts, NEW m \in Ceilings
    PROVE  Deadline(t, m) \in Nat \ {0}
  BY TimesAreNats DEF Deadline, Greatest, Least

(* The invariant holds at the start.                                       *)
LEMMA Initially == ExecInit => ExecInv
<1> SUFFICES ASSUME ExecInit PROVE ExecInv
  OBVIOUS
<1>1. seconds \in Nat \ {0}
  BY DeadlineIsPositive DEF ExecInit
<1>2. 0 \in 0..MaxTime /\ MaxTime \in Nat
  BY TimesAreNats
<1>3. ExecTypeOK
  <2>1. began = Never /\ ended = Never /\ clock \in 0..MaxTime
    BY <1>2 DEF ExecInit
  <2>2. script \in BOOLEAN /\ scratch \in BOOLEAN
    <3>1. script \in BOOLEAN
      BY DEF ExecInit
    <3>2. scratch = FALSE
      BY DEF ExecInit
    <3> QED
      BY <3>1, <3>2
  <2>3. upload \in {"none", "flowing", "whole", "cut"}
    BY DEF ExecInit
  <2> QED
    BY <1>1, <2>1, <2>2, <2>3 DEF ExecInit, ExecTypeOK, ExitCodes
<1>4. Kinds /\ Caller /\ Stages
  BY DEF ExecInit, Init, Kinds, Caller, Stages, Alive
<1> QED
  BY <1>3, <1>4 DEF ExecInit, ExecInv, Timers, ScratchRemoved, NoPathHasReason

(* A call ends, and what it tells has its reason.                          *)
LEMMA OverStep ==
    ASSUME ExecInv, wait # "over",
           NEW outcome \in {"no_session", "no_path", "error"} \cup ExitCodes, Over(outcome),
           op' = op,
           phase' = "answered" => shell \in {"ended", "killed"} /\ (op = "exec" => outcome = code),
           outcome = "no_path" =>
               /\ op # "exec"
               /\ (ended # Never /\ code # "exit0") \/ clock >= Least(FileWait, OpenWait)
    PROVE  ExecInv'
<1>1. ExecTypeOK'
  BY DEF Over, ExecInv, ExecTypeOK, sessionVars
<1>2. Kinds' /\ Caller' /\ Stages'
  BY DEF Over, ExecInv, Kinds, Caller, Stages, sessionVars, Alive
<1>3. Timers'
  BY DEF Over, ExecInv, Timers, sessionVars
<1>4. ScratchRemoved' /\ NoPathHasReason'
  BY DEF Over, ExecInv, ScratchRemoved, NoPathHasReason, sessionVars
<1> QED
  BY <1>1, <1>2, <1>3, <1>4 DEF ExecInv

(* The coroutine's steps.                                                  *)
LEMMA CoroutineStep == ASSUME ExecInv, Coroutine PROVE ExecInv'
<1>1. CASE Permit \/ Opened
  BY <1>1 DEF Permit, Opened, Waits, ExecInv, ExecTypeOK, Kinds, Caller, Stages, Timers,
              ScratchRemoved, NoPathHasReason, vars, sessionVars
<1>2. CASE UploadEnds
  BY <1>2 DEF UploadEnds, ExecInv, ExecTypeOK, Kinds, Caller, Stages, Timers,
              ScratchRemoved, NoPathHasReason, vars, sessionVars
<1>3. ASSUME NEW c \in Channels, NEW n \in Chunks, Frame(c, n) PROVE ExecInv'
  BY <1>3 DEF Frame, Receive, ExecInv, ExecTypeOK, Kinds, Caller, Stages, Timers,
              ScratchRemoved, NoPathHasReason, callVars, sessionVars
<1>4. CASE Refused \/ OldProtocol \/ Breaks
  <2>1. PICK outcome \in {"no_session", "error"} : Over(outcome)
    BY <1>4 DEF Refused, OldProtocol, Breaks
  <2>2. wait # "over" /\ op' = op /\ phase' = "failed"
    BY <1>4 DEF Refused, OldProtocol, Breaks, Fails
  <2> QED
    BY <2>1, <2>2, OverStep
<1>5. CASE StatusArrives
  <2>1. /\ wait = "open" /\ shell \in {"ended", "killed"} /\ code \in ExitCodes /\ ended # Never
        /\ Returns("answered", code)
    BY <1>5 DEF StatusArrives, Reading, ExecInv, ExecTypeOK, Stages, Alive
  <2>2. op' = op
    BY <2>1 DEF Returns, ExecEnds, ReadEnds, ListEnds, Answer, Fails
  <2>3. CASE Over(code) /\ (phase' = "answered" => op = "exec" \/ code = "exit0")
    BY <2>1, <2>2, <2>3, OverStep DEF ExitCodes
  <2>4. CASE Over("error") /\ phase' = "failed"
    BY <2>1, <2>2, <2>4, OverStep
  <2>5. CASE Over("no_path") /\ phase' = "failed" /\ op # "exec" /\ code # "exit0"
    BY <2>1, <2>2, <2>5, OverStep
  <2> QED
    BY <2>1, <2>3, <2>4, <2>5 DEF Returns, ExecEnds, Fails
<1>6. CASE ClosesWithoutStatus
  <2>1. wait = "open" /\ Returns("assumed", "exit0")
    BY <1>6 DEF ClosesWithoutStatus, Reading
  <2>2. op' = op /\ phase' \in {"assumed", "failed"}
    BY <2>1 DEF Returns, ExecEnds, ReadEnds, ListEnds, Answer, Fails
  <2>3. PICK outcome \in {"exit0", "error"} : Over(outcome)
    BY <2>1 DEF Returns
  <2> QED
    BY <2>1, <2>2, <2>3, OverStep DEF ExitCodes
<1>7. CASE BackstopFires
  <2>1. GivesUp /\ op' = op /\ phase' = "failed" /\ clock \in Nat
        /\ Over(IF op = "exec" THEN "exit124" ELSE "no_path")
    BY <1>7, TimesAreNats DEF BackstopFires, Fails, ExecInv, ExecTypeOK
  <2>2. wait # "over" /\ (op # "exec" => clock >= Least(FileWait, OpenWait))
    BY <2>1, TimesAreNats DEF GivesUp, Backstop, Least
  <2>3. CASE op = "exec"
    BY <2>1, <2>2, <2>3, OverStep DEF ExitCodes
  <2>4. CASE op # "exec"
    BY <2>1, <2>2, <2>4, OverStep
  <2> QED
    BY <2>3, <2>4
<1> QED
  BY <1>1, <1>2, <1>3, <1>4, <1>5, <1>6, <1>7 DEF Coroutine

-----------------------------------------------------------------------------
(* A step in the session keeps what it says nothing of.                    *)
LEMMA SessionStep ==
    ASSUME ExecInv, NEW from \in {"absent"} \cup Alive, NEW to, Session(from, to),
           ExecTypeOK', Stages', Timers', ScratchRemoved'
    PROVE  ExecInv'
<1>1. ended = Never /\ phase # "answered"
  BY DEF ExecInv, Session, Stages, Caller, Alive
<1>2. Kinds' /\ Caller' /\ NoPathHasReason'
  BY <1>1 DEF Session, ExecInv, Kinds, Caller, NoPathHasReason, vars
<1> QED
  BY <1>2 DEF ExecInv

(* What the clock has to do with the types.                                *)
LEMMA Clocks ==
    ASSUME ExecInv
    PROVE  /\ clock \in 0..MaxTime /\ clock \in Nat /\ clock # Never
           /\ seconds \in Nat /\ seconds >= 1
           /\ began # Never => began \in Nat
           /\ ended # Never => ended \in Nat
  BY NeverIsNoTime, TimesAreNats DEF ExecInv, ExecTypeOK

(* The processes of a call start.                                          *)
LEMMA StartSteps ==
    ASSUME ExecInv, Accepted \/ Begins \/ Receives \/ SizeMatches \/ DeadlinePasses PROVE ExecInv'
<1> USE Clocks
<1>1. CASE Accepted
  <2>1. ExecTypeOK' /\ Stages' /\ Timers' /\ ScratchRemoved'
    BY <1>1 DEF Accepted, Session, ExecInv, ExecTypeOK, Stages, Timers, ScratchRemoved, vars, Alive
  <2> QED
    BY <1>1, <2>1, SessionStep DEF Accepted
<1>2. CASE Begins
  <2>1. ExecTypeOK' /\ Stages' /\ Timers' /\ ScratchRemoved'
    BY <1>2 DEF Begins, Session, ExecInv, ExecTypeOK, Stages, Timers, ScratchRemoved, vars, Alive
  <2> QED
    BY <1>2, <2>1, SessionStep DEF Begins, Alive
<1>3. CASE Receives
  <2>1. ExecTypeOK' /\ Stages' /\ Timers' /\ ScratchRemoved'
    BY <1>3 DEF Receives, Session, ExecInv, ExecTypeOK, Stages, Timers, ScratchRemoved, vars, Alive
  <2> QED
    BY <1>3, <2>1, SessionStep DEF Receives, Alive
<1>4. CASE SizeMatches
  <2>1. ExecTypeOK' /\ Stages' /\ Timers' /\ ScratchRemoved'
    BY <1>4 DEF SizeMatches, Session, ExecInv, ExecTypeOK, Stages, Timers, ScratchRemoved, vars, Alive
  <2> QED
    BY <1>4, <2>1, SessionStep DEF SizeMatches, Alive
<1>5. CASE DeadlinePasses
  <2>1. ExecTypeOK' /\ Stages' /\ Timers' /\ ScratchRemoved'
    BY <1>5 DEF DeadlinePasses, Session, ExecInv, ExecTypeOK, Stages, Timers, ScratchRemoved, vars, Alive
  <2> QED
    BY <1>5, <2>1, SessionStep DEF DeadlinePasses, Alive
<1> QED
  BY <1>1, <1>2, <1>3, <1>4, <1>5

(* A call that ends by itself leaves no file behind.                       *)
LEMMA EndsClean ==
    ASSUME NEW c \in ExitCodes, Ends(c) PROVE scratch' \in BOOLEAN /\ ~scratch'
<1>1. scratch' = FALSE
  BY DEF Ends
<1> QED
  BY <1>1

(* They end.                                                               *)
LEMMA EndSteps ==
    ASSUME ExecInv,
           \/ ReceiveFails \/ DiesOfTerm \/ DiesOfKill \/ Killed
           \/ \E c \in ExitCodes : Exits(c)
    PROVE  ExecInv'
<1> USE Clocks
<1>1. CASE ReceiveFails
  <2>0. scratch' \in BOOLEAN /\ ~scratch'
    BY <1>1, EndsClean DEF ReceiveFails, ExitCodes
  <2>1. ExecTypeOK' /\ Stages' /\ Timers' /\ ScratchRemoved'
    BY <1>1, <2>0 DEF ReceiveFails, Ends, Session, ExecInv, ExecTypeOK, Stages, Timers, ScratchRemoved, vars, Alive, ExitCodes
  <2> QED
    BY <1>1, <2>1, SessionStep DEF ReceiveFails, Alive
<1>2. CASE DiesOfTerm
  <2>0. scratch' \in BOOLEAN /\ ~scratch'
    BY <1>2, EndsClean DEF DiesOfTerm, ExitCodes
  <2>1. ExecTypeOK' /\ Stages' /\ Timers' /\ ScratchRemoved'
    BY <1>2, <2>0 DEF DiesOfTerm, Ends, Session, ExecInv, ExecTypeOK, Stages, Timers, ScratchRemoved, vars, Alive, ExitCodes
  <2> QED
    BY <1>2, <2>1, SessionStep DEF DiesOfTerm, Alive
<1>3. CASE DiesOfKill
  <2>0. scratch' \in BOOLEAN /\ ~scratch'
    BY <1>3, EndsClean DEF DiesOfKill, ExitCodes
  <2>1. ExecTypeOK' /\ Stages' /\ Timers' /\ ScratchRemoved'
    BY <1>3, <2>0 DEF DiesOfKill, Ends, Session, ExecInv, ExecTypeOK, Stages, Timers, ScratchRemoved, vars, Alive, ExitCodes
  <2> QED
    BY <1>3, <2>1, SessionStep DEF DiesOfKill, Alive
<1>4. CASE Killed
  <2>1. PICK from \in Alive : Session(from, "killed")
    BY <1>4 DEF Killed
  <2>2. ExecTypeOK' /\ Stages' /\ Timers' /\ ScratchRemoved'
    BY <1>4, <2>1 DEF Killed, Session, ExecInv, ExecTypeOK, Stages, Timers, ScratchRemoved, vars, Alive, ExitCodes
  <2> QED
    BY <2>1, <2>2, SessionStep
<1>5. ASSUME NEW c \in ExitCodes, Exits(c) PROVE ExecInv'
  <2>0. scratch' \in BOOLEAN /\ ~scratch'
    BY <1>5, EndsClean DEF Exits, ExitCodes
  <2>1. ExecTypeOK' /\ Stages' /\ Timers' /\ ScratchRemoved'
    BY <1>5, <2>0 DEF Exits, Ends, Session, ExecInv, ExecTypeOK, Stages, Timers, ScratchRemoved, vars, Alive, ExitCodes
  <2> QED
    BY <1>5, <2>1, SessionStep DEF Exits, Alive
<1> QED
  BY <1>1, <1>2, <1>3, <1>4, <1>5

(* Time passes no timer that is due.                                       *)
LEMMA TickStep == ASSUME ExecInv, Tick PROVE ExecInv'
<1> USE Clocks
<1>1. clock' = clock + 1 /\ clock' \in 0..MaxTime /\ ~Due
  BY TimesAreNats DEF Tick
<1>2. ExecTypeOK' /\ Kinds' /\ Caller'
  BY <1>1 DEF Tick, ExecInv, ExecTypeOK, Kinds, Caller, vars, sessionVars
<1>3. Stages'
  BY <1>1 DEF Tick, ExecInv, Stages, vars, sessionVars
<1>4. Timers'
  BY <1>1 DEF Tick, ExecInv, Stages, Timers, Due, vars, sessionVars, Alive
<1>5. ScratchRemoved'
  BY DEF Tick, ExecInv, ScratchRemoved, sessionVars
<1>6. NoPathHasReason'
  <2>1. Least(FileWait, OpenWait) \in Nat
    BY TimesAreNats DEF Least
  <2> QED
    BY <1>1, <2>1 DEF Tick, ExecInv, NoPathHasReason, sessionVars
<1> QED
  BY <1>2, <1>3, <1>4, <1>5, <1>6 DEF ExecInv

-----------------------------------------------------------------------------
(* The invariant is inductive.                                             *)
THEOREM CallInvariance == ExecSpec => []ExecInv
<1>1. ExecInv /\ UNCHANGED execVars => ExecInv'
  BY DEF execVars, vars, callVars, sessionVars, ExecInv, ExecTypeOK, Kinds, Caller, Stages, Timers,
         ScratchRemoved, NoPathHasReason
<1>2. ExecInv /\ [ExecNext]_execVars => ExecInv'
  BY <1>1, CoroutineStep, StartSteps, EndSteps, TickStep DEF ExecNext, InSession
<1> QED
  BY Initially, <1>2, PTL DEF ExecSpec

(* Type correctness; the deadline of GNU timeout is at least a second.     *)
THEOREM CallTyping == ExecSpec => []ExecTypeOK
<1>1. ExecInv => ExecTypeOK
  BY DEF ExecInv
<1> QED
  BY <1>1, CallInvariance, PTL

(* No command outlives its deadline by more than the second until KILL.    *)
THEOREM CommandsStop == ExecSpec => []CommandStops
<1>1. ExecInv => CommandStops
  BY Clocks DEF ExecInv, Stages, Timers, CommandStops
<1> QED
  BY <1>1, CallInvariance, PTL

(* A script's file goes with its command.                                  *)
THEOREM ScratchIsRemoved == ExecSpec => []ScratchRemoved
<1>1. ExecInv => ScratchRemoved
  BY DEF ExecInv
<1> QED
  BY <1>1, CallInvariance, PTL

(* The exit code of an answered exec is what its command came to; a        *)
(* command that ran past its deadline is never answered as a success.      *)
THEOREM CodesAreTheCommands == ExecSpec => []CodeIsTheCommands
<1>1. ExecInv => CodeIsTheCommands
  BY DEF ExecInv, ExecTypeOK, ExitCodes, Caller, Stages, Timers, CodeIsTheCommands, Alive
<1> QED
  BY <1>1, CallInvariance, PTL

(* A 404 for a path is the command's failure or the wait's end.            *)
THEOREM MissingPathsHaveReasons == ExecSpec => []NoPathHasReason
<1>1. ExecInv => NoPathHasReason
  BY DEF ExecInv
<1> QED
  BY <1>1, CallInvariance, PTL

(* The service's own wait is the last to cut a call.                       *)
THEOREM BackstopComesLast == ExecSpec => BackstopIsLast
<1> DEFINE back == IF ended = Never THEN 0 ELSE clock - ended
           Late == wait = "open" /\ told' = "exit124" /\ phase' = "failed" /\ began # Never =>
                      began + back >= (IF script THEN 4 ELSE 1)
<1>1. ExecInv /\ [ExecNext]_execVars => Late
  <2> SUFFICES ASSUME ExecInv, [ExecNext]_execVars, wait = "open", told' = "exit124",
                      phase' = "failed", began # Never
               PROVE  began + back >= (IF script THEN 4 ELSE 1)
    OBVIOUS
  <2>1. told = "nothing" /\ phase = "streaming"
    BY DEF ExecInv, Caller
  <2>2. BackstopFires
    <3>1. told' # told
      BY <2>1
    <3>2. ~(Tick \/ InSession)
      BY <3>1 DEF Tick, InSession, Accepted, Begins, Receives, SizeMatches, ReceiveFails, Exits,
                  DeadlinePasses, DiesOfTerm, DiesOfKill, Killed, Session
    <3>3. ~(Permit \/ Opened \/ UploadEnds \/ \E c \in Channels, n \in Chunks : Frame(c, n))
      BY <3>1 DEF Permit, Opened, Waits, UploadEnds, Frame, callVars
    <3>4. ~(Refused \/ OldProtocol \/ Breaks)
      BY DEF Refused, OldProtocol, Breaks, Over
    <3>5. ~ClosesWithoutStatus
      BY DEF ClosesWithoutStatus, Returns, Over
    <3>6. ~StatusArrives
      <4> SUFFICES ASSUME StatusArrives PROVE FALSE
        OBVIOUS
      <4>1. Returns("answered", code)
        BY DEF StatusArrives
      <4> QED
        BY <4>1 DEF Returns, ExecEnds, ReadEnds, ListEnds, Answer, Over
    <3>7. ~UNCHANGED execVars
      BY <3>1 DEF execVars, callVars
    <3> QED
      BY <3>2, <3>3, <3>4, <3>5, <3>6, <3>7 DEF ExecNext, Coroutine
  <2>3. op = "exec" /\ clock >= seconds + (IF script THEN 5 ELSE 2)
    BY <2>2, Clocks, TimesAreNats DEF BackstopFires, Over, GivesUp, Backstop
  <2>4. CASE ended = Never
    <3>1. shell \in {"running", "terminated"}
      BY <2>4 DEF ExecInv, Stages, Alive
    <3>2. clock <= began + seconds + 1
      BY <2>3, <3>1, Clocks DEF ExecInv, Timers
    <3> QED
      BY <2>3, <2>4, <3>2, Clocks
  <2>5. CASE ended # Never
    <3>1. ended <= began + seconds + 1
      BY <2>3, <2>5 DEF ExecInv, Timers
    <3> QED
      BY <2>3, <2>5, <3>1, Clocks
  <2> QED
    BY <2>4, <2>5
<1> QED
  BY <1>1, CallInvariance, PTL DEF ExecSpec, BackstopIsLast

-----------------------------------------------------------------------------
(* Whatever the timers do, the bytes of a call are those of ExecOutput:    *)
(* its invariant holds of every call.                                      *)
LEMMA BytesFollowOutput == ExecSpec => Spec
<1>1. ExecInit => Init
  BY DEF ExecInit
<1>2. [ExecNext]_execVars => [Next]_vars
  <2> SUFFICES ASSUME [ExecNext]_execVars PROVE [Next]_vars
    OBVIOUS
  <2>1. CASE Tick \/ InSession
    BY <2>1 DEF Tick, InSession, Accepted, Begins, Receives, SizeMatches, ReceiveFails, Exits,
                DeadlinePasses, DiesOfTerm, DiesOfKill, Killed, Session
  <2>2. CASE Permit \/ Opened \/ UploadEnds
    BY <2>2 DEF Permit, Opened, Waits, UploadEnds
  <2>3. ASSUME NEW c \in Channels, NEW n \in Chunks, Frame(c, n) PROVE Next
    BY <2>3 DEF Frame, Next
  <2>4. CASE Refused \/ OldProtocol \/ BackstopFires \/ Breaks
    BY <2>4 DEF Refused, OldProtocol, BackstopFires, Breaks, Next
  <2>5. ASSUME NEW how \in {"answered", "assumed"}, NEW c, Returns(how, c) PROVE Next
    BY <2>5 DEF Returns, Next
  <2>6. CASE StatusArrives
    BY <2>5, <2>6 DEF StatusArrives
  <2>7. CASE ClosesWithoutStatus
    BY <2>5, <2>7 DEF ClosesWithoutStatus
  <2>8. CASE UNCHANGED execVars
    BY <2>8 DEF execVars
  <2> QED
    BY <2>1, <2>2, <2>3, <2>4, <2>6, <2>7, <2>8 DEF ExecNext, Coroutine
<1> QED
  BY <1>1, <1>2, PTL DEF ExecSpec, Spec

(* A call that is answered tells the truth of its bytes and entries: the   *)
(* theorems of ExecOutput on the flags of an exec, of a read and of a      *)
(* listing, for the calls of _exec_cli with all their ways to end.         *)
THEOREM CallsAreTruthful == ExecSpec => [](ExecIsTruthful /\ ReadIsTruthful /\ ListIsTruthful)
<1>1. IInv => ExecIsTruthful /\ ReadIsTruthful /\ ListIsTruthful
  BY DEF IInv
<1> QED
  BY <1>1, BytesFollowOutput, Invariance, PTL
=============================================================================
