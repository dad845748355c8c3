------------------------------- MODULE RunCli -------------------------------
(***************************************************************************)
(* run_cli of providers/base.py: one child process, its three pipes, and   *)
(* the tasks that pump stdout and stderr, feed stdin and wait for the      *)
(* exit, gathered under one timeout.                                       *)
(*                                                                         *)
(* Bytes are counted.  The child is any program: it reads and writes in    *)
(* whatever order it likes, blocks where a pipe is empty or full, and may  *)
(* leave a descendant behind that holds its pipes open.                    *)
(***************************************************************************)
EXTENDS Integers

CONSTANTS
    PipeSize,   \* what a pipe holds
    Payload,    \* lengths of stdin
    MaxBytes,   \* the cap on each stream
    MaxWrites   \* bound: bytes the child writes to one stream

ASSUME PipeHolds == PipeSize \in Nat \ {0}
ASSUME LengthsAreNats == Payload \subseteq Nat /\ {MaxBytes, MaxWrites} \subseteq Nat

VARIABLES
    stdin,     \* length of the stdin given
    fed,       \* bytes of it written to the pipe
    feeding,   \* the feed task: "running", "over"
    eaten,     \* bytes of it the child read
    wrote,     \* wrote[c]: bytes the child and its descendants wrote
    pumped,    \* pumped[c]: bytes the pump took out of the pipe
    buf,       \* buf[c]: bytes of them kept
    pumping,   \* the pump tasks that have not seen the end of their stream
    child,     \* "running", "exited", "killed"
    wants,     \* what the child blocks on: "nothing", "in", "out", "err"
    heir,      \* a descendant holds the child's stdout and stderr
    call       \* "waiting", "killing", "returned", "timed_out"

tasks == <<fed, feeding, pumped, buf, pumping>>
process == <<eaten, wrote, child, wants, heir>>
vars == <<stdin, tasks, process, call>>

Channels == {"out", "err"}
Least(a, b) == IF a <= b THEN a ELSE b

(* Types; a pipe never holds more than its size.                           *)
TypeOK ==
    /\ stdin \in Nat
    /\ eaten \in 0..fed /\ fed \in 0..stdin /\ fed - eaten <= PipeSize
    /\ feeding \in {"running", "over"}
    /\ wrote \in [Channels -> 0..MaxWrites] /\ pumped \in [Channels -> 0..MaxWrites]
    /\ \A c \in Channels : wrote[c] - pumped[c] \in 0..PipeSize
    /\ buf \in [Channels -> 0..MaxBytes]
    /\ pumping \in SUBSET Channels
    /\ child \in {"running", "exited", "killed"}
    /\ wants \in {"nothing", "in"} \cup Channels
    /\ heir \in BOOLEAN
    /\ call \in {"waiting", "killing", "returned", "timed_out"}

Init ==
    /\ stdin \in Payload
    /\ fed = 0 /\ eaten = 0
    /\ feeding = "running"
    /\ wrote = [c \in Channels |-> 0]
    /\ pumped = [c \in Channels |-> 0]
    /\ buf = [c \in Channels |-> 0]
    /\ pumping = Channels
    /\ child = "running"
    /\ wants = "nothing"
    /\ heir = FALSE
    /\ call = "waiting"

-----------------------------------------------------------------------------
(* The tasks; wait_for cancels them when the timeout fires.                *)

(* Mutant: stdout and stderr are pumped once stdin was fed.                *)
PumpsAfterFeed(c) == call = "waiting" /\ c \in pumping /\ feeding = "over"

Pumps(c) == call = "waiting" /\ c \in pumping

(* Mutant: the cap is checked between chunks only.                         *)
KeptWhole(have, n) == IF have < MaxBytes THEN have + n ELSE have

(* room = max_bytes - len(buf); if room > 0: buf += chunk[:room]           *)
Kept(have, n) == have + Least(n, MaxBytes - have)

(* A chunk is what the pipe holds, or part of it.                          *)
Pump(c, n) ==
    /\ Pumps(c)
    /\ n <= wrote[c] - pumped[c]
    /\ pumped' = [pumped EXCEPT ![c] = @ + n]
    /\ buf' = [buf EXCEPT ![c] = Kept(@, n)]
    /\ UNCHANGED <<stdin, fed, feeding, pumping, process, call>>

(* The end of a stream: it is empty and nobody is left to write to it.     *)
PumpEnds(c) ==
    /\ Pumps(c)
    /\ pumped[c] = wrote[c]
    /\ child # "running" /\ ~heir
    /\ pumping' = pumping \ {c}
    /\ UNCHANGED <<stdin, fed, feeding, pumped, buf, process, call>>

(* The transport moves stdin into the pipe; `drain` is taken to wait for    *)
(* all of it, the longest it may wait.                                     *)
Feed ==
    /\ call = "waiting"
    /\ feeding = "running"
    /\ child = "running"
    /\ fed < stdin /\ fed - eaten < PipeSize
    /\ fed' = fed + 1
    /\ UNCHANGED <<stdin, feeding, pumped, buf, pumping, process, call>>

(* Everything was written, or BrokenPipe: the child exited early.          *)
FeedEnds ==
    /\ call = "waiting"
    /\ feeding = "running"
    /\ fed = stdin \/ child # "running"
    /\ feeding' = "over"
    /\ UNCHANGED <<stdin, fed, pumped, buf, pumping, process, call>>

(* Mutant: the call returns when the process is gone.                      *)
ReturnsAtExit ==
    /\ call = "waiting"
    /\ child # "running"
    /\ call' = "returned"
    /\ UNCHANGED <<stdin, tasks, process>>

(* All tasks are done: the pumps, proc.wait() and feed.                    *)
Returns ==
    /\ call = "waiting"
    /\ pumping = {} /\ child # "running" /\ feeding = "over"
    /\ call' = "returned"
    /\ UNCHANGED <<stdin, tasks, process>>

(* The timeout: proc.kill().                                               *)
TimesOut ==
    /\ call = "waiting"
    /\ call' = "killing"
    /\ child' = IF child = "running" THEN "killed" ELSE child
    /\ UNCHANGED <<stdin, tasks, eaten, wrote, wants, heir>>

(* await proc.wait(); what was read is thrown away.                        *)
Reaped ==
    /\ call = "killing"
    /\ call' = "timed_out"
    /\ UNCHANGED <<stdin, tasks, process>>

-----------------------------------------------------------------------------
(* The child                                                               *)

OnlyChild == UNCHANGED <<stdin, tasks, call>>

Chooses(op) ==
    /\ child = "running"
    /\ wants = "nothing"
    /\ op \in Channels => wrote[op] < MaxWrites
    /\ wants' = op
    /\ OnlyChild /\ UNCHANGED <<eaten, wrote, child, heir>>

(* A byte, or the end of stdin.                                            *)
ChildReads ==
    /\ child = "running"
    /\ wants = "in"
    /\ \/ eaten < fed /\ eaten' = eaten + 1
       \/ eaten = fed /\ feeding = "over" /\ eaten' = eaten
    /\ wants' = "nothing"
    /\ OnlyChild /\ UNCHANGED <<wrote, child, heir>>

Written(c) ==
    /\ wrote[c] < MaxWrites /\ wrote[c] - pumped[c] < PipeSize
    /\ wrote' = [wrote EXCEPT ![c] = @ + 1]

ChildWrites(c) ==
    /\ child = "running"
    /\ wants = c
    /\ Written(c)
    /\ wants' = "nothing"
    /\ OnlyChild /\ UNCHANGED <<eaten, child, heir>>

(* By itself, when nothing blocks it.                                      *)
ChildExits ==
    /\ child = "running"
    /\ wants = "nothing"
    /\ child' = "exited"
    /\ heir' \in BOOLEAN
    /\ OnlyChild /\ UNCHANGED <<eaten, wrote, wants>>

(* Killed from outside, whatever it was doing.                             *)
ChildDies ==
    /\ child = "running"
    /\ child' = "exited"
    /\ OnlyChild /\ UNCHANGED <<eaten, wrote, wants, heir>>

HeirWrites(c) == heir /\ Written(c) /\ OnlyChild /\ UNCHANGED <<eaten, child, wants, heir>>

HeirLeaves == heir /\ heir' = FALSE /\ OnlyChild /\ UNCHANGED <<eaten, wrote, child, wants>>

-----------------------------------------------------------------------------
Service ==
    \/ \E c \in Channels : PumpEnds(c) \/ \E n \in 1..PipeSize : Pump(c, n)
    \/ Feed \/ FeedEnds \/ Returns \/ TimesOut \/ Reaped

Child ==
    \/ \E op \in {"in"} \cup Channels : Chooses(op)
    \/ ChildReads \/ ChildExits \/ ChildDies \/ HeirLeaves
    \/ \E c \in Channels : ChildWrites(c) \/ HeirWrites(c)

Next == Service \/ Child

(* The event loop runs every task that can go on.  The child goes on where *)
(* its pipes let it, and one that is free again and again exits.  Nothing  *)
(* is assumed of the timeout.                                              *)
Fairness ==
    /\ \A c \in Channels :
          /\ WF_vars(\E n \in 1..PipeSize : Pump(c, n))
          /\ WF_vars(PumpEnds(c))
          /\ WF_vars(ChildWrites(c))
    /\ WF_vars(Feed) /\ WF_vars(FeedEnds) /\ WF_vars(Returns) /\ WF_vars(Reaped)
    /\ WF_vars(ChildReads) /\ SF_vars(ChildExits)

Spec == Init /\ [][Next]_vars
FairSpec == Spec /\ Fairness

-----------------------------------------------------------------------------
(* A call that returns an exit code has all the output, up to the cap: no  *)
(* byte is lost between the exit of the process and the end of the pumps,  *)
(* however the output was divided into chunks.                             *)
OutputComplete ==
    call = "returned" => \A c \in Channels : buf[c] = Least(wrote[c], MaxBytes)

(* The service and its child never block each other on their three pipes:  *)
(* without any timeout every call ends, whatever the order the child reads *)
(* and writes in, also if it exits without reading its stdin.  Only a      *)
(* descendant that keeps the pipes open can delay it.                      *)
NoPipeDeadlock == <>(heir \/ call \in {"returned", "timed_out"})
=============================================================================
