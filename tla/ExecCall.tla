------------------------------ MODULE ExecCall ------------------------------
(***************************************************************************)
(* One call of exec, run_script, read_file or list_files in time: the      *)
(* coroutine in _exec_cli with its own wait (the backstop), the stream,    *)
(* and the processes it started in the session, which know nothing of the  *)
(* coroutine: dropping the stream ends their stdin and nothing else.       *)
(*                                                                         *)
(* ExecOutput follows the bytes of the call; this module says when they    *)
(* can flow and how the call ends.  The clock counts seconds from the      *)
(* moment the call got its permit of `_sem`: no timeout covers the wait    *)
(* for the permit.                                                         *)
(***************************************************************************)
EXTENDS ExecOutput

CONSTANTS
    Timeouts,     \* timeout_seconds a caller may ask for
    Ceilings,     \* values of max_exec_seconds
    FileWait,     \* timeout of read_file and list_files (30 s)
    OpenWait,     \* open_timeout of the WebSocket (30 s)
    MaxTime,      \* bound: seconds followed
    Never

ASSUME TimesAreNats ==
    Timeouts \cup Ceilings \cup {FileWait, OpenWait, MaxTime} \subseteq Nat
ASSUME NeverIsNoTime == Never \notin Nat

VARIABLES
    script,    \* the call is run_script: the code goes through stdin
    seconds,   \* the deadline GNU timeout enforces
    wait,      \* the coroutine: "queued", "opening", "open", "over"
    clock,
    upload,    \* stdin of a run_script: "flowing", "whole", "cut"
    shell,     \* what runs in the session
    began,     \* when the command began, or Never
    ended,     \* when the processes of the call ended, or Never
    code,      \* their exit code
    scratch,   \* /tmp/_run_<uuid> exists
    told       \* the caller: "nothing", an exit code, "no_session", "no_path", "error"

sessionVars == <<shell, began, ended, code, scratch>>
callVars == <<script, seconds, wait, clock, upload, sessionVars, told>>
execVars == <<vars, callVars>>

Greatest(a, b) == IF a >= b THEN a ELSE b

(* Mutant: no floor; `timeout 0` means no timeout.                         *)
DeadlineUnfloored(asked, ceiling) == Least(asked, ceiling)

(* min(timeout_seconds, max_exec_seconds) in app.py, max(1, ...) in exec.  *)
Deadline(asked, ceiling) == Greatest(1, Least(asked, ceiling))

(* Mutant: the service waits no longer than the command may run.           *)
TightBackstop == IF op = "exec" THEN seconds ELSE FileWait

(* The timeout each operation passes to _exec_cli.                         *)
Backstop == IF op = "exec" THEN seconds + (IF script THEN 5 ELSE 2) ELSE FileWait

Alive == {"requested", "receiving", "running", "terminated"}
ExitCodes == {"exit0", "exit1", "exit124", "exit137"}

(* Types.                                                                  *)
ExecTypeOK ==
    /\ script \in BOOLEAN
    /\ seconds \in Nat \ {0}
    /\ wait \in {"queued", "opening", "open", "over"}
    /\ clock \in 0..MaxTime
    /\ upload \in {"none", "flowing", "whole", "cut"}
    /\ shell \in {"absent", "ended", "killed"} \cup Alive
    /\ began \in 0..MaxTime \cup {Never} /\ ended \in 0..MaxTime \cup {Never}
    /\ code \in ExitCodes
    /\ scratch \in BOOLEAN
    /\ told \in {"nothing", "no_session", "no_path", "error"} \cup ExitCodes

ExecInit ==
    /\ Init
    /\ script \in BOOLEAN
    /\ script => op = "exec"
    /\ seconds \in {Deadline(t, m) : t \in Timeouts, m \in Ceilings}
    /\ wait = "queued"
    /\ clock = 0
    /\ upload = IF script THEN "flowing" ELSE "none"
    /\ shell = "absent"
    /\ began = Never
    /\ ended = Never
    /\ code = "exit0"
    /\ scratch = FALSE
    /\ told = "nothing"

-----------------------------------------------------------------------------
(* The coroutine                                                           *)

(* The call is over; what is left of stdin is never sent.                  *)
Over(outcome) ==
    /\ wait' = "over"
    /\ told' = outcome
    /\ upload' = IF upload = "flowing" THEN "cut" ELSE upload
    /\ UNCHANGED <<script, seconds, clock, sessionVars>>

Waits(from, to) ==
    /\ wait = from
    /\ wait' = to
    /\ UNCHANGED <<vars, script, seconds, clock, upload, sessionVars, told>>

(* async with self._sem                                                    *)
Permit == Waits("queued", "opening")

(* The apiserver took the request.                                         *)
Opened == shell # "absent" /\ Waits("opening", "open")

(* InvalidStatus: 404, or anything else.                                   *)
Refused ==
    /\ wait = "opening"
    /\ shell = "absent"
    /\ Fails
    /\ \E outcome \in {"no_session", "error"} : Over(outcome)

(* v4 cannot half-close stdin.                                             *)
OldProtocol ==
    /\ wait = "opening"
    /\ shell # "absent"
    /\ script
    /\ Fails
    /\ Over("error")

(* The last of the code and the end of stdin were sent.  If the connection *)
(* breaks between the two, the session finds the end of stdin all the same.*)
UploadEnds ==
    /\ wait = "open"
    /\ upload = "flowing"
    /\ upload' = "whole"
    /\ UNCHANGED <<vars, script, seconds, wait, clock, sessionVars, told>>

(* _stream reads frames once all of stdin was sent.                        *)
Reading == wait = "open" /\ upload \in {"none", "whole"}

Frame(c, n) ==
    /\ Reading
    /\ shell \notin {"absent", "requested"}
    /\ Receive(c, n)
    /\ UNCHANGED callVars

(* Mutant: a listing that was cut is reported as a missing path.           *)
ReturnsCutAsMissing(how, c) ==
    \/ ExecEnds(how) /\ Over(c)
    \/ c = "exit0" /\ (ReadEnds(how) \/ ListEnds(how)) /\ Over(c)
    \/ op = "list" /\ Complete(how) /\ ~Parses /\ Fails /\ Over("no_path")
    \/ c # "exit0" /\ op # "exec" /\ Fails /\ Over("no_path")

(* What an operation makes of the exit code.                               *)
Returns(how, c) ==
    \/ ExecEnds(how) /\ Over(c)
    \/ c = "exit0" /\ (ReadEnds(how) \/ ListEnds(how)) /\ Over(c)
    \/ c = "exit0" /\ op = "list" /\ Complete(how) /\ ~Parses /\ Fails /\ Over("error")
    \/ c # "exit0" /\ op # "exec" /\ Fails /\ Over("no_path")

StatusArrives == Reading /\ shell \in {"ended", "killed"} /\ Returns("answered", code)

(* The stream closed without a status: _exit_code_from_status says 0.      *)
ClosesWithoutStatus == Reading /\ Returns("assumed", "exit0")

(* Mutant: only the open stream is waited for with a timeout.              *)
GivesUpReading == wait = "open" /\ clock >= Backstop

(* asyncio.wait_for, or the open_timeout of the WebSocket, which raises    *)
(* the same TimeoutError.                                                  *)
GivesUp ==
    \/ wait \in {"opening", "open"} /\ clock >= Backstop
    \/ wait = "opening" /\ clock >= OpenWait

BackstopFires ==
    /\ GivesUp
    /\ Fails
    /\ Over(IF op = "exec" THEN "exit124" ELSE "no_path")

(* The connection breaks, or the call is cancelled.                        *)
Breaks ==
    /\ wait # "over"
    /\ Fails
    /\ Over("error")

-----------------------------------------------------------------------------
(* The session                                                             *)

Session(from, to) ==
    /\ shell = from
    /\ shell' = to
    /\ UNCHANGED <<vars, script, seconds, wait, clock, upload, told>>

(* The apiserver hands the command to the session.                         *)
Accepted ==
    /\ wait = "opening"
    /\ Session("absent", "requested")
    /\ UNCHANGED <<began, ended, code, scratch>>

(* timeout -k 1 S sh -c ..., head -c or python3 starts.                    *)
Begins ==
    /\ ~script
    /\ Session("requested", "running")
    /\ began' = clock
    /\ UNCHANGED <<ended, code, scratch>>

(* cat > /tmp/_run_<uuid>                                                  *)
Receives ==
    /\ script
    /\ Session("requested", "receiving")
    /\ scratch' = TRUE
    /\ UNCHANGED <<began, ended, code>>

(* wc -c finds all of the code; timeout -k 1 S python3 starts.             *)
SizeMatches ==
    /\ upload = "whole"
    /\ Session("receiving", "running")
    /\ began' = clock
    /\ UNCHANGED <<ended, code, scratch>>

(* Mutant: `&& rm -f` instead of `; rc=$?; rm -f`.                         *)
EndsLeaving(c) ==
    /\ ended' = clock
    /\ code' = c
    /\ scratch' = (scratch /\ c # "exit0")
    /\ UNCHANGED began

(* Mutant: the exit code is that of rm.                                    *)
EndsAsRm(c) ==
    /\ ended' = clock
    /\ code' = IF script THEN "exit0" ELSE c
    /\ scratch' = FALSE
    /\ UNCHANGED began

(* The command is over; of a script also rc=$?; rm -f path; exit $rc.      *)
Ends(c) ==
    /\ ended' = clock
    /\ code' = c
    /\ scratch' = FALSE
    /\ UNCHANGED began

(* stdin was cut, or cat, wc or cd failed.                                 *)
ReceiveFails == Session("receiving", "ended") /\ Ends("exit1")

(* By itself or killed by the kernel, with any code: GNU timeout passes it *)
(* on, also a 124 of the command's own.                                    *)
Exits(c) == Session("running", "ended") /\ Ends(c)

DeadlinePasses ==
    /\ op = "exec"
    /\ shell = "running"
    /\ clock >= began + seconds
    /\ Session("running", "terminated")
    /\ UNCHANGED <<began, ended, code, scratch>>

(* Mutant: timeout --preserve-status.                                      *)
DiesWithItsCode ==
    /\ Session("terminated", "ended")
    /\ \E c \in ExitCodes : Ends(c)

(* GNU timeout answers 124 whatever the command made of TERM.              *)
DiesOfTerm == Session("terminated", "ended") /\ Ends("exit124")

DiesOfKill ==
    /\ shell = "terminated"
    /\ clock >= began + seconds + 1
    /\ Session("terminated", "ended")
    /\ Ends("exit137")

(* All processes of the call are killed, or the session is torn down.      *)
Killed ==
    /\ \E from \in Alive : Session(from, "killed")
    /\ ended' = clock
    /\ code' = "exit137"
    /\ UNCHANGED <<began, scratch>>

(* Mutant: timeout without -k.                                             *)
DueForTerm == op = "exec" /\ shell = "running" /\ clock >= began + seconds

(* The timers of GNU timeout.                                              *)
Due ==
    \/ op = "exec" /\ shell = "running" /\ clock >= began + seconds
    \/ shell = "terminated" /\ clock >= began + seconds + 1

(* Time passes no timer that is due.                                       *)
Tick ==
    /\ wait \in {"opening", "open"} \/ (wait = "over" /\ shell \in Alive)
    /\ clock < MaxTime
    /\ ~GivesUp
    /\ ~Due
    /\ clock' = clock + 1
    /\ UNCHANGED <<vars, script, seconds, wait, upload, sessionVars, told>>

-----------------------------------------------------------------------------
Coroutine ==
    \/ Permit \/ Opened \/ Refused \/ OldProtocol \/ UploadEnds
    \/ \E c \in Channels, n \in Chunks : Frame(c, n)
    \/ StatusArrives \/ ClosesWithoutStatus \/ BackstopFires \/ Breaks

InSession ==
    \/ Accepted \/ Begins \/ Receives \/ SizeMatches \/ ReceiveFails
    \/ \E c \in ExitCodes : Exits(c)
    \/ DeadlinePasses \/ DiesOfTerm \/ DiesOfKill \/ Killed

ExecNext == Coroutine \/ InSession \/ Tick

(* A permit comes free in the end, because every call that has one ends;   *)
(* time passes; timers that are due fire.                                  *)
ExecFairness ==
    /\ WF_execVars(Permit) /\ WF_execVars(Tick) /\ WF_execVars(BackstopFires)
    /\ WF_execVars(DeadlinePasses) /\ WF_execVars(DiesOfKill)

ExecSpec == ExecInit /\ [][ExecNext]_execVars
ExecFairSpec == ExecSpec /\ ExecFairness

-----------------------------------------------------------------------------
(* exec and run_script: the service's own wait cuts a call only when the   *)
(* way to the session and back took a second (exec) or four (run_script)   *)
(* of it; a command that uses up its own deadline, and the second until    *)
(* KILL, is never the reason.                                              *)
BackstopIsLast ==
    [][ wait = "open" /\ told' = "exit124" /\ phase' = "failed" /\ began # Never =>
          LET back == IF ended = Never THEN 0 ELSE clock - ended
          IN  began + back >= (IF script THEN 4 ELSE 1) ]_execVars

(* No command of an exec or run_script outlives its deadline by more than  *)
(* the second between TERM and KILL, whatever became of the caller.        *)
CommandStops ==
    op = "exec" /\ shell \in {"running", "terminated"} => clock <= began + seconds + 1

(* Only a call that was killed in the session leaves its file in /tmp.     *)
ScratchRemoved == scratch => shell \in {"receiving", "running", "terminated", "killed"}

(* The exit code that reaches the caller of an exec over the stream is     *)
(* what its command came to, through GNU timeout and the rm of a script:   *)
(* 0 only of a command that ran, and 124 or 137 of one that ran past its   *)
(* deadline, whatever it made of the signal.  The converse, that 124 means *)
(* the deadline, is what models.py says and is false: a command may exit   *)
(* 124 by itself (see the README).                                         *)
CodeIsTheCommands ==
    op = "exec" /\ phase = "answered" =>
        /\ told = code
        /\ told = "exit0" => began # Never
        /\ began # Never /\ ended > began + seconds => told \in {"exit124", "exit137"}

(* Every call is answered, also if the connection never opens and the      *)
(* session never answers.                                                  *)
EveryCallAnswered == <>(wait = "over")

(* A read or a listing is answered 404 only if its command failed in the   *)
(* session or the call used up its wait: never for a path whose command    *)
(* succeeded, also if the output was cut.                                  *)
NoPathHasReason ==
    told = "no_path" =>
        \/ ended # Never /\ code # "exit0"
        \/ clock >= Least(FileWait, OpenWait)
=============================================================================
