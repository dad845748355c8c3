----------------------------- MODULE FileWrite -----------------------------
(***************************************************************************)
(* write_file of providers/base.py: the coroutine in the service and the   *)
(* shell script it runs in the session, for several writes to one path.    *)
(* The two live apart: dropping the exec stream does not stop the script,  *)
(* it only ends the script's stdin.                                        *)
(*                                                                         *)
(* Every write is to the same destination.  Files are inodes, because the  *)
(* script renames over the destination, opens it in place or unlinks it    *)
(* while another script may hold it open.                                  *)
(***************************************************************************)
EXTENDS Integers, FiniteSets

CONSTANTS
    Writes,      \* calls of write_file
    Encodings,   \* "utf-8", "base64"
    Old,         \* the file at the destination before the first write
    Nowhere      \* no file

ASSUME OldIsFresh == Old \notin Writes
ASSUME NowhereIsFresh == Nowhere \notin Writes \cup {Old}
ASSUME NamesAreFresh == {"old", "part", "mixed"} \cap Writes = {}
ASSUME EncodingsAreKnown == Encodings \subseteq {"utf-8", "base64"}

VARIABLES
    client,      \* client[w]: the coroutine of w
    encoding,    \* encoding[w]: the encoding asked for
    upload,      \* upload[w]: stdin of the script: "flowing", "whole", "cut"
    script,      \* script[w]: the shell script of w
    dest,        \* the inode the destination names, or Nowhere
    data,        \* data[i]: what inode i holds: the payload of a write (its
                 \* name), "old", "part" of a payload, or "mixed" payloads
    opened,      \* opened[w]: the inode `base64 -d` of w writes to
    newest,      \* history: the write whose script started last
    overlapped   \* history: writes whose script ran beside another one

callVars == <<client, encoding, upload>>
fileVars == <<dest, data, opened>>
history == <<newest, overlapped>>
vars == <<callVars, script, fileVars, history>>

Inodes == Writes \cup {Old}
Running == {"receiving", "checked", "decoding", "unlinking"}
Over == {"exit0", "exit1", "killed"}

(* Types; the caller gets an outcome, never a bare exit code.              *)
TypeOK ==
    /\ client \in [Writes -> {"idle", "sending", "ok", "assumed", "failed"}]
    /\ encoding \in [Writes -> {"utf-8", "base64"}]
    /\ upload \in [Writes -> {"flowing", "whole", "cut"}]
    /\ script \in [Writes -> {"none"} \cup Running \cup Over]
    /\ dest \in Inodes \cup {Nowhere}
    /\ data \in [Inodes -> Writes \cup {"old", "part", "mixed"}]
    /\ opened \in [Writes -> Inodes \cup {Nowhere}]
    /\ newest \in Writes \cup {Nowhere}
    /\ overlapped \in SUBSET Writes

Init ==
    /\ client = [w \in Writes |-> "idle"]
    /\ encoding = [w \in Writes |-> "utf-8"]
    /\ upload = [w \in Writes |-> "flowing"]
    /\ script = [w \in Writes |-> "none"]
    /\ dest \in {Old, Nowhere}
    /\ data = [i \in Inodes |-> "old"]
    /\ opened = [w \in Writes |-> Nowhere]
    /\ newest = Nowhere
    /\ overlapped = {}

(* What the bytes that reached the script amount to.                       *)
Received(w) == IF upload[w] = "whole" THEN w ELSE "part"

Scripts == {w \in Writes : script[w] \in Running}
Goes(w, from, to) == script[w] = from /\ script' = [script EXCEPT ![w] = to]

-----------------------------------------------------------------------------
(* The coroutine                                                           *)

Call(w, enc) ==
    /\ client[w] = "idle"
    /\ client' = [client EXCEPT ![w] = "sending"]
    /\ encoding' = [encoding EXCEPT ![w] = enc]
    /\ UNCHANGED <<upload, script, fileVars, history>>

(* All of stdin and its end of file were sent.                             *)
UploadEnds(w) ==
    /\ client[w] = "sending"
    /\ upload[w] = "flowing"
    /\ upload' = [upload EXCEPT ![w] = "whole"]
    /\ UNCHANGED <<client, encoding, script, fileVars, history>>

(* Mutant: the exit code is handed on instead of being made an error.      *)
AnsweredRaw(w) ==
    /\ client[w] = "sending"
    /\ script[w] \in Over
    /\ client' = [client EXCEPT ![w] = script[w]]
    /\ UNCHANGED <<encoding, upload, script, fileVars, history>>

(* The exit code of the script arrives.                                    *)
Answered(w) ==
    /\ client[w] = "sending"
    /\ script[w] \in Over
    /\ client' = [client EXCEPT ![w] = IF script[w] = "exit0" THEN "ok" ELSE "failed"]
    /\ UNCHANGED <<encoding, upload, script, fileVars, history>>

(* The exec stream closed without a status: _exit_code_from_status says 0. *)
AnsweredWithoutStatus(w) ==
    /\ client[w] = "sending"
    /\ client' = [client EXCEPT ![w] = "assumed"]
    /\ upload' = [upload EXCEPT ![w] = IF @ = "flowing" THEN "cut" ELSE @]
    /\ UNCHANGED <<encoding, script, fileVars, history>>

(* The 60 s backstop, a broken connection, or a client that went away.     *)
GivesUp(w) ==
    /\ client[w] = "sending"
    /\ client' = [client EXCEPT ![w] = "failed"]
    /\ upload' = [upload EXCEPT ![w] = IF @ = "flowing" THEN "cut" ELSE @]
    /\ UNCHANGED <<encoding, script, fileVars, history>>

-----------------------------------------------------------------------------
(* The script: mkdir -p parent && cat > tmp && size check && finish;       *)
(* rc=$?; rm -f tmp; exit $rc.  tmp is private to the call.                *)

Starts(w) ==
    /\ client[w] # "idle"
    /\ Goes(w, "none", "receiving")
    /\ newest' = w
    /\ overlapped' = IF Scripts = {} THEN overlapped ELSE overlapped \cup Scripts \cup {w}
    /\ UNCHANGED <<callVars, fileVars>>

(* Mutant: no size check.                                                  *)
ChecksNothing(w) ==
    /\ Goes(w, "receiving", "checked")
    /\ upload[w] \in {"whole", "cut"}
    /\ UNCHANGED <<callVars, fileVars, history>>

(* stdin ended and tmp has as many bytes as the payload.                   *)
SizeMatches(w) ==
    /\ Goes(w, "receiving", "checked")
    /\ upload[w] = "whole"
    /\ UNCHANGED <<callVars, fileVars, history>>

(* stdin was cut, or mkdir or cat failed: of `A && B && base64 -d || C`    *)
(* the C part runs, of `A && B && mv` nothing more does.                   *)
ReceiveFails(w) ==
    /\ Goes(w, "receiving", IF encoding[w] = "base64" THEN "unlinking" ELSE "exit1")
    /\ UNCHANGED <<callVars, fileVars, history>>

(* Mutant: `cat tmp > dest` instead of the rename.                         *)
CopiesOver(w) ==
    /\ encoding[w] = "utf-8"
    /\ dest' = IF dest = Nowhere THEN w ELSE dest
    /\ \/ /\ script[w] = "checked" /\ UNCHANGED script
          /\ data' = [data EXCEPT ![dest'] = "part"]
       \/ /\ Goes(w, "checked", "exit0")
          /\ data' = [data EXCEPT ![dest'] = Received(w)]
    /\ UNCHANGED <<callVars, opened, history>>

(* mv -f tmp dest: a rename.                                               *)
Renames(w) ==
    /\ encoding[w] = "utf-8"
    /\ Goes(w, "checked", "exit0")
    /\ dest' = w
    /\ data' = [data EXCEPT ![w] = Received(w)]
    /\ UNCHANGED <<callVars, opened, history>>

RenameFails(w) ==
    /\ encoding[w] = "utf-8"
    /\ Goes(w, "checked", "exit1")
    /\ UNCHANGED <<callVars, fileVars, history>>

(* `> dest` creates the file or truncates the one that is there.           *)
DecodeOpens(w) ==
    /\ encoding[w] = "base64"
    /\ Goes(w, "checked", "decoding")
    /\ dest' = IF dest = Nowhere THEN w ELSE dest
    /\ opened' = [opened EXCEPT ![w] = dest']
    /\ data' = [data EXCEPT ![dest'] = "part"]
    /\ UNCHANGED <<callVars, history>>

(* The bytes of a decode that shares its inode with another one land among *)
(* the other's.                                                            *)
Decodes(w) ==
    /\ Goes(w, "decoding", "exit0")
    /\ \E d \in {Received(w)} \cup IF w \in overlapped THEN {"mixed"} ELSE {} :
          data' = [data EXCEPT ![opened[w]] = d]
    /\ UNCHANGED <<callVars, dest, opened, history>>

(* Not base64, no space left, or `> dest` itself failed.                   *)
DecodeFails(w) ==
    /\ encoding[w] = "base64"
    /\ script[w] \in {"checked", "decoding"}
    /\ script' = [script EXCEPT ![w] = "unlinking"]
    /\ UNCHANGED <<callVars, fileVars, history>>

(* Mutant: `|| rm -f dest` without `false`, so that rc is that of rm.      *)
UnlinksCleanly(w) ==
    /\ Goes(w, "unlinking", "exit0")
    /\ dest' = Nowhere
    /\ UNCHANGED <<callVars, data, opened, history>>

(* { rm -f dest; false; }                                                  *)
Unlinks(w) ==
    /\ Goes(w, "unlinking", "exit1")
    /\ dest' = Nowhere
    /\ UNCHANGED <<callVars, data, opened, history>>

(* The kernel or another process of the session kills the shell.  A child  *)
(* that finishes its step after its shell was killed is GivesUp followed   *)
(* by that step: the caller is told the same and the file is the same.     *)
Killed(w) ==
    /\ script[w] \in Running
    /\ script' = [script EXCEPT ![w] = "killed"]
    /\ UNCHANGED <<callVars, fileVars, history>>

-----------------------------------------------------------------------------
Coroutine(w) ==
    \/ \E enc \in Encodings : Call(w, enc)
    \/ UploadEnds(w) \/ Answered(w) \/ AnsweredWithoutStatus(w) \/ GivesUp(w)

Script(w) ==
    \/ Starts(w) \/ SizeMatches(w) \/ ReceiveFails(w)
    \/ Renames(w) \/ RenameFails(w)
    \/ DecodeOpens(w) \/ Decodes(w) \/ DecodeFails(w) \/ Unlinks(w)
    \/ Killed(w)

Next == \E w \in Writes : Coroutine(w) \/ Script(w)

Spec == Init /\ [][Next]_vars

-----------------------------------------------------------------------------
(* What a reader of the destination sees.                                  *)
View == IF dest = Nowhere THEN "absent" ELSE data[dest]

(* A write that was answered with success and ran beside no other one is   *)
(* what the destination holds, until the script of another write starts.   *)
LastWriteStands ==
    \A w \in Writes :
        client[w] = "ok" /\ newest = w /\ w \notin overlapped => View = w

(* A reader sees part of a payload only while a binary write decodes, or   *)
(* after it was killed there: never because of a text write, however its   *)
(* upload was cut and whatever ran beside it.                              *)
PartOnlyWhileDecoding ==
    View = "part" =>
        \E w \in Writes :
            /\ encoding[w] = "base64"
            /\ script[w] \in {"decoding", "unlinking", "killed"}
            /\ opened[w] = dest

(* What write_file's comment promises with its size check: a script whose  *)
(* upload was cut leaves the destination as it was.  A binary write breaks *)
(* this (see the README).                                                  *)
CutIsHarmless ==
    \A w \in Writes :
        script'[w] # script[w] /\ upload[w] = "cut" => View' = View

CutUploadsTouchNothing == [][CutIsHarmless]_vars

(* What does hold: such a script leaves the destination as it was, or is   *)
(* that of a binary write and removes the file.  No part of a cut payload  *)
(* gets past the size check, whatever ran beside it.                       *)
CutUnlinksAtMost ==
    \A w \in Writes :
        script'[w] # script[w] /\ upload[w] = "cut" =>
            View' = View \/ (encoding[w] = "base64" /\ View' = "absent")

CutOnlyUnlinks == [][CutUnlinksAtMost]_vars

(* How far a write is, whatever its coroutine was told.                    *)
Stage(w) ==
    IF client[w] = "idle" THEN "idle"
    ELSE IF script[w] = "exit0" THEN "landed"
    ELSE IF script[w] \in {"exit1", "killed"} THEN "failed"
    ELSE "pending"

(* What the caller was told, every 200 among it.                           *)
Told(w) == IF client[w] \in {"idle", "sending"} THEN "none" ELSE client[w]

(* The coroutines, scripts and inodes keep the contract: text writes are   *)
(* atomic and land at most once, only a write that was called and is not   *)
(* over changes the file, and a success is answered on an exit code only   *)
(* if the write landed.                                                    *)
Contract ==
    INSTANCE FileContract WITH
        file <- View,
        stage <- [w \in Writes |-> Stage(w)],
        answer <- [w \in Writes |-> Told(w)]

ImplementsContract == Contract!Spec
=============================================================================
