----------------------------- MODULE ExecOutput -----------------------------
(***************************************************************************)
(* How output reaches the caller: the bytes a command writes arrive in     *)
(* chunks (pump of run_cli, frames of _stream), are kept up to one byte    *)
(* past the cap, and are cut again by cap_output, or by read_file, which   *)
(* asked `head -c` for one byte past its own limit.                        *)
(*                                                                         *)
(* Only lengths are modelled.  One operation is followed: an exec, a read  *)
(* of a file of `size` bytes, or a listing of a directory of `entries`,    *)
(* of which the snippet prints the first ones as JSON of `size` bytes.     *)
(***************************************************************************)
EXTENDS Integers

CONSTANTS
    Cap,           \* max_output_bytes
    Sizes,         \* lengths of files and of the JSON of listings
    Directories,   \* numbers of entries of directories
    MaxEntries,    \* LIST_MAX_ENTRIES
    Limits,        \* max_bytes a reader may ask for (ge=1 in app.py)
    Chunks,        \* lengths of chunks
    MaxSent        \* bound: bytes a command writes to one stream

ASSUME CapIsNat == Cap \in Nat
ASSUME LengthsAreNats ==
    Sizes \cup Directories \cup Limits \cup Chunks \cup {MaxEntries, MaxSent} \subseteq Nat

VARIABLES
    op,       \* "exec", "read" or "list"
    size,     \* length of the file to read, or of the JSON printed
    entries,  \* entries of the directory to list
    wanted,   \* max_bytes of the read
    sent,     \* sent[c]: bytes the command wrote to channel c
    buf,      \* buf[c]: bytes of them kept
    phase,    \* "streaming", "answered", "failed", or "assumed": answered
              \* although the stream ended without an exit code
    answer    \* what the caller gets: kept[c] bytes of c, or kept["out"]
              \* entries of a listing, and the truncated flag

vars == <<op, size, entries, wanted, sent, buf, phase, answer>>

Channels == {"out", "err"}
Least(a, b) == IF a <= b THEN a ELSE b

(* min(max_bytes, self.max_output_bytes)                                   *)
ReadLimit == Least(wanted, Cap)

(* What `head -c limit+1` writes when it reads all it was asked for.       *)
HeadLength == Least(size, ReadLimit + 1)

(* Mutant: islice(scandir, n): whether there is more is never seen.        *)
TakenToLimit == Least(entries, MaxEntries)

(* list(islice(scandir, n+1)) of the snippet.                              *)
Taken == Least(entries, MaxEntries + 1)

(* What a read or a listing writes to stdout before it ends by itself.     *)
Length == IF op = "read" THEN HeadLength ELSE size

NoAnswer == [kept |-> [c \in Channels |-> 0], truncated |-> FALSE]

(* Types; the buffers of pump and _stream stay one byte past the cap.      *)
TypeOK ==
    /\ op \in {"exec", "read", "list"}
    /\ size \in Nat
    /\ entries \in Nat
    /\ wanted \in Nat
    /\ sent \in [Channels -> Nat]
    /\ buf \in [Channels -> 0..(Cap + 1)]
    /\ phase \in {"streaming", "answered", "assumed", "failed"}
    /\ answer \in [kept : [Channels -> Nat], truncated : BOOLEAN]

Init ==
    /\ op \in {"exec", "read", "list"}
    /\ size \in Sizes
    /\ entries \in Directories
    /\ op = "list" => size > 0
    /\ op # "list" => entries = 0
    /\ wanted \in Limits
    /\ sent = [c \in Channels |-> 0]
    /\ buf = [c \in Channels |-> 0]
    /\ phase = "streaming"
    /\ answer = NoAnswer

(* Mutant: the stream is capped at the cap itself.                         *)
KeptAtCap(have, n) == have + Least(n, IF Cap > have THEN Cap - have ELSE 0)

(* Mutant: the cap is checked between chunks only.                         *)
KeptWhole(have, n) == IF have < Cap + 1 THEN have + n ELSE have

(* room = limit - len(buf); if room > 0: buf += chunk[:room]               *)
Kept(have, n) == have + Least(n, IF Cap + 1 > have THEN Cap + 1 - have ELSE 0)

Receive(c, n) ==
    /\ phase = "streaming"
    /\ sent[c] + n <= MaxSent
    /\ (op # "exec" /\ c = "out") => sent[c] + n <= Length
    /\ sent' = [sent EXCEPT ![c] = @ + n]
    /\ buf' = [buf EXCEPT ![c] = Kept(@, n)]
    /\ UNCHANGED <<op, size, entries, wanted, phase, answer>>

Answer(how, kept, truncated) ==
    /\ phase = "streaming"
    /\ phase' = how
    /\ answer' = [kept |-> kept, truncated |-> truncated]
    /\ UNCHANGED <<op, size, entries, wanted, sent, buf>>

(* Only a stream that brought the exit code 0 brought all there was.       *)
Complete(how) == how = "answered" => sent["out"] = Length

OnlyOut(n) == [c \in Channels |-> IF c = "out" THEN n ELSE 0]

(* _result: cap_output of both streams.                                    *)
ExecEnds(how) ==
    /\ op = "exec"
    /\ Answer(how, [c \in Channels |-> Least(buf[c], Cap)],
              \E c \in Channels : buf[c] > Cap)

(* Mutant: the cut is noticed at the cap of the service only.              *)
ReadEndsByCap(how) ==
    /\ op = "read"
    /\ Complete(how)
    /\ Answer(how, OnlyOut(Least(buf["out"], ReadLimit)), buf["out"] > Cap)

(* read_file, exit code 0: cut at its own limit.                           *)
ReadEnds(how) ==
    /\ op = "read"
    /\ Complete(how)
    /\ Answer(how, OnlyOut(Least(buf["out"], ReadLimit)), buf["out"] > ReadLimit)

(* Mutant: a cut listing is taken for an empty one.                        *)
ParsesAnything == TRUE

(* json.loads(out or an empty listing) accepts a whole listing or nothing. *)
Parses == buf["out"] \in {0, size}

(* The entries that were taken, as far as the parsed output tells of them. *)
Listed == IF buf["out"] = size THEN Taken ELSE 0

(* list_files, exit code 0 and output that parses: the snippet printed the *)
(* first n of the entries it took and whether there was one more.          *)
ListEnds(how) ==
    /\ op = "list"
    /\ Complete(how)
    /\ Parses
    /\ Answer(how, OnlyOut(Least(Listed, MaxEntries)), Listed > MaxEntries)

(* The backstop fired, the transport broke, a read had rc # 0, or the JSON *)
(* was cut: what was received is thrown away.                              *)
Fails ==
    /\ phase = "streaming"
    /\ phase' = "failed"
    /\ UNCHANGED <<op, size, entries, wanted, sent, buf, answer>>

Next ==
    \/ \E c \in Channels, n \in Chunks : Receive(c, n)
    \/ \E how \in {"answered", "assumed"} : ExecEnds(how) \/ ReadEnds(how) \/ ListEnds(how)
    \/ Fails

Spec == Init /\ [][Next]_vars

-----------------------------------------------------------------------------
(* An exec is answered with as much of each stream as the cap allows and   *)
(* is marked truncated exactly when a byte the command wrote is missing,   *)
(* however the output was cut into chunks.                                 *)
ExecIsTruthful ==
    op = "exec" /\ phase = "answered" =>
        /\ \A c \in Channels : answer.kept[c] = Least(sent[c], Cap)
        /\ answer.truncated <=> \E c \in Channels : answer.kept[c] < sent[c]

(* A read is answered with as much of the file as both limits allow and is *)
(* marked truncated exactly when the file has more, although head, the     *)
(* stream and read_file each cut it at a limit of their own.               *)
ReadIsTruthful ==
    op = "read" /\ phase = "answered" =>
        /\ answer.kept["out"] = Least(size, ReadLimit)
        /\ answer.truncated <=> answer.kept["out"] < size

(* A listing is answered with as many entries as the limit allows and is  *)
(* marked truncated exactly when the directory has more, although the      *)
(* stream is cut at a length that knows nothing of entries: a cut never    *)
(* passes for a short or an empty directory.                               *)
ListIsTruthful ==
    op = "list" /\ phase = "answered" =>
        /\ answer.kept["out"] = Least(entries, MaxEntries)
        /\ answer.truncated <=> answer.kept["out"] < entries

(* The buffers hold what arrived, up to one byte past the cap.             *)
BufferExact == \A c \in Channels : buf[c] = Least(sent[c], Cap + 1)

(* The inductive invariant.                                                *)
IInv == TypeOK /\ BufferExact /\ ExecIsTruthful /\ ReadIsTruthful /\ ListIsTruthful
=============================================================================
