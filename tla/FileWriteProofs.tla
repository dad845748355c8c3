-------------------------- MODULE FileWriteProofs --------------------------
(***************************************************************************)
(* The safety properties of FileWrite for any number of writes.            *)
(*                                                                         *)
(* The heart is Standing: the write whose script started last and met no   *)
(* other one has the destination for itself until the next script starts.  *)
(***************************************************************************)
EXTENDS FileWrite, TLAPS

USE OldIsFresh, NowhereIsFresh, NamesAreFresh, EncodingsAreKnown

(* What the coroutine, the upload and the script of a write know of each   *)
(* other.                                                                  *)
Fits(w) ==
    /\ client[w] = "idle" => script[w] = "none"
    /\ client[w] = "ok" => script[w] = "exit0"
    /\ script[w] \in {"checked", "decoding"} => upload[w] = "whole"
    /\ script[w] = "decoding" => opened[w] \in Inodes

Standing ==
    \A w \in Writes :
        newest = w /\ w \notin overlapped =>
            /\ \A x \in Writes \ {w} : script[x] \notin Running
            /\ script[w] = "decoding" => opened[w] = dest
            /\ script[w] = "exit0" => dest \in Inodes /\ data[dest] = w

(* The inductive invariant.                                                *)
IInv ==
    /\ TypeOK
    /\ PartOnlyWhileDecoding
    /\ Standing
    /\ \A w \in Writes : Fits(w)

-----------------------------------------------------------------------------
(* The invariant holds at the start.                                       *)
LEMMA Initially == Init => IInv
<1> SUFFICES ASSUME Init PROVE IInv
  OBVIOUS
<1>1. TypeOK /\ \A w \in Writes : Fits(w)
  BY DEF Init, TypeOK, Fits, Inodes, Running, Over
<1>2. View # "part"
  BY DEF Init, View, Inodes
<1>3. Standing
  BY DEF Init, Standing
<1> QED
  BY <1>1, <1>2, <1>3 DEF IInv, PartOnlyWhileDecoding

(* The coroutine touches no file and no script.                            *)
LEMMA CoroutineStep ==
    ASSUME IInv, NEW w \in Writes, Coroutine(w)
    PROVE  IInv'
<1>1. UNCHANGED <<script, fileVars, history>>
  BY DEF Coroutine, Call, UploadEnds, Answered, AnsweredWithoutStatus, GivesUp
<1>2. TypeOK'
  BY <1>1 DEF Coroutine, Call, UploadEnds, Answered, AnsweredWithoutStatus, GivesUp, IInv, TypeOK,
              Over, fileVars, history
<1>3. \A x \in Writes : Fits(x)'
  <2>1. CASE \E enc \in Encodings : Call(w, enc)
    BY <1>1, <2>1 DEF Call, IInv, TypeOK, Fits, fileVars
  <2>2. CASE UploadEnds(w)
    BY <1>1, <2>2 DEF UploadEnds, IInv, TypeOK, Fits, fileVars
  <2>3. CASE Answered(w)
    BY <1>1, <2>3 DEF Answered, Over, IInv, TypeOK, Fits, fileVars
  <2>4. CASE AnsweredWithoutStatus(w) \/ GivesUp(w)
    BY <1>1, <2>4 DEF AnsweredWithoutStatus, GivesUp, IInv, TypeOK, Fits, fileVars
  <2> QED
    BY <2>1, <2>2, <2>3, <2>4 DEF Coroutine
<1>4. Standing'
  BY <1>1 DEF IInv, Standing, Running, fileVars, history
<1>5. PartOnlyWhileDecoding'
  <2>1. \A x \in Writes : script[x] # "none" => encoding'[x] = encoding[x]
    BY DEF Coroutine, Call, UploadEnds, Answered, AnsweredWithoutStatus, GivesUp, IInv, TypeOK, Fits
  <2> QED
    BY <1>1, <2>1 DEF IInv, PartOnlyWhileDecoding, View, fileVars
<1> QED
  BY <1>2, <1>3, <1>4, <1>5 DEF IInv

-----------------------------------------------------------------------------

(* Once a script moves, every write that stands is its own, or it starts.  *)
LEMMA MoverStands ==
    ASSUME IInv, NEW w \in Writes, script[w] \in Running, UNCHANGED history
    PROVE  \A x \in Writes : newest' = x /\ x \notin overlapped' => x = w
BY DEF IInv, Standing, history

(* The first step of a script.                                             *)
LEMMA StartsStep ==
    ASSUME IInv, NEW w \in Writes, Starts(w)
    PROVE  IInv'
<1>1. /\ script[w] = "none" /\ script' = [script EXCEPT ![w] = "receiving"] /\ newest' = w
      /\ UNCHANGED <<callVars, fileVars>> /\ client[w] # "idle"
      /\ overlapped' = IF Scripts = {} THEN overlapped ELSE overlapped \cup Scripts \cup {w}
  BY DEF Starts, Goes
<1>2. TypeOK'
  BY <1>1 DEF IInv, TypeOK, Running, Scripts, callVars, fileVars
<1>3. \A x \in Writes : Fits(x)'
  BY <1>1 DEF IInv, TypeOK, Fits, callVars, fileVars
<1>4. Standing'
  <2>1. w \notin overlapped' => \A x \in Writes : script[x] \notin Running
    BY <1>1 DEF Scripts
  <2> QED
    BY <1>1, <2>1 DEF IInv, TypeOK, Standing
<1>5. PartOnlyWhileDecoding'
  BY <1>1 DEF IInv, TypeOK, PartOnlyWhileDecoding, View, callVars, fileVars
<1> QED
  BY <1>2, <1>3, <1>4, <1>5 DEF IInv

(* A step that touches no file.                                            *)
LEMMA FilelessStep ==
    ASSUME IInv, NEW w \in Writes,
           SizeMatches(w) \/ ReceiveFails(w) \/ RenameFails(w) \/ DecodeFails(w) \/ Killed(w)
    PROVE  IInv'
<1>1. /\ UNCHANGED <<callVars, fileVars, history>> /\ script[w] \in Running
      /\ \E to \in {"checked", "unlinking", "exit1", "killed"} :
            /\ script' = [script EXCEPT ![w] = to]
            /\ to = "checked" => upload[w] = "whole"
            /\ script[w] \in {"decoding", "unlinking"} => to \in {"unlinking", "killed"}
  BY DEF SizeMatches, ReceiveFails, RenameFails, DecodeFails, Killed, Goes, Running
<1>2. TypeOK'
  BY <1>1 DEF IInv, TypeOK, Running, Over, callVars, fileVars, history
<1>3. \A x \in Writes : Fits(x)'
  BY <1>1 DEF IInv, TypeOK, Fits, Running, callVars, fileVars
<1>4. Standing'
  BY <1>1, MoverStands DEF IInv, TypeOK, Standing, Running, fileVars, history
<1>5. PartOnlyWhileDecoding'
  BY <1>1 DEF IInv, TypeOK, PartOnlyWhileDecoding, View, Running, callVars, fileVars
<1> QED
  BY <1>2, <1>3, <1>4, <1>5 DEF IInv

(* The rename puts a whole payload at the destination.                     *)
LEMMA RenamesStep ==
    ASSUME IInv, NEW w \in Writes, Renames(w)
    PROVE  IInv'
<1>1. /\ script[w] = "checked" /\ script' = [script EXCEPT ![w] = "exit0"]
      /\ dest' = w /\ data' = [data EXCEPT ![w] = w] /\ opened' = opened
      /\ UNCHANGED <<callVars, history>>
  BY DEF Renames, Goes, Received, IInv, Fits
<1>2. TypeOK'
  BY <1>1 DEF IInv, TypeOK, Over, Inodes, callVars, history
<1>3. \A x \in Writes : Fits(x)'
  BY <1>1 DEF IInv, TypeOK, Fits, callVars
<1>4. dest' \in Inodes /\ data'[dest'] = w
  BY <1>1 DEF IInv, TypeOK, Inodes
<1>5. Standing'
  BY <1>1, <1>4, MoverStands DEF IInv, TypeOK, Standing, Running, history
<1>6. PartOnlyWhileDecoding'
  BY <1>4 DEF PartOnlyWhileDecoding, View, Inodes
<1> QED
  BY <1>2, <1>3, <1>5, <1>6 DEF IInv

(* `> dest` makes the destination a part, with the decode for witness.     *)
LEMMA DecodeOpensStep ==
    ASSUME IInv, NEW w \in Writes, DecodeOpens(w)
    PROVE  IInv'
<1>1. /\ encoding[w] = "base64" /\ script[w] = "checked" /\ script' = [script EXCEPT ![w] = "decoding"]
      /\ dest' \in Inodes /\ data' = [data EXCEPT ![dest'] = "part"]
      /\ opened' = [opened EXCEPT ![w] = dest'] /\ upload[w] = "whole"
      /\ UNCHANGED <<callVars, history>>
  BY DEF DecodeOpens, Goes, IInv, TypeOK, Fits, Inodes
<1>2. TypeOK'
  BY <1>1 DEF IInv, TypeOK, Running, callVars, history
<1>3. \A x \in Writes : Fits(x)'
  BY <1>1 DEF IInv, TypeOK, Fits, callVars
<1>4. Standing'
  BY <1>1, MoverStands DEF IInv, TypeOK, Standing, Running, history
<1>5. encoding'[w] = "base64" /\ script'[w] = "decoding" /\ opened'[w] = dest'
  BY <1>1 DEF IInv, TypeOK, callVars
<1>6. PartOnlyWhileDecoding'
  BY <1>5 DEF PartOnlyWhileDecoding
<1> QED
  BY <1>2, <1>3, <1>4, <1>6 DEF IInv

(* The decode ends: the inode it wrote is no part any longer.              *)
LEMMA DecodesStep ==
    ASSUME IInv, NEW w \in Writes, Decodes(w)
    PROVE  IInv'
<1>1. PICK d \in {w} \cup IF w \in overlapped THEN {"mixed"} ELSE {} :
         data' = [data EXCEPT ![opened[w]] = d]
  BY DEF Decodes, Goes, Received, IInv, Fits
<1>2. /\ script[w] = "decoding" /\ script' = [script EXCEPT ![w] = "exit0"]
      /\ opened[w] \in Inodes /\ dest' = dest /\ opened' = opened
      /\ UNCHANGED <<callVars, history>>
  BY DEF Decodes, Goes, IInv, Fits
<1>3. d \in Writes \cup {"mixed"} /\ d # "part"
  BY <1>1
<1>4. TypeOK'
  BY <1>1, <1>2, <1>3 DEF IInv, TypeOK, Over, callVars, history
<1>5. \A x \in Writes : Fits(x)'
  BY <1>2 DEF IInv, TypeOK, Fits, callVars
<1>6. Standing'
  <2>1. ASSUME newest = w, w \notin overlapped
        PROVE  dest \in Inodes /\ data'[dest] = w
    BY <1>1, <1>2, <2>1 DEF IInv, TypeOK, Standing
  <2> QED
    BY <1>2, <2>1, MoverStands DEF IInv, TypeOK, Standing, Running, history
<1>7. PartOnlyWhileDecoding'
  <2>1. CASE opened[w] = dest
    <3>1. View' # "part"
      BY <1>1, <1>2, <1>3, <2>1 DEF IInv, TypeOK, View, Inodes
    <3> QED
      BY <3>1 DEF PartOnlyWhileDecoding
  <2>2. CASE opened[w] # dest
    <3>1. View' = View
      BY <1>1, <1>2, <2>2 DEF IInv, TypeOK, View
    <3> QED
      BY <1>2, <2>2, <3>1 DEF IInv, TypeOK, PartOnlyWhileDecoding, callVars
  <2> QED
    BY <2>1, <2>2
<1> QED
  BY <1>4, <1>5, <1>6, <1>7 DEF IInv

(* rm -f dest: nothing is there to be read.                                *)
LEMMA UnlinksStep ==
    ASSUME IInv, NEW w \in Writes, Unlinks(w)
    PROVE  IInv'
<1>1. /\ script[w] = "unlinking" /\ script' = [script EXCEPT ![w] = "exit1"]
      /\ dest' = Nowhere /\ UNCHANGED <<callVars, data, opened, history>>
  BY DEF Unlinks, Goes
<1>2. TypeOK'
  BY <1>1 DEF IInv, TypeOK, Over, callVars, history
<1>3. \A x \in Writes : Fits(x)'
  BY <1>1 DEF IInv, TypeOK, Fits, callVars
<1>4. Standing'
  BY <1>1, MoverStands DEF IInv, TypeOK, Standing, Running, history
<1>5. PartOnlyWhileDecoding'
  BY <1>1 DEF PartOnlyWhileDecoding, View
<1> QED
  BY <1>2, <1>3, <1>4, <1>5 DEF IInv

-----------------------------------------------------------------------------
(* The invariant is inductive.                                             *)
THEOREM Invariance == Spec => []IInv
<1>1. IInv /\ [Next]_vars => IInv'
  <2> SUFFICES ASSUME IInv, [Next]_vars PROVE IInv'
    OBVIOUS
  <2>1. ASSUME NEW w \in Writes, Coroutine(w) PROVE IInv'
    BY <2>1, CoroutineStep
  <2>2. ASSUME NEW w \in Writes, Script(w) PROVE IInv'
    BY <2>2, StartsStep, FilelessStep, RenamesStep, DecodeOpensStep, DecodesStep, UnlinksStep DEF Script
  <2>3. CASE UNCHANGED vars
    BY <2>3 DEF vars, callVars, fileVars, history, IInv, TypeOK, PartOnlyWhileDecoding, View,
                Standing, Fits
  <2> QED
    BY <2>1, <2>2, <2>3 DEF Next
<1> QED
  BY Initially, <1>1, PTL DEF Spec

(* Type correctness.                                                       *)
THEOREM Typing == Spec => []TypeOK
<1>1. IInv => TypeOK
  BY DEF IInv
<1> QED
  BY <1>1, Invariance, PTL

(* An acknowledged write that ran beside no other stands until the next    *)
(* script starts.                                                          *)
THEOREM AcknowledgedWritesStand == Spec => []LastWriteStands
<1>1. IInv => LastWriteStands
  BY DEF IInv, Standing, Fits, LastWriteStands, View, Inodes
<1> QED
  BY <1>1, Invariance, PTL

(* Part of a payload is visible only because of a binary write.            *)
THEOREM PartsAreDecodes == Spec => []PartOnlyWhileDecoding
<1>1. IInv => PartOnlyWhileDecoding
  BY DEF IInv
<1> QED
  BY <1>1, Invariance, PTL

-----------------------------------------------------------------------------
(* What a write may do to the file, step by step.                          *)

(* Only a binary write opens the destination in place, or unlinks it.      *)
OnlyBinaryDecodes ==
    \A w \in Writes : script[w] \in {"decoding", "unlinking"} => encoding[w] = "base64"

(* The encoding of a write does not change once its script runs.           *)
LEMMA DecodersAreBinary == Spec => []OnlyBinaryDecodes
<1>1. Init => OnlyBinaryDecodes
  BY DEF Init, OnlyBinaryDecodes
<1>2. IInv /\ OnlyBinaryDecodes /\ [Next]_vars => OnlyBinaryDecodes'
  <2> SUFFICES ASSUME IInv, OnlyBinaryDecodes, [Next]_vars PROVE OnlyBinaryDecodes'
    OBVIOUS
  <2>1. ASSUME NEW w \in Writes, Coroutine(w) PROVE OnlyBinaryDecodes'
    <3>1. script' = script /\ \A x \in Writes : script[x] # "none" => encoding'[x] = encoding[x]
      BY <2>1 DEF Coroutine, Call, UploadEnds, Answered, AnsweredWithoutStatus, GivesUp, IInv, TypeOK, Fits
    <3> QED
      BY <3>1 DEF OnlyBinaryDecodes
  <2>2. ASSUME NEW w \in Writes, Script(w) PROVE OnlyBinaryDecodes'
    <3>1. encoding' = encoding
      BY <2>2 DEF Script, Starts, SizeMatches, ReceiveFails, Renames, RenameFails, DecodeOpens, Decodes,
                  DecodeFails, Unlinks, Killed, callVars
    <3>2. \A x \in Writes : script'[x] \in {"decoding", "unlinking"} =>
                        script[x] \in {"decoding", "unlinking"} \/ encoding[x] = "base64"
      BY <2>2 DEF Script, Starts, SizeMatches, ReceiveFails, Renames, RenameFails, DecodeOpens, Decodes,
                  DecodeFails, Unlinks, Killed, Goes, IInv, TypeOK
    <3> QED
      BY <3>1, <3>2 DEF OnlyBinaryDecodes
  <2>3. CASE UNCHANGED vars
    BY <2>3 DEF vars, callVars, OnlyBinaryDecodes
  <2> QED
    BY <2>1, <2>2, <2>3 DEF Next
<1> QED
  BY <1>1, <1>2, Invariance, PTL DEF Spec

(* The effect of each step of a script on what a reader sees.              *)
LEMMA ScriptEffect ==
    ASSUME IInv, OnlyBinaryDecodes, NEW w \in Writes, Script(w)
    PROVE  /\ UNCHANGED callVars
           /\ \E to \in Running \cup Over :
                 /\ script' = [script EXCEPT ![w] = to]
                 /\ to \in Running => script[w] \in Running \/ client[w] # "idle"
           /\ script[w] \notin Over
           /\ \/ View' = View /\ (script'[w] = "exit0" => encoding[w] = "base64")
              \/ View' = w /\ script'[w] = "exit0" /\ upload[w] = "whole"
              \/ /\ encoding[w] = "base64"
                 /\ \/ View' = "mixed" /\ script'[w] = "exit0" /\ upload[w] = "whole"
                    \/ View' = "part" /\ script'[w] = "decoding" /\ upload[w] = "whole"
                    \/ View' = "absent" /\ script'[w] = "exit1"
<1>1. CASE Starts(w)
  BY <1>1 DEF Starts, Goes, Running, Over, View, fileVars, IInv, TypeOK
<1>2. CASE SizeMatches(w) \/ ReceiveFails(w) \/ RenameFails(w) \/ DecodeFails(w) \/ Killed(w)
  BY <1>2 DEF SizeMatches, ReceiveFails, RenameFails, DecodeFails, Killed, Goes, Running, Over, View,
              fileVars, IInv, TypeOK
<1>3. CASE Renames(w)
  BY <1>3 DEF Renames, Goes, Received, Running, Over, View, Inodes, IInv, TypeOK, Fits
<1>4. CASE DecodeOpens(w)
  <2>1. dest' \in Inodes /\ data' = [data EXCEPT ![dest'] = "part"]
    BY <1>4 DEF DecodeOpens, IInv, TypeOK, Inodes
  <2>2. View' = "part"
    BY <2>1 DEF View, IInv, TypeOK, Inodes
  <2> QED
    BY <1>4, <2>2 DEF DecodeOpens, Goes, Running, Over, IInv, TypeOK, Fits
<1>5. CASE Decodes(w)
  <2>1. PICK d \in {w, "mixed"} : data' = [data EXCEPT ![opened[w]] = d]
    BY <1>5 DEF Decodes, Goes, Received, IInv, Fits
  <2>2. View' \in {View, w, "mixed"}
    BY <1>5, <2>1 DEF Decodes, View, IInv, TypeOK
  <2>3. encoding[w] = "base64" /\ upload[w] = "whole"
    BY <1>5 DEF Decodes, Goes, OnlyBinaryDecodes, IInv, Fits
  <2> QED
    BY <1>5, <2>2, <2>3 DEF Decodes, Goes, Running, Over, IInv, TypeOK
<1>6. CASE Unlinks(w)
  BY <1>6 DEF Unlinks, Goes, Running, Over, View, OnlyBinaryDecodes, IInv, TypeOK
<1> QED
  BY <1>1, <1>2, <1>3, <1>4, <1>5, <1>6 DEF Script

-----------------------------------------------------------------------------
(* A script whose upload was cut leaves what a reader of the destination   *)
(* sees, or is that of a binary write and removes the file: no part of a   *)
(* cut payload gets past the size check of write_file.                     *)
THEOREM CutUploadsOnlyUnlink == Spec => CutOnlyUnlinks
<1>1. IInv /\ OnlyBinaryDecodes /\ [Next]_vars => [CutUnlinksAtMost]_vars
  <2> SUFFICES ASSUME IInv, OnlyBinaryDecodes, Next, NEW x \in Writes,
                      script'[x] # script[x], upload[x] = "cut"
               PROVE  View' = View \/ (encoding[x] = "base64" /\ View' = "absent")
    BY DEF CutUnlinksAtMost
  <2>1. ASSUME NEW w \in Writes, Script(w)
        PROVE  View' = View \/ (encoding[x] = "base64" /\ View' = "absent")
    <3>1. x = w
      BY <2>1, ScriptEffect DEF IInv, TypeOK
    <3> QED
      BY <2>1, <3>1, ScriptEffect
  <2>2. ASSUME NEW w \in Writes, Coroutine(w) PROVE FALSE
    BY <2>2 DEF Coroutine, Call, UploadEnds, Answered, AnsweredWithoutStatus, GivesUp
  <2> QED
    BY <2>1, <2>2 DEF Next
<1> QED
  BY <1>1, Invariance, DecodersAreBinary, PTL DEF Spec, CutOnlyUnlinks

-----------------------------------------------------------------------------
(* FileWrite implements FileContract.                                      *)

(* What the coroutine does is a call, an answer or no step.                *)
LEMMA CoroutineKeepsContract ==
    ASSUME IInv, NEW w \in Writes, Coroutine(w)
    PROVE  Contract!Next \/ UNCHANGED Contract!vars
<1>1. UNCHANGED <<script, View>>
  BY DEF Coroutine, Call, UploadEnds, Answered, AnsweredWithoutStatus, GivesUp, View, fileVars
<1>2. CASE \E enc \in Encodings : Call(w, enc)
  <2>1. PICK enc \in Encodings : Call(w, enc)
    BY <1>2
  <2>2. Stage(w) = "idle" /\ Stage(w)' = "pending" /\ \A x \in Writes \ {w} : Stage(x)' = Stage(x)
    BY <2>1 DEF Call, Stage, IInv, TypeOK, Fits
  <2>3. \A x \in Writes : Told(x)' = Told(x)
    BY <2>1 DEF Call, Told, IInv, TypeOK
  <2>4. Contract!Call(w, enc)
    BY <1>1, <2>1, <2>2, <2>3 DEF Call, Contract!Call, Contract!Goes
  <2> QED
    BY <2>1, <2>4 DEF Contract!Next
<1>3. CASE UploadEnds(w)
  <2>1. UNCHANGED <<client, encoding>>
    BY <1>3 DEF UploadEnds
  <2>2. \A x \in Writes : Stage(x)' = Stage(x) /\ Told(x)' = Told(x)
    BY <1>1, <2>1 DEF Stage, Told
  <2> QED
    BY <1>1, <2>1, <2>2 DEF Contract!vars
<1>4. CASE Answered(w) \/ AnsweredWithoutStatus(w) \/ GivesUp(w)
  <2>1. PICK what \in {"ok", "assumed", "failed"} : client' = [client EXCEPT ![w] = what]
    BY <1>4 DEF Answered, AnsweredWithoutStatus, GivesUp
  <2>2. encoding' = encoding /\ client[w] = "sending"
    BY <1>4 DEF Answered, AnsweredWithoutStatus, GivesUp
  <2>3. what = "ok" => script[w] = "exit0"
    BY <1>4, <2>1 DEF Answered, AnsweredWithoutStatus, GivesUp, IInv, TypeOK
  <2>4. \A x \in Writes : Stage(x)' = Stage(x)
    BY <1>1, <2>1, <2>2 DEF Stage, IInv, TypeOK
  <2>5. /\ Told(w) = "none" /\ Told(w)' = what
        /\ \A x \in Writes \ {w} : Told(x)' = Told(x)
    BY <2>1, <2>2 DEF Told, IInv, TypeOK
  <2>6. Stage(w) # "idle" /\ (what = "ok" => Stage(w) = "landed")
    BY <2>2, <2>3 DEF Stage
  <2>7. Contract!Tell(w, what)
    BY <1>1, <2>2, <2>4, <2>5, <2>6 DEF Contract!Tell
  <2> QED
    BY <2>1, <2>6, <2>7 DEF Contract!Next, Contract!Acknowledge, Contract!Assume, Contract!Refuse
<1> QED
  BY <1>2, <1>3, <1>4 DEF Coroutine

(* What a script does is landing, failing, showing a part or no step.      *)
LEMMA ScriptKeepsContract ==
    ASSUME IInv, OnlyBinaryDecodes, NEW w \in Writes, Script(w)
    PROVE  Contract!Next \/ UNCHANGED Contract!vars
<1>1. PICK to \in Running \cup Over : script' = [script EXCEPT ![w] = to]
  BY ScriptEffect
<1>2. /\ UNCHANGED <<client, encoding>> /\ \A x \in Writes : Told(x)' = Told(x)
      /\ script[w] \notin Over /\ client[w] # "idle"
  BY ScriptEffect DEF callVars, Told, Script, Starts, SizeMatches, ReceiveFails, Renames, RenameFails,
     DecodeOpens, Decodes, DecodeFails, Unlinks, Killed, Goes, Running, IInv, Fits
<1>3. Stage(w) = "pending" /\ \A x \in Writes \ {w} : Stage(x)' = Stage(x)
  BY <1>1, <1>2 DEF Stage, Over, IInv, TypeOK
<1>4. script'[w] = to
  BY <1>1 DEF IInv, TypeOK
<1>5. encoding[w] \in {"utf-8", "base64"}
  BY DEF IInv, TypeOK
<1>6. CASE to = "exit0"
  <2>1. Stage(w)' = "landed"
    BY <1>2, <1>4, <1>6 DEF Stage
  <2>2. View' \in {w} \cup IF encoding[w] = "base64" THEN {View, "mixed"} ELSE {}
    BY <1>4, <1>6, ScriptEffect
  <2>3. Contract!Land(w)
    BY <1>2, <1>3, <2>1, <2>2 DEF Contract!Land, Contract!Goes
  <2> QED
    BY <2>3 DEF Contract!Next
<1>7. CASE to \in {"exit1", "killed"}
  <2>1. Stage(w)' = "failed"
    BY <1>2, <1>4, <1>7 DEF Stage
  <2>2. View' \in {View} \cup IF encoding[w] = "base64" THEN {"absent"} ELSE {}
    BY <1>4, <1>7, ScriptEffect
  <2>3. Contract!Fail(w)
    BY <1>2, <1>3, <2>1, <2>2 DEF Contract!Fail, Contract!Goes
  <2> QED
    BY <2>3 DEF Contract!Next
<1>8. CASE to \in Running
  <2>1. \A x \in Writes : Stage(x)' = Stage(x)
    BY <1>2, <1>3, <1>4, <1>8 DEF Stage, Running
  <2>2. View' = View \/ (View' = "part" /\ encoding[w] = "base64")
    BY <1>4, <1>8, ScriptEffect DEF Running
  <2>3. Contract!ShowPart(w) \/ UNCHANGED Contract!vars
    BY <1>2, <1>3, <2>1, <2>2 DEF Contract!ShowPart, Contract!vars
  <2> QED
    BY <2>3 DEF Contract!Next
<1> QED
  BY <1>6, <1>7, <1>8 DEF Over

(* Every execution of write_file's coroutines and scripts is one of the    *)
(* contract: text writes are atomic and land at most once, nothing changes *)
(* the file but a write that was called and is not over, a call is         *)
(* answered once, and a success that rests on an exit code is only         *)
(* answered of a write that landed.  A success for a stream that closed    *)
(* without one is a step of the contract too, one that promises nothing.   *)
THEOREM WritesKeepContract == Spec => ImplementsContract
<1>1. Init => Contract!Init
  BY DEF Init, Contract!Init, View, Stage, Told, Inodes
<1>2. IInv /\ OnlyBinaryDecodes /\ [Next]_vars => [Contract!Next]_(Contract!vars)
  <2> SUFFICES ASSUME IInv, OnlyBinaryDecodes, [Next]_vars
               PROVE  Contract!Next \/ UNCHANGED Contract!vars
    OBVIOUS
  <2>1. CASE UNCHANGED vars
    BY <2>1 DEF vars, callVars, fileVars, Contract!vars, View, Stage, Told
  <2> QED
    BY <2>1, CoroutineKeepsContract, ScriptKeepsContract DEF Next
<1> QED
  BY <1>1, <1>2, Invariance, DecodersAreBinary, PTL DEF Spec, ImplementsContract, Contract!Spec
=============================================================================
