------------------------ MODULE ExportDownload_proofs ------------------------
(***************************************************************************)
(* What _download guarantees for any number of concurrent calls, chunks    *)
(* and crashes; and what waiting and downloading do together, for every    *)
(* deadline, interval and request time and any number of calls beside the  *)
(* one that waits.                                                         *)
(*                                                                         *)
(* The destination holds what a call had in its temporary file when it     *)
(* renamed it, so the properties of a download rest on that file:          *)
(* WriterInv says that it belongs to the call alone, holds what the call   *)
(* has received, and is durable once fsync has returned.                   *)
(*                                                                         *)
(* Wait and downloads share no variable, so their invariant is one         *)
(* conjunct for each and one between them: IInv that of the downloads,     *)
(* WaitInv how the clock runs ahead of the mark and how old an answer may  *)
(* be, HandOver what the download may take from the wait.                  *)
(***************************************************************************)
EXTENDS ExportDownload, TLAPS

InFile == InWriter \ {"opening"}
BeforeFile == {"idle", "api", "storage", "opening"}
WithoutFile == BeforeFile \cup {"replaced", "returned", "raised"}

\* A temporary file and how much of it is durable.
FileInv ==
    \A c \in Call : temp[c] # NoFile =>
        /\ temp[c] \in Seq(Call) /\ Len(temp[c]) <= Size
        /\ \A i \in 1..Len(temp[c]) : temp[c][i] = c
        /\ synced[c] <= Len(temp[c])

\* The call that writes it.
WriterInv ==
    \A c \in Call :
        /\ pc[c] \in BeforeFile => got[c] = 0
        /\ pc[c] \in WithoutFile => temp[c] = NoFile
        /\ pc[c] \in InWriter =>
              answer[c] \in Answers /\ answer[c].kind \in AcceptedKinds
        /\ pc[c] \in InFile => temp[c] # NoFile /\ Len(temp[c]) = got[c]
        /\ pc[c] \in {"checking", "replacing"} => synced[c] = got[c]
        /\ pc[c] = "replacing" => LengthMatches(c)

IInv ==
    /\ TypeOK
    /\ temp \in [Call -> Seq(Call) \cup {NoFile}] /\ synced \in [Call -> 0..Size]
    /\ FileInv /\ WriterInv
    /\ Valid(target) /\ Valid(onDisk)

LEMMA Constants ==
  /\ Size \in Nat /\ 1 <= Size /\ MaxCrashes \in Nat
  /\ NoLength \notin Nat /\ NoFile \notin Seq(Call)
  /\ \A a \in Answers : a.length \in 1..Size /\ a.kind \in {"export", "redirect", "error"}
<1>1. Seq(Call) \subseteq Seq(Call \cup {NoFile})
  OBVIOUS
<1> QED BY <1>1, DownloadAssumption DEF Answers

LEMMA EmptyFile == << >> \in Seq(Call) /\ << >> # NoFile
<1>1. << >> \in Seq(Call)
  OBVIOUS
<1> QED BY <1>1, Constants

\* Writing the chunk behind the end of a file appends it.
LEMMA WrittenAppends ==
  ASSUME NEW c \in Call, NEW file \in Seq(Call)
  PROVE  /\ Written(file, Len(file) + 1, c) \in Seq(Call)
         /\ Len(Written(file, Len(file) + 1, c)) = Len(file) + 1
         /\ \A i \in 1..Len(file) : Written(file, Len(file) + 1, c)[i] = file[i]
         /\ Written(file, Len(file) + 1, c)[Len(file) + 1] = c
<1> DEFINE n == Len(file) + 1
           w == Written(file, n, c)
<1>1. n \in Nat /\ n > Len(file)
  OBVIOUS
<1>2. w = [i \in 1..n |-> IF i = n THEN c ELSE IF i <= Len(file) THEN file[i] ELSE NoFile]
  BY <1>1 DEF Written
<1>3. w \in [1..n -> Call]
  BY <1>1, <1>2
<1>4. w \in Seq(Call) /\ Len(w) = n
  BY <1>1, <1>3
<1> QED BY <1>1, <1>2, <1>4

LEMMA Initial == Init => IInv
<1> SUFFICES ASSUME Init PROVE IInv
  OBVIOUS
<1>1. TypeOK
  BY Constants DEF Init, TypeOK, Old, NoAnswer
<1>2. Valid(target) /\ Valid(onDisk)
  BY DEF Init, Valid
<1>3. temp \in [Call -> Seq(Call) \cup {NoFile}] /\ synced \in [Call -> 0..Size]
  BY Constants DEF Init
<1> QED BY <1>1, <1>2, <1>3
    DEF Init, IInv, FileInv, WriterInv, WithoutFile, BeforeFile, InFile, InWriter

\* The steps of a call that leave the disk alone.
LEMMA RequestStep ==
  ASSUME IInv, NEW c \in Call,
         \/ Begin(c) \/ ApiRedirects(c) \/ ApiAnswers(c) \/ StorageAnswers(c)
         \/ RequestFails(c) \/ BodyEnds(c) \/ CheckPasses(c) \/ Interrupted(c)
         \/ Return(c) \/ CloseFails(c)
  PROVE  IInv'
<1> USE DEF Goto, disk
<1>1. /\ UNCHANGED <<got, temp, synced, target, onDisk, crashes>>
      /\ pc \in [Call -> {"idle", "api", "storage", "replaced"} \cup InWriter \cup Ended]
      /\ answer \in [Call -> Answers \cup {NoAnswer}]
  BY DEF IInv, TypeOK, Begin, ApiRedirects, ApiAnswers, StorageAnswers, Answered,
         RequestFails, BodyEnds, CheckPasses, Interrupted, Return, CloseFails
<1>2. \A d \in Call \ {c} : pc'[d] = pc[d] /\ answer'[d] = answer[d]
  BY <1>1 DEF Begin, ApiRedirects, ApiAnswers, StorageAnswers, Answered,
         RequestFails, BodyEnds, CheckPasses, Interrupted, Return, CloseFails
<1>3. \/ /\ pc[c] \in {"idle", "api", "storage", "opening"} /\ answer'[c] = answer[c]
         /\ pc'[c] \in {"api", "storage", "raised", "interrupted"}
      \/ /\ pc[c] \in {"api", "storage"} /\ pc'[c] = "opening"
         /\ answer'[c] \in Answers /\ answer'[c].kind \in AcceptedKinds
      \/ /\ pc[c] = "streaming" /\ pc'[c] = "syncing" /\ answer'[c] = answer[c]
      \/ /\ pc[c] = "checking" /\ pc'[c] = "replacing" /\ LengthMatches(c)
         /\ answer'[c] = answer[c]
      \/ /\ pc[c] \in InWriter /\ pc'[c] = "interrupted" /\ answer'[c] = answer[c]
      \/ /\ pc[c] = "replaced" /\ pc'[c] \in {"returned", "raised", "interrupted"}
         /\ answer'[c] = answer[c]
  BY <1>1 DEF Begin, ApiRedirects, ApiAnswers, StorageAnswers, Answered,
         RequestFails, BodyEnds, CheckPasses, Interrupted, Return, CloseFails
<1>4. /\ pc' \in [Call -> {"idle", "api", "storage", "replaced"} \cup InWriter \cup Ended]
      /\ answer' \in [Call -> Answers \cup {NoAnswer}]
  BY <1>1 DEF Begin, ApiRedirects, ApiAnswers, StorageAnswers, Answered,
         RequestFails, BodyEnds, CheckPasses, Interrupted, Return, CloseFails, InWriter, Ended
<1>5. TypeOK'
  BY <1>1, <1>4 DEF IInv, TypeOK
<1>6. WriterInv'
  <2> SUFFICES ASSUME NEW d \in Call
               PROVE  /\ pc'[d] \in BeforeFile => got'[d] = 0
                      /\ pc'[d] \in WithoutFile => temp'[d] = NoFile
                      /\ pc'[d] \in InWriter =>
                            answer'[d] \in Answers /\ answer'[d].kind \in AcceptedKinds
                      /\ pc'[d] \in InFile => temp'[d] # NoFile /\ Len(temp'[d]) = got'[d]
                      /\ pc'[d] \in {"checking", "replacing"} => synced'[d] = got'[d]
                      /\ pc'[d] = "replacing" => LengthMatches(d)'
    BY DEF WriterInv, AcceptedKinds, WithoutFile, BeforeFile, InFile, InWriter
  <2>1. CASE d # c
    BY <1>1, <1>2, <2>1 DEF IInv, WriterInv, LengthMatches
  <2>2. CASE d = c
    BY <1>1, <1>3, <2>2
    DEF IInv, WriterInv, LengthMatches, WithoutFile, BeforeFile, InFile, InWriter
  <2> QED BY <2>1, <2>2
<1>7. FileInv' /\ Valid(target)' /\ Valid(onDisk)'
  BY <1>1 DEF IInv, FileInv, Valid
<1> QED BY <1>1, <1>5, <1>6, <1>7 DEF IInv

PlacesOfAStep == (InWriter \cup {"replaced"} \cup Ended) \ {"opening", "replacing"}

\* A step that takes call c to a new place and touches nothing but its own
\* temporary file and what it received, and leaves the two as that place wants.
OwnStep(c, to) ==
    /\ pc' = [pc EXCEPT ![c] = to] /\ to \in PlacesOfAStep
    /\ UNCHANGED <<answer, crashes>>
    /\ got' \in [Call -> 0..Size]
    /\ temp' \in [Call -> Seq(Call) \cup {NoFile}] /\ synced' \in [Call -> 0..Size]
    /\ \A d \in Call \ {c} :
          got'[d] = got[d] /\ temp'[d] = temp[d] /\ synced'[d] = synced[d]
    /\ temp'[c] # NoFile =>
          /\ Len(temp'[c]) <= Size /\ synced'[c] <= Len(temp'[c])
          /\ \A i \in 1..Len(temp'[c]) : temp'[c][i] = c
    /\ to \in InWriter =>
          /\ temp'[c] # NoFile /\ Len(temp'[c]) = got'[c]
          /\ answer[c] \in Answers /\ answer[c].kind \in AcceptedKinds
    /\ to \in {"replaced", "returned", "raised"} => temp'[c] = NoFile
    /\ to = "checking" => synced'[c] = got'[c]

\* Such a step preserves what is said of all calls.
LEMMA OtherCalls ==
  ASSUME IInv, NEW c \in Call, NEW to, OwnStep(c, to)
  PROVE  /\ FileInv' /\ WriterInv'
         /\ temp' \in [Call -> Seq(Call) \cup {NoFile}] /\ synced' \in [Call -> 0..Size]
         /\ pc' \in [Call -> {"idle", "api", "storage", "replaced"} \cup InWriter \cup Ended]
<1> USE DEF OwnStep, PlacesOfAStep
<1>1. \A d \in Call \ {c} : /\ pc'[d] = pc[d] /\ got'[d] = got[d]
                            /\ temp'[d] = temp[d] /\ synced'[d] = synced[d]
  BY DEF IInv, TypeOK
<1>2. pc'[c] = to
  BY DEF IInv, TypeOK
<1>3. FileInv'
  <2> SUFFICES ASSUME NEW d \in Call, temp'[d] # NoFile
               PROVE  /\ temp'[d] \in Seq(Call) /\ Len(temp'[d]) <= Size
                      /\ \A i \in 1..Len(temp'[d]) : temp'[d][i] = d
                      /\ synced'[d] <= Len(temp'[d])
    BY DEF FileInv
  <2>1. CASE d # c
    <3>1. temp'[d] = temp[d] /\ synced'[d] = synced[d]
      BY <1>1, <2>1
    <3> QED BY <3>1 DEF IInv, FileInv
  <2>2. CASE d = c
    BY <2>2
  <2> QED BY <2>1, <2>2
<1>4. WriterInv'
  <2> SUFFICES ASSUME NEW d \in Call
               PROVE  /\ pc'[d] \in BeforeFile => got'[d] = 0
                      /\ pc'[d] \in WithoutFile => temp'[d] = NoFile
                      /\ pc'[d] \in InWriter =>
                            answer'[d] \in Answers /\ answer'[d].kind \in AcceptedKinds
                      /\ pc'[d] \in InFile => temp'[d] # NoFile /\ Len(temp'[d]) = got'[d]
                      /\ pc'[d] \in {"checking", "replacing"} => synced'[d] = got'[d]
                      /\ pc'[d] = "replacing" => LengthMatches(d)'
    BY DEF WriterInv, AcceptedKinds, WithoutFile, BeforeFile, InFile, InWriter
  <2>1. CASE d # c
    BY <1>1, <2>1 DEF IInv, WriterInv, LengthMatches
  <2>2. CASE d = c
    BY <1>2, <2>2 DEF WithoutFile, BeforeFile, Ended, InWriter, InFile
  <2> QED BY <2>1, <2>2
<1> QED BY <1>1, <1>3, <1>4 DEF IInv, TypeOK

\* The steps of _write_download_atomically that write, sync, rename or unlink.
LEMMA WriterStep ==
  ASSUME IInv, NEW c \in Call,
         OpenTemp(c) \/ Chunk(c) \/ Sync(c) \/ WriterFails(c) \/ CheckFails(c) \/ Replace(c)
  PROVE  IInv'
<1> USE Constants DEF TempName, Goto, disk, PlacesOfAStep
<1>0. /\ pc \in [Call -> {"idle", "api", "storage", "replaced"} \cup InWriter \cup Ended]
      /\ answer \in [Call -> Answers \cup {NoAnswer}] /\ got \in [Call -> 0..Size]
      /\ temp \in [Call -> Seq(Call) \cup {NoFile}] /\ synced \in [Call -> 0..Size]
      /\ synced[c] \in 0..Size
  BY DEF IInv, TypeOK
<1>1. CASE OpenTemp(c)
  <2>1. got[c] = 0 /\ answer[c] \in Answers /\ answer[c].kind \in AcceptedKinds
    BY <1>1 DEF IInv, WriterInv, OpenTemp, BeforeFile, InWriter
  <2>2. /\ temp' = [temp EXCEPT ![c] = << >>] /\ synced' = [synced EXCEPT ![c] = 0]
        /\ pc' = [pc EXCEPT ![c] = "streaming"]
        /\ UNCHANGED <<answer, got, target, onDisk, crashes>>
    BY <1>1 DEF OpenTemp
  <2>3. temp'[c] = << >> /\ synced'[c] = 0
    BY <1>0, <2>2
  <2>4. OwnStep(c, "streaming")
    BY <1>0, <2>1, <2>2, <2>3, EmptyFile DEF OwnStep, InWriter
  <2>5. /\ FileInv' /\ WriterInv'
        /\ temp' \in [Call -> Seq(Call) \cup {NoFile}] /\ synced' \in [Call -> 0..Size]
        /\ pc' \in [Call -> {"idle", "api", "storage", "replaced"} \cup InWriter \cup Ended]
    BY <2>4, OtherCalls
  <2> QED BY <2>2, <2>5 DEF IInv, TypeOK, Valid
<1>2. CASE Chunk(c)
  <2>1. /\ temp[c] # NoFile /\ temp[c] \in Seq(Call) /\ Len(temp[c]) = got[c]
        /\ \A i \in 1..Len(temp[c]) : temp[c][i] = c
        /\ synced[c] <= Len(temp[c])
        /\ answer[c] \in Answers /\ answer[c].kind \in AcceptedKinds
    BY <1>2 DEF IInv, FileInv, WriterInv, Chunk, InWriter, InFile
  <2>2. /\ got' = [got EXCEPT ![c] = got[c] + 1] /\ got[c] + 1 \in 0..Size
        /\ temp' = [temp EXCEPT ![c] = Written(temp[c], Len(temp[c]) + 1, c)]
        /\ pc[c] = "streaming" /\ UNCHANGED <<pc, answer, synced, target, onDisk, crashes>>
    BY <1>0, <1>2, <2>1 DEF Chunk, MoreChunks
  <2> DEFINE w == Written(temp[c], Len(temp[c]) + 1, c)
  <2>3. /\ w \in Seq(Call) /\ Len(w) = got[c] + 1
        /\ \A i \in 1..Len(w) : w[i] = c
    <3> HIDE DEF w
    <3>1. /\ w \in Seq(Call) /\ Len(w) = Len(temp[c]) + 1
          /\ \A i \in 1..Len(temp[c]) : w[i] = temp[c][i]
          /\ w[Len(temp[c]) + 1] = c
      BY <2>1, WrittenAppends DEF w
    <3>2. Len(temp[c]) \in Nat /\ \A i \in 1..(Len(temp[c]) + 1) :
             i \in 1..Len(temp[c]) \/ i = Len(temp[c]) + 1
      BY <2>1
    <3> QED BY <2>1, <3>1, <3>2
  <2> HIDE DEF w
  <2>4. temp' = [temp EXCEPT ![c] = w] /\ temp'[c] = w /\ w # NoFile
    BY <1>0, <2>2, <2>3 DEF w
  <2>5. pc' = [pc EXCEPT ![c] = "streaming"] /\ got'[c] = got[c] + 1
    BY <1>0, <2>2
  <2>6. OwnStep(c, "streaming")
    <3>1. /\ got' \in [Call -> 0..Size] /\ synced' \in [Call -> 0..Size]
          /\ temp' \in [Call -> Seq(Call) \cup {NoFile}]
      BY <1>0, <2>2, <2>3, <2>4
    <3>2. \A d \in Call \ {c} :
             got'[d] = got[d] /\ temp'[d] = temp[d] /\ synced'[d] = synced[d]
      BY <1>0, <2>2, <2>4
    <3>3. /\ Len(temp'[c]) <= Size /\ synced'[c] <= Len(temp'[c])
          /\ \A i \in 1..Len(temp'[c]) : temp'[c][i] = c
      BY <1>0, <2>1, <2>2, <2>3, <2>4
    <3> QED BY <2>1, <2>2, <2>3, <2>5, <2>4, <3>1, <3>2, <3>3 DEF OwnStep, InWriter
  <2>7. /\ FileInv' /\ WriterInv'
        /\ temp' \in [Call -> Seq(Call) \cup {NoFile}] /\ synced' \in [Call -> 0..Size]
        /\ pc' \in [Call -> {"idle", "api", "storage", "replaced"} \cup InWriter \cup Ended]
    BY <2>6, OtherCalls
  <2> QED BY <1>0, <2>2, <2>7 DEF IInv, TypeOK, Valid
<1>3. CASE Sync(c)
  <2>1. /\ temp[c] # NoFile /\ temp[c] \in Seq(Call) /\ Len(temp[c]) = got[c]
        /\ Len(temp[c]) <= Size /\ \A i \in 1..Len(temp[c]) : temp[c][i] = c
        /\ answer[c] \in Answers /\ answer[c].kind \in AcceptedKinds
    BY <1>3 DEF IInv, FileInv, WriterInv, Sync, InWriter, InFile
  <2>2. /\ synced' = [synced EXCEPT ![c] = got[c]] /\ synced'[c] = got[c]
        /\ pc' = [pc EXCEPT ![c] = "checking"]
        /\ UNCHANGED <<answer, got, temp, target, onDisk, crashes>>
    BY <1>0, <1>3 DEF Sync
  <2>3. /\ FileInv' /\ WriterInv'
        /\ temp' \in [Call -> Seq(Call) \cup {NoFile}] /\ synced' \in [Call -> 0..Size]
        /\ pc' \in [Call -> {"idle", "api", "storage", "replaced"} \cup InWriter \cup Ended]
    <3>1. OwnStep(c, "checking")
      BY <1>0, <2>1, <2>2 DEF OwnStep, InWriter
    <3> QED BY <3>1, OtherCalls
  <2> QED BY <2>2, <2>3 DEF IInv, TypeOK, Valid
<1>4. ASSUME NEW to \in {"replaced", "raised"}, Unlink(c), Goto(c, to),
             UNCHANGED <<answer, got, crashes>>
      PROVE  /\ FileInv' /\ WriterInv'
             /\ temp' \in [Call -> Seq(Call) \cup {NoFile}] /\ synced' \in [Call -> 0..Size]
             /\ pc' \in [Call -> {"idle", "api", "storage", "replaced"} \cup InWriter \cup Ended]
  <2>1. /\ temp' = [temp EXCEPT ![c] = NoFile] /\ temp'[c] = NoFile
        /\ synced' = [synced EXCEPT ![c] = 0] /\ synced'[c] = 0
        /\ pc' = [pc EXCEPT ![c] = to]
    BY <1>0, <1>4 DEF Unlink
  <2>2. OwnStep(c, to)
    BY <1>0, <1>4, <2>1 DEF OwnStep, InWriter, Ended
  <2> QED BY <2>2, OtherCalls
<1>5. CASE WriterFails(c) \/ CheckFails(c)
  <2>1. /\ Unlink(c) /\ Goto(c, "raised")
        /\ UNCHANGED <<answer, got, target, onDisk, crashes>>
    BY <1>5 DEF WriterFails, CheckFails
  <2> QED BY <1>4, <2>1 DEF IInv, TypeOK, Valid
<1>6. CASE Replace(c)
  <2>1. /\ temp[c] # NoFile /\ temp[c] \in Seq(Call) /\ Len(temp[c]) = got[c]
        /\ \A i \in 1..Len(temp[c]) : temp[c][i] = c
        /\ synced[c] = Len(temp[c]) /\ answer[c].declared \in {NoLength, Len(temp[c])}
        /\ answer[c] \in Answers /\ answer[c].kind # "error"
    BY <1>6 DEF IInv, FileInv, WriterInv, Replace, InWriter, InFile, LengthMatches,
           AcceptedKinds
  <2> DEFINE new == [chunks |-> temp[c], from |-> answer[c]]
             durable == SubSeq(temp[c], 1, synced[c])
  <2>2. durable = temp[c]
    BY <2>1
  <2>3. target' = new /\ onDisk' \in {onDisk, new}
    BY <1>6, <2>2 DEF Replace
  <2>4. Valid(new)
    <3>1. DOMAIN temp[c] = 1..Len(temp[c])
      BY <2>1
    <3> QED BY <2>1, <3>1 DEF Valid
  <2>5. Valid(target)' /\ Valid(onDisk)'
    <3>1. Valid(target') /\ Valid(onDisk')
      BY <2>3, <2>4 DEF IInv
    <3> QED BY <3>1 DEF Valid, Old, NoAnswer
  <2>6. /\ Unlink(c) /\ Goto(c, "replaced") /\ UNCHANGED <<answer, got, crashes>>
    BY <1>6 DEF Replace
  <2>7. \A file \in {target', onDisk'} :
           file.chunks \in Seq(Call) /\ file.from \in Answers \cup {NoAnswer}
    BY <2>1, <2>3 DEF IInv, TypeOK
  <2> HIDE DEF new, durable
  <2>8. got' \in [Call -> 0..Size] /\ answer' \in [Call -> Answers \cup {NoAnswer}]
        /\ crashes' \in 0..MaxCrashes
    BY <1>0, <2>6 DEF IInv, TypeOK
  <2> QED BY <1>4, <2>5, <2>6, <2>7, <2>8 DEF IInv, TypeOK
<1> QED BY <1>1, <1>2, <1>3, <1>5, <1>6

\* A crash cuts every temporary file to its durable part.
LEMMA CrashStep == IInv /\ Crash => IInv'
<1> SUFFICES ASSUME IInv, Crash PROVE IInv'
  OBVIOUS
<1> USE Constants
<1>1. \A c \in Call :
        /\ pc'[c] = IF pc[c] \in {"idle"} \cup Ended THEN pc[c] ELSE "crashed"
        /\ temp'[c] = IF temp[c] = NoFile THEN NoFile ELSE SubSeq(temp[c], 1, synced[c])
        /\ synced'[c] = synced[c] /\ got'[c] = got[c] /\ synced[c] \in 0..Size
  BY DEF IInv, TypeOK, Crash
<1>2. ASSUME NEW c \in Call, temp[c] # NoFile
      PROVE  /\ temp'[c] \in Seq(Call) /\ temp'[c] # NoFile /\ Len(temp'[c]) = synced[c]
             /\ \A i \in 1..Len(temp'[c]) : temp'[c][i] = c
  <2>1. /\ temp[c] \in Seq(Call) /\ synced[c] \in Nat /\ synced[c] <= Len(temp[c])
        /\ \A i \in 1..Len(temp[c]) : temp[c][i] = c
    BY <1>1, <1>2 DEF IInv, FileInv
  <2>2. temp'[c] = SubSeq(temp[c], 1, synced[c])
    BY <1>1, <1>2
  <2>3. /\ temp'[c] \in Seq(Call) /\ Len(temp'[c]) = synced[c]
        /\ \A i \in 1..synced[c] : temp'[c][i] = temp[c][i]
    BY <2>1, <2>2
  <2> QED BY <2>1, <2>3
<1>3. FileInv'
  BY <1>1, <1>2 DEF IInv, FileInv
<1>4. WriterInv'
  BY <1>1 DEF IInv, WriterInv, WithoutFile, BeforeFile, InWriter, InFile, Ended
<1>5. Valid(target)' /\ Valid(onDisk)'
  BY DEF IInv, Crash, Valid
<1>6. TypeOK'
  <2>1. pc' \in [Call -> {"idle", "api", "storage", "replaced"} \cup InWriter \cup Ended]
    BY DEF IInv, TypeOK, Crash, Ended
  <2>2. crashes' \in 0..MaxCrashes
    BY DEF IInv, TypeOK, Crash
  <2> QED BY <1>1, <1>2, <2>1, <2>2 DEF IInv, TypeOK, Crash
<1>7. temp' \in [Call -> Seq(Call) \cup {NoFile}] /\ synced' \in [Call -> 0..Size]
  BY <1>1, <1>2 DEF IInv, Crash
<1> QED BY <1>3, <1>4, <1>5, <1>6, <1>7 DEF IInv

LEMMA CallStep ==
  ASSUME IInv, NEW c \in Call, Step(c) \/ Interrupted(c)
  PROVE  IInv'
BY RequestStep, WriterStep DEF Step

LEMMA Unchanged == IInv /\ UNCHANGED vars => IInv'
BY DEF IInv, TypeOK, FileInv, WriterInv, LengthMatches, Valid, vars

LEMMA Invariant == Spec => []IInv
<1>1. IInv /\ [Next]_vars => IInv'
  BY CallStep, CrashStep, Unchanged DEF Next, AllOver
<1> QED BY <1>1, Initial, PTL DEF Spec

\* What the invariant says in the terms of the runs.
LEMMA Consequences ==
  IInv => TypeOK /\ WholeOrPrevious /\ CrashSafe /\ NoLeftovers /\ OwnFileKept
BY DEF IInv, WholeOrPrevious, CrashSafe, NoLeftovers, OwnFileKept, WriterInv, InFile,
       WithoutFile, TempName

\* The calls and their files keep their types, whatever fails (client.py
\* 1251-1318).
THEOREM TypeCorrect == Spec => []TypeOK
BY Invariant, Consequences, PTL

\* However many calls write to a destination, a reader finds the old file or
\* the whole answer of one of them (client.py 1298-1315).
THEOREM TargetIsWhole == Spec => []WholeOrPrevious
BY Invariant, Consequences, PTL

\* So does a reader after any number of crashes, since fsync comes before the
\* rename (client.py 1307-1314).
THEOREM DiskIsWhole == Spec => []CrashSafe
BY Invariant, Consequences, PTL

\* No call that ends by itself leaves its temporary file (client.py 1316-1318).
THEOREM NothingIsLeft == Spec => []NoLeftovers
BY Invariant, Consequences, PTL

\* No call removes or writes the temporary file of another (client.py 1300).
THEOREM FilesAreOwn == Spec => []OwnFileKept
BY Invariant, Consequences, PTL

-----------------------------------------------------------------------------
\* The refinement of Destination.

Outcomes == [c \in Call |-> Outcome(pc[c])]

LEMMA OutcomeChanges ==
  ASSUME IInv, NEW c \in Call, NEW to, pc' = [pc EXCEPT ![c] = to]
  PROVE  Outcomes' = [Outcomes EXCEPT ![c] = Outcome(to)]
<1>1. pc \in [Call -> {"idle", "api", "storage", "replaced"} \cup InWriter \cup Ended]
  BY DEF IInv, TypeOK
<1>2. \A d \in Call : Outcomes'[d] = IF d = c THEN Outcome(to) ELSE Outcomes[d]
  BY <1>1 DEF Outcomes, Outcome
<1> QED BY <1>2 DEF Outcomes

\* A step that leaves the destination alone and takes one call on its way.
LEMMA OnTheWay ==
  ASSUME IInv, NEW c \in Call, NEW to, pc' = [pc EXCEPT ![c] = to],
         UNCHANGED <<target, onDisk>>,
         \/ Outcome(to) = Outcome(pc[c])
         \/ Outcome(pc[c]) = "idle" /\ Outcome(to) = "running"
         \/ Outcome(pc[c]) = "installed" /\ Outcome(to) = "returned"
         \/ /\ Outcome(pc[c]) \in {"idle", "running", "installed"}
            /\ Outcome(to) = "failed"
  PROVE  Replaced!Next \/ UNCHANGED Replaced!vars
<1>1. Outcomes' = [Outcomes EXCEPT ![c] = Outcome(to)] /\ Outcomes[c] = Outcome(pc[c])
  BY OutcomeChanges DEF Outcomes
<1>2. CASE Outcome(to) = Outcome(pc[c])
  <2>1. Outcomes' = Outcomes
    BY <1>1, <1>2 DEF Outcomes
  <2> QED BY <2>1 DEF Outcomes, Replaced!vars
<1>3. CASE Outcome(pc[c]) = "idle" /\ Outcome(to) = "running"
  <2>1. Replaced!Start(c)
    BY <1>1, <1>3 DEF Outcomes, Replaced!Start
  <2> QED BY <2>1 DEF Replaced!Next
<1>4. CASE Outcome(pc[c]) = "installed" /\ Outcome(to) = "returned"
  <2>1. Replaced!Return(c)
    BY <1>1, <1>4 DEF Outcomes, Replaced!Return
  <2> QED BY <2>1 DEF Replaced!Next
<1>5. CASE Outcome(pc[c]) \in {"idle", "running", "installed"} /\ Outcome(to) = "failed"
  <2>1. Replaced!Fail(c)
    BY <1>1, <1>5 DEF Outcomes, Replaced!Fail
  <2> QED BY <2>1 DEF Replaced!Next
<1> QED BY <1>2, <1>3, <1>4, <1>5

\* The file a call is about to install is a whole answer of its own, and all of
\* it is durable.
LEMMA FileIsWhole ==
  ASSUME IInv, NEW c \in Call, pc[c] = "replacing"
  PROVE  /\ [chunks |-> temp[c], from |-> answer[c]] \in WholeFiles(c)
         /\ SubSeq(temp[c], 1, synced[c]) = temp[c]
<1>1. /\ temp[c] \in Seq(Call) /\ Len(temp[c]) = got[c] /\ got[c] \in 0..Size
      /\ \A i \in 1..Len(temp[c]) : temp[c][i] = c
      /\ synced[c] = got[c]
  BY DEF IInv, TypeOK, FileInv, WriterInv, InFile, InWriter
<1>2. /\ answer[c] \in Answers /\ answer[c].kind # "error"
      /\ answer[c].declared \in {NoLength, got[c]}
  BY DEF IInv, WriterInv, InWriter, LengthMatches, AcceptedKinds
<1>3. temp[c] = [i \in 1..got[c] |-> c]
  BY <1>1
<1>4. SubSeq(temp[c], 1, synced[c]) = temp[c]
  BY <1>1
<1> QED BY <1>1, <1>2, <1>3, <1>4 DEF WholeFiles

LEMMA InstallRefines ==
  ASSUME IInv, NEW c \in Call, Replace(c)
  PROVE  Replaced!Install(c)
<1> DEFINE file == [chunks |-> temp[c], from |-> answer[c]]
<1>1. /\ pc[c] = "replacing" /\ pc' = [pc EXCEPT ![c] = "replaced"]
      /\ target' = file
      /\ \/ onDisk' = onDisk
         \/ onDisk' = [chunks |-> SubSeq(temp[c], 1, synced[c]), from |-> answer[c]]
  BY DEF Replace, Goto, TempName
<1>2. file \in WholeFiles(c) /\ SubSeq(temp[c], 1, synced[c]) = temp[c]
  BY <1>1, FileIsWhole
<1>3. target' \in [d \in Call |-> WholeFiles(d)][c] /\ onDisk' \in {onDisk, target'}
  BY <1>1, <1>2
<1>4. /\ Outcomes' = [Outcomes EXCEPT ![c] = Outcome("replaced")]
      /\ Outcomes[c] = "running" /\ Outcome("replaced") = "installed"
  BY <1>1, OutcomeChanges DEF Outcomes, Outcome, Ended
<1> QED BY <1>3, <1>4 DEF Outcomes, Replaced!Install

LEMMA CallRefines ==
  ASSUME IInv, NEW c \in Call, Step(c) \/ Interrupted(c)
  PROVE  Replaced!Next \/ UNCHANGED Replaced!vars
<1>0. pc \in [Call -> {"idle", "api", "storage", "replaced"} \cup InWriter \cup Ended]
  BY DEF IInv, TypeOK
<1>1. CASE Replace(c)
  BY <1>1, InstallRefines DEF Replaced!Next
<1>2. CASE Chunk(c)
  <2>1. pc' = pc /\ UNCHANGED <<target, onDisk>>
    BY <1>2 DEF Chunk
  <2> QED BY <2>1 DEF Replaced!vars
<1>3. CASE Begin(c) \/ ApiRedirects(c) \/ ApiAnswers(c) \/ StorageAnswers(c) \/ RequestFails(c)
  <2>1. \E to \in {"api", "storage", "opening", "raised"} :
          /\ pc' = [pc EXCEPT ![c] = to]
          /\ pc[c] = "idle" => to = "api"
    BY <1>3 DEF Begin, ApiRedirects, ApiAnswers, StorageAnswers, Answered, RequestFails, Goto
  <2>2. pc[c] \in BeforeFile /\ UNCHANGED <<target, onDisk>>
    BY <1>3 DEF Begin, ApiRedirects, ApiAnswers, StorageAnswers, Answered, RequestFails,
                disk, BeforeFile
  <2> QED BY <2>1, <2>2, OnTheWay DEF Outcome, Ended, BeforeFile
<1>4. CASE OpenTemp(c) \/ BodyEnds(c) \/ Sync(c) \/ CheckPasses(c)
           \/ WriterFails(c) \/ CheckFails(c)
           \/ (Interrupted(c) /\ pc[c] # "replaced")
  <2>1. \E to \in InWriter \cup {"raised", "interrupted"} : pc' = [pc EXCEPT ![c] = to]
    BY <1>4 DEF OpenTemp, BodyEnds, Sync, CheckPasses, WriterFails, CheckFails,
                Interrupted, Goto, InWriter
  <2>2. /\ pc[c] \in {"api", "storage"} \cup InWriter
        /\ UNCHANGED <<target, onDisk>>
    BY <1>4 DEF OpenTemp, BodyEnds, Sync, CheckPasses, WriterFails, CheckFails,
                Interrupted, disk, InWriter
  <2> QED BY <2>1, <2>2, OnTheWay DEF Outcome, Ended, InWriter
<1>5. CASE Return(c) \/ CloseFails(c) \/ (Interrupted(c) /\ pc[c] = "replaced")
  <2>1. PICK to \in {"returned", "raised", "interrupted"} : pc' = [pc EXCEPT ![c] = to]
    BY <1>5 DEF Return, CloseFails, Interrupted, Goto
  <2>2. Outcome(pc[c]) = "installed" /\ UNCHANGED <<target, onDisk>>
    BY <1>5 DEF Return, CloseFails, Interrupted, disk, Outcome
  <2>3. Outcome(to) \in {"returned", "failed"}
    BY DEF Outcome, Ended
  <2> QED BY <2>1, <2>2, <2>3, OnTheWay
<1> QED BY <1>1, <1>2, <1>3, <1>4, <1>5 DEF Step

LEMMA CrashRefines ==
  ASSUME IInv, Crash
  PROVE  Replaced!PowerFailure
<1>1. /\ target' = onDisk /\ onDisk' = onDisk
      /\ \A c \in Call : pc'[c] = IF pc[c] \in {"idle"} \cup Ended THEN pc[c] ELSE "crashed"
  BY DEF Crash
<1>2. \A c \in Call :
        Outcome(pc[c])' =
          IF Outcomes[c] \in {"running", "installed"} THEN "failed" ELSE Outcomes[c]
  BY <1>1 DEF Outcomes, Outcome, Ended
<1>3. Outcomes' = [c \in Call |->
        IF Outcomes[c] \in {"running", "installed"} THEN "failed" ELSE Outcomes[c]]
  BY <1>2 DEF Outcomes
<1> QED BY <1>1, <1>3 DEF Outcomes, Replaced!PowerFailure

LEMMA InitialRefines == Init => Replaced!Init
BY DEF Init, Replaced!Init, Outcome

\* The destination changes by the rename of a call alone, at most once per call
\* and from one whole file to another; a call returns only after its own rename,
\* and one that raises, is interrupted or dies did so before it or after it,
\* never in between (client.py 1251-1318).
THEOREM DestinationIsKept == Spec => KeepsDestination
<1>1. IInv /\ [Next]_vars => [Replaced!Next]_(Replaced!vars)
  <2> SUFFICES ASSUME IInv, [Next]_vars PROVE Replaced!Next \/ UNCHANGED Replaced!vars
    OBVIOUS
  <2>1. CASE \E c \in Call : Step(c) \/ Interrupted(c)
    BY <2>1, CallRefines
  <2>2. CASE Crash
    BY <2>2, CrashRefines DEF Replaced!Next
  <2>3. CASE AllOver \/ UNCHANGED vars
    BY <2>3 DEF AllOver, vars, Replaced!vars
  <2> QED BY <2>1, <2>2, <2>3 DEF Next
<1> QED BY <1>1, InitialRefines, Invariant, PTL DEF Spec, KeepsDestination, Replaced!Spec

-----------------------------------------------------------------------------
\* The wait, and the downloads beside it.

LatestMark == Timeout + IF kind = "export" THEN Interval ELSE 0

\* An answer that says something is still running was read during this poll:
\* what is over since then ended after the poll began.
WaitInv ==
    /\ WaitTypeOK
    /\ phase = "begin" => clock = 0 /\ mark = 0 /\ report = "none"
    /\ mark <= LatestMark /\ clock <= mark + MaxRequest
    /\ phase = "polling" => mark <= clock
    /\ report \in Final => status = report
    /\ phase = "polling" /\ report = "running" /\ status # "running" => endedAt >= mark
    /\ OverIsNoticed

HandOver ==
    /\ phase = "done" /\ kind = "export" => status = "completed"
    /\ pc[Waiter] # "idle" => phase = "done"

LEMMA WaitInitial == WaitInit => WaitInv
BY WaitAssumption
DEF WaitInit, WaitInv, WaitTypeOK, OverIsNoticed, LatestMark, StopsOn, Waiting, Final

\* One step of the wait.
LEMMA WaitStepInv ==
  ASSUME WaitInv, WaitNext
  PROVE  WaitInv'
<1> USE WaitAssumption DEF service, LatestMark, WaitTypeOK, OverIsNoticed, StopsOn,
        Waiting, WaitEnded, Final, WaitInv
<1>1. CASE Tick
  BY <1>1 DEF Tick
<1>2. CASE Progress
  BY <1>2 DEF Progress
<1>3. CASE Serve
  BY <1>3 DEF Serve
<1>4. CASE BeginWait
  BY <1>4 DEF BeginWait
<1>5. CASE Stop
  BY <1>5 DEF Stop
<1>6. CASE TimeOut
  BY <1>6 DEF TimeOut
<1>7. CASE Sleep
  BY <1>7 DEF Sleep, WakeAt
<1>8. CASE PollAgain
  BY <1>8 DEF PollAgain
<1>9. CASE PollFails
  BY <1>9 DEF PollFails
<1> QED BY <1>1, <1>2, <1>3, <1>4, <1>5, <1>6, <1>7, <1>8, <1>9 DEF WaitNext, WaitStep

\* The steps around the wait: they end it, or set its times back.
LEMMA AroundTheWait ==
  ASSUME WaitInv,
         \/ CreateExport \/ StartExport \/ StartFolder \/ WaitInterrupted
         \/ MachineCrash \/ UNCHANGED waitVars
  PROVE  WaitInv'
<1> USE WaitAssumption DEF service, LatestMark, WaitTypeOK, OverIsNoticed, StopsOn,
        Waiting, WaitEnded, Final, WaitInv
<1>1. CASE CreateExport
  BY <1>1 DEF CreateExport
<1>2. CASE StartExport \/ StartFolder
  <2>1. phase = "done" /\ Forget
    BY <1>2 DEF StartExport, StartFolder, Waited
  <2> QED BY <2>1 DEF Forget
<1>3. CASE WaitInterrupted
  BY <1>3 DEF WaitInterrupted
<1>4. CASE MachineCrash
  <2>1. /\ phase' = phase \/ phase' = "raised"
        /\ UNCHANGED <<kind, clock, mark, report, status, endedAt>>
    BY <1>4 DEF MachineCrash
  <2> QED BY <2>1
<1>5. CASE UNCHANGED waitVars
  BY <1>5 DEF waitVars
<1> QED BY <1>1, <1>2, <1>3, <1>4, <1>5

LEMMA WaitInductive == WaitInv /\ [ExportNext]_allVars => WaitInv'
<1> SUFFICES ASSUME WaitInv, [ExportNext]_allVars PROVE WaitInv'
  OBVIOUS
<1>1. Waits => WaitNext
  BY DEF Waits
<1>2. Finished \/ (\E c \in Call : Downloads(c)) \/ UNCHANGED allVars => UNCHANGED waitVars
  BY DEF Finished, Downloads, allVars
<1> QED BY <1>1, <1>2, WaitStepInv, AroundTheWait DEF ExportNext

\* A call that has begun, begins with its first request.
LEMMA OwnPlace ==
  ASSUME pc \in [Call -> {"idle", "api", "storage", "replaced"} \cup InWriter \cup Ended],
         NEW c \in Call, Step(c) \/ Interrupted(c)
  PROVE  \A d \in Call \ {c} : pc'[d] = pc[d]
BY DEF Step, Interrupted, Begin, ApiRedirects, ApiAnswers, StorageAnswers, Answered,
       RequestFails, OpenTemp, Chunk, BodyEnds, Sync, WriterFails, CheckPasses,
       CheckFails, Replace, Return, CloseFails, Goto

\* The storage request of download_project_export comes straight after the wait.
LEMMA DirectStart ==
  ASSUME IInv, NEW c \in Call, pc[c] = "idle", NEW to \in {"storage", "raised"},
         Goto(c, to), UNCHANGED <<answer, got, disk, crashes>>
  PROVE  IInv'
<1>1. /\ UNCHANGED <<answer, got, temp, synced, target, onDisk, crashes>>
      /\ pc' = [pc EXCEPT ![c] = to]
      /\ pc \in [Call -> {"idle", "api", "storage", "replaced"} \cup InWriter \cup Ended]
  BY DEF disk, Goto, IInv, TypeOK
<1>2. pc'[c] = to /\ \A d \in Call \ {c} : pc'[d] = pc[d]
  BY <1>1
<1>3. TypeOK'
  BY <1>1 DEF IInv, TypeOK, Ended
<1>4. WriterInv'
  BY <1>1, <1>2 DEF IInv, WriterInv, LengthMatches, AcceptedKinds, WithoutFile, BeforeFile,
         InFile, InWriter
<1>5. FileInv' /\ Valid(target)' /\ Valid(onDisk)'
  BY <1>1 DEF IInv, FileInv, Valid
<1> QED BY <1>1, <1>3, <1>4, <1>5 DEF IInv

LEMMA DownloadsInductive == IInv /\ [ExportNext]_allVars => IInv'
<1> SUFFICES ASSUME IInv, [ExportNext]_allVars PROVE IInv'
  OBVIOUS
<1>1. CASE StartExport
  <2>1. \/ Goto(Waiter, "storage")
        \/ Goto(Waiter, "raised")
    BY <1>1 DEF StartExport
  <2>2. pc[Waiter] = "idle" /\ UNCHANGED <<answer, got, disk, crashes>>
    BY <1>1 DEF StartExport, Waited
  <2> QED BY <2>1, <2>2, DirectStart, WaiterAssumption
<1>2. CASE StartFolder
  <2>1. Step(Waiter)
    BY <1>2 DEF StartFolder, Step
  <2> QED BY <2>1, CallStep, WaiterAssumption
<1>3. CASE \E c \in Call : Downloads(c)
  BY <1>3, CallStep DEF Downloads
<1>4. CASE MachineCrash
  BY <1>4, CrashStep DEF MachineCrash
<1>5. CASE CreateExport \/ Waits \/ WaitInterrupted \/ Finished \/ UNCHANGED allVars
  <2>1. UNCHANGED vars
    BY <1>5 DEF CreateExport, Waits, WaitInterrupted, Finished, allVars
  <2> QED BY <2>1, Unchanged
<1> QED BY <1>1, <1>2, <1>3, <1>4, <1>5 DEF ExportNext

LEMMA HandOverInductive ==
  IInv /\ WaitInv /\ HandOver /\ [ExportNext]_allVars => HandOver'
<1> SUFFICES ASSUME IInv, WaitInv, HandOver, [ExportNext]_allVars PROVE HandOver'
  OBVIOUS
<1> USE WaiterAssumption DEF HandOver, service
<1>0. pc \in [Call -> {"idle", "api", "storage", "replaced"} \cup InWriter \cup Ended]
  BY DEF IInv, TypeOK
<1>1. CASE CreateExport
  BY <1>1 DEF CreateExport, vars
<1>2. CASE Waits
  <2>1. UNCHANGED pc /\ WaitNext
    BY <1>2 DEF Waits, vars
  <2>2. CASE Stop
    BY <2>1, <2>2 DEF Stop, StopsOn, WaitInv, Final
  <2>3. CASE Tick \/ Progress \/ Serve
    BY <2>1, <2>3 DEF Tick, Progress, Serve, Waiting
  <2>4. CASE BeginWait \/ TimeOut \/ Sleep \/ PollAgain \/ PollFails
    BY <2>1, <2>4 DEF BeginWait, TimeOut, Sleep, PollAgain, PollFails
  <2> QED BY <2>1, <2>2, <2>3, <2>4 DEF WaitNext, WaitStep
<1>3. CASE StartExport \/ StartFolder
  BY <1>3 DEF StartExport, StartFolder, Waited, Forget
<1>4. CASE WaitInterrupted
  BY <1>4 DEF WaitInterrupted, vars, Waiting
<1>5. CASE MachineCrash
  <2>1. pc[Waiter] = "idle" <=> pc'[Waiter] = "idle"
    BY <1>5 DEF MachineCrash, Crash
  <2>2. UNCHANGED <<kind, status>> /\ (phase' = phase \/ phase' = "raised")
    BY <1>5 DEF MachineCrash
  <2>3. pc[Waiter] # "idle" => phase' = phase
    BY <1>5 DEF MachineCrash, Waited, Waiting
  <2> QED BY <2>1, <2>2, <2>3
<1>6. CASE \E c \in Call : Downloads(c)
  <2>1. PICK c \in Call : Downloads(c)
    BY <1>6
  <2>2. UNCHANGED <<kind, phase, status>>
    BY <2>1 DEF Downloads, waitVars
  <2>3. pc[Waiter] # "idle" \/ pc'[Waiter] = pc[Waiter]
    BY <1>0, <2>1, OwnPlace DEF Downloads
  <2> QED BY <2>2, <2>3
<1>7. CASE Finished \/ UNCHANGED allVars
  BY <1>7 DEF Finished, allVars, vars, waitVars
<1> QED BY <1>1, <1>2, <1>3, <1>4, <1>5, <1>6, <1>7 DEF ExportNext

ExportInv == IInv /\ WaitInv /\ HandOver

LEMMA ExportInvariant == ExportSpec => []ExportInv
<1>1. ExportInit => ExportInv
  <2>1. Init /\ WaitInit => HandOver
    BY WaiterAssumption DEF Init, WaitInit, HandOver
  <2> QED BY <2>1, Initial, WaitInitial DEF ExportInit, ExportInv
<1>2. ExportInv /\ [ExportNext]_allVars => ExportInv'
  BY WaitInductive, DownloadsInductive, HandOverInductive DEF ExportInv
<1> QED BY <1>1, <1>2, PTL DEF ExportSpec

\* The deadline of a wait is overrun by the time of one request, and that of an
\* export by one interval more (client.py 549-551, 1066-1070).
THEOREM OverrunIsBounded == ExportSpec => []OverrunBounded
<1>1. WaitInv => OverrunBounded
  BY WaitAssumption DEF WaitInv, WaitTypeOK, OverrunBounded, LatestMark
<1> QED BY <1>1, ExportInvariant, PTL DEF ExportInv

\* No TimeoutError is raised for something that was over one request before the
\* deadline (client.py 546-551, 1059-1068).
THEOREM OverIsAlwaysNoticed == ExportSpec => []OverIsNoticed
<1>1. WaitInv => OverIsNoticed
  BY DEF WaitInv
<1> QED BY <1>1, ExportInvariant, PTL DEF ExportInv

\* Only a completed export is downloaded, and only by a wait that came to its
\* end (client.py 1072-1100).
THEOREM DownloadsAreFinished == ExportSpec => []OnlyFinishedDownloaded
<1>1. HandOver => OnlyFinishedDownloaded
  BY DEF HandOver, OnlyFinishedDownloaded
<1> QED BY <1>1, ExportInvariant, PTL DEF ExportInv

\* The wait keeps its types, and so does every download beside it (client.py
\* 535-551, 1048-1100, 1251-1318).
THEOREM WaitTypeCorrect == ExportSpec => []ExportTypeOK
<1>1. ExportInv => ExportTypeOK
  BY Consequences DEF ExportInv, WaitInv, ExportTypeOK
<1> QED BY <1>1, ExportInvariant, PTL

\* The promises of the downloads to a destination hold while one of the calls
\* waits for what it downloads (client.py 1048-1100, 1298-1318).
THEOREM DownloadsUndisturbed ==
  ExportSpec => [](WholeOrPrevious /\ CrashSafe /\ NoLeftovers /\ OwnFileKept)
<1>1. ExportInv => WholeOrPrevious /\ CrashSafe /\ NoLeftovers /\ OwnFileKept
  BY Consequences DEF ExportInv
<1> QED BY <1>1, ExportInvariant, PTL

\* The same holds while one of the calls waits first: no step of the wait touches
\* the destination, however it ends, and the download after it keeps the promise
\* (client.py 1048-1100, 1210-1219, 1251-1318).
THEOREM WaitingKeepsIt == ExportSpec => KeepsDestination
<1>1. IInv /\ [ExportNext]_allVars => [Replaced!Next]_(Replaced!vars)
  <2> SUFFICES ASSUME IInv, [ExportNext]_allVars
               PROVE  Replaced!Next \/ UNCHANGED Replaced!vars
    OBVIOUS
  <2>1. CASE StartExport
    <3>1. PICK to \in {"storage", "raised"} : pc' = [pc EXCEPT ![Waiter] = to]
      BY <2>1 DEF StartExport, Goto
    <3>2. pc[Waiter] = "idle" /\ UNCHANGED <<target, onDisk>>
      BY <2>1 DEF StartExport, Waited, disk
    <3> QED BY <3>1, <3>2, OnTheWay, WaiterAssumption DEF Outcome, Ended
  <2>2. CASE StartFolder
    <3>1. Step(Waiter)
      BY <2>2 DEF StartFolder, Step
    <3> QED BY <3>1, CallRefines, WaiterAssumption
  <2>3. CASE \E c \in Call : Downloads(c)
    BY <2>3, CallRefines DEF Downloads
  <2>4. CASE MachineCrash
    BY <2>4, CrashRefines DEF MachineCrash, Replaced!Next
  <2>5. CASE CreateExport \/ Waits \/ WaitInterrupted \/ Finished \/ UNCHANGED allVars
    <3>1. UNCHANGED vars
      BY <2>5 DEF CreateExport, Waits, WaitInterrupted, Finished, allVars
    <3> QED BY <3>1 DEF vars, Replaced!vars
  <2> QED BY <2>1, <2>2, <2>3, <2>4, <2>5 DEF ExportNext
<1>2. ExportInit => Replaced!Init
  BY InitialRefines DEF ExportInit
<1> QED BY <1>1, <1>2, ExportInvariant, PTL
        DEF ExportSpec, ExportInv, KeepsDestination, Replaced!Spec
=============================================================================
