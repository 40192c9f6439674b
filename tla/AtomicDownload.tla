--------------------------- MODULE AtomicDownload ---------------------------
(***************************************************************************)
(* Kanopy._download, _download_url and _write_download_atomically          *)
(* (client.py 1251-1318): several calls save an export to one destination, *)
(* from the API itself or from the storage URL it redirects to, while the  *)
(* connection breaks, the user interrupts and the machine loses power.     *)
(*                                                                         *)
(* A file is the sequence of chunks at its positions, each named by the    *)
(* call that wrote it.  What fsync has not made durable is gone after a    *)
(* crash, and a rename that is not durable yet may be undone by it.        *)
(*                                                                         *)
(* A definition marked "fault" is a wrong variant of the one that follows  *)
(* it; nothing uses it (README, "Faults").                                 *)
(***************************************************************************)
EXTENDS Naturals, Sequences

CONSTANTS
    Call,       \* the calls of _download with this destination
    Size,       \* the chunks of the whole export
    MaxCrashes, \* bound: how often the machine crashes
    NoFile, NoLength

ASSUME DownloadAssumption ==
    /\ Size \in Nat \ {0} /\ MaxCrashes \in Nat
    /\ NoLength \notin Nat
    /\ NoFile \notin Seq(Call \cup {NoFile})

VARIABLES
    pc,       \* where each call is
    answer,   \* the response each call streams
    got,      \* "written": the chunks each call has received
    temp,     \* the temporary files, by name
    synced,   \* how many chunks of each temporary file are durable
    target,   \* the file at the destination
    onDisk,   \* the file a crash would find at the destination
    crashes

vars == <<pc, answer, got, temp, synced, target, onDisk, crashes>>
disk == <<temp, synced, target, onDisk>>

Ended == {"returned", "raised", "interrupted", "crashed"}
InWriter == {"opening", "streaming", "syncing", "checking", "replacing"}

\* What a response carries: its kind by status, the chunks it would have when
\* complete, and its Content-Length.  An export may come without a length, and
\* one with a Content-Encoding declares the bytes as sent, not the chunks that
\* iter_bytes decodes from them.
Answers ==
    [kind : {"export"}, length : {Size}, declared : {Size, Size - 1, NoLength}]
        \cup [kind : {"redirect"}, length : {1}, declared : {1, NoLength}]
        \cup [kind : {"error"}, length : {1}, declared : {1, NoLength}]
NoAnswer == [kind |-> "none", length |-> 0, declared |-> NoLength]

\* A file and how it got its name: the answer it was streamed from.
Old == [chunks |-> << >>, from |-> NoAnswer]

\* uuid4 gives every call a temporary name of its own
SharedName(c) == CHOOSE d \in Call : TRUE           \* fault
TempName(c) == c

Init ==
    /\ pc = [c \in Call |-> "idle"]
    /\ answer = [c \in Call |-> NoAnswer]
    /\ got = [c \in Call |-> 0]
    /\ temp = [c \in Call |-> NoFile] /\ synced = [c \in Call |-> 0]
    /\ target = Old /\ onDisk = Old
    /\ crashes = 0

Goto(c, where) == pc' = [pc EXCEPT ![c] = where]

-----------------------------------------------------------------------------
\* _download: the GET on the API, never retried.

Begin(c) ==
    /\ pc[c] = "idle" /\ Goto(c, "api")
    /\ UNCHANGED <<answer, got, disk, crashes>>

\* A redirect is followed on the storage client when it names a Location.
ApiRedirects(c) ==
    /\ pc[c] = "api"
    /\ Goto(c, "storage") \/ Goto(c, "raised")
    /\ UNCHANGED <<answer, got, disk, crashes>>

\* Which answers are written to the file: is_error is false for a redirect,
\* and only _download treats redirects apart.
AcceptedAll == {"export", "redirect", "error"}      \* fault
AcceptedKinds == {"export", "redirect"}

Answered(c) ==
    \E a \in Answers :
        /\ pc[c] = "api" => a.kind # "redirect"     \* ApiRedirects
        /\ IF a.kind \in AcceptedKinds
             THEN Goto(c, "opening") /\ answer' = [answer EXCEPT ![c] = a]
             ELSE Goto(c, "raised") /\ UNCHANGED answer
        /\ UNCHANGED <<got, disk, crashes>>

ApiAnswers(c) == pc[c] = "api" /\ Answered(c)

\* _download_url: the GET on the storage URL.
StorageAnswers(c) == pc[c] = "storage" /\ Answered(c)

\* No answer from the API or the storage service, or no directory to write
\* into: the exception leaves the call, nothing is on disk.
RequestFails(c) ==
    /\ pc[c] \in {"api", "storage", "opening"}
    /\ Goto(c, "raised")
    /\ UNCHANGED <<answer, got, disk, crashes>>

-----------------------------------------------------------------------------
\* _write_download_atomically.

OpenTemp(c) ==
    /\ pc[c] = "opening" /\ Goto(c, "streaming")
    /\ temp' = [temp EXCEPT ![TempName(c)] = << >>]
    /\ synced' = [synced EXCEPT ![TempName(c)] = 0]
    /\ UNCHANGED <<answer, got, target, onDisk, crashes>>

\* the file with call c's chunk at position n; NoFile stands for a gap
WrittenOnePast(file, n, c) ==                       \* fault
    [i \in 1..(n + 1) |->
        IF i = n + 1 THEN c ELSE IF i <= Len(file) THEN file[i] ELSE NoFile]
Written(file, n, c) ==
    [i \in 1..(IF n > Len(file) THEN n ELSE Len(file)) |->
        IF i = n THEN c ELSE IF i <= Len(file) THEN file[i] ELSE NoFile]

MoreChunks(c) == got[c] < answer[c].length
Chunk(c) ==
    /\ pc[c] = "streaming" /\ MoreChunks(c)
    /\ temp[TempName(c)] # NoFile
    /\ got' = [got EXCEPT ![c] = @ + 1]
    /\ temp' = [temp EXCEPT ![TempName(c)] = Written(@, got[c] + 1, c)]
    /\ UNCHANGED <<pc, answer, synced, target, onDisk, crashes>>

\* iter_bytes ends: at the end of the body, or where a connection closed
\* early without the transport noticing.
BodyEnds(c) ==
    /\ pc[c] = "streaming" /\ Goto(c, "syncing")
    /\ UNCHANGED <<answer, got, disk, crashes>>

SyncNothing(c) ==                                   \* fault
    /\ pc[c] = "syncing" /\ Goto(c, "checking")
    /\ UNCHANGED <<answer, got, disk, crashes>>
Sync(c) ==
    /\ pc[c] = "syncing" /\ Goto(c, "checking")
    /\ synced' = [synced EXCEPT ![TempName(c)] = got[c]]
    /\ UNCHANGED <<answer, got, temp, target, onDisk, crashes>>

Unlink(c) ==
    /\ temp' = [temp EXCEPT ![TempName(c)] = NoFile]
    /\ synced' = [synced EXCEPT ![TempName(c)] = 0]

WriterFailsReturning(c) ==                          \* fault
    /\ pc[c] \in {"streaming", "syncing", "checking", "replacing"}
    /\ Unlink(c) /\ Goto(c, "returned")
    /\ UNCHANGED <<answer, got, target, onDisk, crashes>>

\* Any Exception of the try block: the stream breaks, the disk is full, fsync
\* or the rename fails, Content-Length is no number.
WriterFails(c) ==
    /\ pc[c] \in {"streaming", "syncing", "checking", "replacing"}
    /\ Unlink(c) /\ Goto(c, "raised")
    /\ UNCHANGED <<answer, got, target, onDisk, crashes>>

LengthIgnored(c) == TRUE                            \* fault
LengthMatches(c) == answer[c].declared \in {NoLength, got[c]}

CheckPasses(c) ==
    /\ pc[c] = "checking" /\ LengthMatches(c)
    /\ Goto(c, "replacing")
    /\ UNCHANGED <<answer, got, disk, crashes>>

CheckFailsKeeping(c) ==                             \* fault
    /\ pc[c] = "checking" /\ ~LengthMatches(c)
    /\ Goto(c, "raised")
    /\ UNCHANGED <<answer, got, disk, crashes>>
CheckFails(c) ==
    /\ pc[c] = "checking" /\ ~LengthMatches(c)
    /\ Unlink(c) /\ Goto(c, "raised")
    /\ UNCHANGED <<answer, got, target, onDisk, crashes>>

\* os.replace: the old file is gone from the destination, the new one there.
\* A crash may still find the old one, or the durable part of the new one.
\* The call has yet to return.
Replace(c) ==
    /\ pc[c] = "replacing" /\ temp[TempName(c)] # NoFile
    /\ target' = [chunks |-> temp[TempName(c)], from |-> answer[c]]
    /\ \/ UNCHANGED onDisk
       \/ onDisk' = [chunks |-> SubSeq(temp[TempName(c)], 1, synced[TempName(c)]),
                     from |-> answer[c]]
    /\ Unlink(c) /\ Goto(c, "replaced")
    /\ UNCHANGED <<answer, got, crashes>>

\* The path is returned, through the end of the with statement that closes the
\* response; should closing it raise, the caller gets that error, and the
\* destination stays replaced.
Return(c) ==
    /\ pc[c] = "replaced" /\ Goto(c, "returned")
    /\ UNCHANGED <<answer, got, disk, crashes>>

CloseFails(c) ==
    /\ pc[c] = "replaced" /\ Goto(c, "raised")
    /\ UNCHANGED <<answer, got, disk, crashes>>

\* KeyboardInterrupt is no Exception: the temporary file stays, or what it was
\* renamed to.
Interrupted(c) ==
    /\ pc[c] \in {"api", "storage", "replaced"} \cup InWriter
    /\ Goto(c, "interrupted")
    /\ UNCHANGED <<answer, got, disk, crashes>>

\* The machine goes down and comes up again: running calls are gone, the
\* destination holds what was durable.
Crash ==
    /\ crashes < MaxCrashes
    /\ crashes' = crashes + 1
    /\ pc' = [c \in Call |-> IF pc[c] \in {"idle"} \cup Ended THEN pc[c]
                                                           ELSE "crashed"]
    /\ temp' = [c \in Call |-> IF temp[c] = NoFile THEN NoFile
                               ELSE SubSeq(temp[c], 1, synced[c])]
    /\ target' = onDisk
    /\ UNCHANGED <<answer, got, synced, onDisk>>

Step(c) ==
    \/ Begin(c) \/ ApiRedirects(c) \/ ApiAnswers(c) \/ StorageAnswers(c)
    \/ RequestFails(c) \/ OpenTemp(c) \/ Chunk(c) \/ BodyEnds(c) \/ Sync(c)
    \/ WriterFails(c) \/ CheckPasses(c) \/ CheckFails(c) \/ Replace(c)
    \/ Return(c) \/ CloseFails(c)

AllOver ==
    /\ \A c \in Call : pc[c] \in Ended
    /\ UNCHANGED vars

Next == (\E c \in Call : Step(c) \/ Interrupted(c)) \/ Crash \/ AllOver

Spec == Init /\ [][Next]_vars

-----------------------------------------------------------------------------
\* Every variable has the shape the code gives it; no file has a gap.
TypeOK ==
    /\ pc \in [Call -> {"idle", "api", "storage", "replaced"} \cup InWriter \cup Ended]
    /\ answer \in [Call -> Answers \cup {NoAnswer}]
    /\ got \in [Call -> 0..Size]
    /\ \A c \in Call :
          /\ temp[c] = NoFile \/ temp[c] \in Seq(Call)
          /\ synced[c] \in 0..Size
    /\ \A file \in {target, onDisk} :
          file.chunks \in Seq(Call) /\ file.from \in Answers \cup {NoAnswer}
    /\ crashes \in 0..MaxCrashes

\* What a reader of the destination may find: the old file, or all that one
\* single call received of one answer, complete as far as its length tells.
Valid(file) ==
    \/ file = Old
    \/ /\ \E c \in Call : \A i \in DOMAIN file.chunks : file.chunks[i] = c
       /\ file.from.declared \in {NoLength, Len(file.chunks)}
       /\ file.from.kind # "error"

\* README 87-89: a partial response cannot replace a valid export, however
\* many calls write to the destination.
WholeOrPrevious == Valid(target)

\* Nor does a crash leave a partial export in its place: the rename never
\* becomes durable before the bytes (client.py 1307-1314).
CrashSafe == Valid(onDisk)

\* A call that ends by itself leaves no temporary file behind
\* (client.py 1316-1318, whose unlink is taken to succeed), and no call removes
\* the file of another.
NoLeftovers ==
    \A c \in Call : pc[c] \in {"returned", "raised"} => temp[TempName(c)] = NoFile
OwnFileKept ==
    \A c \in Call :
        pc[c] \in InWriter \ {"opening"} =>
            /\ temp[TempName(c)] # NoFile
            /\ Len(temp[TempName(c)]) = got[c]

-----------------------------------------------------------------------------
\* The whole answers a call may receive, as files.
WholeFiles(c) ==
    {file \in [chunks : {[i \in 1..n |-> c] : n \in 0..Size}, from : Answers] :
        /\ file.from.kind # "error"
        /\ file.from.declared \in {NoLength, Len(file.chunks)}}

Outcome(place) ==
    IF place \in {"idle", "returned"} THEN place
    ELSE IF place = "replaced" THEN "installed"
    ELSE IF place \in Ended THEN "failed" ELSE "running"

Replaced == INSTANCE Destination WITH
    Whole <- [c \in Call |-> WholeFiles(c)],
    outcome <- [c \in Call |-> Outcome(pc[c])]

\* README 87-89, client.py 1251-1318: the destination changes in one step, from
\* one whole file to another, and no call changes it twice; a call returns only
\* after it has replaced the destination by a whole answer of its own.  One that
\* raises, is interrupted or dies has done so or has never touched it, whichever
\* side of the rename it ended on.  Nothing but a crash takes a file back.
KeepsDestination == Replaced!Spec

-----------------------------------------------------------------------------
\* README 87-89, "so a partial response cannot replace a valid export": what
\* replaces an export is one.
OnlyExportsReplace == target = Old \/ target.from.kind = "export"

\* client.py 1311: "Incomplete download" is raised for incomplete downloads.
WholeAnswersPass ==
    \A c \in Call :
        pc[c] = "checking" /\ got[c] = answer[c].length => LengthMatches(c)
=============================================================================
