--------------------------- MODULE MultipartUpload ---------------------------
(***************************************************************************)
(* Kanopy.upload_multipart from the init request to its return or raise    *)
(* (client.py 797-884), with _upload_part (890-940) run by the workers of  *)
(* the ThreadPoolExecutor.  The calling thread, the workers, the storage   *)
(* session on the other side and the file on disk all move independently.  *)
(*                                                                         *)
(* A request that gets no usable answer may or may not have had its effect *)
(* on the service: a PUT that timed out stays in flight and may land at    *)
(* any later time.  Part bytes are abstracted to the version of the file   *)
(* they were read from, and an ETag to the version the service stored.     *)
(*                                                                         *)
(* A definition marked "fault" is a wrong variant of the one that follows  *)
(* it; nothing uses it (README, "Faults").                                 *)
(***************************************************************************)
EXTENDS PartPlan, Sequences, FiniteSets, FiniteSetsExt, Functions

CONSTANTS
    TotalSize, AskedPart, AskedWorkers,  \* of the call, accepted by PartPlan
    Attempts,                            \* part_retries
    MaxEdits,       \* bound: how often the file is rewritten during the call
    MaxInterrupts,  \* bound: how often KeyboardInterrupt hits the caller
    None            \* no part content

ASSUME CallAssumption ==
    /\ TotalSize \in Nat /\ AskedPart \in Nat /\ AskedWorkers \in Nat
    /\ Attempts \in Nat
    /\ Accepts(TotalSize, AskedPart, AskedWorkers, Attempts)

ASSUME BoundsAssumption ==
    MaxEdits \in Nat /\ MaxInterrupts \in Nat /\ None \notin Nat

Eff == EffectiveSize(TotalSize, AskedPart)
Count == PartCount(TotalSize, Eff)
Part == 1..Count
Bytes(p) == PartBytes(p, TotalSize, Eff)
Workers == BoundedWorkers(AskedWorkers, Count, Eff)

VARIABLES
    phase,        \* where the calling thread is
    error,        \* what it raises or will raise: "none" while all is well
    decision,     \* the request that ends the session, once it is due
    uploaded,     \* the collected parts, in the order they were collected
    transferred,  \* the bytes reported to the progress callback
    work,         \* of each part: the state of its future and of its worker
    attempt,      \* the loop variable of _upload_part
    signed,       \* the attempt the presigned URL in hand was issued for
    content,      \* the buffer: the file version the part was read from
    session,      \* the storage session
    stored,       \* the content of each part the service holds
    inflight,     \* PUTs given up by their worker that may still land
    version,      \* of the file on disk
    interrupts

callerVars == <<phase, error, decision, uploaded, transferred, interrupts>>
workerVars == <<work, attempt, signed, content>>
serverVars == <<session, stored, inflight>>
vars == <<phase, error, decision, uploaded, transferred, work, attempt, signed,
          content, session, stored, inflight, version, interrupts>>

Version == 0..MaxEdits
Ended == {"returned", "raised"}
Settled == {"done", "failed"}                       \* future.done()
OnWorker == {"reading", "presigning", "putting", "backoff"}

Running == {p \in Part : work[p] \in OnWorker}
Reported == {uploaded[i].number : i \in 1..Len(uploaded)}

Init ==
    /\ phase = "initializing" /\ error = "none" /\ decision = "none"
    /\ uploaded = << >> /\ transferred = 0 /\ interrupts = 0
    /\ work = [p \in Part |-> "unsubmitted"]
    /\ attempt = [p \in Part |-> 0] /\ signed = [p \in Part |-> 0]
    /\ content = [p \in Part |-> None]
    /\ session = "none" /\ stored = [p \in Part |-> None] /\ inflight = {}
    /\ version = 0

-----------------------------------------------------------------------------
\* The calling thread.

\* init-presigned-multipart answers and every part is submitted.
Opened ==
    /\ phase = "initializing"
    /\ session' = "open"
    /\ phase' = "collecting"
    /\ work' = [p \in Part |-> "queued"]
    /\ UNCHANGED <<error, decision, uploaded, transferred, interrupts, attempt,
                   signed, content, stored, inflight, version>>

\* The init request fails, its answer is lost or malformed, or the user
\* interrupts it: no part is submitted, and nothing aborts.
InitFails ==
    /\ phase = "initializing"
    /\ session' \in {"none", "open"}
    /\ phase' = "raised" /\ error' = "init"
    /\ UNCHANGED <<decision, uploaded, transferred, interrupts, workerVars,
                   stored, inflight, version>>

\* as_completed yields a part that succeeded.  The progress callback, if it
\* raises, fails the transfer like a part does.
AddedBytesFull(p) == Eff                            \* fault
AddedBytes(p) == Bytes(p)
CollectDone(p) ==
    /\ phase = "collecting" /\ work[p] = "done" /\ p \notin Reported
    /\ uploaded' = Append(uploaded, [number |-> p, etag |-> content[p]])
    /\ transferred' = transferred + AddedBytes(p)
    /\ \/ UNCHANGED <<phase, error>>
       \/ phase' = "draining" /\ error' = "progress"
    /\ UNCHANGED <<decision, interrupts, workerVars, serverVars, version>>

\* future.result() re-raises the part's exception; leaving the "with" block
\* waits for every job, the ones still queued included.
CollectFailed(p) ==
    /\ phase = "collecting" /\ work[p] = "failed"
    /\ phase' = "draining" /\ error' = "part"
    /\ UNCHANGED <<decision, uploaded, transferred, interrupts, workerVars,
                   serverVars, version>>

\* The executor has shut down: an Exception goes on to the abort request, a
\* KeyboardInterrupt is not one and leaves the call.
DrainedEarly == \A p \in Part : work[p] # "putting"     \* fault
DrainedIfDone == \A p \in Part : work[p] = "done"       \* fault
Drained == \A p \in Part : work[p] \in Settled
AbortsOnPart == error = "part"                      \* fault
Aborts == error # "interrupt"
LeavePool ==
    /\ phase = "draining" /\ Drained
    /\ IF Aborts THEN phase' = "aborting" /\ decision' = "abort"
                 ELSE phase' = "raised" /\ UNCHANGED decision
    /\ UNCHANGED <<error, uploaded, transferred, interrupts, workerVars,
                   serverVars, version>>

\* The abort request, answered or not: its failure is only warned about.
AbortEnds ==
    /\ phase = "aborting"
    /\ session' \in {session} \cup IF session = "open" THEN {"aborted"} ELSE {}
    /\ phase' = "raised"
    /\ UNCHANGED <<error, decision, uploaded, transferred, interrupts,
                   workerVars, stored, inflight, version>>

\* All parts are collected: the manifest is sorted by part number.
Ascending(manifest) ==
    \A i, j \in 1..Len(manifest) :
        i < j => manifest[i].number <= manifest[j].number
Rearranged(manifest) ==
    {[i \in 1..Len(manifest) |-> manifest[pi[i]]] :
        pi \in Bijection(1..Len(manifest), 1..Len(manifest))}
ByCollection(manifest) == manifest                  \* fault
Sorted(manifest) == CHOOSE s \in Rearranged(manifest) : Ascending(s)
NothingRunning == Running = {}                      \* fault
AllReported == Reported = Part
StartCompletion ==
    /\ phase = "collecting" /\ AllReported
    /\ uploaded' = Sorted(uploaded)
    /\ phase' = "completing" /\ decision' = "commit"
    /\ UNCHANGED <<error, transferred, interrupts, workerVars, serverVars,
                   version>>

\* External: the service assembles an object only from the parts it holds.
ManifestMatches ==
    /\ Len(uploaded) = Count
    /\ \A i \in 1..Count : uploaded[i] = [number |-> i, etag |-> stored[i]]

\* complete-presigned-multipart takes effect; the answer may get lost.
Completed ==
    /\ phase = "completing" /\ session = "open" /\ ManifestMatches
    /\ session' = "completed"
    /\ \/ phase' = "returned" /\ UNCHANGED error
       \/ phase' = "raised" /\ error' = "completion"
    /\ UNCHANGED <<decision, uploaded, transferred, interrupts, workerVars,
                   stored, inflight, version>>

\* A sidecar cannot be opened or transcode_config has no update ("unsent"), or
\* the request fails: nothing catches it.
CompletionFails ==
    /\ phase = "completing"
    /\ phase' = "raised" /\ error' \in {"unsent", "completion"}
    /\ UNCHANGED <<decision, uploaded, transferred, interrupts, workerVars,
                   serverVars, version>>

\* Ctrl-C in the calling thread: inside the pool it still waits for the jobs,
\* a second one ends the wait and the workers go on alone.
Interrupted ==
    /\ interrupts < MaxInterrupts
    /\ \/ phase = "collecting" /\ phase' = "draining"
       \/ phase \in {"draining", "aborting", "completing"} /\ phase' = "raised"
    /\ error' = "interrupt" /\ interrupts' = interrupts + 1
    /\ UNCHANGED <<decision, uploaded, transferred, workerVars, serverVars,
                   version>>

Caller ==
    \/ Opened \/ InitFails \/ LeavePool \/ AbortEnds \/ StartCompletion
    \/ Completed \/ CompletionFails
    \/ \E p \in Part : CollectDone(p) \/ CollectFailed(p)

-----------------------------------------------------------------------------
\* The workers: _upload_part for part p.

WorkerAlwaysFree == TRUE                            \* fault
WorkerFree == Cardinality(Running) < Workers
Start(p) ==
    /\ work[p] = "queued" /\ WorkerFree
    /\ \A q \in Part : q < p => work[q] # "queued"  \* the queue is FIFO
    /\ work' = [work EXCEPT ![p] = "reading"]
    /\ UNCHANGED <<callerVars, attempt, signed, content, serverVars, version>>

Read(p) ==
    /\ work[p] = "reading"
    /\ work' = [work EXCEPT ![p] = "presigning"]
    /\ content' = [content EXCEPT ![p] = version]
    /\ attempt' = [attempt EXCEPT ![p] = 1]
    /\ UNCHANGED <<callerVars, signed, serverVars, version>>

\* The file cannot be opened or read, or has become too short.
ReadFails(p) ==
    /\ work[p] = "reading"
    /\ work' = [work EXCEPT ![p] = "failed"]
    /\ UNCHANGED <<callerVars, attempt, signed, content, serverVars, version>>

Presigned(p) ==
    /\ work[p] = "presigning" /\ session = "open"
    /\ work' = [work EXCEPT ![p] = "putting"]
    /\ signed' = [signed EXCEPT ![p] = attempt[p]]
    /\ UNCHANGED <<callerVars, attempt, content, serverVars, version>>

\* presign-part is outside the try of the attempt and is a POST that _request
\* does not retry: its failure is the part's.  So is an answer without a usable
\* URL, for which the PUT raises something else than an httpx.HTTPError.
PresignFails(p) ==
    /\ work[p] = "presigning"
    /\ work' = [work EXCEPT ![p] = "failed"]
    /\ UNCHANGED <<callerVars, attempt, signed, content, serverVars, version>>

\* The service stores the part and answers with its ETag.
PutAccepted(p) ==
    /\ work[p] = "putting" /\ session = "open"
    /\ stored' = [stored EXCEPT ![p] = content[p]]
    /\ work' = [work EXCEPT ![p] = "done"]
    /\ UNCHANGED <<callerVars, attempt, signed, content, session, inflight,
                   version>>

\* No answer, an error status, or a success without an ETag.
TriesLeftOneMore(p) == attempt[p] <= Attempts       \* fault
TriesLeft(p) == attempt[p] < Attempts
PutFails(p) ==
    /\ work[p] = "putting"
    /\ inflight' = inflight \cup {[number |-> p, content |-> content[p]]}
    /\ work' = [work EXCEPT ![p] = IF TriesLeft(p) THEN "backoff" ELSE "failed"]
    /\ UNCHANGED <<callerVars, attempt, signed, content, session, stored, version>>

\* Faults: the retry reuses its URL, or reads the file again.
RetryPut(p) ==
    /\ work[p] = "backoff"
    /\ work' = [work EXCEPT ![p] = "putting"]
    /\ attempt' = [attempt EXCEPT ![p] = @ + 1]
    /\ UNCHANGED <<callerVars, signed, content, serverVars, version>>
RetryRead(p) ==
    /\ work[p] = "backoff"
    /\ work' = [work EXCEPT ![p] = "presigning"]
    /\ attempt' = [attempt EXCEPT ![p] = @ + 1]
    /\ content' = [content EXCEPT ![p] = version]
    /\ UNCHANGED <<callerVars, signed, serverVars, version>>
\* The pause is over and the loop goes round with the same bytes.
Retry(p) ==
    /\ work[p] = "backoff"
    /\ work' = [work EXCEPT ![p] = "presigning"]
    /\ attempt' = [attempt EXCEPT ![p] = @ + 1]
    /\ UNCHANGED <<callerVars, signed, content, serverVars, version>>

Worker(p) ==
    \/ Start(p) \/ Read(p) \/ ReadFails(p) \/ Presigned(p) \/ PresignFails(p)
    \/ PutAccepted(p) \/ PutFails(p) \/ Retry(p)

-----------------------------------------------------------------------------
\* The surroundings.

\* External: a PUT that its worker gave up reaches the service after all.
Land(put) ==
    /\ inflight' = inflight \ {put}
    /\ stored' = IF session = "open"
                   THEN [stored EXCEPT ![put.number] = put.content] ELSE stored
    /\ UNCHANGED <<callerVars, workerVars, session, version>>

\* External: a completion whose caller gave up takes effect after all.
LateCompletion ==
    /\ phase = "raised" /\ decision = "commit" /\ error # "unsent"
    /\ session = "open" /\ ManifestMatches
    /\ session' = "completed"
    /\ UNCHANGED <<callerVars, workerVars, stored, inflight, version>>

\* External: the service ends the session itself, by cleanup, because the job
\* was cancelled elsewhere, or for an abort request that arrives late.
SessionExpires ==
    /\ session = "open"
    /\ session' = "expired"
    /\ UNCHANGED <<callerVars, workerVars, stored, inflight, version>>

\* External: another program rewrites the video.
EditFile ==
    /\ version < MaxEdits
    /\ version' = version + 1
    /\ UNCHANGED <<callerVars, workerVars, serverVars>>

\* The call is over; what its workers and requests left behind is, too.
AllOver ==
    /\ phase \in Ended
    /\ UNCHANGED vars

Next ==
    \/ Caller \/ Interrupted \/ LateCompletion \/ SessionExpires \/ EditFile
    \/ AllOver
    \/ \E p \in Part : Worker(p)
    \/ \E put \in inflight : Land(put)

Spec == Init /\ [][Next]_vars

\* Every thread keeps running and every request ends, by its answer or by
\* the timeouts both HTTP clients are built with.  Nothing is assumed of late
\* requests, the service, the file or the user.
FairSpec == Spec /\ WF_vars(Caller) /\ \A p \in Part : WF_vars(Worker(p))

-----------------------------------------------------------------------------
\* Every variable has the shape the code gives it.
TypeOK ==
    /\ phase \in {"initializing", "collecting", "draining", "aborting",
                  "completing"} \cup Ended
    /\ error \in {"none", "init", "part", "progress", "unsent", "completion",
                  "interrupt"}
    /\ decision \in {"none", "abort", "commit"}
    /\ uploaded \in Seq([number : Part, etag : Version])
    /\ transferred \in Nat
    /\ interrupts \in 0..MaxInterrupts
    /\ work \in [Part -> {"unsubmitted", "queued"} \cup OnWorker \cup Settled]
    /\ attempt \in [Part -> 0..Attempts]
    /\ signed \in [Part -> 0..Attempts]
    /\ content \in [Part -> Version \cup {None}]
    /\ session \in {"none", "open", "completed", "aborted", "expired"}
    /\ stored \in [Part -> Version \cup {None}]
    /\ inflight \subseteq [number : Part, content : Version]
    /\ version \in Version

\* The manifest sent for completion lists every part once, in order, with the
\* ETag of what the service holds for it, whatever late PUTs landed meanwhile
\* (client.py 849, 874-884).
CompletionFaithful == phase = "completing" => ManifestMatches

\* Once the caller has decided how the session ends, no worker is left that
\* could still write to it: the abort cannot race a PUT that would outlive it,
\* and completion does not overtake a part (client.py 810, 834-838).
DecidedAfterQuiescence ==
    decision # "none" => \A p \in Part : work[p] \in Settled

\* A part never changes once the service holds it: retries and late PUTs
\* repeat the same bytes, though the file may be rewritten (client.py 902-921).
StoredPartsStable ==
    [][\A p \in Part : stored[p] # None => stored'[p] = stored[p]]_vars

\* Every PUT of a part goes to a URL presigned since the part's last PUT, and
\* there are at most part_retries of them; a part whose PUTs fail is given up
\* after exactly so many (README 59-60, client.py 913-936).
FreshUrlPerPut ==
    [][\A p \in Part :
         /\ work[p] # "putting" /\ work'[p] = "putting" =>
               signed[p] < signed'[p] /\ signed'[p] <= Attempts
         /\ work[p] = "putting" /\ work'[p] = "failed" => signed[p] = Attempts]_vars

\* What the workers hold at one time fits into the buffer memory.
BytesOf(parts) == MapThenSumSet(Bytes, parts)
RunningBuffersFit == BytesOf(Running) <= BufferMemory

\* Progress counts each collected part once, with the bytes it really has, and
\* stands at the file size when completion is sent (client.py 828-833).
ProgressExact ==
    /\ transferred = BytesOf(Reported)
    /\ phase = "completing" => transferred = TotalSize

\* A call that fails on a part or on its progress callback has told the
\* service to drop the session (README 82-83, client.py 834-847).
FailureAborts ==
    phase = "raised" /\ error \in {"part", "progress"} => decision = "abort"

\* The call ends: no failure leaves it waiting for its own workers.
CallEnds == <>(phase \in Ended)

-----------------------------------------------------------------------------
\* The session as the caller's promise sees it.
Promise == INSTANCE UploadSession WITH
    session <- IF session \in {"aborted", "expired"} THEN "closed" ELSE session,
    held <- {p \in Part : stored[p] # None},
    outcome <- IF phase \in Ended THEN phase ELSE "running"

\* Every behaviour of the uploader keeps that promise.
KeepsPromise == Promise!Spec

-----------------------------------------------------------------------------
\* README 80-82: "Memory is bounded to 512 MiB across workers".  A part's
\* buffer is a local of _upload_part; when it raises, the traceback that the
\* future keeps holds that frame, and the futures live until the call ends.
Holding == {p \in Part : content[p] # None
                /\ work[p] \in {"presigning", "putting", "backoff", "failed"}}
MemoryBounded == phase \notin Ended => BytesOf(Holding) <= BufferMemory

\* README 82-83: "Failed transfers explicitly abort their storage upload
\* instead of waiting for server cleanup."
FailedUploadsAbort ==
    phase = "raised" /\ error # "init" /\ session = "open" => decision = "abort"
=============================================================================
