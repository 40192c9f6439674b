---------------------------- MODULE UploadRerun -----------------------------
(***************************************************************************)
(* Calls of upload (client.py 555-621) or of upload_multipart (717-884)    *)
(* that carry one upload_request_id: the same video is uploaded again      *)
(* after a call failed, was killed, or is only believed to be dead.  The   *)
(* transfer inside one multipart call is MultipartUpload; here a call      *)
(* sends its parts one by one and gives up at the first that fails.        *)
(*                                                                         *)
(* A request the service answers is executed in the step that sends it.    *)
(* One whose client has given up waiting may still be executed, later.     *)
(*                                                                         *)
(* A definition marked "fault" is a wrong variant of the one that follows  *)
(* it; nothing uses it (README, "Faults").                                 *)
(***************************************************************************)
EXTENDS Naturals, FiniteSets

CONSTANTS
    Call,       \* the calls with this upload_request_id
    Part,       \* the part numbers
    Versions,   \* bound: the contents the file has, one after the other
    MaxJobs,    \* bound: how many jobs the service creates
    NoVideo

ASSUME RerunAssumption ==
    /\ Versions \in Nat \ {0} /\ MaxJobs \in Nat \ {0}
    /\ NoVideo \notin [by : Call, content : [Part -> Nat]]

VARIABLES
    kind,       \* "single": upload; "multipart": upload_multipart
    pc,
    job, session,   \* the ids each call was given, 0 for none
    sent,       \* what each call has read and sent of each part, 0 for nothing
    file,       \* the version of the file on disk
    svc,        \* the service, see SvcInit
    late        \* requests nobody waits for

vars == <<kind, pc, job, session, sent, file, svc, late>>

Ended == {"returned", "raised"}
Nothing == [p \in Part |-> 0]
WholeFile == [p \in Part |-> file]

-----------------------------------------------------------------------------
\* External: the service.  The request id belongs to one job, which has at most
\* one active multipart session; an id whose job was deleted is free again.
SvcInit ==
    [job |-> 0, jobs |-> 0,             \* the job of the request id; jobs created
     session |-> 0, sessions |-> 0,     \* the active session; sessions opened
     held |-> Nothing,                  \* the parts the active session holds
     video |-> [j \in 1..MaxJobs |-> NoVideo]]

Request(op, c, j, s, content) ==
    [op |-> op, call |-> c, job |-> j, session |-> s, content |-> content]

HasVideo(s, j) == j # 0 /\ s.video[j] # NoVideo
Reserved(s) ==
    IF s.job # 0 THEN s ELSE [s EXCEPT !.job = s.jobs + 1, !.jobs = @ + 1]
Opened(s) ==
    IF s.session # 0 THEN s
    ELSE [s EXCEPT !.session = s.sessions + 1, !.sessions = @ + 1, !.held = Nothing]
Queued(s, j, r) == [s EXCEPT !.video[j] = [by |-> r.call, content |-> r.content]]

Accepts(s, r) ==
    CASE r.op = "create" -> s.job # 0 \/ s.jobs < MaxJobs
      [] r.op = "init" -> (s.job # 0 \/ s.jobs < MaxJobs) /\ ~HasVideo(s, s.job)
      [] r.op = "post" -> IF r.job = 0 THEN s.jobs < MaxJobs
                          ELSE r.job = s.job /\ ~HasVideo(s, r.job)
      [] r.op = "complete" -> r.session = s.session /\ r.content = s.held
      [] OTHER -> r.session = s.session

\* A part replaces the one before it; completing checks every ETag of the
\* manifest; an abort ends "exactly the active multipart upload".
Served(s, r) ==
    IF ~Accepts(s, r) THEN s ELSE
    CASE r.op = "create" -> Reserved(s)
      [] r.op = "init" -> Opened(Reserved(s))
      [] r.op = "post" ->
            IF r.job = 0 THEN Queued([s EXCEPT !.jobs = @ + 1], s.jobs + 1, r)
                         ELSE Queued(s, r.job, r)
      [] r.op = "put" ->
            [s EXCEPT !.held = [p \in Part |-> IF r.content[p] # 0 THEN r.content[p]
                                                                   ELSE @[p]]]
      [] r.op = "complete" -> [Queued(s, s.job, r) EXCEPT !.session = 0]
      [] r.op = "abort" -> [s EXCEPT !.session = 0]

-----------------------------------------------------------------------------
Init ==
    /\ kind \in {"single", "multipart"}
    /\ pc = [c \in Call |-> "idle"]
    /\ job = [c \in Call |-> 0] /\ session = [c \in Call |-> 0]
    /\ sent = [c \in Call |-> Nothing]
    /\ file = 1 /\ svc = SvcInit /\ late = {}

Goto(c, where) == pc' = [pc EXCEPT ![c] = where]

\* The request is executed and answered.
Answered(c, r, next) ==
    /\ Accepts(svc, r) /\ svc' = Served(svc, r)
    /\ Goto(c, next) /\ UNCHANGED late

\* It is refused, or its answer is lost before or after it was executed.
Failed(c, r, next) ==
    /\ \/ svc' = Served(svc, r) /\ UNCHANGED late
       \/ late' = late \cup {r} /\ UNCHANGED svc
    /\ Goto(c, next)

-----------------------------------------------------------------------------
\* upload.

\* ValueError before any request: the capture device, a flight log, no title.
Refuse(c) ==
    /\ pc[c] = "idle" /\ Goto(c, "raised")
    /\ UNCHANGED <<kind, job, session, sent, file, svc, late>>

UploadWithoutJob == "post"                          \* fault
UploadBegins == "create"

Begin(c) ==
    /\ pc[c] = "idle"
    /\ Goto(c, IF kind = "single" THEN UploadBegins ELSE "init")
    /\ UNCHANGED <<kind, job, session, sent, file, svc, late>>

CreateJob(c) ==
    /\ pc[c] = "create"
    /\ LET r == Request("create", c, 0, 0, Nothing) IN
        \/ Answered(c, r, "post") /\ job' = [job EXCEPT ![c] = svc'.job]
        \/ Failed(c, r, "raised") /\ UNCHANGED job
    /\ UNCHANGED <<kind, session, sent, file>>

\* The files are opened after the job was created; one may be missing.
OpenFails(c) ==
    /\ pc[c] = "post" /\ Goto(c, "raised")
    /\ UNCHANGED <<kind, job, session, sent, file, svc, late>>

PostVideo(c) ==
    /\ pc[c] = "post"
    /\ sent' = [sent EXCEPT ![c] = WholeFile]
    /\ LET r == Request("post", c, job[c], 0, WholeFile) IN
        Answered(c, r, "returned") \/ Failed(c, r, "raised")
    /\ UNCHANGED <<kind, job, session, file>>

-----------------------------------------------------------------------------
\* upload_multipart.

\* The init request is outside the try block: no abort.
AfterInitAborting == "aborting"                     \* fault
AfterInit == "raised"
InitSession(c) ==
    /\ pc[c] = "init"
    /\ LET r == Request("init", c, 0, 0, Nothing) IN
        \/ /\ Answered(c, r, "parts")
           /\ job' = [job EXCEPT ![c] = svc'.job]
           /\ session' = [session EXCEPT ![c] = svc'.session]
        \/ Failed(c, r, AfterInit) /\ UNCHANGED <<job, session>>
    /\ UNCHANGED <<kind, sent, file>>

\* Every part is read and sent, also those a resumed session already holds.
PutPart(c, p) ==
    /\ pc[c] = "parts" /\ sent[c][p] = 0
    /\ LET r == Request("put", c, job[c], session[c], [Nothing EXCEPT ![p] = file]) IN
        \/ Answered(c, r, "parts") /\ sent' = [sent EXCEPT ![c][p] = file]
        \/ Failed(c, r, "aborting") /\ UNCHANGED sent
    /\ UNCHANGED <<kind, job, session, file>>

\* The manifest names the ETags of the call's own PUTs.
ManifestOfSession(c) == svc.held                    \* fault
Manifest(c) == sent[c]

AfterRefusal == "returned"                       \* fault
AfterCompletion == "raised"
Complete(c) ==
    /\ pc[c] = "parts" /\ \A p \in Part : sent[c][p] # 0
    /\ LET r == Request("complete", c, job[c], session[c], Manifest(c)) IN
        Answered(c, r, "returned") \/ Failed(c, r, AfterCompletion)
    /\ UNCHANGED <<kind, job, session, sent, file>>

\* The abort is best effort; the error of the transfer is raised after it.
Abort(c) ==
    /\ pc[c] = "aborting"
    /\ LET r == Request("abort", c, job[c], session[c], Nothing) IN
        Answered(c, r, "raised") \/ Failed(c, r, "raised")
    /\ UNCHANGED <<kind, job, session, sent, file>>

-----------------------------------------------------------------------------
\* The process dies or is interrupted between two requests: no abort.
Killed(c) ==
    /\ pc[c] \notin {"idle"} \cup Ended /\ Goto(c, "raised")
    /\ UNCHANGED <<kind, job, session, sent, file, svc, late>>

\* External: a request nobody waits for is executed.
ServeLate ==
    /\ \E r \in late : svc' = Served(svc, r) /\ late' = late \ {r}
    /\ UNCHANGED <<kind, pc, job, session, sent, file>>

\* External: "if no video data has arrived by then it is treated as abandoned
\* and deleted" (client.py 517-518).
HoldExpires ==
    /\ svc.job # 0 /\ ~HasVideo(svc, svc.job)
    /\ svc.session = 0 \/ svc.held = Nothing
    /\ svc' = [svc EXCEPT !.job = 0, !.session = 0]
    /\ UNCHANGED <<kind, pc, job, session, sent, file, late>>

\* External: the video is replaced on disk.
EditFile ==
    /\ file < Versions /\ file' = file + 1
    /\ UNCHANGED <<kind, pc, job, session, sent, svc, late>>

Step(c) ==
    \/ Refuse(c) \/ Begin(c)
    \/ CreateJob(c) \/ OpenFails(c) \/ PostVideo(c)
    \/ InitSession(c) \/ Complete(c) \/ Abort(c) \/ Killed(c)
    \/ \E p \in Part : PutPart(c, p)

AllOver == (\A c \in Call : pc[c] \in Ended) /\ UNCHANGED vars

Next == (\E c \in Call : Step(c)) \/ ServeLate \/ HoldExpires \/ EditFile \/ AllOver

Spec == Init /\ [][Next]_vars

-----------------------------------------------------------------------------
\* Every variable has the shape the code gives it; what a call uploads to, it
\* was given.
TypeOK ==
    /\ kind \in {"single", "multipart"}
    /\ pc \in [Call -> {"idle", "create", "post", "init", "parts", "aborting"}
                           \cup Ended]
    /\ job \in [Call -> 0..MaxJobs] /\ session \in [Call -> Nat]
    /\ sent \in [Call -> [Part -> 0..Versions]]
    /\ file \in 1..Versions
    /\ svc.job \in 0..svc.jobs /\ svc.jobs \in 0..MaxJobs
    /\ svc.session \in 0..svc.sessions
    /\ \A r \in late : r.call \in Call /\ r.op \in {"put", "complete", "abort"}
                           => r.session \in 1..svc.sessions

\* README 58, "It creates an idempotent multipart session", and client.py
\* 579-589: however often a call is repeated, overlaps with another or is
\* executed late, one job at most gets the video.
OneVideoJob == Cardinality({j \in 1..MaxJobs : HasVideo(svc, j)}) <= 1

\* client.py 849-878: what a job gets is, part by part, what one call read and
\* sent, although calls share a session and the file changes between them.
VideoOfOneCall ==
    \A j \in 1..MaxJobs :
        HasVideo(svc, j) => svc.video[j].content = sent[svc.video[j].by]

\* A call that returns has its video queued, and no abort, late request or
\* expiry of another call takes it away (client.py 514-518, 834-838).
ReturnedIsQueued ==
    \A c \in Call : pc[c] = "returned" =>
        \E j \in 1..MaxJobs : HasVideo(svc, j) /\ svc.video[j].by = c
=============================================================================
