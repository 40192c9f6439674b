-------------------------- MODULE UploadRerun_proofs --------------------------
(***************************************************************************)
(* What repeated and overlapping calls with one upload_request_id are      *)
(* guaranteed, for any number of calls, parts, edits and late requests.    *)
(*                                                                         *)
(* SvcInv is what the service keeps of itself: only the job of the request *)
(* id can have the video, and not while its session is open.  LateInv says *)
(* that what may still be executed for a call is what that call has sent,  *)
(* and that the call is over; so nothing can change between the request    *)
(* and its execution.                                                      *)
(***************************************************************************)
EXTENDS UploadRerun, TLAPS, FiniteSetTheorems

Content == [Part -> 0..Versions]
Video == [by : Call, content : Content]
Svc == [job : Nat, jobs : 0..MaxJobs, session : Nat, sessions : Nat, held : Content,
        video : [1..MaxJobs -> Video \cup {NoVideo}]]

SvcInv(s) ==
    /\ s \in Svc /\ s.job \in 0..s.jobs /\ s.session \in 0..s.sessions
    /\ s.session # 0 => s.job # 0 /\ s.video[s.job] = NoVideo
    /\ \A j \in 1..MaxJobs : s.video[j] # NoVideo => j = s.job

Requests ==
    [op : {"create", "post", "init", "put", "complete", "abort"}, call : Call,
     job : 0..MaxJobs, session : Nat, content : Content]

\* A request as the client builds it.
Legal(r) ==
    /\ r \in Requests
    /\ r.op = "post" => r.job # 0
    /\ r.op \in {"put", "complete", "abort"} => r.session # 0

Uploads(r) == r.op \in {"post", "complete"}
VideoOf(r) == [by |-> r.call, content |-> r.content]

LEMMA Constants ==
  /\ Versions \in Nat /\ 1 <= Versions /\ MaxJobs \in Nat /\ 1 <= MaxJobs
  /\ NoVideo \notin Video
<1>1. Video \subseteq [by : Call, content : [Part -> Nat]]
  BY RerunAssumption DEF Video, Content
<1> QED BY <1>1, RerunAssumption

\* What one request does to the service, accepted or not.
ServedAs(s, r, t) ==
    /\ SvcInv(t) /\ s.sessions <= t.sessions
    /\ r.op # "init" => t.session \in {s.session, 0}
    /\ \A j \in 1..MaxJobs :
          \/ t.video[j] = s.video[j]
          \/ s.video[j] = NoVideo /\ Uploads(r) /\ t.video[j] = VideoOf(r)
    /\ Accepts(s, r) =>
          /\ r.op = "create" => t.job \in 1..MaxJobs
          /\ r.op = "init" => t.job \in 1..MaxJobs /\ t.session \in 1..t.sessions
          /\ Uploads(r) => \E j \in 1..MaxJobs : t.video[j] = VideoOf(r)

LEMMA ReservedInv ==
  ASSUME NEW s, SvcInv(s), s.job # 0 \/ s.jobs < MaxJobs
  PROVE  /\ SvcInv(Reserved(s)) /\ Reserved(s).job \in 1..MaxJobs
         /\ Reserved(s).session = s.session /\ Reserved(s).sessions = s.sessions
         /\ Reserved(s).video = s.video
         /\ s.job # 0 => Reserved(s) = s
         /\ s.job = 0 => \A j \in 1..MaxJobs : s.video[j] = NoVideo
<1> USE Constants
<1>1. CASE s.job # 0
  BY <1>1 DEF Reserved, SvcInv, Svc
<1>2. CASE s.job = 0
  <2>1. Reserved(s) = [s EXCEPT !.job = s.jobs + 1, !.jobs = s.jobs + 1]
    BY <1>2 DEF Reserved
  <2>2. s \in Svc /\ s.jobs + 1 \in 1..MaxJobs /\ s.session = 0
    BY <1>2 DEF SvcInv, Svc
  <2>3. Reserved(s) \in Svc
    <3> DEFINE n == s.jobs + 1
               t == [s EXCEPT !.job = n]
    <3>1. n \in Nat /\ n \in 0..MaxJobs
      BY <2>2
    <3> HIDE DEF n
    <3>2. t \in Svc
      BY <2>2, <3>1 DEF Svc
    <3>3. [t EXCEPT !.jobs = n] \in Svc
      <4> HIDE DEF t
      <4> QED BY <3>1, <3>2 DEF Svc
    <3>4. Reserved(s) = [t EXCEPT !.jobs = n]
      BY <2>1, <2>2 DEF n, Svc
    <3> QED BY <3>3, <3>4
  <2>4. /\ Reserved(s).job = s.jobs + 1 /\ Reserved(s).jobs = s.jobs + 1
        /\ Reserved(s).session = s.session /\ Reserved(s).sessions = s.sessions
        /\ Reserved(s).video = s.video
    <3>1. DOMAIN s = {"job", "jobs", "session", "sessions", "held", "video"}
      BY <2>2 DEF Svc
    <3> QED BY <2>1, <3>1
  <2>5. \A j \in 1..MaxJobs : s.video[j] = NoVideo
    BY <1>2 DEF SvcInv
  <2> QED BY <1>2, <2>2, <2>3, <2>4, <2>5 DEF SvcInv
<1> QED BY <1>1, <1>2

LEMMA OpenedInv ==
  ASSUME NEW s, SvcInv(s), s.job # 0, s.video[s.job] = NoVideo
  PROVE  /\ SvcInv(Opened(s)) /\ Opened(s).job = s.job
         /\ Opened(s).session \in 1..Opened(s).sessions
         /\ s.sessions <= Opened(s).sessions /\ Opened(s).video = s.video
<1>1. CASE s.session # 0
  BY <1>1 DEF Opened, SvcInv, Svc
<1>2. CASE s.session = 0
  <2>1. Opened(s) = [s EXCEPT !.session = s.sessions + 1, !.sessions = s.sessions + 1,
                              !.held = Nothing]
    BY <1>2 DEF Opened
  <2>2. Nothing \in Content /\ s \in Svc
    BY Constants DEF Nothing, Content, SvcInv
  <2>3. Opened(s) \in Svc
    <3> DEFINE n == s.sessions + 1
               t == [s EXCEPT !.session = n]
               u == [t EXCEPT !.sessions = n]
    <3>1. n \in Nat
      BY <2>2 DEF Svc
    <3> HIDE DEF n
    <3>2. t \in Svc
      BY <2>2, <3>1 DEF Svc
    <3>3. u \in Svc
      <4> HIDE DEF t
      <4> QED BY <3>1, <3>2 DEF Svc
    <3>4. [u EXCEPT !.held = Nothing] \in Svc
      <4> HIDE DEF u
      <4> QED BY <2>2, <3>3 DEF Svc
    <3>5. Opened(s) = [u EXCEPT !.held = Nothing]
      BY <2>1, <2>2 DEF n, Svc
    <3> QED BY <3>4, <3>5
  <2>4. /\ Opened(s).session = s.sessions + 1 /\ Opened(s).sessions = s.sessions + 1
        /\ Opened(s).job = s.job /\ Opened(s).jobs = s.jobs /\ Opened(s).video = s.video
    <3>1. DOMAIN s = {"job", "jobs", "session", "sessions", "held", "video"}
      BY <2>2 DEF Svc
    <3> QED BY <2>1, <3>1
  <2>5. s.sessions \in Nat
    BY <2>2 DEF Svc
  <2> QED BY <2>3, <2>4, <2>5 DEF SvcInv
<1> QED BY <1>1, <1>2

LEMMA QueuedInv ==
  ASSUME NEW s, SvcInv(s), NEW r, r \in Requests, s.job # 0, s.session = 0,
         s.video[s.job] = NoVideo
  PROVE  /\ SvcInv(Queued(s, s.job, r))
         /\ Queued(s, s.job, r).session = s.session
         /\ Queued(s, s.job, r).sessions = s.sessions
         /\ Queued(s, s.job, r).video[s.job] = VideoOf(r)
         /\ \A j \in 1..MaxJobs \ {s.job} : Queued(s, s.job, r).video[j] = s.video[j]
         /\ s.job \in 1..MaxJobs
<1> DEFINE q == Queued(s, s.job, r)
<1>1. s \in Svc /\ s.job \in 1..MaxJobs /\ VideoOf(r) \in Video
  BY Constants DEF SvcInv, Svc, Requests, VideoOf, Video
<1>2. q = [s EXCEPT !.video = [s.video EXCEPT ![s.job] = VideoOf(r)]]
  BY DEF Queued, VideoOf
<1>3. q \in Svc /\ q.video = [s.video EXCEPT ![s.job] = VideoOf(r)]
      /\ q.job = s.job /\ q.jobs = s.jobs /\ q.session = s.session /\ q.sessions = s.sessions
  <2>1. DOMAIN s = {"job", "jobs", "session", "sessions", "held", "video"}
    BY <1>1 DEF Svc
  <2> DEFINE videos == [s.video EXCEPT ![s.job] = VideoOf(r)]
  <2>2. videos \in [1..MaxJobs -> Video \cup {NoVideo}]
    BY <1>1 DEF Svc
  <2> HIDE DEF videos
  <2>3. q.video = videos /\ q.job = s.job /\ q.jobs = s.jobs /\ q.session = s.session
        /\ q.sessions = s.sessions
    BY <1>2, <2>1 DEF videos
  <2>4. q \in Svc
    BY <1>1, <1>2, <2>2 DEF Svc, videos
  <2> QED BY <2>3, <2>4 DEF videos
<1>4. q.video[s.job] = VideoOf(r) /\ \A j \in 1..MaxJobs \ {s.job} : q.video[j] = s.video[j]
  BY <1>1, <1>3 DEF Svc
<1> HIDE DEF q
<1>5. SvcInv(q)
  BY <1>1, <1>3, <1>4 DEF SvcInv
<1> QED BY <1>1, <1>3, <1>4, <1>5 DEF q

Closed(s) == [s EXCEPT !.session = 0]

LEMMA ClosedInv ==
  ASSUME NEW s, SvcInv(s)
  PROVE  /\ SvcInv(Closed(s)) /\ Closed(s).session = 0
         /\ Closed(s).job = s.job /\ Closed(s).sessions = s.sessions
         /\ Closed(s).video = s.video
<1>1. s \in Svc
  BY DEF SvcInv
<1>2. Closed(s) \in Svc
  BY <1>1 DEF Closed, Svc
<1>3. /\ Closed(s).session = 0 /\ Closed(s).job = s.job /\ Closed(s).jobs = s.jobs
      /\ Closed(s).sessions = s.sessions /\ Closed(s).video = s.video
  <2>1. DOMAIN s = {"job", "jobs", "session", "sessions", "held", "video"}
    BY <1>1 DEF Svc
  <2> QED BY <2>1 DEF Closed
<1>4. s.sessions \in Nat
  BY <1>1 DEF Svc
<1> QED BY <1>2, <1>3, <1>4 DEF SvcInv

\* A part changes what the session holds and nothing else.
LEMMA PutInv ==
  ASSUME NEW s, SvcInv(s), NEW content \in Content
  PROVE  LET t == [s EXCEPT !.held =
                     [p \in Part |-> IF content[p] # 0 THEN content[p] ELSE @[p]]]
         IN  /\ SvcInv(t) /\ t.session = s.session /\ t.sessions = s.sessions
             /\ t.video = s.video
<1> DEFINE held == [p \in Part |-> IF content[p] # 0 THEN content[p] ELSE s.held[p]]
           t == [s EXCEPT !.held = held]
<1>1. s \in Svc
  BY DEF SvcInv
<1>2. held \in Content
  BY <1>1 DEF Svc, Content
<1> HIDE DEF held
<1>3. t \in Svc
  BY <1>1, <1>2 DEF Svc
<1>4. /\ t.session = s.session /\ t.job = s.job /\ t.jobs = s.jobs
      /\ t.sessions = s.sessions /\ t.video = s.video
  <2>1. DOMAIN s = {"job", "jobs", "session", "sessions", "held", "video"}
    BY <1>1 DEF Svc
  <2> QED BY <2>1
<1>5. SvcInv(t)
  <2> HIDE DEF t
  <2> QED BY <1>3, <1>4 DEF SvcInv
<1> QED BY <1>4, <1>5 DEF held

\* Every request leaves the service as it should be; a video is never replaced.
LEMMA ServedInv ==
  ASSUME NEW s, SvcInv(s), NEW r, Legal(r), r.op = "post" => s.session = 0
  PROVE  ServedAs(s, r, Served(s, r))
<1> DEFINE t == Served(s, r)
<1>0. /\ r \in Requests /\ r.content \in Content /\ r.session \in Nat
      /\ r.op \in {"create", "post", "init", "put", "complete", "abort"}
      /\ s \in Svc /\ s.sessions \in Nat /\ s.session \in Nat
  BY DEF Legal, Requests, SvcInv, Svc
<1>1. CASE ~Accepts(s, r)
  <2>1. t = s
    BY <1>1 DEF Served
  <2> QED BY <1>0, <1>1, <2>1 DEF ServedAs
<1>2. CASE Accepts(s, r) /\ r.op = "create"
  <2>1. t = Reserved(s)
    BY <1>2 DEF Served
  <2>2. s.job # 0 \/ s.jobs < MaxJobs
    BY <1>2 DEF Accepts
  <2> QED BY <1>0, <1>2, <2>1, <2>2, ReservedInv DEF ServedAs, Uploads
<1>3. CASE Accepts(s, r) /\ r.op = "init"
  <2>1. t = Opened(Reserved(s))
    BY <1>3 DEF Served
  <2>2. (s.job # 0 \/ s.jobs < MaxJobs) /\ ~HasVideo(s, s.job)
    BY <1>3 DEF Accepts
  <2> DEFINE u == Reserved(s)
  <2>3. /\ SvcInv(u) /\ u.job \in 1..MaxJobs /\ u.sessions = s.sessions
        /\ u.video = s.video
    BY <2>2, ReservedInv
  <2>4. u.video[u.job] = NoVideo
    <3>1. CASE s.job # 0
      BY <2>2, <2>3, <3>1, ReservedInv DEF HasVideo
    <3>2. CASE s.job = 0
      BY <2>2, <2>3, <3>2, ReservedInv
    <3> QED BY <3>1, <3>2
  <2> HIDE DEF u
  <2>5. /\ SvcInv(Opened(u)) /\ Opened(u).job = u.job
        /\ Opened(u).session \in 1..Opened(u).sessions
        /\ u.sessions <= Opened(u).sessions /\ Opened(u).video = u.video
    BY <2>3, <2>4, OpenedInv
  <2>6. t = Opened(u)
    BY <2>1 DEF u
  <2> QED BY <1>3, <2>3, <2>5, <2>6 DEF ServedAs, Uploads
<1>4. CASE Accepts(s, r) /\ r.op = "post"
  <2>1. r.job # 0 /\ r.job = s.job /\ s.session = 0 /\ s.video[s.job] = NoVideo
    BY <1>4 DEF Legal, Accepts, HasVideo
  <2>2. t = Queued(s, s.job, r)
    BY <1>4, <2>1 DEF Served
  <2>3. /\ SvcInv(t) /\ t.session = s.session /\ t.sessions = s.sessions
        /\ t.video[s.job] = VideoOf(r) /\ s.job \in 1..MaxJobs
        /\ \A j \in 1..MaxJobs \ {s.job} : t.video[j] = s.video[j]
    BY <1>0, <2>1, <2>2, QueuedInv
  <2>5. ServedAs(s, r, t)
    <3> HIDE DEF t
    <3> QED BY <1>0, <1>4, <2>1, <2>3 DEF ServedAs, Uploads
  <2> QED BY <2>5
<1>5. CASE Accepts(s, r) /\ r.op = "complete"
  <2>1. s.session # 0 /\ s.job # 0 /\ s.video[s.job] = NoVideo
    BY <1>5 DEF Legal, Accepts, SvcInv
  <2> DEFINE u == Closed(s)
  <2>2. /\ SvcInv(u) /\ u.session = 0 /\ u.job = s.job /\ u.sessions = s.sessions
        /\ u.video = s.video
    BY ClosedInv
  <2>3. t = Queued(u, u.job, r)
    <3>1. t = [[s EXCEPT !.video[s.job] = VideoOf(r)] EXCEPT !.session = 0]
      BY <1>5 DEF Served, Queued, VideoOf
    <3>2. Queued(u, u.job, r) = [[s EXCEPT !.session = 0] EXCEPT !.video[s.job] = VideoOf(r)]
      BY <2>2 DEF Queued, VideoOf, Closed
    <3>3. DOMAIN s = {"job", "jobs", "session", "sessions", "held", "video"}
      BY <1>0 DEF Svc
    <3> HIDE DEF t, u
    <3> QED BY <3>1, <3>2, <3>3
  <2> HIDE DEF u
  <2>4. /\ SvcInv(t) /\ t.session = u.session /\ t.sessions = u.sessions
        /\ t.video[u.job] = VideoOf(r) /\ u.job \in 1..MaxJobs
        /\ \A j \in 1..MaxJobs \ {u.job} : t.video[j] = u.video[j]
    BY <1>0, <2>1, <2>2, <2>3, QueuedInv
  <2>5. ServedAs(s, r, t)
    <3> HIDE DEF t
    <3> QED BY <1>0, <1>5, <2>1, <2>2, <2>4 DEF ServedAs, Uploads
  <2> QED BY <2>5
<1>6. CASE Accepts(s, r) /\ r.op = "put"
  <2>1. t = [s EXCEPT !.held =
               [p \in Part |-> IF r.content[p] # 0 THEN r.content[p] ELSE @[p]]]
    BY <1>6 DEF Served
  <2>2. SvcInv(t) /\ t.session = s.session /\ t.sessions = s.sessions /\ t.video = s.video
    BY <1>0, <2>1, PutInv
  <2>5. ServedAs(s, r, t)
    <3> HIDE DEF t
    <3> QED BY <1>0, <1>6, <2>2 DEF ServedAs, Uploads
  <2> QED BY <2>5
<1>7. CASE Accepts(s, r) /\ r.op = "abort"
  <2>1. t = Closed(s)
    BY <1>7 DEF Served, Closed
  <2>5. ServedAs(s, r, t)
    <3> HIDE DEF t
    <3> QED BY <1>0, <1>7, <2>1, ClosedInv DEF ServedAs, Uploads
  <2> QED BY <2>5
<1> QED BY <1>0, <1>1, <1>2, <1>3, <1>4, <1>5, <1>6, <1>7

-----------------------------------------------------------------------------
\* The calls and the service together.

Places(k) ==
    IF k = "single" THEN {"idle", "create", "post"} \cup Ended
                    ELSE {"idle", "init", "parts", "aborting"} \cup Ended

\* Which requests the two kinds of call make.
OfKind(r) ==
    IF kind = "single" THEN r.op \in {"create", "post"}
                       ELSE r.op \in {"init", "put", "complete", "abort"}

CallInv ==
    /\ kind \in {"single", "multipart"} /\ pc \in [Call -> Places(kind)]
    /\ job \in [Call -> 0..MaxJobs] /\ session \in [Call -> Nat]
    /\ sent \in [Call -> Content] /\ file \in 1..Versions
    /\ \A c \in Call :
          /\ pc[c] = "post" => job[c] # 0
          /\ pc[c] \in {"parts", "aborting"} => session[c] \in 1..svc.sessions

ServiceInv == SvcInv(svc) /\ (kind = "single" => svc.session = 0)

\* What may be executed late is known, and its call will not change it.
Known(r) ==
    /\ Legal(r) /\ OfKind(r)
    /\ r.op \in {"put", "complete", "abort"} => r.session <= svc.sessions
    /\ Uploads(r) => pc[r.call] \in Ended /\ r.content = sent[r.call]
LateInv == \A r \in late : Known(r)

VideoInv ==
    \A j \in 1..MaxJobs : svc.video[j] # NoVideo =>
        /\ pc[svc.video[j].by] \in Ended
        /\ svc.video[j].content = sent[svc.video[j].by]

ReturnedInv ==
    \A c \in Call : pc[c] = "returned" =>
        \E j \in 1..MaxJobs : svc.video[j] # NoVideo /\ svc.video[j].by = c

IInv == CallInv /\ ServiceInv /\ LateInv /\ VideoInv /\ ReturnedInv

\* A call that is over does not change.
Forward ==
    /\ kind' = kind
    /\ \A c \in Call : pc[c] \in Ended => pc'[c] = pc[c] /\ sent'[c] = sent[c]

LEMMA Initial == Init => IInv
<1> SUFFICES ASSUME Init PROVE IInv
  OBVIOUS
<1> USE Constants
<1>1. Nothing \in Content
  BY DEF Nothing, Content
<1>2. CallInv
  BY <1>1 DEF Init, CallInv, Places
<1>3. svc \in Svc
  BY <1>1 DEF Init, SvcInit, Svc
<1>4. /\ svc.job = 0 /\ svc.jobs = 0 /\ svc.session = 0 /\ svc.sessions = 0
      /\ \A j \in 1..MaxJobs : svc.video[j] = NoVideo
  BY DEF Init, SvcInit
<1>5. ServiceInv
  BY <1>3, <1>4 DEF ServiceInv, SvcInv
<1>6. LateInv /\ ReturnedInv
  BY DEF Init, LateInv, ReturnedInv
<1>7. VideoInv
  BY <1>4 DEF VideoInv
<1> QED BY <1>2, <1>5, <1>6, <1>7 DEF IInv

\* A request that is executed, now or late.
LEMMA ExecutedInv ==
  ASSUME IInv, Forward, NEW r, Legal(r), OfKind(r), svc' = Served(svc, r),
         Uploads(r) => pc'[r.call] \in Ended /\ r.content = sent'[r.call],
         \A c \in Call : pc'[c] = "returned" =>
             pc[c] = "returned" \/ (Uploads(r) /\ r.call = c /\ Accepts(svc, r))
  PROVE  ServiceInv' /\ VideoInv' /\ ReturnedInv' /\ svc.sessions <= svc'.sessions
<1>1. ServedAs(svc, r, svc')
  BY ServedInv DEF IInv, ServiceInv, OfKind
<1>2. SvcInv(svc') /\ svc.sessions <= svc'.sessions
  BY <1>1 DEF ServedAs
<1>3. ServiceInv'
  <2>1. kind = "single" => svc'.session = 0
    BY <1>1 DEF ServedAs, IInv, ServiceInv, OfKind
  <2>2. SvcInv(svc)'
    BY <1>2 DEF SvcInv
  <2> QED BY <2>1, <2>2 DEF ServiceInv, Forward
<1>4. r.call \in Call /\ VideoOf(r).by = r.call /\ VideoOf(r).content = r.content
      /\ VideoOf(r) # NoVideo
  <2>1. r.call \in Call /\ VideoOf(r) \in Video
    BY DEF Legal, Requests, VideoOf, Video
  <2> QED BY <2>1, Constants DEF VideoOf
<1>5. ASSUME NEW j \in 1..MaxJobs
      PROVE  \/ svc'.video[j] = svc.video[j]
             \/ svc.video[j] = NoVideo /\ Uploads(r) /\ svc'.video[j] = VideoOf(r)
  BY <1>1 DEF ServedAs
<1>6. VideoInv'
  <2> SUFFICES ASSUME NEW j \in 1..MaxJobs, svc'.video[j] # NoVideo
               PROVE  /\ pc'[svc'.video[j].by] \in Ended
                      /\ svc'.video[j].content = sent'[svc'.video[j].by]
    BY DEF VideoInv, Ended
  <2>1. CASE svc'.video[j] = svc.video[j]
    <3>1. svc.video[j] \in Video
      BY <2>1 DEF IInv, ServiceInv, SvcInv, Svc
    <3>2. svc.video[j].by \in Call
      BY <3>1 DEF Video
    <3>3. /\ pc[svc.video[j].by] \in Ended
          /\ svc.video[j].content = sent[svc.video[j].by]
      BY <2>1 DEF IInv, VideoInv
    <3> QED BY <2>1, <3>2, <3>3 DEF Forward
  <2>2. CASE Uploads(r) /\ svc'.video[j] = VideoOf(r)
    BY <1>4, <2>2
  <2> QED BY <1>5, <2>1, <2>2
<1>7. ReturnedInv'
  <2> SUFFICES ASSUME NEW c \in Call, pc'[c] = "returned"
               PROVE  \E j \in 1..MaxJobs : svc'.video[j] # NoVideo /\ svc'.video[j].by = c
    BY DEF ReturnedInv
  <2>1. CASE pc[c] = "returned"
    <3>1. PICK j \in 1..MaxJobs : svc.video[j] # NoVideo /\ svc.video[j].by = c
      BY <2>1 DEF IInv, ReturnedInv
    <3>2. svc'.video[j] = svc.video[j]
      BY <1>5, <3>1
    <3> QED BY <3>1, <3>2
  <2>2. CASE Uploads(r) /\ r.call = c /\ Accepts(svc, r)
    <3>1. PICK j \in 1..MaxJobs : svc'.video[j] = VideoOf(r)
      BY <1>1, <2>2 DEF ServedAs
    <3> QED BY <1>4, <2>2, <3>1
  <2> QED BY <2>1, <2>2
<1> QED BY <1>2, <1>3, <1>6, <1>7

\* Nothing is executed.
LEMMA QuietInv ==
  ASSUME IInv, Forward, svc' = svc,
         \A c \in Call : pc'[c] = "returned" => pc[c] = "returned"
  PROVE  ServiceInv' /\ VideoInv' /\ ReturnedInv'
<1>1. ServiceInv' /\ ReturnedInv'
  BY DEF IInv, ServiceInv, SvcInv, ReturnedInv, Forward
<1>2. ASSUME NEW j \in 1..MaxJobs, svc.video[j] # NoVideo
      PROVE  svc.video[j].by \in Call
  <2>1. svc.video[j] \in Video
    BY <1>2 DEF IInv, ServiceInv, SvcInv, Svc
  <2> QED BY <2>1 DEF Video
<1>3. VideoInv'
  BY <1>2 DEF IInv, VideoInv, Forward
<1> QED BY <1>1, <1>3

LEMMA StaysKnown ==
  ASSUME IInv, Forward, svc.sessions <= svc'.sessions, svc'.sessions \in Nat,
         NEW q \in late
  PROVE  Known(q)'
<1>1. Known(q) /\ q.call \in Call /\ q.session \in Nat
  BY DEF IInv, LateInv, Known, Legal, Requests
<1>2. svc.sessions \in Nat
  BY DEF IInv, ServiceInv, SvcInv, Svc
<1>3. Legal(q)' /\ OfKind(q)'
  BY <1>1 DEF Known, Legal, OfKind, Forward
<1>4. Uploads(q)' => pc'[q.call] \in Ended /\ q.content = sent'[q.call]
  BY <1>1 DEF Known, Uploads, Forward
<1>5. q.session <= svc.sessions => q.session <= svc'.sessions
  BY <1>1, <1>2
<1> QED BY <1>1, <1>3, <1>4, <1>5 DEF Known

\* A call sends r: the request is executed and the call goes on to a place, or
\* it stays behind as a late one.
Sends(c, r, to) ==
    /\ pc' = [pc EXCEPT ![c] = to] /\ UNCHANGED <<kind, file>>
    /\ \/ svc' = Served(svc, r) /\ late' = late
       \/ svc' = svc /\ late' = late \cup {r} /\ to # "returned"
    /\ to = "returned" => Accepts(svc, r)

\* The invariant needs no more of a request than this.
LEMMA RequestStep ==
  ASSUME IInv, NEW c \in Call, NEW r, NEW to, Sends(c, r, to),
         Legal(r), OfKind(r), r.call = c, pc[c] \notin Ended,
         to \in Places(kind), to = "returned" => Uploads(r),
         Uploads(r) => to \in Ended /\ r.content = sent'[c],
         r.op \in {"put", "complete", "abort"} => r.session <= svc.sessions,
         job' \in [Call -> 0..MaxJobs], session' \in [Call -> Nat],
         sent' \in [Call -> Content],
         \A d \in Call \ {c} : /\ job'[d] = job[d] /\ session'[d] = session[d]
                              /\ sent'[d] = sent[d],
         to = "post" => job'[c] # 0,
         to \in {"parts", "aborting"} => session'[c] \in 1..svc'.sessions
  PROVE  IInv'
<1>1. /\ kind \in {"single", "multipart"} /\ pc \in [Call -> Places(kind)]
      /\ kind' = kind /\ file' = file /\ file \in 1..Versions
      /\ svc.sessions \in Nat /\ session \in [Call -> Nat]
  BY DEF IInv, CallInv, Sends, ServiceInv, SvcInv, Svc
<1>2. pc'[c] = to /\ \A d \in Call \ {c} : pc'[d] = pc[d]
  BY <1>1 DEF Sends
<1>3. Forward
  BY <1>1, <1>2 DEF Forward
<1>4. /\ ServiceInv' /\ VideoInv' /\ ReturnedInv' /\ svc.sessions <= svc'.sessions
  <2>1. CASE svc' = Served(svc, r)
    <3>1. \A d \in Call : pc'[d] = "returned" =>
             pc[d] = "returned" \/ (Uploads(r) /\ r.call = d /\ Accepts(svc, r))
      BY <1>2 DEF Sends
    <3> QED BY <1>2, <1>3, <2>1, <3>1, ExecutedInv
  <2>2. CASE svc' = svc /\ to # "returned"
    BY <1>1, <1>2, <1>3, <2>2, QuietInv
  <2>3. svc' = Served(svc, r) \/ (svc' = svc /\ to # "returned")
    BY DEF Sends
  <2> QED BY <2>1, <2>2, <2>3
<1>5. svc'.sessions \in Nat
  BY <1>4 DEF ServiceInv, SvcInv, Svc
<1>6. CallInv'
  <2>1. pc' \in [Call -> Places(kind')]
    BY <1>1 DEF Sends
  <2>2. ASSUME NEW d \in Call
        PROVE  /\ pc'[d] = "post" => job'[d] # 0
               /\ pc'[d] \in {"parts", "aborting"} => session'[d] \in 1..svc'.sessions
    <3>1. CASE d = c
      BY <1>2, <3>1
    <3>2. CASE d # c
      <4>1. pc'[d] \in {"parts", "aborting"} => session[d] \in 1..svc.sessions
        BY <1>2, <3>2 DEF IInv, CallInv
      <4>2. session[d] \in 1..svc.sessions => session[d] \in 1..svc'.sessions
        BY <1>1, <1>4, <1>5
      <4>3. pc'[d] = "post" => job[d] # 0
        BY <1>2, <3>2 DEF IInv, CallInv
      <4> QED BY <3>2, <4>1, <4>2, <4>3
    <3> QED BY <3>1, <3>2
  <2> QED BY <1>1, <2>1, <2>2 DEF CallInv
<1>7. LateInv'
  <2>1. ASSUME NEW q \in late PROVE Known(q)'
    BY <1>3, <1>4, <1>5, StaysKnown
  <2>2. svc' = svc => Known(r)'
    BY <1>1, <1>2 DEF Known, Legal, OfKind, Uploads
  <2>3. late' = late \/ (svc' = svc /\ late' = late \cup {r})
    BY DEF Sends
  <2>4. ASSUME NEW q \in late', q \notin late PROVE q = r /\ svc' = svc
    BY <2>3, <2>4
  <2>5. ASSUME NEW q \in late' PROVE Known(q)'
    BY <2>1, <2>2, <2>4
  <2> QED BY <2>5 DEF LateInv
<1> QED BY <1>4, <1>6, <1>7 DEF IInv

\* A step of a call that sends nothing.
LEMMA SilentStep ==
  ASSUME IInv, NEW c \in Call, NEW to \in Places(kind) \ {"returned", "post", "parts", "aborting"},
         pc[c] \notin Ended, pc' = [pc EXCEPT ![c] = to],
         UNCHANGED <<kind, job, session, sent, file, svc, late>>
  PROVE  IInv'
<1>1. pc \in [Call -> Places(kind)] /\ svc.sessions \in Nat
  BY DEF IInv, CallInv, ServiceInv, SvcInv, Svc
<1>2. pc'[c] = to /\ \A d \in Call \ {c} : pc'[d] = pc[d]
  BY <1>1
<1>3. Forward
  BY <1>2 DEF Forward
<1>4. ServiceInv' /\ VideoInv' /\ ReturnedInv'
  BY <1>2, <1>3, QuietInv
<1>5. CallInv'
  <2>1. pc' \in [Call -> Places(kind')]
    BY <1>1
  <2>2. ASSUME NEW d \in Call
        PROVE  /\ pc'[d] = "post" => job[d] # 0
               /\ pc'[d] \in {"parts", "aborting"} => session[d] \in 1..svc.sessions
    BY <1>2 DEF IInv, CallInv
  <2> QED BY <2>1, <2>2 DEF IInv, CallInv
<1>6. LateInv'
  BY <1>1, <1>3, StaysKnown DEF LateInv
<1> QED BY <1>4, <1>5, <1>6 DEF IInv

LEMMA Silent ==
  ASSUME IInv, NEW c \in Call, Refuse(c) \/ Begin(c) \/ OpenFails(c) \/ Killed(c)
  PROVE  IInv'
<1>1. UNCHANGED <<kind, job, session, sent, file, svc, late>> /\ pc[c] \notin Ended
  BY DEF Refuse, Begin, OpenFails, Killed, Ended
<1>2. PICK to \in {"raised", "create", "init"} :
         /\ pc' = [pc EXCEPT ![c] = to]
         /\ to = "create" => kind = "single"
         /\ to = "init" => kind # "single"
  BY DEF Refuse, Begin, OpenFails, Killed, Goto, UploadBegins
<1>3. to \in Places(kind) \ {"returned", "post", "parts", "aborting"}
  BY <1>2 DEF Places, Ended
<1> QED BY <1>1, <1>2, <1>3, SilentStep

\* What a request of a call carries.
LEMMA Shapes ==
  ASSUME IInv, NEW c \in Call
  PROVE  /\ Nothing \in Content /\ WholeFile \in Content
         /\ \A p \in Part : [Nothing EXCEPT ![p] = file] \in Content
         /\ job[c] \in 0..MaxJobs /\ session[c] \in Nat /\ sent[c] \in Content
         /\ kind \in {"single", "multipart"} /\ pc[c] \in Places(kind)
BY Constants DEF IInv, CallInv, Nothing, WholeFile, Content

LEMMA RequestShape ==
  ASSUME NEW op \in {"create", "post", "init", "put", "complete", "abort"},
         NEW c \in Call, NEW j \in 0..MaxJobs, NEW s \in Nat, NEW content \in Content,
         op = "post" => j # 0, op \in {"put", "complete", "abort"} => s # 0
  PROVE  LET r == Request(op, c, j, s, content)
         IN  /\ Legal(r) /\ r.op = op /\ r.call = c /\ r.job = j
             /\ r.session = s /\ r.content = content
BY DEF Request, Legal, Requests

\* Answered or not, a request is one that RequestStep knows.
LEMMA SendsCases ==
  ASSUME NEW c, NEW r, NEW to, UNCHANGED <<kind, file>>,
         Answered(c, r, to) \/ (Failed(c, r, to) /\ to # "returned")
  PROVE  Sends(c, r, to)
BY DEF Answered, Failed, Goto, Sends

\* The requests of upload.
LEMMA SingleInv ==
  ASSUME IInv, NEW c \in Call, CreateJob(c) \/ PostVideo(c)
  PROVE  IInv'
<1>1. CASE CreateJob(c)
  <2> DEFINE r == Request("create", c, 0, 0, Nothing)
  <2>1. /\ pc[c] = "create" /\ UNCHANGED <<kind, session, sent, file>>
        /\ \/ Answered(c, r, "post") /\ job' = [job EXCEPT ![c] = svc'.job]
           \/ Failed(c, r, "raised") /\ job' = job
    BY <1>1 DEF CreateJob
  <2>2. Legal(r) /\ r.op = "create" /\ r.call = c
    <3>1. Nothing \in Content /\ 0 \in 0..MaxJobs
      BY Shapes, Constants
    <3> QED BY <3>1, RequestShape
  <2> HIDE DEF r
  <2>3. kind = "single"
    BY <2>1, Shapes DEF Places, Ended
  <2>4. PICK to \in {"post", "raised"} :
           /\ Sends(c, r, to)
           /\ \/ to = "post" /\ Answered(c, r, to) /\ job' = [job EXCEPT ![c] = svc'.job]
              \/ to = "raised" /\ job' = job
    BY <2>1, SendsCases
  <2>5. to = "post" => svc'.job \in 1..MaxJobs
    <3>1. ServedAs(svc, r, Served(svc, r))
      BY <2>2, ServedInv DEF IInv, ServiceInv
    <3> QED BY <2>2, <2>4, <3>1 DEF Answered, ServedAs
  <2>6. /\ job \in [Call -> 0..MaxJobs] /\ session \in [Call -> Nat]
        /\ sent \in [Call -> Content]
    BY DEF IInv, CallInv
  <2>7. /\ job' \in [Call -> 0..MaxJobs] /\ (to = "post" => job'[c] # 0)
        /\ \A d \in Call \ {c} : job'[d] = job[d]
    BY <2>4, <2>5, <2>6, Constants
  <2>8. to \in Places(kind) /\ to \notin {"parts", "aborting", "returned"}
    BY <2>3, <2>4 DEF Places, Ended
  <2>9. OfKind(r) /\ ~Uploads(r)
    BY <2>2, <2>3 DEF OfKind, Uploads
  <2> QED BY <2>1, <2>2, <2>4, <2>6, <2>7, <2>8, <2>9, RequestStep DEF Ended
<1>2. CASE PostVideo(c)
  <2> DEFINE r == Request("post", c, job[c], 0, WholeFile)
  <2>1. /\ pc[c] = "post" /\ UNCHANGED <<kind, job, session, file>>
        /\ sent' = [sent EXCEPT ![c] = WholeFile]
        /\ Answered(c, r, "returned") \/ Failed(c, r, "raised")
    BY <1>2 DEF PostVideo
  <2>2. Legal(r) /\ r.op = "post" /\ r.call = c /\ r.content = WholeFile
    <3>1. job[c] # 0
      BY <2>1 DEF IInv, CallInv
    <3> QED BY <3>1, RequestShape, Shapes
  <2> HIDE DEF r
  <2>3. kind = "single"
    BY <2>1, Shapes DEF Places, Ended
  <2>4. PICK to \in {"returned", "raised"} : Sends(c, r, to)
    BY <2>1, SendsCases
  <2>5. /\ job' \in [Call -> 0..MaxJobs] /\ session' \in [Call -> Nat]
        /\ sent' \in [Call -> Content] /\ sent'[c] = WholeFile
        /\ \A d \in Call \ {c} : sent'[d] = sent[d]
    BY <2>1, Shapes DEF IInv, CallInv
  <2>6. OfKind(r) /\ Uploads(r) /\ to \in Ended /\ to \in Places(kind)
    BY <2>2, <2>3, <2>4 DEF OfKind, Uploads, Places, Ended
  <2> QED BY <2>1, <2>2, <2>4, <2>5, <2>6, RequestStep DEF Ended
<1> QED BY <1>1, <1>2

\* The requests of upload_multipart.
LEMMA MultipartInv ==
  ASSUME IInv, NEW c \in Call,
         \/ InitSession(c) \/ Complete(c) \/ Abort(c)
         \/ \E p \in Part : PutPart(c, p)
  PROVE  IInv'
<1>0. /\ job \in [Call -> 0..MaxJobs] /\ session \in [Call -> Nat]
      /\ sent \in [Call -> Content] /\ kind = "multipart" /\ pc[c] \notin Ended
      /\ pc[c] \in {"init", "parts", "aborting"}
      /\ pc[c] # "init" => session[c] \in 1..svc.sessions
      /\ svc.sessions \in Nat
  <2>1. pc[c] \in {"init", "parts", "aborting"}
    BY DEF InitSession, Complete, Abort, PutPart
  <2>2. kind = "multipart"
    BY <2>1, Shapes DEF Places, Ended
  <2> QED BY <2>1, <2>2 DEF IInv, CallInv, ServiceInv, SvcInv, Svc, Ended
<1>1. \A to \in {"parts", "aborting", "returned", "raised"} : to \in Places(kind) /\ to # "post"
  BY <1>0 DEF Places, Ended
<1>2. CASE InitSession(c)
  <2> DEFINE r == Request("init", c, 0, 0, Nothing)
  <2>1. /\ UNCHANGED <<kind, sent, file>>
        /\ \/ /\ Answered(c, r, "parts")
              /\ job' = [job EXCEPT ![c] = svc'.job]
              /\ session' = [session EXCEPT ![c] = svc'.session]
           \/ Failed(c, r, "raised") /\ job' = job /\ session' = session
    BY <1>2 DEF InitSession, AfterInit
  <2>2. Legal(r) /\ r.op = "init" /\ r.call = c
    <3>1. Nothing \in Content /\ 0 \in 0..MaxJobs
      BY Shapes, Constants
    <3> QED BY <3>1, RequestShape
  <2> HIDE DEF r
  <2>3. PICK to \in {"parts", "raised"} :
           /\ Sends(c, r, to)
           /\ \/ /\ to = "parts" /\ Answered(c, r, to)
                 /\ job' = [job EXCEPT ![c] = svc'.job]
                 /\ session' = [session EXCEPT ![c] = svc'.session]
              \/ to = "raised" /\ job' = job /\ session' = session
    BY <2>1, SendsCases
  <2>4. to = "parts" => /\ svc'.job \in 1..MaxJobs /\ svc'.session \in 1..svc'.sessions
                        /\ svc'.session \in Nat
    <3>1. ServedAs(svc, r, Served(svc, r))
      BY <2>2, ServedInv DEF IInv, ServiceInv
    <3>2. SvcInv(Served(svc, r)) => Served(svc, r).session \in Nat
      BY DEF SvcInv, Svc
    <3> QED BY <2>2, <2>3, <3>1, <3>2 DEF Answered, ServedAs
  <2>5. /\ job' \in [Call -> 0..MaxJobs] /\ session' \in [Call -> Nat]
        /\ to = "parts" => session'[c] \in 1..svc'.sessions
        /\ \A d \in Call \ {c} : job'[d] = job[d] /\ session'[d] = session[d]
    BY <1>0, <2>3, <2>4, Constants
  <2>6. OfKind(r) /\ ~Uploads(r)
    BY <1>0, <2>2 DEF OfKind, Uploads
  <2> QED BY <1>0, <1>1, <2>1, <2>2, <2>3, <2>5, <2>6, RequestStep
<1>3. ASSUME NEW p \in Part, PutPart(c, p) PROVE IInv'
  <2> DEFINE content == [Nothing EXCEPT ![p] = file]
             r == Request("put", c, job[c], session[c], content)
  <2>1. /\ pc[c] = "parts" /\ UNCHANGED <<kind, job, session, file>>
        /\ \/ Answered(c, r, "parts") /\ sent' = [sent EXCEPT ![c][p] = file]
           \/ Failed(c, r, "aborting") /\ sent' = sent
    BY <1>3 DEF PutPart
  <2>2. Legal(r) /\ r.op = "put" /\ r.call = c /\ r.session = session[c]
    <3>1. content \in Content /\ job[c] \in 0..MaxJobs /\ session[c] \in Nat /\ session[c] # 0
      BY <1>0, <2>1, Shapes
    <3> HIDE DEF content
    <3> QED BY <3>1, RequestShape
  <2> HIDE DEF r
  <2>3. PICK to \in {"parts", "aborting"} : Sends(c, r, to)
    BY <2>1, SendsCases
  <2>4. /\ sent' \in [Call -> Content] /\ \A d \in Call \ {c} : sent'[d] = sent[d]
    <3>1. file \in 0..Versions
      BY DEF IInv, CallInv
    <3>2. [sent[c] EXCEPT ![p] = file] \in Content
      BY <1>0, <3>1 DEF Content
    <3>3. sent' = [sent EXCEPT ![c] = [sent[c] EXCEPT ![p] = file]] \/ sent' = sent
      BY <2>1
    <3> QED BY <1>0, <3>2, <3>3
  <2>5. OfKind(r) /\ ~Uploads(r)
    BY <1>0, <2>2 DEF OfKind, Uploads
  <2>6. svc.sessions <= svc'.sessions /\ svc'.sessions \in Nat
    <3>1. ServedAs(svc, r, Served(svc, r))
      BY <2>2, ServedInv DEF IInv, ServiceInv
    <3>2. SvcInv(Served(svc, r)) => Served(svc, r).sessions \in Nat
      BY DEF SvcInv, Svc
    <3> QED BY <1>0, <2>3, <3>1, <3>2 DEF Sends, ServedAs
  <2>7. session[c] \in 1..svc'.sessions
    BY <1>0, <2>1, <2>6
  <2> QED BY <1>0, <1>1, <2>1, <2>2, <2>3, <2>4, <2>5, <2>7, RequestStep
<1>4. CASE Complete(c)
  <2> DEFINE r == Request("complete", c, job[c], session[c], sent[c])
  <2>1. /\ pc[c] = "parts" /\ UNCHANGED <<kind, job, session, sent, file>>
        /\ Answered(c, r, "returned") \/ Failed(c, r, "raised")
    BY <1>4 DEF Complete, Manifest, AfterCompletion
  <2>2. Legal(r) /\ r.op = "complete" /\ r.call = c /\ r.session = session[c]
        /\ r.content = sent[c]
    BY <1>0, <2>1, RequestShape, Shapes
  <2> HIDE DEF r
  <2>3. PICK to \in {"returned", "raised"} : Sends(c, r, to)
    BY <2>1, SendsCases
  <2>4. OfKind(r) /\ Uploads(r) /\ to \in Ended
    BY <1>0, <2>2, <2>3 DEF OfKind, Uploads, Ended
  <2> QED BY <1>0, <1>1, <2>1, <2>2, <2>3, <2>4, RequestStep
<1>5. CASE Abort(c)
  <2> DEFINE r == Request("abort", c, job[c], session[c], Nothing)
  <2>1. /\ pc[c] = "aborting" /\ UNCHANGED <<kind, job, session, sent, file>>
        /\ Answered(c, r, "raised") \/ Failed(c, r, "raised")
    BY <1>5 DEF Abort
  <2>2. Legal(r) /\ r.op = "abort" /\ r.call = c /\ r.session = session[c]
    <3>1. Nothing \in Content /\ job[c] \in 0..MaxJobs /\ session[c] \in Nat /\ session[c] # 0
      BY <1>0, <2>1, Shapes
    <3> QED BY <3>1, RequestShape
  <2> HIDE DEF r
  <2>3. Sends(c, r, "raised")
    BY <2>1, SendsCases
  <2>4. OfKind(r) /\ ~Uploads(r)
    BY <1>0, <2>2 DEF OfKind, Uploads
  <2> QED BY <1>0, <1>1, <2>1, <2>2, <2>3, <2>4, RequestStep
<1> QED BY <1>2, <1>3, <1>4, <1>5

\* External: a late request, the hold and the file.
LEMMA AroundInv == IInv /\ (ServeLate \/ HoldExpires \/ EditFile) => IInv'
<1> SUFFICES ASSUME IInv, ServeLate \/ HoldExpires \/ EditFile PROVE IInv'
  OBVIOUS
<1>0. /\ UNCHANGED <<kind, pc, job, session, sent>> /\ file' \in 1..Versions
      /\ late' \subseteq late
  BY Constants DEF IInv, CallInv, ServeLate, HoldExpires, EditFile
<1>1. Forward
  BY <1>0 DEF Forward
<1>2. ServiceInv' /\ VideoInv' /\ ReturnedInv' /\ svc.sessions <= svc'.sessions
  <2>1. CASE ServeLate
    <3>1. PICK r \in late : svc' = Served(svc, r)
      BY <2>1 DEF ServeLate
    <3>2. Legal(r) /\ OfKind(r) /\ (Uploads(r) => pc'[r.call] \in Ended /\ r.content = sent'[r.call])
      BY <1>0 DEF IInv, LateInv, Known
    <3> QED BY <1>0, <1>1, <3>1, <3>2, ExecutedInv
  <2>2. CASE HoldExpires
    <3>1. /\ svc' = [svc EXCEPT !.job = 0, !.session = 0] /\ svc \in Svc
          /\ svc.job # 0 /\ svc.video[svc.job] = NoVideo
      BY <2>2 DEF HoldExpires, HasVideo, IInv, ServiceInv, SvcInv
    <3>2. svc' \in Svc
      <4> DEFINE t == [svc EXCEPT !.job = 0]
      <4>1. t \in Svc
        BY <3>1 DEF Svc
      <4>2. [t EXCEPT !.session = 0] \in Svc
        <5> HIDE DEF t
        <5> QED BY <4>1 DEF Svc
      <4> QED BY <3>1, <4>2 DEF Svc
    <3>3. /\ svc'.job = 0 /\ svc'.session = 0 /\ svc'.jobs = svc.jobs
          /\ svc'.sessions = svc.sessions /\ svc'.video = svc.video
      <4>1. DOMAIN svc = {"job", "jobs", "session", "sessions", "held", "video"}
        BY <3>1 DEF Svc
      <4> QED BY <3>1, <4>1
    <3>4. \A j \in 1..MaxJobs : svc.video[j] = NoVideo
      BY <3>1 DEF IInv, ServiceInv, SvcInv
    <3>5. svc.sessions \in Nat /\ svc.jobs \in Nat
      BY <3>1 DEF Svc
    <3>6. SvcInv(svc')
      BY <3>2, <3>3, <3>4, <3>5 DEF SvcInv
    <3>7. ServiceInv'
      BY <3>3, <3>6 DEF ServiceInv, SvcInv
    <3>8. VideoInv'
      BY <3>3, <3>4 DEF VideoInv
    <3>9. ReturnedInv'
      BY <1>0, <3>3 DEF IInv, ReturnedInv
    <3> QED BY <3>3, <3>5, <3>7, <3>8, <3>9
  <2>3. CASE EditFile
    <3>1. svc' = svc
      BY <2>3 DEF EditFile
    <3>2. svc.sessions \in Nat
      BY DEF IInv, ServiceInv, SvcInv, Svc
    <3> QED BY <1>0, <1>1, <3>1, <3>2, QuietInv
  <2> QED BY <2>1, <2>2, <2>3
<1>3. svc'.sessions \in Nat /\ svc.sessions \in Nat
  BY <1>2 DEF IInv, ServiceInv, SvcInv, Svc
<1>4. CallInv'
  <2>1. \A c \in Call : session[c] \in 1..svc.sessions => session[c] \in 1..svc'.sessions
    BY <1>2, <1>3
  <2> QED BY <1>0, <2>1 DEF IInv, CallInv
<1>5. LateInv'
  BY <1>0, <1>1, <1>2, <1>3, StaysKnown DEF LateInv
<1> QED BY <1>2, <1>4, <1>5 DEF IInv

LEMMA Invariant == Spec => []IInv
<1>1. ASSUME IInv, UNCHANGED vars PROVE IInv'
  <2>1. UNCHANGED <<kind, pc, job, session, sent, file, svc, late>>
    BY <1>1 DEF vars
  <2>2. svc.sessions \in Nat /\ Forward
    BY <1>1, <2>1 DEF IInv, ServiceInv, SvcInv, Svc, Forward
  <2>3. CallInv' /\ LateInv'
    BY <1>1, <2>1, <2>2, StaysKnown DEF IInv, CallInv, LateInv
  <2> QED BY <1>1, <2>1, <2>2, <2>3, QuietInv DEF IInv
<1>2. ASSUME IInv, NEW c \in Call, Step(c) PROVE IInv'
  BY <1>2, Silent, SingleInv, MultipartInv DEF Step
<1>3. IInv /\ [Next]_vars => IInv'
  BY <1>1, <1>2, AroundInv DEF Next, AllOver
<1> QED BY <1>3, Initial, PTL DEF Spec

\* The types, and that a call uploads only to what it was given (client.py
\* 590-621, 797-884).
THEOREM TypeCorrect == Spec => []TypeOK
<1>1. IInv => TypeOK
  <2> SUFFICES ASSUME IInv PROVE TypeOK
    OBVIOUS
  <2>1. pc \in [Call -> {"idle", "create", "post", "init", "parts", "aborting"} \cup Ended]
    BY DEF IInv, CallInv, Places
  <2>2. /\ svc.job \in 0..svc.jobs /\ svc.jobs \in 0..MaxJobs
        /\ svc.session \in 0..svc.sessions /\ svc.sessions \in Nat
    BY DEF IInv, ServiceInv, SvcInv, Svc
  <2>3. \A r \in late : r.call \in Call /\ r.session \in Nat
    BY DEF IInv, LateInv, Known, Legal, Requests
  <2>4. \A r \in late : r.op \in {"put", "complete", "abort"} => r.session \in 1..svc.sessions
    BY <2>2, <2>3 DEF IInv, LateInv, Known, Legal
  <2> QED BY <2>1, <2>2, <2>3, <2>4 DEF IInv, CallInv, Content, TypeOK
<1> QED BY <1>1, Invariant, PTL

\* One job at most gets the video, however many calls there are and however late
\* their requests are executed (client.py 579-589, 797-827).
THEOREM OneJobGetsIt == Spec => []OneVideoJob
<1>1. IInv => OneVideoJob
  <2> SUFFICES ASSUME IInv PROVE OneVideoJob
    OBVIOUS
  <2> DEFINE S == {j \in 1..MaxJobs : HasVideo(svc, j)}
  <2>1. S \subseteq {svc.job}
    BY DEF IInv, ServiceInv, SvcInv, HasVideo
  <2>2. IsFiniteSet({svc.job}) /\ Cardinality({svc.job}) = 1
    BY FS_Singleton
  <2>3. IsFiniteSet(S) /\ Cardinality(S) <= Cardinality({svc.job})
    BY <2>1, <2>2, FS_Subset
  <2>4. Cardinality(S) \in Nat
    BY <2>3, FS_CardinalityType
  <2> QED BY <2>2, <2>3, <2>4 DEF OneVideoJob
<1> QED BY <1>1, Invariant, PTL

\* What a job gets is what one call read and sent, whoever shares its session
\* and however the file changes (client.py 849-878).
THEOREM VideoIsOneCalls == Spec => []VideoOfOneCall
<1>1. IInv => VideoOfOneCall
  BY DEF IInv, VideoInv, VideoOfOneCall, HasVideo
<1> QED BY <1>1, Invariant, PTL

\* No other call, late request or expiry takes the video of a call that returned
\* (client.py 514-518, 834-838).
THEOREM ReturnedStaysQueued == Spec => []ReturnedIsQueued
<1>1. IInv => ReturnedIsQueued
  <2> SUFFICES ASSUME IInv, NEW c \in Call, pc[c] = "returned"
               PROVE  \E j \in 1..MaxJobs : HasVideo(svc, j) /\ svc.video[j].by = c
    BY DEF ReturnedIsQueued
  <2>1. PICK j \in 1..MaxJobs : svc.video[j] # NoVideo /\ svc.video[j].by = c
    BY DEF IInv, ReturnedInv
  <2>2. j # 0
    OBVIOUS
  <2> QED BY <2>1, <2>2 DEF HasVideo
<1> QED BY <1>1, Invariant, PTL
=============================================================================
