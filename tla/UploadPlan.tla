----------------------------- MODULE UploadPlan -----------------------------
(***************************************************************************)
(* upload_multipart up to the moment its transfer jobs are queued: the     *)
(* argument checks, the plan, and the loop that submits one _upload_part   *)
(* job for every part number.  A call is refused before any request is     *)
(* sent, or planned and submitted part by part.  The transfer itself is    *)
(* MultipartUpload.                                                        *)
(***************************************************************************)
EXTENDS PartPlan, Sequences

CONSTANTS Totals, PartSizes, WorkerCounts, RetryCounts  \* the calls considered

ASSUME InputsAssumption ==
    /\ Totals \subseteq Nat        \* st_size of a file
    /\ PartSizes \subseteq Int /\ WorkerCounts \subseteq Int
    /\ RetryCounts \subseteq Int

VARIABLES
    call,   \* the arguments of this call
    stage,  \* how far upload_multipart has come
    plan,   \* effective_part_size, part_count and bounded_workers
    jobs    \* the jobs handed to the executor so far, in order

vars == <<call, stage, plan, jobs>>

Calls == [total : Totals, part : PartSizes, workers : WorkerCounts,
          retries : RetryCounts, declared : BOOLEAN]

NoPlan == [eff |-> 0, count |-> 0, workers |-> 0]

Init ==
    /\ call \in Calls
    /\ stage = "called"
    /\ plan = NoPlan
    /\ jobs = << >>

\* "declared" stands for the sidecar and server_side_upload_prep checks,
\* which look at other arguments and raise ValueError as the others do
Accepted(c) == c.declared /\ Accepts(c.total, c.part, c.workers, c.retries)

Refuse ==
    /\ stage = "called" /\ ~Accepted(call)
    /\ stage' = "refused"
    /\ UNCHANGED <<call, plan, jobs>>

PlanOf(c) ==
    LET eff == EffectiveSize(c.total, c.part)
        count == PartCount(c.total, eff)
    IN  [eff |-> eff, count |-> count,
         workers |-> BoundedWorkers(c.workers, count, eff)]

Plan ==
    /\ stage = "called" /\ Accepted(call)
    /\ plan' = PlanOf(call)
    /\ stage' = "submitting"
    /\ UNCHANGED <<call, jobs>>

\* the job of part n: where it seeks to and how much it reads
Job(n, c, eff) ==
    [offset |-> Offset(n, eff), size |-> PartBytes(n, c.total, eff)]

Submit ==
    /\ stage = "submitting" /\ Len(jobs) < plan.count
    /\ jobs' = Append(jobs, Job(Len(jobs) + 1, call, plan.eff))
    /\ UNCHANGED <<call, stage, plan>>

Submitted ==
    /\ stage = "submitting" /\ Len(jobs) = plan.count
    /\ stage' = "submitted"
    /\ UNCHANGED <<call, plan, jobs>>

Next == Refuse \/ Plan \/ Submit \/ Submitted

Spec == Init /\ [][Next]_vars

-----------------------------------------------------------------------------
\* Every variable has the shape the code gives it.
TypeOK ==
    /\ call \in Calls
    /\ stage \in {"called", "refused", "submitting", "submitted"}
    /\ plan \in [eff : Nat, count : Nat, workers : Nat]
    /\ jobs \in Seq([offset : Nat, size : Nat])

Ending(job) == job.offset + job.size

\* The submitted jobs tile the file: the first starts at byte 0, each starts
\* where the one before it ended, none is empty, and once all are submitted
\* the last ends at the last byte (client.py 811-827).
PartsTileTheFile ==
    /\ \A n \in 1..Len(jobs) :
          /\ jobs[n].size > 0
          /\ jobs[n].offset = IF n = 1 THEN 0 ELSE Ending(jobs[n - 1])
    /\ stage = "submitted" =>
          /\ Len(jobs) > 0
          /\ Ending(jobs[Len(jobs)]) = call.total

\* What the storage service demands of a multipart upload and the SDK of its
\* own buffers: at most MaxParts parts, none larger than a buffer, and every
\* part but the last at least MinPart bytes (client.py 764-785).
WithinStorageLimits ==
    /\ Len(jobs) <= plan.count /\ plan.count <= MaxParts
    /\ \A n \in 1..Len(jobs) :
          /\ jobs[n].size <= MaxBuffered
          /\ n < plan.count => jobs[n].size >= MinPart

\* README 80-82: the workers that run together never need more than
\* BufferMemory for one part each, and there is at least one of them
\* (ThreadPoolExecutor rejects zero).
WorkersFitMemory ==
    stage \in {"submitting", "submitted"} =>
        /\ plan.workers >= 1 /\ plan.workers <= plan.count
        /\ plan.workers * plan.eff <= BufferMemory

\* A call with legal arguments is refused only when no part size would do:
\* even MaxParts parts of MaxBuffered bytes could not hold the file
\* (client.py 779-784).
RefusedOnlyWhenTooLarge ==
    (/\ stage = "refused"
     /\ call.declared
     /\ LegalArguments(call.total, call.part, call.workers, call.retries))
        => call.total > MaxParts * MaxBuffered
=============================================================================
