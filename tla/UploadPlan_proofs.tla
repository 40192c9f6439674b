-------------------------- MODULE UploadPlan_proofs --------------------------
(***************************************************************************)
(* The plan of upload_multipart is right for every file size, every        *)
(* argument and every value of the limits: what MCUploadPlan checks for    *)
(* small limits.  The arithmetic is in PartPlan_proofs; the invariants     *)
(* follow from the two facts that the plan is PlanOf(call) and that job n  *)
(* is Job(n, call, plan.eff).                                              *)
(***************************************************************************)
EXTENDS UploadPlan, PartPlan_proofs

\* The lemmas on the arithmetic, read for the plan of an accepted call.
LEMMA CallPlan ==
  ASSUME NEW c \in Calls, Accepted(c)
  PROVE  LET p == PlanOf(c) IN
         /\ p.eff \in Nat \ {0} /\ p.count \in Nat /\ p.workers \in Nat
         /\ MinPart <= p.eff /\ p.eff <= MaxBuffered
         /\ 1 <= p.count /\ p.count <= MaxParts
         /\ 1 <= p.workers /\ p.workers <= p.count
         /\ p.workers * p.eff <= BufferMemory
<1>1. /\ c.total \in Nat /\ c.part \in Int /\ c.workers \in Int /\ c.retries \in Int
      /\ Accepts(c.total, c.part, c.workers, c.retries)
  <2>1. /\ c.total \in Totals /\ c.part \in PartSizes
        /\ c.workers \in WorkerCounts /\ c.retries \in RetryCounts
    BY DEF Calls
  <2> QED BY <2>1, InputsAssumption DEF Accepted
<1> QED BY <1>1, PlanBounds DEF PlanOf

LEMMA CallJob ==
  ASSUME NEW c \in Calls, Accepted(c), NEW n \in 1..PlanOf(c).count
  PROVE  LET p == PlanOf(c)
             j == Job(n, c, p.eff)
         IN  /\ j \in [offset : Nat, size : Nat]
             /\ j.offset = (n - 1) * p.eff
             /\ 0 < j.size /\ j.size <= p.eff
             /\ n < p.count => j.size = p.eff
             /\ n = p.count => j.offset + j.size = c.total
<1>1. /\ c.total \in Nat /\ c.part \in Int /\ c.workers \in Int /\ c.retries \in Int
      /\ Accepts(c.total, c.part, c.workers, c.retries)
  <2>1. /\ c.total \in Totals /\ c.part \in PartSizes
        /\ c.workers \in WorkerCounts /\ c.retries \in RetryCounts
    BY DEF Calls
  <2> QED BY <2>1, InputsAssumption DEF Accepted
<1> QED BY <1>1, RangeBounds DEF PlanOf, Job

\* What is known between two steps: nothing is submitted before the plan, the
\* plan is that of an accepted call, job n is the job of part n, and a call is
\* refused for a reason.
IInv ==
    /\ TypeOK
    /\ stage \in {"called", "refused"} => plan = NoPlan /\ jobs = << >>
    /\ stage = "refused" => ~Accepted(call)
    /\ stage \in {"submitting", "submitted"} =>
          Accepted(call) /\ plan = PlanOf(call)
    /\ stage = "submitted" => Len(jobs) = plan.count
    /\ Len(jobs) <= plan.count
    /\ \A n \in 1..Len(jobs) : jobs[n] = Job(n, call, plan.eff)

THEOREM PlanInvariant == Spec => []IInv
<1>1. Init => IInv
  BY DEF Init, IInv, TypeOK, NoPlan
<1>2. IInv /\ [Next]_vars => IInv'
  <2> SUFFICES ASSUME IInv, [Next]_vars PROVE IInv'
    OBVIOUS
  <2> USE DEF IInv, TypeOK
  <2>1. CASE Refuse
    BY <2>1 DEF Refuse
  <2>2. CASE Plan
    <3>1. PlanOf(call).eff \in Nat /\ PlanOf(call).count \in Nat
          /\ PlanOf(call).workers \in Nat
      BY <2>2, CallPlan DEF Plan
    <3>2. plan' \in [eff : Nat, count : Nat, workers : Nat]
      BY <2>2, <3>1 DEF Plan, PlanOf
    <3> QED BY <2>2, <3>1, <3>2 DEF Plan
  <2>3. CASE Submit
    <3> DEFINE n == Len(jobs) + 1
    <3>1. n \in 1..plan.count /\ n \in 1..PlanOf(call).count
      BY <2>3 DEF Submit
    <3>2. Job(n, call, plan.eff) \in [offset : Nat, size : Nat]
      BY <2>3, <3>1, CallJob DEF Submit
    <3>3. /\ jobs' \in Seq([offset : Nat, size : Nat])
          /\ Len(jobs') = n
          /\ \A i \in 1..n : jobs'[i] = IF i = n THEN Job(n, call, plan.eff)
                                                 ELSE jobs[i]
      BY <2>3, <3>2 DEF Submit
    <3> HIDE DEF n
    <3>4. \A i \in 1..Len(jobs') : jobs'[i] = Job(i, call, plan.eff)
      <4> SUFFICES ASSUME NEW i \in 1..Len(jobs')
                   PROVE  jobs'[i] = Job(i, call, plan.eff)
        OBVIOUS
      <4>1. CASE i = n
        BY <3>3, <4>1
      <4>2. CASE i # n
        <5>1. i \in 1..Len(jobs)
          BY <3>3, <4>2 DEF n
        <5> QED BY <3>3, <4>2, <5>1
      <4> QED BY <4>1, <4>2
    <3>5. UNCHANGED <<call, stage, plan>> /\ stage = "submitting"
      BY <2>3 DEF Submit
    <3> QED BY <3>1, <3>3, <3>4, <3>5
  <2>4. CASE Submitted
    BY <2>4 DEF Submitted
  <2>5. CASE UNCHANGED vars
    BY <2>5 DEF vars
  <2> QED BY <2>1, <2>2, <2>3, <2>4, <2>5 DEF Next
<1> QED BY <1>1, <1>2, PTL DEF Spec

-----------------------------------------------------------------------------
\* The plan and the jobs always have their types.
THEOREM TypeCorrect == Spec => []TypeOK
<1>1. IInv => TypeOK
  BY DEF IInv
<1> QED BY <1>1, PlanInvariant, PTL

\* For every file and all arguments, the submitted byte ranges tile the file.
THEOREM TilesTheFile == Spec => []PartsTileTheFile
<1>1. IInv => PartsTileTheFile
  <2> SUFFICES ASSUME IInv PROVE PartsTileTheFile
    OBVIOUS
  <2> USE DEF IInv, TypeOK
  <2>1. ASSUME NEW n \in 1..Len(jobs)
        PROVE  /\ jobs[n].size > 0
               /\ jobs[n].offset = IF n = 1 THEN 0 ELSE Ending(jobs[n - 1])
    <3>1. /\ stage \in {"submitting", "submitted"} /\ Accepted(call)
          /\ plan = PlanOf(call) /\ n \in 1..plan.count
      BY <2>1
    <3>2. /\ jobs[n].offset = (n - 1) * plan.eff /\ jobs[n].size > 0
      BY <2>1, <3>1, CallJob
    <3>3. CASE n = 1
      BY <3>1, <3>2, <3>3, CallPlan
    <3>4. CASE n # 1
      <4>1. /\ n - 1 \in 1..Len(jobs) /\ n - 1 \in 1..PlanOf(call).count
            /\ n - 1 < plan.count
        BY <3>1, <3>4
      <4>2. /\ jobs[n - 1].offset = (n - 2) * plan.eff
            /\ jobs[n - 1].size = plan.eff
        <5> DEFINE m == n - 1
        <5>1. /\ m \in 1..PlanOf(call).count /\ m < plan.count
              /\ m - 1 = n - 2
              /\ jobs[m] = Job(m, call, plan.eff)
          BY <3>1, <4>1
        <5> HIDE DEF m
        <5>2. /\ jobs[m].offset = (m - 1) * plan.eff /\ jobs[m].size = plan.eff
          BY <3>1, <5>1, CallJob
        <5> QED BY <5>1, <5>2 DEF m
      <4>3. (n - 1) * plan.eff = (n - 2) * plan.eff + plan.eff
        BY <3>1, <3>4, <4>1
      <4> QED BY <3>2, <3>4, <4>2, <4>3 DEF Ending
    <3> QED BY <3>3, <3>4
  <2>2. ASSUME stage = "submitted"
        PROVE  Len(jobs) > 0 /\ Ending(jobs[Len(jobs)]) = call.total
    <3>1. /\ Accepted(call) /\ plan = PlanOf(call) /\ Len(jobs) = plan.count
      BY <2>2
    <3>2. plan.count >= 1 /\ Len(jobs) \in 1..plan.count
      BY <3>1, CallPlan
    <3> QED BY <3>1, <3>2, CallJob DEF Ending
  <2> QED BY <2>1, <2>2 DEF PartsTileTheFile
<1> QED BY <1>1, PlanInvariant, PTL

\* No plan asks the storage service for more, larger or smaller parts than a
\* multipart upload may have.
THEOREM StorageLimitsHold == Spec => []WithinStorageLimits
<1>1. IInv => WithinStorageLimits
  <2> SUFFICES ASSUME IInv PROVE WithinStorageLimits
    OBVIOUS
  <2> USE DEF IInv, TypeOK
  <2>1. CASE stage \in {"called", "refused"}
    BY <2>1, LimitsAssumption DEF WithinStorageLimits, NoPlan
  <2>2. CASE stage \in {"submitting", "submitted"}
    <3>1. Accepted(call) /\ plan = PlanOf(call)
      BY <2>2
    <3>2. MinPart <= plan.eff /\ plan.eff <= MaxBuffered /\ plan.count <= MaxParts
      BY <3>1, CallPlan
    <3>3. ASSUME NEW n \in 1..Len(jobs)
          PROVE  /\ jobs[n].size <= MaxBuffered
                 /\ n < plan.count => jobs[n].size >= MinPart
      <4>1. n \in 1..plan.count
        BY <3>3
      <4>2. /\ jobs[n].size \in Nat /\ jobs[n].size <= plan.eff
            /\ n < plan.count => jobs[n].size = plan.eff
        BY <3>1, <4>1, CallJob
      <4> QED BY <3>2, <4>2, LimitsAssumption
    <3> QED BY <3>2, <3>3 DEF WithinStorageLimits
  <2> QED BY <2>1, <2>2
<1> QED BY <1>1, PlanInvariant, PTL

\* The workers that run together never hold more than BufferMemory bytes of
\* parts, however the part size and the worker count were chosen.
THEOREM WorkersFit == Spec => []WorkersFitMemory
<1>1. IInv => WorkersFitMemory
  BY CallPlan DEF IInv, TypeOK, WorkersFitMemory
<1> QED BY <1>1, PlanInvariant, PTL

\* Refusing a call with legal arguments is never premature.
THEOREM RefusalsAreNecessary == Spec => []RefusedOnlyWhenTooLarge
<1>1. IInv => RefusedOnlyWhenTooLarge
  <2> SUFFICES ASSUME IInv, stage = "refused", call.declared,
                      LegalArguments(call.total, call.part, call.workers, call.retries)
               PROVE  call.total > MaxParts * MaxBuffered
    BY DEF RefusedOnlyWhenTooLarge
  <2>1. call \in Calls /\ ~FitsBuffers(call.total, call.part)
    BY DEF IInv, TypeOK, Accepted, Accepts
  <2>2. call.total \in Totals /\ call.part \in PartSizes
    BY <2>1 DEF Calls
  <2>3. /\ call.total \in Nat \ {0} /\ call.part \in Int
        /\ call.part <= MaxBuffered
    <3>1. call.total \in Nat /\ call.part \in Int
      BY <2>2, InputsAssumption
    <3>2. call.total > 0 /\ call.part <= MaxBuffered
      BY DEF LegalArguments
    <3> QED BY <3>1, <3>2
  <2>4. CeilDiv(call.total, MaxParts) > MaxBuffered
    <3>1. CeilDiv(call.total, MaxParts) \in Nat
      BY <2>3, CeilDivBounds, LimitsAssumption
    <3> QED
      BY <2>1, <2>3, <3>1, LimitsAssumption DEF FitsBuffers, EffectiveSize, AtLeast
  <2>5. SUFFICES ASSUME call.total <= MaxParts * MaxBuffered PROVE FALSE
    BY <2>3, LimitsAssumption
  <2>6. call.total <= MaxBuffered * MaxParts
    BY <2>3, <2>5, LimitsAssumption
  <2>7. CeilDiv(call.total, MaxParts) <= MaxBuffered
    BY <2>3, <2>6, CeilDivAtMost, LimitsAssumption
  <2>8. CeilDiv(call.total, MaxParts) \in Nat
    BY <2>3, CeilDivBounds, LimitsAssumption
  <2> QED BY <2>4, <2>7, <2>8, LimitsAssumption
<1> QED BY <1>1, PlanInvariant, PTL
=============================================================================
