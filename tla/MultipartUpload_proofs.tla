----------------------- MODULE MultipartUpload_proofs -----------------------
(***************************************************************************)
(* What upload_multipart guarantees for every file, part size, number of   *)
(* workers and attempts, and for any number of edits and interrupts.       *)
(*                                                                         *)
(* None of the properties is inductive alone.  IInv adds what the code     *)
(* relies on without saying so: a buffer is filled once and then never     *)
(* changes, so that everything the service holds, everything in flight and *)
(* every ETag in the manifest is that buffer; and a collected part stays   *)
(* done, so that a full collection means idle workers.                     *)
(*                                                                         *)
(* The last sections prove that the uploader implements UploadSession, and *)
(* what is said of sums of bytes: that the buffers of the running workers  *)
(* fit into the memory, and that the progress reported is exact.           *)
(***************************************************************************)
EXTENDS MultipartUpload, PartPlan_proofs, FiniteSetTheorems

LEMMA PlanFacts ==
  /\ Count \in Nat /\ 1 <= Count
  /\ Part = 1..Count
  /\ \A p \in Part : Bytes(p) \in Nat
<1>1. /\ TotalSize \in Nat /\ AskedPart \in Int /\ AskedWorkers \in Int /\ Attempts \in Int
      /\ Accepts(TotalSize, AskedPart, AskedWorkers, Attempts)
  BY CallAssumption
<1>2. Count \in Nat /\ 1 <= Count
  BY <1>1, PlanBounds DEF Count, Eff
<1>3. ASSUME NEW p \in Part PROVE Bytes(p) \in Nat
  BY <1>1, RangeBounds DEF Part, Bytes, Count, Eff
<1> QED BY <1>2, <1>3 DEF Part

Entry == [number : Part, etag : Version]

\* A call that has not begun has no work, one still collecting has decided
\* nothing, and one that has been decided has no work left.
CallInv ==
    /\ phase = "initializing" => \A p \in Part : work[p] = "unsubmitted"
    /\ phase \in {"initializing", "collecting"} => decision = "none"
    /\ DecidedAfterQuiescence
    /\ error \in {"part", "progress"} => phase = "draining" \/ decision = "abort"
    /\ phase = "draining" => error \in {"part", "progress", "interrupt"}

\* Each part is collected at most once, done, with the ETag of its buffer;
\* for completion all are, in order.
CollectedInv ==
    /\ \A i, j \in 1..Len(uploaded) :
          uploaded[i].number = uploaded[j].number => i = j
    /\ \A i \in 1..Len(uploaded) :
          /\ work[uploaded[i].number] = "done"
          /\ uploaded[i].etag = content[uploaded[i].number]
    /\ phase = "completing" =>
          /\ Len(uploaded) = Count
          /\ \A k \in 1..Count : uploaded[k].number = k

\* A buffer is empty until it is read, full while it is sent, and all that
\* the service holds or may still receive of the part.
BufferInv ==
    /\ \A p \in Part :
          /\ work[p] \in {"unsubmitted", "queued", "reading"} => content[p] = None
          /\ work[p] \in {"presigning", "putting", "backoff", "done"} =>
                content[p] # None
          /\ work[p] = "backoff" => attempt[p] < Attempts
          /\ work[p] = "done" => stored[p] = content[p]
          /\ stored[p] # None => stored[p] = content[p]
    /\ \A put \in inflight : put.content = content[put.number]

\* The URL in hand is that of the attempt being made, and a new one is due
\* before the next.
UrlInv ==
    \A p \in Part :
        /\ work[p] \in {"unsubmitted", "queued", "reading"} => signed[p] = 0
        /\ work[p] = "presigning" => signed[p] < attempt[p]
        /\ work[p] \in {"putting", "backoff"} => signed[p] = attempt[p]

IInv == TypeOK /\ CallInv /\ CollectedInv /\ UrlInv /\ BufferInv

-----------------------------------------------------------------------------
\* The manifest.

LEMMA IntervalSize ==
  ASSUME NEW a \in Int, NEW b \in Int, a <= b
  PROVE  Cardinality(a..b) = b - a + 1 /\ IsFiniteSet(a..b)
BY FS_Interval

\* An order-preserving injection of 1..n into itself is the identity: its
\* values up to k fit below its value at k, those from k on above it.
LEMMA AscendingIsIdentity ==
  ASSUME NEW n \in Nat, NEW g \in [1..n -> 1..n],
         \A i, j \in 1..n : i < j => g[i] < g[j],
         NEW k \in 1..n
  PROVE  g[k] = k
<1>0. \A i \in 1..n : g[i] \in 1..n
  OBVIOUS
<1>1. k \in Nat /\ g[k] \in Nat /\ 1 <= g[k] /\ g[k] <= n
  BY <1>0
<1>2. ASSUME NEW i \in 1..n, NEW j \in 1..n, i # j
      PROVE  g[i] # g[j]
  <2>1. g[i] \in Nat /\ g[j] \in Nat /\ (i < j \/ j < i)
    BY <1>0, <1>2
  <2>2. (i < j => g[i] < g[j]) /\ (j < i => g[j] < g[i])
    OBVIOUS
  <2> QED BY <2>1, <2>2
<1>3. k <= g[k]
  <2> DEFINE low == [i \in 1..k |-> g[i]]
  <2>1. low \in [1..k -> 1..g[k]]
    <3>1. ASSUME NEW i \in 1..k PROVE g[i] \in 1..g[k]
      <4>1. i \in 1..n /\ g[i] \in Nat /\ 1 <= g[i] /\ g[i] <= n
        BY <1>0, <1>1
      <4>2. CASE i = k
        BY <1>1, <4>2
      <4>3. CASE i < k
        <5>1. g[i] < g[k]
          BY <4>1, <4>3
        <5> QED BY <1>1, <4>1, <5>1
      <4> QED BY <1>1, <4>2, <4>3
    <3> QED BY <3>1
  <2>2. \A i, j \in 1..k : low[i] = low[j] => i = j
    <3>1. ASSUME NEW i \in 1..k, NEW j \in 1..k, i # j
          PROVE  low[i] # low[j]
      <4>1. i \in 1..n /\ j \in 1..n
        BY <1>1
      <4>2. low[i] = g[i] /\ low[j] = g[j]
        OBVIOUS
      <4> QED BY <1>2, <3>1, <4>1, <4>2
    <3> QED BY <3>1
  <2>3. low \in Injection(1..k, 1..g[k])
    BY <2>1, <2>2 DEF Injection, IsInjective
  <2> HIDE DEF low
  <2>4. Cardinality(1..k) = k /\ Cardinality(1..g[k]) = g[k] /\ IsFiniteSet(1..g[k])
    BY <1>1, FS_Interval
  <2> QED BY <2>3, <2>4, FS_Injection
<1>4. g[k] <= k
  <2> DEFINE high == [i \in k..n |-> g[i]]
  <2>1. high \in [k..n -> g[k]..n]
    <3>1. ASSUME NEW i \in k..n PROVE g[i] \in g[k]..n
      <4>1. i \in 1..n /\ g[i] \in Nat /\ 1 <= g[i] /\ g[i] <= n
        BY <1>0, <1>1
      <4>2. CASE i = k
        BY <1>1, <4>2
      <4>3. CASE k < i
        <5>1. g[k] < g[i]
          BY <4>1, <4>3
        <5> QED BY <1>1, <4>1, <5>1
      <4> QED BY <1>1, <4>2, <4>3
    <3> QED BY <3>1
  <2>2. \A i, j \in k..n : high[i] = high[j] => i = j
    <3>1. ASSUME NEW i \in k..n, NEW j \in k..n, i # j
          PROVE  high[i] # high[j]
      <4>1. i \in 1..n /\ j \in 1..n
        BY <1>1
      <4>2. high[i] = g[i] /\ high[j] = g[j]
        OBVIOUS
      <4> QED BY <1>2, <3>1, <4>1, <4>2
    <3> QED BY <3>1
  <2>3. high \in Injection(k..n, g[k]..n)
    BY <2>1, <2>2 DEF Injection, IsInjective
  <2> HIDE DEF high
  <2>4. /\ Cardinality(k..n) = n - k + 1 /\ Cardinality(g[k]..n) = n - g[k] + 1
        /\ IsFiniteSet(g[k]..n)
    <3>1. k \in Int /\ n \in Int /\ g[k] \in Int /\ k <= n /\ g[k] <= n
      BY <1>1
    <3> QED BY <3>1, IntervalSize
  <2> QED BY <1>1, <2>3, <2>4, FS_Injection
<1> QED BY <1>1, <1>3, <1>4

\* Sorting a collection of all parts, each once, lists part k at place k.
LEMMA SortedManifest ==
  ASSUME NEW m \in Seq(Entry),
         \A i, j \in 1..Len(m) : m[i].number = m[j].number => i = j,
         {m[i].number : i \in 1..Len(m)} = Part
  PROVE  /\ Sorted(m) \in Seq(Entry) /\ Len(Sorted(m)) = Count
         /\ \A k \in 1..Count : /\ Sorted(m)[k].number = k
                               /\ \E i \in 1..Len(m) : Sorted(m)[k] = m[i]
<1> DEFINE f == [i \in 1..Len(m) |-> m[i].number]
<1>1. Count \in Nat /\ Part = 1..Count
  BY PlanFacts
<1>2. \A i \in 1..Len(m) : m[i] \in Entry /\ m[i].number \in 1..Count
  <2>1. \A i \in 1..Len(m) : m[i] \in Entry
    OBVIOUS
  <2> QED BY <1>1, <2>1 DEF Entry
<1>3. Len(m) = Count
  <2>1. f \in [1..Len(m) -> 1..Count]
    BY <1>2
  <2>2. /\ \A i, j \in 1..Len(m) : f[i] = f[j] => i = j
        /\ \A k \in 1..Count : \E i \in 1..Len(m) : f[i] = k
    BY <1>1
  <2>3. f \in Bijection(1..Len(m), 1..Count)
    BY <2>1, <2>2 DEF Bijection, Injection, Surjection, IsInjective
  <2> HIDE DEF f
  <2>4. Cardinality(1..Count) = Cardinality(1..Len(m))
    <3>1. IsFiniteSet(1..Len(m))
      BY FS_Interval
    <3> QED BY <2>3, <3>1, FS_Bijection DEF ExistsBijection
  <2> QED BY <1>1, <2>4, FS_Interval
<1>4. \E s \in Rearranged(m) : Ascending(s)
  <2> DEFINE pi == [k \in 1..Count |-> CHOOSE i \in 1..Count : m[i].number = k]
  <2>1. \A k \in 1..Count : pi[k] \in 1..Count /\ m[pi[k]].number = k
    <3> SUFFICES ASSUME NEW k \in 1..Count
                 PROVE  pi[k] \in 1..Count /\ m[pi[k]].number = k
      OBVIOUS
    <3>1. \E i \in 1..Count : m[i].number = k
      BY <1>1, <1>3
    <3> QED BY <3>1
  <2>2. pi \in [1..Count -> 1..Count]
    BY <2>1
  <2>3. \A k, l \in 1..Count : pi[k] = pi[l] => k = l
    BY <2>1
  <2>4. \A i \in 1..Count : \E k \in 1..Count : pi[k] = i
    <3> SUFFICES ASSUME NEW i \in 1..Count PROVE pi[m[i].number] = i
      BY <1>2, <1>3
    <3>1. m[i].number \in 1..Count
      BY <1>2, <1>3
    <3> QED BY <1>3, <2>1, <3>1
  <2> HIDE DEF pi
  <2>5. pi \in Bijection(1..Len(m), 1..Len(m))
    BY <1>3, <2>2, <2>3, <2>4 DEF Bijection, Injection, Surjection, IsInjective
  <2> DEFINE s == [k \in 1..Len(m) |-> m[pi[k]]]
  <2>6. s \in Rearranged(m)
    BY <2>5 DEF Rearranged
  <2>7. Ascending(s)
    <3>1. Len(s) = Count
      BY <1>1, <1>3
    <3>2. \A k \in 1..Count : s[k].number = k
      BY <1>3, <2>1
    <3> HIDE DEF s
    <3> QED BY <3>1, <3>2 DEF Ascending
  <2> QED BY <2>6, <2>7
<1>5. Sorted(m) \in Rearranged(m) /\ Ascending(Sorted(m))
  BY <1>4 DEF Sorted
<1>6. PICK tau \in Bijection(1..Count, 1..Count) :
         Sorted(m) = [k \in 1..Count |-> m[tau[k]]]
  BY <1>3, <1>5 DEF Rearranged
<1>7. /\ tau \in [1..Count -> 1..Count]
      /\ \A k, l \in 1..Count : tau[k] = tau[l] => k = l
  BY <1>6 DEF Bijection, Injection, IsInjective
<1>8. /\ Sorted(m) \in Seq(Entry) /\ Len(Sorted(m)) = Count
      /\ \A k \in 1..Count : Sorted(m)[k] = m[tau[k]]
  BY <1>1, <1>2, <1>3, <1>6, <1>7
<1> DEFINE g == [k \in 1..Count |-> m[tau[k]].number]
<1>9. /\ g \in [1..Count -> 1..Count]
      /\ \A k, l \in 1..Count : k < l => g[k] < g[l]
  <2>1. \A k \in 1..Count : g[k] \in 1..Count /\ tau[k] \in 1..Len(m)
    BY <1>2, <1>3, <1>7
  <2>2. \A k, l \in 1..Count : k < l => g[k] <= g[l]
    BY <1>5, <1>8 DEF Ascending
  <2>3. \A k, l \in 1..Count : k # l => g[k] # g[l]
    BY <1>7, <2>1
  <2> HIDE DEF g
  <2>4. ASSUME NEW k \in 1..Count, NEW l \in 1..Count, k < l
        PROVE  g[k] < g[l]
    <3>1. g[k] <= g[l] /\ g[k] # g[l] /\ g[k] \in Int /\ g[l] \in Int
      BY <2>1, <2>2, <2>3, <2>4
    <3> QED BY <3>1
  <2>5. g \in [1..Count -> 1..Count]
    BY <2>1 DEF g
  <2> QED BY <2>4, <2>5
<1>10. \A k \in 1..Count : g[k] = k
  <2> HIDE DEF g
  <2> QED BY <1>1, <1>9, AscendingIsIdentity
<1>11. \A k \in 1..Count : Sorted(m)[k].number = k /\ tau[k] \in 1..Len(m)
  BY <1>3, <1>7, <1>8, <1>10
<1> QED BY <1>8, <1>11

-----------------------------------------------------------------------------
\* The initial states and the steps of the calling thread.

LEMMA InitHolds == Init => IInv
<1> SUFFICES ASSUME Init PROVE IInv
  OBVIOUS
<1> USE DEF Init
<1>1. TypeOK
  BY CallAssumption, BoundsAssumption
     DEF TypeOK, Version, Ended, OnWorker, Settled, Accepts
<1>2. CallInv
  BY DEF CallInv, DecidedAfterQuiescence
<1>3. CollectedInv
  BY DEF CollectedInv
<1>4. UrlInv /\ BufferInv
  BY DEF UrlInv, BufferInv
<1> QED BY <1>1, <1>2, <1>3, <1>4 DEF IInv

LEMMA CollectedEntry ==
  ASSUME TypeOK, NEW i \in 1..Len(uploaded)
  PROVE  uploaded[i] \in Entry /\ uploaded[i].number \in Part
<1>1. uploaded \in Seq(Entry)
  BY DEF TypeOK, Entry
<1>2. uploaded[i] \in Entry
  BY <1>1
<1> QED BY <1>2 DEF Entry

\* What neither a worker nor a late PUT has touched is as it was.
LEMMA WorkUntouched ==
  ASSUME IInv, UNCHANGED <<workerVars, stored, inflight>>
  PROVE  UrlInv' /\ BufferInv'
BY DEF IInv, workerVars, UrlInv, BufferInv

LEMMA OpenedKeeps == IInv /\ Opened => IInv'
<1> SUFFICES ASSUME IInv, Opened PROVE IInv'
  OBVIOUS
<1> USE DEF IInv, Opened
<1>1. TypeOK'
  BY DEF TypeOK
<1>2. CallInv'
  BY DEF CallInv, DecidedAfterQuiescence, TypeOK
<1>3. CollectedInv'
  <2>1. ASSUME NEW i \in 1..Len(uploaded) PROVE FALSE
    <3>1. uploaded[i].number \in Part
      BY CollectedEntry
    <3> QED BY <3>1 DEF CollectedInv, CallInv
  <2>2. uploaded' = uploaded /\ phase' # "completing"
    OBVIOUS
  <2> QED BY <2>1, <2>2 DEF CollectedInv
<1>4. UrlInv' /\ BufferInv'
  BY DEF UrlInv, BufferInv, CallInv
<1> QED BY <1>1, <1>2, <1>3, <1>4

LEMMA InitFailsKeeps == IInv /\ InitFails => IInv'
<1> SUFFICES ASSUME IInv, InitFails PROVE IInv'
  OBVIOUS
<1>1. UrlInv' /\ BufferInv'
  BY WorkUntouched DEF InitFails
<1> USE DEF IInv, InitFails, workerVars
<1>2. TypeOK'
  BY DEF TypeOK, Ended
<1>3. CallInv'
  BY DEF CallInv, DecidedAfterQuiescence
<1>4. CollectedInv'
  BY DEF CollectedInv
<1> QED BY <1>1, <1>2, <1>3, <1>4

LEMMA CollectDoneKeeps ==
  ASSUME IInv, NEW p \in Part, CollectDone(p)
  PROVE  IInv'
<1>1. UrlInv' /\ BufferInv'
  BY WorkUntouched DEF CollectDone, serverVars
<1> USE DEF IInv, CollectDone, workerVars, serverVars
<1> DEFINE e == [number |-> p, etag |-> content[p]]
<1>2. content[p] \in Version
  BY DEF TypeOK, BufferInv
<1>3. uploaded \in Seq(Entry) /\ e \in Entry
  BY <1>2 DEF TypeOK, Entry
<1> HIDE DEF e
<1>4. uploaded' = Append(uploaded, e)
  BY DEF e
<1>5. /\ uploaded' \in Seq(Entry) /\ Len(uploaded') = Len(uploaded) + 1
      /\ \A i \in 1..Len(uploaded) : uploaded'[i] = uploaded[i]
      /\ uploaded'[Len(uploaded) + 1] = e
  BY <1>3, <1>4
<1>6. TypeOK'
  <2>1. transferred' \in Nat
    BY PlanFacts DEF TypeOK, AddedBytes
  <2> QED BY <1>5, <2>1 DEF TypeOK, Entry
<1>7. CallInv'
  BY DEF CallInv, DecidedAfterQuiescence
<1>8. CollectedInv'
  <2>1. \A i \in 1..Len(uploaded) : uploaded[i].number # p
    BY DEF Reported
  <2>2. Len(uploaded) \in Nat /\ e.number = p /\ e.etag = content[p]
    BY <1>3 DEF e
  <2>3. \A i \in 1..Len(uploaded') : i \in 1..Len(uploaded) \/ i = Len(uploaded) + 1
    BY <1>5, <2>2
  <2>4. ASSUME NEW i \in 1..Len(uploaded'), NEW j \in 1..Len(uploaded'),
               uploaded'[i].number = uploaded'[j].number
        PROVE  i = j
    BY <1>5, <2>1, <2>2, <2>3, <2>4 DEF CollectedInv
  <2>5. ASSUME NEW i \in 1..Len(uploaded')
        PROVE  /\ work[uploaded'[i].number] = "done"
               /\ uploaded'[i].etag = content[uploaded'[i].number]
    BY <1>5, <2>2, <2>3 DEF CollectedInv
  <2>6. phase' # "completing"
    OBVIOUS
  <2> QED BY <2>4, <2>5, <2>6 DEF CollectedInv
<1> QED BY <1>1, <1>6, <1>7, <1>8

\* Steps of the caller that collect nothing.
LEMMA CollectFailedKeeps ==
  ASSUME IInv, NEW p \in Part, CollectFailed(p)
  PROVE  IInv'
<1>1. UrlInv' /\ BufferInv'
  BY WorkUntouched DEF CollectFailed, serverVars
<1> USE DEF IInv, CollectFailed, workerVars, serverVars
<1>2. TypeOK'
  BY DEF TypeOK
<1>3. CallInv'
  BY DEF CallInv, DecidedAfterQuiescence
<1>4. CollectedInv'
  BY DEF CollectedInv
<1> QED BY <1>1, <1>2, <1>3, <1>4

LEMMA LeavePoolKeeps == IInv /\ LeavePool => IInv'
<1> SUFFICES ASSUME IInv, LeavePool PROVE IInv'
  OBVIOUS
<1>1. UrlInv' /\ BufferInv'
  BY WorkUntouched DEF LeavePool, serverVars
<1> USE DEF IInv, LeavePool, workerVars, serverVars
<1>2. TypeOK'
  BY DEF TypeOK, Ended
<1>3. CallInv'
  BY DEF CallInv, DecidedAfterQuiescence, Drained, Aborts
<1>4. CollectedInv'
  BY DEF CollectedInv
<1> QED BY <1>1, <1>2, <1>3, <1>4

LEMMA AbortEndsKeeps == IInv /\ AbortEnds => IInv'
<1> SUFFICES ASSUME IInv, AbortEnds PROVE IInv'
  OBVIOUS
<1>1. UrlInv' /\ BufferInv'
  BY WorkUntouched DEF AbortEnds
<1> USE DEF IInv, AbortEnds, workerVars
<1>2. TypeOK'
  BY DEF TypeOK, Ended
<1>3. CallInv'
  BY DEF CallInv, DecidedAfterQuiescence
<1>4. CollectedInv'
  BY DEF CollectedInv
<1> QED BY <1>1, <1>2, <1>3, <1>4

\* Every part is collected, so every worker is done; sorting the collection
\* loses nothing and repeats nothing.
LEMMA StartCompletionKeeps == IInv /\ StartCompletion => IInv'
<1> SUFFICES ASSUME IInv, StartCompletion PROVE IInv'
  OBVIOUS
<1>1. UrlInv' /\ BufferInv'
  BY WorkUntouched DEF StartCompletion, serverVars
<1> USE DEF IInv, StartCompletion, workerVars, serverVars
<1>2. Count \in Nat /\ Part = 1..Count
  BY PlanFacts
<1>3. /\ uploaded' \in Seq(Entry) /\ Len(uploaded') = Count
      /\ \A k \in 1..Count : /\ uploaded'[k].number = k
                            /\ \E i \in 1..Len(uploaded) : uploaded'[k] = uploaded[i]
  <2>1. uploaded \in Seq(Entry)
    BY DEF TypeOK, Entry
  <2>2. {uploaded[i].number : i \in 1..Len(uploaded)} = Part
    BY DEF AllReported, Reported
  <2>3. \A i, j \in 1..Len(uploaded) : uploaded[i].number = uploaded[j].number => i = j
    BY DEF CollectedInv
  <2>4. uploaded' = Sorted(uploaded)
    OBVIOUS
  <2> QED BY <2>1, <2>2, <2>3, <2>4, SortedManifest
<1>4. TypeOK'
  BY <1>3 DEF TypeOK, Entry
<1>5. CallInv'
  <2>1. \A p \in Part : work[p] = "done"
    BY DEF AllReported, Reported, CollectedInv
  <2> QED BY <2>1 DEF CallInv, DecidedAfterQuiescence, Settled
<1>6. CollectedInv'
  <2>1. ASSUME NEW k \in 1..Count
        PROVE  /\ work[uploaded'[k].number] = "done"
               /\ uploaded'[k].etag = content[uploaded'[k].number]
    <3>1. PICK i \in 1..Len(uploaded) : uploaded'[k] = uploaded[i]
      BY <1>3
    <3> QED BY <3>1 DEF CollectedInv
  <2>2. \A i, j \in 1..Len(uploaded') :
           uploaded'[i].number = uploaded'[j].number => i = j
    BY <1>3
  <2>3. work' = work /\ content' = content
    OBVIOUS
  <2> HIDE DEF IInv, StartCompletion
  <2> QED BY <1>3, <2>1, <2>2, <2>3 DEF CollectedInv
<1> QED BY <1>1, <1>4, <1>5, <1>6

LEMMA CompletionKeeps == IInv /\ (Completed \/ CompletionFails) => IInv'
<1> SUFFICES ASSUME IInv, Completed \/ CompletionFails PROVE IInv'
  OBVIOUS
<1>1. UrlInv' /\ BufferInv'
  BY WorkUntouched DEF Completed, CompletionFails, serverVars
<1> USE DEF IInv, Completed, CompletionFails, workerVars, serverVars
<1>2. TypeOK'
  BY DEF TypeOK, Ended
<1>3. CallInv'
  BY DEF CallInv, DecidedAfterQuiescence
<1>4. CollectedInv'
  BY DEF CollectedInv
<1> QED BY <1>1, <1>2, <1>3, <1>4

LEMMA InterruptedKeeps == IInv /\ Interrupted => IInv'
<1> SUFFICES ASSUME IInv, Interrupted PROVE IInv'
  OBVIOUS
<1>1. UrlInv' /\ BufferInv'
  BY WorkUntouched DEF Interrupted, serverVars
<1> USE DEF IInv, Interrupted, workerVars, serverVars
<1>2. TypeOK'
  BY BoundsAssumption DEF TypeOK, Ended
<1>3. CallInv'
  BY DEF CallInv, DecidedAfterQuiescence
<1>4. CollectedInv'
  BY DEF CollectedInv
<1> QED BY <1>1, <1>2, <1>3, <1>4

-----------------------------------------------------------------------------
\* The steps of a worker.  While one of them runs the call has begun, nothing
\* is decided, and the part is not yet collected.

LEMMA Working ==
  ASSUME IInv, NEW p \in Part, work[p] \in {"queued"} \cup OnWorker
  PROVE  /\ phase # "initializing" /\ decision = "none" /\ phase # "completing"
         /\ \A i \in 1..Len(uploaded) :
               uploaded[i].number \in Part \ {p}
<1>1. decision = "none" /\ phase # "initializing"
  BY DEF IInv, CallInv, DecidedAfterQuiescence, OnWorker, Settled
<1>2. \A i \in 1..Len(uploaded) : uploaded[i].number \in Part \ {p}
  <2>1. \A i \in 1..Len(uploaded) : uploaded[i].number \in Part
    BY CollectedEntry DEF IInv
  <2> QED BY <2>1 DEF IInv, CollectedInv, OnWorker
<1>3. phase # "completing"
  <2>1. phase = "completing" => uploaded[p].number = p /\ p \in 1..Len(uploaded)
    BY PlanFacts DEF IInv, CollectedInv
  <2> QED BY <1>2, <2>1
<1> QED BY <1>1, <1>2, <1>3

\* Such a step leaves the caller's part of the invariant alone, as long as it
\* only changes its own part of what the workers keep.
LEMMA CallerUntouched ==
  ASSUME IInv, NEW p \in Part, work[p] \in {"queued"} \cup OnWorker,
         UNCHANGED callerVars,
         \A q \in Part \ {p} : work'[q] = work[q] /\ content'[q] = content[q]
  PROVE  CallInv' /\ CollectedInv'
<1>1. /\ phase # "initializing" /\ decision = "none" /\ phase # "completing"
      /\ \A i \in 1..Len(uploaded) : uploaded[i].number \in Part \ {p}
  BY Working
<1> USE DEF callerVars
<1>2. CallInv'
  BY <1>1 DEF IInv, CallInv, DecidedAfterQuiescence
<1>3. CollectedInv'
  BY <1>1 DEF IInv, CollectedInv
<1> QED BY <1>2, <1>3

LEMMA WorkerKeeps ==
  ASSUME IInv, NEW p \in Part, Worker(p)
  PROVE  IInv'
<1> USE DEF callerVars, serverVars
<1>1. /\ work \in [Part -> {"unsubmitted", "queued"} \cup OnWorker \cup Settled]
      /\ attempt \in [Part -> 0..Attempts] /\ signed \in [Part -> 0..Attempts]
      /\ content \in [Part -> Version \cup {None}]
      /\ stored \in [Part -> Version \cup {None}]
      /\ inflight \subseteq [number : Part, content : Version]
      /\ version \in Version /\ None \notin Version
      /\ Attempts \in Nat /\ 1 <= Attempts
  BY CallAssumption, BoundsAssumption
     DEF IInv, TypeOK, Accepts, LegalArguments, Version
<1>2. BufferInv /\ UrlInv /\ TypeOK
  BY DEF IInv
<1>3. CASE Start(p)
  <2>1. TypeOK'
    BY <1>1, <1>2, <1>3 DEF TypeOK, Start, OnWorker
  <2>2. CallInv' /\ CollectedInv'
    BY <1>1, <1>3, CallerUntouched DEF Start
  <2>3. UrlInv' /\ BufferInv'
    BY <1>1, <1>2, <1>3 DEF Start, UrlInv, BufferInv
  <2> QED BY <2>1, <2>2, <2>3 DEF IInv
<1>4. CASE Read(p)
  <2>1. TypeOK'
    BY <1>1, <1>2, <1>4 DEF TypeOK, Read, OnWorker
  <2>2. CallInv' /\ CollectedInv'
    BY <1>1, <1>4, CallerUntouched DEF Read, OnWorker
  <2>3. UrlInv'
    BY <1>1, <1>2, <1>4 DEF Read, UrlInv
  \* nothing of an unread part is stored or in flight
  <2>4. stored[p] = None /\ \A put \in inflight : put.number # p
    BY <1>1, <1>2, <1>4 DEF Read, BufferInv
  <2>5. BufferInv'
    BY <1>1, <1>2, <1>4, <2>4 DEF Read, BufferInv
  <2> QED BY <2>1, <2>2, <2>3, <2>5 DEF IInv
<1>5. CASE ReadFails(p) \/ PresignFails(p)
  <2>1. TypeOK'
    BY <1>1, <1>2, <1>5 DEF TypeOK, ReadFails, PresignFails, Settled
  <2>2. CallInv' /\ CollectedInv'
    BY <1>1, <1>5, CallerUntouched DEF ReadFails, PresignFails, OnWorker
  <2>3. UrlInv' /\ BufferInv'
    BY <1>1, <1>2, <1>5 DEF ReadFails, PresignFails, UrlInv, BufferInv
  <2> QED BY <2>1, <2>2, <2>3 DEF IInv
<1>6. CASE Presigned(p)
  <2>1. TypeOK'
    BY <1>1, <1>2, <1>6 DEF TypeOK, Presigned, OnWorker
  <2>2. CallInv' /\ CollectedInv'
    BY <1>1, <1>6, CallerUntouched DEF Presigned, OnWorker
  <2>3. UrlInv' /\ BufferInv'
    BY <1>1, <1>2, <1>6 DEF Presigned, UrlInv, BufferInv
  <2> QED BY <2>1, <2>2, <2>3 DEF IInv
<1>7. CASE PutAccepted(p)
  <2>1. TypeOK'
    BY <1>1, <1>2, <1>7 DEF TypeOK, PutAccepted, Settled
  <2>2. CallInv' /\ CollectedInv'
    BY <1>1, <1>7, CallerUntouched DEF PutAccepted, OnWorker
  <2>3. UrlInv' /\ BufferInv'
    BY <1>1, <1>2, <1>7 DEF PutAccepted, UrlInv, BufferInv
  <2> QED BY <2>1, <2>2, <2>3 DEF IInv
<1>8. CASE PutFails(p)
  <2>1. content[p] \in Version
    BY <1>1, <1>2, <1>8 DEF PutFails, BufferInv
  <2>2. TypeOK'
    BY <1>1, <1>2, <1>8, <2>1 DEF TypeOK, PutFails, OnWorker, Settled
  <2>3. CallInv' /\ CollectedInv'
    BY <1>1, <1>8, CallerUntouched DEF PutFails, OnWorker
  <2>4. UrlInv' /\ BufferInv'
    BY <1>1, <1>2, <1>8 DEF PutFails, TriesLeft, UrlInv, BufferInv
  <2> QED BY <2>2, <2>3, <2>4 DEF IInv
<1>9. CASE Retry(p)
  <2>1. attempt[p] < Attempts
    BY <1>2, <1>9 DEF Retry, BufferInv
  <2>2. TypeOK'
    BY <1>1, <1>2, <1>9, <2>1 DEF TypeOK, Retry, OnWorker
  <2>3. CallInv' /\ CollectedInv'
    BY <1>1, <1>9, CallerUntouched DEF Retry, OnWorker
  <2>4. UrlInv' /\ BufferInv'
    BY <1>1, <1>2, <1>9 DEF Retry, UrlInv, BufferInv
  <2> QED BY <2>2, <2>3, <2>4 DEF IInv
<1> QED BY <1>3, <1>4, <1>5, <1>6, <1>7, <1>8, <1>9 DEF Worker

-----------------------------------------------------------------------------
\* The surroundings.

LEMMA LandKeeps ==
  ASSUME IInv, NEW put \in inflight, Land(put)
  PROVE  IInv'
<1> USE DEF callerVars, workerVars
<1>1. /\ put.number \in Part /\ put.content \in Version
      /\ put.content = content[put.number]
      /\ stored \in [Part -> Version \cup {None}]
  BY DEF IInv, TypeOK, BufferInv
<1>2. TypeOK'
  BY <1>1 DEF IInv, TypeOK, Land
<1>3. CallInv' /\ CollectedInv' /\ UrlInv'
  BY DEF IInv, CallInv, DecidedAfterQuiescence, CollectedInv, UrlInv, Land
<1>4. BufferInv'
  BY <1>1 DEF IInv, BufferInv, Land
<1> QED BY <1>2, <1>3, <1>4 DEF IInv

LEMMA SurroundingsKeep ==
  IInv /\ (LateCompletion \/ SessionExpires \/ EditFile \/ AllOver
              \/ UNCHANGED vars) => IInv'
<1> SUFFICES ASSUME IInv,
                    LateCompletion \/ SessionExpires \/ EditFile \/ AllOver \/ UNCHANGED vars
             PROVE  IInv'
  OBVIOUS
<1>1. UNCHANGED <<callerVars, workerVars, stored, inflight>>
  BY DEF LateCompletion, SessionExpires, EditFile, AllOver, vars, callerVars,
         workerVars, serverVars
<1>2. TypeOK'
  BY <1>1, BoundsAssumption
     DEF IInv, TypeOK, Version, LateCompletion, SessionExpires, EditFile, AllOver, vars,
         callerVars, workerVars, serverVars
<1>3. CallInv' /\ CollectedInv'
  BY <1>1 DEF IInv, CallInv, DecidedAfterQuiescence, CollectedInv, callerVars,
              workerVars
<1>4. UrlInv' /\ BufferInv'
  BY <1>1, WorkUntouched
<1> QED BY <1>2, <1>3, <1>4 DEF IInv

\* The parts, workers and services of every accepted call keep the invariant.
THEOREM Invariant == Spec => []IInv
<1>1. ASSUME IInv, [Next]_vars PROVE IInv'
  <2>1. CASE Caller
    BY <1>1, <2>1, OpenedKeeps, InitFailsKeeps, CollectDoneKeeps, CollectFailedKeeps,
       LeavePoolKeeps, AbortEndsKeeps, StartCompletionKeeps, CompletionKeeps
       DEF Caller
  <2>2. CASE Interrupted
    BY <1>1, <2>2, InterruptedKeeps
  <2>3. CASE \E p \in Part : Worker(p)
    BY <1>1, <2>3, WorkerKeeps
  <2>4. CASE \E put \in inflight : Land(put)
    BY <1>1, <2>4, LandKeeps
  <2>5. CASE LateCompletion \/ SessionExpires \/ EditFile \/ AllOver \/ UNCHANGED vars
    BY <1>1, <2>5, SurroundingsKeep
  <2> QED BY <1>1, <2>1, <2>2, <2>3, <2>4, <2>5 DEF Next
<1> QED BY <1>1, InitHolds, PTL DEF Spec

-----------------------------------------------------------------------------
\* What follows from it.

\* The variables keep their shape: no part is tried more than part_retries
\* times, whatever fails (client.py 913).
THEOREM TypeCorrect == Spec => []TypeOK
<1>1. IInv => TypeOK
  BY DEF IInv
<1> QED BY <1>1, Invariant, PTL

\* The manifest sent for completion lists every part once, in order, with the
\* ETag of what the service holds (client.py 849, 874-884).
THEOREM ManifestIsFaithful == Spec => []CompletionFaithful
<1>1. IInv => CompletionFaithful
  <2> SUFFICES ASSUME IInv, phase = "completing"
               PROVE  ManifestMatches
    BY DEF CompletionFaithful
  <2>1. Len(uploaded) = Count /\ Part = 1..Count
    BY PlanFacts DEF IInv, CollectedInv
  <2>2. ASSUME NEW i \in 1..Count
        PROVE  uploaded[i] = [number |-> i, etag |-> stored[i]]
    <3>1. uploaded[i] \in [number : Part, etag : Version]
      BY <2>1, CollectedEntry DEF IInv, Entry
    <3>2. uploaded[i].number = i /\ work[i] = "done" /\ uploaded[i].etag = content[i]
      BY <2>1 DEF IInv, CollectedInv
    <3>3. stored[i] = content[i]
      BY <2>1, <3>2 DEF IInv, BufferInv
    <3> QED BY <3>1, <3>2, <3>3
  <2> QED BY <2>1, <2>2 DEF ManifestMatches
<1> QED BY <1>1, Invariant, PTL

\* No worker is left when the session's end is decided (client.py 810, 834).
THEOREM QuietBeforeTheEnd == Spec => []DecidedAfterQuiescence
<1>1. IInv => DecidedAfterQuiescence
  BY DEF IInv, CallInv
<1> QED BY <1>1, Invariant, PTL

\* Every PUT of a part has a URL of its own, there are at most part_retries of
\* them, and no failed PUT ends the part before the last (client.py 913-936).
THEOREM UrlsAreFresh == Spec => FreshUrlPerPut
<1> DEFINE Fresh ==
      \A p \in Part :
         /\ work[p] # "putting" /\ work'[p] = "putting" =>
               signed[p] < signed'[p] /\ signed'[p] <= Attempts
         /\ work[p] = "putting" /\ work'[p] = "failed" => signed[p] = Attempts
<1>1. IInv /\ [Next]_vars => [Fresh]_vars
  <2> SUFFICES ASSUME IInv, Next, NEW p \in Part
               PROVE  /\ work[p] # "putting" /\ work'[p] = "putting" =>
                            signed[p] < signed'[p] /\ signed'[p] <= Attempts
                      /\ work[p] = "putting" /\ work'[p] = "failed" =>
                            signed[p] = Attempts
    OBVIOUS
  <2>1. CASE \E q \in Part : Worker(q)
    <3>1. PICK q \in Part : Worker(q)
      BY <2>1
    <3>2. /\ work \in [Part -> {"unsubmitted", "queued"} \cup OnWorker \cup Settled]
          /\ attempt \in [Part -> 0..Attempts] /\ signed \in [Part -> 0..Attempts]
          /\ Attempts \in Nat
      BY CallAssumption DEF IInv, TypeOK
    <3>3. CASE Presigned(q)
      <4>1. /\ work' = [work EXCEPT ![q] = "putting"]
            /\ signed' = [signed EXCEPT ![q] = attempt[q]]
            /\ signed[q] < attempt[q]
        BY <3>3 DEF Presigned, IInv, UrlInv
      <4> QED BY <3>2, <4>1
    <3>4. CASE PutFails(q)
      <4>1. /\ work' = [work EXCEPT ![q] = IF TriesLeft(q) THEN "backoff" ELSE "failed"]
            /\ signed' = signed /\ signed[q] = attempt[q]
        BY <3>4 DEF PutFails, IInv, UrlInv
      <4> QED BY <3>2, <4>1 DEF TriesLeft
    <3>5. CASE ~Presigned(q) /\ ~PutFails(q)
      <4>1. \E to \in {"reading", "presigning", "failed", "done"} :
              work' = [work EXCEPT ![q] = to]
        BY <3>1, <3>5 DEF Worker, Start, Read, ReadFails, PresignFails, PutAccepted, Retry
      <4>2. work[q] = "putting" => work' = [work EXCEPT ![q] = "done"]
        BY <3>1, <3>5 DEF Worker, Start, Read, ReadFails, PresignFails, PutAccepted, Retry
      <4> QED BY <3>2, <4>1, <4>2
    <3> QED BY <3>3, <3>4, <3>5
  <2>2. CASE ~\E q \in Part : Worker(q)
    <3>1. \/ work' = work
          \/ work' = [q \in Part |-> "queued"]
      BY <2>2 DEF Next, Caller, Opened, InitFails, CollectDone, CollectFailed, LeavePool,
           AbortEnds, StartCompletion, Completed, CompletionFails, Interrupted,
           LateCompletion, SessionExpires, EditFile, AllOver, Land, vars, workerVars
    <3>2. work[p] = "putting" /\ work'[p] = "failed" => FALSE
      BY <3>1
    <3> QED BY <3>1, <3>2
  <2> QED BY <2>1, <2>2
<1> QED BY <1>1, Invariant, PTL DEF Spec, FreshUrlPerPut

\* A call that fails on a part or its progress asks for the abort before it
\* raises (client.py 834-847).
THEOREM FailedPartsAbort == Spec => []FailureAborts
<1>1. IInv => FailureAborts
  BY DEF IInv, CallInv, FailureAborts
<1> QED BY <1>1, Invariant, PTL

\* What the service holds of a part never changes, though retries, late PUTs
\* and edits of the file go on (client.py 902-921).
THEOREM PartsNeverChange == Spec => StoredPartsStable
<1> DEFINE Stable == \A p \in Part : stored[p] # None => stored'[p] = stored[p]
<1>1. ASSUME IInv, Next PROVE Stable
  <2> SUFFICES ASSUME NEW p \in Part, stored[p] # None
               PROVE  stored'[p] = stored[p]
    OBVIOUS
  <2>1. stored \in [Part -> Version \cup {None}] /\ stored[p] = content[p]
    BY <1>1 DEF IInv, TypeOK, BufferInv
  <2>2. CASE \E q \in Part : PutAccepted(q)
    BY <2>1, <2>2 DEF PutAccepted
  <2>3. CASE \E put \in inflight : Land(put)
    <3>1. PICK put \in inflight : Land(put)
      BY <2>3
    <3>2. put.number \in Part /\ put.content = content[put.number]
      BY <1>1 DEF IInv, TypeOK, BufferInv
    <3> QED BY <2>1, <3>1, <3>2 DEF Land
  <2>4. CASE UNCHANGED stored
    BY <2>4
  <2>5. Caller \/ Interrupted \/ LateCompletion \/ SessionExpires \/ EditFile \/ AllOver
          => UNCHANGED stored
    BY DEF Caller, Opened, InitFails, CollectDone, CollectFailed, LeavePool,
           AbortEnds, StartCompletion, Completed, CompletionFails, Interrupted,
           LateCompletion, SessionExpires, EditFile, AllOver, vars, serverVars
  <2>6. \A q \in Part : Worker(q) => PutAccepted(q) \/ UNCHANGED stored
    BY DEF Worker, Start, Read, ReadFails, Presigned, PresignFails, PutFails,
           Retry, serverVars
  <2> QED BY <1>1, <2>2, <2>3, <2>4, <2>5, <2>6 DEF Next
<1>2. ASSUME IInv, [Next]_vars PROVE [Stable]_vars
  BY <1>1, <1>2
<1> QED BY <1>2, Invariant, PTL DEF Spec, StoredPartsStable

-----------------------------------------------------------------------------
\* The refinement: every step is one of UploadSession or changes nothing there.

\* What the mapping needs beside IInv: which decision goes with which place of
\* the caller, and that no session is there before the call opened it.
SessionInv ==
    /\ phase = "initializing" => session = "none"
    /\ phase = "draining" => decision = "none"
    /\ phase = "completing" => decision = "commit"

LEMMA SessionInvariant == Spec => []SessionInv
<1>1. Init => SessionInv
  BY DEF Init, SessionInv
<1>2. ASSUME IInv, SessionInv, [Next]_vars PROVE SessionInv'
  <2>1. CASE Caller
    BY <1>2, <2>1
       DEF Caller, Opened, InitFails, CollectDone, CollectFailed, LeavePool,
           AbortEnds, StartCompletion, Completed, CompletionFails, serverVars,
           SessionInv, IInv, CallInv
  <2>2. CASE Interrupted
    BY <1>2, <2>2 DEF Interrupted, serverVars, SessionInv, IInv, CallInv
  <2>3. CASE LateCompletion \/ SessionExpires \/ EditFile \/ AllOver \/ UNCHANGED vars
    BY <1>2, <2>3 DEF LateCompletion, SessionExpires, EditFile, AllOver, vars,
                      callerVars, serverVars, SessionInv
  <2>4. CASE \E p \in Part : Worker(p)
    BY <1>2, <2>4 DEF Worker, Start, Read, ReadFails, Presigned, PresignFails,
                      PutAccepted, PutFails, Retry, callerVars, serverVars, SessionInv
  <2>5. CASE \E put \in inflight : Land(put)
    BY <1>2, <2>5 DEF Land, callerVars, SessionInv
  <2> QED BY <1>2, <2>1, <2>2, <2>3, <2>4, <2>5 DEF Next
<1> QED BY <1>1, <1>2, Invariant, PTL DEF Spec

Held == {p \in Part : stored[p] # None}

\* A manifest that matches lists every part, and with what the service holds.
LEMMA MatchedIsHeld ==
  ASSUME TypeOK, ManifestMatches
  PROVE  Held = Part
<1>1. Count \in Nat /\ Part = 1..Count /\ None \notin Version
  BY PlanFacts, BoundsAssumption DEF Version
<1>2. ASSUME NEW p \in Part PROVE stored[p] # None
  <2>1. uploaded[p] \in Entry /\ uploaded[p] = [number |-> p, etag |-> stored[p]]
    BY <1>1, CollectedEntry DEF ManifestMatches
  <2> QED BY <1>1, <2>1 DEF Entry
<1> QED BY <1>2 DEF Held

LEMMA InitRefines == Init => Promise!Init
BY DEF Init, Promise!Init, Ended

LEMMA CallerRefines ==
  ASSUME IInv, SessionInv, Caller \/ Interrupted
  PROVE  Promise!Next \/ UNCHANGED Promise!vars
<1> USE DEF Ended, Promise!vars, serverVars
<1>0. /\ stored \in [Part -> Version \cup {None}] /\ None \notin Version
      /\ session \in {"none", "open", "completed", "aborted", "expired"}
  BY BoundsAssumption DEF IInv, TypeOK, Version
<1>1. CASE Opened
  <2>1. Promise!Open
    BY <1>1 DEF Opened, SessionInv, Promise!Open
  <2> QED BY <2>1 DEF Promise!Next
<1>2. CASE InitFails
  <2>1. Promise!Open \/ Promise!Raise
    BY <1>2 DEF InitFails, SessionInv, Promise!Open, Promise!Raise
  <2> QED BY <2>1 DEF Promise!Next
<1>3. CASE \E p \in Part : CollectDone(p) \/ CollectFailed(p)
  BY <1>3 DEF CollectDone, CollectFailed
<1>4. CASE LeavePool
  <2>1. Promise!Decide("abort") \/ Promise!Raise
    BY <1>4 DEF LeavePool, SessionInv, Promise!Decide, Promise!Raise
  <2> QED BY <2>1 DEF Promise!Next
<1>5. CASE AbortEnds
  <2>1. Promise!Close \/ Promise!Raise
    BY <1>0, <1>5 DEF AbortEnds, Promise!Close, Promise!Raise
  <2> QED BY <2>1 DEF Promise!Next
<1>6. CASE StartCompletion
  <2>1. Held = Part
    <3>1. ASSUME NEW p \in Part PROVE stored[p] # None
      <4>1. work[p] = "done"
        BY <1>6 DEF StartCompletion, AllReported, Reported, IInv, CollectedInv
      <4> QED BY <4>1 DEF IInv, BufferInv
    <3> QED BY <3>1 DEF Held
  <2>2. Promise!Decide("commit")
    BY <1>6, <2>1 DEF StartCompletion, IInv, CallInv, Held, Promise!Decide
  <2> QED BY <2>2 DEF Promise!Next
<1>7. CASE Completed
  <2>1. Held = Part
    BY <1>7, MatchedIsHeld DEF Completed, IInv
  <2>2. Promise!Commit
    BY <1>7, <2>1 DEF Completed, SessionInv, Held, Promise!Commit
  <2> QED BY <2>2 DEF Promise!Next
<1>8. CASE CompletionFails
  <2>1. Promise!Raise
    BY <1>8 DEF CompletionFails, Promise!Raise
  <2> QED BY <2>1 DEF Promise!Next
<1>9. CASE Interrupted
  <2>1. Promise!Raise \/ UNCHANGED Promise!vars
    BY <1>9 DEF Interrupted, Promise!Raise
  <2> QED BY <2>1 DEF Promise!Next
<1> QED BY <1>1, <1>2, <1>3, <1>4, <1>5, <1>6, <1>7, <1>8, <1>9 DEF Caller

LEMMA WorkerRefines ==
  ASSUME IInv, NEW p \in Part, Worker(p)
  PROVE  Promise!Next \/ UNCHANGED Promise!vars
<1> USE DEF Ended, Promise!vars, serverVars, callerVars
<1>1. CASE PutAccepted(p)
  <2>1. content[p] # None /\ stored \in [Part -> Version \cup {None}]
    BY <1>1 DEF PutAccepted, IInv, TypeOK, BufferInv
  <2>2. Held' = Held \cup {p}
    BY <1>1, <2>1 DEF PutAccepted, Held
  <2>3. Promise!Store(p)
    BY <1>1, <2>2 DEF PutAccepted, Held, Promise!Store
  <2> QED BY <2>3 DEF Promise!Next
<1>2. CASE ~PutAccepted(p)
  BY <1>2 DEF Worker, Start, Read, ReadFails, Presigned, PresignFails, PutFails, Retry
<1> QED BY <1>1, <1>2

LEMMA SurroundingsRefine ==
  ASSUME IInv, SessionInv,
         \/ LateCompletion \/ SessionExpires \/ EditFile \/ AllOver \/ UNCHANGED vars
         \/ \E put \in inflight : Land(put)
  PROVE  Promise!Next \/ UNCHANGED Promise!vars
<1> USE DEF Ended, Promise!vars, serverVars, callerVars
<1>1. CASE LateCompletion
  <2>1. Held = Part
    BY <1>1, MatchedIsHeld DEF LateCompletion, IInv
  <2>2. Promise!Commit
    BY <1>1, <2>1 DEF LateCompletion, Held, Promise!Commit
  <2> QED BY <2>2 DEF Promise!Next
<1>2. CASE SessionExpires
  <2>1. Promise!Close
    BY <1>2 DEF SessionExpires, Promise!Close
  <2> QED BY <2>1 DEF Promise!Next
<1>3. CASE EditFile \/ AllOver \/ UNCHANGED vars
  BY <1>3 DEF EditFile, AllOver, vars
<1>4. ASSUME NEW put \in inflight, Land(put)
      PROVE  Promise!Next \/ UNCHANGED Promise!vars
  <2>1. /\ put.number \in Part /\ put.content # None
        /\ stored \in [Part -> Version \cup {None}]
    BY BoundsAssumption DEF IInv, TypeOK, Version
  <2>2. CASE session = "open"
    <3>1. Held' = Held \cup {put.number}
      BY <1>4, <2>1, <2>2 DEF Land, Held
    <3>2. Promise!Store(put.number)
      BY <1>4, <2>2, <3>1 DEF Land, Held, Promise!Store
    <3> QED BY <2>1, <3>2 DEF Promise!Next
  <2>3. CASE session # "open"
    BY <1>4, <2>3 DEF Land
  <2> QED BY <2>2, <2>3
<1> QED BY <1>1, <1>2, <1>3, <1>4

\* What the caller, the workers and the service do together is what
\* UploadSession promises, with every edit, retry, late PUT and interrupt
\* (client.py 797-884, 890-940).
THEOREM PromiseIsKept == Spec => KeepsPromise
<1>1. ASSUME IInv, SessionInv, [Next]_vars
      PROVE  [Promise!Next]_(Promise!vars)
  BY <1>1, CallerRefines, WorkerRefines, SurroundingsRefine DEF Next
<1> QED BY InitRefines, <1>1, Invariant, SessionInvariant, PTL
        DEF Spec, KeepsPromise, Promise!Spec

-----------------------------------------------------------------------------
\* Induction.  The library's theorems take the predicate as an operator; here a
\* set of the values that satisfy it takes its place, and the induction is that
\* a set of naturals that is not empty has a least member.

LEMMA LeastNatural ==
  ASSUME NEW T, T \subseteq Nat, T # {}
  PROVE  \E m \in T : \A n \in T : m <= n
<1> DEFINE R == {p \in Nat \X Nat : p[1] < p[2]}
<1>1. IsWellFoundedOn(R, Nat)
  <2>1. OpToRel(<, Nat) = R
    BY Zenon DEF OpToRel
  <2> QED BY <2>1, NatLessThanWellFounded, Zenon
<1>2. PICK m \in T : \A n \in T : <<n, m>> \notin R
  BY <1>1, WFMin
<1>3. ASSUME NEW n \in T PROVE m <= n
  <2>1. m \in Nat /\ n \in Nat /\ <<n, m>> \notin R
    BY <1>2
  <2> QED BY <2>1
<1> QED BY <1>3

LEMMA NatInduced ==
  ASSUME NEW C, 0 \in C, \A n \in Nat : n \in C => n + 1 \in C
  PROVE  \A n \in Nat : n \in C
<1> DEFINE T == {n \in Nat : n \notin C}
<1>1. SUFFICES ASSUME T # {} PROVE FALSE
  OBVIOUS
<1>2. PICK m \in T : \A n \in T : m <= n
  BY <1>1, LeastNatural
<1>3. m # 0 /\ m - 1 \in Nat /\ m - 1 \notin T
  BY <1>2
<1>4. (m - 1) + 1 = m
  BY <1>2
<1> QED BY <1>3, <1>4

\* The same over the subsets of a finite set, by their size.
LEMMA SetInduction ==
  ASSUME NEW S, IsFiniteSet(S), NEW C,
         ASSUME NEW s \in SUBSET S,
                \A t \in SUBSET S : Cardinality(t) < Cardinality(s) => t \in C
         PROVE  s \in C
  PROVE  \A s \in SUBSET S : s \in C
<1> DEFINE Bad == {s \in SUBSET S : s \notin C}
           T == {Cardinality(s) : s \in Bad}
<1>1. \A s \in SUBSET S : Cardinality(s) \in Nat
  BY FS_Subset, FS_CardinalityType
<1>2. SUFFICES ASSUME Bad # {} PROVE FALSE
  OBVIOUS
<1>3. T \subseteq Nat /\ T # {}
  BY <1>1, <1>2
<1>4. PICK m \in T : \A n \in T : m <= n
  BY <1>3, LeastNatural
<1>5. PICK s \in Bad : Cardinality(s) = m
  OBVIOUS
<1>6. ASSUME NEW t \in SUBSET S, Cardinality(t) < Cardinality(s) PROVE t \in C
  <2>1. SUFFICES ASSUME t \in Bad PROVE FALSE
    OBVIOUS
  <2>2. Cardinality(s) <= Cardinality(t)
    BY <1>4, <1>5, <2>1
  <2> QED BY <1>1, <1>6, <2>2
<1> QED BY <1>5, <1>6

-----------------------------------------------------------------------------
\* The bytes of a set of parts.  BytesOf is a fold, by a function that takes one
\* member of the set after the other; Sums says what that function has to be.

Member(s) == CHOOSE x \in s : TRUE
Sums(S, h) ==
    h = [s \in SUBSET S |->
            IF s = {} THEN 0 ELSE Bytes(Member(s)) + h[s \ {Member(s)}]]

LEMMA BytesOfDef ==
  ASSUME NEW S
  PROVE  BytesOf(S) = (CHOOSE h : Sums(S, h))[S]
BY DEF BytesOf, MapThenSumSet, MapThenFoldSet, Sums, Member

\* The fold is defined: a solution up to n elements makes one up to n + 1.
LEMMA SumsExist ==
  ASSUME NEW S, IsFiniteSet(S)
  PROVE  \E h : Sums(S, h)
<1> DEFINE Sub(n) == {s \in SUBSET S : Cardinality(s) <= n}
           Step(h, s) == IF s = {} THEN 0 ELSE Bytes(Member(s)) + h[s \ {Member(s)}]
           Done == {n \in Nat : \E h : \A s \in Sub(n) : h[s] = Step(h, s)}
<1>0. \A s \in SUBSET S : IsFiniteSet(s) /\ Cardinality(s) \in Nat
  BY FS_Subset, FS_CardinalityType
<1>1. 0 \in Done
  <2> DEFINE h == [s \in SUBSET S |-> 0]
  <2>1. \A s \in Sub(0) : s = {}
    BY <1>0, FS_EmptySet
  <2>2. \A s \in Sub(0) : h[s] = Step(h, s)
    BY <2>1
  <2> HIDE DEF h
  <2> QED BY <2>2
<1>2. ASSUME NEW n \in Done PROVE n + 1 \in Done
  <2>1. PICK h : \A s \in Sub(n) : h[s] = Step(h, s)
    OBVIOUS
  <2> DEFINE g == [s \in SUBSET S |-> Step(h, s)]
  <2>2. ASSUME NEW s \in Sub(n + 1) PROVE g[s] = Step(g, s)
    <3>1. CASE s = {}
      BY <3>1
    <3>2. CASE s # {}
      <4> DEFINE t == s \ {Member(s)}
      <4>1. Member(s) \in s
        BY <3>2 DEF Member
      <4>2. t \in Sub(n)
        BY <1>0, <4>1, FS_RemoveElement
      <4>3. g[t] = Step(h, t) /\ h[t] = Step(h, t)
        BY <2>1, <4>2
      <4>4. g[s] = Bytes(Member(s)) + h[t]
        BY <3>2
      <4> QED BY <3>2, <4>3, <4>4
    <3> QED BY <3>1, <3>2
  <2> HIDE DEF g
  <2> QED BY <2>2
<1>3. Cardinality(S) \in Done
  <2> HIDE DEF Done
  <2> QED BY <1>0, <1>1, <1>2, NatInduced
<1>4. PICK h : \A s \in Sub(Cardinality(S)) : h[s] = Step(h, s)
  BY <1>3
<1> DEFINE g == [s \in SUBSET S |-> h[s]]
<1>5. ASSUME NEW s \in SUBSET S PROVE g[s] = Step(g, s)
  <2>1. s \in Sub(Cardinality(S))
    BY FS_Subset
  <2>2. h[s] = Step(h, s) /\ s \ {Member(s)} \in SUBSET S
    BY <1>4, <2>1
  <2> QED BY <2>2
<1>6. g = [s \in SUBSET S |-> Step(g, s)]
  <2>1. g = [s \in SUBSET S |-> g[s]]
    OBVIOUS
  <2> HIDE DEF g, Step
  <2> QED BY <1>5, <2>1
<1>7. Sums(S, g)
  <2> HIDE DEF g
  <2> QED BY <1>6 DEF Sums
<1> QED BY <1>7

\* And it has one value only.
LEMMA SumsAgree ==
  ASSUME NEW S, IsFiniteSet(S), NEW U, S \subseteq U,
         NEW g, NEW h, Sums(S, g), Sums(U, h)
  PROVE  \A s \in SUBSET S : g[s] = h[s]
<1> DEFINE C == {s \in SUBSET S : g[s] = h[s]}
<1>1. ASSUME NEW s \in SUBSET S,
             \A t \in SUBSET S : Cardinality(t) < Cardinality(s) => t \in C
      PROVE  s \in C
  <2>1. CASE s = {}
    BY <2>1 DEF Sums
  <2>2. CASE s # {}
    <3> DEFINE t == s \ {Member(s)}
    <3>1. Member(s) \in s
      BY <2>2 DEF Member
    <3>2. t \in SUBSET S /\ Cardinality(t) < Cardinality(s)
      BY <3>1, FS_Subset, FS_CardinalityType, FS_RemoveElement
    <3>3. g[t] = h[t]
      BY <1>1, <3>2
    <3>4. g[s] = Bytes(Member(s)) + g[t] /\ h[s] = Bytes(Member(s)) + h[t]
      BY <2>2 DEF Sums
    <3> QED BY <3>3, <3>4
  <2> QED BY <2>1, <2>2
<1> HIDE DEF C
<1>2. \A s \in SUBSET S : s \in C
  BY <1>1, SetInduction
<1> QED BY <1>2 DEF C

LEMMA BytesOfNone == BytesOf({}) = 0
<1>1. \E h : Sums({}, h)
  BY SumsExist, FS_EmptySet
<1>2. Sums({}, CHOOSE h : Sums({}, h))
  BY <1>1
<1> QED BY <1>2, BytesOfDef DEF Sums

LEMMA BytesOfMember ==
  ASSUME NEW S, IsFiniteSet(S), S # {}
  PROVE  BytesOf(S) = Bytes(Member(S)) + BytesOf(S \ {Member(S)})
<1> DEFINE R == S \ {Member(S)}
           h == CHOOSE f : Sums(S, f)
           g == CHOOSE f : Sums(R, f)
<1>1. Sums(S, h)
  BY SumsExist
<1>2. IsFiniteSet(R)
  BY FS_RemoveElement
<1>3. Sums(R, g)
  BY <1>2, SumsExist
<1>4. BytesOf(S) = h[S] /\ BytesOf(R) = g[R]
  BY BytesOfDef
<1> HIDE DEF h, g
<1>5. h[S] = Bytes(Member(S)) + h[R]
  BY <1>1 DEF Sums
<1>6. g[R] = h[R]
  <2> HIDE DEF R
  <2>1. R \subseteq S
    BY DEF R
  <2> QED BY <1>1, <1>2, <1>3, <2>1, SumsAgree
<1> QED BY <1>4, <1>5, <1>6

LEMMA PartsFinite ==
  ASSUME NEW S, S \subseteq Part
  PROVE  IsFiniteSet(S) /\ Cardinality(S) \in Nat
<1>1. IsFiniteSet(Part)
  BY PlanFacts, FS_Interval
<1> QED BY <1>1, FS_Subset, FS_CardinalityType

\* The bytes of a set of parts are those of any one and of the others.
LEMMA BytesOfParts ==
  ASSUME NEW S, S \subseteq Part
  PROVE  /\ BytesOf(S) \in Nat
         /\ \A p \in S : BytesOf(S) = BytesOf(S \ {p}) + Bytes(p)
<1> DEFINE Adds(s) == \A p \in s : BytesOf(s) = BytesOf(s \ {p}) + Bytes(p)
           C == {s \in SUBSET Part : BytesOf(s) \in Nat /\ Adds(s)}
<1>1. ASSUME NEW s \in SUBSET Part,
             \A t \in SUBSET Part : Cardinality(t) < Cardinality(s) => t \in C
      PROVE  s \in C
  <2>0. \A p \in s : /\ s \ {p} \in SUBSET Part
                     /\ Cardinality(s \ {p}) < Cardinality(s)
    BY PartsFinite, FS_RemoveElement
  <2>1. CASE s = {}
    BY <2>1, BytesOfNone
  <2>2. CASE s # {}
    <3> DEFINE x == Member(s)
               r == s \ {x}
    <3>1. x \in s
      BY <2>2 DEF Member
    <3>2. Bytes(x) \in Nat /\ \A p \in s : Bytes(p) \in Nat
      BY <3>1, PlanFacts
    <3>3. BytesOf(s) = Bytes(x) + BytesOf(r)
      BY <2>2, PartsFinite, BytesOfMember
    <3> HIDE DEF x
    <3>4. r \in C
      BY <1>1, <2>0, <3>1
    <3>5. ASSUME NEW p \in s PROVE BytesOf(s) = BytesOf(s \ {p}) + Bytes(p)
      <4>1. CASE p = x
        BY <3>2, <3>3, <3>4, <4>1
      <4>2. CASE p # x
        <5> DEFINE u == s \ {p}
        <5>1. u \in C /\ x \in u
          BY <1>1, <2>0, <3>1, <4>2
        <5>2. BytesOf(u) = BytesOf(u \ {x}) + Bytes(x)
          BY <5>1
        <5>3. BytesOf(r) = BytesOf(r \ {p}) + Bytes(p)
          BY <3>4, <4>2
        <5>4. u \ {x} = r \ {p} /\ r \ {p} \in C
          <6>1. u \ {x} = r \ {p}
            OBVIOUS
          <6>2. /\ r \ {p} \in SUBSET Part
                /\ Cardinality(r \ {p}) < Cardinality(s)
            <7>1. r \ {p} \in SUBSET u /\ Cardinality(u) < Cardinality(s)
              BY <2>0
            <7>2. IsFiniteSet(u) /\ Cardinality(u) \in Nat /\ Cardinality(s) \in Nat
                  /\ Cardinality(r \ {p}) \in Nat
              BY PartsFinite
            <7> QED BY <7>1, <7>2, FS_Subset
          <6> QED BY <1>1, <6>1, <6>2
        <5>5. /\ BytesOf(r \ {p}) \in Nat /\ BytesOf(u) \in Nat
              /\ Bytes(p) \in Nat /\ BytesOf(r) \in Nat
          BY <3>2, <3>4, <5>1, <5>4
        <5>6. BytesOf(u \ {x}) = BytesOf(r \ {p})
          BY <5>4
        <5> HIDE DEF u, r, C
        <5>7. BytesOf(s) = BytesOf(u) + Bytes(p)
          BY <3>2, <3>3, <5>2, <5>3, <5>5, <5>6
        <5> QED BY <5>7 DEF u
      <4> QED BY <4>1, <4>2
    <3> QED BY <3>2, <3>3, <3>4, <3>5
  <2> QED BY <2>1, <2>2
<1> HIDE DEF C
<1>2. IsFiniteSet(Part)
  BY PartsFinite
<1>3. \A s \in SUBSET Part : s \in C
  BY <1>1, <1>2, SetInduction
<1>4. S \in C
  BY <1>3
<1> QED BY <1>4 DEF C

LEMMA BytesOfAdded ==
  ASSUME NEW S, S \subseteq Part, NEW p \in Part \ S
  PROVE  BytesOf(S \cup {p}) = BytesOf(S) + Bytes(p)
<1>1. (S \cup {p}) \ {p} = S /\ S \cup {p} \subseteq Part
  OBVIOUS
<1> QED BY <1>1, BytesOfParts

LEMMA PlanSizes ==
  /\ Eff \in Nat \ {0} /\ Workers \in Nat /\ Workers * Eff <= BufferMemory
  /\ BufferMemory \in Nat /\ TotalSize \in Nat
  /\ \A p \in Part : /\ Bytes(p) <= Eff
                     /\ p < Count => Bytes(p) = Eff
                     /\ p = Count => (p - 1) * Eff + Bytes(p) = TotalSize
<1>1. /\ TotalSize \in Nat /\ AskedPart \in Int /\ AskedWorkers \in Int /\ Attempts \in Int
      /\ Accepts(TotalSize, AskedPart, AskedWorkers, Attempts)
  BY CallAssumption
<1>2. Eff \in Nat \ {0} /\ Workers \in Nat /\ Workers * Eff <= BufferMemory
  BY <1>1, PlanBounds DEF Count, Eff, Workers
<1>3. ASSUME NEW p \in Part
      PROVE  /\ Bytes(p) <= Eff
             /\ p < Count => Bytes(p) = Eff
             /\ p = Count => (p - 1) * Eff + Bytes(p) = TotalSize
  <2>1. p \in 1..PartCount(TotalSize, EffectiveSize(TotalSize, AskedPart))
    BY DEF Part, Count, Eff
  <2> QED BY <1>1, <2>1, RangeBounds DEF Part, Bytes, Count, Eff
<1> QED BY <1>1, <1>2, <1>3, LimitsAssumption

\* So many parts have no more bytes than as many buffers.
LEMMA BytesOfAtMost ==
  ASSUME NEW S, S \subseteq Part
  PROVE  BytesOf(S) <= Cardinality(S) * Eff
<1> DEFINE C == {s \in SUBSET Part : BytesOf(s) <= Cardinality(s) * Eff}
<1>1. ASSUME NEW s \in SUBSET Part,
             \A t \in SUBSET Part : Cardinality(t) < Cardinality(s) => t \in C
      PROVE  s \in C
  <2>1. CASE s = {}
    BY <2>1, BytesOfNone, FS_EmptySet, PlanSizes
  <2>2. CASE s # {}
    <3>1. PICK p \in s : TRUE
      BY <2>2
    <3> DEFINE r == s \ {p}
               n == Cardinality(r)
    <3>2. Cardinality(s) = n + 1 /\ n \in Nat
      BY PartsFinite, FS_RemoveElement
    <3>3. BytesOf(r) <= n * Eff
      <4>1. r \in SUBSET Part /\ Cardinality(r) < Cardinality(s)
        BY <3>2
      <4>2. r \in C
        BY <1>1, <4>1
      <4> QED BY <4>2
    <3>4. BytesOf(s) = BytesOf(r) + Bytes(p) /\ BytesOf(r) \in Nat
      BY BytesOfParts
    <3>5. Bytes(p) <= Eff /\ Bytes(p) \in Nat /\ Eff \in Nat
      BY PlanSizes, PlanFacts
    <3> HIDE DEF n, r
    <3>6. (n + 1) * Eff = n * Eff + Eff /\ n * Eff \in Nat
      BY <3>2, <3>5
    <3> QED BY <3>2, <3>3, <3>4, <3>5, <3>6
  <2> QED BY <2>1, <2>2
<1> HIDE DEF C
<1>2. IsFiniteSet(Part)
  BY PartsFinite
<1>3. \A s \in SUBSET Part : s \in C
  BY <1>1, <1>2, SetInduction
<1>4. S \in C
  BY <1>3
<1> QED BY <1>4 DEF C

\* And all parts have the bytes of the file.
LEMMA BytesOfAll == BytesOf(Part) = TotalSize
<1>0. Count \in Nat /\ 1 <= Count /\ Part = 1..Count /\ Eff \in Nat
      /\ \A p \in Part : Bytes(p) \in Nat
  BY PlanFacts, PlanSizes
<1> DEFINE C == {n \in Nat : n < Count => BytesOf(1..n) = n * Eff}
<1>1. 0 \in C
  <2>1. 1..0 = {}
    OBVIOUS
  <2> QED BY <1>0, <2>1, BytesOfNone
<1>2. ASSUME NEW n \in Nat, n \in C PROVE n + 1 \in C
  <2>1. SUFFICES ASSUME n + 1 < Count
                 PROVE  BytesOf(1..(n + 1)) = (n + 1) * Eff
    OBVIOUS
  <2>2. BytesOf(1..n) = n * Eff
    BY <1>0, <1>2, <2>1
  <2>3. 1..(n + 1) = (1..n) \cup {n + 1} /\ 1..n \subseteq Part /\ n + 1 \in Part \ (1..n)
    BY <1>0, <2>1
  <2>4. BytesOf(1..(n + 1)) = BytesOf(1..n) + Bytes(n + 1)
    BY <2>3, BytesOfAdded
  <2>5. Bytes(n + 1) = Eff
    BY <2>1, <2>3, PlanSizes
  <2>6. (n + 1) * Eff = n * Eff + Eff
    BY <1>0
  <2> QED BY <2>2, <2>4, <2>5, <2>6
<1> HIDE DEF C
<1>3. \A n \in Nat : n \in C
  BY <1>1, <1>2, NatInduced
<1> USE DEF C
<1>4. BytesOf(1..(Count - 1)) = (Count - 1) * Eff
  BY <1>0, <1>3
<1>5. Part = (1..(Count - 1)) \cup {Count} /\ 1..(Count - 1) \subseteq Part
      /\ Count \in Part \ (1..(Count - 1))
  BY <1>0
<1>6. BytesOf(Part) = BytesOf(1..(Count - 1)) + Bytes(Count)
  BY <1>5, BytesOfAdded
<1>7. (Count - 1) * Eff + Bytes(Count) = TotalSize
  BY <1>5, PlanSizes
<1> QED BY <1>4, <1>6, <1>7

-----------------------------------------------------------------------------
\* The pool: a worker takes a part only when one is free.

PoolInv == Cardinality(Running) <= Workers

\* What a step does to the set of running parts.
LEMMA RunningSteps ==
  ASSUME IInv, [Next]_vars
  PROVE  \/ Running' \subseteq Running
         \/ Cardinality(Running) < Workers /\ \E p \in Part : Running' = Running \cup {p}
<1>1. CASE \E p \in Part : Start(p)
  <2>1. PICK p \in Part : Start(p)
    BY <1>1
  <2>2. work \in [Part -> {"unsubmitted", "queued"} \cup OnWorker \cup Settled]
    BY DEF IInv, TypeOK
  <2>3. Running' = Running \cup {p}
    BY <2>1, <2>2 DEF Start, Running, OnWorker
  <2> QED BY <2>1, <2>3 DEF Start, WorkerFree
<1>2. CASE \E p \in Part : Worker(p) /\ ~Start(p)
  <2>1. PICK p \in Part : Worker(p) /\ ~Start(p)
    BY <1>2
  <2>2. work \in [Part -> {"unsubmitted", "queued"} \cup OnWorker \cup Settled]
    BY DEF IInv, TypeOK
  <2>3. work[p] \in OnWorker /\ \A q \in Part : q # p => work'[q] = work[q]
    BY <2>1, <2>2 DEF Worker, Read, ReadFails, Presigned, PresignFails,
                      PutAccepted, PutFails, Retry, OnWorker
  <2> QED BY <2>3 DEF Running
<1>3. CASE Opened
  BY <1>3 DEF Opened, Running, OnWorker
<1>4. CASE UNCHANGED work
  BY <1>4 DEF Running
<1>5. Caller \/ Interrupted \/ LateCompletion \/ SessionExpires \/ EditFile \/ AllOver
         \/ UNCHANGED vars => Opened \/ UNCHANGED work
  BY DEF Caller, InitFails, CollectDone, CollectFailed, LeavePool, AbortEnds,
         StartCompletion, Completed, CompletionFails, Interrupted, LateCompletion,
         SessionExpires, EditFile, AllOver, vars, workerVars
<1>6. \A put \in inflight : Land(put) => UNCHANGED work
  BY DEF Land, workerVars
<1> QED BY <1>1, <1>2, <1>3, <1>4, <1>5, <1>6 DEF Next

LEMMA PoolInvariant == Spec => []PoolInv
<1>0. Workers \in Nat /\ Running \subseteq Part /\ Running' \subseteq Part
  BY PlanSizes DEF Running
<1>1. Init => PoolInv
  <2> SUFFICES ASSUME Init PROVE PoolInv
    OBVIOUS
  <2>1. Running = {}
    BY DEF Init, Running, OnWorker
  <2> QED BY <1>0, <2>1, FS_EmptySet DEF PoolInv
<1>2. ASSUME IInv, PoolInv, [Next]_vars PROVE PoolInv'
  <2>1. /\ IsFiniteSet(Running) /\ Cardinality(Running) \in Nat
        /\ Cardinality(Running') \in Nat
    BY <1>0, PartsFinite
  <2>2. CASE Running' \subseteq Running
    <3>1. Cardinality(Running') <= Cardinality(Running)
      BY <2>1, <2>2, FS_Subset
    <3>2. Cardinality(Running') <= Workers
      BY <1>0, <1>2, <2>1, <3>1 DEF PoolInv
    <3> QED BY <3>2 DEF PoolInv
  <2>3. ASSUME Cardinality(Running) < Workers,
               NEW p \in Part, Running' = Running \cup {p}
        PROVE  PoolInv'
    <3>1. Cardinality(Running \cup {p}) <= Cardinality(Running) + 1
      BY <2>1, FS_AddElement
    <3>2. Cardinality(Running') <= Workers
      BY <1>0, <2>1, <2>3, <3>1
    <3> QED BY <3>2 DEF PoolInv
  <2> QED BY <1>2, <2>2, <2>3, RunningSteps
<1> QED BY <1>1, <1>2, Invariant, PTL DEF Spec

\* The buffers of the running workers fit into the buffer memory
\* (client.py 780-785, 810-826).
THEOREM BuffersFit == Spec => []RunningBuffersFit
<1>1. ASSUME PoolInv PROVE RunningBuffersFit
  <2> DEFINE n == Cardinality(Running)
  <2>1. Running \subseteq Part
    BY DEF Running
  <2>2. n \in Nat /\ BytesOf(Running) <= n * Eff /\ BytesOf(Running) \in Nat
    BY <2>1, PartsFinite, BytesOfAtMost, BytesOfParts
  <2>3. /\ n <= Workers /\ Workers \in Nat /\ Eff \in Nat
        /\ Workers * Eff <= BufferMemory /\ BufferMemory \in Nat
    BY <1>1, PlanSizes DEF PoolInv
  <2> HIDE DEF n
  <2>4. n * Eff <= Workers * Eff /\ n * Eff \in Nat /\ Workers * Eff \in Nat
    BY <2>2, <2>3
  <2> QED BY <2>2, <2>3, <2>4 DEF RunningBuffersFit
<1> QED BY <1>1, PoolInvariant, PTL

-----------------------------------------------------------------------------
\* Progress: what has been reported is what has been collected.

ProgressInv == transferred = BytesOf(Reported)

LEMMA ReportedSteps ==
  ASSUME IInv, ProgressInv, [Next]_vars
  PROVE  ProgressInv'
<1>0. Reported \subseteq Part
  BY CollectedEntry DEF IInv, Reported
<1>1. CASE \E p \in Part : CollectDone(p)
  <2>1. PICK p \in Part : CollectDone(p)
    BY <1>1
  <2> DEFINE e == [number |-> p, etag |-> content[p]]
  <2>2. uploaded \in Seq(Entry) /\ uploaded' = Append(uploaded, e) /\ e \in Entry
    <3>1. content[p] \in Version
      BY <2>1 DEF CollectDone, IInv, TypeOK, BufferInv
    <3> QED BY <2>1, <3>1 DEF CollectDone, IInv, TypeOK, Entry
  <2>3. e.number = p
    OBVIOUS
  <2> HIDE DEF e
  <2>4. /\ Len(uploaded) \in Nat /\ Len(uploaded') = Len(uploaded) + 1
        /\ \A i \in 1..Len(uploaded) : uploaded'[i] = uploaded[i]
        /\ uploaded'[Len(uploaded) + 1] = e
    BY <2>2
  <2>5. Reported' = Reported \cup {p}
    <3>1. 1..Len(uploaded') = (1..Len(uploaded)) \cup {Len(uploaded) + 1}
      BY <2>4
    <3> QED BY <2>3, <2>4, <3>1 DEF Reported
  <2>6. p \in Part \ Reported /\ transferred' = transferred + Bytes(p)
    BY <2>1 DEF CollectDone, AddedBytes
  <2> QED BY <1>0, <2>5, <2>6, BytesOfAdded DEF ProgressInv
<1>2. CASE StartCompletion
  <2>1. Reported = Part /\ transferred' = transferred /\ uploaded' = Sorted(uploaded)
    BY <1>2 DEF StartCompletion, AllReported
  <2>2. uploaded \in Seq(Entry)
        /\ \A i, j \in 1..Len(uploaded) :
              uploaded[i].number = uploaded[j].number => i = j
    BY DEF IInv, TypeOK, CollectedInv, Entry
  <2>3. /\ Len(uploaded') = Count
        /\ \A k \in 1..Count : uploaded'[k].number = k
    BY <2>1, <2>2, SortedManifest DEF Reported
  <2>4. Reported' = Part
    BY <2>3, PlanFacts DEF Reported
  <2> QED BY <2>1, <2>4 DEF ProgressInv
<1>3. CASE UNCHANGED <<uploaded, transferred>>
  BY <1>3 DEF ProgressInv, Reported
<1>4. Caller \/ Interrupted \/ LateCompletion \/ SessionExpires \/ EditFile \/ AllOver
         \/ UNCHANGED vars
      => \/ \E p \in Part : CollectDone(p)
         \/ StartCompletion
         \/ UNCHANGED <<uploaded, transferred>>
  BY DEF Caller, Opened, InitFails, CollectFailed, LeavePool, AbortEnds,
         Completed, CompletionFails, Interrupted, LateCompletion, SessionExpires,
         EditFile, AllOver, vars, callerVars
<1>5. \A p \in Part : Worker(p) => UNCHANGED <<uploaded, transferred>>
  BY DEF Worker, Start, Read, ReadFails, Presigned, PresignFails, PutAccepted,
         PutFails, Retry, callerVars
<1>6. \A put \in inflight : Land(put) => UNCHANGED <<uploaded, transferred>>
  BY DEF Land, callerVars
<1> QED BY <1>1, <1>2, <1>3, <1>4, <1>5, <1>6 DEF Next

\* The progress reported is the bytes of the collected parts, each counted
\* once, and all of the file when completion is sent (client.py 828-833).
THEOREM ProgressIsExact == Spec => []ProgressExact
<1>1. Init => ProgressInv
  <2> SUFFICES ASSUME Init PROVE ProgressInv
    OBVIOUS
  <2>1. Reported = {}
    BY DEF Init, Reported
  <2> QED BY <2>1, BytesOfNone DEF Init, ProgressInv
<1>2. Spec => []ProgressInv
  BY <1>1, ReportedSteps, Invariant, PTL DEF Spec
<1>3. ASSUME IInv, ProgressInv PROVE ProgressExact
  <2>1. ASSUME phase = "completing" PROVE transferred = TotalSize
    <3>1. Len(uploaded) = Count /\ \A k \in 1..Count : uploaded[k].number = k
      BY <1>3, <2>1 DEF IInv, CollectedInv
    <3>2. Reported = Part
      BY <3>1, PlanFacts DEF Reported
    <3> QED BY <1>3, <3>2, BytesOfAll DEF ProgressInv
  <2> QED BY <1>3, <2>1 DEF ProgressExact, ProgressInv
<1> QED BY <1>2, <1>3, Invariant, PTL
=============================================================================
