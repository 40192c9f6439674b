# TLA+ models of the Kanopy Python SDK

The SDK is a synchronous HTTP client (`src/src/kanopy/client.py`, class `Kanopy`).
Most of its methods are one request each. What is hard in it is what happens
around the requests: an upload in parallel parts to presigned storage URLs,
retries and reruns against a service whose answers get lost, downloads that must
not damage the file they replace, waits against a deadline, lists that change
while they are paged, and the workflows that put a version of the SDK on the
package index. Those parts are modelled here, checked with TLC on small
instances and proved with TLAPS for every value of the constants, except liveness.

Paths and line numbers below and in the comments: `client.py` is
`src/src/kanopy/client.py`, "README" in a property's comment is
`src/README.md`, the SDK's own.

## The system

### Components

| component | state it keeps | operations | modelled by |
|---|---|---|---|
| request layer, `_request` (233-275) | the attempt; on the service what was executed | send, retry, pause, return, raise | `RequestRetry` |
| multipart upload, plan (717-827) | arguments, part size, part count, workers, jobs submitted | check, plan, submit | `PartPlan`, `UploadPlan` |
| multipart upload, transfer (787-940) | futures, worker loops, buffers, collected parts; on the service session and parts | init, read, presign, PUT, retry, collect, abort, complete | `MultipartUpload`, `UploadSession` |
| streamed downloads (1251-1318) | temporary file, bytes received, destination | request, redirect, stream, fsync, check, rename, unlink, return | `AtomicDownload`, `Destination` |
| single-request upload, `upload` (555-621) | the job id; on the service the job of a request id | create the job, open the files, one POST | `UploadRerun` |
| repeated and overlapping uploads (555-884 with one `upload_request_id`) | on the service the job, its session, its video | the requests of `upload` and `upload_multipart` | `UploadRerun` |
| cursor pagination, `iter_projects`, `iter_jobs` (401-413, 458-477) | cursor, cursors seen | next page, stop | `Scan` |
| inventory scan (1320-1343) and table downloads (1125-1169) | rows, `skip`; the destination | next page, render, write | `Scan` |
| job and export waiting (535-551, 1048-1100) | deadline, the last status | poll, sleep, raise, download | `StatusWait`, `ExportDownload` |
| upload hold heartbeat (514-533) | none in the SDK | one POST | no |
| tables and PDF reports (1171-1208, 1346-1624) | none | formatting | the rows of a table: `Scan` |
| resource wrappers, models, errors | none | one request each, parsing | no |
| contract table `SDK_OPERATIONS` (50-181) | constant | compared with a fixture by a test | no |
| release pipeline (`src/.github/workflows/auto-release.yml`, `release.yml`) | tags, waiting and running runs, published versions | find, tag, dispatch, build, publish | `ReleasePipeline` |
| CI and review workflows | job lists that call an engine of another repository | | no |
| smoke and acceptance scripts | linear test drivers | | no |

### How they interact

Everything goes through two `httpx` clients: the API client with the bearer
token, and a client without credentials for storage URLs. `_request` is the only
place that retries an API call. `upload_multipart` calls it from the calling
thread for init, complete and abort, and from the workers of a
`ThreadPoolExecutor` for `presign-part`; a worker then sends its part with the
storage client, outside `_request`, in a loop of its own. Workers and caller
share only the futures. `_download` streams from the API client, or from the
storage client after a redirect, into a temporary file beside its destination;
`download_project_export` reaches the same writer after polling, and a caller who
wants a job's folder waits and downloads in two calls. `download_project_table`
does not use that writer: it pages the inventory into memory and writes the
destination in place. The service keeps the state that matters: jobs, upload
sessions, stored parts and the collections that are paged. The release pipeline
meets the code only through the version and the files of a commit.

### What is hard

* Two retry loops with different rules. A POST is never repeated by `_request`,
  a part is by `_upload_part`, and a PUT that was given up may arrive later.
* The calling thread leaves its transfer loop on the first failure, with other
  parts running or queued, and then talks to the service about the session they
  write to.
* Parts finish in any order, and their file may be rewritten meanwhile.
* Memory is bounded by arithmetic (`bounded_workers`), and by nothing that counts
  the buffers that are alive.
* `KeyboardInterrupt` is not an `Exception`: every clean-up in the code is an
  `except Exception`.
* A download races other downloads to its destination, readers and power loss.
* A call that failed, or is only believed to be dead, is run again with its
  `upload_request_id` and shares the job and the session of the first.
* A poll is answered before the work is over and arrives after; polls and sleeps
  both cross the deadline.
* Rows come and go between two pages. The cursor loop trusts the service for its
  cursors, the offset loop for its ranks.
* A release takes two workflows, several steps that fail one by one, and people
  who tag, dispatch and rerun meanwhile.

`PROJECT.json` lists each of these hazards at its line with the properties that
cover it; seven have a note in place of a property (see "Not modelled").

### What makes each component correct

* Plan: the byte ranges tile the file; the limits of the storage service and of
  the SDK's memory hold; a file is refused only if no part size would do.
* Transfer: what is completed is exactly what the service holds, in order; the
  session's end is decided only when no worker can still write; a stored part
  never changes; every failure during the transfer leads to an abort; the call
  ends.
* Request layer: a mutation is executed at most once; a failure that the code
  takes for transient is retried to the limit; the server's `Retry-After` is honoured up to the cap.
* Downloads: the destination holds the old file or one whole answer of one call,
  also after a crash; a call returns only after it has put its own there; no
  temporary file stays behind a call that ends by itself.
* Reruns: one job at most gets the video, what it gets is one call's reading of
  the file, and no other call takes it away again.
* Waiting: something that was over in time is noticed, the deadline is overrun by
  a bounded time, and nothing unfinished is downloaded.
* Pagination: every row that stays comes once and the loop ends, also against a
  service that repeats cursors. Inventory: edits cost at most a row each; a scan
  that fails leaves the old table, and one that ends a table with what it found.
* Release: what is published under a version is the checked build of the commit
  tagged with it; a passing run leaves nothing unreleased.

## Modules

### `PartPlan`, `UploadPlan`: the plan

`PartPlan` holds the arithmetic as operators: `EffectiveSize`, `PartCount`,
`Offset`, `PartBytes`, `BoundedWorkers`, `Accepts`. The limits (5 MiB, 256 MiB,
512 MiB, 10 000 parts, 5 TiB, 32 workers) are constants under the assumption
`LimitsAssumption`, which is all the proofs use of them. `math.ceil(a / b)` is
integer division rounded up: for a file of at most 5 TiB `a` is below 2^53, so
`a` and `b` are exact floats and the quotient, correctly rounded, does not reach
the next integer; so `ceil` is the exact one. The `ValueError`s all end the call
before any request; their order is not distinguished.

`UploadPlan` is the part of `upload_multipart` before the transfer as a state
machine: `call` (the arguments), `plan`, `jobs` (what the dict comprehension of
`executor.submit` has submitted so far). It has one action for refusing, one for
planning, one per submission.

### `MultipartUpload`: the transfer

One variable per thing the code or its partner keeps:

| variable | code |
|---|---|
| `phase`, `error` | the calling thread: in the init request, in the `as_completed` loop (`collecting`), in `ThreadPoolExecutor.__exit__` (`draining`), in the abort request, in completion; the exception in flight |
| `decision` | that abort or complete is due |
| `uploaded`, `transferred` | the variables of the same names |
| `work[p]` | the future of part `p`, and while it runs the place of `_upload_part` |
| `attempt[p]`, `signed[p]`, `content[p]` | `attempt`, the URL in hand (by the attempt it was issued for), `content` (by the version of the file it was read from) |
| `session`, `stored`, `inflight` | external: the storage session, its parts, PUTs given up by the client that may still land |
| `version` | external: the video on disk |
| `interrupts` | how often Ctrl-C hit the calling thread |

The actions follow the code: `Opened`/`InitFails` (797-827), `CollectDone`/
`CollectFailed` (828-833), `LeavePool` and `AbortEnds` (834-847),
`StartCompletion` (849 and the call at 874), `Completed`/`CompletionFails`
(650-706), and for a worker `Start`, `Read`/`ReadFails` (902-909), `Presigned`/
`PresignFails` (914-919), `PutAccepted`/`PutFails` (920-940), `Retry` (933-934).
Each request that may have had its effect without an answer is modelled as such:
`InitFails`, which also stands for an interrupt during init, may leave an open
session, `AbortEnds` may or may not have ended it,
`Completed` may raise, a completion that was given up may still happen
(`LateCompletion`), `PutFails` leaves the PUT in flight.

`AllOver` lets a call that ended stutter: leftover workers and late PUTs go on.

Abstracted: bytes are the file version they come from (one version per read; a
read torn by a concurrent write is not distinguished, the code promises nothing
about it); an ETag is the version stored; `progress` is only "may raise"; the
sidecar uploads of `complete_presigned_multipart_upload` are part of
`CompletionFails` or `Completed`; the parts are submitted in one step (`UploadPlan`
has the submissions one by one). Not modelled: `Thread.start` failing inside
`submit`. Calls that share a session are in `UploadRerun`.

### `UploadSession`: the promise

The abstract specification of an upload: parts collect in a session, the caller
decides at most once how it ends, the object appears only from a full session
that was decided to be committed, the call returns only if it did. It knows no
worker, no attempt and no lost answer. `MultipartUpload!Promise` maps to it:
`held` is the set of parts with content, `outcome` the end of the call,
`aborted` and `expired` are both `closed`.

### `RequestRetry`: one API call

`_request`, `_retry_after_seconds` and `_backoff_seconds`, for a call of kind
`read`, `keyed` (a mutation with an `Idempotency-Key`) or `mutation`. Times are
in half seconds; the jitter is 0 or its bound. `float("nan")` and `"-1"` headers,
HTTP dates and values above the cap are in `Headers`. The service keeps `effects`
(executions) and `pending` (requests whose client gave up, executed any time
later). External and assumed: a service executes a keyed request once. `2**attempt`
is the recursive function `PowerOfTwo`, about which the provers can reason; they
know no `^`.

### `AtomicDownload`: downloads to one destination

Any number of calls of `_download`, each at its place in `_download`,
`_download_url` or `_write_download_atomically`, and the disk: temporary files,
how much of each is durable (`synced`), the destination as readers see it
(`target`) and as a crash would leave it (`onDisk`). `os.replace` is atomic for
readers; there is no `fsync` of the directory, so whether the rename survives a
crash is open (`Replace`), and what it names then is the durable part of the
file. The rename and the return are two steps: after `Replace` the call is at
"replaced" until it returns through the `with` statement that closes the response
(`Return`), or closing it raises (`CloseFails`), an interrupt hits it or the
machine goes down. `KeyboardInterrupt` leaves the temporary file; so does a crash.

Assumed: the `unlink` of the clean-up succeeds; should it fail, the file stays and
its error takes the place of the first one. Not modelled: that a crash, which may
undo a rename, may also bring back the name of a temporary file that was removed
or renamed.

### `Destination`: the promise

The abstract specification of a file that calls replace. A call installs a whole
answer of its own in one step, at most once, and only a call that has done so
returns. A call may fail before that step or after it, and its caller cannot tell:
an interrupt, a crash or an error of closing the response may come between
`os.replace` and the return. A power failure may bring back the last durable file.
`AtomicDownload!Replaced` maps to it by the place of each call: "replaced" is
"installed", every other place between the begin and the end "running". The files
a call may install (`WholeFiles`) are its own chunks, as many as the answer
declared.

### `StatusWait`, `ExportDownload`: wait, then download

`StatusWait` is one wait with a clock. `phase` is the place in the loop, `mark`
when the poll began or the sleep ends, `report` what the service put into the
answer of the current poll, `status` what is true meanwhile, so that an answer can
be old when it arrives. `Sleep` and `WakeAt` are the `time.sleep` of both waits
(the export's is not cut to the deadline), `Stop` and `TimeOut` the order of the
checks: status first, deadline second. `MaxRequest` bounds a poll with its
retries; the code between polls and sleeps takes no time.

`ExportDownload` composes it with `AtomicDownload`: the call `Waiter` waits, as
`download_project_export` does after `create_project_export` (`CreateExport` may
answer with an export that is already completed) or as a caller of `wait_for_job`
before `download_folder`, and then becomes one of the calls of `AtomicDownload`;
the others download at once, to the same destination. `WaitInterrupted` and
`MachineCrash` hit either half. `Forget` sets the clock back when the download
starts; no property is about it any more.

### `Scan`: cursors, offsets and tables

A row is its position in the service's order, a page a set of rows. `Insert` and
`Delete` are other users, between any two pages. `CursorPage` is the body of both
iterators: yield the rows, then stop, refuse a cursor seen before, or go on.
An honest service answers with the rows behind the cursor; the other one with any
cursor at all. `InventoryPage` is the body of `_all_inventory_items`, with and
without a `total` in the answer (`LastPage`). `OpenTable` and `WriteTable` are
`Path.write_bytes`, between which the destination is cut (`Torn`); rendering fails
in `OpenTable` before the file is opened. `Rendered` is which rows a format has a
place for: those without coordinates are in no GeoJSON and no KML; `HasPlace` says
the same for the property, row by row.

### `UploadRerun`: several calls, one request id

Each call has its place (`pc`), the ids it was given and what it has read and sent
of each part. A single-request call goes `create` - `post`, a multipart call
`init` - `parts` - complete or `aborting`. Every request is a record that is
executed and answered (`Answered`), executed with its answer lost, or left in
`late` to be executed at any later time (`Failed`, `ServeLate`); a refused one is
executed without effect. `Killed` ends a call anywhere without its abort, `HoldExpires` is
the service deleting an abandoned job, `EditFile` replaces the video.

External and assumed, from what the code sends and its docstrings (514-518, 579-589,
834-838): a request id belongs to one job at a time, with one active session at
most; a job with a video accepts no other; a completion is accepted only with the
ETag of every part the session holds; an abort ends only the session it names; an
expired hold sets the id free. Without these the properties do not hold, and they
are what a change of the service must keep.

Abstracted: the parallel parts of one call are sent one by one, without the
retries of `MultipartUpload`, and the first failure aborts. All calls of a request
id use one method (`kind`): `upload` and `upload_multipart` mixed under one id are
not modelled. Not modelled either: calls without a request id (each is one POST of the request layer, and a rerun is
another upload).

### `ReleasePipeline`: from main to the package index

`main` is the list of commits, each with its version, what `check_version.py`
reads of it (`literal`) and the state of the release-relevant files. `pending`,
`running`, `step` and `green` are `auto-release.yml` and its concurrency group,
which keeps one waiting run; `releases` are the runs of `release.yml`; `index` is
the package index. `FindVersion`, `CreateTag` and `Dispatch` are the steps of
`auto-release.yml`, each of which may fail before or after its effect; `Build`
runs both checks on the tagged commit and `Publish` uploads. `Push`, `Rerun`,
`PushTag` and `DispatchAgain` are people.

External and assumed: people do not move or delete a tag; the index takes a
version once, as a whole. Not modelled: an upload that leaves one of the two
files on the index.

## Checks

`tlc -config <cfg> <module>` for each; run names as in `PROJECT.json`.

| run | module / cfg | expect | about |
|---|---|---|---|
| `upload_plan` | `MCUploadPlan` | pass | all files of 0-22 units, parts 1-7, workers 0-5, retries 0, 1, 3 |
| `upload` | `MCMultipartUpload` | pass | 3 parts, 2 workers, 2 attempts, 1 edit, 1 interrupt; 979 878 states |
| `upload_memory` | `MCMultipartUploadMemory.cfg` | violation | the documented memory bound |
| `upload_leak` | `MCMultipartUploadLeak.cfg` | violation | the documented abort of failed transfers |
| `rerun` | `MCUploadRerun` | pass | 2 calls with one request id, 2 parts, 1 edit, 3 jobs; 30 885 states |
| `download` | `MCExportDownload` | pass | 2 calls, one of which waits first; 2 chunks, 1 crash; 1 312 578 states |
| `download_redirect` | `MCAtomicDownloadRedirect.cfg` | violation | what may replace an export |
| `download_encoded` | `MCAtomicDownloadEncoded.cfg` | violation | what counts as incomplete |
| `scan` | `MCScan` | pass | up to 5 rows in pages of 2, 2 edits, every loop and format; 564 048 states |
| `request` | `MCRequestRetry` | pass | all three kinds at the real limits |
| `table_in_place` | `MCScanTable.cfg` | violation | how a table is replaced |
| `release` | `MCReleasePipeline` | pass | 2 versions, 3 commits, 2 interventions, 3 builds; 938 957 states |

What they show, beside the type invariant of each:

* `upload_plan`: `PartsTileTheFile`, `WithinStorageLimits`, `WorkersFitMemory`,
  `RefusedOnlyWhenTooLarge`.
* `upload`: `CompletionFaithful` (the manifest is exactly what the service
  holds), `DecidedAfterQuiescence`, `StoredPartsStable` (no retry, late PUT or
  edit changes a part the service has), `FreshUrlPerPut` (a URL presigned since the
  last PUT for every PUT, and exactly `part_retries` PUTs before a part is given up
  on them), `RunningBuffersFit`, `ProgressExact`, `FailureAborts`, `CallEnds`, and
  `KeepsPromise`, the refinement of `UploadSession`. The promise allows a call that
  raises with its session open (an init or a second interrupt) or with its object
  complete (a lost answer of the completion): the code cannot exclude either.
* `rerun`: `OneVideoJob`; `VideoOfOneCall` (a resumed session never completes with
  parts of two calls that read different files, since the manifest names only the
  ETags of the call's own PUTs); `ReturnedIsQueued`, which says nothing of a call
  that raises: one whose session another call aborts does.
* `download`: `WholeOrPrevious` for readers, `CrashSafe` for the disk,
  `NoLeftovers`, `OwnFileKept` (concurrent calls keep to their own files);
  `KeepsDestination`, the refinement of `Destination`: a call replaces the file at
  most once, by its own whole answer, and returns only after that, which no
  invariant of one state can say;
  `OverrunBounded`, `OverIsNoticed` (no `TimeoutError` for something that was over
  one request before the deadline), `OnlyFinishedDownloaded`.
* `scan`: `CursorRowsOnce`; `OffsetDriftBounded` (the offset loop misses at most a
  row per deletion and repeats at most one per insertion; that it does so at all is
  the code's choice of `skip`); `TableAfterScan` (a scan that fails or breaks off
  leaves the old table; the new one lacks, of the rows with a place in its format
  that were there all the time, at most one per deletion); `ScanEnds`.
* `request`: `MutationAtMostOnce`, also counting what is executed after the call
  gave up, `AttemptsSpent` (for the statuses the code retries; the SDK's README
  names more, see "Findings"), `PauseLongEnough`.
* `release`: `PublishedMatchesTag`, `GreenMeansTagged`.

### Bounds, and why they are enough

* `MCUploadPlan` keeps the order and ratios of the real limits (`MinPart <
  MaxBuffered < MaxPart`, memory for two full buffers and a bit, `MaxParts *
  MaxBuffered < MaxObject`), so every check of the code can be the one that
  refuses, and the part size is raised by the part limit for some files. All
  residues of the divisions occur. The theorems lift the bounds.
* `upload`: three parts are the least with one running, one queued and one done,
  and with completion orders that need sorting; the last part is shorter. Three
  workers are asked for and two fit into memory, so both limits act. Two attempts
  give a lost PUT that lands after its retry. One edit separates the bytes of two
  reads; one interrupt reaches each phase. A second interrupt (the wait for the
  pool is itself interrupted) occurs in the proofs, which bound neither.
* `download`: two calls interfere as any two do; two chunks give a proper prefix
  and a declared length one short; one crash separates every two steps. With
  `Timeout` 4, `Interval` 2 and `MaxRequest` 2 there is a first poll, a later one
  and one after the deadline; a poll and a sleep can each cross it, and a sleep
  is and is not cut.
* `rerun`: two calls have every order of two; two parts let a session hold one of
  each call; three jobs let both calls and one late request create one. The bound
  on jobs makes the service refuse, which it may do anyway.
* `scan`: five rows are three pages with a short last one, four rows the case of a
  full last page; two edits are two deletions, two insertions or one of each on
  either side of the position.
* `release`: two versions and three commits allow a version that comes back after
  another; two interventions allow a tag and a dispatch, or two reruns.
* `request`: the real limits of 3 attempts and 120 s; one status of every class
  the code tells apart; headers below, at and above the cap.

### Fairness

Only `CallEnds` and `ScanEnds` need it. `FairSpec` of `MultipartUpload` asks that
the calling thread and each worker keep running. This is justified because each of
their steps ends: both clients are built with timeouts for connect, read, write
and pool (client.py 206-221), so a request ends with an answer or an exception;
the pauses are bounded; the queue of the executor is FIFO, so a queued part starts
once a worker is free. A server that trickles bytes for ever could defeat a read
timeout; the answers read here are small and the model counts such an answer as
one that ends. Nothing is assumed of late PUTs, the service, the file or the user.

`Scan` asks that a call that can take a step takes one (`WF_vars(Client)`), for the
same reason; the iterators are generators, so for them it also says that the
caller keeps asking for rows (one that does not drops the generator, `Crash`). Which step the service causes is left
open, so `ScanEnds` holds because the code refuses a cursor it has seen and because
`skip` grows by a full page while it goes on. `MaxEdits` bounds how long the inventory can grow
ahead of the scan: one that grows faster than it is read is read for ever.

### Findings

The runs with `expect` "violation" state what the SDK's README or a message in
the code says, and find a behaviour of the code that differs:

1. `MemoryBounded` (src/README.md:80-82). When a part fails, the exception kept
   by its future keeps the frame of `_upload_part` and with it the buffer; the
   queued parts still run when the pool shuts down, and each that fails keeps one
   more.
2. `FailedUploadsAbort` (src/README.md:82-83). The abort covers the transfer loop
   only: a completion that fails, for a missing sidecar file for example, and an
   interrupt leave the session open.
3. `OnlyExportsReplace` (src/README.md:87-89). A 3xx answer of the storage host is
   no error for httpx and is not followed by the storage client; its body is saved
   as the download.
4. `WholeAnswersPass` (client.py 1311-1313). `Content-Length` counts encoded bytes,
   `written` decoded ones: a complete answer with a `Content-Encoding` is refused.
5. `TableReplacedWhole` (src/README.md:87-89). The README describes downloads as
   written to a temporary file and renamed. `download_project_table` uses
   `Path.write_bytes` (client.py 1168): a crash or a full disk in the middle leaves
   a cut table where a whole one was. `TableAfterScan` states what holds. The PDF
   reports are built at their destination too (1576).

Two more disagreements can be read off one definition each, and have no run; the
third item is a behaviour that no document speaks of and that deserves a look:

* src/README.md:85-86 says that reads retry "HTTP 408/425/429/5xx responses". The
  list in the code, `RETRYABLE_STATUS_CODES` (client.py 41), has four of the 5xx
  codes: a 501, or a 520 of a proxy, raises after one attempt. `AttemptsSpent` states
  what holds, for the codes of the list.
* src/README.md:240 says that "Non-successful API responses raise `KanopyError`".
  `_request` raises for `is_error`, 4xx and 5xx (client.py 254), and redirects are
  not followed: a 3xx answer is returned (`Final`), and a call that ignores the body,
  such as `delete_project`, returns as if it had succeeded.
* auto-release.yml:54-62: if the dispatch after the tag fails, or the release fails before it
  publishes, a rerun finds the tag, says that nothing is to publish and passes.
  `GreenMeansTagged` is stated of tags for this reason; that every tag
  is released does not hold.

### Faults

Beside a definition there may be one with a comment "fault": the same operator
with a plausible mistake (a dropped guard, a reset forgotten, an off-by-one).
Nothing uses them. `PROJECT.json` "mutants" pairs each with a property; with the
fault in place of the definition, TLC finds that property violated. They show
that each property depends on the code it is about.

## Proofs

`tlapm <module>` for `PartPlan_proofs`, `UploadPlan_proofs`,
`MultipartUpload_proofs`, `ExportDownload_proofs`, `RequestRetry_proofs`,
`Scan_proofs`, `UploadRerun_proofs`, `ReleasePipeline_proofs`. They use the named
assumptions of the modules only: `LimitsAssumption`, `InputsAssumption`,
`CallAssumption`, `BoundsAssumption`, `DownloadAssumption`, `WaitAssumption`,
`WaiterAssumption`, `RequestAssumption`, `ScanAssumption`, `RerunAssumption`,
`ReleaseAssumption`. Every invariant and action property of the passing runs is a
theorem, and so are the refinements `KeepsPromise` and `KeepsDestination`.

* `PartPlan_proofs`: rounding up (`CeilDivBounds`, `CeilDivAtMost`), what an
  accepted plan satisfies (`PlanBounds`) and what a part's range is
  (`RangeBounds`). Nonlinear facts about `div` and `*` are isolated here.
* `UploadPlan_proofs`: for every file, arguments and limits, `TypeCorrect`,
  `TilesTheFile`, `StorageLimitsHold`, `WorkersFit`, `RefusalsAreNecessary`. The
  inductive invariant says that the plan is the plan of the call and job `n` is
  the job of part `n`; the properties follow by `PartPlan_proofs`.
* `MultipartUpload_proofs`: for every accepted call and any number of edits and
  interrupts, `TypeCorrect`, `ManifestIsFaithful` (`CompletionFaithful`),
  `QuietBeforeTheEnd` (`DecidedAfterQuiescence`), `FailedPartsAbort`
  (`FailureAborts`), `BuffersFit` (`RunningBuffersFit`), `ProgressIsExact`
  (`ProgressExact`), the action properties `UrlsAreFresh` (`FreshUrlPerPut`) and
  `PartsNeverChange` (`StoredPartsStable`) and the refinement `PromiseIsKept`
  (`KeepsPromise`). The argument is below.
* `ExportDownload_proofs`, on the downloads (`AtomicDownload`): for any number of
  calls to a destination, any chunks and any crashes, `TypeCorrect`,
  `TargetIsWhole` (`WholeOrPrevious`), `DiskIsWhole` (`CrashSafe`),
  `NothingIsLeft` (`NoLeftovers`) and `FilesAreOwn` (`OwnFileKept`). The invariant
  ties each temporary file to the call that wrote it and its durable part to its
  length (`FileInv`), and says what the file of a call still writing holds: what
  the call received, whole once the length was compared, durable once `fsync`
  returned (`WriterInv`). Without the last, a crash behind the rename could leave a
  cut file. With it the file about to be renamed is a whole answer of its own call
  and all durable (`FileIsWhole`), which is what the refinement of `Destination`
  turns on: the rename maps to `Install`, the return to `Return`, and an interrupt,
  a crash or an error after the rename to `Fail` of a call that has installed its
  file (`DestinationIsKept`, and `WaitingKeepsIt` beside a wait). On the waits: for
  any timeout, interval and request time,
  `OverrunIsBounded`, `OverIsAlwaysNoticed`, `DownloadsAreFinished` and
  `WaitTypeCorrect`; `DownloadsUndisturbed` carries the promises of the downloads
  over to the composition. `WaitInv` needs, beside the bounds on the clock, that
  what is over although the poll says "running" ended after that poll began;
  `HandOver` that a waiter requests a file only after its wait.
* `RequestRetry_proofs`: for any limits, `MutationsRunOnce`
  (`MutationAtMostOnce`), `AttemptsAreSpent` (`AttemptsSpent`), `TypeCorrect` and `PausesAreLongEnough`
  (`PauseLongEnough`). `MutationInv` counts the executions and those that
  may still happen together: a late one is as good as done. The pauses need that
  `PowerOfTwo` is a natural number for every attempt, by induction
  (`PowersAreNatural`).
* `Scan_proofs`: for any page length, rows, formats and edits, `TypeCorrect`,
  `CursorsAreExact` (`CursorRowsOnce`), `DriftIsBounded` (`OffsetDriftBounded`) and
  `TableIsOfTheScan` (`TableAfterScan`). `CursorInv`: the cursor is a row, so what is
  not behind it has not come and what stays behind it has come once, whatever is
  edited. An offset is a rank, and an edit before it moves one row across it.
  `MissedInv` therefore counts the rows that moved back unseen, at most one per
  deletion. For repetitions the bound on what has come twice is not inductive;
  `RepeatedInv` adds a potential, the rows already collected that have moved ahead
  and will come again: an insertion raises the sum by at most one, a page turns the
  one into the other. Both rest on lemmas about the rank of a row after an edit and
  on a page of ranks `skip..skip + Limit - 1`.
* `UploadRerun_proofs`: for any number of calls with one request id, any parts and
  edits, `TypeCorrect`, `OneJobGetsIt` (`OneVideoJob`), `VideoIsOneCalls`
  (`VideoOfOneCall`) and `ReturnedStaysQueued` (`ReturnedIsQueued`). `SvcInv`:
  only the job of the request id can have the video, and not while its session is
  open. `LateInv`: a completion or POST still under way is what its finished call
  sent. `VideoInv` and `ReturnedInv` say whose the video is. `OneVideoJob` alone is
  not inductive, because it says nothing about the requests still under way.
* `ReleasePipeline_proofs`: for any number of commits, versions and interventions,
  `TypeCorrect`, `PublishedIsTagged` (`PublishedMatchesTag`) and `GreenIsTagged`
  (`GreenMeansTagged`). `ReleaseInv`: a distribution that waits for its
  publication is the checked build of the tagged commit. `RunInv`: a run at its
  dispatch has seen the tag. Both hold on because no step changes a tag or a commit
  (`History`).

The inductive invariant of `MultipartUpload_proofs`, `IInv`, is `TypeOK` and
four parts. `CallInv`: a call still collecting has decided nothing, and one that has decided has no work left.
`CollectedInv`: each part is collected at most once, when done, with the ETag of
its buffer. `UrlInv`: the URL in hand is that of the attempt being made, and an
attempt about to presign is later than it. `BufferInv`: a buffer is empty until read and never changes after, and
whatever the service holds or may still receive of a part is that buffer. The
last is why late PUTs and edits are harmless: there is only one content a part
can ever have. `CompletionFaithful` is not inductive without it, because it says
nothing about the PUTs still in flight. The step to completion needs that a
sorted collection with every part once has part `k` at place `k`
(`SortedManifest`): an ascending injection of `1..n` into itself is the identity
(`AscendingIsIdentity`), by counting below and above `k`.

`PromiseIsKept` takes `SessionInv` besides, on which end of the session goes with
which decision and place of the call; then each action maps to the action of
`UploadSession` its name suggests, or to a stutter: a refused PUT, a retry, an
answer that is lost. `BuffersFit` is `PoolInv`, no more running parts than workers,
and the plan's bound on workers times part size. `ProgressIsExact` is `ProgressInv`
and that the sizes of all parts add up to the file.

Two modules need induction: the sums of part sizes (`MapThenSumSet` is a fold, a
recursive function over subsets) and the powers of two. The library's induction
theorems take an operator, which the provers here cannot instantiate, so induction
is proved once for a set in place of the predicate (`NatInduced`, and `SetInduction`
on the size of a set), from the well-foundedness of `<` by a least counterexample
(`LeastNatural`); the set is hidden while the lemma is cited. `Scan_proofs` needs
only the least and the last row of a page (`LeastRow`, `LastOfPage`).

Model-checked only: `CallEnds` and `ScanEnds`, liveness under fairness, which is
out of the prover's reach; the two abstract specifications state none. The five runs that expect a violation are behaviours
that TLC finds; nothing is proved of them.

## Not modelled

* The upload hold heartbeat is one POST; the caller decides when to send it, and
  nothing in the SDK schedules it. What an expired hold does is in `UploadRerun`.
* Formatting (the cells of CSV, JSON, KML and GeoJSON, the PDF reports), the
  response shape checks, error parsing, the wrappers that make one request and
  the contract table keep no state between steps.
* The CI and review workflows configure services outside the repository; the
  smoke and acceptance scripts are linear drivers of the client.

Seven hazards have no property. That the bytes of one object come from one
version of the file is not promised by `upload_multipart`, and the model has
behaviours that mix versions inside one call. That the inventory scan ends against
a service that ignores `skip` and names no total is not so: it does not. That a
tag is followed by a release does not hold either, nor that a 3xx answer of the API
raises (see "Findings"). Three are
outcomes that the code permits and the models contain: a session left open by an
init whose answer was lost, a download that fails after its rename, and a call
that raises because another one with its request id aborted their session.

## Plan

The modules, in the order they were written; all exist.

1. `PartPlan`, `UploadPlan`: proved.
2. `UploadSession`, `MultipartUpload`: proved, with the refinement.
3. `RequestRetry`: proved.
4. `Destination`, `AtomicDownload`: proved, with the refinement.
5. `UploadRerun`: proved.
6. `StatusWait`, and `ExportDownload` as its composition with `AtomicDownload`:
   proved.
7. `Scan`: proved.
8. `ReleasePipeline`: proved.

Still worth doing: an abstract specification of the jobs of one request id, and the
proof that `UploadRerun` implements it; the same of what `ReleasePipeline` publishes.
