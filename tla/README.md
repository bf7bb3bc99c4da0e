# A verification of llm-file-gateway

The gateway stores documents uploaded through an OpenAI-style Files API, converts
them in the background, expands references to them in inference requests and
forwards those to vLLM. What is hard about it is not any one function but who may
touch a file's directory, row and job at the same time, and how a request ends.
This directory models that part of the code in TLA+, checks small instances with
TLC and proves the central invariants for all instances with TLAPS.

Paths below are relative to the repository (`src/`); `service.go` is
`internal/files/service.go`, `server.go` and its siblings are in `internal/server`.

## 1. Inventory of the system

| component | state | operations | interacts with |
|---|---|---|---|
| conversion queue (`internal/workqueue`) | slice or channel, `ready` channel | `Add`, `Get` under a context | uploads, retry timers and recovery add; workers get |
| files table (`internal/store`) | one SQLite row per file: status, `deleted_at`, `expires_at` | one statement each; one connection, hence atomic | everything |
| file service (`internal/files`) | `conversions`, `leases`, `deleting` under `lifecycleMu`; `retryCount`; file directories | `Create`, workers, `Delete`, janitor, `Resolve`, `OpenSource`, `ReconcileStorage`, `Run`, `Stop` | store, queue, converters, HTTP handlers |
| process (`cmd/llm-file-gateway`) | lifecycle and signal contexts | start, recovery, serve, shutdown, stop | file service, HTTP server |
| HTTP front (`server.go`) | `slots`, deadlines of requests | concurrency limit, request timeout, error answers | every handler |
| inference (`inference.go`, `document.go`) | temporary directories, leases | expansion of references one after the other | file service, proxy |
| proxy (`proxy.go`) | upstream context, its `AfterFunc` | forward, start the response, stream | vLLM, `net/http` |
| converters (`internal/converter`) | output directory and manifest of a conversion | clear, convert, write the manifest or take everything back | workers, inline documents |
| registry and dispatcher (`internal/converter`) | a map from extensions to factories | `Register`, `Unregister`, `Merge`, `ResolveConverter` | uploads, workers, inline documents |
| file_url download (`file_url.go`) | idle connections of one `http.Transport` | validate, dial, redirect, read | inline documents, DNS |
| configuration (`internal/config`) | none that changes | `Load`: parsing, ranges, derived limits | every limit on sizes and time |
| logging, API errors | none | formatting | |

Hard behaviours: a deletion racing with conversions, readers and the janitor; a
worker, a timer and recovery competing for the same job; crashes and restarts
between any two steps; store and disk calls that fail; a full queue; three contexts
and two deadlines that end a request in any order. `PROJECT.json` lists each hazard
at its line with the properties aimed at it.

What makes each part correct: the queue loses and reorders nothing and wakes its
sleepers; a file has one conversion job; a directory is removed only when nobody
uses it; a deletion is final; rows and directories agree after a restart; every
pending file is settled; slots are counted exactly; a response that has started is
not cut by the request timeout; a client that pages through its files misses none and
sees none twice; a manifest names exactly the files beside it; a download never leaves the
public network; a merge of registries is all or nothing; limits hold whatever
wraps; a restart with other credentials mixes up no tenants.

## 2. Modules

| module | models | instance of / used by |
|---|---|---|
| `JobQueue` | contract of `workqueue.Queue`: a FIFO under contexts | implemented by `WorkQueue`; its enabling conditions are those `FileService` uses |
| `WorkQueue` | both queue types, at critical sections and selects | |
| `FileStore` | the `files` table, one operator per statement | extended by `FileService` |
| `FileService` | the file service, the process around it, the disk | |
| `FileContract` | what the Files API promises of a file | implemented by `FileService` |
| `FileServiceProperties` | properties and the refinement mapping | |
| `FileServiceInvariant` | the inductive invariant `IInv` | |
| `FileServiceTypes`, `FileServiceProofs`, `FileServiceStorage`, `FileServiceContract` | theorems about `FileService`, each module on top of the one before | |
| `WorkQueueProofs`, `GatewayProofs` | theorems about `WorkQueue` and `Gateway` | |
| `FilesApiProofs` | theorems about `Listing`, `Tenants` and `Limits` | |
| `ContentProofs` | theorems about `Conversion`, `Download` and `Registry` | |
| `Gateway` | a request: slots, deadlines, expansion, exchange with vLLM | |
| `Listing` | `listFiles` over `Store.List`: pages, cursors and a table that changes meanwhile | |
| `Conversion` | one `Convert` at the grain of its file system calls, over failed and crashed attempts | the detail of `PrepareOutput` and `Render` in `FileService` |
| `Download` | `downloadPublicHTTPS`, `publicDialer` and idle connections | |
| `Registry` | the registry as a Go map, `Merge` in any order, the dispatcher | |
| `Limits` | `Load`'s products and sums and what uploads, inline files and the bodies of inference requests make of them, in arithmetic that wraps | |
| `Tenants` | `tenantID` and `ConsolidateTenants` over restarts | |
| `MCFileService`, `MCGateway`, `MCComponents` | instances for TLC | |

**Granularity.** A step of `FileService` is what no other goroutine can interrupt: an
SQL statement, a critical section of `lifecycleMu`, a file system call, a queue call.
`wpc`, `cpc`, `rpc` and `creator` are the places in `processNextJob`, in
`Delete`/`deleteExpired`, in `Resolve`/`OpenSource` and in `Create`. Request deletion
and janitor share one protocol, so they are one set of actions over `Cleaners`; where
they differ (the janitor works on a copy of the rows and does not mark a row its copy
shows marked; its context is the workers') the action says so. `disk[f]` is the set of
`source`, `derived`, `manifest` in the file's directory.

**Mutual references.** `done` channels are modelled by whom one waits for: `awaited[c]`
is the worker whose channel the cleaner captured, emptied when it is closed.

**Faulty variants.** Next to some definitions stand variants as a plausible bug would have
them (`LeasesIgnored`, `NeverDone`, ...). No specification uses them; `PROJECT.json`
pairs each property with a variant that breaks it.

**Components on their own.** `Listing`, `Conversion`, `Download`, `Registry`, `Limits` and
`Tenants` share no variable with one another or with `FileService`. `MCComponents` lets a
behaviour pick one of them, so one run checks all six and their state spaces add up instead of
multiplying. What they take from the file service is small and conservative: in `Listing` a row
may be added, hidden and erased at any moment (also between the two statements of one page);
in `Conversion` an attempt may crash anywhere, be cancelled anywhere, and may want other parts than
the one before (another start may have another configuration).

**Gateway.** Three contexts per request: `clientDone` (net/http's), `ctxErr` (the one
`withRequestTimeout` derives) and `upstreamDone` (`responseContext`'s). `afterFunc` is the
state of the `AfterFunc` that links the last two, and `late` says that the clock has reached
the deadline: `TimeOut` and `ReadDeadlineExpires` may then happen in either order.
`ReadDeadlineExpires` is net/http's behaviour, not the repository's: once the body is
consumed the server keeps a read pending, and an error of that read, an expired
deadline included, cancels the request's context.

A request holds a lease in two places: at `parts`, while an inference request reads the artifacts
of an uploaded document, and from `opened` through `download`, while `retrieveContent` sends a
source to its client (`server.go:296-315`). The first ends by itself, the second when the client
has read or gone (`EndContent` has no fairness). The other handlers of the Files API hold no lease
of their own while they wait; they are the one step `ServeFiles`.

## 3. Runs

Bounds are given with the reason they are enough. Counts of distinct states are in
parentheses.

* `WorkQueue.cfg` (75 k): three items, two consumers, capacities 0 and 1. Two
  sleepers and a third Add are needed for a lost wakeup or an overtaking; capacity 1 is full
  at once. Types, `NoLostWakeup`, `FirstInFirstOut`, delivery, cancellation, and
  the refinement of `JobQueue` with its fairness.
* `MCDeletionRaces.cfg` (641 k): a file, a worker, a DELETE, the janitor, a
  `Resolve` and a download. Every kind of actor once; two cleaners for one file.
  `RemovalIsExclusive`, `LeasedArtifactsStay`, `ServedWhileUsing`,
  `MissingOnlyWhenDeleted`, the refinement of `FileContract`, and `IInv`.
* `MCRecovery.cfg` (117 k): a file, a worker, a DELETE, the janitor, one retry and two
  process starts, so that a crash or a shutdown at any step is followed by recovery.
  Types, safety (`RowsMatchDisk`, `NoOrphanDirectory`, `NoStrandedFile`) and liveness
  (`UploadSettles`, `MarkedIsErased`, `ShutdownCompletes`). Without readers: with their leases
  `ShutdownCompletes` would need them to end too, as `DeleteAnswers` does.
* `MCHeldLeases.cfg` (149 k): a file, a worker with one retry, a DELETE, the janitor and a
  download whose lease both cleaners have to wait for. `DeleteAnswers`: no cleaner that has
  claimed a file waits for ever, if the client of the download reads or leaves (section 4).
* `MCFailingStorage.cfg` (705 k): two workers on a queue of capacity 1, two DELETEs beside the
  janitor, one retry, and one failing statement or file system call anywhere. `MarkerIsOwned`,
  `RetryStateReclaimed`, `DeletedMeansGone`, and `SingleFlight`, which a timer of one worker
  and a job at the other would break. Several files share nothing but the queue: `OneJobPerFile`
  proves `SingleFlight` for any set of files, and `MCBlockedStart.cfg` has two of them.
* `MCGateway.cfg` (618 k): two requests and one slot, an inline and an uploaded
  document in one payload, a removal that fails, a restart. Safety of `Gateway`: slots,
  the `AfterFunc`, temporary directories, `LeaseEndsWithReading` (an inference request carries no
  lease into a wait, a download holds its lease at most to its end and without a slot, and no request
  holds one beyond its end) and
  `DeliveryIsNotCut` (once the deadlines are lifted, only the client ends the exchange).
* `MCSlotFreed.cfg` (364 k): the same requests with shorter payloads, without
  restart: `SlotFreed` under fairness.

* `MCComponents.cfg` (388 k), one component per behaviour:
  * listing: three files, two creation times (so that ids break ties), both orders, a filter or
    none, pages of one file. Three pages, and a cursor that is hidden or erased between any two
    statements. `NoRepeats`, `NothingSkipped`.
  * conversion: two parts, three attempts. A first attempt that crashes half way, a second whose
    clean-up fails, a third that publishes. `OutputMatchesManifest`, `FailureLeavesNothing`.
  * download: two hosts, two public addresses and one that is not, two redirects (four in
    the code). DNS answers any set of addresses each time. `OnlyPublicFetches`.
  * registry: `.pdf`, `.PDF` and an extension without a dot, two factories and nil.
    `MergeIsAtomic`.
  * limits: int64 at 8 bits, a second of 10 units, values around each edge (the largest integer,
    its half, its quarter, the most seconds a `Duration` holds); an inline file comes as a `file_url`
    or as `file_data`, in base64 in a body that has other bytes, up to a second file, beside it.
    `AcceptedWhole`, `RetentionAsAsked`.
  * tenants: two files, two keys, four starts (key, open, key again, other key). `TenantsAreApart`.

The runs do not check for deadlock: the inputs are finite and the process may be down for
good. That nothing waits for ever is what the liveness properties say.

Four runs end in a violation on purpose; each documents a difference between the
code and what a comment or `docs/DESIGN.md` says of it:

* `MCStaleLookup.cfg`: a `Resolve` whose file is deleted between its look-up and its
  lease answers 422 "File manifest is missing.", not 404 (`service.go:415-427`).
* `MCLostRetry.cfg`: one store error while a failed conversion is handled drops the job; the
  file stays pending until the next start (`service.go:672-678`, `757-762`).
* `MCBlockedStart.cfg`: a signal while recovered files fill a bounded queue leaves the
  process blocked in `Run` (`service.go:159-161`).
* `MCDeadlineTie.cfg`: when the connection's read deadline cancels the context before its
  timer does, the client gets an empty answer instead of a 504 (`server.go:133-134`, `411`).

## 4. Fairness

`FileService`: goroutines that can take a step are scheduled; timers and the janitor's ticker
fire; converters end (they run under timeouts or on bounded input); a reader with a lease
ends (it copies a file to a client that reads or leaves; `http.Server` has no
`WriteTimeout`, so this is an assumption about clients); a process that ended is started
again within `MaxBoots`. Uploads, deletions, reads, expiry, faults, crashes and signals need
not happen. `UploadSettles` and `MarkedIsErased` are conditioned on the process staying up
in the end, as crashes for ever would let nothing finish.

`Gateway`: handlers run on and clocks fire. A client need not send its body, an uploaded
file need not be converted and vLLM need not answer: `SlotFreed` relies on the
deadline only, and is stated for timed routes. The upload routes have no read deadline.

`WorkQueue`: goroutines inside `Add` or `Get` are scheduled; nobody has to cancel.

## 5. Proofs

All theorems are about the specification of their module without fairness (`SafeSpec`,
`ListingSpec`, `ConversionSpec`, `DownloadSpec`, `RegistrySpec`, `LimitsSpec`, `TenantsSpec`),
for every value of the constants that satisfies the assumptions named in the modules. Every
invariant and every action property of a passing run is stated by one of them.

### The file service

`IInv` (module `FileServiceInvariant`) is built in layers, and so are the proof modules: a layer is
inductive together with those before it, and its proof takes theirs as known.

| layer | says | proved in |
|---|---|---|
| `TypeOK`, and who works on which file | | `FileServiceTypes` |
| `JobsInv` | a file has one job (`SingleFlight`) | `FileServiceProofs` |
| `RemovalInv` | what a cleaner has waited for | `FileServiceProofs` |
| `DiskInv` | what is on disk behind a row and without one | `FileServiceStorage` |
| `RowInv` | which rows still have a job to settle them | `FileServiceContract` |
| `ReaderInv` | what a reader has been promised | `FileServiceContract` |

`InductiveInvariant` is the whole. TLC checks it in `MCDeletionRaces.cfg`, where every kind of
goroutine takes part.

*Jobs and removal* (`OneJobPerFile`, `RemovalAlone`). `SingleFlight` is inductive together with
`BeforeStart`: a file that is not stored yet has no job, and a process that is down or reconciling
has none. `RemovalIsExclusive` is not inductive: that nobody converts into a directory being removed
rests on the past of the cleaner. `RemovalInv` records that past. A cleaner holds the marker as long
as it owns the deletion (`OwnerHasMarker`), so no second cleaner and no new lease can come; its row
is marked or gone (`DoomedIsDead`), so no worker passes `MarkProcessing` any more; a worker that
had passed it is registered (`ConversionIsRegistered`, which needs `SingleFlight`), so
`waitForConversion` awaits it (`WaitsForWriter`); and past `waitForLease` no lease is left
(`NoLeaseLeft`).

*Disk* (`MarkersAreOwned`, `RowsAreOnDisk`, `DeletionIsFinal`, `OrphansAreUploads`). A worker that may
write has a row in "processing" (`WriterProcessing`): that is what keeps the output of a failed attempt
from under a row that says "processed", and it holds because the only other goroutine that could settle
the row would be a second worker on the file. A directory is emptied before its row is erased
(`ErasingIsEmpty`), and nobody is left to write to it then (`RemovedIsEmpty`, from `RemovalInv`), so a
deletion that was reported stays (`ErasedIsRemoved`).

*Rows* (`RetryCountsAreReclaimed`, `NobodyIsForgotten`). A row that some job has yet to settle is not settled
(`JobIsPending`), so a processed file is never converted again; a worker without an error has settled its
row (`SettledIsFinal`), so giving up its job strands nothing. `NobodyIsForgotten` has the
hypothesis `faults = 0`, in the state: one failing statement does strand a file (run `lost_retry`).

*Readers* (`MissingMeansDeleted`, `LeasesProtect`, `ReadersAreServed`). Past its poll a `Resolve` has a
processed row, and it stays so (`ResolvedIsProcessed`); a reader that reads is in `leases`
(`LeaseIsCounted`), and by `NoLeaseLeft` nobody removes then. The manifest of a complete directory is
never alone (`ManifestIsLast`), so who found it finds the rest.

*The contract* (`KeepsContract`). Every step of the service is a step of `FileContract` or one that it does not
see, shown for each action that touches a row, a directory or a reader; the others are stuttering steps. The
abstract `Purge` needs a file that nobody uses, which is `NoLeaseLeft` again, and `Settle` a pending
one, which is `JobIsPending`.

`ReadersAreServed` and `KeepsContract` have the hypothesis `~DiskMayFail`: no removal of files fails, though
conversions and statements may. It is needed. With one removal that fails half way, TLC finds that a
`Resolve` that looked its file up before a DELETE gets its lease after that DELETE gave up
(`service.go:350-354`, `535-544`), finds the manifest that was left, and uses a directory
without its other artifacts; the contract, which lets only stored files be used, is then broken when the
source is among what was removed. `LeasesProtect`,
`MissingMeansDeleted` and the disk layer need no such hypothesis.

The proof of the contract also corrected its statement: the cases by which `ContractState` told "none", "gone"
and "pending" apart overlapped, of which TLC takes the first and TLA+ promises nothing. They are now
exclusive.

### The other modules

* `WorkQueueProofs`: `QueueTypes`, `NoWakeupLost`, `FirstInFirstOutHolds` and
  `RefinesJobQueue` (the safety part of the refinement, step by step). `NoLostWakeup` is
  proved with the fact that a captured `ready` channel is never newer than the current one.
* `GatewayProofs`: every invariant of `Gateway` and `DeliveryIsNotCut`. `Counted` says that the
  channel holds one token for each request that has one, and `Placed` what a request has at each
  place of its handler: a slot while it is prepared, a lease only at `parts` and in a download, an `AfterFunc` that is
  stopped past the check, lifted deadlines past `clear`. A function that runs has a context that is
  done, so a request whose context is not done passes the check with the function stopped for good.
  For the directories the proof counts `Abandoned` ones against `faults`.
* `FilesApiProofs`:
  * `PagesDoNotRepeat` and `PagesSkipNothing`. The sort key with the id as tie-breaker is a strict total
    order; what was shown lies before the cursor and what was there all along and was not shown lies
    after it (`ListingInv`).
  * `TenantsStayApart`. The tenant of a row is the shared one if a start without authentication came by
    since its upload, else that of the key it was uploaded with (`Owners`). It assumes that the shared tenant
    is not the hash of a key.
  * `LimitsAreKept` and `RetentionIsAsAsked`, at any width of an int64. A sum of two values either fits, or
    is negative and then means no limit (`WrapFits`, `WrapOverflows`); four limits have room for a file in
    base64 and another one (`FileAndAnotherFit`); seconds that fit a `Duration` are the
    seconds in it (`SecondsFit`). The proof needs what TLC's instance has anyway: settings, sizes and
    the allowance of a form are int64 values, and a second is more than one unit of a `Duration`. With
    one unit to a second, `FILE_TTL_SECONDS` = 2^63 - 1 would let a saturated `expires_after` pass.
* `ContentProofs`:
  * `PublishedIsWhole` and `FailuresLeaveNothing`, from where an attempt stands and what it has written
    so far.
  * `PublicFetchesHold`. An address is examined where it is dialled, so whatever is connected or idle has
    passed, whoever named it.
  * `MergesAreAtomic`. The copy is the registry with the keys `Merge` has been through, each under an extension
    of its own that the registry did not have (`CopyExtends`), so a refusal comes from the argument or from
    the registry, not from the order of the walk.

*Only model-checked.* The liveness properties (`AcceptedIsDelivered`, `CancelledGetQuits`, `UploadSettles`,
`MarkedIsErased`, `DeleteAnswers`, `ShutdownCompletes`, `SlotFreed`) and the refinement of `JobQueue` under
fairness: fairness and ENABLED are outside the prover.

## 6. Bounds and abstractions

* `MaxFaults`, `MaxBoots`, `MaxRetries` (3 in the code, 0 or 1 in the runs) bound the state
  space; the theorems hold for any. Retry delays and the 30 seconds of the janitor are
  nondeterministic time.
* `FileService` leaves tenants out: a caller owns the files it names, and module `Tenants` says which
  those are. File ids are not reused (16
  random bytes).
* A failed `Get` at the start of a request answers 500, changes nothing and is left out; so is
  a sweep that finds no expired row. A worker that cannot resolve the converter of a recovered job
  (`service.go:723-728`) is left out: the in-tree registry always falls back to plain text.
* Start-up that fails (`Pending`, `ReconcileStorage`, the sweep of request directories) ends the
  process as `Crash` does. A client that goes away in `Delete` is a failing statement.
* In `Gateway` the file service is a document that is had with a lease, or an error; HTTP headers,
  payloads and log lines are data. An upstream error body that is read before the response starts
  belongs to the step in which vLLM answers. Once a handler has returned, its contexts are set back
  to their initial values, since nothing reads them any more.

* A failed `Add` leaves no row. Whether one whose context is cancelled during the commit may
  leave one depends on the SQLite driver.
* `Download` follows one download at a time. Concurrent ones share only the idle connections,
  and an invariant on these is checked at every step. The addresses `isPublicIP` accepts are a set.
* `Listing` gives ids as numbers, since the queries compare them; the tenant filter is a fixed part
  of `selected`. A page query that fails ends the listing and is left out.
* `Limits` has one file per form and per inference request; what else is in a body is a number of
  bytes. The remaining variables of `config.Load` are range checks on single values.

*Where the code leaves its own words.* The properties of the components are stated so that
they hold; their conditions name the cases in which the code does something else:

* A cursor whose row has been erased is no error: the bound is dropped and the listing starts
  over (`store.go:223`), although "only files strictly after (or before, for desc) the cursor file"
  are promised (`store.go:197-198`). `NoRepeats` is conditioned on it; `NothingSkipped` is not.
* `MAX_FILE_BYTES` = 2^63 - 1 is accepted; `MaxFileBytes+1` wraps, `io.LimitReader` reads nothing, and
  every upload and download is taken for an empty file (`service.go:276`, `file_url.go:176`).
* Without `MAX_REQUEST_BODY_BYTES`, `4*maxFileBytes` may wrap (`config.go:86`): start-up is refused in
  the name of a variable nobody set, or the request limit is far below the file limit, so that
  `file_data` within the file limit is refused (`inference.go:40-49`), or 0, which means none.
  `AcceptedWhole` excepts the wrap, and a file limit of one byte, whose base64 takes four.
* With `FILE_TTL_SECONDS=0` nothing bounds the seconds of `expires_after`; their product with
  `time.Second` wraps (`server.go:218`), and the file expires early or, where the product is not positive,
  never.
* A read deadline that expires between the check of the context and the call that lifts the deadline
  (`proxy.go:186-194`) still cuts the response, which `docs/DESIGN.md:572` excludes.
  `DeliveryIsNotCut` starts after that call.
* `ResolveConverter` takes any error that wraps `ErrConverterNotFound` for an unknown extension
  (`dispatcher.go:38`); a factory that returned one would be replaced by plain text. No factory
  in the repository fails.

Not modelled: logging and API errors (formatting), the header copying of the proxy, the payload rewriting
of `inference.go` beyond its order of references, what renderers and extractors do inside a file
format (external programs), `Migrate`, and the parsing of single configuration values.

## 7. Plan

Done, in this order: queue, store, file service with its contract, invariant and proofs, gateway;
then the listing, the conversion at the grain of its calls, the download, the registry, the limits
and the tenants; theorems about every invariant and action property of the runs, and about the steps of
both refinements. Next:

1. `PrepareOutput` and `Render` of `FileService` as an abstraction of `Conversion`, with a mapping.
2. `Gateway` with the leases of `FileService` in one composition.
