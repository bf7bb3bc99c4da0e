---------------------------- MODULE FileService -----------------------------
(***************************************************************************)
(* The life of uploaded files in src/internal/files/service.go: uploads,   *)
(* conversion workers with retries, deletion by API requests and by the    *)
(* janitor, readers that hold leases on the artifacts, and the process     *)
(* around them (src/cmd/llm-file-gateway/main.go): start-up, recovery,     *)
(* shutdown and crashes.                                                   *)
(*                                                                         *)
(* One step is what no other goroutine can interrupt: one SQL statement    *)
(* (module FileStore), one critical section of lifecycleMu, one file       *)
(* system call, or one call of the queue (module JobQueue).                *)
(***************************************************************************)
EXTENDS FileStore, Naturals, Sequences, FiniteSets

CONSTANTS
    Workers,            \* the conversion workers
    Deleters,           \* DELETE requests, each runs Delete once
    Janitor,            \* the janitor goroutine
    ManifestReaders,    \* requests that run Resolve once
    SourceReaders,      \* requests that run OpenSource once
    None,               \* nobody, nothing
    QueueCapacity,      \* CONVERSION_QUEUE_CAPACITY, 0 for unbounded
    MaxRetries,         \* maxRetries, 3 in the code
    MaxFaults,          \* bound: failing statements and file system calls
    MaxBoots,           \* bound: process starts
    DiskMayFail         \* whether the file system is one of what may fail

Cleaners == Deleters \cup {Janitor}
Readers == ManifestReaders \cup SourceReaders

ASSUME ProcessAssumption ==
    /\ Janitor \notin Deleters
    /\ ManifestReaders \cap SourceReaders = {}
    /\ None \notin Workers \cup Cleaners \cup Files

ASSUME BoundAssumption ==
    /\ QueueCapacity \in Nat
    /\ MaxRetries \in Nat
    /\ MaxFaults \in Nat
    /\ MaxBoots \in Nat
    /\ DiskMayFail \in BOOLEAN

VARIABLES
    disk,           \* files -> what its directory holds, {} if there is none
    queue,          \* the conversion queue
    timers,         \* files whose enqueueAfter timer has yet to fire
    pending,        \* files Run has yet to re-enqueue
    retries,        \* retryCount
    conversions,    \* files -> the worker registered in conversions
    leases,         \* files -> the readers counted by its fileLease
    deleting,       \* files -> the cleaner that put it in deleting
    creator,        \* files -> where its Create is
    wpc,            \* workers -> where it is
    wjob,           \* workers -> the file of its job
    werr,           \* workers -> the kind of error convert returned
    fileCtx,        \* workers -> whether its per-file context was cancelled
    cpc,            \* cleaners -> where it is
    cfile,          \* cleaners -> the file it deletes
    awaited,        \* cleaners -> whose conversion's done channel it waits on
    outcome,        \* cleaners -> what Delete returns once it ends deletion
    sweep,          \* files -> the row in the janitor's copy of Expired
    rpc,            \* readers -> where it is
    rfile,          \* readers -> the file it reads
    phase,          \* where main.run is
    halted,         \* the workers' context is done: a signal, or Stop
    faults,         \* faults so far
    boots           \* process starts so far

lockVars == <<conversions, leases, deleting>>
jobVars == <<queue, timers, pending, retries>>
workerVars == <<wpc, wjob, werr, fileCtx>>
cleanerVars == <<cpc, cfile, awaited, outcome, sweep>>
readerVars == <<rpc, rfile>>
mainVars == <<phase, halted, boots>>

vars == <<storeVars, disk, jobVars, lockVars, creator, workerVars, cleanerVars,
          readerVars, mainVars, faults>>

Content == {"source", "derived", "manifest"}
WorkerPC == {"get", "begin", "lookup", "marking", "prepare", "render", "publish",
             "end", "handle", "exited"}
Answers == {"deleted", "notfound", "error"}
CleanerPC == {"idle", "next", "claim", "mark", "convwait", "await", "leasewait",
              "remove", "erase", "release", "lost", "exited"} \cup Answers
ReaderPC == {"idle", "poll", "acquire", "read", "using", "released", "notfound",
             "failed", "missing", "error", "gaveup", "lost"}
CreatorPC == {"idle", "staged", "stored", "done", "rejected", "leaked", "lost"}
Phases == {"down", "reconciling", "starting", "up", "draining", "stopping"}

DirectoryTypeOK ==
    /\ disk \in [Files -> SUBSET Content]
    /\ creator \in [Files -> CreatorPC]

JobTypeOK ==
    /\ queue \in Seq(Files)
    /\ timers \subseteq Files
    /\ pending \subseteq Files
    /\ retries \in [Files -> Nat]

LockTypeOK ==
    /\ conversions \in [Files -> Workers \cup {None}]
    /\ leases \in [Files -> SUBSET Readers]
    /\ deleting \in [Files -> Cleaners \cup {None}]

WorkerTypeOK ==
    /\ wpc \in [Workers -> WorkerPC]
    /\ wjob \in [Workers -> Files \cup {None}]
    /\ werr \in [Workers -> {"none", "retryable", "permanent"}]
    /\ fileCtx \in [Workers -> BOOLEAN]

CleanerTypeOK ==
    /\ cpc \in [Cleaners -> CleanerPC]
    /\ cfile \in [Cleaners -> Files \cup {None}]
    /\ awaited \in [Cleaners -> Workers \cup {None}]
    /\ outcome \in [Cleaners -> Answers \cup {"none"}]
    /\ sweep \in [Files -> {"none", "unmarked", "marked"}]

ReaderTypeOK ==
    /\ rpc \in [Readers -> ReaderPC]
    /\ rfile \in [Readers -> Files \cup {None}]

MainTypeOK ==
    /\ phase \in Phases
    /\ halted \in BOOLEAN
    /\ boots \in Nat

(* Every variable holds a value of its kind; the workers' positions are those
   of processNextJob, the cleaners' those of Delete and deleteExpired. *)
TypeOK ==
    /\ StoreTypeOK
    /\ DirectoryTypeOK
    /\ JobTypeOK
    /\ LockTypeOK
    /\ WorkerTypeOK
    /\ CleanerTypeOK
    /\ ReaderTypeOK
    /\ MainTypeOK
    /\ faults \in Nat

Init ==
    /\ StoreInit
    /\ disk = [f \in Files |-> {}]
    /\ queue = <<>>
    /\ timers = {}
    /\ pending = {}
    /\ retries = [f \in Files |-> 0]
    /\ conversions = [f \in Files |-> None]
    /\ leases = [f \in Files |-> {}]
    /\ deleting = [f \in Files |-> None]
    /\ creator = [f \in Files |-> "idle"]
    /\ wpc = [w \in Workers |-> "exited"]
    /\ wjob = [w \in Workers |-> None]
    /\ werr = [w \in Workers |-> "none"]
    /\ fileCtx = [w \in Workers |-> FALSE]
    /\ cpc = [c \in Cleaners |-> IF c = Janitor THEN "exited" ELSE "idle"]
    /\ cfile = [c \in Cleaners |-> None]
    /\ awaited = [c \in Cleaners |-> None]
    /\ outcome = [c \in Cleaners |-> "none"]
    /\ sweep = [f \in Files |-> "none"]
    /\ rpc = [r \in Readers |-> "idle"]
    /\ rfile = [r \in Readers |-> None]
    /\ phase = "down"
    /\ halted = FALSE
    /\ faults = 0
    /\ boots = 0

(* A statement or a file system call fails, or its client goes away. *)
Fault == faults < MaxFaults /\ faults' = faults + 1
DiskFault == DiskMayFail /\ Fault
NoFault == UNCHANGED faults

----------------------------------------------------------------------------
(* The queue, as module JobQueue specifies it *)

(* Add under a context: whether it may succeed, and whether it may give up.
   The unbounded Add looks at the context once; the bounded one selects. *)
AddAllowed(ctxDone) ==
    IF QueueCapacity = 0 THEN ~ctxDone ELSE Len(queue) < QueueCapacity

Enqueue(f) == queue' = Append(queue, f)

(* Get tells a worker to quit.  The unbounded Get does so only once the slice
   is empty, the bounded Get selects. *)
QuitAllowed == halted /\ (QueueCapacity > 0 \/ queue = <<>>)

(* The lifecycle context, cancelled by Stop *)
LifecycleDone == phase = "stopping"

----------------------------------------------------------------------------
(* A conversion worker: processNextJob in a loop *)

GetJob(w) ==
    /\ wpc[w] = "get"
    /\ queue # <<>>
    /\ wjob' = [wjob EXCEPT ![w] = Head(queue)]
    /\ queue' = Tail(queue)
    /\ wpc' = [wpc EXCEPT ![w] = "begin"]
    /\ UNCHANGED <<storeVars, disk, timers, pending, retries, lockVars, creator,
                   werr, fileCtx, cleanerVars, readerVars, mainVars, faults>>

QuitWorker(w) ==
    /\ wpc[w] = "get"
    /\ QuitAllowed
    /\ wpc' = [wpc EXCEPT ![w] = "exited"]
    /\ UNCHANGED <<storeVars, disk, jobVars, lockVars, creator, wjob, werr,
                   fileCtx, cleanerVars, readerVars, mainVars, faults>>

BeginConversion(w) ==
    /\ wpc[w] = "begin"
    /\ conversions' = [conversions EXCEPT ![wjob[w]] = w]
    /\ fileCtx' = [fileCtx EXCEPT ![w] = FALSE]
    /\ wpc' = [wpc EXCEPT ![w] = "lookup"]
    /\ UNCHANGED <<storeVars, disk, jobVars, leases, deleting, creator, wjob,
                   werr, cleanerVars, readerVars, mainVars, faults>>

(* The file's context, a child of the workers' context *)
FileCtxDone(w) == halted \/ fileCtx[w]

(* convert returns: with an error of a kind, or "none" *)
ConvertReturns(w, err) ==
    /\ wpc' = [wpc EXCEPT ![w] = "end"]
    /\ werr' = [werr EXCEPT ![w] = err]

(* GetInternal, and the returns for a missing or deleted row.  A statement
   under a context that is done fails, as does one the store cannot run. *)
LookUpJob(w) ==
    /\ wpc[w] = "lookup"
    /\ \/ /\ ~FileCtxDone(w)
          /\ IF Undeleted(wjob[w])
             THEN wpc' = [wpc EXCEPT ![w] = "marking"] /\ UNCHANGED werr
             ELSE ConvertReturns(w, "none")
          /\ NoFault
       \/ /\ ConvertReturns(w, "retryable")
          /\ IF FileCtxDone(w) THEN NoFault ELSE Fault
    /\ UNCHANGED <<storeVars, disk, jobVars, lockVars, creator, wjob, fileCtx,
                   cleanerVars, readerVars, mainVars>>

(* UpdateStatus "processing", and the return when no row was updated *)
MarkProcessing(w) ==
    /\ wpc[w] = "marking"
    /\ \/ /\ ~FileCtxDone(w)
          /\ UpdateStatus(wjob[w], "processing")
          /\ IF Updatable(wjob[w])
             THEN wpc' = [wpc EXCEPT ![w] = "prepare"] /\ UNCHANGED werr
             ELSE ConvertReturns(w, "none")
          /\ NoFault
       \/ /\ ConvertReturns(w, "retryable")
          /\ IF FileCtxDone(w) THEN NoFault ELSE Fault
          /\ UNCHANGED storeVars
    /\ UNCHANGED <<disk, jobVars, lockVars, creator, wjob, fileCtx,
                   cleanerVars, readerVars, mainVars>>

Artifacts == {"derived", "manifest"}
Errors == {"retryable", "permanent"}

(* Some of the artifacts found on disk could not be removed *)
PartlyRemoved(w, found) ==
    /\ \E rest \in SUBSET found :
          disk' = [disk EXCEPT ![wjob[w]] = (@ \ Artifacts) \cup rest]
    /\ DiskFault

(* The converter until withOutputDirectory has an empty directory: it removes
   what an earlier conversion left, then MkdirAll, which also creates the
   file's directory if it is gone.  A text or image converter reads the source
   first and may end there, its disk untouched.  Module Conversion has the
   details. *)
PrepareOutput(w) ==
    /\ wpc[w] = "prepare"
    /\ \/ /\ disk' = [disk EXCEPT ![wjob[w]] = (@ \ {"manifest"}) \cup {"derived"}]
          /\ wpc' = [wpc EXCEPT ![w] = "render"]
          /\ UNCHANGED werr
          /\ NoFault
       \/ /\ \E err \in Errors : ConvertReturns(w, err)
          /\ UNCHANGED disk
          /\ NoFault
       \/ /\ PartlyRemoved(w, disk[wjob[w]] \cap Artifacts)
          /\ ConvertReturns(w, "retryable")
    /\ UNCHANGED <<storeVars, jobVars, lockVars, creator, wjob, fileCtx,
                   cleanerVars, readerVars, mainVars>>

(* The converter ends: it has written the artifacts and the manifest, or fails
   and its output is removed, an error of which is dropped.  A converter may or
   may not notice that its context is done. *)
Render(w) ==
    /\ wpc[w] = "render"
    /\ \/ /\ "source" \in disk[wjob[w]]
          /\ disk' = [disk EXCEPT ![wjob[w]] = @ \cup Artifacts]
          /\ wpc' = [wpc EXCEPT ![w] = "publish"]
          /\ UNCHANGED werr
          /\ NoFault
       \/ /\ \E err \in Errors : ConvertReturns(w, err)
          /\ \/ disk' = [disk EXCEPT ![wjob[w]] = @ \ Artifacts] /\ NoFault
             \/ PartlyRemoved(w, Artifacts)
    /\ UNCHANGED <<storeVars, jobVars, lockVars, creator, wjob, fileCtx,
                   cleanerVars, readerVars, mainVars>>

(* UpdateStatus "processed", under a context of its own *)
Publish(w) ==
    /\ wpc[w] = "publish"
    /\ \/ /\ UpdateStatus(wjob[w], "processed")
          /\ ConvertReturns(w, "none")
          /\ NoFault
       \/ /\ ConvertReturns(w, "retryable")
          /\ Fault
          /\ UNCHANGED storeVars
    /\ UNCHANGED <<disk, jobVars, lockVars, creator, wjob, fileCtx,
                   cleanerVars, readerVars, mainVars>>

(* close(state.done): every cleaner waiting on it goes on *)
NeverDone(w) == awaited
CloseDone(w) == [c \in Cleaners |-> IF awaited[c] = w THEN None ELSE awaited[c]]

EndConversion(w) ==
    /\ wpc[w] = "end"
    /\ conversions' = [conversions EXCEPT ![wjob[w]] = IF @ = w THEN None ELSE @]
    /\ awaited' = CloseDone(w)
    /\ wpc' = [wpc EXCEPT ![w] = "handle"]
    /\ UNCHANGED <<storeVars, disk, jobVars, leases, deleting, creator, wjob,
                   werr, fileCtx, cpc, cfile, outcome, sweep, readerVars,
                   mainVars, faults>>

----------------------------------------------------------------------------
(* handleErr, after which the worker gets its next job *)

NextJob(w) ==
    /\ wpc' = [wpc EXCEPT ![w] = "get"]
    /\ wjob' = [wjob EXCEPT ![w] = None]
    /\ werr' = [werr EXCEPT ![w] = "none"]

Remember(f) == UNCHANGED retries
Forget(f) == retries' = [retries EXCEPT ![f] = 0]

RetriesLeft(w) == werr[w] = "retryable" /\ retries[wjob[w]] < MaxRetries

Succeed(w) ==
    /\ wpc[w] = "handle"
    /\ werr[w] = "none"
    /\ Forget(wjob[w])
    /\ NextJob(w)
    /\ UNCHANGED <<storeVars, disk, queue, timers, pending, lockVars, creator,
                   fileCtx, cleanerVars, readerVars, mainVars, faults>>

(* markFailed, which logs and drops an error of its own *)
FailJob(w) ==
    /\ wpc[w] = "handle"
    /\ werr[w] # "none"
    /\ ~RetriesLeft(w)
    /\ \/ UpdateStatus(wjob[w], "failed") /\ NoFault
       \/ Fault /\ UNCHANGED storeVars
    /\ Forget(wjob[w])
    /\ NextJob(w)
    /\ UNCHANGED <<disk, queue, timers, pending, lockVars, creator,
                   fileCtx, cleanerVars, readerVars, mainVars>>

(* time.AfterFunc *)
StartTimerTwice(f) == timers' = timers \cup {f} /\ Enqueue(f)
StartNoTimer(f) == UNCHANGED <<timers, queue>>
StartTimer(f) == timers' = timers \cup {f} /\ UNCHANGED queue

(* fileActive, then enqueueAfter *)
RetryJob(w) ==
    /\ wpc[w] = "handle"
    /\ RetriesLeft(w)
    /\ Undeleted(wjob[w])
    /\ retries' = [retries EXCEPT ![wjob[w]] = @ + 1]
    /\ StartTimer(wjob[w])
    /\ NextJob(w)
    /\ UNCHANGED <<storeVars, disk, pending, lockVars, creator,
                   fileCtx, cleanerVars, readerVars, mainVars, faults>>

(* fileActive is false for a deleted file, and when the lookup fails *)
DropJob(w) ==
    /\ wpc[w] = "handle"
    /\ RetriesLeft(w)
    /\ IF Undeleted(wjob[w]) THEN Fault ELSE NoFault
    /\ Forget(wjob[w])
    /\ NextJob(w)
    /\ UNCHANGED <<storeVars, disk, queue, timers, pending, lockVars, creator,
                   fileCtx, cleanerVars, readerVars, mainVars>>

(* The timer of enqueueAfter: enqueue under the workers' context *)
FireTimer(f) ==
    /\ f \in timers
    /\ timers' = timers \ {f}
    /\ \/ AddAllowed(halted) /\ Enqueue(f)
       \/ halted /\ UNCHANGED queue
    /\ UNCHANGED <<storeVars, disk, pending, retries, lockVars, creator,
                   workerVars, cleanerVars, readerVars, mainVars, faults>>

WorkerStep(w) ==
    \/ GetJob(w) \/ QuitWorker(w) \/ BeginConversion(w)
    \/ LookUpJob(w) \/ MarkProcessing(w) \/ PrepareOutput(w)
    \/ Render(w) \/ Publish(w) \/ EndConversion(w)
    \/ Succeed(w) \/ FailJob(w) \/ RetryJob(w) \/ DropJob(w)

----------------------------------------------------------------------------
(* Create, once per file *)

(* MkdirAll and the copy of the upload to source<ext> *)
StageUpload(f) ==
    /\ phase = "up"
    /\ creator[f] = "idle"
    /\ disk' = [disk EXCEPT ![f] = {"source"}]
    /\ creator' = [creator EXCEPT ![f] = "staged"]
    /\ UNCHANGED <<storeVars, jobVars, lockVars, workerVars, cleanerVars,
                   readerVars, mainVars, faults>>

(* Too large, invalid, cut off, or not inserted: the deferred RemoveAll, which
   logs and drops an error of its own *)
RejectUpload(f) ==
    /\ creator[f] = "staged"
    /\ \/ /\ disk' = [disk EXCEPT ![f] = {}]
          /\ creator' = [creator EXCEPT ![f] = "rejected"]
          /\ NoFault
       \/ /\ creator' = [creator EXCEPT ![f] = "leaked"]
          /\ DiskFault
          /\ UNCHANGED disk
    /\ UNCHANGED <<storeVars, jobVars, lockVars, workerVars, cleanerVars,
                   readerVars, mainVars>>

AddRecord(f) ==
    /\ creator[f] = "staged"
    /\ Insert(f)
    /\ creator' = [creator EXCEPT ![f] = "stored"]
    /\ UNCHANGED <<disk, jobVars, lockVars, workerVars, cleanerVars,
                   readerVars, mainVars, faults>>

(* enqueue under the lifecycle context: blocks while a bounded queue is full,
   gives up once Stop cancelled the context *)
EnqueueUpload(f) ==
    /\ creator[f] = "stored"
    /\ creator' = [creator EXCEPT ![f] = "done"]
    /\ \/ AddAllowed(LifecycleDone) /\ Enqueue(f)
       \/ LifecycleDone /\ UNCHANGED queue
    /\ UNCHANGED <<storeVars, disk, timers, pending, retries, lockVars,
                   workerVars, cleanerVars, readerVars, mainVars, faults>>

CreateStep(f) == RejectUpload(f) \/ AddRecord(f) \/ EnqueueUpload(f)

----------------------------------------------------------------------------
(* Delete and deleteExpired: one protocol, entered by a request for one file
   or by the janitor for each row of its copy of Expired *)

(* What a cleaner does when it is done with a file *)
AfterFile(c, answer) == IF c = Janitor THEN "next" ELSE answer

NoAnswer(c, answer) == cpc' = [cpc EXCEPT ![c] = "release"] /\ UNCHANGED outcome

(* Give up or finish: what is left is endDeletion *)
Conclude(c, answer) ==
    /\ cpc' = [cpc EXCEPT ![c] = "release"]
    /\ outcome' = [outcome EXCEPT ![c] = answer]

MoveCleaner(c, pc) == cpc' = [cpc EXCEPT ![c] = pc] /\ UNCHANGED outcome

(* Delete's Get.  A client can only name a file that was stored.  A Get that
   fails answers 500 and changes nothing: that is left out, here and in
   StartRead. *)
StartDelete(d, f) ==
    /\ phase = "up"
    /\ cpc[d] = "idle"
    /\ status[f] # "absent"
    /\ cfile' = [cfile EXCEPT ![d] = f]
    /\ cpc' = [cpc EXCEPT ![d] = IF Visible(f) THEN "claim" ELSE "notfound"]
    /\ UNCHANGED <<storeVars, disk, jobVars, lockVars, creator, workerVars,
                   awaited, outcome, sweep, readerVars, mainVars, faults>>

(* Expired, which fails once the context is done.  A sweep of nothing changes
   nothing and is left out. *)
StartSweep ==
    /\ cpc[Janitor] = "idle"
    /\ ~halted
    /\ \E f \in Files : ExpiredRow(f) # "none"
    /\ sweep' = [f \in Files |-> ExpiredRow(f)]
    /\ cpc' = [cpc EXCEPT ![Janitor] = "next"]
    /\ UNCHANGED <<storeVars, disk, jobVars, lockVars, creator, workerVars,
                   cfile, awaited, outcome, readerVars, mainVars, faults>>

NextExpired(f) ==
    /\ cpc[Janitor] = "next"
    /\ sweep[f] # "none"
    /\ cfile' = [cfile EXCEPT ![Janitor] = f]
    /\ cpc' = [cpc EXCEPT ![Janitor] = "claim"]
    /\ UNCHANGED <<storeVars, disk, jobVars, lockVars, creator, workerVars,
                   awaited, outcome, sweep, readerVars, mainVars, faults>>

EndSweep ==
    /\ cpc[Janitor] = "next"
    /\ \A f \in Files : sweep[f] = "none"
    /\ cpc' = [cpc EXCEPT ![Janitor] = "idle"]
    /\ UNCHANGED <<storeVars, disk, jobVars, lockVars, creator, workerVars,
                   cfile, awaited, outcome, sweep, readerVars, mainVars, faults>>

QuitJanitor ==
    /\ cpc[Janitor] = "idle"
    /\ halted
    /\ cpc' = [cpc EXCEPT ![Janitor] = "exited"]
    /\ UNCHANGED <<storeVars, disk, jobVars, lockVars, creator, workerVars,
                   cfile, awaited, outcome, sweep, readerVars, mainVars, faults>>

(* The row the cleaner works on is done with. *)
LeaveFile(c) ==
    IF c = Janitor
    THEN /\ sweep' = [sweep EXCEPT ![cfile[c]] = "none"]
         /\ cfile' = [cfile EXCEPT ![c] = None]
    ELSE UNCHANGED <<sweep, cfile>>

(* beginDeletion *)
BeginDeletion(c) ==
    /\ cpc[c] = "claim"
    /\ IF deleting[cfile[c]] = None
       THEN /\ deleting' = [deleting EXCEPT ![cfile[c]] = c]
            /\ MoveCleaner(c, "mark")
            /\ UNCHANGED <<sweep, cfile>>
       ELSE /\ MoveCleaner(c, AfterFile(c, "notfound"))
            /\ LeaveFile(c)
            /\ UNCHANGED deleting
    /\ UNCHANGED <<storeVars, disk, jobVars, conversions, leases, creator,
                   workerVars, awaited, readerVars, mainVars, faults>>

NeverMarks(c) == c = Janitor

(* The janitor does not mark a row its copy shows marked. *)
AlreadyMarked(c) == c = Janitor /\ sweep[cfile[c]] = "marked"

(* A janitor whose context is done cannot mark. *)
MarkFile(c) ==
    /\ cpc[c] = "mark"
    /\ \/ /\ AlreadyMarked(c)
          /\ MoveCleaner(c, "convwait")
          /\ NoFault
          /\ UNCHANGED storeVars
       \/ /\ ~AlreadyMarked(c)
          /\ ~(c = Janitor /\ halted)
          /\ MarkDeleted(cfile[c])
          /\ IF Undeleted(cfile[c])
             THEN MoveCleaner(c, "convwait")
             ELSE Conclude(c, "notfound")
          /\ NoFault
       \/ /\ ~AlreadyMarked(c)
          /\ Conclude(c, "error")
          /\ IF c = Janitor /\ halted THEN NoFault ELSE Fault
          /\ UNCHANGED storeVars
    /\ UNCHANGED <<disk, jobVars, lockVars, creator, workerVars, cfile,
                   awaited, sweep, readerVars, mainVars>>

(* The conversion registered for a file *)
Unregistered(f) == None
InFlight(f) == conversions[f]

(* waitForConversion: capture the conversion's state and cancel it *)
WaitForConversion(c) ==
    /\ cpc[c] = "convwait"
    /\ LET w == InFlight(cfile[c]) IN
       IF w = None
       THEN /\ MoveCleaner(c, "leasewait")
            /\ UNCHANGED <<awaited, fileCtx>>
       ELSE /\ MoveCleaner(c, "await")
            /\ awaited' = [awaited EXCEPT ![c] = w]
            /\ fileCtx' = [fileCtx EXCEPT ![w] = TRUE]
    /\ UNCHANGED <<storeVars, disk, jobVars, lockVars, creator, wpc, wjob, werr,
                   cfile, sweep, readerVars, mainVars, faults>>

ConversionDone(c) ==
    /\ cpc[c] = "await"
    /\ awaited[c] = None
    /\ MoveCleaner(c, "leasewait")
    /\ UNCHANGED <<storeVars, disk, jobVars, lockVars, creator, workerVars,
                   cfile, awaited, sweep, readerVars, mainVars, faults>>

LeasesIgnored(f) == TRUE

(* waitForLease *)
LeasesReleased(f) == leases[f] = {}

WaitForLease(c) ==
    /\ cpc[c] = "leasewait"
    /\ LeasesReleased(cfile[c])
    /\ MoveCleaner(c, "remove")
    /\ UNCHANGED <<storeVars, disk, jobVars, lockVars, creator, workerVars,
                   cfile, awaited, sweep, readerVars, mainVars, faults>>

(* RemoveAll, which may fail half way and leave part of the directory *)
RemoveDirectory(c) ==
    /\ cpc[c] = "remove"
    /\ \/ /\ disk' = [disk EXCEPT ![cfile[c]] = {}]
          /\ MoveCleaner(c, "erase")
          /\ NoFault
       \/ /\ \E rest \in (SUBSET disk[cfile[c]]) \ {{}} :
                disk' = [disk EXCEPT ![cfile[c]] = rest]
          /\ Conclude(c, "error")
          /\ DiskFault
    /\ UNCHANGED <<storeVars, jobVars, lockVars, creator, workerVars, cfile,
                   awaited, sweep, readerVars, mainVars>>

(* store.Delete, under a context that is never cancelled *)
EraseRow(c) ==
    /\ cpc[c] = "erase"
    /\ \/ /\ DeleteRow(cfile[c])
          /\ Conclude(c, IF HasRow(cfile[c]) THEN "deleted" ELSE "notfound")
          /\ NoFault
       \/ /\ Conclude(c, "error")
          /\ Fault
          /\ UNCHANGED storeVars
    /\ UNCHANGED <<disk, jobVars, lockVars, creator, workerVars, cfile,
                   awaited, sweep, readerVars, mainVars>>

Unmark(c) == [deleting EXCEPT ![cfile[c]] = IF @ = c THEN None ELSE @]
EndsOnSuccess(c) == IF outcome[c] = "deleted" THEN Unmark(c) ELSE deleting

(* endDeletion: the marker goes if it is this cleaner's *)
EndsMarker(c) == Unmark(c)

(* endDeletion, then the answer or the next row *)
EndDeletion(c) ==
    /\ cpc[c] = "release"
    /\ deleting' = EndsMarker(c)
    /\ cpc' = [cpc EXCEPT ![c] = AfterFile(c, outcome[c])]
    /\ outcome' = [outcome EXCEPT ![c] = "none"]
    /\ LeaveFile(c)
    /\ UNCHANGED <<storeVars, disk, jobVars, conversions, leases, creator,
                   workerVars, awaited, readerVars, mainVars, faults>>

DeletionStep(c) ==
    \/ BeginDeletion(c) \/ MarkFile(c) \/ WaitForConversion(c)
    \/ ConversionDone(c) \/ WaitForLease(c) \/ RemoveDirectory(c)
    \/ EraseRow(c) \/ EndDeletion(c)

JanitorStep ==
    StartSweep \/ EndSweep \/ QuitJanitor \/ \E f \in Files : NextExpired(f)

----------------------------------------------------------------------------
(* Resolve and OpenSource *)

MoveReader(r, pc) == rpc' = [rpc EXCEPT ![r] = pc]

(* What a reader does with the row its Get returned: Resolve polls while the
   conversion is pending and rejects a failed one, OpenSource does not look. *)
AfterLookup(r, f) ==
    IF ~Visible(f) THEN "notfound"
    ELSE IF r \in SourceReaders THEN "acquire"
    ELSE CASE status[f] = "failed"    -> "failed"
           [] status[f] = "processed" -> "acquire"
           [] OTHER                   -> "poll"

StartRead(r, f) ==
    /\ phase = "up"
    /\ rpc[r] = "idle"
    /\ status[f] # "absent"
    /\ rfile' = [rfile EXCEPT ![r] = f]
    /\ MoveReader(r, AfterLookup(r, f))
    /\ UNCHANGED <<storeVars, disk, jobVars, lockVars, creator, workerVars,
                   cleanerVars, mainVars, faults>>

PollAgain(r) ==
    /\ rpc[r] = "poll"
    /\ \/ MoveReader(r, AfterLookup(r, rfile[r])) /\ NoFault
       \/ MoveReader(r, "error") /\ Fault
    /\ UNCHANGED <<storeVars, disk, jobVars, lockVars, creator, workerVars,
                   cleanerVars, rfile, mainVars>>

(* The request's context ends, or the lifecycle context does *)
GiveUp(r) ==
    /\ rpc[r] = "poll"
    /\ MoveReader(r, "gaveup")
    /\ UNCHANGED <<storeVars, disk, jobVars, lockVars, creator, workerVars,
                   cleanerVars, rfile, mainVars, faults>>

LeaseGranted(f) == FALSE

(* acquireLease fails while the file is in deleting *)
LeaseRefused(f) == deleting[f] # None

AcquireLease(r) ==
    /\ rpc[r] = "acquire"
    /\ IF LeaseRefused(rfile[r])
       THEN MoveReader(r, "notfound") /\ UNCHANGED leases
       ELSE /\ leases' = [leases EXCEPT ![rfile[r]] = @ \cup {r}]
            /\ MoveReader(r, "read")
    /\ UNCHANGED <<storeVars, disk, jobVars, conversions, deleting, creator,
                   workerVars, cleanerVars, rfile, mainVars, faults>>

KeepsLease(r) == UNCHANGED leases

(* releaseLease; the last one frees the cleaner that waits *)
DropLease(r) == leases' = [leases EXCEPT ![rfile[r]] = @ \ {r}]

(* What the reader opens under its lease *)
Wanted(r) == IF r \in ManifestReaders THEN "manifest" ELSE "source"

(* ReadFile of the manifest, or Open of the source.  A missing manifest is
   answered 422 "File manifest is missing.", a missing source 500. *)
ReadArtifact(r) ==
    /\ rpc[r] = "read"
    /\ IF Wanted(r) \in disk[rfile[r]]
       THEN MoveReader(r, "using") /\ UNCHANGED leases
       ELSE MoveReader(r, "missing") /\ DropLease(r)
    /\ UNCHANGED <<storeVars, disk, jobVars, conversions, deleting, creator,
                   workerVars, cleanerVars, rfile, mainVars, faults>>

ReleaseLease(r) ==
    /\ rpc[r] = "using"
    /\ DropLease(r)
    /\ MoveReader(r, "released")
    /\ UNCHANGED <<storeVars, disk, jobVars, conversions, deleting, creator,
                   workerVars, cleanerVars, rfile, mainVars, faults>>

ReaderStep(r) ==
    PollAgain(r) \/ AcquireLease(r) \/ ReadArtifact(r) \/ ReleaseLease(r)

----------------------------------------------------------------------------
(* The process: main.run, Run and Stop *)

Boot ==
    /\ phase = "down"
    /\ boots < MaxBoots
    /\ phase' = "reconciling"
    /\ boots' = boots + 1
    /\ UNCHANGED <<storeVars, disk, jobVars, lockVars, creator, workerVars,
                   cleanerVars, readerVars, halted, faults>>

OrphansOfDeleted(f) == disk[f] # {} /\ status[f] = "removed"

(* ReconcileStorage removes the directories no row refers to *)
Orphan(f) == disk[f] # {} /\ ~HasRow(f)

RemoveOrphan(f) ==
    /\ phase = "reconciling"
    /\ Orphan(f)
    /\ disk' = [disk EXCEPT ![f] = {}]
    /\ UNCHANGED <<storeVars, jobVars, lockVars, creator, workerVars,
                   cleanerVars, readerVars, mainVars, faults>>

(* Run: Pending, then the workers and the janitor start *)
Run ==
    /\ phase = "reconciling"
    /\ \A f \in Files : ~Orphan(f)
    /\ pending' = PendingRows
    /\ wpc' = [w \in Workers |-> "get"]
    /\ cpc' = [cpc EXCEPT ![Janitor] = "idle"]
    /\ phase' = "starting"
    /\ UNCHANGED <<storeVars, disk, queue, timers, retries, lockVars, creator,
                   wjob, werr, fileCtx, cfile, awaited, outcome, sweep,
                   readerVars, halted, boots, faults>>

(* Run's enqueue of a recovered file, under the lifecycle context: main.run
   has not reached Stop, so nothing cancels it *)
EnqueuePending(f) ==
    /\ phase = "starting"
    /\ f \in pending
    /\ AddAllowed(LifecycleDone)
    /\ Enqueue(f)
    /\ pending' = pending \ {f}
    /\ UNCHANGED <<storeVars, disk, timers, retries, lockVars, creator,
                   workerVars, cleanerVars, readerVars, mainVars, faults>>

(* main.run goes from one place to the next and does nothing else. *)
Advance(from, to) ==
    /\ phase = from
    /\ phase' = to
    /\ UNCHANGED <<storeVars, disk, jobVars, lockVars, creator, workerVars,
                   cleanerVars, readerVars, boots, faults>>

Serve == pending = {} /\ Advance("starting", "up") /\ UNCHANGED halted

(* SIGINT or SIGTERM cancels the context the workers' context derives from. *)
Signal ==
    /\ phase \in {"starting", "up"}
    /\ ~halted
    /\ halted' = TRUE
    /\ UNCHANGED <<storeVars, disk, jobVars, lockVars, creator, workerVars,
                   cleanerVars, readerVars, phase, boots, faults>>

(* httpServer.Shutdown: no new requests; it returns when the running ones are
   done, and after 10 seconds in any case *)
Shutdown == halted /\ Advance("up", "draining") /\ UNCHANGED halted

Stop == Advance("draining", "stopping") /\ UNCHANGED halted

(* ListenAndServe fails: run returns, and its deferred Stop runs *)
FailServing == Advance("up", "stopping") /\ halted' = TRUE

(* What is lost with the process *)
LoseMemory ==
    /\ phase' = "down"
    /\ halted' = FALSE
    /\ queue' = <<>>
    /\ timers' = {}
    /\ pending' = {}
    /\ retries' = [f \in Files |-> 0]
    /\ conversions' = [f \in Files |-> None]
    /\ leases' = [f \in Files |-> {}]
    /\ deleting' = [f \in Files |-> None]
    /\ creator' = [f \in Files |->
                    IF creator[f] \in {"staged", "stored"} THEN "lost" ELSE creator[f]]
    /\ wpc' = [w \in Workers |-> "exited"]
    /\ wjob' = [w \in Workers |-> None]
    /\ werr' = [w \in Workers |-> "none"]
    /\ fileCtx' = [w \in Workers |-> FALSE]
    /\ cpc' = [c \in Cleaners |->
                IF c = Janitor THEN "exited"
                ELSE IF cpc[c] \in {"idle"} \cup Answers THEN cpc[c] ELSE "lost"]
    /\ cfile' = [cfile EXCEPT ![Janitor] = None]
    /\ awaited' = [c \in Cleaners |-> None]
    /\ outcome' = [c \in Cleaners |-> "none"]
    /\ sweep' = [f \in Files |-> "none"]
    /\ rpc' = [r \in Readers |->
                IF rpc[r] \in {"poll", "acquire", "read", "using"} THEN "lost" ELSE rpc[r]]
    /\ UNCHANGED <<storeVars, disk, rfile, boots, faults>>

(* Stop's wait is over and main.run returns. *)
Exit ==
    /\ phase = "stopping"
    /\ \A w \in Workers : wpc[w] = "exited"
    /\ cpc[Janitor] = "exited"
    /\ LoseMemory

Crash == phase # "down" /\ LoseMemory

(* The clock reaches a file's expires_at, whoever runs. *)
Expire(f) ==
    /\ PassExpiry(f)
    /\ UNCHANGED <<disk, jobVars, lockVars, creator, workerVars, cleanerVars,
                   readerVars, mainVars, faults>>

MainStep ==
    \/ Boot \/ Run \/ Serve \/ Shutdown \/ Stop \/ Exit
    \/ \E f \in Files : RemoveOrphan(f) \/ EnqueuePending(f)

----------------------------------------------------------------------------

Next ==
    \/ \E w \in Workers : WorkerStep(w)
    \/ \E f \in Files : StageUpload(f) \/ CreateStep(f) \/ FireTimer(f) \/ Expire(f)
    \/ \E d \in Deleters, f \in Files : StartDelete(d, f)
    \/ \E c \in Cleaners : DeletionStep(c)
    \/ JanitorStep
    \/ \E r \in Readers, f \in Files : StartRead(r, f)
    \/ \E r \in Readers : ReaderStep(r) \/ GiveUp(r)
    \/ MainStep
    \/ Signal \/ FailServing \/ Crash

SafeSpec == Init /\ [][Next]_vars

(* Goroutines that can take a step are scheduled, timers fire, the janitor's
   ticker ticks, a converter ends (every converter runs under a timeout or on
   bounded input), a client that was handed a file reads it or goes away, and
   a process that ended is started again while MaxBoots allows.  Nobody has
   to upload, delete or read, nothing has to expire, fail, crash or be
   signalled. *)
Fairness ==
    /\ \A w \in Workers : WF_vars(WorkerStep(w))
    /\ \A f \in Files : WF_vars(CreateStep(f)) /\ WF_vars(FireTimer(f))
    /\ \A c \in Cleaners : WF_vars(DeletionStep(c))
    /\ WF_vars(JanitorStep)
    /\ \A r \in Readers : WF_vars(ReaderStep(r))
    /\ WF_vars(MainStep)

Spec == SafeSpec /\ Fairness
=============================================================================
