------------------------ MODULE FileServiceInvariant ------------------------
(***************************************************************************)
(* The inductive invariant behind the safety properties.  It is a          *)
(* conjunction of layers, each inductive with those before it: the jobs,   *)
(* the removal of directories, what is on disk, what becomes of a row, and *)
(* what readers hold.                                                      *)
(***************************************************************************)
EXTENDS FileServiceProperties

Busy == WorkerPC \ {"get", "exited"}

(* Where a worker's conversion is registered in conversions *)
Registered == {"lookup", "marking", "prepare", "render", "publish", "end"}

(* Where a cleaner knows its file to be deleted, where it no longer has to
   wait for a conversion, and where it no longer has to wait for a lease *)
Dooming == {"convwait", "await", "leasewait", "remove", "erase"}
PastConversion == {"leasewait", "remove", "erase"}
PastLease == {"remove", "erase"}

(* The row was deleted, logically or physically: nothing brings it back. *)
Dead(f) == status[f] # "absent" /\ ~Undeleted(f)

----------------------------------------------------------------------------

(* A goroutine has a file exactly where it works on one. *)
WorkersHaveJobs == \A w \in Workers : wjob[w] # None <=> wpc[w] \in Busy

CleanersHaveFiles ==
    \A c \in Cleaners : cpc[c] \in Owning \cup {"claim"} => cfile[c] \in Files

ReadersHaveFiles == \A r \in Readers : rpc[r] # "idle" => rfile[r] \in Files

FilesInHand == WorkersHaveJobs /\ CleanersHaveFiles /\ ReadersHaveFiles

(* A cleaner that ends its deletion knows what to answer. *)
AnswerKnown == \A c \in Cleaners : cpc[c] = "release" => outcome[c] \in Answers

(* Workers run only from Run to the end of the process. *)
Idle == phase \in {"down", "reconciling"}
NoWorkerYet == Idle => \A w \in Workers : wpc[w] = "exited"

(* A file whose Create has not stored it yet has no row and no job, and a
   process that has not started its workers has no jobs at all. *)
BeforeStart ==
    /\ \A f \in Files : creator[f] \in {"idle", "staged"} =>
        status[f] = "absent" /\ ~HasJob(f)
    /\ Idle => \A f \in Files : ~HasJob(f) /\ creator[f] # "staged"

(* An active conversion is the one registered for its file. *)
ConversionIsRegistered ==
    \A w \in Workers : wpc[w] \in Registered => conversions[wjob[w]] = w

(* A cleaner that owns a deletion holds the file's marker. *)
OwnerHasMarker ==
    \A c \in Cleaners : cpc[c] \in Owning => deleting[cfile[c]] = c

(* Past the marking of its row, a cleaner's file is dead; so is a file the
   janitor's copy shows marked. *)
DoomedIsDead ==
    /\ \A c \in Cleaners : cpc[c] \in Dooming => Dead(cfile[c])
    /\ \A f \in Files : sweep[f] = "marked" => Dead(f)

(* A cleaner awaits the one worker that can still write to its directory, and
   past waitForConversion there is none. *)
WaitsForWriter ==
    \A c \in Cleaners, w \in Workers :
        wjob[w] = cfile[c] /\ wpc[w] \in Converting =>
            /\ cpc[c] = "await" => awaited[c] = w
            /\ cpc[c] \notin PastConversion

(* Past waitForLease nobody has a lease. *)
NoLeaseLeft ==
    \A c \in Cleaners : cpc[c] \in PastLease => leases[cfile[c]] = {}

(* No two goroutines convert a file, and nobody uses a directory that is
   removed: these need each other, since the second relies on a file's only
   conversion being the registered one. *)
JobsInv == FilesInHand /\ AnswerKnown /\ NoWorkerYet /\ BeforeStart /\ SingleFlight

RemovalInv ==
    /\ ConversionIsRegistered
    /\ OwnerHasMarker
    /\ DoomedIsDead
    /\ WaitsForWriter
    /\ NoLeaseLeft

----------------------------------------------------------------------------
(* What is on disk *)

(* The janitor runs only from Run to the end of the process. *)
NoCleanerYet ==
    Idle => /\ cpc[Janitor] = "exited"
            /\ \A c \in Cleaners : cpc[c] \notin Owning \cup {"claim"}

(* A row starts with no mark and no expiry, in a directory with its source. *)
FreshRow == \A f \in Files : status[f] = "absent" => ~marked[f] /\ ~expired[f]

StagedHasSource ==
    \A f \in Files : creator[f] = "staged" => disk[f] = {"source"}

(* A worker writes artifacts only while the row says "processing", deleted or
   not, and publishes a complete directory. *)
WriterProcessing ==
    \A w \in Workers :
        /\ wpc[w] \in Converting => status[wjob[w]] = "processing"
        /\ wpc[w] = "publish" /\ Undeleted(wjob[w]) =>
               status[wjob[w]] = "processing" /\ disk[wjob[w]] = Content

(* A row is erased after its directory, and nothing creates that again. *)
ErasingIsEmpty == \A c \in Cleaners : cpc[c] = "erase" => disk[cfile[c]] = {}

RemovedIsEmpty == \A f \in Files : status[f] = "removed" => disk[f] = {}

(* Where a cleaner has the answer "deleted", given or about to be *)
Erased(c) == cpc[c] = "deleted" \/ (cpc[c] = "release" /\ outcome[c] = "deleted")

ErasedIsRemoved ==
    \A c \in Cleaners : Erased(c) =>
        cfile[c] \in Files /\ status[cfile[c]] = "removed"

DiskInv ==
    /\ NoCleanerYet
    /\ MarkerIsOwned
    /\ FreshRow
    /\ StagedHasSource
    /\ WriterProcessing
    /\ ErasingIsEmpty
    /\ RemovedIsEmpty
    /\ ErasedIsRemoved
    /\ RowsMatchDisk
    /\ NoOrphanDirectory

----------------------------------------------------------------------------
(* What becomes of a row *)

(* Where a worker has settled its file, or found nothing to settle *)
Settled(w) == wpc[w] \in {"end", "handle"} /\ werr[w] = "none"

(* Some job has yet to settle the file. *)
Unsettled(f) ==
    \/ Queued(f) \/ f \in timers \/ f \in pending \/ creator[f] = "stored"
    \/ \E w \in Workers : wjob[w] = f /\ ~Settled(w)

(* A job exists for a row that is not settled yet, and a worker that reports
   success has settled it: a processed file is not converted again. *)
JobIsPending ==
    \A f \in Files :
        Undeleted(f) /\ Unsettled(f) => status[f] \in {"uploaded", "processing"}

SettledIsFinal ==
    \A w \in Workers : Settled(w) /\ Undeleted(wjob[w]) =>
        status[wjob[w]] \in {"processed", "failed"}

(* main.run leaves "up" for Shutdown only after a signal. *)
StopsOnSignal == phase \in {"draining", "stopping"} => halted

(* A statement that fails can strand a file (run lost_retry), and nothing else. *)
StrandedByFault == faults = 0 => NoStrandedFile

RowInv ==
    /\ JobIsPending
    /\ SettledIsFinal
    /\ StopsOnSignal
    /\ RetryStateReclaimed
    /\ StrandedByFault

----------------------------------------------------------------------------
(* What readers hold *)

(* A reader named a file that was stored; a Resolve past its poll saw it
   processed, and it stays so until the row is erased. *)
ReaderHasRow == \A r \in Readers : rpc[r] # "idle" => status[rfile[r]] # "absent"

ResolvedIsProcessed ==
    \A r \in ManifestReaders : rpc[r] \in {"acquire", "read", "using"} =>
        status[rfile[r]] \in {"processed", "removed"}

LeaseIsCounted ==
    \A r \in Readers : rpc[r] \in {"read", "using"} => r \in leases[rfile[r]]

(* Unless a removal can fail half way, a manifest is in a complete directory,
   and who has the manifest has it all. *)
ManifestIsLast ==
    ~DiskMayFail => \A f \in Files : "manifest" \in disk[f] => disk[f] = Content

ServedWhole == ~DiskMayFail => ServedWhileUsing

ReaderInv ==
    /\ ReaderHasRow
    /\ ResolvedIsProcessed
    /\ LeaseIsCounted
    /\ MissingOnlyWhenDeleted
    /\ ManifestIsLast
    /\ ServedWhole

IInv == TypeOK /\ JobsInv /\ RemovalInv /\ DiskInv /\ RowInv /\ ReaderInv
=============================================================================
