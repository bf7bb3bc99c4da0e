------------------------- MODULE FileServiceStorage -------------------------
(***************************************************************************)
(* What is on disk, in module FileService, for any number of files,        *)
(* workers, requests, retries, faults and restarts: MarkerIsOwned,         *)
(* RowsMatchDisk, DeletedMeansGone and NoOrphanDirectory.                  *)
(***************************************************************************)
EXTENDS FileServiceProofs

----------------------------------------------------------------------------
(* Who changes what.  Each lemma names the actions that can change a variable
   at one file or one goroutine, and what they make of it; the invariants are
   then argued for one file or goroutine at a time. *)

(* The statements that write a row: Add, UpdateStatus, MarkDeleted and Delete, and
   the expiry that passes. *)
LEMMA StoreUndisturbed ==
    Next => \/ UNCHANGED storeVars
            \/ \E f \in Files : AddRecord(f) \/ Expire(f)
            \/ \E w \in Workers : MarkProcessing(w) \/ Publish(w) \/ FailJob(w)
            \/ \E c \in Cleaners : MarkFile(c) \/ EraseRow(c)
<1>1. ASSUME NEW w \in Workers, WorkerStep(w)
      PROVE  UNCHANGED storeVars \/ MarkProcessing(w) \/ Publish(w) \/ FailJob(w)
  BY <1>1 DEF WorkerStep, GetJob, QuitWorker, BeginConversion, LookUpJob,
       PrepareOutput, Render, EndConversion, Succeed, RetryJob, DropJob
<1>2. ASSUME NEW c \in Cleaners, DeletionStep(c)
      PROVE  UNCHANGED storeVars \/ MarkFile(c) \/ EraseRow(c)
  BY <1>2 DEF DeletionStep, BeginDeletion, WaitForConversion, ConversionDone,
       WaitForLease, RemoveDirectory, EndDeletion
<1>3. ASSUME NEW f \in Files,
             \/ StageUpload(f) \/ CreateStep(f) \/ FireTimer(f)
             \/ RemoveOrphan(f) \/ EnqueuePending(f)
      PROVE  UNCHANGED storeVars \/ AddRecord(f)
  BY <1>3 DEF StageUpload, CreateStep, RejectUpload, EnqueueUpload, FireTimer,
       RemoveOrphan, EnqueuePending
<1>4. CASE JanitorStep \/ \E d \in Deleters, f \in Files : StartDelete(d, f)
  BY <1>4 DEF JanitorStep, StartSweep, EndSweep, QuitJanitor, NextExpired,
       StartDelete
<1>5. CASE \/ \E r \in Readers, f \in Files : StartRead(r, f)
           \/ \E r \in Readers : ReaderStep(r) \/ GiveUp(r)
  BY <1>5 DEF StartRead, ReaderStep, PollAgain, AcquireLease, ReadArtifact,
       ReleaseLease, GiveUp
<1>6. CASE \/ Boot \/ Serve \/ Shutdown \/ Stop \/ Signal \/ FailServing
           \/ Run \/ LoseMemory
  BY <1>6 DEF Boot, Serve, Shutdown, Stop, Signal, FailServing, Advance, Run,
       LoseMemory
<1> QED
  BY <1>1, <1>2, <1>3, <1>4, <1>5, <1>6 DEF Next, MainStep, Exit, Crash

(* A row is inserted, settled by the worker that has its job, or erased. *)
LEMMA StatusChanges ==
    ASSUME Typed, Next, NEW f \in Files, status'[f] # status[f]
    PROVE  \/ AddRecord(f) /\ status'[f] = "uploaded"
           \/ \E w \in Workers :
                /\ wjob[w] = f /\ Undeleted(f)
                /\ \/ MarkProcessing(w) /\ wpc'[w] = "prepare"
                        /\ status'[f] = "processing"
                   \/ Publish(w) /\ wpc'[w] = "end" /\ werr'[w] = "none"
                        /\ status'[f] = "processed"
                   \/ FailJob(w) /\ status'[f] = "failed"
           \/ \E c \in Cleaners : cfile[c] = f /\ EraseRow(c) /\ HasRow(f)
                /\ status'[f] = "removed"
<1>0. /\ status \in [Files -> RowStatus \cup {"absent", "removed"}]
      /\ wpc \in [Workers -> WorkerPC]
      /\ werr \in [Workers -> {"none", "retryable", "permanent"}]
  BY DEF Typed, StorePart, StoreTypeOK, WorkerPart, WorkerTypeOK
<1>1. ASSUME NEW g \in Files, AddRecord(g) PROVE g = f /\ status'[f] = "uploaded"
  BY <1>0, <1>1 DEF AddRecord, Insert
<1>2. ASSUME NEW g \in Files, Expire(g) PROVE FALSE
  BY <1>0, <1>2 DEF Expire, PassExpiry
<1>3. ASSUME NEW g, NEW s, UpdateStatus(g, s)
      PROVE  g = f /\ Undeleted(f) /\ status'[f] = s
  BY <1>0, <1>3 DEF UpdateStatus, Updatable
<1>4. ASSUME NEW w \in Workers, MarkProcessing(w)
      PROVE  /\ wjob[w] = f /\ Undeleted(f) /\ wpc'[w] = "prepare"
             /\ status'[f] = "processing"
  <2>1. UpdateStatus(wjob[w], "processing")
    BY <1>4 DEF MarkProcessing, storeVars
  <2>2. wjob[w] = f /\ Undeleted(f) /\ status'[f] = "processing"
    BY <1>3, <2>1
  <2>3. wpc'[w] = "prepare"
    BY <1>0, <1>4, <2>2 DEF MarkProcessing, Updatable, storeVars
  <2> QED
    BY <2>2, <2>3
<1>5. ASSUME NEW w \in Workers, Publish(w)
      PROVE  /\ wjob[w] = f /\ Undeleted(f) /\ wpc'[w] = "end" /\ werr'[w] = "none"
             /\ status'[f] = "processed"
  <2>1. UpdateStatus(wjob[w], "processed") /\ ConvertReturns(w, "none")
    BY <1>5 DEF Publish, storeVars
  <2> QED
    BY <1>0, <1>3, <2>1 DEF ConvertReturns
<1>6. ASSUME NEW w \in Workers, FailJob(w)
      PROVE  wjob[w] = f /\ Undeleted(f) /\ status'[f] = "failed"
  <2>1. UpdateStatus(wjob[w], "failed")
    BY <1>6 DEF FailJob, storeVars
  <2> QED
    BY <1>3, <2>1
<1>7. ASSUME NEW c \in Cleaners, MarkFile(c) PROVE FALSE
  BY <1>7 DEF MarkFile, MarkDeleted, storeVars
<1>8. ASSUME NEW c \in Cleaners, EraseRow(c)
      PROVE  cfile[c] = f /\ HasRow(f) /\ status'[f] = "removed"
  BY <1>0, <1>8 DEF EraseRow, DeleteRow, storeVars
<1> QED
  BY <1>1, <1>2, <1>4, <1>5, <1>6, <1>7, <1>8, StoreUndisturbed DEF storeVars

(* A row is marked by a deletion, and expires once. *)
LEMMA MarkChanges ==
    ASSUME Typed, Next, NEW f \in Files
    PROVE  /\ marked'[f] # marked[f] =>
                /\ Undeleted(f) /\ marked'[f]
                /\ \E c \in Cleaners : cfile[c] = f /\ MarkFile(c)
           /\ expired'[f] # expired[f] => Expire(f) /\ HasRow(f) /\ expired'[f]
<1>0. marked \in [Files -> BOOLEAN] /\ expired \in [Files -> BOOLEAN]
  BY DEF Typed, StorePart, StoreTypeOK
<1>1. ASSUME NEW g \in Files, AddRecord(g) PROVE UNCHANGED <<marked, expired>>
  BY <1>1 DEF AddRecord, Insert
<1>2. ASSUME NEW w \in Workers, MarkProcessing(w) \/ Publish(w) \/ FailJob(w)
      PROVE  UNCHANGED <<marked, expired>>
  BY <1>2 DEF MarkProcessing, Publish, FailJob, UpdateStatus, storeVars
<1>3. ASSUME NEW c \in Cleaners, EraseRow(c) PROVE UNCHANGED <<marked, expired>>
  BY <1>3 DEF EraseRow, DeleteRow, storeVars
<1>4. ASSUME NEW g \in Files, Expire(g)
      PROVE  /\ UNCHANGED marked
             /\ expired'[f] # expired[f] => g = f /\ HasRow(f) /\ expired'[f]
  BY <1>0, <1>4 DEF Expire, PassExpiry
<1>5. ASSUME NEW c \in Cleaners, MarkFile(c)
      PROVE  /\ UNCHANGED expired
             /\ marked'[f] # marked[f] => cfile[c] = f /\ Undeleted(f) /\ marked'[f]
  BY <1>0, <1>5 DEF MarkFile, MarkDeleted, storeVars
<1> QED
  BY <1>1, <1>2, <1>3, <1>4, <1>5, StoreUndisturbed DEF storeVars

(* Only Create, a conversion, a deletion and ReconcileStorage touch the disk. *)
LEMMA DiskUndisturbed ==
    Next => \/ UNCHANGED disk
            \/ \E f \in Files : StageUpload(f) \/ RejectUpload(f) \/ RemoveOrphan(f)
            \/ \E w \in Workers : PrepareOutput(w) \/ Render(w)
            \/ \E c \in Cleaners : RemoveDirectory(c)
<1>1. ASSUME NEW w \in Workers, WorkerStep(w)
      PROVE  UNCHANGED disk \/ PrepareOutput(w) \/ Render(w)
  BY <1>1 DEF WorkerStep, GetJob, QuitWorker, BeginConversion, LookUpJob,
       MarkProcessing, Publish, EndConversion, Succeed, FailJob, RetryJob, DropJob
<1>2. ASSUME NEW c \in Cleaners, DeletionStep(c)
      PROVE  UNCHANGED disk \/ RemoveDirectory(c)
  BY <1>2 DEF DeletionStep, BeginDeletion, MarkFile, WaitForConversion,
       ConversionDone, WaitForLease, EraseRow, EndDeletion
<1>3. ASSUME NEW f \in Files,
             \/ StageUpload(f) \/ CreateStep(f) \/ FireTimer(f) \/ Expire(f)
             \/ RemoveOrphan(f) \/ EnqueuePending(f)
      PROVE  UNCHANGED disk \/ StageUpload(f) \/ RejectUpload(f) \/ RemoveOrphan(f)
  BY <1>3 DEF CreateStep, AddRecord, EnqueueUpload, FireTimer, Expire,
       EnqueuePending
<1>4. CASE JanitorStep \/ \E d \in Deleters, f \in Files : StartDelete(d, f)
  BY <1>4 DEF JanitorStep, StartSweep, EndSweep, QuitJanitor, NextExpired,
       StartDelete
<1>5. CASE \/ \E r \in Readers, f \in Files : StartRead(r, f)
           \/ \E r \in Readers : ReaderStep(r) \/ GiveUp(r)
  BY <1>5 DEF StartRead, ReaderStep, PollAgain, AcquireLease, ReadArtifact,
       ReleaseLease, GiveUp
<1>6. CASE \/ Boot \/ Serve \/ Shutdown \/ Stop \/ Signal \/ FailServing
           \/ Run \/ LoseMemory
  BY <1>6 DEF Boot, Serve, Shutdown, Stop, Signal, FailServing, Advance, Run,
       LoseMemory
<1> QED
  BY <1>1, <1>2, <1>3, <1>4, <1>5, <1>6 DEF Next, MainStep, Exit, Crash

(* What a worker's step makes of a directory: the source stays, and only a
   converter that ends well leaves the manifest. *)
LEMMA WriterLeaves ==
    ASSUME Typed, NEW w \in Workers, PrepareOutput(w) \/ Render(w)
    PROVE  /\ wpc[w] \in Converting /\ wjob[w] \in Files
           /\ \A f \in Files \ {wjob[w]} : disk'[f] = disk[f]
           /\ "source" \in disk'[wjob[w]] <=> "source" \in disk[wjob[w]]
           /\ wpc'[w] = "publish" => disk'[wjob[w]] = Content
<1>0. /\ disk \in [Files -> SUBSET Content]
      /\ wpc \in [Workers -> WorkerPC]
      /\ wpc[w] \in Converting
      /\ wjob[w] \in Files
  BY DEF Typed, DirectoryPart, DirectoryTypeOK, WorkerPart, WorkerTypeOK,
         WorkersHaveJobs, Busy, WorkerPC, Converting, PrepareOutput, Render
<1>a. Artifacts \cup {"source"} = Content /\ "source" \notin Artifacts
  BY DEF Artifacts, Content
<1>1. ASSUME NEW found \in SUBSET Artifacts, PartlyRemoved(w, found)
      PROVE  /\ \A f \in Files \ {wjob[w]} : disk'[f] = disk[f]
             /\ "source" \in disk'[wjob[w]] <=> "source" \in disk[wjob[w]]
  BY <1>0, <1>1, <1>a DEF PartlyRemoved
<1>2. CASE PrepareOutput(w)
  <2>1. wpc'[w] # "publish"
    BY <1>0, <1>2 DEF PrepareOutput, ConvertReturns
  <2>2. \/ PartlyRemoved(w, disk[wjob[w]] \cap Artifacts)
        \/ disk' = disk
        \/ disk' = [disk EXCEPT ![wjob[w]] = (@ \ {"manifest"}) \cup {"derived"}]
    BY <1>2 DEF PrepareOutput
  <2> QED
    BY <1>0, <1>1, <2>1, <2>2
<1>3. CASE Render(w)
  <2>1. \/ /\ "source" \in disk[wjob[w]]
           /\ disk' = [disk EXCEPT ![wjob[w]] = @ \cup Artifacts]
        \/ wpc'[w] # "publish" /\ disk' = [disk EXCEPT ![wjob[w]] = @ \ Artifacts]
        \/ wpc'[w] # "publish" /\ PartlyRemoved(w, Artifacts)
    BY <1>0, <1>3 DEF Render, ConvertReturns
  <2> QED
    BY <1>0, <1>1, <1>a, <2>1
<1> QED
  BY <1>0, <1>2, <1>3

(* What they make of one file's directory. *)
LEMMA DiskChanges ==
    ASSUME Typed, Next, NEW f \in Files, disk'[f] # disk[f]
    PROVE  \/ StageUpload(f) /\ disk'[f] = {"source"}
           \/ RejectUpload(f) /\ disk'[f] = {} /\ creator'[f] = "rejected"
           \/ RemoveOrphan(f) /\ disk'[f] = {}
           \/ \E w \in Workers :
                /\ wjob[w] = f /\ wpc[w] \in Converting
                /\ PrepareOutput(w) \/ Render(w)
           \/ \E c \in Cleaners :
                /\ cfile[c] = f /\ RemoveDirectory(c)
                /\ disk'[f] \subseteq disk[f]
<1>0. /\ disk \in [Files -> SUBSET Content]
      /\ creator \in [Files -> CreatorPC]
  BY DEF Typed, DirectoryPart, DirectoryTypeOK
<1>1. ASSUME NEW g \in Files, StageUpload(g) PROVE g = f /\ disk'[f] = {"source"}
  BY <1>0, <1>1 DEF StageUpload
<1>2. ASSUME NEW g \in Files, RejectUpload(g)
      PROVE  g = f /\ disk'[f] = {} /\ creator'[f] = "rejected"
  BY <1>0, <1>2 DEF RejectUpload
<1>3. ASSUME NEW g \in Files, RemoveOrphan(g) PROVE g = f /\ disk'[f] = {}
  BY <1>0, <1>3 DEF RemoveOrphan
<1>4. ASSUME NEW w \in Workers, PrepareOutput(w) \/ Render(w)
      PROVE  wjob[w] = f /\ wpc[w] \in Converting
  BY <1>4, WriterLeaves
<1>5. ASSUME NEW c \in Cleaners, RemoveDirectory(c)
      PROVE  cfile[c] = f /\ disk'[f] \subseteq disk[f]
  BY <1>0, <1>5 DEF RemoveDirectory
<1> QED
  BY <1>1, <1>2, <1>3, <1>4, <1>5, DiskUndisturbed

(* How Create gets on with one file (service.go:243-325). *)
LEMMA CreatorChanges ==
    ASSUME Typed, Next, NEW f \in Files, creator'[f] # creator[f]
    PROVE  \/ StageUpload(f) /\ creator'[f] = "staged"
           \/ RejectUpload(f) /\ creator'[f] \in {"rejected", "leaked"}
           \/ AddRecord(f) /\ creator'[f] = "stored"
           \/ EnqueueUpload(f) /\ creator'[f] = "done"
           \/ LoseMemory /\ creator'[f] = "lost"
<1>0. creator \in [Files -> CreatorPC]
  BY DEF Typed, DirectoryPart, DirectoryTypeOK
<1>1. CASE CleanerMoves
  BY <1>1 DEF CleanerMoves, StartDelete, DeletionStep, BeginDeletion, MarkFile,
       WaitForConversion, ConversionDone, WaitForLease, RemoveDirectory, EraseRow,
       EndDeletion, JanitorStep, StartSweep, EndSweep, QuitJanitor, NextExpired
<1>2. ASSUME NEW w \in Workers, WorkerStep(w) PROVE FALSE
  BY <1>2 DEF WorkerStep, GetJob, QuitWorker, BeginConversion, LookUpJob,
       MarkProcessing, PrepareOutput, Render, Publish, EndConversion, Succeed,
       FailJob, RetryJob, DropJob
<1>3. ASSUME NEW g \in Files,
             StageUpload(g) \/ RejectUpload(g) \/ AddRecord(g) \/ EnqueueUpload(g)
      PROVE  g = f
  BY <1>0, <1>3 DEF StageUpload, RejectUpload, AddRecord, EnqueueUpload
<1>4. /\ StageUpload(f) => creator'[f] = "staged"
      /\ RejectUpload(f) => creator'[f] \in {"rejected", "leaked"}
      /\ AddRecord(f) => creator'[f] = "stored"
      /\ EnqueueUpload(f) => creator'[f] = "done"
      /\ LoseMemory => creator'[f] = "lost"
  BY <1>0 DEF StageUpload, RejectUpload, AddRecord, EnqueueUpload, LoseMemory
<1>5. ASSUME NEW g \in Files,
             FireTimer(g) \/ Expire(g) \/ RemoveOrphan(g) \/ EnqueuePending(g)
      PROVE  FALSE
  BY <1>5 DEF FireTimer, Expire, RemoveOrphan, EnqueuePending
<1>6. CASE \/ \E r \in Readers, g \in Files : StartRead(r, g)
           \/ \E r \in Readers : ReaderStep(r) \/ GiveUp(r)
           \/ Boot \/ Serve \/ Shutdown \/ Stop \/ Signal \/ FailServing \/ Run
  BY <1>6 DEF StartRead, ReaderStep, PollAgain, AcquireLease, ReadArtifact,
       ReleaseLease, GiveUp, Boot, Serve, Shutdown, Stop, Signal, FailServing,
       Advance, Run
<1> QED
  BY <1>1, <1>2, <1>3, <1>4, <1>5, <1>6, NextSplits
     DEF OtherThanCleaners, CreateStep

(* A worker moves by its own steps, and starts and ends with the process. *)
LEMMA WorkerChanges ==
    ASSUME Typed, Next, NEW w \in Workers,
           <<wpc'[w], wjob'[w], werr'[w]>> # <<wpc[w], wjob[w], werr[w]>>
    PROVE  \/ WorkerStep(w)
           \/ (Run \/ LoseMemory) /\ wpc'[w] \in {"get", "exited"}
<1>0. /\ wpc \in [Workers -> WorkerPC]
      /\ wjob \in [Workers -> Files \cup {None}]
      /\ werr \in [Workers -> {"none", "retryable", "permanent"}]
  BY DEF Typed, WorkerPart, WorkerTypeOK
<1>1. ASSUME NEW v \in Workers \ {w}, WorkerStep(v) PROVE FALSE
  BY <1>0, <1>1
     DEF WorkerStep, GetJob, QuitWorker, BeginConversion, LookUpJob,
         MarkProcessing, PrepareOutput, Render, Publish, EndConversion, Succeed,
         FailJob, RetryJob, DropJob, NextJob, ConvertReturns
<1>2. CASE OtherThanWorkers
  <2>1. UNCHANGED werr
    BY <1>2 DEF OtherThanWorkers, StageUpload, CreateStep, RejectUpload, AddRecord,
         EnqueueUpload, FireTimer, Expire, StartDelete, DeletionStep,
         BeginDeletion, MarkFile, WaitForConversion, ConversionDone,
         WaitForLease, RemoveDirectory, EraseRow, EndDeletion, JanitorStep,
         StartSweep, EndSweep, QuitJanitor, NextExpired, StartRead, ReaderStep,
         PollAgain, AcquireLease, ReadArtifact, ReleaseLease, GiveUp, Boot,
         Serve, Shutdown, Stop, Signal, FailServing, Advance, RemoveOrphan,
         EnqueuePending, workerVars
  <2> QED
    BY <1>2, <2>1, WorkersUndisturbed
<1>3. Run \/ LoseMemory => wpc'[w] \in {"get", "exited"}
  BY DEF Run, LoseMemory
<1>4. (\E v \in Workers : WorkerStep(v)) => WorkerStep(w)
  BY <1>1
<1> QED
  BY <1>2, <1>3, <1>4, NextSplits

(* A cleaner moves by its own steps, and the janitor starts with the process. *)
LEMMA CleanerChanges ==
    ASSUME Typed, Next, NEW c \in Cleaners,
           <<cpc'[c], cfile'[c], outcome'[c]>> # <<cpc[c], cfile[c], outcome[c]>>
    PROVE  \/ DeletionStep(c)
           \/ \E f \in Files : c \in Deleters /\ StartDelete(c, f)
           \/ c = Janitor /\ (JanitorStep \/ Run)
           \/ LoseMemory
<1>0. /\ cpc \in [Cleaners -> CleanerPC]
      /\ cfile \in [Cleaners -> Files \cup {None}]
      /\ outcome \in [Cleaners -> Answers \cup {"none"}]
      /\ Janitor \in Cleaners /\ Deleters \subseteq Cleaners
  BY DEF Typed, CleanerPart, CleanerTypeOK, Cleaners
<1>1. ASSUME NEW d \in Cleaners \ {c}, DeletionStep(d) PROVE FALSE
  BY <1>0, <1>1
     DEF DeletionStep, BeginDeletion, MarkFile, WaitForConversion, ConversionDone,
         WaitForLease, RemoveDirectory, EraseRow, EndDeletion, MoveCleaner,
         Conclude, LeaveFile
<1>2. ASSUME NEW d \in Deleters \ {c}, NEW f \in Files, StartDelete(d, f)
      PROVE  FALSE
  BY <1>0, <1>2 DEF StartDelete
<1>3. ASSUME JanitorStep \/ Run, c # Janitor PROVE FALSE
  BY <1>0, <1>3 DEF JanitorStep, StartSweep, EndSweep, QuitJanitor, NextExpired, Run
<1> QED
  BY <1>1, <1>2, <1>3, NextSplits, CleanersUndisturbed DEF CleanerMoves

(* A process runs from Run to its end, and stops after a signal only. *)
LEMMA PhaseChanges ==
    ASSUME Typed, Next
    PROVE  /\ Idle /\ ~Idle' => Run
           /\ ~Idle /\ Idle' => LoseMemory
           /\ phase' \in {"starting", "up"} /\ phase \notin {"starting", "up"} => Run
           /\ halted /\ ~halted' => LoseMemory
           /\ phase' \in {"draining", "stopping"} =>
                halted' \/ phase \in {"draining", "stopping"}
<1>1. CASE Boot \/ Serve \/ Shutdown \/ Stop \/ Signal \/ FailServing
  BY <1>1 DEF Boot, Serve, Shutdown, Stop, Signal, FailServing, Advance, Idle
<1>2. CASE Run \/ LoseMemory
  BY <1>2 DEF Run, LoseMemory, Idle
<1>3. CASE ~(Boot \/ Serve \/ Shutdown \/ Stop \/ Signal \/ FailServing
             \/ Run \/ LoseMemory)
  <2>1. UNCHANGED <<phase, halted>>
    BY <1>3 DEF Next, MainStep, Exit, Crash, WorkerStep, GetJob, QuitWorker, BeginConversion,
         LookUpJob, MarkProcessing, PrepareOutput, Render, Publish, EndConversion,
         Succeed, FailJob, RetryJob, DropJob, StageUpload, CreateStep, RejectUpload,
         AddRecord, EnqueueUpload, FireTimer, Expire, StartDelete, DeletionStep,
         BeginDeletion, MarkFile, WaitForConversion, ConversionDone,
         WaitForLease, RemoveDirectory, EraseRow, EndDeletion, JanitorStep,
         StartSweep, EndSweep, QuitJanitor, NextExpired, StartRead, ReaderStep,
         PollAgain, AcquireLease, ReadArtifact, ReleaseLease, GiveUp,
         RemoveOrphan, EnqueuePending, mainVars
  <2> QED
    BY <2>1 DEF Idle
<1> QED
  BY <1>1, <1>2, <1>3

----------------------------------------------------------------------------
(* Consequences for one file *)

(* A row the service may still use is inserted, never brought back. *)
LEMMA RowBorn ==
    ASSUME Known, Next, NEW f \in Files, ~Undeleted(f), Undeleted(f)'
    PROVE  AddRecord(f) /\ status'[f] = "uploaded" /\ creator[f] = "staged"
<1>1. status[f] = "absent" /\ status'[f] # "absent"
  BY DeadStays DEF Known, JobCore, Dead, Undeleted, HasRow, RowStatus
<1>2. AddRecord(f) /\ status'[f] = "uploaded"
  BY <1>1, StatusChanges DEF Known, HasRow, RowStatus
<1> QED
  BY <1>2 DEF AddRecord

(* A row that was erased stays so. *)
LEMMA RemovedStays ==
    ASSUME Known, Next, NEW f \in Files, status[f] = "removed"
    PROVE  status'[f] = "removed"
<1>1. ~AddRecord(f) /\ ~HasRow(f) /\ ~Undeleted(f)
  BY DEF Known, JobCore, BeforeStart, AddRecord, HasRow, Undeleted, RowStatus
<1> QED
  BY <1>1, StatusChanges DEF Known

(* Whoever holds a file's job is the only one to change its row, until a cleaner
   erases it. *)
LEMMA HeldRow ==
    ASSUME Known, Next, NEW w \in Workers, NEW f \in Files, wjob[w] = f,
           ~(MarkProcessing(w) \/ Publish(w) \/ FailJob(w))
    PROVE  \/ status'[f] = status[f]
           \/ /\ status'[f] = "removed"
              /\ \E c \in Cleaners : cfile[c] = f /\ EraseRow(c)
<1>1. ~AddRecord(f)
  BY DEF Known, JobCore, BeforeStart, AddRecord, HasJob, Held
<1>2. \A v \in Workers : wjob[v] = f => v = w
  BY ProcessAssumption DEF Known, JobCore, SingleFlight
<1> QED
  BY <1>1, <1>2, StatusChanges DEF Known

(* Nor does anybody else write to its directory, until a cleaner removes it. *)
LEMMA HeldDirectory ==
    ASSUME Known, Next, NEW w \in Workers, NEW f \in Files, wjob[w] = f,
           ~(PrepareOutput(w) \/ Render(w))
    PROVE  \/ disk'[f] = disk[f]
           \/ \E c \in Cleaners : cfile[c] = f /\ RemoveDirectory(c)
<1>1. ~StageUpload(f) /\ ~RejectUpload(f) /\ ~RemoveOrphan(f)
  BY DEF Known, JobCore, BeforeStart, HasJob, Held, Idle, StageUpload,
         RejectUpload, RemoveOrphan
<1>2. \A v \in Workers : wjob[v] = f => v = w
  BY ProcessAssumption DEF Known, JobCore, SingleFlight
<1> QED
  BY <1>1, <1>2, DiskChanges DEF Known

(* A directory that a cleaner removes, and a row that it erases, are those of a
   deleted file, and no worker writes there. *)
LEMMA CleanerActs ==
    ASSUME Known, NEW c \in Cleaners, RemoveDirectory(c) \/ EraseRow(c)
    PROVE  /\ cfile[c] \in Files /\ Dead(cfile[c])
           /\ leases[cfile[c]] = {}
           /\ \A w \in Workers : wjob[w] = cfile[c] => wpc[w] \notin Converting
<1>1. cpc[c] \in {"remove", "erase"}
  BY DEF RemoveDirectory, EraseRow
<1>2. cfile[c] \in Files
  BY <1>1 DEF Known, Typed, CleanerPart, CleanersHaveFiles, Owning
<1>3. Dead(cfile[c])
  BY <1>1 DEF Known, RemovalInv, DoomedIsDead, Dooming
<1>4. leases[cfile[c]] = {}
  BY <1>1 DEF Known, RemovalInv, NoLeaseLeft, PastLease
<1>5. \A w \in Workers : wjob[w] = cfile[c] => wpc[w] \notin Converting
  BY <1>1 DEF Known, RemovalInv, WaitsForWriter, PastConversion
<1> QED
  BY <1>2, <1>3, <1>4, <1>5

----------------------------------------------------------------------------
(* DiskInv, part by part *)

Stored == Known /\ DiskInv

(* On no path does a deletion that ends leave its marker (service.go:328-360,
   785-825); and nothing but its owner's endDeletion takes it away. *)
LEMMA MarkersKept ==
    ASSUME Stored, Next PROVE MarkerIsOwned'
<1> USE DEF Stored, Known, DiskInv, MarkerIsOwned
<1>0. /\ cpc \in [Cleaners -> CleanerPC]
      /\ cfile \in [Cleaners -> Files \cup {None}]
      /\ deleting \in [Files -> Cleaners \cup {None}]
      /\ \A c \in Cleaners : cpc[c] \in Owning \cup {"claim"} => cfile[c] \in Files
      /\ \A c \in Cleaners : cpc[c] = "release" => outcome[c] \in Answers
      /\ Deleters \subseteq Cleaners /\ Janitor \in Cleaners
  BY DEF Typed, CleanerPart, CleanerTypeOK, CleanersHaveFiles, AnswerKnown,
         LockPart, LockTypeOK, Cleaners
<1>a. Owning \cap (Answers \cup {"idle", "next", "claim", "exited", "lost"}) = {}
  BY DEF Owning, Answers
<1>1. ASSUME NEW c \in Cleaners, BeginDeletion(c) PROVE MarkerIsOwned'
  <2>1. /\ cpc[c] = "claim" /\ cfile[c] \in Files
        /\ \A d \in Cleaners \ {c} : cpc'[d] = cpc[d] /\ cfile'[d] = cfile[d]
        /\ \A f \in Files : deleting[f] # c
    BY <1>0, <1>a, <1>1, ProcessAssumption DEF BeginDeletion, MoveCleaner, LeaveFile
  <2>2. \/ /\ deleting' = [deleting EXCEPT ![cfile[c]] = c]
           /\ cpc'[c] = "mark" /\ cfile'[c] = cfile[c]
        \/ UNCHANGED deleting
    BY <1>0, <1>1 DEF BeginDeletion, MoveCleaner
  <2> QED
    BY <1>0, <2>1, <2>2 DEF Owning
<1>2. ASSUME NEW c \in Cleaners, EndDeletion(c) PROVE MarkerIsOwned'
  <2>1. /\ deleting' = [deleting EXCEPT ![cfile[c]] = IF @ = c THEN None ELSE @]
        /\ cfile[c] \in Files
        /\ \A d \in Cleaners \ {c} : cpc'[d] = cpc[d] /\ cfile'[d] = cfile[d]
    BY <1>0, <1>2 DEF EndDeletion, EndsMarker, Unmark, LeaveFile, Owning
  <2> QED
    BY <1>0, <2>1
<1>3. ASSUME NEW c \in Cleaners,
             \/ MarkFile(c) \/ WaitForConversion(c) \/ ConversionDone(c)
             \/ WaitForLease(c) \/ RemoveDirectory(c) \/ EraseRow(c)
      PROVE  MarkerIsOwned'
  <2>1. /\ cpc'[c] \in Owning
        /\ \A d \in Cleaners \ {c} : cpc'[d] = cpc[d]
        /\ UNCHANGED <<cfile, deleting>>
    BY <1>0, <1>3
       DEF MarkFile, WaitForConversion, ConversionDone, WaitForLease,
           RemoveDirectory, EraseRow, MoveCleaner, Conclude, Owning, lockVars
  <2> QED
    BY <1>0, <2>1
<1>4. CASE \/ JanitorStep \/ \E d \in Deleters, f \in Files : StartDelete(d, f)
           \/ Run
  <2>1. PICK c \in Cleaners :
            /\ cpc[c] \notin Owning
            /\ \A d \in Cleaners \ {c} : cpc'[d] = cpc[d] /\ cfile'[d] = cfile[d]
    <3>1. CASE JanitorStep
      <4>1. cpc[Janitor] \notin Owning
        BY <3>1 DEF JanitorStep, StartSweep, EndSweep, QuitJanitor, NextExpired, Owning
      <4> QED
        BY <1>0, <3>1, <4>1
           DEF JanitorStep, StartSweep, EndSweep, QuitJanitor, NextExpired
    <3>2. ASSUME NEW d \in Deleters, NEW f \in Files, StartDelete(d, f)
          PROVE  /\ cpc[d] \notin Owning
                 /\ \A e \in Cleaners \ {d} : cpc'[e] = cpc[e] /\ cfile'[e] = cfile[e]
      BY <1>0, <3>2 DEF StartDelete, Owning
    <3>3. CASE Run
      BY <1>0, <1>a, <3>3 DEF Run, NoCleanerYet, Idle
    <3> QED
      BY <1>0, <1>4, <3>1, <3>2, <3>3
  <2>2. UNCHANGED deleting
    BY <1>4 DEF JanitorStep, StartSweep, EndSweep, QuitJanitor, NextExpired,
                StartDelete, Run, lockVars
  <2> QED
    BY <1>0, <2>1, <2>2
<1>5. CASE OtherThanCleaners
  BY <1>5, CleanersUndisturbed
<1>6. CASE LoseMemory
  BY <1>6 DEF LoseMemory
<1>7. CASE CleanerMoves
  BY <1>1, <1>2, <1>3, <1>4, <1>7 DEF CleanerMoves, DeletionStep
<1> QED
  BY <1>4, <1>5, <1>6, <1>7, NextSplits

(* No cleaner moves before Run. *)
LEMMA CleanersWait ==
    ASSUME Stored, Next PROVE NoCleanerYet'
<1> USE DEF Stored, Known, DiskInv, NoCleanerYet
<1>a. Owning \cap (Answers \cup {"idle", "claim", "exited", "lost"}) = {}
      /\ "claim" \notin Answers
  BY DEF Owning, Answers
<1>1. CASE ~Idle' \/ LoseMemory
  BY <1>1, <1>a DEF LoseMemory, Cleaners
<1>2. CASE Idle' /\ ~LoseMemory
  <2>1. Idle /\ ~Run
    BY <1>2, PhaseChanges DEF Run, Idle
  <2>2. ASSUME NEW c \in Cleaners PROVE cpc'[c] = cpc[c]
    <3>1. ~DeletionStep(c)
      BY <2>1 DEF DeletionStep, BeginDeletion, MarkFile, WaitForConversion,
           ConversionDone, WaitForLease, RemoveDirectory, EraseRow, EndDeletion,
           Owning
    <3>2. ~JanitorStep
      BY <2>1 DEF JanitorStep, StartSweep, EndSweep, QuitJanitor, NextExpired
    <3>3. \A f \in Files : ~StartDelete(c, f)
      BY <2>1 DEF StartDelete, Idle
    <3> QED
      BY <1>2, <2>1, <3>1, <3>2, <3>3, CleanerChanges
  <2> QED
    BY <2>1, <2>2 DEF Cleaners
<1> QED
  BY <1>1, <1>2

(* A row is inserted unmarked and unexpired (store.Add). *)
LEMMA FreshStays ==
    ASSUME Stored, Next PROVE FreshRow'
<1> SUFFICES ASSUME NEW f \in Files, status'[f] = "absent"
             PROVE  ~marked'[f] /\ ~expired'[f]
  BY DEF FreshRow
<1>1. status[f] = "absent"
  BY StatusChanges DEF Stored, Known
<1>2. ~HasRow(f) /\ ~Undeleted(f) /\ ~marked[f] /\ ~expired[f]
  BY <1>1 DEF Stored, DiskInv, FreshRow, HasRow, Undeleted, RowStatus
<1> QED
  BY <1>2, MarkChanges DEF Stored, Known

(* An upload's directory is nobody else's until its row is inserted. *)
LEMMA StagedStays ==
    ASSUME Stored, Next PROVE StagedHasSource'
<1> USE DEF Stored
<1> SUFFICES ASSUME NEW f \in Files, creator'[f] = "staged"
             PROVE  disk'[f] = {"source"}
  BY DEF StagedHasSource
<1>0. disk \in [Files -> SUBSET Content]
  BY DEF Known, Typed, DirectoryPart, DirectoryTypeOK
<1>1. CASE creator[f] = "staged"
  <2>1. /\ disk[f] = {"source"} /\ status[f] = "absent" /\ ~HasJob(f) /\ ~Idle
    BY <1>1 DEF DiskInv, StagedHasSource, Known, JobCore, BeforeStart
  <2>2. ~RemoveOrphan(f)
    BY <2>1 DEF RemoveOrphan, Idle
  <2>3. \A w \in Workers : wjob[w] # f
    BY <2>1 DEF HasJob, Held
  <2>4. \A c \in Cleaners : RemoveDirectory(c) => cfile[c] # f
    BY <2>1, CleanerActs DEF Dead
  <2>5. StageUpload(f) => disk'[f] = {"source"}
    BY <1>0 DEF StageUpload
  <2>6. CASE disk'[f] # disk[f]
    BY <1>1, <2>2, <2>3, <2>4, <2>5, <2>6, DiskChanges DEF Known
  <2> QED
    BY <2>1, <2>6
<1>2. CASE creator[f] # "staged"
  <2>1. StageUpload(f)
    BY <1>2, CreatorChanges DEF Known
  <2> QED
    BY <1>0, <2>1 DEF StageUpload
<1> QED
  BY <1>1, <1>2

(* Only the conversion itself changes the row and the directory it works on,
   so that what it publishes is what it wrote (service.go:585-590, 645-664). *)
LEMMA WritersKept ==
    ASSUME Stored, Next PROVE WriterProcessing'
<1> USE DEF Stored
<1>0. /\ wpc \in [Workers -> WorkerPC]
      /\ wjob \in [Workers -> Files \cup {None}]
      /\ disk \in [Files -> SUBSET Content]
      /\ status \in [Files -> RowStatus \cup {"absent", "removed"}]
      /\ \A w \in Workers : wpc[w] \in Registered => wjob[w] \in Files
  BY DEF Known, Typed, WorkerPart, WorkerTypeOK, WorkersHaveJobs, Busy, WorkerPC,
         Registered, DirectoryPart, DirectoryTypeOK, StorePart, StoreTypeOK
<1>a. Converting = {"prepare", "render"} /\ Converting \cup {"publish"} \subseteq Registered
  BY DEF Converting, Registered
<1> SUFFICES ASSUME NEW w \in Workers, wpc'[w] \in Converting \cup {"publish"}
             PROVE  /\ wpc'[w] \in Converting => status'[wjob'[w]] = "processing"
                    /\ wpc'[w] = "publish" /\ Undeleted(wjob[w])' =>
                           status'[wjob'[w]] = "processing" /\ disk'[wjob'[w]] = Content
  BY DEF WriterProcessing
<1>1. ASSUME MarkProcessing(w)
      PROVE  wpc'[w] = "prepare" /\ status'[wjob'[w]] = "processing"
  <2>1. wpc'[w] = "prepare" /\ UNCHANGED wjob /\ wjob[w] \in Files
    BY <1>0, <1>1, <1>a DEF MarkProcessing, ConvertReturns, Registered
  <2>2. UpdateStatus(wjob[w], "processing") /\ Updatable(wjob[w])
    BY <1>0, <1>1, <1>a, <2>1 DEF MarkProcessing, ConvertReturns
  <2> QED
    BY <1>0, <2>1, <2>2 DEF UpdateStatus
<1>2. ASSUME PrepareOutput(w) \/ Render(w)
      PROVE  /\ status'[wjob'[w]] = "processing"
             /\ wpc'[w] = "publish" => disk'[wjob'[w]] = Content
  <2>1. wpc[w] \in Converting /\ UNCHANGED <<status, wjob>>
    BY <1>2 DEF PrepareOutput, Render, Converting, storeVars
  <2>2. wpc'[w] = "publish" => disk'[wjob[w]] = Content
    BY <1>2, WriterLeaves DEF Known
  <2> QED
    BY <2>1, <2>2 DEF DiskInv, WriterProcessing
<1>3. ASSUME WorkerStep(w), ~MarkProcessing(w), ~PrepareOutput(w), ~Render(w)
      PROVE  FALSE
  BY <1>0, <1>3, <1>a
     DEF WorkerStep, GetJob, QuitWorker, BeginConversion, LookUpJob, Publish,
         EndConversion, Succeed, FailJob, RetryJob, DropJob, NextJob, ConvertReturns
<1>4. CASE ~WorkerStep(w)
  <2>1. wpc'[w] = wpc[w] /\ wjob'[w] = wjob[w]
    BY <1>4, <1>a, WorkerChanges DEF Known
  <2>2. PICK f \in Files : f = wjob[w]
    BY <1>0, <1>a, <2>1
  <2>3. ~MarkProcessing(w) /\ ~Publish(w) /\ ~FailJob(w) /\ ~PrepareOutput(w) /\ ~Render(w)
    BY <1>4 DEF WorkerStep
  <2>4. /\ status'[f] = status[f] \/ (status'[f] = "removed" /\ wpc[w] \notin Converting)
    <3>1. \A c \in Cleaners : EraseRow(c) /\ cfile[c] = f => wpc[w] \notin Converting
      BY <2>2, CleanerActs
    <3> QED
      BY <2>2, <2>3, <3>1, HeldRow
  <2>5. CASE wpc'[w] \in Converting
    BY <1>a, <2>1, <2>2, <2>4, <2>5 DEF DiskInv, WriterProcessing
  <2>6. CASE wpc'[w] = "publish" /\ Undeleted(f)'
    <3>1. Undeleted(f)
      <4>1. creator[f] # "staged"
        BY <2>2 DEF Known, JobCore, BeforeStart, HasJob, Held
      <4> QED
        BY <2>2, <2>6, <4>1, RowBorn
    <3>2. status[f] = "processing" /\ disk[f] = Content
      BY <2>1, <2>2, <2>6, <3>1 DEF DiskInv, WriterProcessing
    <3>3. status'[f] = status[f]
      BY <2>4, <2>6 DEF Undeleted, HasRow, RowStatus
    <3>4. disk'[f] = disk[f]
      <4>1. \A c \in Cleaners : RemoveDirectory(c) => cfile[c] # f
        BY <3>1, CleanerActs DEF Dead
      <4> QED
        BY <2>2, <2>3, <4>1, HeldDirectory
    <3> QED
      BY <2>1, <2>2, <2>6, <1>a, <3>2, <3>3, <3>4
  <2>7. Undeleted(wjob[w])' => Undeleted(f)'
    BY <2>1, <2>2 DEF Undeleted, HasRow
  <2> QED
    BY <1>a, <2>1, <2>2, <2>5, <2>6, <2>7
<1> QED
  BY <1>1, <1>2, <1>3, <1>4, <1>a

(* A row is erased after its directory, by the same cleaner. *)
LEMMA ErasingKept ==
    ASSUME Stored, Next PROVE ErasingIsEmpty'
<1> USE DEF Stored
<1>0. /\ cpc \in [Cleaners -> CleanerPC]
      /\ cfile \in [Cleaners -> Files \cup {None}]
      /\ disk \in [Files -> SUBSET Content]
      /\ \A c \in Cleaners : cpc[c] \in Owning \cup {"claim"} => cfile[c] \in Files
      /\ \A c \in Cleaners : cpc[c] = "release" => outcome[c] \in Answers
  BY DEF Known, Typed, CleanerPart, CleanerTypeOK, CleanersHaveFiles, AnswerKnown,
         DirectoryPart, DirectoryTypeOK
<1> SUFFICES ASSUME NEW c \in Cleaners, cpc'[c] = "erase" PROVE disk'[cfile'[c]] = {}
  BY DEF ErasingIsEmpty
<1>1. CASE RemoveDirectory(c)
  BY <1>0, <1>1 DEF RemoveDirectory, Conclude, MoveCleaner, Owning
<1>2. CASE ~RemoveDirectory(c)
  <2>1. cpc[c] = "erase" /\ cfile'[c] = cfile[c]
    <3>1. ~DeletionStep(c)
      BY <1>0, <1>2
         DEF DeletionStep, BeginDeletion, MarkFile, WaitForConversion,
             ConversionDone, WaitForLease, EraseRow, EndDeletion, MoveCleaner,
             Conclude, AfterFile, Answers
    <3>2. \A f \in Files : ~StartDelete(c, f)
      BY <1>0 DEF StartDelete
    <3>3. c = Janitor => ~JanitorStep /\ ~Run
      BY <1>0 DEF JanitorStep, StartSweep, EndSweep, QuitJanitor, NextExpired, Run
    <3>4. ~LoseMemory
      BY DEF LoseMemory, Answers
    <3> QED
      BY <3>1, <3>2, <3>3, <3>4, CleanerChanges DEF Known
  <2>a. PICK f \in Files : f = cfile[c]
    BY <1>0, <2>1 DEF Owning
  <2>2. /\ Dead(f) /\ disk[f] = {}
        /\ \A w \in Workers : wjob[w] = f => wpc[w] \notin Converting
    BY <2>1, <2>a DEF Known, RemovalInv, DoomedIsDead, Dooming, DiskInv,
                      ErasingIsEmpty, WaitsForWriter, PastConversion
  <2>3. ~StageUpload(f)
    BY <2>2 DEF StageUpload, Known, JobCore, BeforeStart, Dead
  <2>4. disk'[f] = {}
    BY <2>2, <2>3, DiskChanges DEF Known
  <2> QED
    BY <2>1, <2>a, <2>4
<1> QED
  BY <1>1, <1>2

(* No upload, conversion or clean-up creates the directory of an erased row. *)
LEMMA RemovedKept ==
    ASSUME Stored, Next PROVE RemovedIsEmpty'
<1> USE DEF Stored
<1> SUFFICES ASSUME NEW f \in Files, status'[f] = "removed" PROVE disk'[f] = {}
  BY DEF RemovedIsEmpty
<1>1. CASE status[f] = "removed"
  <2>1. disk[f] = {}
    BY <1>1 DEF DiskInv, RemovedIsEmpty
  <2>2. ~StageUpload(f)
    BY <1>1 DEF StageUpload, Known, JobCore, BeforeStart
  <2>3. \A w \in Workers : wjob[w] = f => wpc[w] \notin Converting
    BY <1>1 DEF DiskInv, WriterProcessing
  <2> QED
    BY <2>1, <2>2, <2>3, DiskChanges DEF Known
<1>2. CASE status[f] # "removed"
  <2>1. PICK c \in Cleaners : cfile[c] = f /\ EraseRow(c)
    BY <1>2, StatusChanges DEF Known
  <2> QED
    BY <2>1 DEF EraseRow, DiskInv, ErasingIsEmpty
<1> QED
  BY <1>1, <1>2

(* "deleted" is answered only by the cleaner that erased the row. *)
LEMMA ErasedKept ==
    ASSUME Stored, Next PROVE ErasedIsRemoved'
<1> USE DEF Stored
<1>0. /\ cpc \in [Cleaners -> CleanerPC]
      /\ cfile \in [Cleaners -> Files \cup {None}]
      /\ outcome \in [Cleaners -> Answers \cup {"none"}]
      /\ status \in [Files -> RowStatus \cup {"absent", "removed"}]
      /\ Janitor \in Cleaners
      /\ \A c \in Cleaners : cpc[c] \in Owning \cup {"claim"} => cfile[c] \in Files
      /\ \A c \in Cleaners : cpc[c] = "release" => outcome[c] \in Answers
  BY DEF Known, Typed, CleanerPart, CleanerTypeOK, CleanersHaveFiles, AnswerKnown,
         StorePart, StoreTypeOK, Cleaners
<1> SUFFICES ASSUME NEW c \in Cleaners,
                    \/ cpc'[c] = "deleted"
                    \/ cpc'[c] = "release" /\ outcome'[c] = "deleted"
             PROVE  cfile'[c] \in Files /\ status'[cfile'[c]] = "removed"
  BY DEF ErasedIsRemoved, Erased
<1>1. CASE EraseRow(c)
  <2>1. /\ cfile'[c] = cfile[c] /\ cfile[c] \in Files
        /\ DeleteRow(cfile[c]) /\ HasRow(cfile[c])
    BY <1>0, <1>1 DEF EraseRow, Conclude, Owning
  <2> QED
    BY <1>0, <2>1 DEF DeleteRow
<1>2. CASE ~EraseRow(c)
  <2>1. Erased(c) /\ cfile'[c] = cfile[c]
    <3>1. CASE EndDeletion(c)
      <4>1. cpc[c] = "release" /\ outcome[c] = "deleted" /\ c # Janitor
        BY <1>0, <3>1 DEF EndDeletion, AfterFile
      <4> QED
        BY <3>1, <4>1 DEF EndDeletion, LeaveFile, Erased
    <3>2. ~(DeletionStep(c) /\ ~EndDeletion(c))
      BY <1>0, <1>2
         DEF DeletionStep, BeginDeletion, MarkFile, WaitForConversion,
             ConversionDone, WaitForLease, RemoveDirectory, MoveCleaner, Conclude,
             AfterFile
    <3>3. \A f \in Files : ~StartDelete(c, f)
      BY <1>0 DEF StartDelete
    <3>4. c = Janitor => ~JanitorStep /\ ~Run
      BY <1>0 DEF JanitorStep, StartSweep, EndSweep, QuitJanitor, NextExpired, Run
    <3>5. LoseMemory => cpc[c] = "deleted" /\ cfile'[c] = cfile[c]
      BY <1>0 DEF LoseMemory, Answers
    <3>6. CASE ~EndDeletion(c)
      BY <3>2, <3>3, <3>4, <3>5, <3>6, CleanerChanges DEF Known, Erased
    <3> QED
      BY <3>1, <3>6
  <2> QED
    BY <2>1, RemovedStays DEF DiskInv, ErasedIsRemoved
<1> QED
  BY <1>1, <1>2

(* Whatever a row shows is on disk: a conversion keeps the source, publishes
   what is complete, and never rewrites what was published. *)
LEMMA RowsKept ==
    ASSUME Stored, Next PROVE RowsMatchDisk'
<1> USE DEF Stored
<1>0. disk \in [Files -> SUBSET Content]
  BY DEF Known, Typed, DirectoryPart, DirectoryTypeOK
<1> SUFFICES ASSUME NEW f \in Files, Undeleted(f)'
             PROVE  /\ "source" \in disk'[f]
                    /\ status'[f] = "processed" => disk'[f] = Content
  BY DEF RowsMatchDisk
<1>1. CASE ~Undeleted(f)
  <2>1. AddRecord(f) /\ status'[f] = "uploaded" /\ disk[f] = {"source"}
    BY <1>1, RowBorn DEF DiskInv, StagedHasSource
  <2> QED
    BY <2>1 DEF AddRecord
<1>2. CASE Undeleted(f)
  <2>1. /\ "source" \in disk[f]
        /\ status[f] = "processed" => disk[f] = Content
    BY <1>2 DEF DiskInv, RowsMatchDisk
  <2>2. /\ ~StageUpload(f) /\ ~RejectUpload(f) /\ ~RemoveOrphan(f)
        /\ \A c \in Cleaners : RemoveDirectory(c) => cfile[c] # f
    <3>1. status[f] # "absent" /\ HasRow(f)
      BY <1>2 DEF Undeleted, HasRow, RowStatus
    <3>2. \A c \in Cleaners : RemoveDirectory(c) => cfile[c] # f
      BY <1>2, CleanerActs DEF Dead
    <3> QED
      BY <3>1, <3>2 DEF StageUpload, RejectUpload, RemoveOrphan, Orphan, Known,
                        JobCore, BeforeStart
  <2>3. CASE disk'[f] # disk[f]
    <3>1. PICK w \in Workers : /\ wjob[w] = f /\ wpc[w] \in Converting
                               /\ PrepareOutput(w) \/ Render(w)
      BY <2>2, <2>3, DiskChanges DEF Known
    <3>2. "source" \in disk'[f]
      BY <2>1, <3>1, WriterLeaves DEF Known
    <3>3. status'[f] = "processing"
      BY <3>1 DEF PrepareOutput, Render, storeVars, DiskInv, WriterProcessing
    <3> QED
      BY <3>2, <3>3
  <2>4. CASE disk'[f] = disk[f] /\ status'[f] = "processed" /\ status[f] # "processed"
    <3>1. PICK w \in Workers : wjob[w] = f /\ Publish(w)
      BY <2>4, StatusChanges DEF Known
    <3>2. disk[f] = Content
      BY <1>2, <3>1 DEF Publish, DiskInv, WriterProcessing
    <3> QED
      BY <2>1, <2>4, <3>2
  <2> QED
    BY <2>1, <2>3, <2>4
<1> QED
  BY <1>1, <1>2

(* Only an upload in progress, or one whose clean-up failed, has a directory
   without a row; a process starts with none (service.go:203-241). *)
LEMMA OrphansKept ==
    ASSUME Stored, RemovedIsEmpty', Next PROVE NoOrphanDirectory'
<1> USE DEF Stored
<1>0. /\ status \in [Files -> RowStatus \cup {"absent", "removed"}]
      /\ status' \in [Files -> RowStatus \cup {"absent", "removed"}]
      /\ phase \in Phases /\ phase' \in Phases
      /\ creator \in [Files -> CreatorPC]
  BY StepTyped DEF Known, Typed, StorePart, StoreTypeOK, MainPart, MainTypeOK,
                   DirectoryPart, DirectoryTypeOK
<1> SUFFICES ASSUME Running', NEW f \in Files, disk'[f] # {}, ~HasRow(f)'
             PROVE  creator'[f] \in {"staged", "leaked"}
  BY DEF NoOrphanDirectory
<1>1. status'[f] = "absent"
  BY <1>0 DEF RemovedIsEmpty, HasRow
<1>2. status[f] = "absent"
  BY <1>1, StatusChanges DEF Known
<1>3. ~HasRow(f)
  BY <1>2 DEF HasRow, RowStatus
<1>4. CASE disk'[f] # disk[f]
  <2>1. \A w \in Workers : wjob[w] = f => wpc[w] \notin Converting
    BY <1>2 DEF DiskInv, WriterProcessing
  <2>2. \A c \in Cleaners : RemoveDirectory(c) => cfile[c] # f
    BY <1>2, CleanerActs DEF Dead
  <2>3. StageUpload(f)
    BY <1>4, <2>1, <2>2, DiskChanges DEF Known
  <2> QED
    BY <1>0, <2>3 DEF StageUpload
<1>5. CASE disk'[f] = disk[f]
  <2>1. ~Run
    BY <1>3, <1>5 DEF Run, Orphan
  <2>2. ~Idle' /\ ~LoseMemory
    BY DEF Running, Idle, LoseMemory
  <2>3. Running
    BY <1>0, <2>1, <2>2, PhaseChanges DEF Known, Running, Idle, Phases
  <2>4. creator[f] \in {"staged", "leaked"}
    BY <1>3, <1>5, <2>3 DEF DiskInv, NoOrphanDirectory
  <2>5. ~AddRecord(f)
    BY <1>0, <1>1 DEF AddRecord, Insert
  <2>6. RejectUpload(f) => creator'[f] = "leaked"
    BY <1>0, <1>5 DEF RejectUpload, Known, Typed, DirectoryPart, DirectoryTypeOK
  <2>7. ~EnqueueUpload(f)
    BY <2>4 DEF EnqueueUpload
  <2> QED
    BY <2>2, <2>4, <2>5, <2>6, <2>7, CreatorChanges DEF Known
<1> QED
  BY <1>4, <1>5

(* The first start finds an empty disk and no rows. *)
LEMMA InitDisk == Init => DiskInv
<1> SUFFICES ASSUME Init PROVE DiskInv
  OBVIOUS
<1>1. /\ \A w \in Workers : wpc[w] = "exited"
      /\ \A c \in Cleaners : cpc[c] \in {"exited", "idle"}
      /\ Janitor \in Cleaners /\ cpc[Janitor] = "exited"
      /\ \A f \in Files : /\ status[f] = "absent" /\ ~marked[f] /\ ~expired[f]
                          /\ disk[f] = {} /\ creator[f] = "idle"
                          /\ deleting[f] = None
  BY DEF Init, StoreInit, Cleaners
<1> QED
  BY <1>1 DEF DiskInv, NoCleanerYet, MarkerIsOwned, FreshRow, StagedHasSource,
       WriterProcessing, ErasingIsEmpty, RemovedIsEmpty, ErasedIsRemoved, Erased,
       RowsMatchDisk, NoOrphanDirectory, Owning, Converting, Undeleted, HasRow,
       RowStatus

(* The layers below this one are kept. *)
LEMMA StepKnown == Known /\ [Next]_vars => Known'
  BY StepTyped, StepJobs, StepRemoval DEF Known

(* Every step keeps what is known of the disk, part by part as above. *)
LEMMA StepDisk == Stored /\ [Next]_vars => DiskInv'
<1> SUFFICES ASSUME Stored, [Next]_vars PROVE DiskInv'
  OBVIOUS
<1>1. CASE UNCHANGED vars
  BY <1>1 DEF Stored, DiskInv, NoCleanerYet, Idle, MarkerIsOwned, FreshRow, StagedHasSource,
       WriterProcessing, ErasingIsEmpty, RemovedIsEmpty, ErasedIsRemoved, Erased,
       RowsMatchDisk, NoOrphanDirectory, Running, Undeleted, HasRow, vars, storeVars,
       lockVars, workerVars, cleanerVars, mainVars
<1>2. CASE Next
  BY <1>2, CleanersWait, MarkersKept, FreshStays, StagedStays, WritersKept,
     ErasingKept, RemovedKept, ErasedKept, RowsKept, OrphansKept
     DEF DiskInv
<1> QED
  BY <1>1, <1>2

(* So the disk layer and those below hold in every state. *)
LEMMA AlwaysStored == SafeSpec => []Stored
<1>1. Init => Stored
  BY InitTyped, InitJobs, InitRemoval, InitDisk DEF Stored, Known
<1>2. Stored /\ [Next]_vars => Stored'
  BY StepKnown, StepDisk DEF Stored
<1> QED
  BY <1>1, <1>2, PTL DEF SafeSpec

(* On no path, an error's or a shutdown's included, does the marker of a
   deletion outlive the deletion (service.go:328-360, 785-825). *)
THEOREM MarkersAreOwned == SafeSpec => []MarkerIsOwned
<1>1. Stored => MarkerIsOwned
  BY DEF Stored, DiskInv
<1> QED
  BY <1>1, AlwaysStored, PTL

(* What the API shows of a file is on disk, after any crash, retry, deletion
   that failed or storage that did. *)
THEOREM RowsAreOnDisk == SafeSpec => []RowsMatchDisk
<1>1. Stored => RowsMatchDisk
  BY DEF Stored, DiskInv
<1> QED
  BY <1>1, AlwaysStored, PTL

(* A DELETE answered "deleted" is final: no later step, of a conversion that
   was running included, brings the row or the directory back. *)
THEOREM DeletionIsFinal == SafeSpec => []DeletedMeansGone
<1>1. Stored => DeletedMeansGone
  BY DEF Stored, DiskInv, ErasedIsRemoved, Erased, RemovedIsEmpty, DeletedMeansGone,
         Cleaners
<1> QED
  BY <1>1, AlwaysStored, PTL

(* A running process has no directory without a row but an upload's, whatever a
   crash left behind (service.go:203-241). *)
THEOREM OrphansAreUploads == SafeSpec => []NoOrphanDirectory
<1>1. Stored => NoOrphanDirectory
  BY DEF Stored, DiskInv
<1> QED
  BY <1>1, AlwaysStored, PTL
=============================================================================
