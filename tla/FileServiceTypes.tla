-------------------------- MODULE FileServiceTypes --------------------------
(***************************************************************************)
(* Type correctness of module FileService.  A goroutine's position says    *)
(* whether it has a file in hand, and this is needed to type the arrays it *)
(* indexes with that file, so both are proved together.  They are split    *)
(* into parts by the variables they speak of; an action disturbs few.      *)
(***************************************************************************)
EXTENDS FileServiceInvariant, TLAPS

StorePart == StoreTypeOK
DirectoryPart == DirectoryTypeOK
JobPart == JobTypeOK
LockPart == LockTypeOK
WorkerPart == WorkerTypeOK /\ WorkersHaveJobs /\ NoWorkerYet
CleanerPart == CleanerTypeOK /\ CleanersHaveFiles /\ AnswerKnown
ReaderPart == ReaderTypeOK /\ ReadersHaveFiles
MainPart == MainTypeOK
FaultPart == faults \in Nat

Typed ==
    /\ StorePart
    /\ DirectoryPart
    /\ JobPart
    /\ LockPart
    /\ WorkerPart
    /\ CleanerPart
    /\ ReaderPart
    /\ MainPart
    /\ FaultPart

(* A step that leaves a part's variables alone keeps the part. *)
LEMMA Frame ==
    /\ StorePart /\ UNCHANGED storeVars => StorePart'
    /\ DirectoryPart /\ UNCHANGED <<disk, creator>> => DirectoryPart'
    /\ JobPart /\ UNCHANGED jobVars => JobPart'
    /\ LockPart /\ UNCHANGED lockVars => LockPart'
    /\ WorkerPart /\ UNCHANGED <<workerVars, phase>> => WorkerPart'
    /\ CleanerPart /\ UNCHANGED cleanerVars => CleanerPart'
    /\ ReaderPart /\ UNCHANGED readerVars => ReaderPart'
    /\ MainPart /\ UNCHANGED mainVars => MainPart'
    /\ FaultPart /\ UNCHANGED faults => FaultPart'
<1>1. StorePart /\ UNCHANGED storeVars => StorePart'
  BY DEF StorePart, StoreTypeOK, storeVars
<1>2. DirectoryPart /\ UNCHANGED <<disk, creator>> => DirectoryPart'
  BY DEF DirectoryPart, DirectoryTypeOK
<1>3. JobPart /\ UNCHANGED jobVars => JobPart'
  BY DEF JobPart, JobTypeOK, jobVars
<1>4. LockPart /\ UNCHANGED lockVars => LockPart'
  BY DEF LockPart, LockTypeOK, lockVars
<1>5. WorkerPart /\ UNCHANGED <<workerVars, phase>> => WorkerPart'
  BY DEF WorkerPart, WorkerTypeOK, WorkersHaveJobs, NoWorkerYet, Idle,
         workerVars
<1>6. CleanerPart /\ UNCHANGED cleanerVars => CleanerPart'
  BY DEF CleanerPart, CleanerTypeOK, CleanersHaveFiles, AnswerKnown,
         cleanerVars
<1>7. ReaderPart /\ UNCHANGED readerVars => ReaderPart'
  BY DEF ReaderPart, ReaderTypeOK, ReadersHaveFiles, readerVars
<1>8. MainPart /\ UNCHANGED mainVars => MainPart'
  BY DEF MainPart, MainTypeOK, mainVars
<1>9. FaultPart /\ UNCHANGED faults => FaultPart'
  BY DEF FaultPart
<1> QED
  BY <1>1, <1>2, <1>3, <1>4, <1>5, <1>6, <1>7, <1>8, <1>9

(* The queue stays a sequence of files. *)
LEMMA EnqueueTyped ==
    ASSUME NEW f \in Files, queue \in Seq(Files), Enqueue(f)
    PROVE  queue' \in Seq(Files)
  BY DEF Enqueue

----------------------------------------------------------------------------
(* Conversion workers: every action keeps Typed. *)
LEMMA WorkerTypes ==
    ASSUME Typed
    PROVE  /\ \A w \in Workers : GetJob(w) => Typed'
           /\ \A w \in Workers : QuitWorker(w) => Typed'
           /\ \A w \in Workers : BeginConversion(w) => Typed'
           /\ \A w \in Workers : LookUpJob(w) => Typed'
           /\ \A w \in Workers : MarkProcessing(w) => Typed'
           /\ \A w \in Workers : PrepareOutput(w) => Typed'
           /\ \A w \in Workers : Render(w) => Typed'
           /\ \A w \in Workers : Publish(w) => Typed'
           /\ \A w \in Workers : EndConversion(w) => Typed'
           /\ \A w \in Workers : Succeed(w) => Typed'
           /\ \A w \in Workers : FailJob(w) => Typed'
           /\ \A w \in Workers : RetryJob(w) => Typed'
           /\ \A w \in Workers : DropJob(w) => Typed'
<1>1. ASSUME NEW w \in Workers, GetJob(w) PROVE Typed'
  <2>1. JobPart'
    BY <1>1 DEF GetJob, Typed, JobPart, JobTypeOK
  <2>2. WorkerPart'
    BY <1>1, ProcessAssumption DEF GetJob, Typed, mainVars, JobPart, JobTypeOK,
         WorkerPart, WorkerTypeOK, WorkersHaveJobs, NoWorkerYet, Idle,
         WorkerPC, Busy
  <2> QED
    BY <1>1, <2>1, <2>2, Frame DEF GetJob, Typed
<1>2. ASSUME NEW w \in Workers, QuitWorker(w) PROVE Typed'
  <2>1. WorkerPart'
    BY <1>2, ProcessAssumption DEF QuitWorker, QuitAllowed, Typed, mainVars,
         WorkerPart, WorkerTypeOK, WorkersHaveJobs, NoWorkerYet, Idle,
         WorkerPC, Busy
  <2> QED
    BY <1>2, <2>1, Frame DEF QuitWorker, Typed
<1>3. ASSUME NEW w \in Workers, BeginConversion(w) PROVE Typed'
  <2>1. LockPart'
    BY <1>3, ProcessAssumption DEF BeginConversion, Typed, LockPart,
         LockTypeOK, WorkerPart, WorkerTypeOK, WorkersHaveJobs, NoWorkerYet,
         Idle, WorkerPC, Busy
  <2>2. WorkerPart'
    BY <1>3, ProcessAssumption DEF BeginConversion, Typed, mainVars,
         WorkerPart, WorkerTypeOK, WorkersHaveJobs, NoWorkerYet, Idle,
         WorkerPC, Busy
  <2> QED
    BY <1>3, <2>1, <2>2, Frame DEF BeginConversion, Typed
<1>4. ASSUME NEW w \in Workers, LookUpJob(w) PROVE Typed'
  <2>1. WorkerPart'
    BY <1>4, ProcessAssumption DEF LookUpJob, ConvertReturns, Fault, NoFault,
         Typed, mainVars, WorkerPart, WorkerTypeOK, WorkersHaveJobs,
         NoWorkerYet, Idle, WorkerPC, Busy
  <2>2. FaultPart'
    BY <1>4 DEF LookUpJob, ConvertReturns, Fault, NoFault, Typed, FaultPart
  <2> QED
    BY <1>4, <2>1, <2>2, Frame DEF LookUpJob, Typed
<1>5. ASSUME NEW w \in Workers, MarkProcessing(w) PROVE Typed'
  <2>1. StorePart'
    BY <1>5, ProcessAssumption DEF MarkProcessing, ConvertReturns,
         UpdateStatus, Fault, NoFault, Typed, StorePart, StoreTypeOK,
         storeVars, RowStatus, WorkerPart, WorkerTypeOK, WorkersHaveJobs,
         NoWorkerYet, Idle, WorkerPC, Busy
  <2>2. WorkerPart'
    BY <1>5, ProcessAssumption DEF MarkProcessing, ConvertReturns,
         UpdateStatus, Fault, NoFault, Typed, mainVars, WorkerPart,
         WorkerTypeOK, WorkersHaveJobs, NoWorkerYet, Idle, WorkerPC, Busy
  <2>3. FaultPart'
    BY <1>5 DEF MarkProcessing, ConvertReturns, UpdateStatus, Fault, NoFault,
         Typed, FaultPart
  <2> QED
    BY <1>5, <2>1, <2>2, <2>3, Frame DEF MarkProcessing, Typed
<1>6. ASSUME NEW w \in Workers, PrepareOutput(w) PROVE Typed'
  <2>1. DirectoryPart'
    <3>1. wjob[w] \in Files
      BY <1>6 DEF PrepareOutput, Typed, WorkerPart, WorkerTypeOK, WorkersHaveJobs,
           Busy, WorkerPC
    <3>2. UNCHANGED creator
      BY <1>6 DEF PrepareOutput
    <3>3. disk' = disk
          \/ \E rest \in SUBSET Artifacts :
                disk' = [disk EXCEPT ![wjob[w]] = (@ \ Artifacts) \cup rest]
          \/ disk' = [disk EXCEPT ![wjob[w]] = (@ \ {"manifest"}) \cup {"derived"}]
          \/ disk' = [disk EXCEPT ![wjob[w]] = @ \ Artifacts]
          \/ disk' = [disk EXCEPT ![wjob[w]] = @ \cup Artifacts]
      BY <1>6 DEF PrepareOutput, PartlyRemoved
    <3>4. Artifacts \subseteq Content
      BY DEF Artifacts, Content
    <3> QED
      BY <3>1, <3>2, <3>3, <3>4 DEF Typed, DirectoryPart, DirectoryTypeOK,
         Content, CreatorPC
  <2>2. WorkerPart'
    BY <1>6, ProcessAssumption DEF PrepareOutput, ConvertReturns, Errors, Typed,
         mainVars, WorkerPart, WorkerTypeOK, WorkersHaveJobs, NoWorkerYet,
         Idle, WorkerPC, Busy
  <2>3. FaultPart'
    BY <1>6 DEF PrepareOutput, PartlyRemoved, DiskFault, Fault, NoFault, Typed,
         FaultPart
  <2> QED
    BY <1>6, <2>1, <2>2, <2>3, Frame DEF PrepareOutput, Typed
<1>7. ASSUME NEW w \in Workers, Render(w) PROVE Typed'
  <2>1. DirectoryPart'
    <3>1. wjob[w] \in Files
      BY <1>7 DEF Render, Typed, WorkerPart, WorkerTypeOK, WorkersHaveJobs,
           Busy, WorkerPC
    <3>2. UNCHANGED creator
      BY <1>7 DEF Render
    <3>3. disk' = disk
          \/ \E rest \in SUBSET Artifacts :
                disk' = [disk EXCEPT ![wjob[w]] = (@ \ Artifacts) \cup rest]
          \/ disk' = [disk EXCEPT ![wjob[w]] = (@ \ {"manifest"}) \cup {"derived"}]
          \/ disk' = [disk EXCEPT ![wjob[w]] = @ \ Artifacts]
          \/ disk' = [disk EXCEPT ![wjob[w]] = @ \cup Artifacts]
      BY <1>7 DEF Render, PartlyRemoved
    <3>4. Artifacts \subseteq Content
      BY DEF Artifacts, Content
    <3> QED
      BY <3>1, <3>2, <3>3, <3>4 DEF Typed, DirectoryPart, DirectoryTypeOK,
         Content, CreatorPC
  <2>2. WorkerPart'
    BY <1>7, ProcessAssumption DEF Render, ConvertReturns, Errors, Typed,
         mainVars, WorkerPart, WorkerTypeOK, WorkersHaveJobs, NoWorkerYet,
         Idle, WorkerPC, Busy
  <2>3. FaultPart'
    BY <1>7 DEF Render, PartlyRemoved, DiskFault, Fault, NoFault, Typed,
         FaultPart
  <2> QED
    BY <1>7, <2>1, <2>2, <2>3, Frame DEF Render, Typed
<1>8. ASSUME NEW w \in Workers, Publish(w) PROVE Typed'
  <2>1. StorePart'
    BY <1>8, ProcessAssumption DEF Publish, ConvertReturns, UpdateStatus,
         Fault, NoFault, Typed, StorePart, StoreTypeOK, storeVars, RowStatus,
         WorkerPart, WorkerTypeOK, WorkersHaveJobs, NoWorkerYet, Idle,
         WorkerPC, Busy
  <2>2. WorkerPart'
    BY <1>8, ProcessAssumption DEF Publish, ConvertReturns, UpdateStatus,
         Fault, NoFault, Typed, mainVars, WorkerPart, WorkerTypeOK,
         WorkersHaveJobs, NoWorkerYet, Idle, WorkerPC, Busy
  <2>3. FaultPart'
    BY <1>8 DEF Publish, ConvertReturns, UpdateStatus, Fault, NoFault, Typed,
         FaultPart
  <2> QED
    BY <1>8, <2>1, <2>2, <2>3, Frame DEF Publish, Typed
<1>9. ASSUME NEW w \in Workers, EndConversion(w) PROVE Typed'
  <2>1. LockPart'
    BY <1>9, ProcessAssumption DEF EndConversion, CloseDone, Typed, LockPart,
         LockTypeOK, WorkerPart, WorkerTypeOK, WorkersHaveJobs, NoWorkerYet,
         Idle, WorkerPC, Busy
  <2>2. WorkerPart'
    BY <1>9, ProcessAssumption DEF EndConversion, CloseDone, Typed, mainVars,
         WorkerPart, WorkerTypeOK, WorkersHaveJobs, NoWorkerYet, Idle,
         WorkerPC, Busy
  <2>3. CleanerPart'
    BY <1>9, ProcessAssumption DEF EndConversion, CloseDone, Typed, WorkerPart,
         WorkerTypeOK, WorkersHaveJobs, NoWorkerYet, Idle, WorkerPC, Busy,
         CleanerPart, CleanerTypeOK, CleanersHaveFiles, AnswerKnown, CleanerPC,
         Answers, Owning, Cleaners
  <2> QED
    BY <1>9, <2>1, <2>2, <2>3, Frame DEF EndConversion, Typed
<1>10. ASSUME NEW w \in Workers, Succeed(w) PROVE Typed'
  <2>1. JobPart'
    BY <1>10, ProcessAssumption DEF Succeed, Forget, NextJob, Typed, JobPart,
         JobTypeOK, WorkerPart, WorkerTypeOK, WorkersHaveJobs, NoWorkerYet,
         Idle, WorkerPC, Busy
  <2>2. WorkerPart'
    BY <1>10, ProcessAssumption DEF Succeed, Forget, NextJob, Typed, mainVars,
         WorkerPart, WorkerTypeOK, WorkersHaveJobs, NoWorkerYet, Idle,
         WorkerPC, Busy
  <2> QED
    BY <1>10, <2>1, <2>2, Frame DEF Succeed, Typed
<1>11. ASSUME NEW w \in Workers, FailJob(w) PROVE Typed'
  <2>1. StorePart'
    BY <1>11, ProcessAssumption DEF FailJob, UpdateStatus, Forget, NextJob,
         Fault, NoFault, Typed, StorePart, StoreTypeOK, storeVars, RowStatus,
         WorkerPart, WorkerTypeOK, WorkersHaveJobs, NoWorkerYet, Idle,
         WorkerPC, Busy
  <2>2. JobPart'
    BY <1>11, ProcessAssumption DEF FailJob, UpdateStatus, Forget, NextJob,
         Fault, NoFault, Typed, JobPart, JobTypeOK, WorkerPart, WorkerTypeOK,
         WorkersHaveJobs, NoWorkerYet, Idle, WorkerPC, Busy
  <2>3. WorkerPart'
    BY <1>11, ProcessAssumption DEF FailJob, UpdateStatus, Forget, NextJob,
         Fault, NoFault, Typed, mainVars, WorkerPart, WorkerTypeOK,
         WorkersHaveJobs, NoWorkerYet, Idle, WorkerPC, Busy
  <2>4. FaultPart'
    BY <1>11 DEF FailJob, UpdateStatus, Forget, NextJob, Fault, NoFault, Typed,
         FaultPart
  <2> QED
    BY <1>11, <2>1, <2>2, <2>3, <2>4, Frame DEF FailJob, Typed
<1>12. ASSUME NEW w \in Workers, RetryJob(w) PROVE Typed'
  <2>1. JobPart'
    BY <1>12, ProcessAssumption DEF RetryJob, StartTimer, NextJob, Typed,
         JobPart, JobTypeOK, WorkerPart, WorkerTypeOK, WorkersHaveJobs,
         NoWorkerYet, Idle, WorkerPC, Busy
  <2>2. WorkerPart'
    BY <1>12, ProcessAssumption DEF RetryJob, StartTimer, NextJob, Typed,
         mainVars, WorkerPart, WorkerTypeOK, WorkersHaveJobs, NoWorkerYet,
         Idle, WorkerPC, Busy
  <2> QED
    BY <1>12, <2>1, <2>2, Frame DEF RetryJob, Typed
<1>13. ASSUME NEW w \in Workers, DropJob(w) PROVE Typed'
  <2>1. JobPart'
    BY <1>13, ProcessAssumption DEF DropJob, Forget, NextJob, Fault, NoFault,
         Typed, JobPart, JobTypeOK, WorkerPart, WorkerTypeOK, WorkersHaveJobs,
         NoWorkerYet, Idle, WorkerPC, Busy
  <2>2. WorkerPart'
    BY <1>13, ProcessAssumption DEF DropJob, Forget, NextJob, Fault, NoFault,
         Typed, mainVars, WorkerPart, WorkerTypeOK, WorkersHaveJobs,
         NoWorkerYet, Idle, WorkerPC, Busy
  <2>3. FaultPart'
    BY <1>13 DEF DropJob, Forget, NextJob, Fault, NoFault, Typed, FaultPart
  <2> QED
    BY <1>13, <2>1, <2>2, <2>3, Frame DEF DropJob, Typed
<1> QED
  BY <1>1, <1>2, <1>3, <1>4, <1>5, <1>6, <1>7, <1>8, <1>9, <1>10, <1>11, <1>12,
       <1>13

----------------------------------------------------------------------------
(* Uploads, timers and the clock: every action keeps Typed. *)
LEMMA UploadTypes ==
    ASSUME Typed
    PROVE  /\ \A f \in Files : StageUpload(f) => Typed'
           /\ \A f \in Files : RejectUpload(f) => Typed'
           /\ \A f \in Files : AddRecord(f) => Typed'
           /\ \A f \in Files : EnqueueUpload(f) => Typed'
           /\ \A f \in Files : FireTimer(f) => Typed'
           /\ \A f \in Files : Expire(f) => Typed'
<1>1. ASSUME NEW f \in Files, StageUpload(f) PROVE Typed'
  <2>1. DirectoryPart'
    BY <1>1 DEF StageUpload, Typed, DirectoryPart, DirectoryTypeOK, Content,
         CreatorPC
  <2> QED
    BY <1>1, <2>1, Frame DEF StageUpload, Typed, mainVars
<1>2. ASSUME NEW f \in Files, RejectUpload(f) PROVE Typed'
  <2>1. DirectoryPart'
    BY <1>2 DEF RejectUpload, DiskFault, Fault, NoFault, Typed, DirectoryPart,
         DirectoryTypeOK, Content, CreatorPC
  <2>2. FaultPart'
    BY <1>2 DEF RejectUpload, DiskFault, Fault, NoFault, Typed, FaultPart
  <2> QED
    BY <1>2, <2>1, <2>2, Frame DEF RejectUpload, Typed, mainVars
<1>3. ASSUME NEW f \in Files, AddRecord(f) PROVE Typed'
  <2>1. StorePart'
    BY <1>3 DEF AddRecord, Insert, Typed, StorePart, StoreTypeOK, storeVars,
         RowStatus
  <2>2. DirectoryPart'
    BY <1>3 DEF AddRecord, Insert, Typed, DirectoryPart, DirectoryTypeOK,
         Content, CreatorPC
  <2> QED
    BY <1>3, <2>1, <2>2, Frame DEF AddRecord, Typed, mainVars
<1>4. ASSUME NEW f \in Files, EnqueueUpload(f) PROVE Typed'
  <2>1. JobPart'
    BY <1>4, EnqueueTyped DEF EnqueueUpload, Typed, JobPart, JobTypeOK
  <2>2. DirectoryPart'
    BY <1>4 DEF EnqueueUpload, Enqueue, Typed, DirectoryPart, DirectoryTypeOK,
         Content, CreatorPC
  <2> QED
    BY <1>4, <2>1, <2>2, Frame DEF EnqueueUpload, Typed, mainVars
<1>5. ASSUME NEW f \in Files, FireTimer(f) PROVE Typed'
  <2>1. JobPart'
    BY <1>5, EnqueueTyped DEF FireTimer, Typed, JobPart, JobTypeOK
  <2> QED
    BY <1>5, <2>1, Frame DEF FireTimer, Typed, mainVars
<1>6. ASSUME NEW f \in Files, Expire(f) PROVE Typed'
  <2>1. StorePart'
    BY <1>6 DEF Expire, PassExpiry, Typed, StorePart, StoreTypeOK, storeVars,
         RowStatus
  <2> QED
    BY <1>6, <2>1, Frame DEF Expire, PassExpiry, Typed, mainVars
<1> QED
  BY <1>1, <1>2, <1>3, <1>4, <1>5, <1>6

----------------------------------------------------------------------------
(* Deletion requests and the protocol they share with the janitor: every action keeps Typed. *)
LEMMA DeletionTypes ==
    ASSUME Typed
    PROVE  /\ \A d \in Deleters, f \in Files : StartDelete(d, f) => Typed'
           /\ \A c \in Cleaners : BeginDeletion(c) => Typed'
           /\ \A c \in Cleaners : MarkFile(c) => Typed'
           /\ \A c \in Cleaners : WaitForConversion(c) => Typed'
           /\ \A c \in Cleaners : ConversionDone(c) => Typed'
           /\ \A c \in Cleaners : WaitForLease(c) => Typed'
           /\ \A c \in Cleaners : RemoveDirectory(c) => Typed'
           /\ \A c \in Cleaners : EraseRow(c) => Typed'
           /\ \A c \in Cleaners : EndDeletion(c) => Typed'
<1>1. ASSUME NEW d \in Deleters, NEW f \in Files, StartDelete(d, f) PROVE Typed'
  <2>1. CleanerPart'
    BY <1>1, ProcessAssumption DEF StartDelete, Typed, CleanerPart,
         CleanerTypeOK, CleanersHaveFiles, AnswerKnown, CleanerPC, Answers,
         Owning, Cleaners
  <2> QED
    BY <1>1, <2>1, Frame DEF StartDelete, Typed, mainVars
<1>2. ASSUME NEW c \in Cleaners, BeginDeletion(c) PROVE Typed'
  <2>1. LockPart'
    BY <1>2, ProcessAssumption DEF BeginDeletion, MoveCleaner, AfterFile,
         LeaveFile, Typed, LockPart, LockTypeOK, CleanerPart, CleanerTypeOK,
         CleanersHaveFiles, AnswerKnown, CleanerPC, Answers, Owning, Cleaners
  <2>2. CleanerPart'
    BY <1>2, ProcessAssumption DEF BeginDeletion, MoveCleaner, AfterFile,
         LeaveFile, Typed, CleanerPart, CleanerTypeOK, CleanersHaveFiles,
         AnswerKnown, CleanerPC, Answers, Owning, Cleaners
  <2> QED
    BY <1>2, <2>1, <2>2, Frame DEF BeginDeletion, Typed, mainVars
<1>3. ASSUME NEW c \in Cleaners, MarkFile(c) PROVE Typed'
  <2>1. StorePart'
    BY <1>3, ProcessAssumption DEF MarkFile, MoveCleaner, Conclude,
         MarkDeleted, Fault, NoFault, Typed, StorePart, StoreTypeOK, storeVars,
         RowStatus, CleanerPart, CleanerTypeOK, CleanersHaveFiles, AnswerKnown,
         CleanerPC, Answers, Owning, Cleaners
  <2>2. CleanerPart'
    BY <1>3, ProcessAssumption DEF MarkFile, MoveCleaner, Conclude,
         MarkDeleted, Fault, NoFault, Typed, CleanerPart, CleanerTypeOK,
         CleanersHaveFiles, AnswerKnown, CleanerPC, Answers, Owning, Cleaners
  <2>3. FaultPart'
    BY <1>3 DEF MarkFile, MoveCleaner, Conclude, MarkDeleted, Fault, NoFault,
         Typed, FaultPart
  <2> QED
    BY <1>3, <2>1, <2>2, <2>3, Frame DEF MarkFile, Typed, mainVars
<1>4. ASSUME NEW c \in Cleaners, WaitForConversion(c) PROVE Typed'
  <2>1. WorkerPart'
    BY <1>4, ProcessAssumption DEF WaitForConversion, MoveCleaner, InFlight,
         Typed, mainVars, LockPart, LockTypeOK, WorkerPart, WorkerTypeOK,
         WorkersHaveJobs, NoWorkerYet, Idle, WorkerPC, Busy, CleanerPart,
         CleanerTypeOK, CleanersHaveFiles, AnswerKnown, CleanerPC, Answers,
         Owning, Cleaners
  <2>2. CleanerPart'
    BY <1>4, ProcessAssumption DEF WaitForConversion, MoveCleaner, InFlight,
         Typed, LockPart, LockTypeOK, CleanerPart, CleanerTypeOK,
         CleanersHaveFiles, AnswerKnown, CleanerPC, Answers, Owning, Cleaners
  <2> QED
    BY <1>4, <2>1, <2>2, Frame DEF WaitForConversion, Typed
<1>5. ASSUME NEW c \in Cleaners, ConversionDone(c) PROVE Typed'
  <2>1. CleanerPart'
    BY <1>5, ProcessAssumption DEF ConversionDone, MoveCleaner, Typed,
         CleanerPart, CleanerTypeOK, CleanersHaveFiles, AnswerKnown, CleanerPC,
         Answers, Owning, Cleaners
  <2> QED
    BY <1>5, <2>1, Frame DEF ConversionDone, Typed, mainVars
<1>6. ASSUME NEW c \in Cleaners, WaitForLease(c) PROVE Typed'
  <2>1. CleanerPart'
    BY <1>6, ProcessAssumption DEF WaitForLease, MoveCleaner, Typed,
         CleanerPart, CleanerTypeOK, CleanersHaveFiles, AnswerKnown, CleanerPC,
         Answers, Owning, Cleaners
  <2> QED
    BY <1>6, <2>1, Frame DEF WaitForLease, Typed, mainVars
<1>7. ASSUME NEW c \in Cleaners, RemoveDirectory(c) PROVE Typed'
  <2>1. DirectoryPart'
    <3>1. disk[cfile[c]] \subseteq Content
      BY <1>7, ProcessAssumption
         DEF RemoveDirectory, Typed, DirectoryPart, DirectoryTypeOK, CleanerPart,
             CleanerTypeOK, CleanersHaveFiles, Owning
    <3>2. PICK rest \in SUBSET Content : disk' = [disk EXCEPT ![cfile[c]] = rest]
      BY <1>7, <3>1 DEF RemoveDirectory
    <3> QED
      BY <1>7, <3>2 DEF RemoveDirectory, Typed, DirectoryPart, DirectoryTypeOK
  <2>2. CleanerPart'
    BY <1>7, ProcessAssumption DEF RemoveDirectory, MoveCleaner, Conclude,
         DiskFault, Fault, NoFault, Typed, CleanerPart, CleanerTypeOK,
         CleanersHaveFiles, AnswerKnown, CleanerPC, Answers, Owning, Cleaners
  <2>3. FaultPart'
    BY <1>7 DEF RemoveDirectory, MoveCleaner, Conclude, DiskFault, Fault,
         NoFault, Typed, FaultPart
  <2> QED
    BY <1>7, <2>1, <2>2, <2>3, Frame DEF RemoveDirectory, Typed, mainVars
<1>8. ASSUME NEW c \in Cleaners, EraseRow(c) PROVE Typed'
  <2>1. StorePart'
    BY <1>8, ProcessAssumption DEF EraseRow, Conclude, DeleteRow, Fault,
         NoFault, Typed, StorePart, StoreTypeOK, storeVars, RowStatus,
         CleanerPart, CleanerTypeOK, CleanersHaveFiles, AnswerKnown, CleanerPC,
         Answers, Owning, Cleaners
  <2>2. CleanerPart'
    BY <1>8, ProcessAssumption DEF EraseRow, Conclude, DeleteRow, Fault,
         NoFault, Typed, CleanerPart, CleanerTypeOK, CleanersHaveFiles,
         AnswerKnown, CleanerPC, Answers, Owning, Cleaners
  <2>3. FaultPart'
    BY <1>8 DEF EraseRow, Conclude, DeleteRow, Fault, NoFault, Typed, FaultPart
  <2> QED
    BY <1>8, <2>1, <2>2, <2>3, Frame DEF EraseRow, Typed, mainVars
<1>9. ASSUME NEW c \in Cleaners, EndDeletion(c) PROVE Typed'
  <2>1. LockPart'
    BY <1>9, ProcessAssumption DEF EndDeletion, EndsMarker, Unmark, AfterFile,
         LeaveFile, Typed, LockPart, LockTypeOK, CleanerPart, CleanerTypeOK,
         CleanersHaveFiles, AnswerKnown, CleanerPC, Answers, Owning, Cleaners
  <2>2. CleanerPart'
    BY <1>9, ProcessAssumption DEF EndDeletion, EndsMarker, Unmark, AfterFile,
         LeaveFile, Typed, CleanerPart, CleanerTypeOK, CleanersHaveFiles,
         AnswerKnown, CleanerPC, Answers, Owning, Cleaners
  <2> QED
    BY <1>9, <2>1, <2>2, Frame DEF EndDeletion, Typed, mainVars
<1> QED
  BY <1>1, <1>2, <1>3, <1>4, <1>5, <1>6, <1>7, <1>8, <1>9

----------------------------------------------------------------------------
(* The janitor: every action keeps Typed. *)
LEMMA JanitorTypes ==
    ASSUME Typed
    PROVE  /\ StartSweep => Typed'
           /\ \A f \in Files : NextExpired(f) => Typed'
           /\ EndSweep => Typed'
           /\ QuitJanitor => Typed'
<1>1. ASSUME StartSweep PROVE Typed'
  <2>1. CleanerPart'
    BY <1>1, ProcessAssumption DEF StartSweep, ExpiredRow, Typed, CleanerPart,
         CleanerTypeOK, CleanersHaveFiles, AnswerKnown, CleanerPC, Answers,
         Owning, Cleaners
  <2> QED
    BY <1>1, <2>1, Frame DEF StartSweep, Typed, mainVars
<1>2. ASSUME NEW f \in Files, NextExpired(f) PROVE Typed'
  <2>1. CleanerPart'
    BY <1>2, ProcessAssumption DEF NextExpired, Typed, CleanerPart,
         CleanerTypeOK, CleanersHaveFiles, AnswerKnown, CleanerPC, Answers,
         Owning, Cleaners
  <2> QED
    BY <1>2, <2>1, Frame DEF NextExpired, Typed, mainVars
<1>3. ASSUME EndSweep PROVE Typed'
  <2>1. CleanerPart'
    BY <1>3, ProcessAssumption DEF EndSweep, Typed, CleanerPart, CleanerTypeOK,
         CleanersHaveFiles, AnswerKnown, CleanerPC, Answers, Owning, Cleaners
  <2> QED
    BY <1>3, <2>1, Frame DEF EndSweep, Typed, mainVars
<1>4. ASSUME QuitJanitor PROVE Typed'
  <2>1. CleanerPart'
    BY <1>4, ProcessAssumption DEF QuitJanitor, Typed, CleanerPart,
         CleanerTypeOK, CleanersHaveFiles, AnswerKnown, CleanerPC, Answers,
         Owning, Cleaners
  <2> QED
    BY <1>4, <2>1, Frame DEF QuitJanitor, Typed, mainVars
<1> QED
  BY <1>1, <1>2, <1>3, <1>4

----------------------------------------------------------------------------
(* Readers: every action keeps Typed. *)
LEMMA ReaderTypes ==
    ASSUME Typed
    PROVE  /\ \A r \in Readers, f \in Files : StartRead(r, f) => Typed'
           /\ \A r \in Readers : PollAgain(r) => Typed'
           /\ \A r \in Readers : GiveUp(r) => Typed'
           /\ \A r \in Readers : AcquireLease(r) => Typed'
           /\ \A r \in Readers : ReadArtifact(r) => Typed'
           /\ \A r \in Readers : ReleaseLease(r) => Typed'
<1>1. ASSUME NEW r \in Readers, NEW f \in Files, StartRead(r, f) PROVE Typed'
  <2>1. ReaderPart'
    BY <1>1 DEF StartRead, MoveReader, AfterLookup, Typed, ReaderPart,
         ReaderTypeOK, ReadersHaveFiles, ReaderPC
  <2> QED
    BY <1>1, <2>1, Frame DEF StartRead, Typed, mainVars
<1>2. ASSUME NEW r \in Readers, PollAgain(r) PROVE Typed'
  <2>1. ReaderPart'
    BY <1>2 DEF PollAgain, MoveReader, AfterLookup, Fault, NoFault, Typed,
         StorePart, StoreTypeOK, storeVars, RowStatus, ReaderPart,
         ReaderTypeOK, ReadersHaveFiles, ReaderPC
  <2>2. FaultPart'
    BY <1>2 DEF PollAgain, MoveReader, AfterLookup, Fault, NoFault, Typed,
         FaultPart
  <2> QED
    BY <1>2, <2>1, <2>2, Frame DEF PollAgain, Typed, mainVars
<1>3. ASSUME NEW r \in Readers, GiveUp(r) PROVE Typed'
  <2>1. ReaderPart'
    BY <1>3 DEF GiveUp, MoveReader, Typed, ReaderPart, ReaderTypeOK,
         ReadersHaveFiles, ReaderPC
  <2> QED
    BY <1>3, <2>1, Frame DEF GiveUp, Typed, mainVars
<1>4. ASSUME NEW r \in Readers, AcquireLease(r) PROVE Typed'
  <2>1. LockPart'
    BY <1>4, ProcessAssumption DEF AcquireLease, MoveReader, Typed, LockPart,
         LockTypeOK, ReaderPart, ReaderTypeOK, ReadersHaveFiles, ReaderPC
  <2>2. ReaderPart'
    BY <1>4 DEF AcquireLease, MoveReader, Typed, ReaderPart, ReaderTypeOK,
         ReadersHaveFiles, ReaderPC
  <2> QED
    BY <1>4, <2>1, <2>2, Frame DEF AcquireLease, Typed, mainVars
<1>5. ASSUME NEW r \in Readers, ReadArtifact(r) PROVE Typed'
  <2>1. LockPart'
    BY <1>5, ProcessAssumption DEF ReadArtifact, MoveReader, DropLease, Typed,
         LockPart, LockTypeOK, ReaderPart, ReaderTypeOK, ReadersHaveFiles,
         ReaderPC
  <2>2. ReaderPart'
    BY <1>5 DEF ReadArtifact, MoveReader, DropLease, Typed, ReaderPart,
         ReaderTypeOK, ReadersHaveFiles, ReaderPC
  <2> QED
    BY <1>5, <2>1, <2>2, Frame DEF ReadArtifact, Typed, mainVars
<1>6. ASSUME NEW r \in Readers, ReleaseLease(r) PROVE Typed'
  <2>1. LockPart'
    BY <1>6, ProcessAssumption DEF ReleaseLease, MoveReader, DropLease, Typed,
         LockPart, LockTypeOK, ReaderPart, ReaderTypeOK, ReadersHaveFiles,
         ReaderPC
  <2>2. ReaderPart'
    BY <1>6 DEF ReleaseLease, MoveReader, DropLease, Typed, ReaderPart,
         ReaderTypeOK, ReadersHaveFiles, ReaderPC
  <2> QED
    BY <1>6, <2>1, <2>2, Frame DEF ReleaseLease, Typed, mainVars
<1> QED
  BY <1>1, <1>2, <1>3, <1>4, <1>5, <1>6

----------------------------------------------------------------------------
(* The process: every action keeps Typed. *)
LEMMA MainTypes ==
    ASSUME Typed
    PROVE  /\ Boot => Typed'
           /\ \A f \in Files : RemoveOrphan(f) => Typed'
           /\ Run => Typed'
           /\ \A f \in Files : EnqueuePending(f) => Typed'
           /\ Serve => Typed'
           /\ Shutdown => Typed'
           /\ Stop => Typed'
           /\ Exit => Typed'
           /\ Crash => Typed'
           /\ Signal => Typed'
           /\ FailServing => Typed'
<1>1. ASSUME Boot PROVE Typed'
  <2>1. WorkerPart'
    BY <1>1, ProcessAssumption DEF Boot, Typed, workerVars, WorkerPart,
         WorkerTypeOK, WorkersHaveJobs, NoWorkerYet, Idle, WorkerPC, Busy
  <2>2. MainPart'
    BY <1>1 DEF Boot, Typed, MainPart, MainTypeOK, Phases
  <2> QED
    BY <1>1, <2>1, <2>2, Frame DEF Boot, Typed
<1>2. ASSUME NEW f \in Files, RemoveOrphan(f) PROVE Typed'
  <2>1. DirectoryPart'
    BY <1>2 DEF RemoveOrphan, Typed, DirectoryPart, DirectoryTypeOK, Content,
         CreatorPC
  <2> QED
    BY <1>2, <2>1, Frame DEF RemoveOrphan, Typed, mainVars
<1>3. ASSUME Run PROVE Typed'
  <2>1. JobPart'
    BY <1>3 DEF Run, PendingRows, Typed, JobPart, JobTypeOK
  <2>2. WorkerPart'
    BY <1>3, ProcessAssumption DEF Run, PendingRows, Typed, WorkerPart,
         WorkerTypeOK, WorkersHaveJobs, NoWorkerYet, Idle, WorkerPC, Busy
  <2>3. CleanerPart'
    BY <1>3, ProcessAssumption DEF Run, PendingRows, Typed, CleanerPart,
         CleanerTypeOK, CleanersHaveFiles, AnswerKnown, CleanerPC, Answers,
         Owning, Cleaners
  <2>4. MainPart'
    BY <1>3 DEF Run, PendingRows, Typed, MainPart, MainTypeOK, Phases
  <2> QED
    BY <1>3, <2>1, <2>2, <2>3, <2>4, Frame DEF Run, Typed
<1>4. ASSUME NEW f \in Files, EnqueuePending(f) PROVE Typed'
  <2>1. JobPart'
    BY <1>4, EnqueueTyped DEF EnqueuePending, Typed, JobPart, JobTypeOK
  <2> QED
    BY <1>4, <2>1, Frame DEF EnqueuePending, Typed, mainVars
<1>5. ASSUME Serve PROVE Typed'
  <2>1. WorkerPart'
    BY <1>5, ProcessAssumption DEF Serve, Advance, Typed, workerVars,
         WorkerPart, WorkerTypeOK, WorkersHaveJobs, NoWorkerYet, Idle,
         WorkerPC, Busy
  <2>2. MainPart'
    BY <1>5 DEF Serve, Advance, Typed, MainPart, MainTypeOK, Phases
  <2> QED
    BY <1>5, <2>1, <2>2, Frame DEF Serve, Advance, Typed
<1>6. ASSUME Shutdown PROVE Typed'
  <2>1. WorkerPart'
    BY <1>6, ProcessAssumption DEF Shutdown, Advance, Typed, workerVars,
         WorkerPart, WorkerTypeOK, WorkersHaveJobs, NoWorkerYet, Idle,
         WorkerPC, Busy
  <2>2. MainPart'
    BY <1>6 DEF Shutdown, Advance, Typed, MainPart, MainTypeOK, Phases
  <2> QED
    BY <1>6, <2>1, <2>2, Frame DEF Shutdown, Advance, Typed
<1>7. ASSUME Stop PROVE Typed'
  <2>1. WorkerPart'
    BY <1>7, ProcessAssumption DEF Stop, Advance, Typed, workerVars,
         WorkerPart, WorkerTypeOK, WorkersHaveJobs, NoWorkerYet, Idle,
         WorkerPC, Busy
  <2>2. MainPart'
    BY <1>7 DEF Stop, Advance, Typed, MainPart, MainTypeOK, Phases
  <2> QED
    BY <1>7, <2>1, <2>2, Frame DEF Stop, Advance, Typed
<1>8. ASSUME Exit PROVE Typed'
  <2>1. DirectoryPart'
    BY <1>8 DEF Exit, LoseMemory, Typed, DirectoryPart, DirectoryTypeOK,
         Content, CreatorPC
  <2>2. JobPart'
    BY <1>8 DEF Exit, LoseMemory, Typed, JobPart, JobTypeOK
  <2>3. LockPart'
    BY <1>8, ProcessAssumption DEF Exit, LoseMemory, Typed, LockPart,
         LockTypeOK
  <2>4. WorkerPart'
    BY <1>8, ProcessAssumption DEF Exit, LoseMemory, Typed, WorkerPart,
         WorkerTypeOK, WorkersHaveJobs, NoWorkerYet, Idle, WorkerPC, Busy
  <2>5. CleanerPart'
    BY <1>8, ProcessAssumption DEF Exit, LoseMemory, Typed, CleanerPart,
         CleanerTypeOK, CleanersHaveFiles, AnswerKnown, CleanerPC, Answers,
         Owning, Cleaners
  <2>6. ReaderPart'
    BY <1>8 DEF Exit, LoseMemory, Typed, ReaderPart, ReaderTypeOK,
         ReadersHaveFiles, ReaderPC
  <2>7. MainPart'
    BY <1>8 DEF Exit, LoseMemory, Typed, MainPart, MainTypeOK, Phases
  <2> QED
    BY <1>8, <2>1, <2>2, <2>3, <2>4, <2>5, <2>6, <2>7, Frame DEF Exit,
         LoseMemory, Typed
<1>9. ASSUME Crash PROVE Typed'
  <2>1. DirectoryPart'
    BY <1>9 DEF Crash, LoseMemory, Typed, DirectoryPart, DirectoryTypeOK,
         Content, CreatorPC
  <2>2. JobPart'
    BY <1>9 DEF Crash, LoseMemory, Typed, JobPart, JobTypeOK
  <2>3. LockPart'
    BY <1>9, ProcessAssumption DEF Crash, LoseMemory, Typed, LockPart,
         LockTypeOK
  <2>4. WorkerPart'
    BY <1>9, ProcessAssumption DEF Crash, LoseMemory, Typed, WorkerPart,
         WorkerTypeOK, WorkersHaveJobs, NoWorkerYet, Idle, WorkerPC, Busy
  <2>5. CleanerPart'
    BY <1>9, ProcessAssumption DEF Crash, LoseMemory, Typed, CleanerPart,
         CleanerTypeOK, CleanersHaveFiles, AnswerKnown, CleanerPC, Answers,
         Owning, Cleaners
  <2>6. ReaderPart'
    BY <1>9 DEF Crash, LoseMemory, Typed, ReaderPart, ReaderTypeOK,
         ReadersHaveFiles, ReaderPC
  <2>7. MainPart'
    BY <1>9 DEF Crash, LoseMemory, Typed, MainPart, MainTypeOK, Phases
  <2> QED
    BY <1>9, <2>1, <2>2, <2>3, <2>4, <2>5, <2>6, <2>7, Frame DEF Crash,
         LoseMemory, Typed
<1>10. ASSUME Signal PROVE Typed'
  <2>1. MainPart'
    BY <1>10 DEF Signal, Typed, MainPart, MainTypeOK, Phases
  <2> QED
    BY <1>10, <2>1, Frame DEF Signal, Typed
<1>11. ASSUME FailServing PROVE Typed'
  <2>1. WorkerPart'
    BY <1>11, ProcessAssumption DEF FailServing, Advance, Typed, workerVars,
         WorkerPart, WorkerTypeOK, WorkersHaveJobs, NoWorkerYet, Idle,
         WorkerPC, Busy
  <2>2. MainPart'
    BY <1>11 DEF FailServing, Advance, Typed, MainPart, MainTypeOK, Phases
  <2> QED
    BY <1>11, <2>1, <2>2, Frame DEF FailServing, Advance, Typed
<1> QED
  BY <1>1, <1>2, <1>3, <1>4, <1>5, <1>6, <1>7, <1>8, <1>9, <1>10, <1>11

----------------------------------------------------------------------------

(* Initially nothing is stored and nobody has a file. *)
LEMMA InitTyped == Init => Typed
<1> SUFFICES ASSUME Init PROVE Typed
  OBVIOUS
<1>1. StorePart /\ DirectoryPart /\ JobPart /\ LockPart
  BY DEF Init, StoreInit, StorePart, StoreTypeOK, RowStatus, DirectoryPart,
         DirectoryTypeOK, Content, CreatorPC, JobPart, JobTypeOK, LockPart,
         LockTypeOK
<1>2. WorkerPart
  BY DEF Init, WorkerPart, WorkerTypeOK, WorkersHaveJobs, NoWorkerYet,
         WorkerPC, Busy
<1>3. CleanerPart
  BY DEF Init, CleanerPart, CleanerTypeOK, CleanersHaveFiles, AnswerKnown,
         CleanerPC, Answers, Owning
<1>4. ReaderPart /\ MainPart /\ FaultPart
  BY DEF Init, ReaderPart, ReaderTypeOK, ReadersHaveFiles, ReaderPC, MainPart,
         MainTypeOK, Phases, FaultPart
<1> QED
  BY <1>1, <1>2, <1>3, <1>4 DEF Typed

(* Whoever moves, the variables keep their types. *)
LEMMA StepTyped == Typed /\ [Next]_vars => Typed'
<1> SUFFICES ASSUME Typed, [Next]_vars PROVE Typed'
  OBVIOUS
<1>1. CASE UNCHANGED vars
  BY <1>1, Frame DEF vars, mainVars, Typed
<1>2. ASSUME NEW w \in Workers, WorkerStep(w) PROVE Typed'
  BY <1>2, WorkerTypes DEF WorkerStep
<1>3. ASSUME NEW f \in Files,
             StageUpload(f) \/ CreateStep(f) \/ FireTimer(f) \/ Expire(f)
      PROVE  Typed'
  BY <1>3, UploadTypes DEF CreateStep
<1>4. ASSUME NEW d \in Deleters, NEW f \in Files, StartDelete(d, f) PROVE Typed'
  BY <1>4, DeletionTypes
<1>5. ASSUME NEW c \in Cleaners, DeletionStep(c) PROVE Typed'
  BY <1>5, DeletionTypes DEF DeletionStep
<1>6. CASE JanitorStep
  BY <1>6, JanitorTypes DEF JanitorStep
<1>7. ASSUME NEW r \in Readers, NEW f \in Files, StartRead(r, f) PROVE Typed'
  BY <1>7, ReaderTypes
<1>8. ASSUME NEW r \in Readers, ReaderStep(r) \/ GiveUp(r) PROVE Typed'
  BY <1>8, ReaderTypes DEF ReaderStep
<1>9. CASE MainStep \/ Signal \/ FailServing \/ Crash
  BY <1>9, MainTypes DEF MainStep
<1> QED
  BY <1>1, <1>2, <1>3, <1>4, <1>5, <1>6, <1>7, <1>8, <1>9 DEF Next

(* Every variable keeps its type, and a goroutine has a file in hand exactly
   where the code dereferences one (service.go:569-616, 328-360, 785-825). *)
THEOREM ServiceTypes ==
    SafeSpec => [](TypeOK /\ FilesInHand /\ AnswerKnown /\ NoWorkerYet)
<1>1. Typed => TypeOK /\ FilesInHand /\ AnswerKnown /\ NoWorkerYet
  BY DEF Typed, TypeOK, FilesInHand, StorePart, DirectoryPart, JobPart,
         LockPart, WorkerPart, CleanerPart, ReaderPart, MainPart, FaultPart
<1> QED
  BY <1>1, InitTyped, StepTyped, PTL DEF SafeSpec
=============================================================================
