------------------------- MODULE FileServiceContract -------------------------
(***************************************************************************)
(* What becomes of a row and what a reader is given, in module             *)
(* FileService, for any number of files, workers, requests, retries and    *)
(* restarts: RetryStateReclaimed, MissingOnlyWhenDeleted,                  *)
(* LeasedArtifactsStay, while nothing fails NoStrandedFile, and while the  *)
(* file system does not, ServedWhileUsing and the contract of module       *)
(* FileContract.                                                           *)
(***************************************************************************)
EXTENDS FileServiceStorage

----------------------------------------------------------------------------
(* Where jobs come from and go to *)

(* Jobs move only when a worker takes or settles one, when Create, a timer or
   recovery adds one, and when the process starts or ends. *)
LEMMA JobsUndisturbed ==
    Next => \/ UNCHANGED jobVars
            \/ \E w \in Workers : GetJob(w) \/ Succeed(w) \/ FailJob(w)
                                    \/ RetryJob(w) \/ DropJob(w)
            \/ \E f \in Files : EnqueueUpload(f) \/ FireTimer(f) \/ EnqueuePending(f)
            \/ Run \/ LoseMemory
<1>1. ASSUME NEW w \in Workers, WorkerStep(w)
      PROVE  \/ UNCHANGED jobVars
             \/ GetJob(w) \/ Succeed(w) \/ FailJob(w) \/ RetryJob(w) \/ DropJob(w)
  BY <1>1 DEF WorkerStep, QuitWorker, BeginConversion, LookUpJob, MarkProcessing,
       PrepareOutput, Render, Publish, EndConversion
<1>2. ASSUME NEW f \in Files,
             \/ StageUpload(f) \/ CreateStep(f) \/ FireTimer(f) \/ Expire(f)
             \/ RemoveOrphan(f) \/ EnqueuePending(f)
      PROVE  \/ UNCHANGED jobVars
             \/ EnqueueUpload(f) \/ FireTimer(f) \/ EnqueuePending(f)
  BY <1>2 DEF StageUpload, CreateStep, RejectUpload, AddRecord, Expire, RemoveOrphan
<1>3. ASSUME CleanerMoves PROVE UNCHANGED jobVars
  BY <1>3 DEF CleanerMoves, StartDelete, DeletionStep, BeginDeletion, MarkFile,
       WaitForConversion, ConversionDone, WaitForLease, RemoveDirectory, EraseRow,
       EndDeletion, JanitorStep, StartSweep, EndSweep, QuitJanitor, NextExpired
<1>4. CASE \/ \E r \in Readers, f \in Files : StartRead(r, f)
           \/ \E r \in Readers : ReaderStep(r) \/ GiveUp(r)
           \/ Boot \/ Serve \/ Shutdown \/ Stop \/ Signal \/ FailServing
  BY <1>4 DEF StartRead, ReaderStep, PollAgain, AcquireLease, ReadArtifact,
       ReleaseLease, GiveUp, Boot, Serve, Shutdown, Stop, Signal, FailServing, Advance
<1> QED
  BY <1>1, <1>2, <1>3, <1>4, NextSplits DEF OtherThanCleaners

(* A file enters the queue from its upload, its timer or Run, and leaves it for
   a worker or with the process. *)
LEMMA QueueChanges ==
    ASSUME Known, Next, NEW f \in Files
    PROVE  /\ ~Queued(f) /\ Queued(f)' =>
                EnqueueUpload(f) \/ FireTimer(f) \/ EnqueuePending(f)
           /\ Queued(f) /\ ~Queued(f)' =>
                LoseMemory \/ \E w \in Workers : GetJob(w) /\ wjob'[w] = f
<1>0. queue \in Seq(Files) /\ Distinct(queue) /\ wjob \in [Workers -> Files \cup {None}]
  BY DEF Known, Typed, JobPart, JobTypeOK, JobCore, SingleFlight, Distinct,
         WorkerPart, WorkerTypeOK
<1>1. ASSUME NEW w \in Workers, GetJob(w)
      PROVE  /\ Queued(f)' => Queued(f)
             /\ Queued(f) /\ ~Queued(f)' => wjob'[w] = f
  <2>1. queue # <<>> /\ queue' = Tail(queue) /\ wjob'[w] = Head(queue)
    BY <1>0, <1>1 DEF GetJob
  <2> QED
    BY <1>0, <2>1, TailHolds DEF Queued, Holds
<1>2. ASSUME NEW g \in Files, Enqueue(g)
      PROVE  Queued(f)' <=> Queued(f) \/ f = g
  BY <1>0, <1>2, AppendHolds DEF Enqueue, Queued, Holds
<1>3. ASSUME NEW g \in Files, EnqueueUpload(g) \/ FireTimer(g) \/ EnqueuePending(g)
      PROVE  Enqueue(g) \/ UNCHANGED queue
  BY <1>3 DEF EnqueueUpload, FireTimer, EnqueuePending
<1>4. ASSUME UNCHANGED queue PROVE Queued(f)' <=> Queued(f)
  BY <1>4 DEF Queued
<1>5. ASSUME NEW w \in Workers, Succeed(w) \/ FailJob(w) \/ RetryJob(w) \/ DropJob(w)
      PROVE  UNCHANGED queue
  BY <1>5 DEF Succeed, FailJob, RetryJob, DropJob, StartTimer
<1>6. Run => UNCHANGED queue
  BY DEF Run
<1>7. LoseMemory => ~Queued(f)'
  <2>1. ASSUME LoseMemory PROVE DOMAIN queue' = {}
    BY <2>1 DEF LoseMemory
  <2> QED
    BY <2>1 DEF Queued
<1>8. UNCHANGED jobVars => UNCHANGED queue
  BY DEF jobVars
<1> QED
  BY <1>1, <1>2, <1>3, <1>4, <1>5, <1>6, <1>7, <1>8, JobsUndisturbed

(* A timer is started by a retry and fires into the queue; Run recovers the
   pending rows and enqueues them; retryCount is reset with the job. *)
LEMMA TimerChanges ==
    ASSUME Known, Next, NEW f \in Files
    PROVE  /\ f \notin timers /\ f \in timers' =>
                \E w \in Workers : wjob[w] = f /\ RetryJob(w)
           /\ f \in timers /\ f \notin timers' =>
                LoseMemory \/ (FireTimer(f) /\ (Queued(f)' \/ halted))
           /\ f \notin pending /\ f \in pending' => Run /\ f \in PendingRows
           /\ f \in pending /\ f \notin pending' =>
                LoseMemory \/ (EnqueuePending(f) /\ Queued(f)')
           /\ retries'[f] # retries[f] =>
                \/ retries'[f] = 0
                \/ \E w \in Workers : wjob[w] = f /\ RetryJob(w) /\ f \in timers'
<1>0. /\ queue \in Seq(Files)
      /\ retries \in [Files -> Nat]
      /\ wjob \in [Workers -> Files \cup {None}]
  BY DEF Known, Typed, JobPart, JobTypeOK, WorkerPart, WorkerTypeOK
<1>1. ASSUME NEW g \in Files, Enqueue(g) PROVE Queued(g)'
  BY <1>0, <1>1, AppendHolds DEF Enqueue, Queued, Holds
<1>2. ASSUME NEW w \in Workers, GetJob(w)
      PROVE  UNCHANGED <<timers, pending, retries>>
  BY <1>2 DEF GetJob
<1>3. ASSUME NEW w \in Workers, Succeed(w) \/ FailJob(w) \/ DropJob(w)
      PROVE  /\ UNCHANGED <<timers, pending>>
             /\ retries'[f] # retries[f] => retries'[f] = 0
  BY <1>0, <1>3 DEF Succeed, FailJob, DropJob, Forget
<1>4. ASSUME NEW w \in Workers, RetryJob(w)
      PROVE  /\ timers' = timers \cup {wjob[w]} /\ UNCHANGED pending
             /\ retries'[f] # retries[f] => wjob[w] = f
  BY <1>0, <1>4 DEF RetryJob, StartTimer
<1>5. ASSUME NEW g \in Files, FireTimer(g)
      PROVE  /\ timers' = timers \ {g} /\ UNCHANGED <<pending, retries>>
             /\ Queued(g)' \/ halted
  BY <1>1, <1>5 DEF FireTimer
<1>6. ASSUME NEW g \in Files, EnqueuePending(g)
      PROVE  /\ pending' = pending \ {g} /\ UNCHANGED <<timers, retries>>
             /\ Queued(g)'
  BY <1>1, <1>6 DEF EnqueuePending
<1>7. ASSUME NEW g \in Files, EnqueueUpload(g)
      PROVE  UNCHANGED <<timers, pending, retries>>
  BY <1>7 DEF EnqueueUpload
<1>8. ASSUME Run PROVE pending' = PendingRows /\ UNCHANGED <<timers, retries>> /\ f \notin pending
  BY <1>8 DEF Run, Known, JobCore, BeforeStart, Idle, HasJob
<1>9. LoseMemory => timers' = {} /\ pending' = {} /\ retries'[f] = 0
  BY DEF LoseMemory
<1> QED
  BY <1>2, <1>3, <1>4, <1>5, <1>6, <1>7, <1>8, <1>9, JobsUndisturbed DEF jobVars

(* A worker takes a job from the queue and lets it go in handleErr. *)
LEMMA HandChanges ==
    ASSUME Known, Next, NEW w \in Workers, wjob'[w] # wjob[w]
    PROVE  \/ GetJob(w) /\ wjob[w] = None /\ Queued(wjob'[w])
           \/ /\ Succeed(w) \/ FailJob(w) \/ RetryJob(w) \/ DropJob(w)
              /\ wjob'[w] = None
           \/ LoseMemory /\ wjob'[w] = None
<1>0. /\ wjob \in [Workers -> Files \cup {None}]
      /\ queue \in Seq(Files) /\ Distinct(queue)
  BY DEF Known, Typed, WorkerPart, WorkerTypeOK, JobPart, JobTypeOK, JobCore,
         SingleFlight, Distinct
<1>1. CASE GetJob(w)
  <2>1. wjob[w] = None
    BY <1>1 DEF GetJob, Known, Typed, WorkerPart, WorkersHaveJobs, Busy
  <2>2. queue # <<>> /\ wjob'[w] = Head(queue)
    BY <1>0, <1>1 DEF GetJob
  <2> QED
    BY <1>0, <1>1, <2>1, <2>2, TailHolds DEF Queued, Holds
<1>2. CASE Succeed(w) \/ FailJob(w) \/ RetryJob(w) \/ DropJob(w)
  BY <1>0, <1>2 DEF Succeed, FailJob, RetryJob, DropJob, NextJob
<1>3. ASSUME WorkerStep(w),
             ~(GetJob(w) \/ Succeed(w) \/ FailJob(w) \/ RetryJob(w) \/ DropJob(w))
      PROVE  FALSE
  BY <1>3 DEF WorkerStep, QuitWorker, BeginConversion, LookUpJob, MarkProcessing,
       PrepareOutput, Render, Publish, EndConversion
<1>4. Run => UNCHANGED wjob
  BY DEF Run
<1>5. LoseMemory => wjob'[w] = None
  BY DEF LoseMemory
<1> QED
  BY <1>1, <1>2, <1>3, <1>4, <1>5, WorkerChanges DEF Known
(* A worker that has settled its file stays so until it lets go of it, and one
   gets there only by publishing or by finding the file deleted. *)
LEMMA SettledChanges ==
    ASSUME Known, Next, NEW w \in Workers
    PROVE  /\ Settled(w) /\ ~Settled(w)' => wjob'[w] = None
           /\ ~Settled(w) /\ Settled(w)' =>
                /\ wjob'[w] = wjob[w]
                /\ \/ UNCHANGED storeVars /\ ~Undeleted(wjob[w])
                   \/ UpdateStatus(wjob[w], "processed")
<1>0. /\ wpc \in [Workers -> WorkerPC]
      /\ wjob \in [Workers -> Files \cup {None}]
      /\ werr \in [Workers -> {"none", "retryable", "permanent"}]
      /\ "none" \notin Errors
  BY DEF Known, Typed, WorkerPart, WorkerTypeOK, Errors
<1>1. CASE LookUpJob(w)
  BY <1>0, <1>1 DEF LookUpJob, ConvertReturns, Settled
<1>2. CASE MarkProcessing(w)
  <2>1. ~Updatable(wjob[w]) /\ UpdateStatus(wjob[w], "processing") =>
            UNCHANGED storeVars
    BY DEF UpdateStatus, storeVars
  <2> QED
    BY <1>0, <1>2, <2>1 DEF MarkProcessing, ConvertReturns, Settled, Updatable
<1>3. CASE Publish(w)
  BY <1>0, <1>3 DEF Publish, ConvertReturns, Settled
<1>4. CASE Succeed(w) \/ FailJob(w) \/ RetryJob(w) \/ DropJob(w)
  <2>1. wpc'[w] = "get" /\ wjob'[w] = None
    BY <1>0, <1>4 DEF Succeed, FailJob, RetryJob, DropJob, NextJob
  <2> QED
    BY <2>1 DEF Settled
<1>5. CASE EndConversion(w)
  BY <1>0, <1>5 DEF EndConversion, Settled
<1>6. CASE GetJob(w) \/ QuitWorker(w) \/ BeginConversion(w)
  BY <1>0, <1>6 DEF GetJob, QuitWorker, BeginConversion, Settled
<1>7. CASE PrepareOutput(w) \/ Render(w)
  BY <1>0, <1>7 DEF PrepareOutput, Render, ConvertReturns, Settled
<1>8. CASE Run \/ LoseMemory
  <2>1. Run => ~Settled(w)
    BY DEF Run, Known, Typed, WorkerPart, NoWorkerYet, Idle, Settled
  <2>2. wpc'[w] \in {"get", "exited"} /\ (LoseMemory => wjob'[w] = None)
    BY <1>8 DEF Run, LoseMemory
  <2> QED
    BY <1>8, <2>1, <2>2 DEF Settled
<1>9. CASE ~WorkerStep(w) /\ ~Run /\ ~LoseMemory
  BY <1>9, WorkerChanges DEF Known, Settled
<1> QED
  BY <1>1, <1>2, <1>3, <1>4, <1>5, <1>6, <1>7, <1>8, <1>9 DEF WorkerStep

(* An unsettled file was so before, unless it was just stored or recovered. *)
LEMMA UnsettledBefore ==
    ASSUME Known, Next, NEW f \in Files, Unsettled(f)'
    PROVE  Unsettled(f) \/ AddRecord(f) \/ (Run /\ f \in PendingRows)
<1>0. f # None
  BY ProcessAssumption
<1>1. CASE Queued(f)'
  BY <1>1, QueueChanges DEF Unsettled, EnqueueUpload, FireTimer, EnqueuePending
<1>2. CASE f \in timers'
  <2>1. ASSUME NEW w \in Workers, RetryJob(w) PROVE ~Settled(w)
    BY <2>1 DEF RetryJob, RetriesLeft, Settled
  <2> QED
    BY <1>2, <2>1, TimerChanges DEF Unsettled
<1>3. CASE f \in pending'
  BY <1>3, TimerChanges DEF Unsettled
<1>4. CASE creator'[f] = "stored"
  BY <1>4, CreatorChanges DEF Known, Unsettled
<1>5. ASSUME NEW w \in Workers, wjob'[w] = f, ~Settled(w)'
      PROVE  Unsettled(f)
  <2>1. CASE wjob[w] = f
    BY <1>0, <1>5, <2>1, SettledChanges DEF Unsettled
  <2>2. CASE wjob[w] # f
    BY <1>0, <1>5, <2>2, HandChanges DEF Unsettled
  <2> QED
    BY <2>1, <2>2
<1> QED
  BY <1>1, <1>2, <1>3, <1>4, <1>5 DEF Unsettled

(* A job ends with what its worker reports, or at a shutdown. *)
LEMMA JobLost ==
    ASSUME Known, Next, NEW f \in Files, HasJob(f), ~HasJob(f)'
    PROVE  \/ LoseMemory \/ halted \/ phase = "stopping"
           \/ \E w \in Workers :
                wjob[w] = f /\ (Succeed(w) \/ FailJob(w) \/ DropJob(w))
<1> SUFFICES ASSUME ~LoseMemory, ~halted, phase # "stopping"
             PROVE  \E w \in Workers :
                       wjob[w] = f /\ (Succeed(w) \/ FailJob(w) \/ DropJob(w))
  OBVIOUS
<1>1. ~Queued(f)' /\ f \notin timers' /\ f \notin pending' /\ creator'[f] # "stored"
      /\ \A w \in Workers : wjob'[w] # f
  BY DEF HasJob, Held
<1>2. ~Queued(f)
  BY <1>1, QueueChanges
<1>3. f \notin timers /\ f \notin pending
  BY <1>1, TimerChanges
<1>4. creator[f] # "stored"
  <2>1. ASSUME EnqueueUpload(f) PROVE Enqueue(f)
    BY <2>1 DEF EnqueueUpload, LifecycleDone
  <2>2. queue \in Seq(Files)
    BY DEF Known, Typed, JobPart, JobTypeOK
  <2>3. ~EnqueueUpload(f)
    BY <1>1, <2>1, <2>2, AppendHolds DEF Enqueue, Queued, Holds
  <2> QED
    BY <1>1, <2>3, CreatorChanges DEF Known, StageUpload, RejectUpload, AddRecord
<1>5. PICK w \in Workers : wjob[w] = f
  BY <1>2, <1>3, <1>4 DEF HasJob, Held
<1>6. ~RetryJob(w)
  BY <1>1, <1>5 DEF RetryJob, StartTimer
<1> QED
  BY <1>1, <1>5, <1>6, ProcessAssumption, HandChanges

----------------------------------------------------------------------------
(* RowInv, part by part *)

Rows == Stored /\ RowInv

(* A file with a job is not settled: who settles it has its only job, and lets
   go of it (service.go:641-668). *)
LEMMA PendingKept ==
    ASSUME Rows, Next PROVE JobIsPending'
<1> USE DEF Rows, Stored
<1> SUFFICES ASSUME NEW f \in Files, Undeleted(f)', Unsettled(f)'
             PROVE  status'[f] \in {"uploaded", "processing"}
  BY DEF JobIsPending
<1>1. CASE ~Undeleted(f)
  BY <1>1, RowBorn
<1>2. CASE Undeleted(f)
  <2>1. ~AddRecord(f)
    BY <1>2 DEF AddRecord, Known, JobCore, BeforeStart, Undeleted, HasRow, RowStatus
  <2>2. status[f] \in {"uploaded", "processing"}
    BY <1>2, <2>1, UnsettledBefore DEF RowInv, JobIsPending, PendingRows
  <2>3. JobCore'
    BY StepKnown DEF Known
  <2>4. ASSUME NEW w \in Workers, wjob[w] = f, Publish(w),
               wpc'[w] = "end" /\ werr'[w] = "none"
        PROVE  FALSE
    <3>1. wjob'[w] = f /\ Settled(w)'
      BY <2>4 DEF Publish, Settled
    <3>2. ~Queued(f)' /\ f \notin timers' /\ f \notin pending'
          /\ creator'[f] # "stored"
          /\ \A v \in Workers : wjob'[v] = f => v = w
      BY <2>3, <3>1, ProcessAssumption DEF JobCore, SingleFlight, Held
    <3> QED
      BY <3>1, <3>2 DEF Unsettled
  <2>5. ASSUME NEW w \in Workers, wjob[w] = f, FailJob(w) PROVE FALSE
    <3>1. /\ ~Queued(f) /\ f \notin timers /\ f \notin pending
          /\ creator[f] # "stored"
          /\ \A v \in Workers : wjob[v] = f => v = w
      BY <2>5, ProcessAssumption DEF Known, JobCore, SingleFlight, Held
    <3>2. /\ ~Queued(f)' /\ UNCHANGED <<timers, pending, creator>>
      BY <3>1, <2>5 DEF FailJob, Queued
    <3>3. \A v \in Workers : wjob'[v] # f
      BY <2>5, <3>1, ProcessAssumption
         DEF FailJob, NextJob, Known, Typed, WorkerPart, WorkerTypeOK
    <3> QED
      BY <3>1, <3>2, <3>3 DEF Unsettled
  <2>6. CASE status'[f] # status[f]
    BY <2>1, <2>4, <2>5, <2>6, StatusChanges DEF Known, Undeleted, HasRow, RowStatus
  <2> QED
    BY <2>2, <2>6
<1> QED
  BY <1>1, <1>2

(* A worker that reports success found its file deleted or published it, and
   nobody else settles it again. *)
LEMMA FinalKept ==
    ASSUME Rows, Next PROVE SettledIsFinal'
<1> USE DEF Rows, Stored
<1> SUFFICES ASSUME NEW w \in Workers, Settled(w)', Undeleted(wjob[w])'
             PROVE  status'[wjob'[w]] \in {"processed", "failed"}
  BY DEF SettledIsFinal
<1>0. /\ wjob' \in [Workers -> Files \cup {None}]
      /\ wpc'[w] \in Busy => wjob'[w] # None
      /\ status \in [Files -> RowStatus \cup {"absent", "removed"}]
  BY StepKnown DEF Known, Typed, WorkerPart, WorkerTypeOK, WorkersHaveJobs,
                   StorePart, StoreTypeOK
<1>1. PICK f \in Files : f = wjob'[w]
  BY <1>0 DEF Settled, Busy, WorkerPC
<1>2. Undeleted(f)' /\ f # None
  BY <1>1, ProcessAssumption DEF Undeleted, HasRow
<1>3. CASE Settled(w)
  <2>1. wjob[w] = f
    BY <1>1, <1>2, <1>3, HandChanges DEF GetJob, Settled
  <2>2. Undeleted(f)
    <3>1. creator[f] # "staged"
      BY <2>1 DEF Known, JobCore, BeforeStart, HasJob, Held
    <3> QED
      BY <1>2, <3>1, RowBorn
  <2>3. status[f] \in {"processed", "failed"}
    BY <1>3, <2>1, <2>2 DEF RowInv, SettledIsFinal
  <2>4. ~(MarkProcessing(w) \/ Publish(w) \/ FailJob(w))
    BY <1>3 DEF Settled, MarkProcessing, Publish, FailJob
  <2>5. status'[f] = status[f]
    BY <1>2, <2>1, <2>4, HeldRow DEF Undeleted, HasRow, RowStatus
  <2> QED
    BY <1>1, <2>3, <2>5
<1>4. CASE ~Settled(w)
  <2>1. wjob[w] = f
    BY <1>1, <1>4, SettledChanges
  <2>2. ~UNCHANGED storeVars \/ Undeleted(f)
    BY <1>2 DEF storeVars, Undeleted, HasRow
  <2>3. UpdateStatus(f, "processed")
    BY <1>4, <2>1, <2>2, SettledChanges
  <2>4. CASE Undeleted(f)
    BY <1>0, <1>1, <2>3, <2>4 DEF UpdateStatus, Updatable
  <2>5. CASE ~Undeleted(f)
    BY <1>2, <2>3, <2>5 DEF UpdateStatus, Updatable, Undeleted, HasRow
  <2> QED
    BY <2>4, <2>5
<1> QED
  BY <1>3, <1>4

(* The retry counter goes with the job: with what handleErr makes of it, or with
   the process. *)
LEMMA RetriesKept ==
    ASSUME Rows, Next PROVE RetryStateReclaimed'
<1> USE DEF Rows, Stored
<1> SUFFICES ASSUME ~halted', NEW f \in Files, retries'[f] > 0 PROVE HasJob(f)'
  BY DEF RetryStateReclaimed
<1>1. CASE retries'[f] # retries[f]
  BY <1>1, TimerChanges DEF HasJob
<1>2. CASE retries'[f] = retries[f]
  <2>1. ~LoseMemory
    BY DEF LoseMemory
  <2>2. ~halted /\ phase # "stopping"
    BY <2>1, PhaseChanges DEF Known, RowInv, StopsOnSignal
  <2>3. HasJob(f)
    BY <1>2, <2>2 DEF RowInv, RetryStateReclaimed
  <2>4. ASSUME NEW w \in Workers, wjob[w] = f, Succeed(w) \/ FailJob(w) \/ DropJob(w)
        PROVE  retries'[f] = 0
    BY <2>4 DEF Succeed, FailJob, DropJob, Forget, Known, Typed, JobPart, JobTypeOK
  <2> QED
    BY <2>1, <2>2, <2>3, <2>4, JobLost
<1> QED
  BY <1>1, <1>2

(* A call that fails is counted, and nothing takes it back. *)
LEMMA FaultsGrow ==
    Next => Fault \/ NoFault
<1>1. ASSUME NEW w \in Workers, WorkerStep(w) PROVE Fault \/ NoFault
  BY <1>1 DEF WorkerStep, GetJob, QuitWorker, BeginConversion, LookUpJob,
       MarkProcessing, PrepareOutput, Render, Publish, EndConversion, Succeed,
       FailJob, RetryJob, DropJob, PartlyRemoved, DiskFault, NoFault
<1>2. ASSUME CleanerMoves PROVE Fault \/ NoFault
  BY <1>2 DEF CleanerMoves, StartDelete, DeletionStep, BeginDeletion, MarkFile,
       WaitForConversion, ConversionDone, WaitForLease, RemoveDirectory, EraseRow,
       EndDeletion, JanitorStep, StartSweep, EndSweep, QuitJanitor, NextExpired,
       DiskFault, NoFault
<1>3. ASSUME NEW f \in Files,
             \/ StageUpload(f) \/ CreateStep(f) \/ FireTimer(f) \/ Expire(f)
             \/ RemoveOrphan(f) \/ EnqueuePending(f)
      PROVE  Fault \/ NoFault
  BY <1>3 DEF StageUpload, CreateStep, RejectUpload, AddRecord, EnqueueUpload,
       FireTimer, Expire, RemoveOrphan, EnqueuePending, DiskFault, NoFault
<1>4. CASE \/ \E r \in Readers, f \in Files : StartRead(r, f)
           \/ \E r \in Readers : ReaderStep(r) \/ GiveUp(r)
           \/ Boot \/ Serve \/ Shutdown \/ Stop \/ Signal \/ FailServing
           \/ Run \/ LoseMemory
  BY <1>4 DEF StartRead, ReaderStep, PollAgain, AcquireLease, ReadArtifact,
       ReleaseLease, GiveUp, Boot, Serve, Shutdown, Stop, Signal, FailServing,
       Advance, Run, LoseMemory, NoFault
<1> QED
  BY <1>1, <1>2, <1>3, <1>4, NextSplits DEF OtherThanCleaners

(* While nothing fails a file loses its job only when it is settled or deleted:
   Run recovers it, and a retry keeps it (service.go:151-165, 641-668). *)
LEMMA NobodyStranded ==
    ASSUME Rows, Next PROVE StrandedByFault'
<1> USE DEF Rows, Stored
<1> SUFFICES ASSUME faults' = 0, phase' \in {"starting", "up"}, ~halted',
                    NEW f \in Files, Awaiting(f)'
             PROVE  HasJob(f)'
  BY DEF StrandedByFault, NoStrandedFile
<1>1. ~Fault /\ faults = 0
  BY FaultsGrow DEF Known, Typed, FaultPart, Fault, NoFault
<1>2. ~LoseMemory
  BY DEF LoseMemory
<1>3. ~halted
  BY <1>2, PhaseChanges DEF Known
<1>4. Undeleted(f)' /\ ~expired'[f] /\ status'[f] \in {"uploaded", "processing"}
  BY DEF Awaiting, Visible, Undeleted, HasRow
<1>5. CASE phase \notin {"starting", "up"}
  <2>1. Run
    BY <1>5, PhaseChanges DEF Known
  <2>2. f \in PendingRows /\ pending' = PendingRows
    BY <1>4, <2>1 DEF Run, PendingRows, Visible, Undeleted, HasRow, storeVars
  <2> QED
    BY <2>2 DEF HasJob
<1>6. CASE phase \in {"starting", "up"} /\ ~Awaiting(f)
  <2>1. CASE ~Undeleted(f)
    BY <2>1, <1>4, RowBorn DEF AddRecord, HasJob, Known, Typed, DirectoryPart,
                               DirectoryTypeOK
  <2>2. CASE Undeleted(f)
    <3>1. Visible(f)
      BY <1>4, <2>2, MarkChanges DEF Visible, Known
    <3>2. status[f] \notin {"uploaded", "processing"} /\ status[f] # "absent"
      BY <1>6, <2>2, <3>1 DEF Awaiting, Undeleted, HasRow, RowStatus
    <3>3. ~AddRecord(f)
      BY <3>2 DEF AddRecord, Known, JobCore, BeforeStart
    <3>4. PICK w \in Workers : wjob[w] = f /\ MarkProcessing(w)
      BY <1>4, <3>2, <3>3, StatusChanges DEF Known
    <3> QED
      BY <3>4 DEF MarkProcessing, HasJob, Held
  <2> QED
    BY <2>1, <2>2
<1>7. CASE phase \in {"starting", "up"} /\ Awaiting(f)
  <2>1. HasJob(f)
    BY <1>1, <1>3, <1>7 DEF RowInv, StrandedByFault, NoStrandedFile
  <2>2. ASSUME NEW w \in Workers, wjob[w] = f, Succeed(w) PROVE FALSE
    <3>1. Settled(w) /\ UNCHANGED storeVars
      BY <2>2 DEF Succeed, Settled
    <3>2. Undeleted(f) /\ status[f] \in {"uploaded", "processing"}
      BY <1>7 DEF Awaiting, Visible
    <3> QED
      BY <2>2, <3>1, <3>2 DEF RowInv, SettledIsFinal
  <2>3. ASSUME NEW w \in Workers, wjob[w] = f, FailJob(w) PROVE FALSE
    <3>1. UpdateStatus(f, "failed")
      BY <1>1, <2>3 DEF FailJob
    <3>2. Undeleted(f)
      BY <1>7 DEF Awaiting, Visible
    <3>3. status'[f] = "failed"
      BY <3>1, <3>2 DEF UpdateStatus, Updatable, Known, Typed, StorePart, StoreTypeOK
    <3> QED
      BY <1>4, <3>3
  <2>4. ASSUME NEW w \in Workers, wjob[w] = f, DropJob(w) PROVE FALSE
    BY <1>1, <1>7, <2>4 DEF DropJob, Awaiting, Visible
  <2> QED
    BY <1>2, <1>3, <1>7, <2>1, <2>2, <2>3, <2>4, JobLost
<1> QED
  BY <1>5, <1>6, <1>7

(* The first start finds no rows to settle. *)
LEMMA InitRows == Init => RowInv
<1> SUFFICES ASSUME Init PROVE RowInv
  OBVIOUS
<1>1. \A f \in Files : ~Undeleted(f)
  BY DEF Init, StoreInit, Undeleted, HasRow, RowStatus
<1>2. \A w \in Workers : ~Settled(w)
  BY DEF Init, Settled
<1> QED
  BY <1>1, <1>2 DEF Init, RowInv, JobIsPending, SettledIsFinal, StopsOnSignal,
       RetryStateReclaimed, StrandedByFault, NoStrandedFile

(* Every step keeps what is known of rows and jobs, part by part as above. *)
LEMMA StepRows == Rows /\ [Next]_vars => RowInv'
<1> SUFFICES ASSUME Rows, [Next]_vars PROVE RowInv'
  OBVIOUS
<1>1. CASE UNCHANGED vars
  <2>1. \A f \in Files : /\ HasJob(f)' <=> HasJob(f)
                         /\ Unsettled(f)' <=> Unsettled(f)
                         /\ Undeleted(f)' <=> Undeleted(f)
    BY <1>1 DEF HasJob, Queued, Held, Unsettled, Settled, Undeleted, HasRow, vars,
         storeVars, jobVars, workerVars
  <2>2. \A w \in Workers : /\ Settled(w)' <=> Settled(w)
                           /\ Undeleted(wjob[w])' <=> Undeleted(wjob[w])
    BY <1>1 DEF Settled, Undeleted, HasRow, vars, storeVars, workerVars
  <2>3. UNCHANGED <<status, marked, expired, wjob, phase, halted, retries, faults>>
    BY <1>1 DEF vars, storeVars, jobVars, workerVars, mainVars
  <2>4. \A f \in Files : Awaiting(f)' <=> Awaiting(f)
    BY <2>3 DEF Awaiting, Visible, Undeleted, HasRow
  <2>5. JobIsPending' /\ SettledIsFinal' /\ StopsOnSignal'
    BY <2>1, <2>2, <2>3
       DEF Rows, RowInv, JobIsPending, SettledIsFinal, StopsOnSignal
  <2>6. RetryStateReclaimed' /\ StrandedByFault'
    BY <2>1, <2>3, <2>4
       DEF Rows, RowInv, RetryStateReclaimed, StrandedByFault, NoStrandedFile
  <2> QED
    BY <2>5, <2>6 DEF RowInv
<1>2. CASE Next
  <2>1. StopsOnSignal'
    <3>1. halted /\ ~halted' => phase' = "down"
      BY <1>2, PhaseChanges DEF Rows, Stored, Known, LoseMemory
    <3> QED
      BY <1>2, <3>1, PhaseChanges DEF Rows, Stored, Known, RowInv, StopsOnSignal
  <2> QED
    BY <1>2, <2>1, PendingKept, FinalKept, RetriesKept, NobodyStranded DEF RowInv
<1> QED
  BY <1>1, <1>2

(* So the row layer and those below hold in every state. *)
LEMMA AlwaysRows == SafeSpec => []Rows
<1>1. Init => Rows
  BY InitTyped, InitJobs, InitRemoval, InitDisk, InitRows DEF Rows, Stored, Known
<1>2. Rows /\ [Next]_vars => Rows'
  BY StepKnown, StepDisk, StepRows DEF Rows, Stored
<1> QED
  BY <1>1, <1>2, PTL DEF SafeSpec

(* However its conversions end, and whatever fails, a file's retry counter goes
   with its job (service.go:641-668). *)
THEOREM RetryCountsAreReclaimed == SafeSpec => []RetryStateReclaimed
<1>1. Rows => RetryStateReclaimed
  BY DEF Rows, RowInv
<1> QED
  BY <1>1, AlwaysRows, PTL

(* As long as no statement failed, a file that waits for its conversion has a
   job, across retries, deletions that gave up, shutdowns and restarts
   (DESIGN.md:344, 371).  Run lost_retry shows that the condition is needed. *)
THEOREM NobodyIsForgotten == SafeSpec => [](faults = 0 => NoStrandedFile)
<1>1. Rows => (faults = 0 => NoStrandedFile)
  BY DEF Rows, RowInv, StrandedByFault
<1> QED
  BY <1>1, AlwaysRows, PTL

----------------------------------------------------------------------------
(* What readers hold *)

(* Only Resolve, OpenSource and their callers move a reader or touch leases. *)
LEMMA ReadersUndisturbed ==
    Next => \/ UNCHANGED <<rpc, rfile, leases>>
            \/ \E r \in Readers, f \in Files : StartRead(r, f)
            \/ \E r \in Readers : ReaderStep(r) \/ GiveUp(r)
            \/ LoseMemory
<1>1. ASSUME NEW w \in Workers, WorkerStep(w) PROVE UNCHANGED <<rpc, rfile, leases>>
  BY <1>1 DEF WorkerStep, GetJob, QuitWorker, BeginConversion, LookUpJob,
       MarkProcessing, PrepareOutput, Render, Publish, EndConversion, Succeed,
       FailJob, RetryJob, DropJob, readerVars, lockVars
<1>2. ASSUME CleanerMoves PROVE UNCHANGED <<rpc, rfile, leases>>
  BY <1>2 DEF CleanerMoves, StartDelete, DeletionStep, BeginDeletion, MarkFile,
       WaitForConversion, ConversionDone, WaitForLease, RemoveDirectory, EraseRow,
       EndDeletion, JanitorStep, StartSweep, EndSweep, QuitJanitor, NextExpired,
       readerVars, lockVars
<1>3. ASSUME NEW f \in Files,
             \/ StageUpload(f) \/ CreateStep(f) \/ FireTimer(f) \/ Expire(f)
             \/ RemoveOrphan(f) \/ EnqueuePending(f)
      PROVE  UNCHANGED <<rpc, rfile, leases>>
  BY <1>3 DEF StageUpload, CreateStep, RejectUpload, AddRecord, EnqueueUpload,
       FireTimer, Expire, RemoveOrphan, EnqueuePending, readerVars, lockVars
<1>4. CASE Boot \/ Serve \/ Shutdown \/ Stop \/ Signal \/ FailServing \/ Run
  BY <1>4 DEF Boot, Serve, Shutdown, Stop, Signal, FailServing, Advance, Run,
       readerVars, lockVars
<1> QED
  BY <1>1, <1>2, <1>3, <1>4, NextSplits DEF OtherThanCleaners

(* A reader moves by its own steps, keeps its file, and ends with the process. *)
LEMMA ReaderChanges ==
    ASSUME Known, Next, NEW r \in Readers
    PROVE  \/ rpc'[r] = rpc[r] /\ rfile'[r] = rfile[r]
           \/ /\ rpc[r] = "idle"
              /\ \E f \in Files : StartRead(r, f) /\ rfile'[r] = f
                                   /\ rpc'[r] = AfterLookup(r, f)
           \/ /\ rpc[r] # "idle" /\ rfile'[r] = rfile[r]
              /\ \/ PollAgain(r) /\ rpc'[r] \in {AfterLookup(r, rfile[r]), "error"}
                 \/ AcquireLease(r) /\ rpc'[r] \in {"notfound", "read"}
                 \/ ReadArtifact(r) /\ rpc'[r] \in {"using", "missing"}
                 \/ ReleaseLease(r) /\ rpc'[r] = "released"
                 \/ rpc'[r] \in {"gaveup", "lost"}
<1>0. /\ rpc \in [Readers -> ReaderPC]
      /\ rfile \in [Readers -> Files \cup {None}]
  BY DEF Known, Typed, ReaderPart, ReaderTypeOK
<1>1. ASSUME NEW u \in Readers \ {r}, NEW f \in Files,
             StartRead(u, f) \/ ReaderStep(u) \/ GiveUp(u)
      PROVE  rpc'[r] = rpc[r] /\ rfile'[r] = rfile[r]
  BY <1>0, <1>1 DEF StartRead, ReaderStep, PollAgain, AcquireLease, ReadArtifact,
       ReleaseLease, GiveUp, MoveReader
<1>a. ASSUME NEW u \in Readers \ {r}, ReaderStep(u) \/ GiveUp(u)
      PROVE  rpc'[r] = rpc[r] /\ rfile'[r] = rfile[r]
  BY <1>0, <1>a DEF ReaderStep, PollAgain, AcquireLease, ReadArtifact,
       ReleaseLease, GiveUp, MoveReader
<1>2. ASSUME NEW f \in Files, StartRead(r, f)
      PROVE  /\ rpc[r] = "idle" /\ rfile'[r] = f
             /\ rpc'[r] = AfterLookup(r, f)
  BY <1>0, <1>2 DEF StartRead, MoveReader
<1>3. ASSUME ReaderStep(r) \/ GiveUp(r)
      PROVE  /\ rpc[r] # "idle" /\ rfile'[r] = rfile[r]
             /\ PollAgain(r) => rpc'[r] \in {AfterLookup(r, rfile[r]), "error"}
             /\ AcquireLease(r) => rpc'[r] \in {"notfound", "read"}
             /\ ReadArtifact(r) => rpc'[r] \in {"using", "missing"}
             /\ ReleaseLease(r) => rpc'[r] = "released"
             /\ GiveUp(r) => rpc'[r] = "gaveup"
  BY <1>0, <1>3 DEF ReaderStep, PollAgain, AcquireLease, ReadArtifact,
       ReleaseLease, GiveUp, MoveReader
<1>4. LoseMemory => /\ rfile'[r] = rfile[r]
                    /\ rpc'[r] = rpc[r] \/ (rpc[r] # "idle" /\ rpc'[r] = "lost")
  BY DEF LoseMemory
<1> QED
  BY <1>1, <1>a, <1>2, <1>3, <1>4, ReadersUndisturbed DEF ReaderStep

(* A lookup lets a reader go on to its lease only if the row says so. *)
LEMMA LookupAnswers ==
    ASSUME NEW r \in Readers, NEW f
    PROVE  /\ AfterLookup(r, f) \in {"notfound", "acquire", "failed", "poll"}
           /\ AfterLookup(r, f) = "acquire" /\ r \in ManifestReaders =>
                status[f] = "processed"
  BY ProcessAssumption DEF AfterLookup, Readers

(* Only its own steps, and the end of the process, take a reader's lease away. *)
LEMMA LeaseChanges ==
    ASSUME Known, Next, NEW r \in Readers, NEW f \in Files,
           r \in leases[f], r \notin leases'[f]
    PROVE  LoseMemory \/ rpc'[r] \in {"missing", "released"}
<1>0. /\ leases \in [Files -> SUBSET Readers]
      /\ rpc \in [Readers -> ReaderPC]
  BY DEF Known, Typed, LockPart, LockTypeOK, ReaderPart, ReaderTypeOK
<1>1. ASSUME NEW u \in Readers, NEW g \in Files, StartRead(u, g) PROVE FALSE
  BY <1>1 DEF StartRead, lockVars
<1>2. ASSUME NEW u \in Readers, PollAgain(u) \/ GiveUp(u) \/ AcquireLease(u)
      PROVE  FALSE
  BY <1>0, <1>2 DEF PollAgain, GiveUp, AcquireLease, lockVars
<1>3. ASSUME NEW u \in Readers, ReadArtifact(u) \/ ReleaseLease(u)
      PROVE  u = r /\ rpc'[r] \in {"missing", "released"}
  BY <1>0, <1>3 DEF ReadArtifact, ReleaseLease, DropLease, MoveReader
<1> QED
  BY <1>1, <1>2, <1>3, ReadersUndisturbed DEF ReaderStep

(* A file that is settled stays so until its row is erased. *)
LEMMA ProcessedStays ==
    ASSUME Rows, Next, NEW f \in Files, status[f] \in {"processed", "removed"}
    PROVE  status'[f] \in {"processed", "removed"}
<1>1. ~AddRecord(f)
  BY DEF AddRecord, Rows, Stored, Known, JobCore, BeforeStart
<1>2. ASSUME NEW w \in Workers, wjob[w] = f, Undeleted(f),
             MarkProcessing(w) \/ FailJob(w)
      PROVE  FALSE
  <2>1. ~Settled(w)
    BY <1>2 DEF MarkProcessing, FailJob, Settled
  <2>2. status[f] \in {"uploaded", "processing"}
    BY <1>2, <2>1 DEF Rows, RowInv, JobIsPending, Unsettled
  <2> QED
    BY <2>2
<1> QED
  BY <1>1, <1>2, StatusChanges DEF Rows, Stored, Known

----------------------------------------------------------------------------
(* ReaderInv, part by part *)

Complete == Rows /\ ReaderInv

(* A file that a reader named has had a row ever since (service.go:381-465). *)
LEMMA NamedStays ==
    ASSUME Complete, Next PROVE ReaderHasRow'
<1> USE DEF Complete, Rows, Stored
<1> SUFFICES ASSUME NEW r \in Readers, rpc'[r] # "idle"
             PROVE  status'[rfile'[r]] # "absent"
  BY DEF ReaderHasRow
<1>1. ASSUME NEW f \in Files, status[f] # "absent" PROVE status'[f] # "absent"
  BY <1>1, StatusChanges DEF Known
<1>2. CASE rpc[r] # "idle"
  <2>1. PICK f \in Files : f = rfile[r]
    BY <1>2 DEF Known, Typed, ReaderPart, ReadersHaveFiles
  <2>2. rfile'[r] = f /\ status[f] # "absent"
    BY <1>2, <2>1, ReaderChanges DEF ReaderInv, ReaderHasRow
  <2> QED
    BY <1>1, <2>2
<1>3. CASE rpc[r] = "idle"
  <2>1. PICK f \in Files : StartRead(r, f) /\ rfile'[r] = f
    BY <1>3, ReaderChanges
  <2> QED
    BY <1>1, <2>1 DEF StartRead
<1> QED
  BY <1>2, <1>3

(* Past its poll, Resolve has seen the file processed, and it is not converted
   again (service.go:389-441). *)
LEMMA ResolvedKept ==
    ASSUME Complete, Next PROVE ResolvedIsProcessed'
<1> USE DEF Complete, Rows, Stored
<1> SUFFICES ASSUME NEW r \in ManifestReaders, rpc'[r] \in {"acquire", "read", "using"}
             PROVE  status'[rfile'[r]] \in {"processed", "removed"}
  BY DEF ResolvedIsProcessed
<1>0. r \in Readers
  BY DEF Readers
<1>1. CASE rpc[r] \in {"acquire", "read", "using"}
  <2>1. PICK f \in Files : f = rfile[r]
    BY <1>0, <1>1 DEF Known, Typed, ReaderPart, ReadersHaveFiles
  <2>2. rfile'[r] = f
    BY <1>0, <1>1, <2>1, ReaderChanges
  <2> QED
    BY <1>1, <2>1, <2>2, ProcessedStays DEF ReaderInv, ResolvedIsProcessed
<1>2. CASE rpc[r] \notin {"acquire", "read", "using"}
  <2>1. \/ rpc[r] = "idle" /\ \E f \in Files : StartRead(r, f) /\ rfile'[r] = f
                                               /\ rpc'[r] = AfterLookup(r, f)
        \/ /\ rpc[r] # "idle" /\ rfile'[r] = rfile[r] /\ PollAgain(r)
           /\ rpc'[r] \in {AfterLookup(r, rfile[r]), "error"}
    BY <1>0, <1>2, ReaderChanges DEF AcquireLease, ReadArtifact
  <2>2. PICK f \in Files : rfile'[r] = f /\ rpc'[r] = AfterLookup(r, f)
    BY <1>0, <2>1 DEF Known, Typed, ReaderPart, ReadersHaveFiles
  <2>3. status[f] = "processed"
    BY <1>0, <2>2, LookupAnswers
  <2> QED
    BY <2>2, <2>3, ProcessedStays
<1> QED
  BY <1>1, <1>2

(* A reader that reads has its lease, until it gives it back or the process
   ends (service.go:466-500). *)
LEMMA LeaseKept ==
    ASSUME Complete, Next PROVE LeaseIsCounted'
<1> USE DEF Complete, Rows, Stored
<1> SUFFICES ASSUME NEW r \in Readers, rpc'[r] \in {"read", "using"}
             PROVE  r \in leases'[rfile'[r]]
  BY DEF LeaseIsCounted
<1>1. CASE rpc[r] \in {"read", "using"}
  <2>1. PICK f \in Files : f = rfile[r]
    BY <1>1 DEF Known, Typed, ReaderPart, ReadersHaveFiles
  <2>2. rfile'[r] = f /\ r \in leases[f]
    BY <1>1, <2>1, ReaderChanges DEF ReaderInv, LeaseIsCounted
  <2>3. ~LoseMemory
    BY DEF LoseMemory
  <2> QED
    BY <2>2, <2>3, LeaseChanges
<1>2. CASE rpc[r] \notin {"read", "using"}
  <2>1. AcquireLease(r) /\ rpc'[r] = "read"
    BY <1>2, ReaderChanges, LookupAnswers DEF ReadArtifact
  <2> QED
    BY <2>1 DEF AcquireLease, MoveReader, readerVars, Known, Typed, ReaderPart,
                ReaderTypeOK, ReadersHaveFiles, LockPart, LockTypeOK
<1> QED
  BY <1>1, <1>2

(* "missing" comes from a directory without what the row promises, and what it
   promises of a file that is not deleted is there (RowsMatchDisk). *)
LEMMA MissingKept ==
    ASSUME Complete, Next PROVE MissingOnlyWhenDeleted'
<1> USE DEF Complete, Rows, Stored
<1> SUFFICES ASSUME NEW r \in Readers, rpc'[r] = "missing", Undeleted(rfile[r])'
             PROVE  FALSE
  BY DEF MissingOnlyWhenDeleted
<1>1. rpc[r] \in {"missing", "read"} /\ rfile'[r] = rfile[r]
  BY ReaderChanges, LookupAnswers DEF ReadArtifact
<1>2. PICK f \in Files : f = rfile[r]
  BY <1>1 DEF Known, Typed, ReaderPart, ReadersHaveFiles
<1>3. Undeleted(f)' /\ status[f] # "absent"
  BY <1>1, <1>2 DEF Undeleted, HasRow, ReaderInv, ReaderHasRow
<1>4. Undeleted(f)
  BY <1>3, RowBorn DEF Known, JobCore, BeforeStart
<1>5. CASE rpc[r] = "missing"
  BY <1>2, <1>4, <1>5 DEF ReaderInv, MissingOnlyWhenDeleted
<1>6. CASE rpc[r] = "read"
  <2>1. Wanted(r) \notin disk[f]
    <3>1. ReadArtifact(r)
      BY <1>6, ReaderChanges, LookupAnswers
    <3> QED
      BY <1>2, <1>6, <3>1 DEF ReadArtifact, MoveReader, Known, Typed, ReaderPart,
                              ReaderTypeOK
  <2>2. "source" \in disk[f] /\ (status[f] = "processed" => disk[f] = Content)
    BY <1>4 DEF DiskInv, RowsMatchDisk
  <2>3. r \in ManifestReaders => status[f] = "processed"
    BY <1>2, <1>4, <1>6 DEF ReaderInv, ResolvedIsProcessed, Undeleted, HasRow, RowStatus
  <2> QED
    BY <2>1, <2>2, <2>3 DEF Wanted, Content
<1> QED
  BY <1>1, <1>5, <1>6

(* A conversion removes the manifest first and writes it last, and a removal
   that does not fail leaves nothing. *)
LEMMA ManifestKept ==
    ASSUME Complete, Next PROVE ManifestIsLast'
<1> USE DEF Complete, Rows, Stored
<1> SUFFICES ASSUME ~DiskMayFail, NEW f \in Files, "manifest" \in disk'[f],
                    disk'[f] # disk[f]
             PROVE  disk'[f] = Content
  BY DEF ManifestIsLast, ReaderInv
<1>0. disk \in [Files -> SUBSET Content] /\ ~DiskFault
  BY DEF Known, Typed, DirectoryPart, DirectoryTypeOK, DiskFault
<1>1. ASSUME NEW c \in Cleaners, RemoveDirectory(c), cfile[c] = f PROVE FALSE
  BY <1>0, <1>1 DEF RemoveDirectory
<1>2. ASSUME NEW w \in Workers, PrepareOutput(w), wjob[w] = f PROVE FALSE
  BY <1>0, <1>2 DEF PrepareOutput, PartlyRemoved
<1>3. ASSUME NEW w \in Workers, Render(w), wjob[w] = f PROVE disk'[f] = Content
  BY <1>0, <1>3 DEF Render, PartlyRemoved, Artifacts, Content
<1> QED
  BY <1>1, <1>2, <1>3, DiskChanges DEF Known

(* Who could take something away from a reader: a conversion works on files
   that are not processed, a removal waits for the lease, and an upload or a
   reconciliation is of a file without a row. *)
LEMMA LeasedStep ==
    ASSUME Complete, Next, NEW r \in Readers,
           rpc[r] \in {"read", "using"}, rpc'[r] \in {"read", "using"}
    PROVE  disk[rfile[r]] \cap Served(r) \subseteq disk'[rfile[r]]
<1> USE DEF Complete, Rows, Stored
<1>1. PICK f \in Files : f = rfile[r]
  BY DEF Known, Typed, ReaderPart, ReadersHaveFiles
<1>2. r \in leases[f] /\ status[f] # "absent"
  BY <1>1 DEF ReaderInv, LeaseIsCounted, ReaderHasRow
<1>3. ~StageUpload(f) /\ ~RejectUpload(f)
  BY <1>2 DEF StageUpload, RejectUpload, Known, JobCore, BeforeStart
<1>4. ~RemoveOrphan(f)
  BY <1>2 DEF RemoveOrphan, Orphan, HasRow, DiskInv, RemovedIsEmpty, Known, Typed,
              StorePart, StoreTypeOK
<1>5. \A c \in Cleaners : RemoveDirectory(c) => cfile[c] # f
  BY <1>2, CleanerActs
<1>6. ASSUME NEW w \in Workers, wjob[w] = f, wpc[w] \in Converting,
             PrepareOutput(w) \/ Render(w)
      PROVE  /\ r \notin ManifestReaders
             /\ "source" \in disk[f] => "source" \in disk'[f]
  <2>1. status[f] = "processing"
    BY <1>6 DEF DiskInv, WriterProcessing
  <2> QED
    BY <1>1, <1>6, <2>1, WriterLeaves DEF Known, ReaderInv, ResolvedIsProcessed
<1>7. CASE disk'[f] # disk[f]
  <2>1. r \notin ManifestReaders /\ ("source" \in disk[f] => "source" \in disk'[f])
    BY <1>3, <1>4, <1>5, <1>6, <1>7, DiskChanges DEF Known
  <2> QED
    BY <1>1, <2>1 DEF Served
<1> QED
  BY <1>1, <1>7

(* What a reader opened is complete, and stays so. *)
LEMMA WholeKept ==
    ASSUME Complete, Next PROVE ServedWhole'
<1> USE DEF Complete, Rows, Stored
<1> SUFFICES ASSUME ~DiskMayFail, NEW r \in Readers, rpc'[r] = "using"
             PROVE  Served(r) \subseteq disk'[rfile'[r]]
  BY DEF ServedWhole, ServedWhileUsing, Served
<1>1. rpc[r] \in {"read", "using"} /\ rfile'[r] = rfile[r]
  BY ReaderChanges, LookupAnswers DEF ReadArtifact
<1>2. CASE rpc[r] = "using"
  BY <1>1, <1>2, LeasedStep DEF ReaderInv, ServedWhole, ServedWhileUsing
<1>3. CASE rpc[r] = "read"
  <2>1. ReadArtifact(r) /\ rfile[r] \in Files
    BY <1>3, ReaderChanges, LookupAnswers
       DEF Known, Typed, ReaderPart, ReadersHaveFiles
  <2>2. Wanted(r) \in disk[rfile[r]] /\ UNCHANGED disk
    BY <2>1 DEF ReadArtifact, MoveReader, Known, Typed, ReaderPart, ReaderTypeOK
  <2> QED
    BY <1>1, <2>1, <2>2 DEF Wanted, Served, Content, ReaderInv, ManifestIsLast
<1> QED
  BY <1>1, <1>2, <1>3

(* Nobody reads before the first start. *)
LEMMA InitReaders == Init => ReaderInv
  BY DEF Init, ReaderInv, ReaderHasRow, ResolvedIsProcessed, LeaseIsCounted,
         MissingOnlyWhenDeleted, ManifestIsLast, ServedWhole, ServedWhileUsing,
         Readers

(* Every step keeps what is known of readers, part by part as above. *)
LEMMA StepReaders == Complete /\ [Next]_vars => ReaderInv'
<1> SUFFICES ASSUME Complete, [Next]_vars PROVE ReaderInv'
  OBVIOUS
<1>1. CASE UNCHANGED vars
  BY <1>1 DEF Complete, ReaderInv, ReaderHasRow, ResolvedIsProcessed, LeaseIsCounted,
       MissingOnlyWhenDeleted, ManifestIsLast, ServedWhole, ServedWhileUsing, Served,
       Undeleted, HasRow, vars, storeVars, lockVars, readerVars
<1>2. CASE Next
  BY <1>2, NamedStays, ResolvedKept, LeaseKept, MissingKept, ManifestKept, WholeKept
     DEF ReaderInv
<1> QED
  BY <1>1, <1>2

(* So all layers hold in every state. *)
LEMMA AlwaysComplete == SafeSpec => []Complete
<1>1. Init => Complete
  BY InitTyped, InitJobs, InitRemoval, InitDisk, InitRows, InitReaders
     DEF Complete, Rows, Stored, Known
<1>2. Complete /\ [Next]_vars => Complete'
  BY StepKnown, StepDisk, StepRows, StepReaders DEF Complete, Rows, Stored
<1> QED
  BY <1>1, <1>2, PTL DEF SafeSpec

(* The whole inductive invariant holds. *)
THEOREM InductiveInvariant == SafeSpec => []IInv
<1>1. Complete => IInv
  BY DEF Complete, Rows, Stored, Known, IInv, JobsInv, JobCore, Typed, TypeOK,
         FilesInHand, StorePart, DirectoryPart, JobPart, LockPart, WorkerPart,
         CleanerPart, ReaderPart, MainPart, FaultPart
<1> QED
  BY <1>1, AlwaysComplete, PTL

(* Only of a deleted file is a reader told that artifacts are missing, whatever
   conversions, retries, crashes and failing storage did (service.go:389-441). *)
THEOREM MissingMeansDeleted == SafeSpec => []MissingOnlyWhenDeleted
<1>1. Complete => MissingOnlyWhenDeleted
  BY DEF Complete, ReaderInv
<1> QED
  BY <1>1, AlwaysComplete, PTL

(* Nothing that is on disk when a reader has its lease goes away before it gives
   the lease back (service.go:50-53), failing storage included. *)
THEOREM LeasesProtect == SafeSpec => LeasedArtifactsStay
<1>1. Complete /\ [Next]_vars =>
        [\A r \in Readers :
            rpc[r] \in {"read", "using"} /\ rpc'[r] \in {"read", "using"} =>
                disk[rfile[r]] \cap Served(r) \subseteq disk'[rfile[r]]]_vars
  BY LeasedStep
<1> QED
  BY <1>1, AlwaysComplete, PTL DEF SafeSpec, LeasedArtifactsStay

(* A reader has all it was promised as long as it uses it, unless a removal may
   fail half way and leave the manifest without its artifacts. *)
THEOREM ReadersAreServed == SafeSpec => [](~DiskMayFail => ServedWhileUsing)
<1>1. Complete => (~DiskMayFail => ServedWhileUsing)
  BY DEF Complete, ReaderInv, ServedWhole
<1> QED
  BY <1>1, AlwaysComplete, PTL

----------------------------------------------------------------------------
(* The contract.  Each step of the service is a step of FileContract, or one it
   does not see: what it sees of a file changes with its row, its source and its
   readers. *)

Stuttering == UNCHANGED Contract!vars

(* Steps that change none of these *)
LEMMA UnseenStep ==
    ASSUME UNCHANGED <<storeVars, disk, rpc, rfile>> PROVE Stuttering
  BY DEF Stuttering, Contract!vars, ContractState, Visible, Undeleted, HasRow,
           storeVars, KeptBytes, UsersOf

(* Uploads *)
LEMMA UploadPromised ==
    ASSUME Complete, NEW f \in Files, AddRecord(f) PROVE Contract!Upload(f)
<1> USE DEF Complete, Rows, Stored
<1>1. /\ status \in [Files -> RowStatus \cup {"absent", "removed"}]
      /\ status[f] = "absent" /\ "source" \in disk[f]
      /\ ~marked[f] /\ ~expired[f]
  BY DEF Known, Typed, StorePart, StoreTypeOK, JobCore, BeforeStart, AddRecord,
         DiskInv, StagedHasSource, FreshRow
<1>2. /\ status' = [status EXCEPT ![f] = "uploaded"]
      /\ UNCHANGED <<marked, expired, disk, rpc, rfile>>
  BY DEF AddRecord, Insert, readerVars
<1>3. /\ ContractState(f) = "none" /\ ContractState(f)' = "pending"
      /\ HasRow(f)'
      /\ \A g \in Files \ {f} : /\ ContractState(g)' = ContractState(g)
                                /\ HasRow(g)' <=> HasRow(g)
  BY <1>1, <1>2 DEF ContractState, Visible, Undeleted, HasRow, RowStatus
<1> QED
  BY <1>1, <1>2, <1>3 DEF Contract!Upload, KeptBytes, UsersOf

(* Expiry *)
LEMMA ExpiryPromised ==
    ASSUME Complete, NEW f \in Files, Expire(f)
    PROVE  Contract!Vanish(f) \/ Stuttering
<1>1. /\ expired \in [Files -> BOOLEAN] /\ HasRow(f)
      /\ expired' = [expired EXCEPT ![f] = TRUE]
      /\ UNCHANGED <<status, marked, disk, rpc, rfile>>
  BY DEF Complete, Rows, Stored, Known, Typed, StorePart, StoreTypeOK, Expire,
         PassExpiry, readerVars
<1>2. /\ ContractState(f)' = "gone"
      /\ ContractState(f) \in {"pending", "processed", "failed", "gone"}
      /\ \A g \in Files \ {f} : ContractState(g)' = ContractState(g)
      /\ \A g \in Files : HasRow(g)' <=> HasRow(g)
  BY <1>1 DEF ContractState, Visible, Undeleted, HasRow, RowStatus
<1> QED
  BY <1>1, <1>2 DEF Contract!Vanish, Stuttering, Contract!vars, KeptBytes, UsersOf

(* The deletion mark *)
LEMMA MarkPromised ==
    ASSUME Complete, NEW c \in Cleaners, MarkFile(c)
    PROVE  (\E f \in Files : Contract!Vanish(f)) \/ Stuttering
<1>0. UNCHANGED <<disk, rpc, rfile>>
  BY DEF MarkFile, readerVars
<1>1. CASE UNCHANGED storeVars
  BY <1>0, <1>1, UnseenStep
<1>2. CASE ~UNCHANGED storeVars
  <2>1. PICK f \in Files : f = cfile[c]
    BY DEF Complete, Rows, Stored, Known, Typed, CleanerPart, CleanersHaveFiles,
           MarkFile, Owning
  <2>2. /\ Undeleted(f) /\ marked \in [Files -> BOOLEAN]
        /\ marked' = [marked EXCEPT ![f] = TRUE]
        /\ UNCHANGED <<status, expired>>
    BY <1>2, <2>1 DEF Complete, Rows, Stored, Known, Typed, StorePart, StoreTypeOK,
         MarkFile, MarkDeleted, storeVars
  <2>3. /\ ContractState(f)' = "gone"
        /\ ContractState(f) \in {"pending", "processed", "failed", "gone"}
        /\ \A g \in Files \ {f} : ContractState(g)' = ContractState(g)
        /\ \A g \in Files : HasRow(g)' <=> HasRow(g)
    BY <2>2 DEF ContractState, Visible, Undeleted, HasRow, RowStatus
  <2> QED
    BY <1>0, <2>2, <2>3 DEF Contract!Vanish, Stuttering, Contract!vars, KeptBytes, UsersOf
<1> QED
  BY <1>1, <1>2

(* What a conversion makes of its row: it settles the file once, since it works
   on files that are not settled (JobIsPending). *)
LEMMA SettlingPromised ==
    ASSUME Complete, NEW w \in Workers, MarkProcessing(w) \/ Publish(w) \/ FailJob(w)
    PROVE  (\E f \in Files : Contract!Settle(f)) \/ Stuttering
<1>0. UNCHANGED <<disk, rpc, rfile>>
  BY DEF MarkProcessing, Publish, FailJob, readerVars
<1>1. CASE UNCHANGED storeVars
  BY <1>0, <1>1, UnseenStep
<1>2. CASE ~UNCHANGED storeVars
  <2>1. PICK f \in Files : f = wjob[w]
    BY DEF Complete, Rows, Stored, Known, Typed, WorkerPart, WorkerTypeOK,
           WorkersHaveJobs, Busy, WorkerPC, MarkProcessing, Publish, FailJob
  <2>2. PICK s \in {"processing", "processed", "failed"} : UpdateStatus(f, s)
    BY <1>2, <2>1 DEF MarkProcessing, Publish, FailJob
  <2>3. /\ Undeleted(f) /\ status \in [Files -> RowStatus \cup {"absent", "removed"}]
        /\ status' = [status EXCEPT ![f] = s]
        /\ UNCHANGED <<marked, expired>>
    BY <1>2, <2>2 DEF Complete, Rows, Stored, Known, Typed, StorePart, StoreTypeOK,
         UpdateStatus, Updatable, storeVars
  <2>4. status[f] \in {"uploaded", "processing"}
    <3>1. ~Settled(w)
      BY DEF MarkProcessing, Publish, FailJob, Settled
    <3> QED
      BY <2>1, <2>3, <3>1 DEF Complete, Rows, RowInv, JobIsPending, Unsettled
  <2>5. /\ \A g \in Files \ {f} : ContractState(g)' = ContractState(g)
        /\ \A g \in Files : HasRow(g)' <=> HasRow(g)
        /\ \/ ContractState(f)' = ContractState(f)
           \/ /\ ContractState(f) = "pending"
              /\ ContractState(f)' \in {"processed", "failed"}
    BY <2>3, <2>4 DEF ContractState, Visible, Undeleted, HasRow, RowStatus
  <2> QED
    BY <1>0, <2>5 DEF Contract!Settle, Stuttering, Contract!vars, KeptBytes, UsersOf
<1> QED
  BY <1>1, <1>2

(* The row is erased after the directory is gone: nobody sees it. *)
LEMMA ErasureUnseen ==
    ASSUME Complete, NEW c \in Cleaners, EraseRow(c) PROVE Stuttering
<1>0. UNCHANGED <<disk, rpc, rfile>>
  BY DEF EraseRow, readerVars
<1>1. CASE UNCHANGED storeVars
  BY <1>0, <1>1, UnseenStep
<1>2. CASE ~UNCHANGED storeVars
  <2>1. PICK f \in Files : f = cfile[c]
    BY CleanerActs DEF Complete, Rows, Stored
  <2>2. /\ HasRow(f) /\ status \in [Files -> RowStatus \cup {"absent", "removed"}]
        /\ status' = [status EXCEPT ![f] = "removed"]
        /\ UNCHANGED <<marked, expired>>
    BY <1>2, <2>1 DEF Complete, Rows, Stored, Known, Typed, StorePart, StoreTypeOK,
         EraseRow, DeleteRow, storeVars
  <2>3. marked[f] /\ disk[f] = {}
    BY <2>1, <2>2, CleanerActs
       DEF Complete, Rows, Stored, Dead, Undeleted, EraseRow, DiskInv, ErasingIsEmpty
  <2>4. /\ \A g \in Files : ContractState(g)' = ContractState(g)
        /\ \A g \in Files \ {f} : HasRow(g)' <=> HasRow(g)
    BY <2>2, <2>3 DEF ContractState, Visible, Undeleted, HasRow, RowStatus
  <2> QED
    BY <1>0, <2>3, <2>4 DEF Stuttering, Contract!vars, KeptBytes, UsersOf
<1> QED
  BY <1>1, <1>2

(* Nobody but a cleaner changes the source of a file with a row. *)
LEMMA DirectoryUnseen ==
    ASSUME Complete, Next,
           \/ \E f \in Files : StageUpload(f) \/ RejectUpload(f) \/ RemoveOrphan(f)
           \/ \E w \in Workers : PrepareOutput(w) \/ Render(w)
    PROVE  Stuttering
<1>0. UNCHANGED <<storeVars, rpc, rfile>>
  BY DEF StageUpload, RejectUpload, RemoveOrphan, PrepareOutput, Render, readerVars
<1>1. ASSUME NEW f \in Files, HasRow(f)
      PROVE  "source" \in disk'[f] <=> "source" \in disk[f]
  <2>1. ~StageUpload(f) /\ ~RejectUpload(f) /\ ~RemoveOrphan(f)
    BY <1>1 DEF StageUpload, RejectUpload, RemoveOrphan, Orphan, Complete, Rows,
                Stored, Known, JobCore, BeforeStart, HasRow, RowStatus
  <2>2. ASSUME NEW c \in Cleaners, RemoveDirectory(c) PROVE FALSE
    <3>1. cpc' # cpc
      BY <2>2 DEF RemoveDirectory, MoveCleaner, Conclude, Complete, Rows, Stored,
                  Known, Typed, CleanerPart, CleanerTypeOK
    <3>2. UNCHANGED cpc
      BY DEF StageUpload, RejectUpload, RemoveOrphan, PrepareOutput, Render, cleanerVars
    <3> QED
      BY <3>1, <3>2
  <2> QED
    BY <2>1, <2>2, DiskChanges, WriterLeaves DEF Complete, Rows, Stored, Known
<1> QED
  BY <1>0, <1>1 DEF Stuttering, Contract!vars, ContractState, Visible, Undeleted, HasRow,
           storeVars, KeptBytes, UsersOf

(* A removal purges a file that is gone and that nobody uses. *)
LEMMA RemovalPromised ==
    ASSUME Complete, NEW c \in Cleaners, RemoveDirectory(c)
    PROVE  (\E f \in Files : Contract!Purge(f)) \/ Stuttering
<1>1. PICK f \in Files : f = cfile[c] /\ Dead(f) /\ leases[f] = {}
  BY CleanerActs DEF Complete, Rows, Stored
<1>2. /\ UNCHANGED <<storeVars, rpc, rfile>>
      /\ \A g \in Files \ {f} : disk'[g] = disk[g]
      /\ disk'[f] \subseteq disk[f]
  BY <1>1 DEF RemoveDirectory, readerVars, Complete, Rows, Stored, Known, Typed,
       DirectoryPart, DirectoryTypeOK
<1>3. ContractState(f) = "gone"
  BY <1>1 DEF ContractState, Visible, Dead, Undeleted, HasRow, Complete, Rows, Stored, Known,
       Typed, StorePart, StoreTypeOK
<1>4. UsersOf(f) = {} /\ \A g \in Files : UsersOf(g)' = UsersOf(g)
  BY <1>1, <1>2 DEF Complete, ReaderInv, LeaseIsCounted, UsersOf
<1>5. CASE "source" \in disk'[f] \/ "source" \notin disk[f]
  BY <1>2, <1>5 DEF Stuttering, Contract!vars, ContractState, Visible, Undeleted, HasRow,
           storeVars, KeptBytes, UsersOf
<1>6. CASE "source" \notin disk'[f]
  BY <1>2, <1>3, <1>4, <1>6 DEF Contract!Purge, ContractState, Visible, Undeleted,
       HasRow, storeVars, KeptBytes
<1> QED
  BY <1>5, <1>6

(* A use begins when the artifact is opened, in a directory that is complete
   (ManifestIsLast), and ends with the lease; no other step of a reader is seen. *)
LEMMA ReaderPromised ==
    ASSUME Complete, Next, ~DiskMayFail, NEW r \in Readers,
           \/ ReaderStep(r) \/ GiveUp(r)
           \/ \E f \in Files : StartRead(r, f)
    PROVE  \/ \E f \in Files : Contract!StartUse(f, r) \/ Contract!EndUse(f, r)
           \/ Stuttering
<1> USE DEF Complete, Rows, Stored
<1>0. /\ rpc \in [Readers -> ReaderPC]
      /\ rfile \in [Readers -> Files \cup {None}]
      /\ status \in [Files -> RowStatus \cup {"absent", "removed"}]
  BY DEF Known, Typed, ReaderPart, ReaderTypeOK, StorePart, StoreTypeOK
<1>1. UNCHANGED <<storeVars, disk>>
  BY DEF ReaderStep, GiveUp, StartRead, PollAgain, AcquireLease, ReadArtifact,
         ReleaseLease
<1>a. /\ \A g \in Files : ContractState(g)' = ContractState(g)
      /\ \A g \in Files : KeptBytes(g)' = KeptBytes(g)
  BY <1>1 DEF ContractState, Visible, Undeleted, HasRow, storeVars, KeptBytes
<1>2. \A u \in Readers \ {r} : rpc'[u] = rpc[u] /\ rfile'[u] = rfile[u]
  BY <1>0 DEF ReaderStep, GiveUp, StartRead, PollAgain, AcquireLease, ReadArtifact,
              ReleaseLease, MoveReader
<1>3. CASE rpc[r] # "using" /\ rpc'[r] # "using"
  <2>1. \A g \in Files : UsersOf(g)' = UsersOf(g)
    BY <1>2, <1>3 DEF UsersOf
  <2> QED
    BY <1>a, <2>1 DEF Stuttering, Contract!vars
<1>4. CASE rpc[r] # "using" /\ rpc'[r] = "using"
  <2>1. ReadArtifact(r) /\ rfile'[r] = rfile[r] /\ rpc[r] = "read"
    BY <1>4, ReaderChanges, LookupAnswers DEF ReadArtifact
  <2>2. PICK f \in Files : f = rfile[r]
    BY <2>1 DEF Known, Typed, ReaderPart, ReadersHaveFiles
  <2>3. "source" \in disk[f]
    <3>1. Wanted(r) \in disk[f]
      BY <1>0, <1>4, <2>1, <2>2 DEF ReadArtifact, MoveReader
    <3> QED
      BY <3>1 DEF Wanted, Content, ReaderInv, ManifestIsLast
  <2>4. KeptBytes(f)
    BY <1>0, <2>1, <2>2, <2>3
       DEF ReaderInv, ReaderHasRow, DiskInv, RemovedIsEmpty, HasRow, KeptBytes
  <2>5. \A g \in Files :
            UsersOf(g)' = IF g = f THEN UsersOf(g) \cup {r} ELSE UsersOf(g)
    BY <1>2, <1>4, <2>1, <2>2 DEF UsersOf
  <2> QED
    BY <1>a, <2>3, <2>4, <2>5 DEF Contract!StartUse
<1>5. CASE rpc[r] = "using"
  <2>1. PICK f \in Files : f = rfile[r]
    BY <1>5 DEF Known, Typed, ReaderPart, ReadersHaveFiles
  <2>2. rfile'[r] = rfile[r] /\ rpc'[r] # "using"
    BY <1>0, <1>5 DEF ReaderStep, GiveUp, StartRead, PollAgain, AcquireLease,
              ReadArtifact, ReleaseLease, MoveReader
  <2>3. \A g \in Files :
            UsersOf(g)' = IF g = f THEN UsersOf(g) \ {r} ELSE UsersOf(g)
    BY <1>2, <2>1, <2>2 DEF UsersOf
  <2> QED
    BY <1>a, <2>3 DEF Contract!EndUse
<1> QED
  BY <1>3, <1>4, <1>5

(* The end of the process *)
LEMMA RestartPromised ==
    ASSUME LoseMemory PROVE Contract!Restart
<1>1. \A r \in Readers : rpc'[r] # "using"
  BY DEF LoseMemory
<1>2. UNCHANGED <<storeVars, disk>>
  BY DEF LoseMemory
<1> QED
  BY <1>1, <1>2 DEF Contract!Restart, ContractState, Visible, Undeleted, HasRow,
                    storeVars, KeptBytes, UsersOf

(* The service starts as the contract does. *)
LEMMA InitPromised == Init => Contract!Init
<1> SUFFICES ASSUME Init PROVE Contract!Init
  OBVIOUS
<1>1. \A f \in Files : ContractState(f) = "none" /\ ~HasRow(f)
  BY DEF Init, StoreInit, ContractState, HasRow, RowStatus
<1>2. \A r \in Readers : rpc[r] # "using"
  BY DEF Init
<1> QED
  BY <1>1, <1>2 DEF Contract!Init, KeptBytes, UsersOf

(* Every step of the service is a step of the contract, or one the contract does
   not see. *)
LEMMA StepPromised ==
    ASSUME Complete, Next, ~DiskMayFail PROVE Contract!Next \/ Stuttering
<1>1. CASE UNCHANGED <<storeVars, disk, rpc, rfile>>
  BY <1>1, UnseenStep
<1>2. ASSUME NEW f \in Files, AddRecord(f) \/ Expire(f)
      PROVE  Contract!Next \/ Stuttering
  BY <1>2, UploadPromised, ExpiryPromised DEF Contract!Next
<1>3. ASSUME NEW w \in Workers, MarkProcessing(w) \/ Publish(w) \/ FailJob(w)
      PROVE  Contract!Next \/ Stuttering
  BY <1>3, SettlingPromised DEF Contract!Next
<1>4. ASSUME NEW c \in Cleaners, MarkFile(c) \/ EraseRow(c) \/ RemoveDirectory(c)
      PROVE  Contract!Next \/ Stuttering
  BY <1>4, MarkPromised, ErasureUnseen, RemovalPromised DEF Contract!Next
<1>5. CASE \/ \E f \in Files : StageUpload(f) \/ RejectUpload(f) \/ RemoveOrphan(f)
           \/ \E w \in Workers : PrepareOutput(w) \/ Render(w)
  BY <1>5, DirectoryUnseen
<1>6. ASSUME NEW r \in Readers,
             \/ ReaderStep(r) \/ GiveUp(r)
             \/ \E f \in Files : StartRead(r, f)
      PROVE  Contract!Next \/ Stuttering
  BY <1>6, ReaderPromised DEF Contract!Next
<1>7. CASE LoseMemory
  BY <1>7, RestartPromised DEF Contract!Next
<1> QED
  BY <1>1, <1>2, <1>3, <1>4, <1>5, <1>6, <1>7, StoreUndisturbed, DiskUndisturbed,
     ReadersUndisturbed

(* Unless a removal can fail half way, the service keeps the API's promises,
   with all its goroutines, retries, failing statements and restarts: a file is
   settled once, nothing that is gone comes back, and no bytes are removed while
   a request uses them. *)
THEOREM KeepsContract ==
    ASSUME ~DiskMayFail PROVE SafeSpec => ImplementsFileContract
<1>1. Init => Contract!Init
  BY InitPromised
<1>2. Complete /\ [Next]_vars => [Contract!Next]_(Contract!vars)
  <2> SUFFICES ASSUME Complete, [Next]_vars PROVE Contract!Next \/ Stuttering
    BY DEF Stuttering
  <2>1. CASE UNCHANGED vars
    BY <2>1, UnseenStep DEF vars, readerVars
  <2>2. CASE Next
    BY <2>2, StepPromised
  <2> QED
    BY <2>1, <2>2
<1> QED
  BY <1>1, <1>2, AlwaysComplete, PTL DEF SafeSpec, ImplementsFileContract, Contract!Spec
=============================================================================
