------------------------- MODULE FileServiceProofs --------------------------
(***************************************************************************)
(* SingleFlight and RemovalIsExclusive of module FileService, for any      *)
(* number of files, workers, requests, retries, faults and restarts.       *)
(***************************************************************************)
EXTENDS FileServiceTypes

----------------------------------------------------------------------------
(* The queue as a set *)

Holds(s, f) == \E n \in DOMAIN s : s[n] = f
Distinct(s) == \A m, n \in DOMAIN s : s[m] = s[n] => m = n

(* Append adds its element and keeps a queue without duplicates so. *)
LEMMA AppendHolds ==
    ASSUME NEW s \in Seq(Files), NEW f \in Files
    PROVE  /\ \A g : Holds(Append(s, f), g) <=> Holds(s, g) \/ g = f
           /\ Distinct(s) /\ ~Holds(s, f) => Distinct(Append(s, f))
<1> DEFINE t == Append(s, f)
<1>1. /\ Len(s) \in Nat
      /\ DOMAIN s = 1 .. Len(s)
      /\ DOMAIN t = 1 .. Len(s) + 1
      /\ \A n \in 1 .. Len(s) : t[n] = s[n]
      /\ t[Len(s) + 1] = f
  OBVIOUS
<1> HIDE DEF t
<1>2. ASSUME NEW g PROVE Holds(t, g) <=> Holds(s, g) \/ g = f
  <2>1. ASSUME Holds(t, g), g # f PROVE Holds(s, g)
    <3>1. PICK n \in 1 .. Len(s) + 1 : t[n] = g
      BY <1>1, <2>1 DEF Holds
    <3>2. n \in 1 .. Len(s)
      BY <1>1, <2>1, <3>1
    <3> QED
      BY <1>1, <3>1, <3>2 DEF Holds
  <2>2. ASSUME Holds(s, g) PROVE Holds(t, g)
    <3>1. PICK n \in 1 .. Len(s) : s[n] = g
      BY <1>1, <2>2 DEF Holds
    <3>2. n \in 1 .. Len(s) + 1 /\ t[n] = g
      BY <1>1, <3>1
    <3> QED
      BY <1>1, <3>2 DEF Holds
  <2>3. Holds(t, f)
    <3>1. Len(s) + 1 \in 1 .. Len(s) + 1
      BY <1>1
    <3> QED
      BY <1>1, <3>1 DEF Holds
  <2> QED
    BY <2>1, <2>2, <2>3
<1>3. ASSUME Distinct(s), ~Holds(s, f), NEW m \in DOMAIN t, NEW n \in DOMAIN t,
             t[m] = t[n]
      PROVE  m = n
  <2>1. \A k \in 1 .. Len(s) : t[k] # f
    BY <1>1, <1>3 DEF Holds
  <2>2. CASE t[m] = f
    <3>1. m \notin 1 .. Len(s) /\ n \notin 1 .. Len(s)
      BY <1>3, <2>1, <2>2
    <3> QED
      BY <1>1, <3>1
  <2>3. CASE t[m] # f
    <3>1. m \in 1 .. Len(s) /\ n \in 1 .. Len(s)
      BY <1>1, <1>3, <2>3
    <3> QED
      BY <1>1, <1>3, <3>1 DEF Distinct
  <2> QED
    BY <2>2, <2>3
<1> QED
  BY <1>2, <1>3 DEF t, Distinct

(* Tail removes the head, and with it the only occurrence of that element. *)
LEMMA TailHolds ==
    ASSUME NEW s \in Seq(Files), s # <<>>, Distinct(s)
    PROVE  /\ Holds(s, Head(s))
           /\ \A g : Holds(Tail(s), g) <=> Holds(s, g) /\ g # Head(s)
           /\ Distinct(Tail(s))
<1> DEFINE t == Tail(s)
<1>1. /\ Len(s) \in Nat \ {0}
      /\ DOMAIN s = 1 .. Len(s)
      /\ DOMAIN t = 1 .. Len(s) - 1
      /\ \A n \in 1 .. Len(s) - 1 : t[n] = s[n + 1]
      /\ Head(s) = s[1]
  OBVIOUS
<1> HIDE DEF t
<1>2. Holds(s, Head(s))
  BY <1>1 DEF Holds
<1>3. ASSUME NEW g PROVE Holds(t, g) <=> Holds(s, g) /\ g # Head(s)
  <2>1. ASSUME Holds(t, g) PROVE Holds(s, g) /\ g # Head(s)
    <3>1. PICK n \in 1 .. Len(s) - 1 : t[n] = g
      BY <1>1, <2>1 DEF Holds
    <3>2. n + 1 \in DOMAIN s /\ 1 \in DOMAIN s /\ n + 1 # 1 /\ s[n + 1] = g
      BY <1>1, <3>1
    <3> QED
      BY <1>1, <3>2 DEF Holds, Distinct
  <2>2. ASSUME Holds(s, g), g # Head(s) PROVE Holds(t, g)
    <3>1. PICK n \in 1 .. Len(s) : s[n] = g
      BY <1>1, <2>2 DEF Holds
    <3>2. n - 1 \in 1 .. Len(s) - 1 /\ t[n - 1] = g
      BY <1>1, <2>2, <3>1
    <3> QED
      BY <1>1, <3>2 DEF Holds
  <2> QED
    BY <2>1, <2>2
<1>4. ASSUME NEW m \in DOMAIN t, NEW n \in DOMAIN t, t[m] = t[n] PROVE m = n
  <2>1. m + 1 \in DOMAIN s /\ n + 1 \in DOMAIN s /\ s[m + 1] = s[n + 1]
    BY <1>1, <1>4
  <2>2. m + 1 = n + 1
    BY <2>1 DEF Distinct
  <2> QED
    BY <1>1, <1>4, <2>2
<1> QED
  BY <1>2, <1>3, <1>4 DEF t, Distinct

----------------------------------------------------------------------------
(* SingleFlight: a job moves from its upload, its timer or the recovered rows
   to the queue, on to a worker, and back to a timer or out. *)

JobCore == BeforeStart /\ SingleFlight

(* A step that moves no job and starts no process keeps JobCore. *)
LEMMA JobFrame ==
    ASSUME JobCore, UNCHANGED <<creator, queue, timers, pending, wjob>>,
           Idle' => Idle,
           \A f \in Files : status[f] = "absent" => status'[f] = "absent"
    PROVE  JobCore'
  BY DEF JobCore, BeforeStart, SingleFlight, HasJob, Queued, Held

(* No statement but an INSERT gives an absent row. *)
LEMMA AbsentStays ==
    ASSUME StoreTypeOK, NEW f \in Files, NEW g, NEW s,
           status[f] = "absent",
           \/ UpdateStatus(g, s)
           \/ MarkDeleted(g)
           \/ DeleteRow(g)
           \/ PassExpiry(g)
           \/ UNCHANGED storeVars
    PROVE  status'[f] = "absent"
  BY DEF StoreTypeOK, UpdateStatus, MarkDeleted, DeleteRow, PassExpiry, Updatable,
         Undeleted, HasRow, RowStatus, storeVars

(* A worker that is done with its job holds no file. *)
LEMMA JobReleased ==
    ASSUME Typed, SingleFlight, NEW w \in Workers, wpc[w] = "handle", NextJob(w)
    PROVE  /\ wjob[w] \in Files /\ Held(wjob[w])
           /\ \A f \in Files : Held(f)' <=> Held(f) /\ f # wjob[w]
           /\ \A u, v \in Workers : wjob'[u] = wjob'[v] /\ wjob'[u] # None => u = v
<1>1. /\ wjob[w] \in Files
      /\ \A v \in Workers : wjob'[v] = IF v = w THEN None ELSE wjob[v]
  BY ProcessAssumption
     DEF Typed, WorkerPart, WorkerTypeOK, WorkersHaveJobs, Busy, WorkerPC, NextJob
<1> QED
  BY <1>1, ProcessAssumption DEF Held, SingleFlight, Cleaners

(* A job that enters the queue: it was nowhere else but where it came from. *)
LEMMA JobQueued ==
    ASSUME Typed, SingleFlight, NEW f \in Files, Enqueue(f), ~Queued(f)
    PROVE  /\ \A g \in Files : Queued(g)' <=> Queued(g) \/ g = f
           /\ \A m, n \in DOMAIN queue' : queue'[m] = queue'[n] => m = n
<1>1. queue \in Seq(Files)
  BY DEF Typed, JobPart, JobTypeOK
<1> QED
  BY <1>1, AppendHolds DEF Enqueue, Queued, Holds, Distinct, SingleFlight

(* What the workers do with jobs *)
LEMMA WorkerJobs ==
    ASSUME Typed, JobCore, NEW w \in Workers, WorkerStep(w) PROVE JobCore'
<1> USE DEF JobCore
<1>0. Idle' <=> Idle
  BY DEF Idle, WorkerStep, GetJob, QuitWorker, BeginConversion, LookUpJob,
         MarkProcessing, PrepareOutput, Render, Publish, EndConversion, Succeed,
         FailJob, RetryJob, DropJob, mainVars
<1>a. ~Idle
  BY DEF Typed, WorkerPart, NoWorkerYet, WorkerStep, GetJob, QuitWorker,
         BeginConversion, LookUpJob, MarkProcessing, PrepareOutput, Render,
         Publish, EndConversion, Succeed, FailJob, RetryJob, DropJob
<1>b. \A f \in Files : status[f] = "absent" => status'[f] = "absent"
  BY AbsentStays
     DEF Typed, StorePart, storeVars, WorkerStep, GetJob, QuitWorker,
         BeginConversion, LookUpJob, MarkProcessing, PrepareOutput, Render,
         Publish, EndConversion, Succeed, FailJob, RetryJob, DropJob
<1>1. CASE GetJob(w)
  <2>1. /\ queue \in Seq(Files)
        /\ queue # <<>>
        /\ queue' = Tail(queue)
    BY <1>1 DEF GetJob, Typed, JobPart, JobTypeOK
  <2>2. /\ Queued(Head(queue))
        /\ \A f : Queued(f)' <=> Queued(f) /\ f # Head(queue)
        /\ \A m, n \in DOMAIN queue' : queue'[m] = queue'[n] => m = n
    BY <2>1, TailHolds DEF Queued, Holds, Distinct, SingleFlight
  <2>3. Head(queue) \in Files
    BY <2>1
  <2>4. /\ wjob[w] = None
        /\ \A v \in Workers : wjob'[v] = IF v = w THEN Head(queue) ELSE wjob[v]
    BY <1>1, ProcessAssumption
       DEF GetJob, Typed, WorkerPart, WorkerTypeOK, WorkersHaveJobs, Busy
  <2>5. \A f \in Files : Held(f)' <=> Held(f) \/ f = Head(queue)
    BY <2>3, <2>4, ProcessAssumption DEF Held
  <2>6. \A u, v \in Workers : wjob'[u] = wjob'[v] /\ wjob'[u] # None => u = v
    BY <2>2, <2>3, <2>4 DEF SingleFlight, Held
  <2> QED
    BY <1>1, <1>0, <2>2, <2>3, <2>5, <2>6
       DEF GetJob, SingleFlight, BeforeStart, HasJob, storeVars
<1>2. CASE \/ QuitWorker(w) \/ BeginConversion(w) \/ LookUpJob(w)
           \/ MarkProcessing(w) \/ PrepareOutput(w) \/ Render(w) \/ Publish(w)
           \/ EndConversion(w)
  BY <1>0, <1>b, <1>2, JobFrame
     DEF QuitWorker, BeginConversion, LookUpJob, MarkProcessing, PrepareOutput,
         Render, Publish, EndConversion, jobVars
<1>3. CASE Succeed(w) \/ FailJob(w) \/ DropJob(w)
  <2>1. /\ wpc[w] = "handle"
        /\ NextJob(w)
        /\ UNCHANGED <<queue, timers, pending, creator>>
    BY <1>3 DEF Succeed, FailJob, DropJob
  <2>2. \A f : Queued(f)' <=> Queued(f)
    BY <2>1 DEF Queued
  <2> QED
    BY <1>0, <1>b, <2>1, <2>2, JobReleased DEF SingleFlight, BeforeStart, HasJob
<1>4. CASE RetryJob(w)
  <2>1. /\ wpc[w] = "handle"
        /\ NextJob(w)
        /\ timers' = timers \cup {wjob[w]}
        /\ UNCHANGED <<queue, pending, creator, status>>
    BY <1>4 DEF RetryJob, StartTimer, storeVars
  <2>2. \A f : Queued(f)' <=> Queued(f)
    BY <2>1 DEF Queued
  <2> QED
    BY <1>0, <1>a, <2>1, <2>2, JobReleased DEF SingleFlight, BeforeStart, HasJob
<1> QED
  BY <1>1, <1>2, <1>3, <1>4 DEF WorkerStep

(* What uploads, timers and recovery do with jobs *)
LEMMA UploadJobs ==
    ASSUME Typed, JobCore, NEW f \in Files,
           \/ StageUpload(f) \/ CreateStep(f) \/ FireTimer(f) \/ Expire(f)
           \/ RemoveOrphan(f) \/ EnqueuePending(f)
    PROVE  JobCore'
<1> USE DEF JobCore
<1>0. Idle' <=> Idle
  BY DEF Idle, StageUpload, CreateStep, RejectUpload, AddRecord, EnqueueUpload,
         FireTimer, Expire, RemoveOrphan, EnqueuePending, mainVars
<1>a. creator \in [Files -> CreatorPC]
  BY DEF Typed, DirectoryPart, DirectoryTypeOK
<1>1. CASE StageUpload(f)
  <2>1. \A g : (Queued(g)' <=> Queued(g)) /\ (Held(g)' <=> Held(g))
    BY <1>1 DEF StageUpload, jobVars, workerVars, Queued, Held
  <2>2. ~Idle'
    BY <1>1, <1>0 DEF StageUpload, Idle
  <2> QED
    BY <1>1, <1>a, <2>1, <2>2
       DEF StageUpload, SingleFlight, BeforeStart, HasJob, storeVars, jobVars,
           workerVars
<1>2. CASE RejectUpload(f)
  <2>1. \A g : (Queued(g)' <=> Queued(g)) /\ (Held(g)' <=> Held(g))
    BY <1>2 DEF RejectUpload, jobVars, workerVars, Queued, Held
  <2> QED
    BY <1>2, <1>0, <1>a, <2>1
       DEF RejectUpload, SingleFlight, BeforeStart, HasJob, storeVars, jobVars,
           workerVars
<1>3. CASE AddRecord(f)
  <2>1. \A g : (Queued(g)' <=> Queued(g)) /\ (Held(g)' <=> Held(g))
    BY <1>3 DEF AddRecord, jobVars, workerVars, Queued, Held
  <2>2. /\ creator[f] = "staged"
        /\ creator' = [creator EXCEPT ![f] = "stored"]
        /\ UNCHANGED <<queue, timers, pending, wjob>>
        /\ \A g \in Files \ {f} : status'[g] = status[g]
    BY <1>3 DEF AddRecord, Insert, jobVars, workerVars, Typed, StorePart, StoreTypeOK
  <2>3. ~Idle
    BY <2>2 DEF BeforeStart
  <2> QED
    BY <1>0, <1>a, <2>1, <2>2, <2>3 DEF SingleFlight, BeforeStart, HasJob
<1>4. CASE EnqueueUpload(f)
  <2>1. /\ creator[f] = "stored"
        /\ creator' = [creator EXCEPT ![f] = "done"]
        /\ UNCHANGED <<status, timers, pending, wjob>>
        /\ Enqueue(f) \/ UNCHANGED queue
    BY <1>4 DEF EnqueueUpload, storeVars, workerVars
  <2>2. ~Queued(f) /\ ~Held(f) /\ f \notin timers \cup pending
    BY <2>1 DEF SingleFlight
  <2>3. \A g : Held(g)' <=> Held(g)
    BY <2>1 DEF Held
  <2>4. CASE Enqueue(f)
    BY <1>0, <1>a, <2>1, <2>2, <2>3, <2>4, JobQueued
       DEF SingleFlight, BeforeStart, HasJob
  <2>5. CASE UNCHANGED queue
    <3>1. \A g : Queued(g)' <=> Queued(g)
      BY <2>5 DEF Queued
    <3> QED
      BY <1>0, <1>a, <2>1, <2>3, <2>5, <3>1 DEF SingleFlight, BeforeStart, HasJob
  <2> QED
    BY <2>1, <2>4, <2>5
<1>5. CASE FireTimer(f) \/ EnqueuePending(f)
  <2>1. /\ f \in timers \cup pending
        /\ f \notin (timers \cup pending)' \/ f \in timers \cap pending
        /\ timers' \cup {f} = timers \cup {f} /\ pending' \cup {f} = pending \cup {f}
        /\ timers' \subseteq timers /\ pending' \subseteq pending
        /\ UNCHANGED <<status, creator, wjob>>
        /\ Enqueue(f) \/ UNCHANGED queue
    BY <1>5 DEF FireTimer, EnqueuePending, storeVars, workerVars
  <2>2. /\ ~Queued(f) /\ ~Held(f) /\ f \notin timers \cap pending
        /\ creator[f] # "stored"
    BY <2>1 DEF SingleFlight
  <2>3. \A g : Held(g)' <=> Held(g)
    BY <2>1 DEF Held
  <2>4. CASE Enqueue(f)
    BY <1>0, <2>1, <2>2, <2>3, <2>4, JobQueued DEF SingleFlight, BeforeStart, HasJob
  <2>5. CASE UNCHANGED queue
    <3>1. \A g : Queued(g)' <=> Queued(g)
      BY <2>5 DEF Queued
    <3> QED
      BY <1>0, <2>1, <2>3, <2>5, <3>1 DEF SingleFlight, BeforeStart, HasJob
  <2> QED
    BY <2>1, <2>4, <2>5
<1>6. CASE Expire(f) \/ RemoveOrphan(f)
  BY <1>0, <1>6, JobFrame
     DEF Expire, PassExpiry, RemoveOrphan, storeVars, jobVars, workerVars
<1> QED
  BY <1>1, <1>2, <1>3, <1>4, <1>5, <1>6 DEF CreateStep

(* Cleaners and readers have no jobs. *)
LEMMA CleanerJobs ==
    ASSUME Typed, JobCore,
           \/ \E d \in Deleters, f \in Files : StartDelete(d, f)
           \/ \E c \in Cleaners : DeletionStep(c)
           \/ JanitorStep
           \/ \E r \in Readers, f \in Files : StartRead(r, f)
           \/ \E r \in Readers : ReaderStep(r) \/ GiveUp(r)
    PROVE  JobCore'
<1>1. UNCHANGED <<creator, queue, timers, pending, wjob, phase>>
  BY DEF StartDelete, DeletionStep, BeginDeletion, MarkFile, WaitForConversion,
         ConversionDone, WaitForLease, RemoveDirectory, EraseRow, EndDeletion,
         JanitorStep, StartSweep, EndSweep, QuitJanitor, NextExpired, StartRead,
         ReaderStep, PollAgain, AcquireLease, ReadArtifact, ReleaseLease, GiveUp,
         jobVars, workerVars, mainVars
<1>2. \A f \in Files : status[f] = "absent" => status'[f] = "absent"
  BY AbsentStays
     DEF Typed, StorePart, StartDelete, DeletionStep, BeginDeletion, MarkFile,
         WaitForConversion, ConversionDone, WaitForLease, RemoveDirectory,
         EraseRow, EndDeletion, JanitorStep, StartSweep, EndSweep, QuitJanitor,
         NextExpired, StartRead, ReaderStep, PollAgain, AcquireLease,
         ReadArtifact, ReleaseLease, GiveUp, storeVars
<1> QED
  BY <1>1, <1>2, JobFrame DEF Idle

(* A process starts without jobs, gives each recovered row one, and loses all
   of them when it ends. *)
LEMMA MainJobs ==
    ASSUME Typed, JobCore,
           \/ Boot \/ Run \/ Serve \/ Shutdown \/ Stop \/ Exit
           \/ Signal \/ FailServing \/ Crash
    PROVE  JobCore'
<1> USE DEF JobCore
<1>1. CASE Boot \/ Serve \/ Shutdown \/ Stop \/ Signal \/ FailServing
  <2>1. /\ UNCHANGED <<status, creator, queue, timers, pending, wjob>>
        /\ Idle' => Idle
    BY <1>1 DEF Boot, Serve, Shutdown, Stop, Signal, FailServing, Advance, Idle,
                storeVars, jobVars, workerVars
  <2> QED
    BY <2>1, JobFrame
<1>2. CASE Run
  <2>1. /\ Idle /\ ~Idle'
        /\ pending' = PendingRows
        /\ UNCHANGED <<status, creator, queue, timers, wjob>>
    BY <1>2 DEF Run, Idle, storeVars
  <2>2. \A f \in Files : ~HasJob(f) /\ (f \in PendingRows => status[f] # "absent")
    BY <2>1 DEF BeforeStart, PendingRows
  <2>3. \A f \in Files : ~Queued(f)' /\ ~Held(f)'
    BY <2>1, <2>2 DEF HasJob, Queued, Held
  <2> QED
    BY <2>1, <2>2, <2>3 DEF SingleFlight, BeforeStart, HasJob
<1>3. CASE Exit \/ Crash
  <2>1. LoseMemory
    BY <1>3 DEF Exit, Crash
  <2>2. /\ queue' = <<>> /\ timers' = {} /\ pending' = {}
        /\ \A w \in Workers : wjob'[w] = None
        /\ UNCHANGED status
    BY <2>1 DEF LoseMemory, storeVars
  <2>3. \A f \in Files :
          /\ creator'[f] \notin {"staged", "stored"}
          /\ creator'[f] = "idle" => creator[f] = "idle"
    BY <2>1 DEF LoseMemory, Typed, DirectoryPart, DirectoryTypeOK
  <2>4. \A f \in Files : ~Queued(f)' /\ ~Held(f)'
    BY <2>2, ProcessAssumption DEF Queued, Held
  <2> QED
    BY <2>2, <2>3, <2>4 DEF SingleFlight, BeforeStart, HasJob
<1> QED
  BY <1>1, <1>2, <1>3

(* A process that has just booted has no jobs (service.go:105-127). *)
LEMMA InitJobs == Init => JobCore
<1> SUFFICES ASSUME Init PROVE JobCore
  OBVIOUS
<1>1. \A f \in Files : ~Held(f)
  <2>1. \A w \in Workers : wjob[w] = None
    BY DEF Init
  <2> QED
    BY <2>1, ProcessAssumption DEF Held
<1>a. DOMAIN queue = {}
  BY DEF Init
<1>b. \A f \in Files : ~Queued(f)
  BY <1>a DEF Queued
<1>2. BeforeStart
  BY <1>1, <1>b DEF Init, StoreInit, BeforeStart, HasJob
<1>3. SingleFlight
  BY <1>1, <1>a, <1>b DEF Init, SingleFlight
<1> QED
  BY <1>2, <1>3 DEF JobCore

(* No step of any goroutine gives a file a second job (service.go:546-616). *)
LEMMA StepJobs == Typed /\ JobCore /\ [Next]_vars => JobCore'
<1> SUFFICES ASSUME Typed, JobCore, [Next]_vars PROVE JobCore'
  OBVIOUS
<1>1. CASE UNCHANGED vars
  BY <1>1, JobFrame DEF vars, storeVars, jobVars, workerVars, mainVars, Idle
<1>2. CASE Next
  BY <1>2, WorkerJobs, UploadJobs, CleanerJobs, MainJobs DEF Next, MainStep
<1> QED
  BY <1>1, <1>2

(* Uploads, retries and recovery give a file one conversion job at a time
   (service.go:151-165, 315, 641-668): no two workers convert a file at once,
   and beginConversion never overwrites another worker's entry. *)
THEOREM OneJobPerFile == SafeSpec => []SingleFlight
<1>1. Init => Typed /\ JobCore
  BY InitTyped, InitJobs
<1>2. Typed /\ JobCore /\ [Next]_vars => (Typed /\ JobCore)'
  BY StepTyped, StepJobs
<1>3. JobCore => SingleFlight
  BY DEF JobCore
<1> QED
  BY <1>1, <1>2, <1>3, PTL DEF SafeSpec

----------------------------------------------------------------------------
(* RemovalIsExclusive.  Each part of RemovalInv has a lemma: it is kept by the
   actions that change its variables, and by all others at once. *)

Known == Typed /\ JobCore /\ RemovalInv

(* The actions by what they change: the workers' positions, the cleaners' *)
OtherThanWorkers ==
    \/ \E f \in Files : StageUpload(f) \/ CreateStep(f) \/ FireTimer(f) \/ Expire(f)
    \/ \E d \in Deleters, f \in Files : StartDelete(d, f)
    \/ \E c \in Cleaners : DeletionStep(c)
    \/ JanitorStep
    \/ \E r \in Readers, f \in Files : StartRead(r, f)
    \/ \E r \in Readers : ReaderStep(r) \/ GiveUp(r)
    \/ Boot \/ Serve \/ Shutdown \/ Stop \/ Signal \/ FailServing
    \/ \E f \in Files : RemoveOrphan(f) \/ EnqueuePending(f)

OtherThanCleaners ==
    \/ \E w \in Workers : WorkerStep(w)
    \/ \E f \in Files : StageUpload(f) \/ CreateStep(f) \/ FireTimer(f) \/ Expire(f)
    \/ \E r \in Readers, f \in Files : StartRead(r, f)
    \/ \E r \in Readers : ReaderStep(r) \/ GiveUp(r)
    \/ Boot \/ Serve \/ Shutdown \/ Stop \/ Signal \/ FailServing
    \/ \E f \in Files : RemoveOrphan(f) \/ EnqueuePending(f)

CleanerMoves ==
    \/ \E d \in Deleters, f \in Files : StartDelete(d, f)
    \/ \E c \in Cleaners : DeletionStep(c)
    \/ JanitorStep

(* A step is a worker's or leaves the workers alone, a cleaner's or leaves the
   cleaners alone, or starts or ends the process. *)
LEMMA NextSplits ==
    /\ Next => (\E w \in Workers : WorkerStep(w)) \/ OtherThanWorkers \/ Run \/ LoseMemory
    /\ Next => CleanerMoves \/ OtherThanCleaners \/ Run \/ LoseMemory
  BY DEF Next, OtherThanWorkers, OtherThanCleaners, CleanerMoves, MainStep, Exit, Crash

(* Only processNextJob moves a worker or touches conversions. *)
LEMMA WorkersUndisturbed ==
    ASSUME OtherThanWorkers PROVE UNCHANGED <<wpc, wjob, conversions>>
  BY DEF OtherThanWorkers, StageUpload, CreateStep, RejectUpload, AddRecord,
         EnqueueUpload, FireTimer, Expire, StartDelete, DeletionStep,
         BeginDeletion, MarkFile, WaitForConversion, ConversionDone,
         WaitForLease, RemoveDirectory, EraseRow, EndDeletion, JanitorStep,
         StartSweep, EndSweep, QuitJanitor, NextExpired, StartRead, ReaderStep,
         PollAgain, AcquireLease, ReadArtifact, ReleaseLease, GiveUp, Boot,
         Serve, Shutdown, Stop, Signal, FailServing, Advance, RemoveOrphan,
         EnqueuePending, workerVars, lockVars

(* Only Delete and the janitor move a deletion or touch deleting. *)
LEMMA CleanersUndisturbed ==
    ASSUME OtherThanCleaners
    PROVE  UNCHANGED <<cpc, cfile, outcome, sweep, deleting>>
  BY DEF OtherThanCleaners, WorkerStep, GetJob, QuitWorker, BeginConversion,
         LookUpJob, MarkProcessing, PrepareOutput, Render, Publish,
         EndConversion, Succeed, FailJob, RetryJob, DropJob, StageUpload,
         CreateStep, RejectUpload, AddRecord, EnqueueUpload, FireTimer, Expire,
         StartRead, ReaderStep, PollAgain, AcquireLease, ReadArtifact,
         ReleaseLease, GiveUp, Boot, Serve, Shutdown, Stop, Signal, FailServing,
         Advance, RemoveOrphan, EnqueuePending, cleanerVars, lockVars

(* What Run and the end of a process leave of the workers and the cleaners *)
LEMMA FreshStart ==
    ASSUME Typed, Run \/ LoseMemory
    PROVE  /\ \A w \in Workers : wpc'[w] \notin Busy /\ wpc'[w] \notin Registered
           /\ \A w \in Workers : wpc'[w] \notin Converting
<1>1. \A w \in Workers : wpc'[w] \in {"get", "exited"}
  BY DEF Run, LoseMemory
<1> QED
  BY <1>1 DEF Busy, Registered, Converting

(* The conversion registered for a file is the active one: a second job for
   the file would have replaced it in beginConversion. *)
LEMMA RegistrationKept ==
    ASSUME Known, Next PROVE ConversionIsRegistered'
<1> USE DEF Known, RemovalInv, ConversionIsRegistered
<1>1. ASSUME NEW w \in Workers, WorkerStep(w) PROVE ConversionIsRegistered'
  <2>1. \A v \in Workers \ {w} : wpc'[v] = wpc[v] /\ wjob'[v] = wjob[v]
    BY <1>1 DEF Typed, WorkerPart, WorkerTypeOK, WorkerStep, GetJob, QuitWorker,
         BeginConversion, LookUpJob, MarkProcessing, PrepareOutput, Render,
         Publish, EndConversion, Succeed, FailJob, RetryJob, DropJob, NextJob,
         ConvertReturns
  <2>2. \A v \in Workers \ {w} : wjob[v] = wjob[w] => wjob[v] = None
    BY DEF JobCore, SingleFlight
  <2>3. \A v \in Workers : wpc[v] \in Registered \cup {"begin"} => wjob[v] \in Files
    BY DEF Typed, WorkerPart, WorkerTypeOK, WorkersHaveJobs, Busy, WorkerPC, Registered
  <2>4. CASE BeginConversion(w)
    BY <2>1, <2>2, <2>3, <2>4, ProcessAssumption
       DEF BeginConversion, Typed, LockPart, LockTypeOK, WorkerPart, WorkerTypeOK,
           Registered
  <2>5. CASE EndConversion(w)
    BY <2>1, <2>2, <2>3, <2>5, ProcessAssumption
       DEF EndConversion, Typed, LockPart, LockTypeOK, WorkerPart, WorkerTypeOK,
           Registered
  <2>6. CASE ~BeginConversion(w) /\ ~EndConversion(w)
    <3>1. /\ UNCHANGED conversions
          /\ wpc'[w] \in Registered => wpc[w] \in Registered /\ wjob'[w] = wjob[w]
      BY <1>1, <2>6
         DEF Typed, WorkerPart, WorkerTypeOK, WorkerStep, GetJob, QuitWorker,
             LookUpJob, MarkProcessing, PrepareOutput, Render, Publish, Succeed,
             FailJob, RetryJob, DropJob, NextJob, ConvertReturns, Registered,
             lockVars
    <3> QED
      BY <2>1, <3>1
  <2> QED
    BY <2>4, <2>5, <2>6
<1>2. CASE OtherThanWorkers
  BY <1>2, WorkersUndisturbed
<1>3. CASE Run \/ LoseMemory
  BY <1>3, FreshStart
<1> QED
  BY <1>1, <1>2, <1>3, NextSplits

(* A cleaner that enters or leaves a sweep, or looks its file up, owns no
   deletion. *)
LEMMA OutsiderMoves ==
    ASSUME Typed, JanitorStep \/ \E d \in Deleters, f \in Files : StartDelete(d, f)
    PROVE  \E c \in Cleaners :
               /\ cpc'[c] \notin Owning
               /\ \A d \in Cleaners \ {c} : cpc'[d] = cpc[d] /\ cfile'[d] = cfile[d]
<1>0. /\ cpc \in [Cleaners -> CleanerPC]
      /\ cfile \in [Cleaners -> Files \cup {None}]
      /\ Janitor \in Cleaners /\ Deleters \subseteq Cleaners
  BY DEF Typed, CleanerPart, CleanerTypeOK, Cleaners
<1>1. CASE JanitorStep
  <2>1. /\ cpc'[Janitor] \notin Owning
        /\ \A d \in Cleaners \ {Janitor} : cpc'[d] = cpc[d] /\ cfile'[d] = cfile[d]
    BY <1>0, <1>1
       DEF JanitorStep, StartSweep, EndSweep, QuitJanitor, NextExpired, Owning
  <2> QED
    BY <1>0, <2>1
<1>2. ASSUME NEW e \in Deleters, NEW f \in Files, StartDelete(e, f)
      PROVE  /\ cpc'[e] \notin Owning
             /\ \A d \in Cleaners \ {e} : cpc'[d] = cpc[d] /\ cfile'[d] = cfile[d]
  BY <1>0, <1>2 DEF StartDelete, Owning
<1> QED
  BY <1>0, <1>1, <1>2

(* The marker put up in beginDeletion stays until its owner's endDeletion. *)
LEMMA MarkerKept ==
    ASSUME Known, Next PROVE OwnerHasMarker'
<1> USE DEF Known, RemovalInv, OwnerHasMarker
<1>0. /\ cpc \in [Cleaners -> CleanerPC]
      /\ cfile \in [Cleaners -> Files \cup {None}]
      /\ deleting \in [Files -> Cleaners \cup {None}]
      /\ \A c \in Cleaners : cpc[c] \in Owning \cup {"claim"} => cfile[c] \in Files
      /\ \A c \in Cleaners : cpc[c] = "release" => outcome[c] \in Answers
  BY DEF Typed, CleanerPart, CleanerTypeOK, CleanersHaveFiles, AnswerKnown,
         LockPart, LockTypeOK
<1>a. Owning \cap (Answers \cup {"idle", "next", "claim", "exited", "lost"}) = {}
  BY DEF Owning, Answers
<1>1. ASSUME NEW c \in Cleaners, BeginDeletion(c) PROVE OwnerHasMarker'
  <2>1. cpc[c] = "claim" /\ cfile[c] \in Files
    BY <1>0, <1>1 DEF BeginDeletion
  <2>2. CASE deleting[cfile[c]] = None
    <3>1. /\ UNCHANGED cfile
          /\ deleting' = [deleting EXCEPT ![cfile[c]] = c]
          /\ \A d \in Cleaners \ {c} : cpc'[d] = cpc[d]
      BY <1>0, <1>1, <2>2 DEF BeginDeletion, MoveCleaner
    <3>2. \A d \in Cleaners \ {c} : cpc[d] \in Owning => cfile[d] # cfile[c]
      BY <2>2, ProcessAssumption
    <3> QED
      BY <1>0, <2>1, <3>1, <3>2
  <2>3. CASE deleting[cfile[c]] # None
    <3>1. /\ UNCHANGED deleting
          /\ cpc'[c] \notin Owning
          /\ \A d \in Cleaners \ {c} : cpc'[d] = cpc[d] /\ cfile'[d] = cfile[d]
      BY <1>0, <1>a, <1>1, <2>3
         DEF BeginDeletion, MoveCleaner, AfterFile, LeaveFile, Answers
    <3> QED
      BY <1>0, <3>1
  <2> QED
    BY <2>2, <2>3
<1>2. ASSUME NEW c \in Cleaners, EndDeletion(c) PROVE OwnerHasMarker'
  BY <1>0, <1>a, <1>2, ProcessAssumption
     DEF EndDeletion, EndsMarker, Unmark, AfterFile, LeaveFile, Owning
<1>3. ASSUME NEW c \in Cleaners,
             \/ MarkFile(c) \/ WaitForConversion(c) \/ ConversionDone(c)
             \/ WaitForLease(c) \/ RemoveDirectory(c) \/ EraseRow(c)
      PROVE  OwnerHasMarker'
  <2>1. /\ cpc[c] \in Owning
        /\ \A d \in Cleaners \ {c} : cpc'[d] = cpc[d]
        /\ UNCHANGED <<cfile, deleting>>
    BY <1>0, <1>3
       DEF MarkFile, WaitForConversion, ConversionDone, WaitForLease,
           RemoveDirectory, EraseRow, MoveCleaner, Conclude, Owning, lockVars
  <2> QED
    BY <1>0, <2>1
<1>4. CASE JanitorStep \/ \E d \in Deleters, f \in Files : StartDelete(d, f)
  <2>1. UNCHANGED deleting
    BY <1>4 DEF JanitorStep, StartSweep, EndSweep, QuitJanitor, NextExpired,
                StartDelete, lockVars
  <2> QED
    BY <1>0, <1>a, <1>4, <2>1, OutsiderMoves
<1>5. CASE OtherThanCleaners
  BY <1>5, CleanersUndisturbed
<1>6. CASE Run
  BY <1>0, <1>a, <1>6 DEF Run, lockVars
<1>7. CASE LoseMemory
  BY <1>0, <1>a, <1>7 DEF LoseMemory
<1> QED
  BY <1>1, <1>2, <1>3, <1>4, <1>5, <1>6, <1>7, NextSplits DEF CleanerMoves, DeletionStep

(* No statement brings a deleted row back. *)
LEMMA DeadStays ==
    ASSUME Typed, BeforeStart, Next, NEW f \in Files, Dead(f) PROVE Dead(f)'
<1>0. StoreTypeOK /\ status[f] # "absent"
  BY DEF Typed, StorePart, Dead
<1>1. ASSUME NEW g, NEW s \in RowStatus,
             \/ UpdateStatus(g, s) \/ MarkDeleted(g) \/ DeleteRow(g)
             \/ PassExpiry(g) \/ UNCHANGED storeVars
      PROVE  Dead(f)'
  BY <1>0, <1>1 DEF StoreTypeOK, UpdateStatus, MarkDeleted, DeleteRow, PassExpiry,
                    Updatable, Undeleted, HasRow, RowStatus, Dead, storeVars
<1>2. ASSUME NEW g \in Files, AddRecord(g) PROVE Dead(f)'
  <2>1. status[g] = "absent"
    BY <1>2 DEF AddRecord, BeforeStart
  <2> QED
    BY <1>0, <1>2, <2>1 DEF AddRecord, Insert, StoreTypeOK, Undeleted, HasRow, Dead
<1>a. "processing" \in RowStatus /\ "processed" \in RowStatus /\ "failed" \in RowStatus
  BY DEF RowStatus
<1>3. ASSUME NEW w \in Workers, WorkerStep(w) PROVE Dead(f)'
  BY <1>1, <1>a, <1>3
     DEF WorkerStep, GetJob, QuitWorker, BeginConversion, LookUpJob,
         MarkProcessing, PrepareOutput, Render, Publish, EndConversion, Succeed,
         FailJob, RetryJob, DropJob
<1>4. CASE CleanerMoves
  BY <1>1, <1>a, <1>4
     DEF CleanerMoves, StartDelete, DeletionStep, BeginDeletion, MarkFile,
         WaitForConversion, ConversionDone, WaitForLease, RemoveDirectory,
         EraseRow, EndDeletion, JanitorStep, StartSweep, EndSweep, QuitJanitor,
         NextExpired
<1>5. CASE \/ \E r \in Readers, g \in Files : StartRead(r, g)
           \/ \E r \in Readers : ReaderStep(r) \/ GiveUp(r)
           \/ Boot \/ Serve \/ Shutdown \/ Stop \/ Signal \/ FailServing
           \/ Run \/ LoseMemory
  BY <1>1, <1>a, <1>5
     DEF StartRead, ReaderStep, PollAgain, AcquireLease, ReadArtifact,
         ReleaseLease, GiveUp, Boot, Serve, Shutdown, Stop, Signal, FailServing,
         Advance, Run, LoseMemory
<1>6. ASSUME NEW g \in Files,
             \/ StageUpload(g) \/ RejectUpload(g) \/ EnqueueUpload(g)
             \/ FireTimer(g) \/ Expire(g) \/ RemoveOrphan(g) \/ EnqueuePending(g)
      PROVE  Dead(f)'
  BY <1>1, <1>a, <1>6
     DEF StageUpload, RejectUpload, EnqueueUpload, FireTimer, Expire,
         RemoveOrphan, EnqueuePending
<1> QED
  BY <1>2, <1>3, <1>4, <1>5, <1>6, NextSplits
     DEF OtherThanCleaners, CreateStep

(* A deletion goes on only for a row that is marked or gone, whether its own
   UPDATE marked it or the janitor's copy showed it marked. *)
LEMMA DoomKept ==
    ASSUME Known, Next PROVE DoomedIsDead'
<1> USE DEF Known, RemovalInv, DoomedIsDead
<1>0. /\ cpc \in [Cleaners -> CleanerPC]
      /\ cfile \in [Cleaners -> Files \cup {None}]
      /\ sweep \in [Files -> {"none", "unmarked", "marked"}]
      /\ \A c \in Cleaners : cpc[c] \in Owning \cup {"claim"} => cfile[c] \in Files
      /\ \A c \in Cleaners : cpc[c] = "release" => outcome[c] \in Answers
  BY DEF Typed, CleanerPart, CleanerTypeOK, CleanersHaveFiles, AnswerKnown
<1>a. /\ Dooming \subseteq Owning
      /\ Dooming \cap (Answers \cup {"idle", "next", "claim", "mark", "release",
                                     "exited", "lost"}) = {}
  BY DEF Owning, Dooming, Answers
<1>b. \A f \in Files : Dead(f) => Dead(f)'
  BY DeadStays DEF JobCore
<1>1. ASSUME NEW c \in Cleaners, MarkFile(c) PROVE DoomedIsDead'
  <2>1. /\ cpc[c] = "mark" /\ cfile[c] \in Files
        /\ \A d \in Cleaners \ {c} : cpc'[d] = cpc[d]
        /\ UNCHANGED <<cfile, sweep>>
    BY <1>0, <1>1 DEF MarkFile, MoveCleaner, Conclude, Owning
  <2>2. cpc'[c] \in Dooming => Dead(cfile[c])'
    <3>1. CASE AlreadyMarked(c)
      BY <1>b, <2>1, <3>1 DEF AlreadyMarked
    <3>2. CASE ~AlreadyMarked(c) /\ cpc'[c] \in Dooming
      <4>1. MarkDeleted(cfile[c]) /\ Undeleted(cfile[c])
        BY <1>0, <1>1, <1>a, <3>2 DEF MarkFile, MoveCleaner, Conclude
      <4> QED
        BY <2>1, <4>1 DEF MarkDeleted, Typed, StorePart, StoreTypeOK, Dead,
                          Undeleted, HasRow, RowStatus
    <3> QED
      BY <3>1, <3>2
  <2> QED
    BY <1>0, <1>a, <1>b, <2>1, <2>2
<1>2. ASSUME NEW c \in Cleaners,
             \/ WaitForConversion(c) \/ ConversionDone(c) \/ WaitForLease(c)
             \/ RemoveDirectory(c) \/ EraseRow(c)
      PROVE  DoomedIsDead'
  <2>1. /\ cpc[c] \in Dooming
        /\ \A d \in Cleaners \ {c} : cpc'[d] = cpc[d]
        /\ UNCHANGED <<cfile, sweep>>
    BY <1>0, <1>2
       DEF WaitForConversion, ConversionDone, WaitForLease, RemoveDirectory,
           EraseRow, MoveCleaner, Conclude, Dooming
  <2> QED
    BY <1>0, <1>a, <1>b, <2>1
<1>3. ASSUME NEW c \in Cleaners, BeginDeletion(c) \/ EndDeletion(c)
      PROVE  DoomedIsDead'
  <2>1. /\ cpc'[c] \notin Dooming
        /\ \A d \in Cleaners \ {c} : cpc'[d] = cpc[d] /\ cfile'[d] = cfile[d]
        /\ \A f \in Files : sweep'[f] = "marked" => sweep[f] = "marked"
    BY <1>0, <1>a, <1>3
       DEF BeginDeletion, EndDeletion, MoveCleaner, AfterFile, LeaveFile, Owning
  <2> QED
    BY <1>0, <1>a, <1>b, <2>1
<1>4. CASE StartSweep
  <2>1. \A f \in Files : sweep'[f] = "marked" => Dead(f)
    BY <1>4 DEF StartSweep, ExpiredRow, Dead, Undeleted, HasRow, RowStatus
  <2> QED
    BY <1>0, <1>a, <1>b, <1>4, <2>1 DEF StartSweep
<1>5. CASE \/ EndSweep \/ QuitJanitor \/ \E f \in Files : NextExpired(f)
           \/ \E d \in Deleters, f \in Files : StartDelete(d, f)
  <2>1. UNCHANGED sweep
    BY <1>5 DEF EndSweep, QuitJanitor, NextExpired, StartDelete
  <2> QED
    BY <1>0, <1>a, <1>b, <1>5, <2>1, OutsiderMoves DEF JanitorStep
<1>6. CASE OtherThanCleaners
  BY <1>0, <1>a, <1>b, <1>6, CleanersUndisturbed
<1>7. CASE Run
  BY <1>0, <1>a, <1>b, <1>7 DEF Run
<1>8. CASE LoseMemory
  BY <1>0, <1>a, <1>b, <1>8 DEF LoseMemory
<1> QED
  BY <1>1, <1>2, <1>3, <1>4, <1>5, <1>6, <1>7, <1>8, NextSplits
     DEF CleanerMoves, DeletionStep, JanitorStep

(* A cleaner past waitForConversion has no worker writing to its directory:
   the one registered conversion was the only one, and marking the row keeps
   every other from starting (service.go:711-719, 621-636). *)
LEMMA WriterKept ==
    ASSUME Known, Next PROVE WaitsForWriter'
<1> USE DEF Known, RemovalInv, WaitsForWriter
<1>0. /\ cpc \in [Cleaners -> CleanerPC]
      /\ cfile \in [Cleaners -> Files \cup {None}]
      /\ awaited \in [Cleaners -> Workers \cup {None}]
      /\ wpc \in [Workers -> WorkerPC]
      /\ wjob \in [Workers -> Files \cup {None}]
      /\ \A c \in Cleaners : cpc[c] \in Owning \cup {"claim"} => cfile[c] \in Files
      /\ \A c \in Cleaners : cpc[c] = "release" => outcome[c] \in Answers
      /\ \A w \in Workers : wpc[w] \in Registered \cup {"begin", "handle"} => wjob[w] \in Files
  BY DEF Typed, CleanerPart, CleanerTypeOK, CleanersHaveFiles, AnswerKnown,
         WorkerPart, WorkerTypeOK, WorkersHaveJobs, Busy, WorkerPC, Registered
<1>a. /\ PastConversion \cup {"await"} \subseteq Dooming
      /\ Dooming \subseteq Owning
      /\ Dooming \cap (Answers \cup {"idle", "next", "claim", "mark", "release",
                                     "exited", "lost"}) = {}
  BY DEF Owning, Dooming, Answers, PastConversion
<1>b. Converting = {"prepare", "render"} /\ Converting \subseteq Registered
  BY DEF Converting, Registered
<1>1. ASSUME NEW w \in Workers, WorkerStep(w) PROVE WaitsForWriter'
  <2>1. /\ \A v \in Workers \ {w} : wpc'[v] = wpc[v] /\ wjob'[v] = wjob[v]
        /\ UNCHANGED <<cpc, cfile>>
    BY <1>0, <1>1
       DEF WorkerStep, GetJob, QuitWorker, BeginConversion, LookUpJob,
         MarkProcessing, PrepareOutput, Render, Publish, EndConversion, Succeed,
         FailJob, RetryJob, DropJob, NextJob, ConvertReturns, cleanerVars
  <2>2. CASE MarkProcessing(w)
    <3>1. /\ UNCHANGED <<wjob, awaited>>
          /\ wpc'[w] \in Converting => Undeleted(wjob[w])
      BY <1>0, <1>b, <2>2
         DEF MarkProcessing, ConvertReturns, Updatable, cleanerVars
    <3>2. Undeleted(wjob[w]) =>
            \A c \in Cleaners : cfile[c] = wjob[w] => cpc[c] \notin Dooming
      BY DEF DoomedIsDead, Dead
    <3> QED
      BY <1>a, <2>1, <3>1, <3>2
  <2>3. CASE EndConversion(w)
    BY <1>0, <1>b, <2>1, <2>3, ProcessAssumption DEF EndConversion, CloseDone
  <2>4. CASE ~MarkProcessing(w) /\ ~EndConversion(w)
    <3>1. /\ UNCHANGED awaited
          /\ wpc'[w] \in Converting => wpc[w] \in Converting /\ wjob'[w] = wjob[w]
      BY <1>0, <1>1, <1>b, <2>4
         DEF WorkerStep, GetJob, QuitWorker, BeginConversion, LookUpJob,
             PrepareOutput, Render, Publish, Succeed, FailJob, RetryJob, DropJob,
             NextJob, ConvertReturns, cleanerVars
    <3> QED
      BY <2>1, <3>1
  <2> QED
    BY <2>2, <2>3, <2>4
<1>2. ASSUME CleanerMoves PROVE UNCHANGED <<wpc, wjob>>
  BY <1>2 DEF CleanerMoves, StartDelete, DeletionStep, BeginDeletion, MarkFile,
              WaitForConversion, ConversionDone, WaitForLease, RemoveDirectory,
              EraseRow, EndDeletion, JanitorStep, StartSweep, EndSweep,
              QuitJanitor, NextExpired, workerVars
<1>3. ASSUME NEW c \in Cleaners, WaitForConversion(c) PROVE WaitsForWriter'
  <2>1. /\ cpc[c] = "convwait" /\ cfile[c] \in Files
        /\ UNCHANGED <<wpc, wjob, cfile>>
        /\ \A d \in Cleaners \ {c} : cpc'[d] = cpc[d] /\ awaited'[d] = awaited[d]
    BY <1>0, <1>3 DEF WaitForConversion, MoveCleaner, Owning
  <2>2. \A w \in Workers : wjob[w] = cfile[c] /\ wpc[w] \in Converting =>
            conversions[cfile[c]] = w
    BY <1>b DEF ConversionIsRegistered
  <2>3. CASE conversions[cfile[c]] = None
    BY <1>0, <2>1, <2>2, <2>3, ProcessAssumption
  <2>4. CASE conversions[cfile[c]] # None
    <3>1. cpc'[c] = "await" /\ awaited'[c] = conversions[cfile[c]]
      BY <1>0, <1>3, <2>4 DEF WaitForConversion, MoveCleaner, InFlight
    <3> QED
      BY <2>1, <2>2, <3>1 DEF PastConversion
  <2> QED
    BY <2>3, <2>4
<1>4. ASSUME NEW c \in Cleaners, ConversionDone(c) PROVE WaitsForWriter'
  <2>1. /\ \A w \in Workers : ~(wjob[w] = cfile[c] /\ wpc[w] \in Converting)
        /\ \A d \in Cleaners \ {c} : cpc'[d] = cpc[d]
        /\ UNCHANGED <<wpc, wjob, cfile, awaited>>
    BY <1>0, <1>4, ProcessAssumption DEF ConversionDone, MoveCleaner, workerVars
  <2> QED
    BY <2>1
<1>5. ASSUME NEW c \in Cleaners, WaitForLease(c) \/ RemoveDirectory(c)
      PROVE  WaitsForWriter'
  <2>1. /\ cpc[c] \in PastConversion
        /\ cpc'[c] # "await"
        /\ \A d \in Cleaners \ {c} : cpc'[d] = cpc[d]
        /\ UNCHANGED <<wpc, wjob, cfile, awaited>>
    BY <1>0, <1>5 DEF WaitForLease, RemoveDirectory, MoveCleaner, Conclude,
                      workerVars, PastConversion
  <2> QED
    BY <2>1
<1>6. ASSUME NEW c \in Cleaners,
             MarkFile(c) \/ EraseRow(c) \/ BeginDeletion(c) \/ EndDeletion(c)
      PROVE  WaitsForWriter'
  <2>1. /\ cpc'[c] \notin PastConversion \cup {"await"}
        /\ \A d \in Cleaners \ {c} : cpc'[d] = cpc[d] /\ cfile'[d] = cfile[d]
        /\ UNCHANGED <<wpc, wjob, awaited>>
    BY <1>0, <1>a, <1>6
       DEF MarkFile, EraseRow, BeginDeletion, EndDeletion, MoveCleaner, Conclude,
           AfterFile, LeaveFile, workerVars, PastConversion
  <2> QED
    BY <2>1
<1>7. CASE JanitorStep \/ \E d \in Deleters, f \in Files : StartDelete(d, f)
  <2>1. UNCHANGED <<wpc, wjob, awaited>>
    BY <1>7 DEF JanitorStep, StartSweep, EndSweep, QuitJanitor, NextExpired,
                StartDelete, workerVars
  <2> QED
    BY <1>a, <1>7, <2>1, OutsiderMoves
<1>8. CASE OtherThanCleaners /\ ~\E w \in Workers : WorkerStep(w)
  <2>1. UNCHANGED <<wpc, wjob, cpc, cfile, awaited>>
    BY <1>8 DEF OtherThanCleaners, StageUpload, CreateStep, RejectUpload,
         AddRecord, EnqueueUpload, FireTimer, Expire, StartRead, ReaderStep,
         PollAgain, AcquireLease, ReadArtifact, ReleaseLease, GiveUp, Boot, Serve,
         Shutdown, Stop, Signal, FailServing, Advance, RemoveOrphan,
         EnqueuePending, cleanerVars, workerVars
  <2> QED
    BY <2>1
<1>9. CASE Run \/ LoseMemory
  BY <1>9, FreshStart
<1> QED
  BY <1>1, <1>3, <1>4, <1>5, <1>6, <1>7, <1>8, <1>9, NextSplits
     DEF CleanerMoves, DeletionStep

(* Once waitForLease returned there is no lease, and the marker refuses new
   ones (service.go:466-483, 502-517). *)
LEMMA LeaselessKept ==
    ASSUME Known, Next PROVE NoLeaseLeft'
<1> USE DEF Known, RemovalInv, NoLeaseLeft
<1>0. /\ cpc \in [Cleaners -> CleanerPC]
      /\ cfile \in [Cleaners -> Files \cup {None}]
      /\ leases \in [Files -> SUBSET Readers]
      /\ rpc \in [Readers -> ReaderPC]
      /\ \A c \in Cleaners : cpc[c] \in Owning \cup {"claim"} => cfile[c] \in Files
      /\ \A c \in Cleaners : cpc[c] = "release" => outcome[c] \in Answers
      /\ \A r \in Readers : rpc[r] # "idle" => rfile[r] \in Files
  BY DEF Typed, CleanerPart, CleanerTypeOK, CleanersHaveFiles, AnswerKnown,
         LockPart, LockTypeOK, ReaderPart, ReaderTypeOK, ReadersHaveFiles
<1>a. /\ PastLease \subseteq Owning
      /\ PastLease \cap (Answers \cup {"idle", "next", "claim", "mark", "await",
                                       "leasewait", "release", "exited", "lost"}) = {}
  BY DEF Owning, PastLease, Answers
<1>1. ASSUME NEW c \in Cleaners, WaitForLease(c) \/ RemoveDirectory(c)
      PROVE  NoLeaseLeft'
  <2>1. /\ leases[cfile[c]] = {}
        /\ \A d \in Cleaners \ {c} : cpc'[d] = cpc[d]
        /\ UNCHANGED <<cfile, leases>>
    BY <1>0, <1>1 DEF WaitForLease, RemoveDirectory, MoveCleaner, Conclude,
                      LeasesReleased, lockVars, PastLease
  <2> QED
    BY <2>1
<1>2. ASSUME NEW c \in Cleaners,
             \/ MarkFile(c) \/ WaitForConversion(c) \/ ConversionDone(c)
             \/ EraseRow(c) \/ BeginDeletion(c) \/ EndDeletion(c)
      PROVE  NoLeaseLeft'
  <2>1. /\ cpc'[c] \notin PastLease
        /\ \A d \in Cleaners \ {c} : cpc'[d] = cpc[d] /\ cfile'[d] = cfile[d]
        /\ UNCHANGED leases
    BY <1>0, <1>a, <1>2
       DEF MarkFile, WaitForConversion, ConversionDone, EraseRow, BeginDeletion,
           EndDeletion, MoveCleaner, Conclude, AfterFile, LeaveFile, lockVars,
           PastLease
  <2> QED
    BY <2>1
<1>3. CASE JanitorStep \/ \E d \in Deleters, f \in Files : StartDelete(d, f)
  <2>1. UNCHANGED leases
    BY <1>3 DEF JanitorStep, StartSweep, EndSweep, QuitJanitor, NextExpired,
                StartDelete, lockVars
  <2> QED
    BY <1>a, <1>3, <2>1, OutsiderMoves
<1>4. CASE OtherThanCleaners
  <2>1. UNCHANGED <<cpc, cfile>>
    BY <1>4, CleanersUndisturbed
  <2>2. ASSUME NEW r \in Readers, AcquireLease(r) PROVE NoLeaseLeft'
    <3>1. /\ rfile[r] \in Files
          /\ \A f \in Files : leases'[f] # leases[f] => deleting[f] = None
      BY <1>0, <2>2 DEF AcquireLease, LeaseRefused
    <3> QED
      BY <1>0, <1>a, <2>1, <3>1, ProcessAssumption DEF OwnerHasMarker
  <2>3. ASSUME NEW r \in Readers, ReadArtifact(r) \/ ReleaseLease(r)
        PROVE  NoLeaseLeft'
    <3>1. \A f \in Files : leases'[f] \subseteq leases[f]
      BY <1>0, <2>3 DEF ReadArtifact, ReleaseLease, DropLease
    <3> QED
      BY <1>0, <1>a, <2>1, <3>1
  <2>4. CASE ~\E r \in Readers : AcquireLease(r) \/ ReadArtifact(r) \/ ReleaseLease(r)
    <3>1. UNCHANGED leases
      BY <1>4, <2>4
         DEF OtherThanCleaners, WorkerStep, GetJob, QuitWorker, BeginConversion,
             LookUpJob, MarkProcessing, PrepareOutput, Render, Publish,
             EndConversion, Succeed, FailJob, RetryJob, DropJob, StageUpload,
             CreateStep, RejectUpload, AddRecord, EnqueueUpload, FireTimer,
             Expire, StartRead, ReaderStep, PollAgain, GiveUp, Boot, Serve,
             Shutdown, Stop, Signal, FailServing, Advance, RemoveOrphan,
             EnqueuePending, lockVars
    <3> QED
      BY <2>1, <3>1
  <2> QED
    BY <2>2, <2>3, <2>4
<1>5. CASE Run
  BY <1>0, <1>a, <1>5 DEF Run, lockVars
<1>6. CASE LoseMemory
  BY <1>0, <1>a, <1>6 DEF LoseMemory
<1> QED
  BY <1>1, <1>2, <1>3, <1>4, <1>5, <1>6, NextSplits DEF CleanerMoves, DeletionStep

(* Before the first start nobody deletes anything. *)
LEMMA InitRemoval == Init => RemovalInv
<1> SUFFICES ASSUME Init PROVE RemovalInv
  OBVIOUS
<1>1. /\ \A w \in Workers : wpc[w] = "exited"
      /\ \A c \in Cleaners : cpc[c] \in {"exited", "idle"}
      /\ \A f \in Files : sweep[f] = "none"
  BY DEF Init
<1> QED
  BY <1>1 DEF RemovalInv, ConversionIsRegistered, OwnerHasMarker, DoomedIsDead,
              WaitsForWriter, NoLeaseLeft, Registered, Owning, Dooming, Converting,
              PastLease

(* No step breaks the order in which a deletion waits and removes
   (service.go:328-360). *)
LEMMA StepRemoval == Known /\ [Next]_vars => RemovalInv'
<1> SUFFICES ASSUME Known, [Next]_vars PROVE RemovalInv'
  OBVIOUS
<1>1. CASE UNCHANGED vars
  BY <1>1 DEF Known, RemovalInv, ConversionIsRegistered, OwnerHasMarker,
              DoomedIsDead, Dead, Undeleted, HasRow, WaitsForWriter, NoLeaseLeft,
              vars, storeVars, lockVars, workerVars, cleanerVars
<1>2. CASE Next
  BY <1>2, RegistrationKept, MarkerKept, DoomKept, WriterKept, LeaselessKept
     DEF RemovalInv
<1> QED
  BY <1>1, <1>2

(* What the deletion protocol of service.go:328-360 and 785-825 is for: when
   RemoveAll runs, no reader has a lease, no worker writes to the directory and
   no other request or sweep deletes the same file. *)
THEOREM RemovalAlone == SafeSpec => []RemovalIsExclusive
<1>1. Init => Known
  BY InitTyped, InitJobs, InitRemoval DEF Known
<1>2. Known /\ [Next]_vars => Known'
  BY StepTyped, StepJobs, StepRemoval DEF Known
<1>3. Known => RemovalIsExclusive
  <2> SUFFICES ASSUME Known, NEW c \in Cleaners, cpc[c] = "remove"
      PROVE  /\ leases[cfile[c]] = {}
             /\ \A w \in Workers : wjob[w] = cfile[c] => wpc[w] \notin Converting
             /\ \A d \in Cleaners \ {c} : cfile[d] = cfile[c] => cpc[d] \notin Owning
    BY DEF RemovalIsExclusive
  <2>1. leases[cfile[c]] = {}
    BY DEF Known, RemovalInv, NoLeaseLeft, PastLease
  <2>2. \A w \in Workers : wjob[w] = cfile[c] => wpc[w] \notin Converting
    BY DEF Known, RemovalInv, WaitsForWriter, PastConversion
  <2>3. \A d \in Cleaners \ {c} : cfile[d] = cfile[c] => cpc[d] \notin Owning
    BY DEF Known, RemovalInv, OwnerHasMarker, Owning
  <2> QED
    BY <2>1, <2>2, <2>3
<1> QED
  BY <1>1, <1>2, <1>3, PTL DEF SafeSpec
=============================================================================
