----------------------- MODULE FileServiceProperties ------------------------
(***************************************************************************)
(* What module FileService is checked for.                                 *)
(***************************************************************************)
EXTENDS FileService

Queued(f) == \E n \in DOMAIN queue : queue[n] = f
Held(f) == \E w \in Workers : wjob[w] = f

(* Somebody is bound to convert the file: it waits in the queue, for Run, for
   a timer or for its upload to enqueue it, or a worker has it. *)
HasJob(f) ==
    Queued(f) \/ Held(f) \/ f \in timers \/ f \in pending \/ creator[f] = "stored"

(* Where a worker writes to the file's directory *)
Converting == {"prepare", "render"}

(* Where a cleaner owns the deletion of its file *)
Owning == {"mark", "convwait", "await", "leasewait", "remove", "erase", "release"}

Awaiting(f) == Visible(f) /\ status[f] \in {"uploaded", "processing"}

Running == phase \in {"starting", "up", "draining", "stopping"}

----------------------------------------------------------------------------
(* Safety *)

(* A file has one conversion job at a time, wherever it is: uploads, retries
   and recovery never make a second one, which would overwrite the first one's
   entry in conversions (service.go:598) and hide it from waitForConversion. *)
SingleFlight ==
    /\ \A m, n \in DOMAIN queue : queue[m] = queue[n] => m = n
    /\ \A v, w \in Workers : wjob[v] = wjob[w] /\ wjob[v] # None => v = w
    /\ \A f \in Files :
        /\ Queued(f) =>
            ~Held(f) /\ f \notin timers \cup pending /\ creator[f] # "stored"
        /\ Held(f) => f \notin timers \cup pending /\ creator[f] # "stored"
        /\ f \in timers => f \notin pending /\ creator[f] # "stored"
        /\ f \in pending => creator[f] # "stored"

(* While a directory is removed (service.go:351, 810) nobody reads it under a
   lease, no worker writes to it, and no other cleaner is at the same file. *)
RemovalIsExclusive ==
    \A c \in Cleaners : cpc[c] = "remove" =>
        /\ leases[cfile[c]] = {}
        /\ \A w \in Workers : wjob[w] = cfile[c] => wpc[w] \notin Converting
        /\ \A d \in Cleaners \ {c} : cfile[d] = cfile[c] => cpc[d] \notin Owning

(* The deletion marker of a file (service.go:55-60) is held by a cleaner at
   work on that file: on no path, an error's included, does a marker outlive
   its deletion and make the file unreadable and undeletable for good. *)
MarkerIsOwned ==
    \A f \in Files : deleting[f] # None =>
        cfile[deleting[f]] = f /\ cpc[deleting[f]] \in Owning

(* What the API shows of a file is on disk: its source, and if it is processed
   its artifacts and manifest, also after failed and repeated conversions,
   crashes and recovery. *)
RowsMatchDisk ==
    \A f \in Files : Undeleted(f) =>
        /\ "source" \in disk[f]
        /\ status[f] = "processed" => disk[f] = Content

(* A DELETE answered "deleted" is final: no row, no directory, and no late
   conversion that creates the directory again. *)
DeletedMeansGone ==
    \A d \in Deleters : cpc[d] = "deleted" =>
        status[cfile[d]] = "removed" /\ disk[cfile[d]] = {}

(* A running process has no directory without a row, save that of an upload in
   progress or one whose clean-up failed; those of a crash are reconciled. *)
NoOrphanDirectory ==
    Running =>
        \A f \in Files : disk[f] # {} =>
            HasRow(f) \/ creator[f] \in {"staged", "leaked"}

(* A file that waits for its conversion has a job (DESIGN.md:344, 371): none is
   forgotten by a retry, by recovery or by a deletion that failed. *)
NoStrandedFile ==
    phase \in {"starting", "up"} /\ ~halted =>
        \A f \in Files : Awaiting(f) => HasJob(f)

(* The retry counter of a file does not outlive its job: retryCount would
   otherwise grow with every file that once failed. *)
RetryStateReclaimed ==
    ~halted => \A f \in Files : retries[f] > 0 => HasJob(f)

(* A reader is told that the artifacts are missing only for a file that is
   deleted: the conversion and the expiry of a file never cause it. *)
MissingOnlyWhenDeleted ==
    \A r \in Readers : rpc[r] = "missing" => ~Undeleted(rfile[r])

(* A Resolve that raced with a deletion answers 404 (service.go:415-417: the
   lease is taken before the manifest is read, so that a deletion "cannot
   remove the artifacts between the store lookup and the manifest read").  Not
   so: a deletion that completes between the lookup and the lease leaves no
   marker that refuses the lease, and the answer is 422. *)
VanishedIsNotFound == \A r \in ManifestReaders : rpc[r] # "missing"

----------------------------------------------------------------------------
(* Action properties *)

Served(r) == IF r \in ManifestReaders THEN {"manifest", "derived"} ELSE {"source"}

(* Nothing a reader was given a lease on goes away under it, whoever else
   deletes, expires or converts the file (service.go:50-53). *)
LeasedArtifactsStay ==
    [][\A r \in Readers :
        rpc[r] \in {"read", "using"} /\ rpc'[r] \in {"read", "using"} =>
            disk[rfile[r]] \cap Served(r) \subseteq disk'[rfile[r]]]_vars

(* A reader is served what its file was converted to: it has the manifest and
   the artifacts as long as it uses them. *)
ServedWhileUsing ==
    \A r \in Readers : rpc[r] = "using" => Served(r) \subseteq disk[rfile[r]]

----------------------------------------------------------------------------
(* The contract *)

ContractState(f) ==
    IF status[f] = "absent" THEN "none"
    ELSE IF ~Visible(f) THEN "gone"
    ELSE IF status[f] \in {"uploaded", "processing"} THEN "pending"
    ELSE status[f]

KeptBytes(f) == HasRow(f) /\ "source" \in disk[f]
UsersOf(f) == {r \in Readers : rpc[r] = "using" /\ rfile[r] = f}

Contract == INSTANCE FileContract WITH
    Users <- Readers,
    state <- [f \in Files |-> ContractState(f)],
    stored <- [f \in Files |-> KeptBytes(f)],
    using <- [f \in Files |-> UsersOf(f)]

(* The service keeps the API's promises: module FileContract. *)
ImplementsFileContract == Contract!Spec

----------------------------------------------------------------------------
(* Liveness *)

StaysUp == <>[](phase = "up" /\ ~halted)

(* If the process is left running in the end, every file that waits for its
   conversion is settled, unless it is deleted or expires: also one that was
   recovered, and one whose conversion has to be retried. *)
UploadSettles ==
    StaysUp => \A f \in Files : Awaiting(f) ~> ~Awaiting(f)

(* If the process is left running in the end, a row marked deleted is erased,
   whatever became of the request or the process that marked it. *)
MarkedIsErased ==
    StaysUp => \A f \in Files : (HasRow(f) /\ marked[f]) ~> ~HasRow(f)

(* Every DELETE is answered and the janitor gets on to its next row, or they end
   with the process: neither a conversion, a download whose client reads or
   leaves, nor another deletion blocks a cleaner for ever, and so the janitor
   cannot keep Stop waiting (service.go:342-357, 786-830). *)
DeleteAnswers ==
    \A c \in Cleaners :
        cpc[c] = "claim" ~> cpc[c] \notin {"claim"} \cup Owning

(* "On shutdown, the shared context is canceled and all goroutines are
   awaited" (DESIGN.md:386): a signal ends the process. *)
ShutdownCompletes == halted ~> phase = "down"
=============================================================================
