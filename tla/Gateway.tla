------------------------------ MODULE Gateway -------------------------------
(***************************************************************************)
(* A request on its way through src/internal/server: the concurrency slots *)
(* and the request timeout of server.go, the expansion of file references  *)
(* (inference.go, document.go) and the exchange with vLLM (proxy.go).      *)
(*                                                                         *)
(* Contexts: a request's context ends when its deadline passes or when the *)
(* client's context does, whichever is first; the upstream context is a    *)
(* child of the client's and is cancelled by an AfterFunc on the request's *)
(* context until startResponse stops it.  The file service is left to      *)
(* module FileService: Resolve gives a lease or an error.                  *)
(***************************************************************************)
EXTENDS Naturals, Sequences, FiniteSets

CONSTANTS
    Requests,       \* the requests, each made once
    SlotLimit,      \* MAX_CONCURRENT_REQUESTS, 0 for unlimited
    HasTimeout,     \* REQUEST_TIMEOUT_SECONDS is not 0
    DocumentLists,  \* the file references of a payload: "uploaded" or "inline"
    MaxFaults,      \* bound: temporary directories RemoveAll cannot remove
    MaxBoots        \* bound: process starts

ASSUME GatewayAssumption ==
    /\ SlotLimit \in Nat
    /\ HasTimeout \in BOOLEAN
    /\ DocumentLists \subseteq Seq({"uploaded", "inline"})
    /\ MaxFaults \in Nat
    /\ MaxBoots \in Nat

VARIABLES
    running,        \* the process serves requests
    boots,          \* process starts so far
    faults,         \* faults so far
    slots,          \* how many tokens are in the channel server.slots
    holds,          \* requests -> its token is in there
    kind,           \* requests -> which routes it came by
    pc,             \* requests -> where its handler is
    todo,           \* requests -> the references still to be expanded
    temporary,      \* requests -> it has gateway-request-* directories on disk
    lease,          \* requests -> it holds a lease on an uploaded file
    answer,         \* requests -> what its response starts with
    late,           \* requests -> the time of its deadline has come
    gone,           \* requests -> its client disconnected
    ctxErr,         \* requests -> Err() of its context
    clientDone,     \* requests -> the context net/http gave it is done
    readDeadline,   \* requests -> the read deadline of its connection
    afterFunc,      \* requests -> the AfterFunc that cancels the upstream context
    upstreamDone    \* requests -> its upstream context is done

processVars == <<running, boots, faults>>
slotVars == <<slots, holds>>
documentVars == <<todo, temporary, lease>>
clockVars == <<late, gone>>
contextVars == <<ctxErr, clientDone, readDeadline, afterFunc, upstreamDone>>

vars == <<processVars, slotVars, kind, pc, documentVars, answer, clockVars,
          contextVars>>

Kinds == {"inference", "passthrough", "files"}
Forwarding == {"sent", "headers", "check", "clear", "write", "stream"}
Preparing == {"files", "opened", "body", "expand", "convert", "parts", "forward"}
             \cup (Forwarding \ {"stream"})
Ending == {"cleanup", "finish"}
Active == Preparing \cup {"download", "stream"} \cup Ending

TypeOK ==
    /\ running \in BOOLEAN
    /\ boots \in Nat
    /\ faults \in Nat
    /\ slots \in Nat
    /\ holds \in [Requests -> BOOLEAN]
    /\ kind \in [Requests -> Kinds \cup {"none"}]
    /\ pc \in [Requests -> Active \cup {"idle", "done", "lost"}]
    /\ todo \in [Requests -> Seq({"uploaded", "inline"})]
    /\ temporary \in [Requests -> BOOLEAN]
    /\ lease \in [Requests -> BOOLEAN]
    /\ answer \in [Requests -> {"none", "busy", "timeout", "error", "badgateway",
                                "served", "upstream"}]
    /\ late \in [Requests -> BOOLEAN]
    /\ gone \in [Requests -> BOOLEAN]
    /\ ctxErr \in [Requests -> {"none", "deadline", "canceled"}]
    /\ clientDone \in [Requests -> BOOLEAN]
    /\ readDeadline \in [Requests -> {"none", "set", "cleared"}]
    /\ afterFunc \in [Requests -> {"none", "registered", "stopped", "running", "ran"}]
    /\ upstreamDone \in [Requests -> BOOLEAN]

Init ==
    /\ running = FALSE
    /\ boots = 0
    /\ faults = 0
    /\ slots = 0
    /\ holds = [r \in Requests |-> FALSE]
    /\ kind = [r \in Requests |-> "none"]
    /\ pc = [r \in Requests |-> "idle"]
    /\ todo = [r \in Requests |-> <<>>]
    /\ temporary = [r \in Requests |-> FALSE]
    /\ lease = [r \in Requests |-> FALSE]
    /\ answer = [r \in Requests |-> "none"]
    /\ late = [r \in Requests |-> FALSE]
    /\ gone = [r \in Requests |-> FALSE]
    /\ ctxErr = [r \in Requests |-> "none"]
    /\ clientDone = [r \in Requests |-> FALSE]
    /\ readDeadline = [r \in Requests |-> "none"]
    /\ afterFunc = [r \in Requests |-> "none"]
    /\ upstreamDone = [r \in Requests |-> FALSE]

Goto(r, place) == pc' = [pc EXCEPT ![r] = place]

----------------------------------------------------------------------------
(* Slots and answers *)

(* The send of withConcurrencyLimit's select succeeds. *)
SlotFree == SlotLimit = 0 \/ slots < SlotLimit

AlwaysReleases(r) == TRUE
AnyToken(r) == slots > 0
NeverReleased(r) == FALSE

(* release, under its OnceFunc: it takes a token out at most once *)
MustRelease(r) == holds[r]

ReleaseSlot(r) ==
    IF MustRelease(r)
    THEN slots' = slots - 1 /\ holds' = [holds EXCEPT ![r] = FALSE]
    ELSE UNCHANGED slotVars

(* The final header of the response is written, which releases the slot
   (slotResponseWriter). *)
Respond(r, a) ==
    /\ answer' = [answer EXCEPT ![r] = a]
    /\ ReleaseSlot(r)

(* writeAnyError: 504 for an expired request, nothing for one that is
   cancelled, else the error itself *)
WriteAnyError(r) ==
    CASE ctxErr[r] = "deadline" -> Respond(r, "timeout")
      [] ctxErr[r] = "canceled" -> UNCHANGED <<answer, slotVars>>
      [] OTHER                  -> Respond(r, "error")

----------------------------------------------------------------------------
(* withRequestTimeout and withConcurrencyLimit, then the handler's beginning *)

(* The routes under withRequestTimeout, unless it is switched off *)
Timed(k) == HasTimeout /\ k # "files"

FirstPlace(k) ==
    CASE k = "inference"   -> "body"
      [] k = "passthrough" -> "forward"
      [] k = "files"       -> "files"

Arrive(r, k) ==
    /\ running
    /\ pc[r] = "idle"
    /\ kind' = [kind EXCEPT ![r] = k]
    /\ IF SlotFree
       THEN /\ Goto(r, FirstPlace(k))
            /\ readDeadline' = [readDeadline EXCEPT
                                    ![r] = IF Timed(k) THEN "set" ELSE "none"]
            /\ UNCHANGED answer
            /\ IF SlotLimit = 0 THEN UNCHANGED slotVars
               ELSE slots' = slots + 1 /\ holds' = [holds EXCEPT ![r] = TRUE]
       ELSE /\ Goto(r, "done")
            /\ answer' = [answer EXCEPT ![r] = "busy"]
            /\ UNCHANGED <<slotVars, readDeadline>>
    /\ UNCHANGED <<processVars, documentVars, clockVars, ctxErr, clientDone,
                   afterFunc, upstreamDone>>

(* Refused before anything is done: 401, 405, 413, 400, 404 and 422 *)
Refuse(r) ==
    /\ \/ pc[r] \in {"body", "files"}
       \/ pc[r] = "forward" /\ kind[r] = "passthrough"
    /\ Respond(r, "error")
    /\ Goto(r, "cleanup")
    /\ UNCHANGED <<processVars, kind, documentVars, clockVars, contextVars>>

(* A handler of the Files API that holds no lease of its own has its answer from
   the service, or OpenSource failed: an answer, or nothing when the client has
   gone.  Nothing bounds how long it takes to read an upload. *)
ServeFiles(r) ==
    /\ pc[r] = "files"
    /\ \/ Respond(r, "served")
       \/ WriteAnyError(r)
    /\ Goto(r, "cleanup")
    /\ UNCHANGED <<processVars, kind, documentVars, clockVars, contextVars>>

(* retrieveContent: OpenSource returns the file with a lease... *)
OpenContent(r) ==
    /\ pc[r] = "files"
    /\ lease' = [lease EXCEPT ![r] = TRUE]
    /\ Goto(r, "opened")
    /\ UNCHANGED <<processVars, slotVars, kind, todo, temporary, answer, clockVars,
                   contextVars>>

(* ...http.ServeContent writes the header, which gives the slot back... *)
StartContent(r) ==
    /\ pc[r] = "opened"
    /\ Respond(r, "served")
    /\ Goto(r, "download")
    /\ UNCHANGED <<processVars, kind, documentVars, clockVars, contextVars>>

(* handleInference has the whole body: forward it as it is, or expand it *)
ReadBody(r) ==
    /\ pc[r] = "body"
    /\ \E documents \in DocumentLists :
        /\ todo' = [todo EXCEPT ![r] = documents]
        /\ Goto(r, IF documents = <<>> THEN "forward" ELSE "expand")
    /\ UNCHANGED <<processVars, slotVars, kind, temporary, lease, answer, clockVars,
                   contextVars>>

(* The body is not read in time: a 504 whatever the context says, and the
   read error ends the client's context *)
BodyTimesOut(r) ==
    /\ pc[r] = "body"
    /\ late[r]
    /\ Respond(r, "timeout")
    /\ ctxErr' = [ctxErr EXCEPT ![r] = IF @ = "none" THEN "canceled" ELSE @]
    /\ clientDone' = [clientDone EXCEPT ![r] = TRUE]
    /\ Goto(r, "cleanup")
    /\ UNCHANGED <<processVars, kind, documentVars, clockVars, readDeadline,
                   afterFunc, upstreamDone>>

----------------------------------------------------------------------------
(* expandResponses and expandChat: one reference after the other *)

(* prepareDocument of an uploaded file: Resolve returns with a lease *)
ResolveDocument(r) ==
    /\ pc[r] = "expand"
    /\ ctxErr[r] = "none"
    /\ Head(todo[r]) = "uploaded"
    /\ lease' = [lease EXCEPT ![r] = TRUE]
    /\ Goto(r, "parts")
    /\ UNCHANGED <<processVars, slotVars, kind, todo, temporary, answer, clockVars,
                   contextVars>>

(* prepareDocument of inline data or a URL: its directory is made *)
CreateRequestDirectory(r) ==
    /\ pc[r] = "expand"
    /\ ctxErr[r] = "none"
    /\ Head(todo[r]) = "inline"
    /\ temporary' = [temporary EXCEPT ![r] = TRUE]
    /\ Goto(r, "convert")
    /\ UNCHANGED <<processVars, slotVars, kind, todo, lease, answer, clockVars,
                   contextVars>>

ConvertInline(r) ==
    /\ pc[r] = "convert"
    /\ ctxErr[r] = "none"
    /\ Goto(r, "parts")
    /\ UNCHANGED <<processVars, slotVars, kind, documentVars, answer, clockVars,
                   contextVars>>

ReleasesInTime(r) ==
    IF ctxErr[r] = "none" THEN lease' = [lease EXCEPT ![r] = FALSE]
                          ELSE UNCHANGED lease

(* document.release, whatever documentParts returned, and the deferred release
   of retrieveContent *)
ReleaseLease(r) == lease' = [lease EXCEPT ![r] = FALSE]

(* ...and copies the content, to its end or until the client is gone.  The
   deferred release comes after it. *)
EndContent(r) ==
    /\ pc[r] = "download"
    /\ ReleaseLease(r)
    /\ Goto(r, "cleanup")
    /\ UNCHANGED <<processVars, slotVars, kind, todo, temporary, answer, clockVars,
                   contextVars>>

(* documentParts, then the lease is released, and the next reference *)
ReadParts(r) ==
    /\ pc[r] = "parts"
    /\ ReleaseLease(r)
    /\ todo' = [todo EXCEPT ![r] = Tail(@)]
    /\ Goto(r, IF Len(todo[r]) = 1 THEN "forward" ELSE "expand")
    /\ UNCHANGED <<processVars, slotVars, kind, temporary, answer, clockVars,
                   contextVars>>

(* A document cannot be had, or its artifacts cannot be read *)
DocumentFails(r) ==
    /\ pc[r] \in {"expand", "convert", "parts"}
    /\ ReleaseLease(r)
    /\ WriteAnyError(r)
    /\ Goto(r, "cleanup")
    /\ UNCHANGED <<processVars, kind, todo, temporary, clockVars, contextVars>>

(* What waits for the context notices that it is done. *)
ExpansionEnds(r) ==
    /\ pc[r] \in {"expand", "convert"}
    /\ ctxErr[r] # "none"
    /\ WriteAnyError(r)
    /\ Goto(r, "cleanup")
    /\ UNCHANGED <<processVars, kind, documentVars, clockVars, contextVars>>

----------------------------------------------------------------------------
(* forwardRequest and forwardJSON *)

(* responseContext.  Of the callers only handleInference looks at the context
   before.  An AfterFunc on a context that is done runs at once. *)
Forward(r) ==
    /\ pc[r] = "forward"
    /\ ~(kind[r] = "inference" /\ ctxErr[r] # "none")
    /\ afterFunc' = [afterFunc EXCEPT ![r] =
                        IF ctxErr[r] = "none" THEN "registered" ELSE "running"]
    /\ upstreamDone' = [upstreamDone EXCEPT ![r] = clientDone[r]]
    /\ Goto(r, "sent")
    /\ UNCHANGED <<processVars, slotVars, kind, documentVars, answer, clockVars,
                   ctxErr, clientDone, readDeadline>>

ForwardTooLate(r) ==
    /\ pc[r] = "forward"
    /\ kind[r] = "inference" /\ ctxErr[r] # "none"
    /\ WriteAnyError(r)
    /\ Goto(r, "cleanup")
    /\ UNCHANGED <<processVars, kind, documentVars, clockVars, contextVars>>

(* client.Do returns the headers of the upstream response. *)
UpstreamResponds(r) ==
    /\ pc[r] = "sent"
    /\ Goto(r, "headers")
    /\ UNCHANGED <<processVars, slotVars, kind, documentVars, answer, clockVars,
                   contextVars>>

(* upstreamError: 504 for an expired context, else 502 *)
WriteUpstreamError(r) ==
    Respond(r, IF ctxErr[r] = "deadline" THEN "timeout" ELSE "badgateway")

(* client.Do fails, for a reason of its own that a context that is done
   hides... *)
UpstreamFails(r) ==
    /\ pc[r] = "sent"
    /\ \/ ctxErr[r] = "none" /\ Respond(r, "timeout")
       \/ WriteUpstreamError(r)
    /\ Goto(r, "cleanup")
    /\ UNCHANGED <<processVars, kind, documentVars, clockVars, contextVars>>

(* ...or because the upstream context is done. *)
UpstreamCancelled(r) ==
    /\ upstreamDone[r]
    /\ UpstreamFails(r)

NotStopped(f) == f
Stopped(f) == IF f = "registered" THEN "stopped" ELSE f

(* startResponse, its first statement: stopTimeout, too late for a function
   that is already running *)
StopTimeout(r) ==
    /\ pc[r] = "headers"
    /\ afterFunc' = [afterFunc EXCEPT ![r] = Stopped(@)]
    /\ Goto(r, "check")
    /\ UNCHANGED <<processVars, slotVars, kind, documentVars, answer, clockVars,
                   ctxErr, clientDone, readDeadline, upstreamDone>>

(* startResponse, its check of the context *)
CheckContext(r) ==
    /\ pc[r] = "check"
    /\ IF ctxErr[r] = "none"
       THEN Goto(r, "clear") /\ UNCHANGED <<answer, slotVars>>
       ELSE Goto(r, "cleanup") /\ WriteUpstreamError(r)
    /\ UNCHANGED <<processVars, kind, documentVars, clockVars, contextVars>>

Untouched(d) == d
Lifted(d) == "cleared"

ClearDeadlines(r) ==
    /\ pc[r] = "clear"
    /\ readDeadline' = [readDeadline EXCEPT ![r] = Lifted(@)]
    /\ Goto(r, "write")
    /\ UNCHANGED <<processVars, slotVars, kind, documentVars, answer, clockVars,
                   ctxErr, clientDone, afterFunc, upstreamDone>>

WriteHeader(r) ==
    /\ pc[r] = "write"
    /\ Respond(r, "upstream")
    /\ Goto(r, "stream")
    /\ UNCHANGED <<processVars, kind, documentVars, clockVars, contextVars>>

(* io.Copy ends, with the body or where it is interrupted. *)
EndStream(r) ==
    /\ pc[r] = "stream"
    /\ Goto(r, "cleanup")
    /\ UNCHANGED <<processVars, slotVars, kind, documentVars, answer, clockVars,
                   contextVars>>

----------------------------------------------------------------------------
(* The deferred calls *)

KeepsDirectory(r) == temporary[r] /\ answer[r] = "timeout"
DirectoryAfter(r) == FALSE

(* The clean-up of responseContext, and the temporary directories, whose
   removal may fail with a warning *)
CleanUp(r) ==
    /\ pc[r] = "cleanup"
    /\ afterFunc' = [afterFunc EXCEPT ![r] = Stopped(@)]
    /\ upstreamDone' = [upstreamDone EXCEPT ![r] = TRUE]
    /\ \/ /\ temporary' = [temporary EXCEPT ![r] = DirectoryAfter(r)]
          /\ UNCHANGED faults
       \/ /\ temporary[r]
          /\ faults < MaxFaults
          /\ faults' = faults + 1
          /\ UNCHANGED temporary
    /\ Goto(r, "finish")
    /\ UNCHANGED <<running, boots, slotVars, kind, todo, lease, answer, clockVars,
                   ctxErr, clientDone, readDeadline>>

(* A request's contexts, deadline and references are gone with its handler. *)
Dissolve(rs) ==
    LET Clear(f, value) == f' = [r \in Requests |-> IF r \in rs THEN value ELSE f[r]]
    IN  /\ Clear(todo, <<>>) /\ Clear(lease, FALSE)
        /\ Clear(late, FALSE)
        /\ Clear(ctxErr, "none") /\ Clear(clientDone, FALSE)
        /\ Clear(readDeadline, "none")
        /\ Clear(afterFunc, "none") /\ Clear(upstreamDone, FALSE)

(* withConcurrencyLimit's own release, needed when nothing was written *)
Finish(r) ==
    /\ pc[r] = "finish"
    /\ ReleaseSlot(r)
    /\ Dissolve({r})
    /\ Goto(r, "done")
    /\ UNCHANGED <<processVars, kind, temporary, answer, gone>>

----------------------------------------------------------------------------
(* Deadlines, clients and the process *)

DeadlinePasses(r) ==
    /\ pc[r] \in Active
    /\ Timed(kind[r])
    /\ ~late[r]
    /\ late' = [late EXCEPT ![r] = TRUE]
    /\ UNCHANGED <<processVars, slotVars, kind, pc, documentVars, answer, gone,
                   contextVars>>

(* What ends with the request's context *)
EndContext(r, err) ==
    /\ ctxErr' = [ctxErr EXCEPT ![r] = IF @ = "none" THEN err ELSE @]
    /\ afterFunc' = [afterFunc EXCEPT ![r] = IF @ = "registered" THEN "running" ELSE @]

(* ...and with the client's, the parent of both others *)
EndClientContext(r) ==
    /\ EndContext(r, "canceled")
    /\ clientDone' = [clientDone EXCEPT ![r] = TRUE]
    /\ upstreamDone' = [upstreamDone EXCEPT ![r] = @ \/ pc[r] \in Forwarding]

(* The timer of context.WithTimeout *)
TimeOut(r) ==
    /\ late[r]
    /\ pc[r] \in Active
    /\ ctxErr[r] = "none"
    /\ EndContext(r, "deadline")
    /\ UNCHANGED <<processVars, slotVars, kind, pc, documentVars, answer, clockVars,
                   clientDone, readDeadline, upstreamDone>>

(* net/http: once the body is read, the server keeps a read pending on the
   connection and ends the request's context when that read fails.  The read
   deadline withRequestTimeout sets makes it fail at the time the timer above
   fires; nothing orders the two. *)
ReadDeadlineExpires(r) ==
    /\ late[r]
    /\ pc[r] \in Active \ {"body"}
    /\ readDeadline[r] = "set"
    /\ ~clientDone[r]
    /\ EndClientContext(r)
    /\ UNCHANGED <<processVars, slotVars, kind, pc, documentVars, answer, clockVars,
                   readDeadline>>

Disconnect(r) ==
    /\ pc[r] \in Active
    /\ ~gone[r]
    /\ gone' = [gone EXCEPT ![r] = TRUE]
    /\ EndClientContext(r)
    /\ UNCHANGED <<processVars, slotVars, kind, pc, documentVars, answer, late,
                   readDeadline>>

(* The function given to AfterFunc, in a goroutine of its own *)
CancelUpstream(r) ==
    /\ afterFunc[r] = "running"
    /\ afterFunc' = [afterFunc EXCEPT ![r] = "ran"]
    /\ upstreamDone' = [upstreamDone EXCEPT ![r] = TRUE]
    /\ UNCHANGED <<processVars, slotVars, kind, pc, documentVars, answer, clockVars,
                   ctxErr, clientDone, readDeadline>>

StaleKept(r) == temporary[r]
StaleAfter(r) == FALSE

(* cleanupStaleRequestDirectories, before anything is served *)
Boot ==
    /\ ~running
    /\ boots < MaxBoots
    /\ boots' = boots + 1
    /\ running' = TRUE
    /\ temporary' = [r \in Requests |-> StaleAfter(r)]
    /\ UNCHANGED <<faults, slotVars, kind, pc, todo, lease, answer, clockVars,
                   contextVars>>

(* The process ends in the middle of what it does. *)
Crash ==
    /\ running
    /\ running' = FALSE
    /\ slots' = 0
    /\ holds' = [r \in Requests |-> FALSE]
    /\ pc' = [r \in Requests |-> IF pc[r] \in Active THEN "lost" ELSE pc[r]]
    /\ Dissolve(Requests)
    /\ UNCHANGED <<boots, faults, kind, temporary, answer, gone>>

----------------------------------------------------------------------------

(* What a handler does without waiting for a client, a conversion or vLLM *)
HandlerStep(r) ==
    \/ BodyTimesOut(r) \/ CreateRequestDirectory(r) \/ ConvertInline(r)
    \/ ReadParts(r) \/ ExpansionEnds(r) \/ Forward(r) \/ ForwardTooLate(r)
    \/ UpstreamCancelled(r) \/ StopTimeout(r) \/ CheckContext(r)
    \/ ClearDeadlines(r) \/ WriteHeader(r) \/ StartContent(r) \/ CleanUp(r) \/ Finish(r)

(* What the clock and the runtime do *)
ClockStep(r) == DeadlinePasses(r) \/ TimeOut(r) \/ CancelUpstream(r)

(* What nobody has to do *)
Occurrence(r) ==
    \/ Refuse(r) \/ ServeFiles(r) \/ OpenContent(r) \/ EndContent(r)
    \/ ReadBody(r) \/ ResolveDocument(r) \/ DocumentFails(r)
    \/ UpstreamResponds(r) \/ UpstreamFails(r) \/ EndStream(r)
    \/ ReadDeadlineExpires(r) \/ Disconnect(r)

Next ==
    \/ \E r \in Requests, k \in Kinds : Arrive(r, k)
    \/ \E r \in Requests : HandlerStep(r) \/ ClockStep(r) \/ Occurrence(r)
    \/ Boot
    \/ Crash

SafeSpec == Init /\ [][Next]_vars

(* Handlers run on, timers fire.  Clients, conversions of uploaded files and
   vLLM may take for ever. *)
Fairness ==
    \A r \in Requests : WF_vars(HandlerStep(r)) /\ WF_vars(ClockStep(r))

Spec == SafeSpec /\ Fairness

----------------------------------------------------------------------------
(* Properties *)

(* A token in the channel stands for every request that has not sent its final
   header, and there are at most as many as the limit (DESIGN.md:574-575),
   however requests end: a slot is given back once, by the header or by the
   deferred release, and never that of another request. *)
PreparingIsBounded ==
    SlotLimit > 0 =>
        /\ Cardinality({r \in Requests : pc[r] \in Preparing}) <= slots
        /\ slots <= SlotLimit

(* Once startResponse returned nil the request timeout's AfterFunc neither
   runs nor ever will (proxy.go:186-190, DESIGN.md:572), however the timer and
   the upstream's answer race. *)
AfterFuncNeverCuts ==
    \A r \in Requests : pc[r] \in {"clear", "write", "stream"} =>
        afterFunc[r] \notin {"registered", "running", "ran"}

(* Once the deadlines of the connection are lifted, only its client ends the
   request to vLLM before the body has been delivered (proxy.go:186-190).  A
   read deadline that expires between the look at the context and this point
   still does. *)
DeliveryIsNotCut ==
    [][\A r \in Requests :
          LET Delivering(place) == place \in {"write", "stream"} IN
          /\ Delivering(pc[r]) /\ Delivering(pc'[r])
          /\ upstreamDone[r] # upstreamDone'[r]
          => gone'[r]]_vars

(* Who may hold a lease, and when, as DELETE and the janitor wait for it: an
   inference request while it reads the artifacts of one document, never across
   a wait for a conversion, for vLLM or for its client (document.release after
   documentParts, inference.go:196-198); a download from OpenSource to the end
   of http.ServeContent, for as long as its client takes (server.go:296-315),
   and then without a slot, so that clients that read slowly keep nobody from
   being served.  A request that is over holds none, however it ended. *)
LeaseEndsWithReading ==
    \A r \in Requests : lease[r] =>
        \/ kind[r] = "inference" /\ pc[r] = "parts"
        \/ kind[r] = "files" /\ pc[r] = "opened"
        \/ kind[r] = "files" /\ pc[r] = "download" /\ ~holds[r]

(* Temporary directories go with their request (inference.go:82-89), or with
   the next start of the process (main.go:123); those left are as many as could
   not be removed. *)
TemporariesReclaimed ==
    running =>
        Cardinality({r \in Requests : temporary[r] /\ pc[r] \notin Active \ {"finish"}})
            <= faults

(* A timed request gives its slot back, though its client never sends the
   body, its file is never converted and vLLM never answers. *)
SlotFreed ==
    \A r \in Requests :
        (holds[r] /\ Timed(kind[r])) ~> ~holds[r]

(* "Deadline expiry during file conversion and during requests to the backend
   (vLLM) both return 504 request_timeout" (DESIGN.md:571): a client that is
   there gets an answer.  Not so: the expired read deadline may cancel the
   context before its timer does, and writeAnyError answers a cancelled request
   with nothing. *)
ClientIsAnswered ==
    \A r \in Requests : pc[r] = "done" /\ ~gone[r] => answer[r] # "none"
=============================================================================
