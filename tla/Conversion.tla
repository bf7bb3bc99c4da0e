----------------------------- MODULE Conversion -----------------------------
(***************************************************************************)
(* What Convert does to the directory of one file (util.go, converter.go,  *)
(* text_common.go and image_common.go under src/internal/converter), one   *)
(* file-system call at a time.                                             *)
(*                                                                         *)
(* Convert is run again after a failure, after a result that could not be  *)
(* recorded and after a crash, and what an attempt finds on disk is what   *)
(* the one before it left.  FileService has the whole of Convert as two    *)
(* steps; this module is about what those steps may leave.                 *)
(***************************************************************************)
EXTENDS Naturals

CONSTANTS
    Parts,          \* the files a converter may write to derived/
    MaxAttempts     \* bound: the attempts, crashed ones included

ASSUME ConversionAssumption == MaxAttempts \in Nat \ {0}

Absent == [by |-> 0]

VARIABLES
    kind,           \* which of the three converter bodies runs
    attempt,        \* the number of the attempt
    at,             \* where Convert is
    result,         \* what withOutputDirectory returned, or the late check
    cancelled,      \* the context Convert was given
    plan,           \* the parts this attempt finds to write
    output,         \* derived/: parts -> Absent, or who wrote it and if all of it
    manifest,       \* manifest.json, next to derived/
    leftover        \* a removal of this attempt's output failed

conversionVars ==
    <<kind, attempt, at, result, cancelled, plan, output, manifest, leftover>>

Attempts == 1 .. MaxAttempts

ConversionTypeOK ==
    /\ kind \in {"text", "image", "rendered"}
    /\ attempt \in 0 .. MaxAttempts
    /\ at \in {"idle", "reading", "clear", "make", "writing", "sealing",
               "undo", "unseal", "checking", "failed", "succeeded", "published"}
    /\ result \in {"none", "ok", "error", "cancelled"}
    /\ cancelled \in BOOLEAN
    /\ plan \in SUBSET Parts
    /\ output \in [Parts -> {Absent} \cup [by : Attempts, whole : BOOLEAN]]
    /\ manifest \in {Absent}
         \cup [by : Attempts, whole : BOOLEAN, names : SUBSET Parts]
    /\ leftover \in BOOLEAN

ConversionInit ==
    /\ kind \in {"text", "image", "rendered"}
    /\ attempt = 0
    /\ at = "idle"
    /\ result = "none"
    /\ cancelled = FALSE
    /\ plan = {}
    /\ output = [p \in Parts |-> Absent]
    /\ manifest = Absent
    /\ leftover = FALSE

Goto(place) == at' = place /\ UNCHANGED <<kind, attempt, plan>>

OnDisk == {p \in Parts : output[p] # Absent}

(* The files of derived/ that are left when only some could be removed *)
Keep(rest) == [p \in Parts |-> IF p \in rest THEN output[p] ELSE Absent]

----------------------------------------------------------------------------
(* Before the output is touched *)

(* A retry, a restart, or a conversion whose status update failed.  The options
   and the renderer may differ after a restart, so the plan may. *)
StartAttempt(parts) ==
    /\ at \in {"idle", "failed", "succeeded"}
    /\ attempt < MaxAttempts
    /\ attempt' = attempt + 1
    /\ plan' = parts
    /\ at' = IF kind = "rendered" THEN "clear" ELSE "reading"
    /\ result' = "none"
    /\ cancelled' = FALSE
    /\ leftover' = FALSE
    /\ UNCHANGED <<kind, output, manifest>>

(* The text is extracted, or the image's header decoded, between two looks at
   the context.  An error leaves the disk as it is. *)
ReadSource ==
    /\ at = "reading"
    /\ \/ ~cancelled /\ Goto("clear") /\ UNCHANGED result
       \/ Goto("failed") /\ result' = "error"
    /\ UNCHANGED <<cancelled, output, manifest, leftover>>

(* validateTextLimit refuses the text before withOutputDirectory is called. *)
TextLimitError ==
    /\ at = "clear"
    /\ kind = "text"
    /\ Goto("checking")
    /\ result' = "error"
    /\ UNCHANGED <<cancelled, output, manifest, leftover>>

----------------------------------------------------------------------------
(* withOutputDirectory *)

(* What withOutputDirectory returns goes through the late check of text and
   image converters. *)
Returns(res) ==
    /\ result' = res
    /\ Goto(IF kind # "rendered" /\ res # "cancelled" THEN "checking"
            ELSE IF res = "ok" THEN "succeeded" ELSE "failed")

(* Faulty variants for mutation runs. *)
StaleOutput == output
LeavesAtOnce == Returns("error")

(* RemoveAll of derived/, which clears it *)
Cleared == [p \in Parts |-> Absent]

ClearOutput ==
    /\ at = "clear"
    /\ \/ output' = Cleared /\ Goto("make") /\ UNCHANGED result
       \/ /\ \E rest \in SUBSET OnDisk : output' = Keep(rest)
          /\ Returns("error")
    /\ UNCHANGED <<cancelled, manifest, leftover>>

(* Remove of the manifest, then MkdirAll.  The clean-up is not deferred yet:
   if one of them fails, what is on disk stays. *)
MakeOutput ==
    /\ at = "make"
    /\ \/ manifest' = Absent /\ Goto("writing") /\ UNCHANGED result
       \/ manifest' \in {Absent, manifest} /\ Returns("error")
    /\ UNCHANGED <<cancelled, output, leftover>>

WriteTo(p, all) == output' = [output EXCEPT ![p] = [by |-> attempt, whole |-> all]]

(* copyFile, WriteFile, or the renderer at work *)
StartPart(p) ==
    /\ at = "writing"
    /\ p \in plan
    /\ output[p] = Absent
    /\ WriteTo(p, FALSE)
    /\ UNCHANGED <<kind, attempt, at, result, cancelled, plan, manifest, leftover>>

FinishPart(p) ==
    /\ at = "writing"
    /\ p \in plan
    /\ output[p] = [by |-> attempt, whole |-> FALSE]
    /\ WriteTo(p, TRUE)
    /\ UNCHANGED <<kind, attempt, at, result, cancelled, plan, manifest, leftover>>

WriteManifest(all) ==
    manifest' = [by |-> attempt, whole |-> all, names |-> plan]

(* writeResult, when every part has been written and hashed *)
StartManifest ==
    /\ at = "writing"
    /\ \A p \in plan : output[p] = [by |-> attempt, whole |-> TRUE]
    /\ WriteManifest(FALSE)
    /\ Goto("sealing")
    /\ UNCHANGED <<result, cancelled, output, leftover>>

(* The rest of the manifest, then secureOutputPermissions *)
FinishManifest ==
    /\ at = "sealing"
    /\ WriteManifest(TRUE)
    /\ Returns("ok")
    /\ UNCHANGED <<cancelled, output, leftover>>

(* convert, or the chmod after it, returns an error: the deferred function runs. *)
Abandons == Goto("undo") /\ result' = "error"

ConvertFails ==
    /\ \/ at = "writing" /\ UNCHANGED manifest
       \/ /\ at = "sealing"
          /\ \/ UNCHANGED manifest
             \/ WriteManifest(TRUE)
    /\ Abandons
    /\ UNCHANGED <<cancelled, output, leftover>>

(* removeConversionOutput as clean-up: its error is dropped. *)
UndoOutput ==
    /\ at = "undo"
    /\ \/ output' = Cleared /\ Goto("unseal") /\ UNCHANGED <<result, leftover>>
       \/ /\ \E rest \in SUBSET OnDisk : output' = Keep(rest)
          /\ leftover' = TRUE
          /\ Returns(result)
    /\ UNCHANGED <<cancelled, manifest>>

UndoManifest ==
    /\ at = "unseal"
    /\ \/ manifest' = Absent /\ UNCHANGED leftover
       \/ UNCHANGED manifest /\ leftover' = TRUE
    /\ Returns(result)
    /\ UNCHANGED <<cancelled, output>>

----------------------------------------------------------------------------
(* After withOutputDirectory *)

(* A text or image converter that finds its context cancelled removes a result
   it has just finished. *)
CheckContext ==
    /\ at = "checking"
    /\ IF cancelled
       THEN Goto("undo") /\ result' = "cancelled"
       ELSE Goto(IF result = "ok" THEN "succeeded" ELSE "failed") /\ UNCHANGED result
    /\ UNCHANGED <<cancelled, output, manifest, leftover>>

(* service.convert records the manifest path. *)
Publish ==
    /\ at = "succeeded"
    /\ Goto("published")
    /\ UNCHANGED <<result, cancelled, output, manifest, leftover>>

Running == at \notin {"idle", "failed", "succeeded", "published"}

(* DELETE of the file, or shutdown *)
Cancel ==
    /\ Running
    /\ ~cancelled
    /\ cancelled' = TRUE
    /\ UNCHANGED <<kind, attempt, at, result, plan, output, manifest, leftover>>

Crash ==
    /\ Running \/ at = "succeeded"
    /\ Goto("idle")
    /\ UNCHANGED <<result, cancelled, output, manifest, leftover>>

ConversionNext ==
    \/ \E parts \in SUBSET Parts \ {{}} : StartAttempt(parts)
    \/ ReadSource \/ TextLimitError \/ ClearOutput \/ MakeOutput
    \/ \E p \in Parts : StartPart(p) \/ FinishPart(p)
    \/ StartManifest \/ FinishManifest \/ ConvertFails
    \/ UndoOutput \/ UndoManifest \/ CheckContext
    \/ Publish \/ Cancel \/ Crash

ConversionSpec == ConversionInit /\ [][ConversionNext]_conversionVars

----------------------------------------------------------------------------
(* Properties *)

(* What a conversion publishes is its own work and all of it: the manifest is
   whole and names the files of derived/, each of them whole and written by the
   same attempt, whatever crashed or half-removed attempts came before
   (withOutputDirectory, util.go:72-73). *)
OutputMatchesManifest ==
    at \in {"succeeded", "published"} =>
        /\ manifest = [by |-> attempt, whole |-> TRUE, names |-> OnDisk]
        /\ \A p \in OnDisk : output[p] = [by |-> attempt, whole |-> TRUE]

(* An attempt that fails, a cancelled one included, takes back everything it
   wrote, unless the disk refused to (util.go:72-73). *)
FailureLeavesNothing ==
    at = "failed" /\ ~leftover =>
        /\ manifest.by # attempt
        /\ \A p \in Parts : output[p].by # attempt
=============================================================================
