----------------------------- MODULE FileStore ------------------------------
(***************************************************************************)
(* The files table of src/internal/store/store.go.                         *)
(*                                                                         *)
(* The pool has one connection (SetMaxOpenConns(1)), so every statement is *)
(* atomic and a module that uses the store takes one step per statement.   *)
(* A row keeps what the service decides on: its status, whether deleted_at *)
(* is set and whether expires_at lies in the past.  manifest_path is set   *)
(* exactly when status is "processed" (UpdateStatus writes both), so it is *)
(* not kept apart.  Tenants are left out: a caller is taken to own the     *)
(* files it names.                                                         *)
(*                                                                         *)
(* A file id is used for one row only (128 random bits), so a file without *)
(* a row either never had one ("absent") or lost it ("removed").           *)
(***************************************************************************)
CONSTANT Files

VARIABLES
    status,     \* files -> the status column, "absent" or "removed"
    marked,     \* files -> deleted_at IS NOT NULL
    expired     \* files -> expires_at > 0 AND expires_at <= now

storeVars == <<status, marked, expired>>

RowStatus == {"uploaded", "processing", "processed", "failed"}

StoreTypeOK ==
    /\ status \in [Files -> RowStatus \cup {"absent", "removed"}]
    /\ marked \in [Files -> BOOLEAN]
    /\ expired \in [Files -> BOOLEAN]

StoreInit ==
    /\ status = [f \in Files |-> "absent"]
    /\ marked = [f \in Files |-> FALSE]
    /\ expired = [f \in Files |-> FALSE]

----------------------------------------------------------------------------
(* What the queries select *)

HasRow(f) == status[f] \in RowStatus

(* A row the deletion path has not marked. *)
Undeleted(f) == HasRow(f) /\ ~marked[f]

(* Get: the row as the API sees it *)
Visible(f) == Undeleted(f) /\ ~expired[f]

(* Faulty variants for mutation runs. *)
PendingUploadsOnly == {f \in Files : Visible(f) /\ status[f] = "uploaded"}
OnlyExpired(f) == IF Undeleted(f) /\ expired[f] THEN "unmarked" ELSE "none"

(* UpdateStatus, the WHERE clause *)
Updatable(f) == Undeleted(f)

(* Pending *)
PendingRows == {f \in Files : Visible(f) /\ status[f] \in {"uploaded", "processing"}}

(* Expired: which rows the janitor is given, and whether the copy it is given
   already has deleted_at set *)
ExpiredRow(f) ==
    CASE HasRow(f) /\ marked[f]      -> "marked"
      [] Undeleted(f) /\ expired[f]  -> "unmarked"
      [] OTHER                       -> "none"

----------------------------------------------------------------------------
(* What the statements change *)

(* Add: INSERT with the status Create gives the record *)
Insert(f) ==
    /\ status' = [status EXCEPT ![f] = "uploaded"]
    /\ UNCHANGED <<marked, expired>>

(* UpdateStatus: reports through Updatable whether a row was updated *)
UpdateStatus(f, s) ==
    /\ status' = IF Updatable(f) THEN [status EXCEPT ![f] = s] ELSE status
    /\ UNCHANGED <<marked, expired>>

(* MarkDeleted: reports through Undeleted whether a row was marked *)
MarkDeleted(f) ==
    /\ marked' = IF Undeleted(f) THEN [marked EXCEPT ![f] = TRUE] ELSE marked
    /\ UNCHANGED <<status, expired>>

(* Delete: reports through HasRow whether a row was deleted *)
DeleteRow(f) ==
    /\ status' = IF HasRow(f) THEN [status EXCEPT ![f] = "removed"] ELSE status
    /\ UNCHANGED <<marked, expired>>

(* expires_at passes.  With a non-positive TTL it never does. *)
PassExpiry(f) ==
    /\ HasRow(f)
    /\ ~expired[f]
    /\ expired' = [expired EXCEPT ![f] = TRUE]
    /\ UNCHANGED <<status, marked>>
=============================================================================
