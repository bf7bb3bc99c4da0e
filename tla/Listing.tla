------------------------------ MODULE Listing -------------------------------
(***************************************************************************)
(* A client that pages through GET /v1/files (listFiles in                 *)
(* src/internal/server/server.go over Store.List in                        *)
(* src/internal/store/store.go) while files are added, hidden and erased.  *)
(*                                                                         *)
(* A page takes two statements, the cursor row and then the page, and the  *)
(* table may change between them and between pages.  A file is its id, and *)
(* ids are numbers here because the queries compare them.                  *)
(***************************************************************************)
EXTENDS Naturals, FiniteSets

CONSTANTS
    FileIds,        \* the files that ever exist
    Times,          \* the seconds that created_at may be
    Selections,     \* what a purpose selects, FileIds if there is no filter
    PageLimit,      \* the query parameter limit
    NoFile          \* no cursor

ASSUME ListingAssumption ==
    /\ FileIds \subseteq Nat
    /\ IsFiniteSet(FileIds)
    /\ Times \subseteq Nat
    /\ Selections \subseteq SUBSET FileIds
    /\ PageLimit \in Nat \ {0}
    /\ NoFile \notin FileIds

VARIABLES
    row,            \* files -> "none", "visible", "hidden" or "erased"
    created,        \* files -> created_at
    step,           \* where the client and its request are
    order,          \* the query parameter order
    selected,       \* the files the purpose of the request selects
    after,          \* the query parameter after: last_id of the page before
    bound,          \* the cursor row the page query compares with, if any
    delivered,      \* the files on the pages so far
    repeated,       \* those that were on two pages
    throughout,     \* selected files that have been visible since the first request
    lostCursor      \* a request did not find its cursor row

rowVars == <<row, created>>
requestVars == <<order, selected, after, bound>>
clientVars == <<delivered, repeated, lostCursor>>
listingVars == <<rowVars, step, requestVars, clientVars, throughout>>

ListingTypeOK ==
    /\ row \in [FileIds -> {"none", "visible", "hidden", "erased"}]
    /\ created \in [FileIds -> Times \cup {0}]
    /\ step \in {"idle", "request", "page", "listed"}
    /\ order \in {"asc", "desc"}
    /\ selected \in SUBSET FileIds
    /\ after \in FileIds \cup {NoFile}
    /\ bound \in FileIds \cup {NoFile}
    /\ delivered \in SUBSET FileIds
    /\ repeated \in SUBSET FileIds
    /\ throughout \in SUBSET FileIds
    /\ lostCursor \in BOOLEAN

ListingInit ==
    /\ row = [f \in FileIds |-> "none"]
    /\ created = [f \in FileIds |-> 0]
    /\ step = "idle"
    /\ order = "desc"
    /\ selected = {}
    /\ after = NoFile
    /\ bound = NoFile
    /\ delivered = {}
    /\ repeated = {}
    /\ throughout = {}
    /\ lostCursor = FALSE

----------------------------------------------------------------------------
(* The table *)

(* Add.  Uploads end in any order and the clock may be set, so created_at need
   not grow with the order of the inserts. *)
AddFile(f, t) ==
    /\ row[f] = "none"
    /\ row' = [row EXCEPT ![f] = "visible"]
    /\ created' = [created EXCEPT ![f] = t]
    /\ UNCHANGED <<step, requestVars, clientVars, throughout>>

(* MarkDeleted, or expires_at passes: the queries skip the row. *)
HideFile(f) ==
    /\ row[f] = "visible"
    /\ row' = [row EXCEPT ![f] = "hidden"]
    /\ throughout' = throughout \ {f}
    /\ UNCHANGED <<created, step, requestVars, clientVars>>

(* Delete, which only a hidden row meets *)
EraseFile(f) ==
    /\ row[f] = "hidden"
    /\ row' = [row EXCEPT ![f] = "erased"]
    /\ UNCHANGED <<created, step, requestVars, clientVars, throughout>>

----------------------------------------------------------------------------
(* The order of a listing *)

(* Faulty variants for mutation runs. *)
VisibleCursor(f) == row[f] = "visible"
OtherSecond(f) ==
    bound = NoFile \/ IF order = "asc" THEN created[bound] < created[f]
                                       ELSE created[f] < created[bound]

Older(f, g) == created[f] < created[g] \/ (created[f] = created[g] /\ f < g)

(* f comes before g: created_at, then id, in the direction asked for *)
Precedes(f, g) == IF order = "asc" THEN Older(f, g) ELSE Older(g, f)

(* The first n of a set of files *)
IsFirst(files, n, all) ==
    /\ files \subseteq all
    /\ IF Cardinality(all) <= n THEN files = all ELSE Cardinality(files) = n
    /\ \A f \in files, g \in all \ files : Precedes(f, g)

----------------------------------------------------------------------------
(* The requests *)

StartListing(o, s) ==
    /\ step = "idle"
    /\ step' = "request"
    /\ order' = o
    /\ selected' = s
    /\ throughout' = {f \in s : row[f] = "visible"}
    /\ UNCHANGED <<rowVars, after, bound, clientVars>>

(* The cursor query finds hidden rows too. *)
HasCursorRow(f) == row[f] \in {"visible", "hidden"}

(* List, its first part: the cursor row, if there is a cursor.  A row that is
   not found is no error, and the page is not bounded. *)
ReadCursor ==
    /\ step = "request"
    /\ step' = "page"
    /\ bound' = IF after # NoFile /\ HasCursorRow(after) THEN after ELSE NoFile
    /\ lostCursor' = (lostCursor \/ (after # NoFile /\ row[after] = "erased"))
    /\ UNCHANGED <<rowVars, order, selected, after, delivered, repeated,
                   throughout>>

(* The bound of the page query *)
BeyondBound(f) == bound = NoFile \/ Precedes(bound, f)

Matching == {f \in selected : row[f] = "visible" /\ BeyondBound(f)}

(* List, its second part, asked for a row more than the page holds, and
   listFiles: the row in excess tells that there are more.  The client goes on
   from the last file it was given. *)
ReadPage ==
    /\ step = "page"
    /\ \E records \in SUBSET Matching :
        /\ IsFirst(records, PageLimit + 1, Matching)
        /\ \E page \in SUBSET records :
            /\ IsFirst(page, PageLimit, records)
            /\ delivered' = delivered \cup page
            /\ repeated' = repeated \cup (page \cap delivered)
            /\ IF Cardinality(records) > PageLimit
               THEN /\ step' = "request"
                    /\ \E last \in page :
                        /\ \A f \in page \ {last} : Precedes(f, last)
                        /\ after' = last
               ELSE step' = "listed" /\ UNCHANGED after
    /\ UNCHANGED <<rowVars, order, selected, bound, lostCursor, throughout>>

TableStep ==
    \/ \E f \in FileIds, t \in Times : AddFile(f, t)
    \/ \E f \in FileIds : HideFile(f) \/ EraseFile(f)

ListingNext ==
    \/ TableStep
    \/ \E o \in {"asc", "desc"}, s \in Selections : StartListing(o, s)
    \/ ReadCursor
    \/ ReadPage

ListingSpec == ListingInit /\ [][ListingNext]_listingVars

----------------------------------------------------------------------------
(* Properties *)

(* No file is on two pages, whatever is added, deleted or expires meanwhile
   (store.go:195-198), as long as every request finds its cursor row.  That row
   may be hidden.  Once it is erased, the next request starts over. *)
NoRepeats == ~lostCursor => repeated = {}

(* A file that was visible from the first request to the last has been on a
   page, though rows came and went and cursors were lost. *)
NothingSkipped == step = "listed" => throughout \subseteq delivered
=============================================================================
