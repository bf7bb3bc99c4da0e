--------------------------- MODULE FilesApiProofs ----------------------------
(* That the Files API keeps its word to one client: its listings, its tenants
   and its limits. *)
EXTENDS Listing, Tenants, Limits, FiniteSetTheorems, TLAPS

-----------------------------------------------------------------------------
(* Listings: paging through a changing table repeats nothing and skips nothing,
   for any files, times, selections and page size. *)

Exists(f) == row[f] # "none"

(* The files the client and its request speak of were all in the table, which
   fixes their created_at. *)
Known ==
    /\ \A f \in delivered \cup throughout : Exists(f)
    /\ after # NoFile => Exists(after)
    /\ bound # NoFile => Exists(bound)

(* A request under way stands right behind what was delivered, unless it lost
   its cursor, and before everything that is still to come. *)
Position ==
    /\ step = "idle" => delivered = {} /\ after = NoFile /\ throughout = {}
    /\ step \in {"request", "page"} =>
           /\ ~lostCursor => \A f \in delivered :
                                 after # NoFile /\ (f = after \/ Precedes(f, after))
           /\ \A f \in throughout \ delivered : after = NoFile \/ Precedes(after, f)
    /\ step = "page" =>
           /\ bound \in {after, NoFile}
           /\ ~lostCursor => bound = after
    /\ \A f \in throughout : row[f] = "visible" /\ f \in selected

ListingInv == ListingTypeOK /\ Known /\ Position /\ NoRepeats /\ NothingSkipped

(* The order of a listing is strict (ORDER BY created_at, id). *)
LEMMA Strict ==
    ASSUME ListingTypeOK, NEW f \in FileIds, NEW g \in FileIds, NEW h \in FileIds
    PROVE  /\ ~Precedes(f, f)
           /\ Precedes(f, g) => ~Precedes(g, f)
           /\ Precedes(f, g) /\ Precedes(g, h) => Precedes(f, h)
<1>1. ASSUME NEW x \in FileIds PROVE x \in Nat /\ created[x] \in Nat
  <2>1. x \in Nat /\ Times \cup {0} \subseteq Nat
    BY ListingAssumption
  <2>2. created[x] \in Times \cup {0}
    BY DEF ListingTypeOK
  <2>. QED
    BY <2>1, <2>2
<1>2. /\ f \in Nat /\ g \in Nat /\ h \in Nat
      /\ created[f] \in Nat /\ created[g] \in Nat /\ created[h] \in Nat
  BY <1>1
<1>3. ~Older(f, f)
  BY <1>2 DEF Older
<1>4. (Older(f, g) => ~Older(g, f)) /\ (Older(g, f) => ~Older(f, g))
  BY <1>2 DEF Older
<1>5. /\ Older(f, g) /\ Older(g, h) => Older(f, h)
      /\ Older(h, g) /\ Older(g, f) => Older(h, f)
  BY <1>2 DEF Older
<1>. QED
  BY <1>3, <1>4, <1>5 DEF Precedes

(* A page and the row in excess are the first of what matches, and a page that
   has no row in excess is all of it (LIMIT and has_more). *)
LEMMA PageIsFirst ==
    ASSUME ListingTypeOK,
           NEW records, IsFirst(records, PageLimit + 1, Matching),
           NEW page, IsFirst(page, PageLimit, records)
    PROVE  /\ page \subseteq Matching
           /\ \A f \in page, g \in Matching \ page : Precedes(f, g)
           /\ ~(Cardinality(records) > PageLimit) => page = Matching
<1>1. page \subseteq records /\ records \subseteq Matching
  BY DEF IsFirst
<1>2. ASSUME NEW f \in page, NEW g \in Matching \ page
      PROVE  Precedes(f, g)
  BY <1>1, <1>2 DEF IsFirst
<1>3. ASSUME ~(Cardinality(records) > PageLimit)
      PROVE  page = Matching
  <2>1. IsFiniteSet(records)
    BY <1>1, ListingAssumption, FS_Subset DEF Matching, ListingTypeOK
  <2>2. Cardinality(records) \in Nat /\ PageLimit \in Nat
    BY <2>1, FS_CardinalityType, ListingAssumption
  <2>3. Cardinality(records) <= PageLimit /\ Cardinality(records) # PageLimit + 1
    BY <1>3, <2>2
  <2>4. page = records
    BY <2>3 DEF IsFirst
  <2>5. records = Matching
    BY <2>3 DEF IsFirst
  <2>. QED
    BY <2>4, <2>5
<1>. QED
  BY <1>1, <1>2, <1>3

(* A listing starts with an empty table. *)
LEMMA ListingStarts == ListingInit => ListingInv
BY ListingAssumption
   DEF ListingInit, ListingInv, ListingTypeOK, Known, Position, NoRepeats, NothingSkipped

(* An insert, a deletion or an expiry keeps the place of a listing. *)
LEMMA TableKeeps == ListingInv /\ TableStep => ListingInv'
<1> SUFFICES ASSUME ListingInv, TableStep PROVE ListingInv'
  OBVIOUS
<1> USE ListingAssumption DEF ListingInv, ListingTypeOK
<1>1. ASSUME NEW f \in FileIds, NEW t \in Times, AddFile(f, t)
      PROVE  ListingInv'
  <2>1. /\ row[f] = "none" /\ row' = [row EXCEPT ![f] = "visible"]
        /\ created' = [created EXCEPT ![f] = t]
        /\ UNCHANGED <<step, requestVars, clientVars, throughout>>
    BY <1>1 DEF AddFile
  <2>2. ListingTypeOK'
    BY <2>1 DEF requestVars, clientVars
  <2>3. \A g \in FileIds : Exists(g) => g # f /\ Exists(g)' /\ created'[g] = created[g]
    BY <2>1 DEF Exists
  <2>4. Known'
    BY <2>1, <2>3 DEF Known, requestVars, clientVars, Exists
  <2>5. \A g, h \in FileIds :
            Exists(g) /\ Exists(h) => (Precedes(g, h)' <=> Precedes(g, h))
    BY <2>1, <2>3 DEF Precedes, Older, requestVars
  <2>6. Position'
    BY <2>1, <2>3, <2>5 DEF Position, Known, Exists, requestVars, clientVars
  <2>. QED
    BY <2>1, <2>2, <2>4, <2>6 DEF NoRepeats, NothingSkipped, requestVars, clientVars
<1>2. ASSUME NEW f \in FileIds, HideFile(f) \/ EraseFile(f)
      PROVE  ListingInv'
  <2>1. /\ row[f] \in {"visible", "hidden"}
        /\ row' = [row EXCEPT ![f] = IF row[f] = "visible" THEN "hidden" ELSE "erased"]
        /\ throughout' = IF row[f] = "visible" THEN throughout \ {f} ELSE throughout
        /\ UNCHANGED <<created, step, requestVars, clientVars>>
    BY <1>2 DEF HideFile, EraseFile
  <2>2. ListingTypeOK'
    BY <2>1 DEF requestVars, clientVars
  <2>3. Known'
    BY <2>1 DEF Known, requestVars, clientVars, Exists
  <2>4. \A g, h \in FileIds : Precedes(g, h)' <=> Precedes(g, h)
    BY <2>1 DEF Precedes, Older, requestVars
  <2>5. Position'
    BY <2>1, <2>4 DEF Position, requestVars, clientVars
  <2>. QED
    BY <2>1, <2>2, <2>3, <2>5 DEF NoRepeats, NothingSkipped, requestVars, clientVars
<1>. QED
  BY <1>1, <1>2 DEF TableStep

(* A page goes on behind the one before, leaves nothing out before its last
   file, and the last page leaves nothing out at all (Store.List, listFiles). *)
LEMMA PageKeeps == ListingInv /\ ReadPage => ListingInv'
<1> SUFFICES ASSUME ListingInv, ReadPage PROVE ListingInv'
  OBVIOUS
<1> USE ListingAssumption DEF ListingInv
<1>1. PICK records \in SUBSET Matching :
        /\ IsFirst(records, PageLimit + 1, Matching)
        /\ \E page \in SUBSET records :
            /\ IsFirst(page, PageLimit, records)
            /\ delivered' = delivered \cup page
            /\ repeated' = repeated \cup (page \cap delivered)
            /\ IF Cardinality(records) > PageLimit
               THEN /\ step' = "request"
                    /\ \E last \in page :
                        /\ \A f \in page \ {last} : Precedes(f, last)
                        /\ after' = last
               ELSE step' = "listed" /\ UNCHANGED after
  BY DEF ReadPage
<1>2. PICK page \in SUBSET records :
            /\ IsFirst(page, PageLimit, records)
            /\ delivered' = delivered \cup page
            /\ repeated' = repeated \cup (page \cap delivered)
            /\ IF Cardinality(records) > PageLimit
               THEN /\ step' = "request"
                    /\ \E last \in page :
                        /\ \A f \in page \ {last} : Precedes(f, last)
                        /\ after' = last
               ELSE step' = "listed" /\ UNCHANGED after
  BY <1>1
<1>3. /\ page \subseteq Matching
      /\ \A f \in page, g \in Matching \ page : Precedes(f, g)
      /\ ~(Cardinality(records) > PageLimit) => page = Matching
  BY <1>1, <1>2, PageIsFirst
<1>4. /\ step = "page"
      /\ UNCHANGED <<row, created, order, selected, bound, lostCursor, throughout>>
  BY DEF ReadPage, rowVars
<1>5. \A f \in Matching : /\ f \in FileIds /\ Exists(f)
                          /\ bound # NoFile => Precedes(bound, f)
  BY DEF Matching, BeyondBound, ListingTypeOK, Exists
<1>6. throughout \subseteq delivered \cup Matching
  BY <1>4 DEF Position, Matching, BeyondBound, ListingTypeOK
<1>7. ~lostCursor => page \cap delivered = {}
  <2> SUFFICES ASSUME ~lostCursor, NEW f \in page, f \in delivered PROVE FALSE
    OBVIOUS
  <2>1. bound = after /\ after # NoFile /\ (f = after \/ Precedes(f, after))
    BY <1>4 DEF Position
  <2>2. Precedes(after, f) /\ f \in FileIds /\ after \in FileIds
    BY <1>3, <1>5, <2>1 DEF ListingTypeOK
  <2>. QED
    BY <2>1, <2>2, Strict
<1>8. \A f, g \in FileIds : Precedes(f, g)' <=> Precedes(f, g)
  BY <1>4 DEF Precedes, Older
<1>9. CASE Cardinality(records) > PageLimit
  <2>1. PICK last \in page : /\ \A f \in page \ {last} : Precedes(f, last)
                             /\ after' = last
    BY <1>2, <1>9
  <2>2. step' = "request"
    BY <1>2, <1>9
  <2>3. last \in FileIds /\ last # NoFile /\ Exists(last) /\ page \subseteq FileIds
    BY <1>3, <1>5, ListingAssumption
  <2>4. ~lostCursor => \A f \in delivered' : f = last \/ Precedes(f, last)
    <3> SUFFICES ASSUME ~lostCursor, NEW f \in delivered, f # last
                 PROVE  Precedes(f, last)
      BY <1>2, <2>1
    <3>1. bound = after /\ after # NoFile /\ (f = after \/ Precedes(f, after))
      BY <1>4 DEF Position
    <3>2. Precedes(after, last) /\ after \in FileIds /\ f \in FileIds
      BY <1>3, <1>5, <2>1, <3>1 DEF ListingTypeOK
    <3>. QED
      BY <2>3, <3>1, <3>2, Strict
  <2>5. \A f \in throughout \ delivered' : Precedes(last, f)
    BY <1>2, <1>3, <1>6, <2>1
  <2>6. Position'
    BY <1>2, <1>4, <1>8, <2>1, <2>2, <2>3, <2>4, <2>5 DEF Position, ListingTypeOK
  <2>7. Known'
    BY <1>2, <1>3, <1>4, <1>5, <2>1, <2>3 DEF Known, Exists
  <2>8. ListingTypeOK'
    BY <1>2, <1>4, <2>1, <2>2, <2>3 DEF ListingTypeOK
  <2>9. NoRepeats' /\ NothingSkipped'
    BY <1>2, <1>4, <1>7, <2>2 DEF NoRepeats, NothingSkipped
  <2>. QED
    BY <2>6, <2>7, <2>8, <2>9
<1>10. CASE ~(Cardinality(records) > PageLimit)
  <2>1. step' = "listed" /\ after' = after /\ page = Matching
    BY <1>2, <1>3, <1>10
  <2>2. page \subseteq FileIds
    BY <1>3, <1>5
  <2>3. ListingTypeOK'
    BY <1>2, <1>4, <2>1, <2>2 DEF ListingTypeOK
  <2>4. Known'
    BY <1>2, <1>4, <1>5, <2>1 DEF Known, Exists
  <2>5. Position'
    BY <1>4, <2>1 DEF Position
  <2>6. NoRepeats' /\ NothingSkipped'
    BY <1>2, <1>4, <1>6, <1>7, <2>1 DEF NoRepeats, NothingSkipped
  <2>. QED
    BY <2>3, <2>4, <2>5, <2>6
<1>. QED
  BY <1>9, <1>10

(* Every step of the client or of the table keeps the invariant. *)
LEMMA ListingKeeps == ListingInv /\ [ListingNext]_listingVars => ListingInv'
<1> SUFFICES ASSUME ListingInv, [ListingNext]_listingVars PROVE ListingInv'
  OBVIOUS
<1> USE ListingAssumption DEF ListingInv
<1>1. CASE TableStep
  BY <1>1, TableKeeps
<1>2. CASE \E o \in {"asc", "desc"}, s \in Selections : StartListing(o, s)
  <2>1. PICK o \in {"asc", "desc"}, s \in Selections : StartListing(o, s)
    BY <1>2
  <2>2. /\ step = "idle" /\ step' = "request" /\ order' = o /\ selected' = s
        /\ throughout' = {f \in s : row[f] = "visible"}
        /\ UNCHANGED <<row, created, after, bound, delivered, repeated, lostCursor>>
    BY <2>1 DEF StartListing, rowVars, clientVars
  <2>3. s \subseteq FileIds
    BY ListingAssumption
  <2>4. ListingTypeOK'
    BY <2>2, <2>3 DEF ListingTypeOK
  <2>5. Known'
    BY <2>2 DEF Known, Exists
  <2>6. Position'
    BY <2>2 DEF Position
  <2>. QED
    BY <2>2, <2>4, <2>5, <2>6 DEF NoRepeats, NothingSkipped
<1>3. CASE ReadCursor
  <2>1. \A f, g : Precedes(f, g)' <=> Precedes(f, g)
    BY <1>3 DEF ReadCursor, rowVars, Precedes, Older
  <2>2. lostCursor' \/ bound' = after
    BY <1>3 DEF ReadCursor, HasCursorRow, ListingTypeOK, Known, Exists
  <2>. QED
    BY <1>3, <2>1, <2>2 DEF ReadCursor, rowVars, ListingTypeOK, Known, Exists, Position,
                            NoRepeats, NothingSkipped
<1>4. CASE ReadPage
  BY <1>4, PageKeeps
<1>5. CASE UNCHANGED listingVars
  <2>1. UNCHANGED <<row, created, step, order, selected, after, bound, delivered, repeated,
                    throughout, lostCursor>>
    BY <1>5 DEF listingVars, rowVars, requestVars, clientVars
  <2>2. ListingTypeOK' /\ Known' /\ NoRepeats' /\ NothingSkipped'
    BY <2>1 DEF ListingTypeOK, Known, Exists, NoRepeats, NothingSkipped
  <2>3. \A f, g : Precedes(f, g)' <=> Precedes(f, g)
    BY <2>1 DEF Precedes, Older
  <2>4. Position'
    BY <2>1, <2>3 DEF Position
  <2>. QED
    BY <2>2, <2>4
<1>. QED
  BY <1>1, <1>2, <1>3, <1>4, <1>5 DEF ListingNext

(* No file is on two pages while the cursor rows are found, whatever happens to
   the table between two statements (Store.List). *)
THEOREM PagesDoNotRepeat == ListingSpec => []NoRepeats
<1>1. ListingInv => NoRepeats
  BY DEF ListingInv
<1>. QED
  BY ListingStarts, ListingKeeps, <1>1, PTL DEF ListingSpec

(* A file that stays is on some page, lost cursors included (Store.List). *)
THEOREM PagesSkipNothing == ListingSpec => []NothingSkipped
<1>1. ListingInv => NothingSkipped
  BY DEF ListingInv
<1>. QED
  BY ListingStarts, ListingKeeps, <1>1, PTL DEF ListingSpec

-----------------------------------------------------------------------------
(* Tenants: restarts never mix them up, for any keys, files and number of
   starts. *)

(* Whose a file is: the shared tenant's once a process without authentication
   has served it, else that of the key it was uploaded with. *)
OwnerOf(f) ==
    IF uploadedWith[f] = "none" THEN "none"
    ELSE IF f \in openedUp THEN Shared ELSE uploadedWith[f]

Owners ==
    /\ access \in ApiKeys \cup {NoAuth, "down"}
    /\ uploadedWith \in [OwnedFiles -> ApiKeys \cup {NoAuth, "none"}]
    /\ tenant = [f \in OwnedFiles |-> OwnerOf(f)]
    /\ openedUp \subseteq {f \in OwnedFiles : uploadedWith[f] # "none"}
    /\ \A f \in OwnedFiles : uploadedWith[f] = NoAuth => f \in openedUp
    /\ access = NoAuth => Stored \subseteq openedUp

(* A row has a tenant exactly if its file was uploaded. *)
LEMMA StoredAreUploaded ==
    ASSUME Owners
    PROVE  Stored = {f \in OwnedFiles : uploadedWith[f] # "none"}
BY TenantsAssumption DEF Owners, OwnerOf, Stored

(* The table is empty at first. *)
LEMMA TenantsStart == TenantsInit => Owners
BY TenantsAssumption DEF TenantsInit, Owners, OwnerOf, Stored

(* A start with another configuration, an upload or a stop leaves every file
   with its owner, or with the shared tenant for good (ConsolidateTenants). *)
LEMMA TenantsKeep == Owners /\ [TenantsNext]_tenantVars => Owners'
<1> SUFFICES ASSUME Owners, [TenantsNext]_tenantVars
             PROVE  Owners'
  OBVIOUS
<1> USE TenantsAssumption DEF Owners
<1>1. Stored = {f \in OwnedFiles : uploadedWith[f] # "none"}
  BY StoredAreUploaded
<1>2. CASE \E a \in ApiKeys \cup {NoAuth} : StartGateway(a)
  <2>1. PICK a \in ApiKeys \cup {NoAuth} : StartGateway(a)
    BY <1>2
  <2>2. CASE a = NoAuth
    <3>1. /\ access' = a /\ uploadedWith' = uploadedWith
          /\ tenant' = [f \in OwnedFiles |-> IF f \in Stored THEN Shared ELSE "none"]
          /\ openedUp' = openedUp \cup Stored
      BY <2>1, <2>2 DEF StartGateway, ConsolidateTenants
    <3>2. tenant' = [f \in OwnedFiles |-> OwnerOf(f)']
      BY <1>1, <3>1 DEF OwnerOf
    <3>3. Stored' \subseteq openedUp'
      BY <1>1, <3>1 DEF Stored
    <3>. QED
      BY <1>1, <3>1, <3>2, <3>3
  <2>3. CASE a # NoAuth
    BY <2>1, <2>3 DEF StartGateway, OwnerOf, Stored
  <2>. QED
    BY <2>2, <2>3
<1>3. CASE StartFails
  BY <1>3 DEF StartFails, OwnerOf, Stored
<1>4. CASE StopGateway
  BY <1>4 DEF StopGateway, OwnerOf, Stored
<1>5. CASE \E f \in OwnedFiles : UploadFile(f)
  <2>1. PICK f \in OwnedFiles : UploadFile(f)
    BY <1>5
  <2>2. /\ access # "down" /\ access' = access /\ uploadedWith[f] = "none"
        /\ tenant' = [tenant EXCEPT ![f] = TenantID]
        /\ uploadedWith' = [uploadedWith EXCEPT ![f] = access]
        /\ openedUp' = IF access = NoAuth THEN openedUp \cup {f} ELSE openedUp
    BY <1>1, <2>1 DEF UploadFile
  <2>3. f \notin openedUp
    BY <2>2
  <2>4. uploadedWith' \in [OwnedFiles -> ApiKeys \cup {NoAuth, "none"}]
    BY <2>2
  <2>5. tenant' = [g \in OwnedFiles |-> OwnerOf(g)']
    BY <2>2, <2>3 DEF OwnerOf, TenantID
  <2>6. access = NoAuth => Stored' \subseteq openedUp'
    BY <2>2 DEF Stored
  <2>. QED
    BY <2>2, <2>3, <2>4, <2>5, <2>6
<1>6. CASE UNCHANGED tenantVars
  BY <1>6 DEF tenantVars, OwnerOf, Stored
<1>. QED
  BY <1>2, <1>3, <1>4, <1>5, <1>6 DEF TenantsNext

(* A client finds exactly its own files, over any restarts with other keys and
   without authentication (tenantID, Get, List, ConsolidateTenants). *)
THEOREM TenantsStayApart == TenantsSpec => []TenantsAreApart
<1>1. Owners => TenantsAreApart
  BY TenantsAssumption, StoredAreUploaded
     DEF Owners, OwnerOf, TenantsAreApart, Finds, Stored, TenantID
<1>. QED
  BY TenantsStart, TenantsKeep, <1>1, PTL DEF TenantsSpec

-----------------------------------------------------------------------------
(* Limits: what is kept is whole and within them, for any width of an int64, unit
   of a Duration, settings and sizes. *)

(* What an upload and an inline file are held against *)
Configured ==
    /\ maxFileBytes \in 0 .. MaxInt
    /\ answer = "loaded" =>
           /\ set.ttl \in 0 .. MaxInt /\ fileTTL = Duration(set.ttl)
           /\ set.body \in Settings \cup {Unset}
           /\ maxBodyBytes = BodyLimit(maxFileBytes, set.body)

LimitsInv == Configured /\ AcceptedWhole /\ RetentionAsAsked

(* What fits an int64 is its value. *)
LEMMA WrapFits ==
    ASSUME NEW n \in Int, -(MaxInt + 1) <= n, n <= MaxInt
    PROVE  Wrap(n) = n
<1>1. MaxInt \in Nat
  BY LimitsAssumption
<1>2. /\ n + MaxInt + 1 \in Int /\ 2 * (MaxInt + 1) \in Int
      /\ 0 <= n + MaxInt + 1 /\ n + MaxInt + 1 < 2 * (MaxInt + 1)
  BY <1>1
<1>3. \A k, d \in Int : 0 <= k /\ k < d => k % d = k
  OBVIOUS
<1>4. (n + MaxInt + 1) % (2 * (MaxInt + 1)) = n + MaxInt + 1
  BY <1>2, <1>3
<1>. QED
  BY <1>1, <1>4 DEF Wrap

(* A sum of two values that does not fit is negative. *)
LEMMA WrapOverflows ==
    ASSUME NEW m \in 0 .. MaxInt, NEW n \in 0 .. MaxInt, m + n > MaxInt
    PROVE  Wrap(m + n) \in Int /\ Wrap(m + n) < 0
<1>1. MaxInt \in Nat
  BY LimitsAssumption
<1>2. /\ m + n + MaxInt + 1 \in Int /\ 2 * (MaxInt + 1) \in Int
      /\ 2 * (MaxInt + 1) <= m + n + MaxInt + 1
      /\ m + n + MaxInt + 1 < 2 * (2 * (MaxInt + 1))
  BY <1>1
<1>3. \A k, d \in Int : d <= k /\ k < 2 * d => k % d = k - d
  OBVIOUS
<1>4. (m + n + MaxInt + 1) % (2 * (MaxInt + 1)) = m + n - MaxInt - 1
  <2>1. (m + n + MaxInt + 1) % (2 * (MaxInt + 1)) = (m + n + MaxInt + 1) - 2 * (MaxInt + 1)
    BY <1>2, <1>3
  <2>. QED
    BY <1>1, <2>1
<1>. QED
  BY <1>1, <1>4 DEF Wrap

(* Seconds that fit a Duration are the seconds in it. *)
LEMMA SecondsFit ==
    ASSUME NEW n \in Nat, n * Second <= MaxInt
    PROVE  /\ Duration(n) = n * Second /\ InSeconds(Duration(n)) = n
           /\ n <= MaxInt
<1>1. /\ MaxInt \in Nat /\ Second \in Nat /\ Second > 1
  BY LimitsAssumption
<1>2. n * Second \in Nat /\ n <= n * Second
  BY <1>1
<1>3. Duration(n) = n * Second
  BY <1>1, <1>2, WrapFits DEF Duration
<1>4. \A k, d \in Nat : d > 0 => (k * d) \div d = k
  OBVIOUS
<1>5. InSeconds(n * Second) = n
  BY <1>1, <1>2, <1>4 DEF InSeconds
<1>. QED
  BY <1>1, <1>2, <1>3, <1>5

(* A file is turned away exactly if it is larger than MAX_FILE_BYTES, and else it
   is read to its end (Create, downloadPublicHTTPS). *)
LEMMA ReadWhole ==
    ASSUME LimitsInv, maxFileBytes # MaxInt, NEW size \in FileSizes
    PROVE  /\ TooLarge(BytesRead(size)) <=> maxFileBytes > 0 /\ size > maxFileBytes
           /\ ~TooLarge(BytesRead(size)) => BytesRead(size) = size
<1>1. /\ MaxInt \in Nat /\ size \in 0 .. MaxInt /\ maxFileBytes \in 0 .. MaxInt
  BY LimitsAssumption DEF LimitsInv, Configured
<1>2. Wrap(maxFileBytes + 1) = maxFileBytes + 1
  BY <1>1, WrapFits
<1>. QED
  BY <1>1, <1>2 DEF TooLarge, BytesRead

(* The form of a file within MAX_FILE_BYTES fits (uploadBodyLimit). *)
LEMMA FormOfFileFits ==
    ASSUME LimitsInv, NEW size \in FileSizes, NEW rest \in FormSizes,
           maxFileBytes > 0 => size <= maxFileBytes
    PROVE  FormFits(size + rest)
<1>1. /\ MaxInt \in Nat /\ size \in 0 .. MaxInt /\ maxFileBytes \in 0 .. MaxInt
      /\ FormAllowance \in 0 .. MaxInt /\ rest \in 0 .. FormAllowance
  BY LimitsAssumption DEF LimitsInv, Configured
<1>2. CASE maxFileBytes + FormAllowance > MaxInt
  <2>1. /\ Wrap(maxFileBytes + FormAllowance) \in Int
        /\ Wrap(maxFileBytes + FormAllowance) < 0
    BY <1>1, <1>2, WrapOverflows
  <2>. QED
    BY <2>1 DEF FormFits, UploadBodyLimit
<1>3. CASE maxFileBytes + FormAllowance <= MaxInt
  <2>1. Wrap(maxFileBytes + FormAllowance) = maxFileBytes + FormAllowance
    BY <1>1, <1>3, WrapFits
  <2>. QED
    BY <1>1, <2>1 DEF FormFits, UploadBodyLimit
<1>. QED
  BY <1>1, <1>2, <1>3

(* Beside a file within MAX_FILE_BYTES, in base64, the default body limit leaves
   room for twice as much (config.Load), if four times the limit is an int64. *)
LEMMA FileAndAnotherFit ==
    ASSUME LimitsInv, answer = "loaded", set.body = Unset,
           4 * maxFileBytes <= MaxInt, maxFileBytes > 1,
           NEW source \in Sources, NEW size \in FileSizes, NEW rest \in BodyRests,
           BodyTooLarge(BodySize(source, size, rest))
    PROVE  size > maxFileBytes \/ rest > 2 * maxFileBytes
<1>1. /\ MaxInt \in Nat /\ size \in Nat /\ rest \in Nat /\ maxFileBytes \in Nat
  BY LimitsAssumption DEF LimitsInv, Configured
<1>2. maxBodyBytes = 4 * maxFileBytes
  <2>1. maxBodyBytes = Wrap(4 * maxFileBytes)
    BY DEF LimitsInv, Configured, BodyLimit
  <2>. QED
    BY <1>1, <2>1, WrapFits
<1>3. \A k, m \in Nat : k <= m /\ m > 1 => 4 * ((k + 2) \div 3) <= 2 * m
  OBVIOUS
<1>4. SUFFICES ASSUME size <= maxFileBytes
               PROVE  rest > 2 * maxFileBytes
  BY <1>1
<1>5. 4 * ((size + 2) \div 3) <= 2 * maxFileBytes
  BY <1>1, <1>3, <1>4
<1>6. (size + 2) \div 3 \in Nat
  BY <1>1
<1>7. BodySize(source, size, rest) > 4 * maxFileBytes
  BY <1>1, <1>2 DEF BodyTooLarge
<1>. QED
  BY <1>1, <1>5, <1>6, <1>7 DEF BodySize

(* An expiry that createFile accepts is the one that was asked for, or that of
   the configuration. *)
LEMMA ExpiryAsAsked ==
    ASSUME LimitsInv, answer = "loaded", set.ttl * Second <= MaxInt
    PROVE  /\ Expiry(fileTTL) = IF set.ttl = 0 THEN 0 ELSE Now + set.ttl
           /\ \A form \in {"json", "field"}, n \in AskedSeconds :
                 /\ Retainable(Parsed(form, n))
                 /\ set.ttl > 0 \/ n * Second <= MaxInt
                 => /\ Expiry(Duration(Parsed(form, n))) = Now + n
                    /\ set.ttl > 0 => n <= set.ttl
<1>1. /\ MaxInt \in Nat /\ Second \in Nat /\ Second > 1
      /\ set.ttl \in 0 .. MaxInt /\ fileTTL = Duration(set.ttl)
  BY LimitsAssumption DEF LimitsInv, Configured
<1>2. fileTTL = set.ttl * Second /\ InSeconds(fileTTL) = set.ttl
  BY <1>1, SecondsFit
<1>3. \A n \in Nat : /\ n * Second \in Nat /\ n <= n * Second
                     /\ n > 0 => n * Second > n
  BY <1>1
<1>4. Expiry(fileTTL) = IF set.ttl = 0 THEN 0 ELSE Now + set.ttl
  <2>1. set.ttl * Second = 0 <=> set.ttl = 0
    BY <1>1, <1>3
  <2>2. set.ttl * Second >= 0
    BY <1>1, <1>3
  <2>. QED
    BY <1>1, <1>2, <2>1, <2>2 DEF Expiry
<1>5. ASSUME NEW form \in {"json", "field"}, NEW n \in AskedSeconds,
             Retainable(Parsed(form, n)), set.ttl > 0 \/ n * Second <= MaxInt
      PROVE  /\ Expiry(Duration(Parsed(form, n))) = Now + n
             /\ set.ttl > 0 => n <= set.ttl
  <2>1. n \in Int /\ Parsed(form, n) \in Int /\ Parsed(form, n) >= 1
    BY <1>1, <1>5, LimitsAssumption DEF Retainable, Parsed
  <2>2. set.ttl > 0 => Parsed(form, n) <= set.ttl
    BY <1>2, <1>5 DEF Retainable
  <2>3. set.ttl > 0 => set.ttl < MaxInt
    BY <1>1, <1>3
  <2>4. Parsed(form, n) = n /\ n >= 1
    <3>1. CASE set.ttl > 0
      BY <1>1, <2>1, <2>2, <2>3, <3>1 DEF Parsed
    <3>2. CASE n * Second <= MaxInt
      <4>1. n >= 1
        BY <1>1, <2>1 DEF Parsed
      <4>2. n <= MaxInt
        BY <1>1, <1>3, <2>1, <3>2, <4>1
      <4>. QED
        BY <4>1, <4>2 DEF Parsed
    <3>. QED
      BY <1>5, <3>1, <3>2
  <2>5. n * Second <= MaxInt
    <3>1. CASE set.ttl > 0
      <4>1. \A k, m, s \in Nat : k <= m => k * s <= m * s
        OBVIOUS
      <4>2. n * Second <= set.ttl * Second
        BY <1>1, <2>1, <2>2, <2>4, <3>1, <4>1
      <4>3. n * Second \in Nat /\ set.ttl * Second \in Nat
        BY <1>1, <1>3, <2>1, <2>4
      <4>. QED
        BY <1>1, <4>2, <4>3
    <3>. QED
      BY <1>5, <3>1
  <2>6. Duration(n) = n * Second /\ InSeconds(Duration(n)) = n
    BY <2>1, <2>4, <2>5, SecondsFit
  <2>7. n * Second > 0
    BY <1>3, <2>1, <2>4
  <2>8. Expiry(Duration(n)) = Now + n
    BY <1>1, <2>1, <2>6, <2>7 DEF Expiry
  <2>. QED
    BY <2>2, <2>4, <2>8
<1>. QED
  BY <1>4, <1>5

(* Nothing is configured or kept at first. *)
LEMMA LimitsStart == LimitsInit => LimitsInv
BY LimitsAssumption DEF LimitsInit, LimitsInv, Configured, AcceptedWhole, RetentionAsAsked

(* Load, an upload and an inline file keep the limits. *)
LEMMA LimitsKeep == LimitsInv /\ [LimitsNext]_limitsVars => LimitsInv'
<1> SUFFICES ASSUME LimitsInv, [LimitsNext]_limitsVars PROVE LimitsInv'
  OBVIOUS
<1>1. ASSUME NEW file \in Settings, NEW body \in Settings \cup {Unset},
             NEW ttl \in Settings, Load(file, body, ttl)
      PROVE  LimitsInv'
  <2>1. MaxInt \in Nat /\ file \in -(MaxInt + 1) .. MaxInt
        /\ ttl \in -(MaxInt + 1) .. MaxInt
    BY LimitsAssumption
  <2>2. Configured'
    <3>1. CASE answer' = "refused to start"
      BY <1>1, <3>1 DEF Load, LimitsInv, Configured
    <3>2. CASE answer' = "loaded"
      <4>1. /\ ~(ttl < 0) /\ ~(file < 0) /\ set' = [ttl |-> ttl, body |-> body]
            /\ maxFileBytes' = file /\ fileTTL' = Duration(ttl)
        BY <1>1, <3>2 DEF Load
      <4>2. set'.ttl = ttl
        BY <4>1
      <4>3. ttl \in 0 .. MaxInt /\ file \in 0 .. MaxInt
        BY <2>1, <4>1
      <4>4. Duration(set.ttl)' = Duration(ttl)
        BY <4>2 DEF Duration, Wrap
      <4>5. /\ set'.body = body
            /\ maxBodyBytes' = BodyLimit(maxFileBytes, set.body)'
        BY <1>1, <3>2, <4>1 DEF Load, BodyLimit, Wrap
      <4>. QED
        BY <1>1, <3>2, <4>1, <4>2, <4>3, <4>4, <4>5 DEF Configured
    <3>. QED
      BY <1>1, <3>1, <3>2 DEF Load
  <2>. QED
    BY <1>1, <2>2 DEF Load, LimitsInv, AcceptedWhole, RetentionAsAsked
<1>2. ASSUME NEW size \in FileSizes, NEW rest \in FormSizes,
             NEW form \in {"json", "field"}, NEW n \in AskedSeconds \cup {Unset},
             Upload(size, rest, form, n)
      PROVE  LimitsInv'
  <2> DEFINE seconds == IF n = Unset THEN Unset ELSE Parsed(form, n)
             stored == /\ FormFits(size + rest)
                       /\ n # Unset => Retainable(seconds)
                       /\ ~TooLarge(BytesRead(size))
  <2>1. /\ answer = "loaded" /\ sent' = [size |-> size, rest |-> rest, asked |-> n]
        /\ UNCHANGED <<set, maxFileBytes, maxBodyBytes, fileTTL>>
    BY <1>2 DEF Upload
  <2>2. /\ stored => /\ answer' = "stored" /\ kept' = BytesRead(size)
                     /\ expiresAt' = Expiry(IF n = Unset THEN fileTTL ELSE Duration(seconds))
        /\ ~stored => answer' \in {"too large", "invalid_expires_after"}
        /\ answer' = "too large" => ~FormFits(size + rest) \/ TooLarge(BytesRead(size))
        /\ answer' # "body too large"
    BY <1>2 DEF Upload
  <2>3. sent'.size = size /\ sent'.asked = n
    BY <2>1
  <2>4. Configured'
    <3>1. answer' # "loaded"
      BY <2>2
    <3>. QED
      BY <2>1, <3>1 DEF LimitsInv, Configured
  <2>5. AcceptedWhole'
    <3>1. SUFFICES ASSUME maxFileBytes # MaxInt
                   PROVE  /\ answer' \in {"stored", "inlined"} =>
                               /\ maxFileBytes > 0 => size <= maxFileBytes
                               /\ kept' = size
                          /\ answer' = "too large" =>
                               maxFileBytes > 0 /\ size > maxFileBytes
      BY <2>1, <2>2, <2>3 DEF AcceptedWhole
    <3>2. /\ TooLarge(BytesRead(size)) <=> maxFileBytes > 0 /\ size > maxFileBytes
          /\ ~TooLarge(BytesRead(size)) => BytesRead(size) = size
      BY <3>1, ReadWhole
    <3>3. maxFileBytes \in Int /\ size \in Int
      BY LimitsAssumption DEF LimitsInv, Configured
    <3>4. ~FormFits(size + rest) => maxFileBytes > 0 /\ size > maxFileBytes
      BY <3>3, FormOfFileFits
    <3>5. ~TooLarge(BytesRead(size)) => /\ maxFileBytes > 0 => size <= maxFileBytes
                             /\ BytesRead(size) = size
      BY <3>2, <3>3
    <3>6. ASSUME answer' \in {"stored", "inlined"}
          PROVE  ~TooLarge(BytesRead(size)) /\ kept' = BytesRead(size)
      BY <2>2, <3>6
    <3>7. answer' = "too large" => maxFileBytes > 0 /\ size > maxFileBytes
      BY <2>2, <3>2, <3>4
    <3>. QED
      BY <3>5, <3>6, <3>7
  <2>6. RetentionAsAsked'
    <3>1. SUFFICES ASSUME stored, set.ttl * Second <= MaxInt
                   PROVE  IF n = Unset
                          THEN expiresAt' = IF set.ttl = 0 THEN 0 ELSE Now + set.ttl
                          ELSE set.ttl > 0 \/ n * Second <= MaxInt =>
                                 /\ expiresAt' = Now + n
                                 /\ set.ttl > 0 => n <= set.ttl
      BY <2>1, <2>2, <2>3 DEF RetentionAsAsked
    <3>2. CASE n = Unset
      BY <2>1, <2>2, <3>1, <3>2, ExpiryAsAsked
    <3>3. CASE n # Unset
      BY <2>1, <2>2, <3>1, <3>3, ExpiryAsAsked
    <3>. QED
      BY <3>2, <3>3
  <2>. QED
    BY <2>4, <2>5, <2>6 DEF LimitsInv
<1>3. ASSUME NEW source \in Sources, NEW size \in FileSizes, NEW rest \in BodyRests,
             PrepareInline(source, size, rest)
      PROVE  LimitsInv'
  <2> DEFINE refused == BodyTooLarge(BodySize(source, size, rest))
             above == TooLarge(Content(source, size))
  <2>1. /\ answer = "loaded" /\ sent' = [size |-> size, rest |-> rest, asked |-> Unset]
        /\ UNCHANGED <<set, maxFileBytes, fileTTL>>
        /\ \/ refused /\ answer' = "body too large"
           \/ ~refused /\ above /\ answer' = "too large"
           \/ ~above /\ answer' = "inlined" /\ kept' = Content(source, size)
    BY <1>3 DEF PrepareInline
  <2>2. maxFileBytes # MaxInt =>
            /\ above <=> maxFileBytes > 0 /\ size > maxFileBytes
            /\ ~above => Content(source, size) = size
    <3>1. CASE source = "file_data"
      BY <3>1 DEF Content, TooLarge
    <3>2. CASE source = "file_url"
      BY <3>2, ReadWhole DEF Content
    <3>. QED
      BY <3>1, <3>2 DEF Sources
  <2>3. maxFileBytes \in Int /\ size \in Int
    BY LimitsAssumption DEF LimitsInv, Configured
  <2>4. sent'.size = size /\ sent'.rest = rest
    BY <2>1
  <2>5. AcceptedWhole'
    <3>1. CASE refused /\ answer' = "body too large"
      <4>1. ASSUME set.body = Unset, 4 * maxFileBytes <= MaxInt, maxFileBytes > 1
            PROVE  size > maxFileBytes \/ rest > 2 * maxFileBytes
        BY <2>1, <3>1, <4>1, FileAndAnotherFit
      <4>. QED
        BY <2>1, <2>4, <3>1, <4>1 DEF AcceptedWhole
    <3>2. CASE above /\ answer' = "too large"
      BY <2>1, <2>2, <2>4, <3>2 DEF AcceptedWhole
    <3>3. CASE ~above /\ answer' = "inlined" /\ kept' = Content(source, size)
      BY <2>1, <2>2, <2>3, <2>4, <3>3 DEF AcceptedWhole
    <3>. QED
      BY <2>1, <3>1, <3>2, <3>3
  <2>6. answer' \notin {"loaded", "stored"}
    BY <2>1
  <2>. QED
    BY <2>1, <2>5, <2>6 DEF LimitsInv, Configured, RetentionAsAsked
<1>4. CASE UNCHANGED limitsVars
  BY <1>4 DEF limitsVars, LimitsInv, Configured, AcceptedWhole, RetentionAsAsked
<1>. QED
  BY <1>1, <1>2, <1>3, <1>4 DEF LimitsNext

(* Nobody lets in a file above MAX_FILE_BYTES, turns one within it away for its
   own size or cuts one short (uploadBodyLimit, Create, prepareDocument), and a
   default body limit that does not wrap has room for two files within it
   (config.Load, handleInference). *)
THEOREM LimitsAreKept == LimitsSpec => []AcceptedWhole
<1>1. LimitsInv => AcceptedWhole
  BY DEF LimitsInv
<1>. QED
  BY LimitsStart, LimitsKeep, <1>1, PTL DEF LimitsSpec

(* A file expires when expires_after and FILE_TTL_SECONDS say (createFile,
   Create). *)
THEOREM RetentionIsAsAsked == LimitsSpec => []RetentionAsAsked
<1>1. LimitsInv => RetentionAsAsked
  BY DEF LimitsInv
<1>. QED
  BY LimitsStart, LimitsKeep, <1>1, PTL DEF LimitsSpec
==============================================================================
