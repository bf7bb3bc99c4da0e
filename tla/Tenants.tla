------------------------------ MODULE Tenants -------------------------------
(***************************************************************************)
(* Whose a file is, over restarts with another configuration: tenantID in  *)
(* src/internal/server/server.go, ConsolidateTenants in                    *)
(* src/internal/store/store.go, and their use in main.run.                 *)
(***************************************************************************)
EXTENDS Naturals

CONSTANTS
    OwnedFiles,     \* the files that are uploaded
    ApiKeys,        \* the values of GATEWAY_API_KEY
    NoAuth,         \* GATEWAY_AUTH_REQUIRED=false
    Shared,         \* the tenant of all files when there is no authentication
    MaxStarts       \* bound: process starts

ASSUME TenantsAssumption ==
    /\ NoAuth \notin ApiKeys
    /\ Shared \notin ApiKeys \cup {"none"}
    /\ {"none", "down"} \cap (ApiKeys \cup {NoAuth}) = {}
    /\ MaxStarts \in Nat

VARIABLES
    access,         \* the configuration of the process: a key, NoAuth, or "down"
    starts,         \* process starts so far
    tenant,         \* files -> tenant_id, or "none" before the upload
    uploadedWith,   \* files -> the access when it was uploaded
    openedUp        \* the files some process without authentication served

tenantVars == <<access, starts, tenant, uploadedWith, openedUp>>

TenantsInit ==
    /\ access = "down"
    /\ starts = 0
    /\ tenant = [f \in OwnedFiles |-> "none"]
    /\ uploadedWith = [f \in OwnedFiles |-> "none"]
    /\ openedUp = {}

Stored == {f \in OwnedFiles : tenant[f] # "none"}

(* tenantID of a request with the right token.  The tenant of a key is its hash,
   which stands for the key here. *)
TenantID == IF access = NoAuth THEN Shared ELSE access

(* Faulty variants for mutation runs. *)
NotConsolidated == tenant

(* UPDATE files SET tenant_id: every file becomes the shared tenant's, for good *)
ConsolidateTenants == [f \in OwnedFiles |-> IF f \in Stored THEN Shared ELSE "none"]

StartGateway(a) ==
    /\ access = "down"
    /\ starts < MaxStarts
    /\ starts' = starts + 1
    /\ access' = a
    /\ IF a = NoAuth
       THEN tenant' = ConsolidateTenants /\ openedUp' = openedUp \cup Stored
       ELSE UNCHANGED <<tenant, openedUp>>
    /\ UNCHANGED uploadedWith

(* ConsolidateTenants fails, and run returns its error. *)
StartFails ==
    /\ access = "down"
    /\ starts < MaxStarts
    /\ starts' = starts + 1
    /\ UNCHANGED <<access, tenant, uploadedWith, openedUp>>

StopGateway ==
    /\ access # "down"
    /\ access' = "down"
    /\ UNCHANGED <<starts, tenant, uploadedWith, openedUp>>

UploadFile(f) ==
    /\ access # "down"
    /\ f \notin Stored
    /\ tenant' = [tenant EXCEPT ![f] = TenantID]
    /\ uploadedWith' = [uploadedWith EXCEPT ![f] = access]
    /\ openedUp' = IF access = NoAuth THEN openedUp \cup {f} ELSE openedUp
    /\ UNCHANGED <<access, starts>>

TenantsNext ==
    \/ \E a \in ApiKeys \cup {NoAuth} : StartGateway(a)
    \/ StartFails
    \/ StopGateway
    \/ \E f \in OwnedFiles : UploadFile(f)

TenantsSpec == TenantsInit /\ [][TenantsNext]_tenantVars

----------------------------------------------------------------------------
(* Properties *)

(* What Get and List find for a request *)
Finds(f) == f \in Stored /\ tenant[f] = TenantID

(* Without authentication all files are visible to all clients (store.go:72-74);
   with it a client finds exactly the files uploaded with its key, unless a
   process without authentication has opened them up in between, which no later
   configuration takes back (DESIGN.md:367). *)
TenantsAreApart ==
    access # "down" =>
        \A f \in Stored :
            Finds(f) <=> \/ access = NoAuth
                         \/ uploadedWith[f] = access /\ f \notin openedUp
=============================================================================
