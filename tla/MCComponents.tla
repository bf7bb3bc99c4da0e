---------------------------- MODULE MCComponents ----------------------------
(* The components that stand alone, each run by itself: a behaviour picks one
   and only that one moves, so their state spaces add up. *)
EXTENDS Listing, Conversion, Download, Registry, Limits,
        Tenants, TLC

VARIABLE part           \* the component that this behaviour is about

MCSelections == {FileIds, FileIds \ {2}}

MCLower == (".pdf" :> ".pdf") @@ (".PDF" :> ".pdf") @@ ("txt" :> "txt")

(* For an int64 of 8 bits: values around the largest, around its half and its
   quarter, and around the most seconds that a Duration holds.  Four times 31
   fits, four times 32, 64 and 80 wrap to less than, to exactly and to more than
   nothing. *)
MCSettings == {-1, 0, 1, 4, 12, 13, 31, 32, 64, 80, 122, 126, 127}

ComponentsInit ==
    /\ part \in {"listing", "conversion", "download", "registry", "limits",
               "tenants"}
    /\ ListingInit
    /\ ConversionInit
    /\ kind = "text" \/ part = "conversion"
    /\ DownloadInit
    /\ RegistryInit
    /\ LimitsInit
    /\ TenantsInit

Only(component) == part = component /\ UNCHANGED part

ComponentsNext ==
    \/ /\ Only("listing") /\ ListingNext
       /\ UNCHANGED <<conversionVars, downloadVars, registryVars,
                      limitsVars, tenantVars>>
    \/ /\ Only("conversion") /\ ConversionNext
       /\ UNCHANGED <<listingVars, downloadVars, registryVars,
                      limitsVars, tenantVars>>
    \/ /\ Only("download") /\ DownloadNext
       /\ UNCHANGED <<listingVars, conversionVars, registryVars,
                      limitsVars, tenantVars>>
    \/ /\ Only("registry") /\ RegistryNext
       /\ UNCHANGED <<listingVars, conversionVars, downloadVars,
                      limitsVars, tenantVars>>
    \/ /\ Only("limits") /\ LimitsNext
       /\ UNCHANGED <<listingVars, conversionVars, downloadVars,
                      registryVars, tenantVars>>
    \/ /\ Only("tenants") /\ TenantsNext
       /\ UNCHANGED <<listingVars, conversionVars, downloadVars,
                      registryVars, limitsVars>>

ComponentsSpec ==
    /\ ComponentsInit
    /\ [][ComponentsNext]_<<part, listingVars, conversionVars, downloadVars,
                            registryVars, limitsVars, tenantVars>>
=============================================================================
