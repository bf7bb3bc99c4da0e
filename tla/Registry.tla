------------------------------ MODULE Registry ------------------------------
(***************************************************************************)
(* The converter registry and the dispatcher over it (registry.go and      *)
(* dispatcher.go in src/internal/converter).  Both maps of Merge are Go    *)
(* maps: their keys need not be normalized or valid, since a map literal   *)
(* goes past Register, and they are walked in any order.                   *)
(***************************************************************************)
CONSTANTS
    Extensions,     \* the extensions as they are written, ".PDF" and ".pdf"
    Lower,          \* what strings.ToLower makes of each of them
    Dotted,         \* those that start with a dot
    Factories,      \* the converter factories
    Nil,            \* no factory
    Fallback        \* the plain-text converter of the dispatcher

ASSUME RegistryAssumption ==
    /\ Lower \in [Extensions -> Extensions]
    /\ \A e \in Extensions : Lower[Lower[e]] = Lower[e]
    /\ Dotted \subseteq Extensions
    /\ {Nil, Fallback} \cap Factories = {}

Tables == UNION {[D -> Factories \cup {Nil}] : D \in SUBSET Extensions}

VARIABLES
    registry,       \* the Registry: the factory of each extension it has
    in,             \* the argument of a Merge
    unseen,         \* the keys of in that Merge has not come to
    merged,         \* its local copy
    merge,          \* what became of the Merge
    before          \* the registry when it began

registryVars == <<registry, in, unseen, merged, merge, before>>

Empty == [e \in {} |-> Nil]

RegistryInit ==
    /\ registry = Empty
    /\ in = Empty
    /\ unseen = {}
    /\ merged = Empty
    /\ merge = "none"
    /\ before = Empty

(* The table after an assignment to one of its keys *)
With(table, e, factory) ==
    [d \in DOMAIN table \cup {e} |-> IF d = e THEN factory ELSE table[d]]

(* What Register checks of an extension, normalized, and a factory *)
Registrable(table, e, factory) ==
    /\ Lower[e] \in Dotted
    /\ factory # Nil
    /\ Lower[e] \notin DOMAIN table

(* Faulty variants for mutation runs. *)
MergesInPlace == registry' = merged'

Register(e, factory) ==
    /\ merge # "merging"
    /\ Registrable(registry, e, factory)
    /\ registry' = With(registry, Lower[e], factory)
    /\ merge' = "none"
    /\ UNCHANGED <<in, unseen, merged, before>>

Unregister(e) ==
    /\ merge # "merging"
    /\ Lower[e] \in DOMAIN registry
    /\ registry' = [d \in DOMAIN registry \ {Lower[e]} |-> registry[d]]
    /\ merge' = "none"
    /\ UNCHANGED <<in, unseen, merged, before>>

StartMerge(table) ==
    /\ merge # "merging"
    /\ merge' = "merging"
    /\ in' = table
    /\ unseen' = DOMAIN table
    /\ merged' = registry
    /\ before' = registry
    /\ UNCHANGED registry

(* Merge works on a copy. *)
CopyOnly == UNCHANGED registry

(* One round of the loop over in: Register in the copy, whose error ends Merge *)
MergeEntry(e) ==
    /\ merge = "merging"
    /\ e \in unseen
    /\ IF Registrable(merged, e, in[e])
       THEN /\ merged' = With(merged, Lower[e], in[e])
            /\ unseen' = unseen \ {e}
            /\ UNCHANGED merge
       ELSE merge' = "refused" /\ UNCHANGED <<merged, unseen>>
    /\ CopyOnly
    /\ UNCHANGED <<in, before>>

(* The loop that copies merged back, which can not fail *)
EndMerge ==
    /\ merge = "merging"
    /\ unseen = {}
    /\ registry' = [d \in DOMAIN merged \cup DOMAIN registry |->
                       IF d \in DOMAIN merged THEN merged[d] ELSE registry[d]]
    /\ merge' = "merged"
    /\ UNCHANGED <<in, unseen, merged, before>>

RegistryNext ==
    \/ \E e \in Extensions :
        \/ \E factory \in Factories \cup {Nil} : Register(e, factory)
        \/ Unregister(e) \/ MergeEntry(e)
    \/ \E table \in Tables : StartMerge(table)
    \/ EndMerge

RegistrySpec == RegistryInit /\ [][RegistryNext]_registryVars

----------------------------------------------------------------------------
(* Converter, ForPath and ResolveConverter: the factory of the normalized
   extension, and the fallback only if there is none *)
ResolveConverter(table, e) ==
    IF Lower[e] \in DOMAIN table THEN table[Lower[e]] ELSE Fallback

(* Property: a merge is all or nothing, in whatever order Go walks the map, two
   spellings of one extension in it included.  A refused merge leaves what every
   extension resolves to as it was, and is refused for a reason; a merge that
   succeeds adds what was to be merged and takes nothing away
   (registry.go:106-107). *)
MergeIsAtomic ==
    /\ merge = "refused" =>
           /\ \A e \in Extensions :
                ResolveConverter(registry, e) = ResolveConverter(before, e)
           /\ \E e \in DOMAIN in :
                \/ ~Registrable(before, e, in[e])
                \/ \E d \in DOMAIN in \ {e} : Lower[d] = Lower[e]
    /\ merge = "merged" =>
           \A e \in Extensions :
               LET same == {d \in DOMAIN in : Lower[d] = Lower[e]} IN
               IF same = {}
               THEN ResolveConverter(registry, e) = ResolveConverter(before, e)
               ELSE /\ Lower[e] \notin DOMAIN before
                    /\ \A d \in same : ResolveConverter(registry, e) = in[d]
=============================================================================
