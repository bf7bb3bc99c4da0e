---------------------------- MODULE ContentProofs ----------------------------
(* That the way from a file to its content is safe: what is converted, what is
   downloaded and which converter is found. *)
EXTENDS Conversion, Download, Registry, TLAPS

-----------------------------------------------------------------------------
(* Conversions: what one publishes is its own and whole, and a failed one leaves
   nothing, for any parts and number of attempts. *)

(* derived/ holds nothing *)
Cleaned == \A p \in Parts : output[p] = Absent

(* Nothing on disk is this attempt's. *)
OutputIsOlder == \A p \in Parts : output[p].by < attempt
Untouched == manifest.by < attempt /\ OutputIsOlder

(* derived/ holds the parts of this attempt, whole, and no other. *)
Complete ==
    \A p \in Parts : output[p] = IF p \in plan THEN [by |-> attempt, whole |-> TRUE]
                                               ELSE Absent

Sealed == manifest = [by |-> attempt, whole |-> TRUE, names |-> plan]

(* What is on disk at each place in Convert *)
Progress ==
    /\ \A p \in Parts : output[p].by <= attempt
    /\ manifest.by <= attempt
    /\ at # "idle" => attempt >= 1
    /\ at \in {"reading", "clear"} => Untouched
    /\ at = "make" => Cleaned /\ manifest.by < attempt
    /\ at = "writing" =>
           /\ manifest = Absent
           /\ \A p \in Parts : output[p] = Absent \/ (p \in plan /\ output[p].by = attempt)
    /\ at = "sealing" => Complete
    /\ at \in {"undo", "unseal"} => result \in {"error", "cancelled"}
    /\ at = "unseal" => Cleaned

(* What is on disk when it ends *)
Outcome ==
    /\ at = "checking" => result \in {"ok", "error"}
    /\ at \in {"succeeded", "published"} \/ (at = "checking" /\ result = "ok") =>
           Complete /\ Sealed
    /\ (at = "failed" \/ (at = "checking" /\ result = "error")) /\ ~leftover => Untouched

ConversionInv == ConversionTypeOK /\ Progress /\ Outcome

(* No attempt was made at first. *)
LEMMA ConversionStarts == ConversionInit => ConversionInv
<1> SUFFICES ASSUME ConversionInit PROVE ConversionInv
  OBVIOUS
<1>1. Absent.by = 0
  BY DEF Absent
<1>2. ConversionTypeOK
  <2>1. 0 \in 0 .. MaxAttempts
    BY ConversionAssumption
  <2>2. output \in [Parts -> {Absent} \cup [by : Attempts, whole : BOOLEAN]]
    BY DEF ConversionInit
  <2>3. manifest \in {Absent} \cup [by : Attempts, whole : BOOLEAN, names : SUBSET Parts]
    BY DEF ConversionInit
  <2>. QED
    BY <2>1, <2>2, <2>3 DEF ConversionInit, ConversionTypeOK
<1>3. Progress
  BY <1>1 DEF ConversionInit, Progress
<1>4. Outcome
  BY DEF ConversionInit, Outcome
<1>. QED
  BY <1>2, <1>3, <1>4 DEF ConversionInv

(* Every call of Convert, its failures and a crash before or after it keep the
   invariant. *)
LEMMA ConversionKeeps ==
    ConversionInv /\ [ConversionNext]_conversionVars => ConversionInv'
<1> SUFFICES ASSUME ConversionInv, [ConversionNext]_conversionVars
             PROVE  ConversionInv'
  OBVIOUS
<1> USE ConversionAssumption DEF ConversionInv, ConversionTypeOK, Progress, Outcome, Absent,
        Untouched, OutputIsOlder, Cleaned, Complete, Sealed, Attempts, Goto
<1>1. CASE \E parts \in SUBSET Parts \ {{}} : StartAttempt(parts)
  <2>1. ConversionTypeOK'
    <3>1. attempt' \in 0 .. MaxAttempts
      BY <1>1 DEF StartAttempt
    <3>2. UNCHANGED <<kind, output, manifest>> /\ plan' \in SUBSET Parts
      BY <1>1 DEF StartAttempt
    <3>3. /\ at' \in {"clear", "reading"} /\ result' = "none"
          /\ cancelled' = FALSE /\ leftover' = FALSE
      BY <1>1 DEF StartAttempt
    <3>. QED
      BY <3>1, <3>2, <3>3
  <2>2. Progress'
    BY <1>1 DEF StartAttempt
  <2>3. Outcome'
    BY <1>1 DEF StartAttempt
  <2>. QED
    BY <2>1, <2>2, <2>3
<1>2. CASE ReadSource
  BY <1>2 DEF ReadSource
<1>3. CASE TextLimitError
  BY <1>3 DEF TextLimitError
<1>4. CASE ClearOutput
  BY <1>4 DEF ClearOutput, Cleared, Keep, Returns
<1>5. CASE MakeOutput
  BY <1>5 DEF MakeOutput, Returns
<1>6. CASE \E p \in Parts : StartPart(p)
  BY <1>6 DEF StartPart, WriteTo
<1>7. CASE \E p \in Parts : FinishPart(p)
  BY <1>7 DEF FinishPart, WriteTo
<1>8. CASE StartManifest
  BY <1>8 DEF StartManifest, WriteManifest
<1>9. CASE FinishManifest
  BY <1>9 DEF FinishManifest, WriteManifest, Returns
<1>10. CASE ConvertFails
  <2>1. ConversionTypeOK'
    <3>1. attempt \in 1 .. MaxAttempts /\ plan \in SUBSET Parts
      <4>1. at # "idle"
        BY <1>10 DEF ConvertFails
      <4>2. attempt \in 0 .. MaxAttempts /\ plan \in SUBSET Parts /\ attempt >= 1
        BY <4>1
      <4>. QED
        BY <4>2
    <3>2. manifest' \in {manifest, [by |-> attempt, whole |-> TRUE, names |-> plan]}
      BY <1>10 DEF ConvertFails, WriteManifest
    <3>3. manifest' \in {Absent}
            \cup [by : Attempts, whole : BOOLEAN, names : SUBSET Parts]
      <4>1. [by |-> attempt, whole |-> TRUE, names |-> plan]
              \in [by : Attempts, whole : BOOLEAN, names : SUBSET Parts]
        BY <3>1
      <4>. QED
        BY <3>2, <4>1
    <3>4. at' = "undo" /\ result' = "error"
      BY <1>10 DEF ConvertFails, Abandons
    <3>5. UNCHANGED <<kind, attempt, plan, cancelled, output, leftover>>
      BY <1>10 DEF ConvertFails, Abandons
    <3>. QED
      BY <3>3, <3>4, <3>5
  <2>2. Progress'
    BY <1>10 DEF ConvertFails, Abandons, WriteManifest
  <2>3. Outcome'
    BY <1>10 DEF ConvertFails, Abandons, WriteManifest
  <2>. QED
    BY <2>1, <2>2, <2>3
<1>11. CASE UndoOutput
  <2>1. ConversionTypeOK'
    BY <1>11 DEF UndoOutput, Cleared, Keep, Returns
  <2>2. Progress'
    BY <1>11 DEF UndoOutput, Cleared, Keep, Returns
  <2>3. Outcome'
    BY <1>11 DEF UndoOutput, Cleared, Keep, Returns
  <2>. QED
    BY <2>1, <2>2, <2>3
<1>12. CASE UndoManifest
  <2>1. ConversionTypeOK'
    BY <1>12 DEF UndoManifest, Returns
  <2>2. Progress'
    BY <1>12 DEF UndoManifest, Returns
  <2>3. Outcome'
    BY <1>12 DEF UndoManifest, Returns
  <2>. QED
    BY <2>1, <2>2, <2>3
<1>13. CASE CheckContext
  BY <1>13 DEF CheckContext
<1>14. CASE Publish
  BY <1>14 DEF Publish
<1>15. CASE Cancel
  BY <1>15 DEF Cancel
<1>16. CASE Crash
  BY <1>16 DEF Crash, Running
<1>17. CASE UNCHANGED conversionVars
  BY <1>17 DEF conversionVars
<1>. QED
  BY <1>1, <1>2, <1>3, <1>4, <1>5, <1>6, <1>7, <1>8, <1>9, <1>10, <1>11, <1>12, <1>13,
     <1>14, <1>15, <1>16, <1>17 DEF ConversionNext

(* What is published is whole and its attempt's own, after any sequence of
   crashed and half-removed attempts (withOutputDirectory, writeResult). *)
THEOREM PublishedIsWhole == ConversionSpec => []OutputMatchesManifest
<1>1. ConversionInv => OutputMatchesManifest
  <2> SUFFICES ASSUME ConversionInv, at \in {"succeeded", "published"}
               PROVE  /\ manifest = [by |-> attempt, whole |-> TRUE, names |-> OnDisk]
                      /\ \A p \in OnDisk : output[p] = [by |-> attempt, whole |-> TRUE]
    BY DEF OutputMatchesManifest
  <2>1. Complete /\ Sealed
    BY DEF ConversionInv, Outcome
  <2>2. OnDisk = plan
    BY <2>1 DEF ConversionInv, ConversionTypeOK, Complete, OnDisk, Absent
  <2>. QED
    BY <2>1, <2>2 DEF ConversionInv, ConversionTypeOK, Complete, Sealed, OnDisk
<1>. QED
  BY ConversionStarts, ConversionKeeps, <1>1, PTL DEF ConversionSpec

(* A failed attempt leaves nothing of its own, unless a removal failed (the
   deferred function of withOutputDirectory, the late context check). *)
THEOREM FailuresLeaveNothing == ConversionSpec => []FailureLeavesNothing
<1>1. ConversionInv => FailureLeavesNothing
  BY DEF ConversionInv, Outcome, Untouched, OutputIsOlder, FailureLeavesNothing,
         ConversionTypeOK, Attempts, Absent
<1>. QED
  BY ConversionStarts, ConversionKeeps, <1>1, PTL DEF ConversionSpec

-----------------------------------------------------------------------------
(* Downloads: they reach public addresses only, for any hosts, addresses, DNS
   answers and redirect limit. *)

(* What a step relies on: a URL past its validation is acceptable, and the
   addresses about to be dialed were all checked. *)
Vetted ==
    /\ fetch \in {"send", "resolve", "dial", "answer"} => url \in Urls /\ url.wellFormed
    /\ fetch = "dial" => untried \subseteq PublicAddresses

DownloadInv == DownloadTypeOK /\ Vetted /\ OnlyPublicFetches

(* A request is sent for a vetted URL only, within the redirect limit
   (client.Do in downloadPublicHTTPS). *)
LEMMA SendKeeps ==
    ASSUME DownloadInv, fetch \in {"send", "dial"}, NEW address \in Addresses,
           Send(address)
    PROVE  /\ fetch' = "answer" /\ peer' = {address}
           /\ requested' \in SUBSET [hop : 0 .. RedirectLimit, url : Urls]
           /\ \A r \in requested' : r.url.wellFormed /\ r.hop <= RedirectLimit
<1>1. url \in Urls /\ url.wellFormed
  BY DEF DownloadInv, Vetted
<1>2. redirects \in 0 .. RedirectLimit /\ redirects <= RedirectLimit
  BY DownloadAssumption DEF DownloadInv, DownloadTypeOK
<1>3. requested' = requested \cup {[hop |-> redirects, url |-> url]}
  BY DEF Send
<1>. QED
  BY <1>1, <1>2, <1>3 DEF Send, DownloadInv, DownloadTypeOK, OnlyPublicFetches

(* Downloads start with nothing dialed. *)
LEMMA DownloadStarts == DownloadInit => DownloadInv
BY DownloadAssumption
   DEF DownloadInit, DownloadInv, DownloadTypeOK, Vetted, OnlyPublicFetches

(* No step of a download, whatever DNS answers, breaks the invariant. *)
LEMMA DownloadKeeps == DownloadInv /\ [DownloadNext]_downloadVars => DownloadInv'
<1> SUFFICES ASSUME DownloadInv, [DownloadNext]_downloadVars
             PROVE  DownloadInv'
  OBVIOUS
<1> USE DownloadAssumption DEF DownloadInv, DownloadTypeOK, Vetted, OnlyPublicFetches
<1>1. CASE \E u \in Urls : StartFetch(u)
  BY <1>1 DEF StartFetch
<1>2. CASE \E u \in Urls : Redirect(u)
  <2>1. PICK u \in Urls : Redirect(u)
    BY <1>2
  <2>2. idleAt' \in [Hosts -> SUBSET Addresses]
        /\ \A h \in Hosts : idleAt'[h] \subseteq dialed
    BY <2>1 DEF Redirect, Recycle
  <2>3. redirects' \in 0 .. RedirectLimit
    BY <2>1 DEF Redirect, MayRedirect
  <2>. QED
    BY <2>1, <2>2, <2>3 DEF Redirect
<1>3. CASE \E answer \in SUBSET Addresses : Validate(answer)
  <2>1. ~NoUrl.wellFormed
    BY DEF NoUrl
  <2>. QED
    BY <1>3, <2>1 DEF Validate, EndFetch
<1>4. CASE \E answer \in SUBSET Addresses : Resolve(answer)
  BY <1>4 DEF Resolve, EndFetch, AllPublic
<1>5. CASE \E a \in Addresses : ReuseConnection(a)
  <2>1. PICK a \in Addresses : ReuseConnection(a)
    BY <1>5
  <2>2. url.host \in Hosts /\ a \in dialed
    BY <2>1 DEF ReuseConnection, Urls
  <2>3. idleAt' \in [Hosts -> SUBSET Addresses]
        /\ \A h \in Hosts : idleAt'[h] \subseteq dialed
    BY <2>1, <2>2 DEF ReuseConnection
  <2>. QED
    BY <2>1, <2>2, <2>3, SendKeeps DEF ReuseConnection
<1>6. CASE \E a \in Addresses : Dial(a)
  <2>1. PICK a \in Addresses : Dial(a)
    BY <1>6
  <2>2. a \in PublicAddresses /\ untried \subseteq PublicAddresses
    BY <2>1 DEF Dial
  <2>3. CASE Send(a) /\ untried' = {}
    <3>1. /\ fetch' = "answer" /\ peer' = {a}
          /\ requested' \in SUBSET [hop : 0 .. RedirectLimit, url : Urls]
          /\ \A r \in requested' : r.url.wellFormed /\ r.hop <= RedirectLimit
      <4>1. fetch = "dial"
        BY <2>1 DEF Dial
      <4>. QED
        BY <4>1, <2>3, SendKeeps
    <3>2. dialed' = dialed \cup {a} /\ UNCHANGED <<url, redirects, idleAt>>
      BY <2>1 DEF Dial
    <3>3. url \in Urls /\ url.wellFormed
      BY <2>1 DEF Dial
    <3>. QED
      BY <2>2, <2>3, <3>1, <3>2, <3>3
  <2>4. CASE /\ untried' = untried \ {a} /\ fetch' \in {"idle", "dial"}
             /\ UNCHANGED <<peer, requested>>
    <3>1. url \in Urls /\ url.wellFormed
      BY <2>1 DEF Dial
    <3>2. dialed' = dialed \cup {a} /\ UNCHANGED <<url, redirects, idleAt>>
      BY <2>1 DEF Dial
    <3>. QED
      BY <2>2, <2>4, <3>1, <3>2
  <2>. QED
    BY <2>1, <2>3, <2>4 DEF Dial, EndFetch
<1>7. CASE OpenConnection
  BY <1>7 DEF OpenConnection
<1>8. CASE ConnectionWasClosed
  BY <1>8 DEF ConnectionWasClosed
<1>9. CASE FinishFetch
  <2>1. idleAt' \in [Hosts -> SUBSET Addresses]
        /\ \A h \in Hosts : idleAt'[h] \subseteq dialed
    BY <1>9 DEF FinishFetch, Recycle
  <2>. QED
    BY <1>9, <2>1 DEF FinishFetch, EndFetch
<1>10. CASE UNCHANGED downloadVars
  BY <1>10 DEF downloadVars
<1>. QED
  BY <1>1, <1>2, <1>3, <1>4, <1>5, <1>6, <1>7, <1>8, <1>9, <1>10 DEF DownloadNext

(* A download only ever connects to public addresses and requests acceptable
   URLs, over any sequence of DNS answers (publicDialer, validatePublicHTTPS). *)
THEOREM PublicFetchesHold == DownloadSpec => []OnlyPublicFetches
<1>1. DownloadInv => OnlyPublicFetches
  BY DEF DownloadInv
<1>. QED
  BY DownloadStarts, DownloadKeeps, <1>1, PTL DEF DownloadSpec

-----------------------------------------------------------------------------
(* Merges: one is all or nothing, for any extensions, factories, spellings and
   order in which Go walks the map. *)

(* The keys that Merge has been through *)
Seen == DOMAIN in \ unseen

(* The copy is the registry and what has been registered in it, each key under
   an extension of its own that the registry has not. *)
CopyExtends ==
    /\ unseen \subseteq DOMAIN in
    /\ DOMAIN merged = DOMAIN before \cup {Lower[d] : d \in Seen}
    /\ \A e \in DOMAIN before : merged[e] = before[e]
    /\ \A d \in Seen : Lower[d] \notin DOMAIN before /\ merged[Lower[d]] = in[d]
    /\ \A d \in Seen, e \in Seen : Lower[d] = Lower[e] => d = e

RegistryInv ==
    /\ DOMAIN in \subseteq Extensions
    /\ merge \in {"merging", "refused"} => registry = before
    /\ merge = "merging" => CopyExtends
    /\ MergeIsAtomic

(* A round of the loop registers the key in the copy, or ends Merge with a reason
   that the registry and the argument give alone (Register). *)
LEMMA EntryKeeps ==
    ASSUME RegistryInv, NEW e \in Extensions, MergeEntry(e)
    PROVE  RegistryInv'
<1> USE DEF RegistryInv
<1>1. /\ merge = "merging" /\ e \in unseen /\ e \in DOMAIN in
      /\ CopyExtends /\ registry = before
      /\ UNCHANGED <<registry, in, before>>
  BY DEF MergeEntry, CopyOnly, CopyExtends
<1>2. CASE Registrable(merged, e, in[e])
  <2>1. /\ merged' = With(merged, Lower[e], in[e])
        /\ unseen' = unseen \ {e} /\ merge' = merge
    BY <1>2 DEF MergeEntry
  <2>2. Lower[e] \notin DOMAIN merged
    BY <1>2 DEF Registrable
  <2>3. /\ DOMAIN merged' = DOMAIN merged \cup {Lower[e]}
        /\ \A x \in DOMAIN merged : merged'[x] = merged[x]
        /\ merged'[Lower[e]] = in[e]
    BY <2>1, <2>2 DEF With
  <2>4. Seen' = Seen \cup {e} /\ unseen' \subseteq DOMAIN in'
    BY <1>1, <2>1 DEF Seen, CopyExtends
  <2>5. DOMAIN merged' = DOMAIN before \cup {Lower[d] : d \in Seen'}
    BY <1>1, <2>3, <2>4 DEF CopyExtends
  <2>6. \A d \in Seen : Lower[d] \in DOMAIN merged /\ Lower[d] # Lower[e]
    BY <1>1, <2>2 DEF CopyExtends
  <2>7. CopyExtends'
    BY <1>1, <2>2, <2>3, <2>4, <2>5, <2>6 DEF CopyExtends
  <2>. QED
    BY <1>1, <2>1, <2>7 DEF MergeIsAtomic
<1>3. CASE ~Registrable(merged, e, in[e])
  <2>1. merge' = "refused"
    BY <1>3 DEF MergeEntry
  <2>2. \/ ~Registrable(before, e, in[e])
        \/ \E d \in DOMAIN in \ {e} : Lower[d] = Lower[e]
    BY <1>1, <1>3 DEF Registrable, CopyExtends, Seen
  <2>3. \E d \in DOMAIN in' : \/ ~Registrable(before', d, in'[d])
                              \/ \E g \in DOMAIN in' \ {d} : Lower[g] = Lower[d]
    BY <1>1, <2>2
  <2>4. \A d \in Extensions : ResolveConverter(registry', d) = ResolveConverter(before', d)
    BY <1>1
  <2>. QED
    BY <1>1, <2>1, <2>3, <2>4 DEF MergeIsAtomic
<1>. QED
  BY <1>2, <1>3

(* The copy that Merge stores resolves what the argument adds, and all else as
   the registry did. *)
LEMMA EndKeeps ==
    ASSUME RegistryInv, EndMerge
    PROVE  RegistryInv'
<1> USE DEF RegistryInv
<1>1. /\ merge = "merging" /\ unseen = {} /\ merge' = "merged"
      /\ registry = before /\ CopyExtends
      /\ UNCHANGED <<in, unseen, merged, before>>
  BY DEF EndMerge
<1>2. Seen = DOMAIN in
  BY <1>1 DEF Seen
<1>3. /\ DOMAIN registry' = DOMAIN before \cup {Lower[d] : d \in DOMAIN in}
      /\ \A x \in DOMAIN merged : registry'[x] = merged[x]
  <2>1. /\ DOMAIN registry' = DOMAIN merged \cup DOMAIN registry
        /\ \A x \in DOMAIN merged : registry'[x] = merged[x]
    BY DEF EndMerge
  <2>. QED
    BY <1>1, <1>2, <2>1 DEF CopyExtends
<1>4. ASSUME NEW e \in Extensions
      PROVE  LET same == {d \in DOMAIN in' : Lower[d] = Lower[e]} IN
             IF same = {}
             THEN ResolveConverter(registry', e) = ResolveConverter(before', e)
             ELSE /\ Lower[e] \notin DOMAIN before'
                  /\ \A d \in same : ResolveConverter(registry', e) = in'[d]
  <2>1. ASSUME ~ \E d \in DOMAIN in : Lower[d] = Lower[e]
        PROVE  ResolveConverter(registry', e) = ResolveConverter(before, e)
    <3>1. Lower[e] \in DOMAIN registry' <=> Lower[e] \in DOMAIN before
      BY <1>3, <2>1
    <3>2. Lower[e] \in DOMAIN before => registry'[Lower[e]] = before[Lower[e]]
      BY <1>1, <1>3 DEF CopyExtends
    <3>. QED
      BY <3>1, <3>2 DEF ResolveConverter
  <2>2. ASSUME NEW d \in DOMAIN in, Lower[d] = Lower[e]
        PROVE  /\ Lower[e] \notin DOMAIN before
               /\ ResolveConverter(registry', e) = in[d]
    <3>1. /\ Lower[e] \in DOMAIN merged /\ Lower[e] \notin DOMAIN before
          /\ merged[Lower[e]] = in[d]
      BY <1>1, <1>2, <2>2 DEF CopyExtends
    <3>. QED
      BY <1>3, <2>2, <3>1 DEF ResolveConverter
  <2>. QED
    BY <1>1, <2>1, <2>2
<1>5. MergeIsAtomic'
  BY <1>1, <1>4 DEF MergeIsAtomic
<1>. QED
  BY <1>1, <1>5

(* No Merge was made at first. *)
LEMMA RegistryStarts == RegistryInit => RegistryInv
BY DEF RegistryInit, RegistryInv, MergeIsAtomic, Empty

(* Every call of Register, Unregister and Merge keeps the invariant. *)
LEMMA RegistryKeeps == RegistryInv /\ [RegistryNext]_registryVars => RegistryInv'
<1> SUFFICES ASSUME RegistryInv, [RegistryNext]_registryVars PROVE RegistryInv'
  OBVIOUS
<1>1. ASSUME NEW e \in Extensions, NEW factory \in Factories \cup {Nil},
             Register(e, factory)
      PROVE  RegistryInv'
  BY <1>1 DEF Register, RegistryInv, MergeIsAtomic
<1>2. ASSUME NEW e \in Extensions, Unregister(e)
      PROVE  RegistryInv'
  BY <1>2 DEF Unregister, RegistryInv, MergeIsAtomic
<1>3. ASSUME NEW table \in Tables, StartMerge(table)
      PROVE  RegistryInv'
  <2>1. DOMAIN table \subseteq Extensions
    BY DEF Tables
  <2>2. Seen' = {}
    BY <1>3 DEF StartMerge, Seen
  <2>3. CopyExtends'
    BY <1>3, <2>2 DEF StartMerge, CopyExtends
  <2>. QED
    BY <1>3, <2>1, <2>3 DEF StartMerge, RegistryInv, MergeIsAtomic
<1>4. CASE UNCHANGED registryVars
  BY <1>4 DEF registryVars, RegistryInv, CopyExtends, Seen, MergeIsAtomic,
              ResolveConverter, Registrable
<1>. QED
  BY <1>1, <1>2, <1>3, <1>4, EntryKeeps, EndKeeps DEF RegistryNext

(* A merge that is refused changes nothing and has a reason, and one that is not
   adds all it was given and takes nothing away (Registry.Merge). *)
THEOREM MergesAreAtomic == RegistrySpec => []MergeIsAtomic
<1>1. RegistryInv => MergeIsAtomic
  BY DEF RegistryInv
<1>. QED
  BY RegistryStarts, RegistryKeeps, <1>1, PTL DEF RegistrySpec
==============================================================================
