------------------------------ MODULE Download ------------------------------
(***************************************************************************)
(* The download of a file_url (src/internal/server/file_url.go): the URL   *)
(* and every redirect are validated by one DNS lookup, the connection is   *)
(* made after another one, and DNS may answer differently each time.       *)
(* Downloads share one http.Transport, whose idle connections the next     *)
(* request to a host may use instead of dialing.                           *)
(***************************************************************************)
EXTENDS Naturals

CONSTANTS
    Hosts,          \* the host names in URLs
    Addresses,      \* the IP addresses DNS may answer with
    PublicAddresses,\* those isPublicIP accepts
    RedirectLimit   \* the redirects that are followed, 4 in the code

ASSUME DownloadAssumption ==
    /\ PublicAddresses \subseteq Addresses
    /\ RedirectLimit \in Nat

(* A URL is the host, and whether the rest of it is acceptable: https, no user
   info, port 443 or none *)
Urls == [host : Hosts, wellFormed : BOOLEAN]

NoUrl == [host |-> "", wellFormed |-> FALSE]

VARIABLES
    fetch,          \* where the download is
    url,            \* current in downloadPublicHTTPS
    redirects,      \* its counter
    untried,        \* the validated addresses the dialer has not tried
    idleAt,         \* hosts -> the addresses the transport has idle connections to
    peer,           \* the addresses of the connection of the request: one or none
    dialed,         \* every address a connection was tried to
    requested       \* every request of this download: which hop, and the URL

downloadVars ==
    <<fetch, url, redirects, untried, idleAt, peer, dialed, requested>>

DownloadTypeOK ==
    /\ fetch \in {"idle", "validate", "send", "resolve", "dial", "answer"}
    /\ url \in Urls \cup {NoUrl}
    /\ redirects \in 0 .. RedirectLimit
    /\ untried \in SUBSET Addresses
    /\ idleAt \in [Hosts -> SUBSET Addresses]
    /\ peer \in SUBSET Addresses
    /\ dialed \in SUBSET Addresses
    /\ requested \in SUBSET [hop : 0 .. RedirectLimit, url : Urls]

DownloadInit ==
    /\ fetch = "idle"
    /\ url = NoUrl
    /\ redirects = 0
    /\ untried = {}
    /\ idleAt = [h \in Hosts |-> {}]
    /\ peer = {}
    /\ dialed = {}
    /\ requested = {}

(* Faulty variants for mutation runs. *)
AnyIsPublic(answer) == answer \cap PublicAddresses # {}

(* Every address of a DNS answer is checked, and no answer is an error. *)
AllPublic(answer) == answer # {} /\ answer \subseteq PublicAddresses

(* if redirects >= 4 is the refusal *)
MayRedirect == redirects < RedirectLimit

(* The download ends, with content or with an error. *)
EndFetch == fetch' = "idle"

StartFetch(u) ==
    /\ fetch = "idle"
    /\ fetch' = "validate"
    /\ url' = u
    /\ redirects' = 0
    /\ requested' = {}
    /\ peer' = {}
    /\ UNCHANGED <<untried, idleAt, dialed>>

(* validatePublicHTTPS: its lookup, and what the answer is checked for *)
Validate(answer) ==
    /\ fetch = "validate"
    /\ IF url.wellFormed /\ AllPublic(answer) THEN fetch' = "send" ELSE EndFetch
    /\ UNCHANGED <<url, redirects, untried, idleAt, peer, dialed, requested>>

Send(address) ==
    /\ fetch' = "answer"
    /\ peer' = {address}
    /\ requested' = requested \cup {[hop |-> redirects, url |-> url]}

(* client.Do over an idle connection to the host *)
ReuseConnection(address) ==
    /\ fetch = "send"
    /\ address \in idleAt[url.host]
    /\ Send(address)
    /\ idleAt' = [idleAt EXCEPT ![url.host] = @ \ {address}]
    /\ UNCHANGED <<url, redirects, untried, dialed>>

(* client.Do with a new connection: DialContext looks the host up again. *)
OpenConnection ==
    /\ fetch = "send"
    /\ fetch' = "resolve"
    /\ UNCHANGED <<url, redirects, untried, idleAt, peer, dialed, requested>>

Resolve(answer) ==
    /\ fetch = "resolve"
    /\ IF AllPublic(answer)
       THEN fetch' = "dial" /\ untried' = answer
       ELSE EndFetch /\ UNCHANGED untried
    /\ UNCHANGED <<url, redirects, idleAt, peer, dialed, requested>>

(* The addresses are dialed one by one until one answers. *)
Dial(address) ==
    /\ fetch = "dial"
    /\ address \in untried
    /\ dialed' = dialed \cup {address}
    /\ \/ Send(address) /\ untried' = {}
       \/ /\ untried' = untried \ {address}
          /\ IF untried' = {} THEN EndFetch ELSE UNCHANGED fetch
          /\ UNCHANGED <<peer, requested>>
    /\ UNCHANGED <<url, redirects, idleAt>>

(* The body was read to its end, and the transport keeps the connection. *)
Recycle == idleAt' \in {idleAt, [idleAt EXCEPT ![url.host] = @ \cup peer]}

(* The transport sends a request again when the idle connection it took turns
   out to be closed. *)
ConnectionWasClosed ==
    /\ fetch = "answer"
    /\ fetch' = "send"
    /\ UNCHANGED <<url, redirects, untried, idleAt, peer, dialed, requested>>

Redirect(u) ==
    /\ fetch = "answer"
    /\ MayRedirect
    /\ fetch' = "validate"
    /\ url' = u
    /\ redirects' = redirects + 1
    /\ Recycle
    /\ UNCHANGED <<untried, peer, dialed, requested>>

(* 200 and the content, another status, one redirect too many, or the context *)
FinishFetch ==
    /\ fetch \in {"send", "resolve", "dial", "answer"}
    /\ EndFetch
    /\ IF fetch = "answer" THEN Recycle ELSE UNCHANGED idleAt
    /\ UNCHANGED <<url, redirects, untried, peer, dialed, requested>>

DownloadNext ==
    \/ \E u \in Urls : StartFetch(u) \/ Redirect(u)
    \/ \E answer \in SUBSET Addresses : Validate(answer) \/ Resolve(answer)
    \/ \E a \in Addresses : ReuseConnection(a) \/ Dial(a)
    \/ OpenConnection \/ ConnectionWasClosed \/ FinishFetch

DownloadSpec == DownloadInit /\ [][DownloadNext]_downloadVars

----------------------------------------------------------------------------
(* Properties *)

(* Whatever DNS answers between the validation of a URL and the connection, a
   connection is only ever tried to a public address, and the one a request
   uses is among those, be it new or idle (file_url.go:27-31).  Every request of
   a download is for an acceptable URL, redirects included, and there are at
   most RedirectLimit of these (file_url.go:132-134). *)
OnlyPublicFetches ==
    /\ dialed \subseteq PublicAddresses
    /\ peer \subseteq dialed
    /\ \A h \in Hosts : idleAt[h] \subseteq dialed
    /\ \A r \in requested : r.url.wellFormed /\ r.hop <= RedirectLimit
=============================================================================
