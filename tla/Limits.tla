------------------------------- MODULE Limits -------------------------------
(***************************************************************************)
(* The limits on sizes and on retention: how config.Load computes them and *)
(* how an upload (createFile, Service.Create) and an inline file           *)
(* (handleInference, downloadPublicHTTPS, prepareDocument) are held        *)
(* against them, in the two's complement arithmetic of int64 at a smaller  *)
(* width.                                                                  *)
(***************************************************************************)
EXTENDS Integers

CONSTANTS
    MaxInt,         \* the largest int64, a power of 2 less 1
    Second,         \* time.Second, in the units of time.Duration
    FormAllowance,  \* 1<<20, the multipart allowance of uploadBodyLimit
    Now,            \* created_at of an upload
    Unset,          \* a variable or a form field that is not given
    Settings,       \* the numbers that MAX_FILE_BYTES and the others may be set to
    FormSizes,      \* the sizes of a form without its file
    BodyRests,      \* what the body of an inference request has beside a file's data
    FileSizes,      \* the sizes of files
    AskedSeconds    \* the numbers in expires_after, also some beyond MaxInt

ASSUME LimitsAssumption ==
    /\ MaxInt \in Nat /\ FormAllowance \in 0 .. MaxInt
    /\ Second \in Nat /\ Second > 1
    /\ Settings \subseteq -(MaxInt + 1) .. MaxInt /\ AskedSeconds \subseteq Int
    /\ Unset \notin Int
    /\ FormSizes \subseteq 0 .. FormAllowance
    /\ BodyRests \subseteq Nat
    /\ FileSizes \subseteq 0 .. MaxInt

VARIABLES
    set,            \* FILE_TTL_SECONDS and MAX_REQUEST_BODY_BYTES as they were set
    maxFileBytes,   \* Config.MaxFileBytes
    maxBodyBytes,   \* Config.MaxRequestBodyBytes
    fileTTL,        \* Config.FileTTL
    sent,           \* the file: its size, the bytes sent beside it, and the
                    \* seconds asked for or Unset
    answer,         \* what became of it
    kept,           \* the bytes that were kept
    expiresAt       \* expires_at

limitsVars ==
    <<set, maxFileBytes, maxBodyBytes, fileTTL, sent, answer, kept, expiresAt>>

NothingSet == [ttl |-> 0, body |-> Unset]
NothingSent == [size |-> 0, rest |-> 0, asked |-> Unset]

LimitsInit ==
    /\ set = NothingSet
    /\ maxFileBytes = 0
    /\ maxBodyBytes = 0
    /\ fileTTL = 0
    /\ sent = NothingSent
    /\ answer = "unloaded"
    /\ kept = 0
    /\ expiresAt = 0

(* The value of n in an int64, and the conversion of seconds to a Duration *)
Wrap(n) == ((n + MaxInt + 1) % (2 * (MaxInt + 1))) - (MaxInt + 1)
Duration(seconds) == Wrap(seconds * Second)

(* The whole seconds of a Duration: Go rounds towards zero. *)
InSeconds(d) == IF d >= 0 THEN d \div Second ELSE -((-d) \div Second)

----------------------------------------------------------------------------
(* config.Load *)

(* The default of MAX_REQUEST_BODY_BYTES is four files, and it is checked as if
   it had been set. *)
BodyLimit(file, body) == IF body = Unset THEN Wrap(4 * file) ELSE body

Load(file, body, ttl) ==
    /\ answer = "unloaded"
    /\ set' = [ttl |-> ttl, body |-> body]
    /\ IF ttl < 0 \/ file < 0 \/ BodyLimit(file, body) < 0
       THEN /\ answer' = "refused to start"
            /\ UNCHANGED <<maxFileBytes, maxBodyBytes, fileTTL>>
       ELSE /\ answer' = "loaded"
            /\ maxFileBytes' = file
            /\ maxBodyBytes' = BodyLimit(file, body)
            /\ fileTTL' = Duration(ttl)
    /\ UNCHANGED <<sent, kept, expiresAt>>

----------------------------------------------------------------------------
(* Sizes *)

(* Faulty variants for mutation runs. *)
ReadToLimit(size) == IF maxFileBytes > 0 /\ size > maxFileBytes THEN maxFileBytes ELSE size
AnyRetention(seconds) == seconds >= 1

(* uploadBodyLimit.  The callers take any limit that is not positive for none. *)
UploadBodyLimit == IF maxFileBytes <= 0 THEN 0 ELSE Wrap(maxFileBytes + FormAllowance)

(* What is read of a file: all of it if there is no limit, else one byte more
   than the limit.  LimitReader reads nothing when its bound is not positive. *)
BytesRead(size) ==
    LET most == Wrap(maxFileBytes + 1) IN
    IF maxFileBytes > 0 /\ size > most
    THEN IF most > 0 THEN most ELSE 0
    ELSE size

TooLarge(bytes) == maxFileBytes > 0 /\ bytes > maxFileBytes

----------------------------------------------------------------------------
(* Retention *)

(* The seconds of expires_after.  A number that does not fit fails the JSON
   form, which leaves 0, and saturates in the other form. *)
Parsed(form, n) == IF n <= MaxInt THEN n ELSE IF form = "field" THEN MaxInt ELSE 0

(* createFile accepts seconds of expires_after. *)
Retainable(seconds) ==
    /\ seconds >= 1
    /\ InSeconds(fileTTL) > 0 => seconds <= InSeconds(fileTTL)

(* Service.Create *)
Expiry(ttl) == IF ttl <= 0 THEN 0 ELSE Now + InSeconds(ttl)

----------------------------------------------------------------------------
(* An upload: createFile, then Create *)

FormFits(size) == UploadBodyLimit > 0 => size <= UploadBodyLimit

Upload(size, rest, form, n) ==
    LET seconds == IF n = Unset THEN Unset ELSE Parsed(form, n)
        ttl == IF n = Unset THEN fileTTL ELSE Duration(seconds)
        refusal == IF ~FormFits(size + rest) THEN "too large"
                   ELSE IF n # Unset /\ ~Retainable(seconds)
                   THEN "invalid_expires_after"
                   ELSE IF TooLarge(BytesRead(size)) THEN "too large" ELSE "none"
    IN  /\ answer = "loaded"
        /\ sent' = [size |-> size, rest |-> rest, asked |-> n]
        /\ IF refusal # "none"
           THEN answer' = refusal /\ UNCHANGED <<kept, expiresAt>>
           ELSE /\ answer' = "stored"
                /\ kept' = BytesRead(size)
                /\ expiresAt' = Expiry(ttl)
        /\ UNCHANGED <<set, maxFileBytes, maxBodyBytes, fileTTL>>

(* An inference request with one file: handleInference, then prepareDocument *)

Sources == {"file_data", "file_url"}

(* The body: a file_data is in it, in base64. *)
BodySize(source, size, rest) ==
    IF source = "file_data" THEN rest + 4 * ((size + 2) \div 3) ELSE rest

(* http.MaxBytesReader on the body, where there is a limit *)
BodyTooLarge(bytes) == maxBodyBytes > 0 /\ bytes > maxBodyBytes

(* What prepareDocument has of the file: a file_data is decoded as a whole, a
   file_url is read like an upload. *)
Content(source, size) == IF source = "file_data" THEN size ELSE BytesRead(size)

PrepareInline(source, size, rest) ==
    LET refusal == IF BodyTooLarge(BodySize(source, size, rest)) THEN "body too large"
                   ELSE IF TooLarge(Content(source, size)) THEN "too large"
                   ELSE "none"
    IN  /\ answer = "loaded"
        /\ sent' = [size |-> size, rest |-> rest, asked |-> Unset]
        /\ IF refusal # "none"
           THEN answer' = refusal /\ UNCHANGED kept
           ELSE answer' = "inlined" /\ kept' = Content(source, size)
        /\ UNCHANGED <<set, maxFileBytes, maxBodyBytes, fileTTL, expiresAt>>

LimitsNext ==
    \/ \E file \in Settings, body \in Settings \cup {Unset}, ttl \in Settings :
           Load(file, body, ttl)
    \/ \E size \in FileSizes :
        \/ \E rest \in FormSizes, form \in {"json", "field"},
              n \in AskedSeconds \cup {Unset} : Upload(size, rest, form, n)
        \/ \E source \in Sources, rest \in BodyRests :
              PrepareInline(source, size, rest)

LimitsSpec == LimitsInit /\ [][LimitsNext]_limitsVars

----------------------------------------------------------------------------
(* Properties *)

(* A file above MAX_FILE_BYTES is let in by nobody, none within it is turned
   away for its own size, and a file that is let in is kept to its last byte,
   whatever sum wraps (server.go:146-148).  MAX_FILE_BYTES = MaxInt is the
   exception: the bound of the reader wraps, and nothing is read.
   The default limit of a request's body "can carry several inline files (each
   within MAX_FILE_BYTES) plus their base64 expansion and JSON overhead"
   (config.go:82-85): a file within the limit and twice the limit beside it, room
   for a second one.  This does not hold where 4*maxFileBytes wraps, when the
   body limit may be far below one file, and for a limit of one byte; a limit
   that was set refuses what it says. *)
AcceptedWhole ==
    maxFileBytes # MaxInt =>
        /\ answer \in {"stored", "inlined"} =>
               /\ maxFileBytes > 0 => sent.size <= maxFileBytes
               /\ kept = sent.size
        /\ answer = "too large" => maxFileBytes > 0 /\ sent.size > maxFileBytes
        /\ /\ answer = "body too large" /\ set.body = Unset
           /\ 4 * maxFileBytes <= MaxInt /\ maxFileBytes > 1
           => sent.size > maxFileBytes \/ sent.rest > 2 * maxFileBytes

(* If FILE_TTL_SECONDS fits a Duration, a file is kept as long as expires_after
   asks, never longer than FILE_TTL_SECONDS, and for FILE_TTL_SECONDS if nothing
   is asked (DESIGN.md:377-378).  Without a limit, FILE_TTL_SECONDS = 0, this is
   said of seconds that fit a Duration only. *)
RetentionAsAsked ==
    answer = "stored" /\ set.ttl * Second <= MaxInt =>
        IF sent.asked = Unset
        THEN expiresAt = IF set.ttl = 0 THEN 0 ELSE Now + set.ttl
        ELSE set.ttl > 0 \/ sent.asked * Second <= MaxInt =>
               /\ expiresAt = Now + sent.asked
               /\ set.ttl > 0 => sent.asked <= set.ttl
=============================================================================
