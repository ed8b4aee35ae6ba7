---------------------------- MODULE ObjectClients ---------------------------
(***************************************************************************)
(* The clients of the object stores below a workspace: S3Backend,          *)
(* CosBackend, ObsBackend and OssBackend with what they share              *)
(* (backends/cloud_storage_base.py), and the probe of a new backend        *)
(* (backends/probe.py, backends/storage_errors.py).  What an operation on  *)
(* files makes of the objects is in ObjectStore.                           *)
(*                                                                         *)
(* A listing asks for page after page while others put and delete objects. *)
(* A key is the sequence of its names, a marker ends in an empty name; the *)
(* place of a key is its place in KeyOrder, the order of the store.  An    *)
(* action is one request.  The stores and their SDKs are not part of the   *)
(* repository: a truncated page may come without the marker of the next    *)
(* one, and a store takes one signature, or the other, or both.            *)
(***************************************************************************)
EXTENDS Naturals, Sequences, SequencesExt, FiniteSets, FiniteSetsExt

CONSTANTS
    KeyOrder,     \* all keys there may be, in the order of the store
    FirstKeys,    \* sets of keys there may be at first
    BodiesDrawn,  \* what others put: [bytes, envelope]
    ListPageSize,     \* MaxKeys
    StoresDrawn,  \* stores: what they take, what they do not implement, do they name the next marker
    MaxStrangers  \* bound on what others do

ASSUME ClientsAssumption == ListPageSize \in Nat \ {0} /\ MaxStrangers \in Nat /\ IsInjective(KeyOrder)

VARIABLES
    vendor, bucketStore, \* the kind of backend, and the store
    blobs,     \* the objects: contents, and are they in an envelope?
    client,    \* signature of the client of S3Backend
    listing,   \* the operation that lists
    strangers, \* what others have done
    steady, seen, \* history: objects there ever since the listing began; and at any time since
    skipped, pageCut, \* history: objects that could not be read; a page left out where the next one is
    got,       \* history: an object has been asked for
    probe      \* where the probe is, its object, and its answer

clientVars == <<vendor, bucketStore, blobs, client, listing, strangers, steady, seen, skipped, pageCut, got, probe>>

Vendors == {"s3", "cos", "obs", "oss"}
Signatures == {"s3v4", "s3"}
ConfiguredSignature == "s3v4"
Bytes == {"text", "binary", "lookalike"} \* a lookalike is JSON with the fields of an envelope
NoToken == 0
Place(k) == CHOOSE i \in DOMAIN KeyOrder : KeyOrder[i] = k
KeysAt(S) == {KeyOrder[i] : i \in S}
IsMarker(k) == Last(k) = ""
NoListing == [at |-> "idle", op |-> "ls", path |-> <<>>, token |-> NoToken, todo |-> {}, more |-> FALSE, found |-> {}]
NoProbe == [at |-> "new", cause |-> "none", answer |-> "none", key |-> "none", left |-> FALSE, stage |-> "none"]

ClientsInit ==
    /\ vendor \in Vendors /\ bucketStore \in StoresDrawn
    /\ \E S \in FirstKeys : blobs = [k \in S |-> [bytes |-> "text", envelope |-> ~IsMarker(k)]]
    /\ client = ConfiguredSignature /\ listing = NoListing /\ strangers = 0
    /\ steady = {} /\ seen = {} /\ skipped = {} /\ pageCut = FALSE /\ got = FALSE
    /\ probe = NoProbe

-----------------------------------------------------------------------------
(* Bodies *)

\* Variant with a fault: whatever can not be decoded is replaced.
OfBytesReplaced(b) == [encoding |-> "utf-8", content |-> IF b = "binary" THEN "replaced" ELSE b]

\* _bytes_to_file_data()
OfBytes(b) == [encoding |-> IF b = "binary" THEN "base64" ELSE "utf-8", content |-> b]

\* _parse_body()
ParseBody(o) ==
    IF o.envelope THEN OfBytes(o.bytes)
    ELSE IF o.bytes = "lookalike" THEN [encoding |-> "utf-8", content |-> "inner"]
    ELSE OfBytes(o.bytes)

\* _file_data_to_bytes()
BytesOf(fd) == fd.content

\* download_files()
Downloaded(k) == IF k \in DOMAIN blobs THEN BytesOf(ParseBody(blobs[k])) ELSE "file_not_found"

-----------------------------------------------------------------------------
(* Signatures *)

Alternate == IF ConfiguredSignature = "s3v4" THEN "s3" ELSE "s3v4"

StoreAnswer(request, signature) ==
    IF request \in bucketStore.missing THEN "not implemented"
    ELSE IF signature \in bucketStore.takes[IF request = "object" THEN "object" ELSE "list"] THEN "ok"
    ELSE "mismatch"

\* _list_with_client()
ListVia(signature) ==
    LET two == StoreAnswer("v2", signature)
        one == StoreAnswer("v1", signature)
    IN IF two = "ok" THEN "v2" ELSE IF one = "ok" THEN "v1"
       ELSE IF "mismatch" \in {two, one} THEN "other" ELSE "refused"

ListedBy ==
    LET first  == ListVia(client)
        second == ListVia(Alternate)
    IN IF first # "other" THEN [api |-> first, client |-> client]
       ELSE IF second \in {"v1", "v2"} THEN [api |-> second, client |-> Alternate]
       ELSE [api |-> "refused", client |-> client]

\* Variant with a fault: the client that was served is not kept.
GotOnce ==
    IF \E s \in {client, Alternate} : StoreAnswer("object", s) = "ok" THEN [ok |-> TRUE, client |-> client]
    ELSE [ok |-> FALSE, client |-> client]

\* _get_object_bytes()
Got ==
    IF StoreAnswer("object", client) = "ok" THEN [ok |-> TRUE, client |-> client]
    ELSE IF StoreAnswer("object", Alternate) = "ok" THEN [ok |-> TRUE, client |-> Alternate]
    ELSE [ok |-> FALSE, client |-> client]

\* Some other operation lists, or asks for an object.
Elsewhere ==
    /\ vendor = "s3" /\ listing.at = "idle"
    /\ \/ client' = ListedBy.client /\ UNCHANGED got
       \/ client' = Got.client /\ got' = TRUE
    /\ UNCHANGED <<vendor, bucketStore, blobs, listing, strangers, steady, seen, skipped, pageCut, probe>>

-----------------------------------------------------------------------------
(* Pages *)

Beneath(path) == {k \in DOMAIN blobs : IsStrictPrefix(path, k)}

\* What a key adds to a listing of one level: itself, or the directory it is in.
LevelEntry(path, k) == [path |-> SubSeq(k, 1, Len(path) + 1), dir |-> Len(k) > Len(path) + 1]

\* The place of the last key that counts for the same entry.
UnitPlace(op, path, k) ==
    IF op # "ls" \/ ~LevelEntry(path, k).dir THEN Place(k)
    ELSE Max({i \in DOMAIN KeyOrder : IsPrefix(LevelEntry(path, k).path, KeyOrder[i])
        /\ KeyOrder[i] # LevelEntry(path, k).path})

\* The next page: the keys that count, the places of its entries, and are there more?
NextPage(op, path, token) ==
    LET after == {k \in Beneath(path) : Place(k) > token}
        units == {UnitPlace(op, path, k) : k \in after}
        first == {u \in units : Cardinality({v \in units : v <= u}) <= ListPageSize}
    IN [keys |-> {k \in after : UnitPlace(op, path, k) \in first}, units |-> first, more |-> first # units]

\* The keys of a page that are named by themselves.
NamedKeys(op, path, page) == {Place(k) : k \in {x \in page.keys : op # "ls" \/ ~LevelEntry(path, x).dir}}

\* Variant with a fault: without a marker a listing by v1 ends.
S3TokenGiven(op, path, page) ==
    IF ListedBy.api = "v2" \/ bucketStore.marks THEN Max(page.units) ELSE NoToken

\* _list_v1_kwargs(), _normalize_list_v1()
S3Token(op, path, page) ==
    IF ListedBy.api = "v2" \/ bucketStore.marks THEN Max(page.units)
    ELSE IF NamedKeys(op, path, page) = {} THEN NoToken ELSE Max(NamedKeys(op, path, page))

MarkerToken(op, path, page) == IF bucketStore.marks THEN Max(page.units) ELSE NoToken
IteratorToken(op, path, page) == Max(page.units)

\* The store names no place to go on from, and nothing else does.
PlaceLost(op, path, page) ==
    /\ page.more /\ ~bucketStore.marks
    /\ \/ vendor \in {"cos", "obs"}
       \/ vendor = "s3" /\ ListedBy.api = "v1" /\ NamedKeys(op, path, page) = {}

\* Variant with a fault: the first entry of a name is kept.
FirstEntries(path, entries) ==
    {e \in entries : e.path # path /\ Last(e.path) # "" /\ (e.dir => [e EXCEPT !.dir = FALSE] \notin entries)}

\* _finalize_ls_entries()
Finalized(path, entries) ==
    {e \in entries : e.path # path /\ Last(e.path) # "" /\ (~e.dir => [e EXCEPT !.dir = TRUE] \notin entries)}

Snapshot == {<<k, blobs[k]>> : k \in DOMAIN blobs}

BeginListing ==
    /\ listing.at = "idle"
    /\ \E op \in {"ls", "glob", "prune"}, path \in {Front(k) : k \in Range(KeyOrder)} :
          listing' = [NoListing EXCEPT !.at = "page", !.op = op, !.path = path]
    /\ steady' = Snapshot /\ seen' = Snapshot
    /\ UNCHANGED <<vendor, bucketStore, blobs, client, strangers, skipped, pageCut, got, probe>>

\* What is done with the keys of a page: read each, delete each, or list them.
AfterPage(op) == CASE op = "ls" -> "page" [] op = "glob" -> "read" [] OTHER -> "drop"

Proceed(l) == IF l.todo # {} THEN l ELSE [l EXCEPT !.at = IF l.more THEN "page" ELSE "done"]

\* A request for a page.
ListPage(op, Token(_, _, _)) ==
    LET path == listing.path
        page == NextPage(op, path, listing.token)
        to   == Token(op, path, page)
        todo == CASE op = "ls" -> {} [] op = "glob" -> {k \in page.keys : ~IsMarker(k)} [] OTHER -> page.keys
    IN /\ listing.at = "page" /\ listing.op = op
       /\ vendor = "s3" => ListedBy.api # "refused"
       /\ listing' = Proceed([listing EXCEPT
             !.at = AfterPage(op), !.todo = todo,
             !.more = page.more /\ to # NoToken,
             !.token = IF page.more THEN to ELSE @,
             !.found = IF op = "ls" THEN @ \cup {LevelEntry(path, k) : k \in page.keys} ELSE @])
       /\ pageCut' = (pageCut \/ PlaceLost(op, path, page))
       /\ client' = IF vendor = "s3" THEN ListedBy.client ELSE client
       /\ UNCHANGED <<vendor, bucketStore, blobs, strangers, steady, seen, skipped, got, probe>>

NextKey == CHOOSE k \in listing.todo : \A j \in listing.todo : Place(k) <= Place(j)

\* The object of a key is read; one that cannot be is passed over.
ReadObject ==
    /\ listing.at = "read"
    /\ \/ /\ skipped' = skipped
          /\ listing' = Proceed([listing EXCEPT !.todo = @ \ {NextKey},
                !.found = IF NextKey \in DOMAIN blobs THEN @ \cup {<<NextKey, blobs[NextKey]>>} ELSE @])
       \/ /\ skipped' = skipped \cup {NextKey}
          /\ listing' = Proceed([listing EXCEPT !.todo = @ \ {NextKey}])
    /\ UNCHANGED <<vendor, bucketStore, blobs, client, strangers, steady, seen, pageCut, got, probe>>

\* The object of a key is deleted.
DropKey ==
    /\ listing.at = "drop"
    /\ blobs' = [k \in DOMAIN blobs \ {NextKey} |-> blobs[k]]
    /\ listing' = Proceed([listing EXCEPT !.todo = @ \ {NextKey}])
    /\ steady' = {s \in steady : s[1] # NextKey}
    /\ UNCHANGED <<vendor, bucketStore, client, strangers, seen, skipped, pageCut, got, probe>>

LsS3  == vendor = "s3"  /\ ListPage("ls", S3Token)
LsCos == vendor = "cos" /\ ListPage("ls", MarkerToken)
LsObs == vendor = "obs" /\ ListPage("ls", MarkerToken)
LsOss == vendor = "oss" /\ ListPage("ls", IteratorToken)

CollectS3  == vendor = "s3"  /\ (ListPage("glob", S3Token)       \/ ReadObject)
CollectCos == vendor = "cos" /\ (ListPage("glob", MarkerToken)   \/ ReadObject)
CollectObs == vendor = "obs" /\ (ListPage("glob", MarkerToken)   \/ ReadObject)
CollectOss == vendor = "oss" /\ (ListPage("glob", IteratorToken) \/ ReadObject)

KeysS3  == vendor = "s3"  /\ ListPage("prune", S3Token)
KeysCos == vendor = "cos" /\ ListPage("prune", MarkerToken)
KeysObs == vendor = "obs" /\ ListPage("prune", MarkerToken)
KeysOss == vendor = "oss" /\ ListPage("prune", IteratorToken)

PruneS3  == KeysS3  \/ (vendor = "s3"  /\ DropKey)
PruneCos == KeysCos \/ (vendor = "cos" /\ DropKey)
PruneObs == KeysObs \/ (vendor = "obs" /\ DropKey)
PruneOss == KeysOss \/ (vendor = "oss" /\ DropKey)

\* A request of a listing fails: the listing ends with an error.
FailListing ==
    /\ listing.at \in {"page", "read", "drop"}
    /\ listing' = [listing EXCEPT !.at = "failed"]
    /\ UNCHANGED <<vendor, bucketStore, blobs, client, strangers, steady, seen, skipped, pageCut, got, probe>>

\* upload_files(), or somebody else puts an object that is not an envelope; or
\* one is deleted.
Stranger ==
    /\ strangers < MaxStrangers /\ strangers' = strangers + 1
    /\ listing.at \in {"page", "read", "drop"}
    /\ \/ \E k \in Range(KeyOrder), b \in BodiesDrawn :
             blobs' = [x \in DOMAIN blobs \cup {k} |-> IF x = k THEN b ELSE blobs[x]]
       \/ \E k \in DOMAIN blobs : blobs' = [x \in DOMAIN blobs \ {k} |-> blobs[x]]
    /\ steady' = {s \in steady : s[1] \in DOMAIN blobs' /\ blobs'[s[1]] = s[2]}
    /\ seen' = seen \cup {<<k, blobs'[k]>> : k \in DOMAIN blobs'}
    /\ UNCHANGED <<vendor, bucketStore, client, listing, skipped, pageCut, got, probe>>

-----------------------------------------------------------------------------
(* The probe of a backend *)

Causes == {"no_such_bucket", "access_denied", "timeout", "connection_failed", "invalid_credentials",
           "invalid_bucket", "invalid_endpoint", "s3_incompatible", "signature_mismatch"}

\* _PHRASE_KEYS finds these in the texts of _FRIENDLY.
Recognised == {"no_such_bucket", "access_denied", "timeout", "connection_failed"}

OpKey(at) == CASE at \in {"check", "put"} -> "write_failed" [] at = "read" -> "read_failed" [] OTHER -> "delete_failed"

\* Variant with a fault: the text of a result is not classified again.
ToldByOp(cause, at) == OpKey(at)

\* classify_storage_error(), of the text that wrap_io_error() made
Told(cause, at) == IF cause \in Recognised THEN cause ELSE OpKey(at)

EndProbe(answer, cause, key, left) ==
    probe' = [at |-> "end", answer |-> answer, cause |-> cause, key |-> key, left |-> left, stage |-> probe.at]

\* classify_probe_exception()
ConfigKeys == {"config_incomplete", "none"}

\* _resolve_probe_backend(): without the SDK of COS by S3, if the specification is complete.
ProbeByS3 == vendor = "cos" /\ vendor' = "s3"

\* probe_backend()
ResolveProbe ==
    /\ probe.at = "new"
    /\ \/ probe' = [probe EXCEPT !.at = "check"] /\ (vendor' = vendor \/ ProbeByS3)
       \/ vendor' = vendor /\ \E k \in ConfigKeys : EndProbe("failed", "config", k, FALSE)

\* _run_probe_roundtrip(): write() looks first, and puts.
AdvanceProbe ==
    \/ probe.at = "check"   /\ probe' = [probe EXCEPT !.at = "put"]
    \/ probe.at = "put"     /\ probe' = [probe EXCEPT !.at = "read", !.left = TRUE]
    \/ probe.at = "read"    /\ probe' = [probe EXCEPT !.at = "compare"]
    \/ probe.at = "compare" /\ \/ probe' = [probe EXCEPT !.at = "delete"]
                               \/ EndProbe("failed", "mismatch", "content_mismatch", TRUE)

\* Variant with a fault: that the object could not be deleted is no failure.
DeleteProbeAnyway == probe.at = "delete" /\ \E l \in BOOLEAN : EndProbe("ok", "none", "roundtrip_ok", l)

\* _delete_via_backend()
DeleteProbe == probe.at = "delete" /\ EndProbe("ok", "none", "roundtrip_ok", FALSE)

\* None but ObsBackend makes of a lost connection an error of
\* _storage_error_types(), or of a refusal one that _delete_via_backend() knows.
Unexpected(c, at) == vendor # "obs" /\ (c = "connection_failed" \/ at = "delete")

\* A request is refused, or the connection lost; one that writes may have
\* done it.
RefuseProbe ==
    /\ probe.at \in {"check", "put", "read", "delete"}
    /\ \E c \in Causes, l \in BOOLEAN :
          /\ l # probe.left => probe.at \in {"put", "delete"}
          /\ IF Unexpected(c, probe.at) THEN EndProbe("raised", c, "none", l)
             ELSE \E k \in IF probe.at = "delete" THEN {OpKey("delete"), c} ELSE {Told(c, probe.at)} :
                     EndProbe("failed", c, k, l)

ProbeStep ==
    /\ ResolveProbe \/ ((AdvanceProbe \/ DeleteProbe \/ RefuseProbe) /\ UNCHANGED vendor)
    /\ UNCHANGED <<bucketStore, blobs, client, listing, strangers, steady, seen, skipped, pageCut, got>>

ClientsNext ==
    \/ Elsewhere \/ BeginListing \/ FailListing \/ Stranger
    \/ LsS3 \/ LsCos \/ LsObs \/ LsOss
    \/ CollectS3 \/ CollectCos \/ CollectObs \/ CollectOss
    \/ PruneS3 \/ PruneCos \/ PruneObs \/ PruneOss
    \/ ProbeStep

ClientsSpec == ClientsInit /\ [][ClientsNext]_clientVars

-----------------------------------------------------------------------------
(***************************************************************************)
(* Properties.                                                             *)
(***************************************************************************)

ClientsTypeOK ==
    /\ vendor \in Vendors /\ bucketStore \in StoresDrawn /\ client \in Signatures
    /\ blobs \in [DOMAIN blobs -> [bytes : Bytes, envelope : BOOLEAN]] /\ DOMAIN blobs \subseteq Range(KeyOrder)
    /\ listing.at \in {"idle", "page", "read", "drop", "done", "failed"} /\ listing.op \in {"ls", "glob", "prune"}
    /\ listing.todo \subseteq Range(KeyOrder) /\ listing.token \in 0..Len(KeyOrder) /\ listing.more \in BOOLEAN
    /\ strangers \in 0..MaxStrangers /\ steady \subseteq seen /\ skipped \subseteq Range(KeyOrder)
    /\ {pageCut, got} \subseteq BOOLEAN
    /\ probe.at \in {"new", "check", "put", "read", "compare", "delete", "end"}
    /\ probe.answer \in {"none", "ok", "failed", "raised"}

ListingEnded(op) == listing.at = "done" /\ listing.op = op
SteadyKeys == {s[1] : s \in steady}

\* What ls() lists was there, and what was there all the time is listed, a
\* directory as a directory though a file has its name: over several pages,
\* while objects come and go.  The exception are stores that name no place
\* where a page goes on.
LevelIsListed ==
    ListingEnded("ls") =>
        LET entries == Finalized(listing.path, listing.found)
            of(keys) == {LevelEntry(listing.path, k) : k \in {x \in keys : IsStrictPrefix(listing.path, x)}}
            shown == {e \in of(SteadyKeys) : Last(e.path) # ""}
        IN /\ entries \subseteq of({s[1] : s \in seen})
           /\ \/ pageCut
              \/ \A e \in shown : \E f \in entries : f.path = e.path /\ (e.dir => f.dir)
           /\ \A e, f \in entries : e.path = f.path => e = f

\* glob() and grep() see every file below that was there all the time and
\* could be read, with a content that it had meanwhile.
TreeIsFound ==
    ListingEnded("glob") =>
        /\ listing.found \subseteq seen
        /\ \/ pageCut
           \/ \A s \in steady : IsStrictPrefix(listing.path, s[1]) /\ ~IsMarker(s[1]) /\ s[1] \notin skipped
                                  => s \in listing.found

\* After delete_prefix() nothing is left that was there when it began, though
\* it deletes what it lists.
TreeIsGone == ListingEnded("prune") /\ ~pageCut => \A s \in steady :
    ~(IsStrictPrefix(listing.path, s[1]) /\ s[1] \in DOMAIN blobs)

\* A download gives the bytes that were uploaded, and those that others have
\* put, unless they look like an envelope.
DownloadIsUpload ==
    \A k \in DOMAIN blobs :
        blobs[k].envelope \/ blobs[k].bytes # "lookalike" => Downloaded(k) = blobs[k].bytes

\* A store that takes one signature for all requests is served, whichever it
\* is, by listing and reading; and by writing once something was read, which
\* write() and edit() do first.
ClientIsServed ==
    vendor = "s3" /\ bucketStore.takes["list"] \cap bucketStore.takes["object"] # {} =>
        /\ {"v1", "v2"} \subseteq bucketStore.missing \/ ListedBy.api # "refused"
        /\ Got.ok
        /\ got => StoreAnswer("object", client) = "ok"

\* A probe that succeeds leaves no object behind.  One that fails names the
\* cause, or the operation where the text in between does not tell; never
\* another cause.  It fails to answer only when the connection is lost or the
\* object may not be deleted.
ProbeTells ==
    /\ probe.answer = "ok" => ~probe.left
    /\ probe.answer = "failed" /\ probe.cause \in Causes =>
          /\ probe.key \in {probe.cause, "write_failed", "read_failed", "delete_failed"}
          /\ probe.cause \in Recognised /\ probe.stage # "delete" => probe.key = probe.cause
    /\ probe.answer = "raised" => vendor # "obs" /\ (probe.cause = "connection_failed" \/ probe.stage = "delete")

ClientsHold ==
    LevelIsListed /\ TreeIsFound /\ TreeIsGone /\ DownloadIsUpload /\ ClientIsServed /\ ProbeTells
=============================================================================
