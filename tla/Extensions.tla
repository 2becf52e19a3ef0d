------------------------------ MODULE Extensions ------------------------------
(***************************************************************************)
(* The Pi extensions an organization's admins upload (extensions/): a row  *)
(* per slug, a row per file, and, on an installation with a bucket, an     *)
(* object per file that the row names by the extension's id and the path.  *)
(* A replacement keeps the id, and therefore the keys.                     *)
(*                                                                         *)
(* An upload writes the objects first and the rows last, in a transaction; *)
(* a job's container is given every active extension of the organization,  *)
(* file by file; and a backfill moves what was stored before there was a   *)
(* bucket (storage/backfill.ts).                                           *)
(***************************************************************************)
EXTENDS Integers, Sequences, FiniteSets, SequencesExt

CONSTANTS
    Slugs,
    Paths,          \* file paths validateFilePath accepts
    EntryPaths,     \* those that are modules
    Contents,       \* contents within the limits, without a reserved name
    Submissions,    \* what is sent: its files, in order, and its entry path
    Ids,            \* ids randomUUID returns
    Requests,       \* handlers that may be under way at once
    None,
    MaxFiles,
    MaxPerOrganization,
    EncodedSize,    \* EncodedSize[c]: what a file with content c adds to a payload
    MaxEncodedBytes,
    MaxUploads,     \* bound: uploads
    MaxFaults       \* bound: calls that fail, processes that die

ExtensionsAssumption ==
    /\ None \notin {"object", "postgres"} \cup Ids
    /\ EncodedSize \in [Contents -> Nat] /\ MaxEncodedBytes \in Nat

VARIABLES
    bucket,     \* new processes are configured with one
    ext,        \* org_extensions, by slug
    files,      \* org_extension_files, by slug and path
    objects,    \* the bucket
    used,       \* ids that were returned
    req,        \* req[r]: what handler r has read and where it is
    torn,       \* history: ids whose objects may not be those of one revision
    uploads, faults

stored == <<ext, files, objects>>
vars == <<bucket, stored, used, req, torn, uploads, faults>>

NoExtension == [id |-> None, bundle |-> <<>>, active |-> FALSE]
NoFile == [in |-> None, content |-> None]
Absent == [p \in Paths |-> NoFile]
NoContent == [p \in Paths |-> None]

Idle == [at |-> "idle", bucket |-> FALSE, slug |-> None, bundle |-> NoContent, id |-> None,
         todo |-> {}, path |-> None, rows |-> {}, given |-> {}, alone |-> FALSE]

\* A bundle, and a digest of one, is the content of every path it has.
Has(b) == {p \in Paths : b[p] # None}

Init ==
    /\ bucket \in BOOLEAN
    /\ ext = [s \in Slugs |-> NoExtension]
    /\ files = [s \in Slugs |-> Absent]
    /\ objects = [i \in Ids |-> NoContent]
    /\ used = {}
    /\ req = [r \in Requests |-> Idle]
    /\ torn = {}
    /\ uploads = 0 /\ faults = 0

At(r, at) == req[r].at = at
Becomes(r, to) == req' = [req EXCEPT ![r] = to]
Goes(r, at) == Becomes(r, [req[r] EXCEPT !.at = at])
Ends(r) == Becomes(r, Idle)
Stored(s) == ext[s] # NoExtension

\* Whoever writes is alone (a history variable) until another puts objects, or
\* commits rows, under the same id.
Writes(r, to) ==
    req' = [q \in Requests |->
             IF q = r THEN to ELSE [req[q] EXCEPT !.alone = @ /\ req[q].id # req[r].id]]

-----------------------------------------------------------------------------
(* What is accepted. *)

PathsOf(sub) == {sub.files[i].path : i \in DOMAIN sub.files}

ValidateExtensionBundle(sub) ==
    /\ Len(sub.files) \in 1..MaxFiles
    /\ \A i \in DOMAIN sub.files : sub.files[i].path \in Paths /\ sub.files[i].content \in Contents
    /\ IsInjective([i \in DOMAIN sub.files |-> sub.files[i].path])
    /\ sub.entry \in PathsOf(sub) \cap EntryPaths

Bundle(sub) ==
    [p \in Paths |-> IF p \in PathsOf(sub)
                     THEN (CHOOSE f \in Range(sub.files) : f.path = p).content ELSE None]

\* The cap is for new slugs; the list was read some time before the rows are written.
WithinCap(s) == Stored(s) \/ Cardinality({t \in Slugs : Stored(t)}) < MaxPerOrganization

-----------------------------------------------------------------------------
(* POST extensions. *)

Upload(r) ==
    /\ At(r, "idle") /\ uploads < MaxUploads
    /\ uploads' = uploads + 1
    /\ \E s \in Slugs, sub \in {x \in Submissions : ValidateExtensionBundle(x)} :
         /\ WithinCap(s)
         /\ Becomes(r, [Idle EXCEPT !.at = "find", !.slug = s, !.bundle = Bundle(sub),
                               !.bucket = bucket])
    /\ UNCHANGED <<bucket, stored, used, torn, faults>>

\* The id of the row the slug has, or a new one.
FindIdBySlug(r) ==
    /\ At(r, "find")
    /\ \E i \in Ids :
         /\ IF Stored(req[r].slug) THEN i = ext[req[r].slug].id ELSE i \notin used
         /\ used' = used \cup {i}
         /\ Becomes(r, [req[r] EXCEPT !.id = i,
                !.at = IF req[r].bucket THEN "put" ELSE "insert",
                !.todo = Has(req[r].bundle), !.alone = TRUE])
    /\ UNCHANGED <<bucket, stored, torn, uploads, faults>>

\* putBundleObjects: one file after another.
PutOne(r, next) ==
    \E p \in req[r].todo :
        /\ objects' = [objects EXCEPT ![req[r].id][p] = req[r].bundle[p]]
        /\ Writes(r, [req[r] EXCEPT !.todo = @ \ {p},
                         !.at = IF req[r].todo = {p} THEN next ELSE @])
        /\ torn' = torn \cup {req[r].id}
        /\ UNCHANGED <<bucket, ext, files, used, uploads, faults>>

PutObject(r) == At(r, "put") /\ PutOne(r, "insert")

\* The upsert holds the slug until its transaction ends.
Holds(q, s) == req[q].at \in {"reput", "commit"} /\ req[q].slug = s
Held(s) == \E q \in Requests : Holds(q, s)

\* The objects are under the id that was found; if another upload's row won,
\* they are written again, under its id.
AfterUpsert(own, saved, inBucket) == IF inBucket /\ own # saved THEN "reput" ELSE "commit"

UpsertExtension(r) ==
    /\ At(r, "insert") /\ ~Held(req[r].slug)
    /\ LET s == req[r].slug
           saved == IF Stored(s) THEN ext[s].id ELSE req[r].id
       IN Becomes(r, [req[r] EXCEPT !.id = saved, !.todo = Has(req[r].bundle),
                         !.alone = @ \/ saved # req[r].id,
                         !.at = AfterUpsert(req[r].id, saved, req[r].bucket)])
    /\ UNCHANGED <<bucket, stored, used, torn, uploads, faults>>

PutObjectAgain(r) == At(r, "reput") /\ PutOne(r, "commit")

FileRow(content, inBucket) ==
    IF content = None THEN NoFile
    ELSE IF inBucket THEN [in |-> "object", content |-> None]
    ELSE [in |-> "postgres", content |-> content]

FilesOver(s, bundle, inBucket) ==
    [p \in Paths |-> IF bundle[p] = None THEN files[s][p] ELSE FileRow(bundle[p], inBucket)]

\* The files of the revision that was there are deleted first.
ReplacedFiles(s, bundle, inBucket) == [p \in Paths |-> FileRow(bundle[p], inBucket)]

\* A replacement is active whatever the one it replaces was.
CommitRows(r) ==
    /\ At(r, "commit")
    /\ LET s == req[r].slug
       IN /\ ext' = [ext EXCEPT ![s] = [id |-> req[r].id, bundle |-> req[r].bundle,
                                        active |-> TRUE]]
          /\ files' = [files EXCEPT ![s] = ReplacedFiles(s, req[r].bundle, req[r].bucket)]
    /\ Writes(r, Idle)
    /\ torn' = IF req[r].bucket /\ ~req[r].alone THEN torn \cup {req[r].id} ELSE torn \ {req[r].id}
    /\ UNCHANGED <<bucket, objects, used, uploads, faults>>

\* A put or a statement fails, or the process dies: the transaction is rolled
\* back, and the objects that were written stay.
UploadFails(r) ==
    /\ req[r].at \in {"put", "insert", "reput", "commit"}
    /\ faults < MaxFaults /\ faults' = faults + 1
    /\ Ends(r)
    /\ UNCHANGED <<bucket, stored, used, torn, uploads>>

-----------------------------------------------------------------------------
(* The kill switch, and the removal: the rows cascade, the objects stay. *)

SetActive(s) ==
    /\ Stored(s) /\ ~Held(s)
    /\ ext' = [ext EXCEPT ![s].active = ~@]
    /\ UNCHANGED <<bucket, files, objects, used, req, torn, uploads, faults>>

RemoveExtension(s) ==
    /\ Stored(s) /\ ~Held(s)
    /\ ext' = [ext EXCEPT ![s] = NoExtension]
    /\ files' = [files EXCEPT ![s] = Absent]
    /\ UNCHANGED <<bucket, objects, used, req, torn, uploads, faults>>

\* An operator redeploys with a bucket; processes of the earlier deployment
\* finish what they were doing.
ConfigureBucket ==
    /\ ~bucket /\ bucket' = TRUE
    /\ UNCHANGED <<stored, used, req, torn, uploads, faults>>

-----------------------------------------------------------------------------
(* The backfill: the rows are read at once, then moved one by one. *)

BackfillSelects(r) ==
    /\ At(r, "idle") /\ bucket
    /\ \E s \in Slugs :
         LET moving == {p \in Paths : files[s][p].in = "postgres"}
         IN /\ moving # {}
            /\ Becomes(r, [Idle EXCEPT !.at = "move", !.slug = s, !.id = ext[s].id,
                                  !.todo = moving, !.alone = TRUE,
                                  !.bundle = [p \in Paths |-> files[s][p].content]])
    /\ UNCHANGED <<bucket, stored, used, torn, uploads, faults>>

\* A backfill writes what it read: another may have replaced it meanwhile.
Tearing(r) == IF req[r].alone THEN torn ELSE torn \cup {req[r].id}

BackfillPuts(r) ==
    /\ At(r, "move")
    /\ \E p \in req[r].todo :
         /\ objects' = [objects EXCEPT ![req[r].id][p] = req[r].bundle[p]]
         /\ Writes(r, [req[r] EXCEPT !.at = "flip", !.path = p])
    /\ torn' = Tearing(r)
    /\ UNCHANGED <<bucket, ext, files, used, uploads, faults>>

\* The candidate p is done with.
Moved(r, p) ==
    IF req[r].todo = {p} THEN Idle
    ELSE [req[r] EXCEPT !.todo = @ \ {p}, !.path = None, !.at = "move"]

BackfillPutFails(r) ==
    /\ At(r, "move")
    /\ faults < MaxFaults /\ faults' = faults + 1
    /\ \E p \in req[r].todo : Becomes(r, Moved(r, p))
    /\ UNCHANGED <<bucket, stored, used, torn, uploads>>

\* The UPDATE matches a row of this extension that is still in the database.
BackfillFlips(r) ==
    /\ At(r, "flip")
    /\ LET s == req[r].slug
           p == req[r].path
       IN /\ IF ext[s].id = req[r].id /\ files[s][p].in = "postgres"
             THEN /\ files' = [files EXCEPT ![s][p] = [in |-> "object", content |-> None]]
                  /\ torn' = Tearing(r)
             ELSE UNCHANGED <<files, torn>>
          /\ Becomes(r, Moved(r, p))
    /\ UNCHANGED <<bucket, ext, objects, used, uploads, faults>>

-----------------------------------------------------------------------------
(* GET extensions, for a job's container, of a project that has opted in. *)

Deliver(r) ==
    /\ At(r, "idle")
    /\ Becomes(r, [Idle EXCEPT !.at = "list", !.bucket = bucket])
    /\ UNCHANGED <<bucket, stored, used, torn, uploads, faults>>

ListActive(r) ==
    /\ At(r, "list")
    /\ LET rows == {[slug |-> s, id |-> ext[s].id, digest |-> ext[s].bundle] :
                      s \in {t \in Slugs : ext[t].active}}
       IN IF rows = {} THEN Ends(r) ELSE Becomes(r, [req[r] EXCEPT !.at = "files", !.rows = rows])
    /\ UNCHANGED <<bucket, stored, used, torn, uploads, faults>>

\* The file rows of the next extension; none, if it was removed meanwhile.
ListFiles(r) ==
    /\ At(r, "files")
    /\ \E row \in req[r].rows :
         /\ row.slug \notin {g.slug : g \in req[r].given}
         /\ LET found == IF ext[row.slug].id = row.id THEN files[row.slug] ELSE Absent
            IN Becomes(r, [req[r] EXCEPT !.at = "read", !.slug = row.slug, !.id = row.id,
                              !.bundle = [p \in Paths |-> found[p].content],
                              !.todo = {p \in Paths : found[p].in = "object"}])
    /\ UNCHANGED <<bucket, stored, used, torn, uploads, faults>>

\* A process without a bucket, and an object that is not there: the request fails.
GetObject(r) ==
    /\ At(r, "read")
    /\ \E p \in req[r].todo :
         LET content == objects[req[r].id][p]
         IN IF ~req[r].bucket \/ content = None THEN Ends(r)
            ELSE Becomes(r, [req[r] EXCEPT !.todo = @ \ {p}, !.bundle[p] = content])
    /\ UNCHANGED <<bucket, stored, used, torn, uploads, faults>>

Given(r) == req[r].given \cup {[slug |-> req[r].slug, files |-> req[r].bundle]}

FilesRead(r) ==
    /\ At(r, "read") /\ req[r].todo = {}
    /\ Becomes(r, [req[r] EXCEPT !.given = Given(r), !.slug = None, !.id = None,
                      !.bundle = NoContent,
                      !.at = IF Cardinality(Given(r)) = Cardinality(req[r].rows) THEN "check" ELSE "files"])
    /\ UNCHANGED <<bucket, stored, used, torn, uploads, faults>>

\* The payload, encoded, goes into one environment variable.
Encoded(g) == MapThenSumSet(LAMBDA p : EncodedSize[g.files[p]], Has(g.files))
Fits(r) == MapThenSumSet(Encoded, req[r].given) <= MaxEncodedBytes

Digests(r) ==
    \A g \in req[r].given : \E row \in req[r].rows : row.slug = g.slug /\ row.digest = g.files

\* The payload is sent, or the request fails.
Answer(r) ==
    /\ At(r, "check")
    /\ IF Fits(r) /\ Digests(r) THEN Goes(r, "answered") ELSE Ends(r)
    /\ UNCHANGED <<bucket, stored, used, torn, uploads, faults>>

Answered(r) ==
    /\ At(r, "answered") /\ Ends(r)
    /\ UNCHANGED <<bucket, stored, used, torn, uploads, faults>>

-----------------------------------------------------------------------------
UploadStep(r) ==
    \/ FindIdBySlug(r) \/ PutObject(r) \/ UpsertExtension(r) \/ PutObjectAgain(r)
    \/ CommitRows(r) \/ UploadFails(r)

DeliveryStep(r) == ListActive(r) \/ ListFiles(r) \/ GetObject(r) \/ FilesRead(r) \/ Answer(r) \/ Answered(r)

BackfillStep(r) == BackfillPuts(r) \/ BackfillPutFails(r) \/ BackfillFlips(r)

Next ==
    \/ \E s \in Slugs : SetActive(s) \/ RemoveExtension(s)
    \/ ConfigureBucket
    \/ \E r \in Requests :
         \/ Upload(r) \/ Deliver(r) \/ BackfillSelects(r)
         \/ UploadStep(r) \/ DeliveryStep(r) \/ BackfillStep(r)

Spec == Init /\ [][Next]_vars

-----------------------------------------------------------------------------
(* Properties *)

Content(s, p) ==
    IF files[s][p].in = "object" THEN objects[ext[s].id][p] ELSE files[s][p].content

\* A reader that resolves an extension through its rows never meets a file whose
\* bytes are missing: not when two first uploads of a slug race for its id, when
\* an upload dies half-way, nor while the backfill moves files.
FilesHaveBytes ==
    \A s \in Slugs, p \in Paths : files[s][p].in = "object" => objects[ext[s].id][p] # None

\* Every extension a job is given is, file for file, a revision somebody
\* uploaded, however the reads of the delivery fall between the writes of
\* uploads, removals and the backfill.
GivenIsUploaded ==
    \A r \in Requests : At(r, "answered") =>
        \A g \in req[r].given :
            \E sub \in Submissions : ValidateExtensionBundle(sub) /\ g.files = Bundle(sub)

\* What a job is to be given, its rows resolve to: every file of the revision the
\* digest names and no other, so that a delivery is not refused for it.  Exempt is
\* an id from the first put under it until an upload commits that nobody crossed:
\* so one whose replacement failed or was crossed by another, or that the backfill
\* wrote to from rows replaced meanwhile, until the next that is not.
RevisionWhole ==
    \A s \in Slugs : Stored(s) /\ ext[s].id \notin torn =>
        \A p \in Paths : Content(s, p) = ext[s].bundle[p]

\* What a job's container is given is what was uploaded, and what was uploaded
\* undisturbed can be given.
DeliveredIntact == FilesHaveBytes /\ GivenIsUploaded /\ RevisionWhole

-----------------------------------------------------------------------------
(* What comments of the code say and the code does not do; no run checks these. *)

\* "Never visible to a reader, because no row names them yet": the objects of a
\* replacement, which rows of the revision it replaces do name.
UncommittedUnseen ==
    \A s \in Slugs, p \in Paths : Stored(s) => Content(s, p) = ext[s].bundle[p]

\* "The organization cap": two uploads of new slugs that read the same list.
CapHolds == Cardinality({s \in Slugs : Stored(s)}) <= MaxPerOrganization
=============================================================================
