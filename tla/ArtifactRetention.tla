-------------------------- MODULE ArtifactRetention --------------------------
(***************************************************************************)
(* The recordings a job's run leaves behind: the row of `job_recordings`,  *)
(* the bytes, which are in that row or in an object of the bucket, and the *)
(* uploads, downloads, retention sweeps and backfills that move, replace   *)
(* and reclaim them.  The database and the bucket share no transaction, so *)
(* a process takes one step per query or bucket call, and either may fail. *)
(* A key says the job and the content type, so that a recording sent again *)
(* in another format is another object.                                    *)
(***************************************************************************)
EXTENDS Artifacts, Naturals, FiniteSets

CONSTANTS
    Types,       \* the content types the route accepts
    Sent,        \* the recordings that runs may send, each named by its key
    Backfillers, \* operators' runs of the backfill
    Configs,     \* the deployments' settings: is a bucket configured, days kept
    Faults,      \* the calls that may fail
    MaxDeploys   \* bound on redeployments

RecordingKey(job, type) == <<job, type>>
Keys == Jobs \X Types
JobOf(key) == key[1]

Config == [storage : BOOLEAN, retention : Nat]

ASSUME RetentionAssumption ==
    /\ Jobs # {} /\ Types # {} /\ StartedAt \in [Jobs -> Nat]
    /\ Sent \subseteq Keys
    /\ Configs \subseteq Config
    /\ Limit \in Nat \ {0}
    /\ Faults \subseteq {"put", "insert", "update", "delete", "kill"}
    /\ MaxTime \in Nat /\ MaxFaults \in Nat /\ MaxDeploys \in Nat

VARIABLES
    config,   \* the settings a process that starts now reads
    failed,   \* calls that failed and processes that were killed
    deploys,  \* redeployments so far
    taken,    \* history: objects a clean-up deleted, or a sweep when it might
    left,     \* history: objects that a replacement or a failure left unnamed
    revived   \* history: jobs whose row was stored under a sweep that holds it

history == <<taken, left, revived>>
vars == <<now, config, rows, bucket, process, failed, deploys, history>>

-----------------------------------------------------------------------------
(* Rows *)

Processes == Uploads \union Sweepers \union Backfillers

\* "absent" stands for no row.  The key is an "object" row's object_key, and of
\* a "postgres" row the one its content type gives.
Row == [backend : {"absent", "postgres", "object"}, data : BOOLEAN,
        purged : BOOLEAN, expires : Nat, key : Keys]

NoRow == [backend |-> "absent", data |-> FALSE, purged |-> FALSE, expires |-> 0,
          key |-> CHOOSE k \in Keys : TRUE]

\* The CHECK of migration 047: a statement that would break it throws.
StorageConsistent(row) ==
    \/ row.data /\ row.backend = "postgres" /\ ~row.purged
    \/ ~row.data /\ row.backend = "object" /\ ~row.purged
    \/ ~row.data /\ row.backend # "absent" /\ row.purged

\* A process is at a step and holds the key of an upload or download, the
\* settings an upload started with (nothing else reads its own later than in
\* its first step), the objects it has still to delete or to write
\* (todo), the jobs to tombstone as Postgres rows (database) and those whose
\* object it has deleted (reclaimed).
Step == {"idle", "put", "insert", "cleanup", "get", "delete", "tombstone",
         "tombstone_objects", "move", "flip"}
Process == [at : Step, config : Configs, key : Keys, todo : SUBSET Keys,
            database : SUBSET Jobs, reclaimed : SUBSET Jobs]

Idle == [at |-> "idle", config |-> CHOOSE c \in Configs : TRUE,
         key |-> CHOOSE k \in Keys : TRUE,
         todo |-> {}, database |-> {}, reclaimed |-> {}]

Starting(step) == [Idle EXCEPT !.at = step]

Become(p, state) == process' = [process EXCEPT ![p] = state]
Goto(p, step) == Become(p, [process[p] EXCEPT !.at = step])
Stop(p) == Become(p, Idle)

\* A call of this kind fails; what it had to change stays as it is.
Fails(kind) ==
    /\ kind \in Faults
    /\ failed < MaxFaults
    /\ failed' = failed + 1

\* A statement gives the rows of jobs their new form, all of them or (when the
\* CHECK refuses one) none.
UpdateRows(jobs, updated) ==
    rows' = IF \A j \in jobs : StorageConsistent(updated[j])
            THEN [j \in Jobs |-> IF j \in jobs THEN updated[j] ELSE rows[j]]
            ELSE rows

-----------------------------------------------------------------------------
(* What became of rows and objects *)

Expired(j) == rows[j].expires <= now
Named(k) == rows[JobOf(k)].backend = "object" /\ rows[JobOf(k)].key = k

\* A sweep p has still to delete the object, or to tombstone the row, of j.
SweepHolds(p, j) ==
    \/ j \in process[p].database \union process[p].reclaimed
    \/ process[p].at = "delete" /\ \E k \in process[p].todo : JobOf(k) = j

\* An upload or a backfill has put the object k and has not named it yet.
HasPut(p, k) ==
    /\ process[p].key = k
    /\ \/ process[p].at = "insert" /\ process[p].config.storage
       \/ process[p].at \in {"cleanup", "flip"}

\* The object k is written: whatever became of it before is over.
Put(k) ==
    /\ bucket' = bucket \union {k}
    /\ taken' = taken \ {k}
    /\ left' = left \ {k}

\* The process ends before a row names what it put.
Leaves(p) == left' = left \union {k \in Keys : HasPut(p, k) /\ ~Named(k)}

\* The object k is deleted.
Delete(k) == bucket' = bucket \ {k} /\ left' = left \ {k}

-----------------------------------------------------------------------------
(* Uploads: the object before the row, and away again if the row fails *)

ResolveExpiry(p, j) == StartedAt[j] + process[p].config.retention

Stored(p) ==
    [backend |-> IF process[p].config.storage THEN "object" ELSE "postgres",
     data |-> ~process[p].config.storage, purged |-> FALSE,
     expires |-> ResolveExpiry(p, JobOf(process[p].key)), key |-> process[p].key]

UploadArrives(p, k) ==
    /\ p \in Uploads
    /\ process[p] = Idle
    /\ StartedAt[JobOf(k)] <= now
    /\ Become(p, [Starting(IF config.storage THEN "put" ELSE "insert")
                     EXCEPT !.key = k, !.config = config])
    /\ UNCHANGED <<now, config, rows, bucket, failed, deploys, history>>

PutObject(p) ==
    /\ process[p].at = "put"
    /\ Put(process[p].key)
    /\ Goto(p, "insert")
    /\ UNCHANGED <<now, config, rows, failed, deploys, revived>>

PutObjectThrows(p) ==
    /\ process[p].at = "put"
    /\ Fails("put")
    /\ Stop(p)
    /\ UNCHANGED <<now, config, rows, bucket, deploys, history>>

\* ON CONFLICT rewrites every column, the object_key too: an object under
\* another key, or of a row that moves to Postgres, is named no more.
InsertRow(p) ==
    LET j == JobOf(process[p].key)
    IN  /\ process[p].at = "insert"
        /\ rows' = [rows EXCEPT ![j] = Stored(p)]
        /\ left' = (left \union {k \in Keys : JobOf(k) = j /\ Named(k)}) \
                      (IF process[p].config.storage THEN {process[p].key} ELSE {})
        /\ revived' = IF \E q \in Processes : SweepHolds(q, j)
                      THEN revived \union {j} ELSE revived \ {j}
        /\ Stop(p)
        /\ UNCHANGED <<now, config, bucket, failed, deploys, taken>>

InsertRowThrowsOnly(p) ==
    /\ process[p].at = "insert"
    /\ Fails("insert")
    /\ Stop(p)
    /\ UNCHANGED <<now, config, rows, bucket, deploys, history>>

InsertRowThrows(p) ==
    /\ process[p].at = "insert"
    /\ Fails("insert")
    /\ IF process[p].config.storage THEN Goto(p, "cleanup") ELSE Stop(p)
    /\ UNCHANGED <<now, config, rows, bucket, deploys, history>>

\* The object goes, also when the row stored before names it.
Cleanup(p) ==
    /\ process[p].at = "cleanup"
    /\ Delete(process[p].key)
    /\ taken' = taken \union {process[p].key}
    /\ Stop(p)
    /\ UNCHANGED <<now, config, rows, failed, deploys, revived>>

-----------------------------------------------------------------------------
(* Downloads: the row, then the object it names *)

FindContent(p, j) ==
    /\ p \in Uploads
    /\ process[p] = Idle
    /\ rows[j].backend = "object"
    /\ ~rows[j].purged
    /\ Become(p, [Starting("get") EXCEPT !.key = rows[j].key])
    /\ UNCHANGED <<now, config, rows, bucket, failed, deploys, history>>

\* The bytes, 410 Gone when there are none, and a TypeError where no bucket is
\* configured: nothing is written whichever it is.
GetObject(p) ==
    /\ process[p].at = "get"
    /\ Stop(p)
    /\ UNCHANGED <<now, config, rows, bucket, failed, deploys, history>>

-----------------------------------------------------------------------------
(* The sweep (purgeExpired) *)

CandidatesInDatabase ==
    {j \in Jobs : rows[j].data /\ rows[j].expires <= now}

CandidatesTooEarly ==
    {j \in Jobs : /\ rows[j].data \/ rows[j].backend = "object"
                  /\ rows[j].expires <= now + 1}

\* Rows with data or an object key, whose time is up.
Candidates ==
    {j \in Jobs : /\ rows[j].data \/ rows[j].backend = "object"
                  /\ rows[j].expires <= now}

\* ORDER BY expires_at LIMIT: a prefix, equal expiries in any order.
Batches ==
    {batch \in SUBSET Candidates :
        /\ \A j \in batch, k \in Candidates \ batch : rows[j].expires <= rows[k].expires
        /\ Cardinality(batch) <= Limit
        /\ Candidates \ batch # {} => Cardinality(batch) = Limit}

\* Object rows are left alone by a process that has no bucket configured.
SweepSelects(p) ==
    /\ p \in Sweepers
    /\ process[p] = Idle
    /\ Candidates # {}
    /\ \E batch \in Batches :
          LET objects == {j \in batch : rows[j].backend = "object"}
          IN  Become(p, [Starting("delete") EXCEPT
                           !.todo = IF config.storage
                                    THEN {rows[j].key : j \in objects} ELSE {},
                           !.database = batch \ objects])
    /\ UNCHANGED <<now, config, rows, bucket, failed, deploys, history>>

Deleted(p, k, gone) ==
    Become(p, [process[p] EXCEPT !.todo = @ \ {k}, !.reclaimed = @ \union gone])

DeleteObject(p) ==
    /\ process[p].at = "delete"
    /\ \E k \in process[p].todo :
          /\ Delete(k)
          /\ taken' = IF Expired(JobOf(k)) \/ JobOf(k) \in revived
                      THEN taken \union {k} ELSE taken
          /\ Deleted(p, k, {JobOf(k)})
    /\ UNCHANGED <<now, config, rows, failed, deploys, revived>>

DeleteObjectThrows(p) ==
    /\ process[p].at = "delete"
    /\ \E k \in process[p].todo : Fails("delete") /\ Deleted(p, k, {})
    /\ UNCHANGED <<now, config, rows, bucket, deploys, history>>

\* SET data = NULL, purged_at = NOW()
TombstoneDatabase(p) ==
    /\ process[p].at = "delete"
    /\ process[p].todo = {}
    /\ UpdateRows(process[p].database,
                  [j \in Jobs |-> [rows[j] EXCEPT !.data = FALSE, !.purged = TRUE]])
    /\ Goto(p, "tombstone_objects")
    /\ UNCHANGED <<now, config, bucket, failed, deploys, history>>

\* SET purged_at = NOW()
TombstoneObjects(p) ==
    /\ process[p].at = "tombstone_objects"
    /\ UpdateRows(process[p].reclaimed,
                  [j \in Jobs |-> [rows[j] EXCEPT !.purged = TRUE]])
    /\ Stop(p)
    /\ UNCHANGED <<now, config, bucket, failed, deploys, history>>

-----------------------------------------------------------------------------
(* The backfill: each row's object, under the key it had when it was read,  *)
(* then the row                                                            *)

BackfillSelects(p) ==
    /\ p \in Backfillers
    /\ process[p] = Idle
    /\ config.storage
    /\ \E jobs \in (SUBSET {j \in Jobs : rows[j].data}) \ {{}} :
          Become(p, [Starting("move") EXCEPT !.todo = {rows[j].key : j \in jobs}])
    /\ UNCHANGED <<now, config, rows, bucket, failed, deploys, history>>

BackfillPutsOrGoesOn(p) ==
    /\ process[p].at = "move"
    /\ \E k \in process[p].todo :
          /\ Put(k) \/ UNCHANGED <<bucket, taken, left>>
          /\ Become(p, [process[p] EXCEPT !.at = "flip", !.key = k,
                                          !.todo = @ \ {k}])
    /\ UNCHANGED <<now, config, rows, failed, deploys, revived>>

\* The key at hand is the one whose object is up and whose row is to flip.
BackfillPuts(p) ==
    /\ process[p].at = "move"
    /\ \E k \in process[p].todo :
          /\ Put(k)
          /\ Become(p, [process[p] EXCEPT !.at = "flip", !.key = k,
                                          !.todo = @ \ {k}])
    /\ UNCHANGED <<now, config, rows, failed, deploys, revived>>

\* A row whose object could not be written is skipped.
BackfillPutThrows(p) ==
    /\ process[p].at = "move"
    /\ Fails("put")
    /\ \E k \in process[p].todo :
          Become(p, IF process[p].todo = {k} THEN Idle
                    ELSE [process[p] EXCEPT !.todo = @ \ {k}])
    /\ UNCHANGED <<now, config, rows, bucket, deploys, history>>

\* UPDATE ... WHERE storage_backend = 'postgres': a row that an upload has made
\* an object row meanwhile stays, and the object that was put with it.
BackfillFlips(p) ==
    LET j == JobOf(process[p].key)
    IN  /\ process[p].at = "flip"
        /\ UpdateRows({i \in {j} : rows[i].backend = "postgres"},
                      [i \in Jobs |-> [rows[i] EXCEPT !.data = FALSE,
                                                      !.backend = "object",
                                                      !.key = process[p].key]])
        /\ IF rows[j].backend = "postgres"
           THEN left' = left \ {process[p].key} ELSE Leaves(p)
        /\ IF process[p].todo = {} THEN Stop(p) ELSE Goto(p, "move")
        /\ UNCHANGED <<now, config, bucket, failed, deploys, taken, revived>>

-----------------------------------------------------------------------------
(* Failures, redeployments and time *)

\* An UPDATE of a sweep or a backfill throws, which ends it.
UpdateThrows(p) ==
    /\ \/ /\ process[p].at = "delete"
          /\ process[p].todo = {}
          /\ process[p].database # {}
       \/ process[p].at = "tombstone_objects" /\ process[p].reclaimed # {}
       \/ process[p].at = "flip"
    /\ Fails("update")
    /\ Leaves(p)
    /\ Stop(p)
    /\ UNCHANGED <<now, config, rows, bucket, deploys, taken, revived>>

\* The process dies; or the cleanup, which is not retried, throws.
Killed(p) ==
    /\ process[p] # Idle
    /\ Fails("kill")
    /\ Leaves(p)
    /\ Stop(p)
    /\ UNCHANGED <<now, config, rows, bucket, deploys, taken, revived>>

\* Processes started from now on have other settings; the others run on.
Redeploy ==
    /\ deploys < MaxDeploys
    /\ deploys' = deploys + 1
    /\ config' \in Configs \ {config}
    /\ UNCHANGED <<now, rows, bucket, process, failed, history>>

Tick ==
    /\ now < MaxTime
    /\ now' = now + 1
    /\ UNCHANGED <<config, rows, bucket, process, failed, deploys, history>>

Init ==
    /\ now = 0
    /\ config \in Configs
    /\ rows = [j \in Jobs |-> NoRow]
    /\ bucket = {}
    /\ process = [p \in Processes |-> Idle]
    /\ failed = 0
    /\ deploys = 0
    /\ taken = {} /\ left = {} /\ revived = {}

Request(p) ==
    \/ \E k \in Sent : UploadArrives(p, k)
    \/ \E j \in Jobs : FindContent(p, j)

\* What a process goes on with, and a sweep's timer starting it.
Continue(p) ==
    \/ PutObject(p) \/ InsertRow(p) \/ Cleanup(p) \/ GetObject(p)
    \/ SweepSelects(p) \/ DeleteObject(p) \/ TombstoneDatabase(p)
    \/ TombstoneObjects(p) \/ BackfillPuts(p) \/ BackfillFlips(p)

Fault(p) ==
    \/ PutObjectThrows(p) \/ InsertRowThrows(p) \/ DeleteObjectThrows(p)
    \/ BackfillPutThrows(p) \/ UpdateThrows(p) \/ Killed(p)

Next ==
    \/ \E p \in Processes :
          Request(p) \/ Continue(p) \/ BackfillSelects(p) \/ Fault(p)
    \/ Redeploy
    \/ Tick

Spec == Init /\ [][Next]_vars

\* Calls return or fail, the sweeps' timers fire, and time passes.
FairSpec == Spec /\ (\A p \in Processes : WF_vars(Continue(p))) /\ WF_vars(Tick)

-----------------------------------------------------------------------------
(* Properties *)

\* Every row satisfies migration 047's CHECK: its bytes are in one place.
TypeOK ==
    /\ now \in 0..MaxTime
    /\ config \in Configs
    /\ rows \in [Jobs -> Row]
    /\ \A j \in Jobs : \/ rows[j] = NoRow
                       \/ StorageConsistent(rows[j]) /\ JobOf(rows[j].key) = j
    /\ bucket \subseteq Keys
    /\ process \in [Processes -> Process]
    /\ failed \in 0..MaxFaults
    /\ deploys \in 0..MaxDeploys
    /\ taken \subseteq Keys /\ left \subseteq Keys /\ revived \subseteq Jobs

HasBytes(j) == rows[j].data \/ (rows[j].backend = "object" /\ rows[j].key \in bucket)

\* A recording within its retention is not a tombstone and has its bytes, also
\* when it is uploaded again, in another format or while a sweep or a backfill
\* holds rows it read before, and whichever call fails.  Two cases are excepted:
\* the clean-up of a failed INSERT, or a sweep whose time had come, deleted the
\* object before the row named it; and a row that was stored, to be kept longer,
\* under a sweep that had found it expired.
LiveHasBytes ==
    \A j \in Jobs :
        rows[j].backend # "absent" /\ ~Expired(j) /\ j \notin revived =>
            /\ ~rows[j].purged
            /\ HasBytes(j) \/ rows[j].key \in taken

\* A download misses the object of the live row it read only if a sweep deleted
\* it when its time was up (or its row was stored under that sweep), or the
\* clean-up of a failed upload did.
GoneOnlyWhenExpired ==
    \A p \in Processes :
        process[p].at = "get" /\ process[p].key \notin bucket
            => process[p].key \in taken

\* An object that no row names is one that an upload or a backfill is still at
\* work on, unless its row was stored elsewhere or in another format, or the
\* process that put it was killed or its UPDATE failed or came too late: an
\* upload whose INSERT fails leaves none, whatever others store or sweep.
ObjectsReferenced ==
    \A k \in bucket :
        Named(k) \/ k \in left \/ \E p \in Processes : HasPut(p, k)

\* Candidates that a sweep may take before j; tombstones of object rows count.
Ahead(j) == {i \in Candidates \ {j} : rows[i].expires <= rows[j].expires}

BeingSent(j) ==
    \E p \in Uploads : process[p].at \in {"put", "insert"} /\ JobOf(process[p].key) = j

\* The bytes of an expired recording that is not sent any more are reclaimed,
\* also when calls failed or a backfill wrote the object of a row tombstoned
\* meanwhile, if a bucket is configured and fewer rows than a batch has come
\* before it.
ExpiredReclaimed ==
    \A j \in Jobs :
        (Expired(j) /\ HasBytes(j)
            /\ [](config.storage /\ ~BeingSent(j) /\ Cardinality(Ahead(j)) < Limit))
        ~> ~HasBytes(j)
=============================================================================
