------------------------------ MODULE Sessions ------------------------------
(***************************************************************************)
(* What becomes of the Pi session and the fork points a grill leaves       *)
(* behind: the reports that arrive, again and late, the row and the bytes  *)
(* they leave on either backend, and the sweeps that reclaim them          *)
(* (sessions/).  ArtifactRetention models the storage layer recordings     *)
(* share with it in more detail; here are what only sessions have: runs    *)
(* without one, fork points, and an installation that stops collecting.    *)
(***************************************************************************)
EXTENDS Artifacts, Integers, FiniteSets

CONSTANTS
    Retention,  \* how long a session is kept
    MaxReports  \* bound: reports delivered

SessionsAssumption ==
    Jobs # {} /\ StartedAt \in [Jobs -> Int] /\ Retention \in Int

VARIABLES
    object,     \* whether the installation keeps bytes in a bucket
    off,        \* whether it has stopped collecting (a cap of zero)
    points,     \* points[j]: the fork points known, "unknown" when there is no row
    reports, faults

vars == <<now, object, off, rows, bucket, points, process, reports, faults>>
settings == <<object, off>>

Outcomes == {"collected", "not_collected", "unavailable"}
NoRow == [outcome |-> "unknown", data |-> FALSE, key |-> FALSE, purged |-> FALSE, expires |-> 0]

\* The CHECK of migration 054: a failing outcome has no bytes and is never stamped.
Consistent(row) == row.outcome = "collected" \/ ~(row.data \/ row.key \/ row.purged)

Idle == [at |-> "idle", job |-> CHOOSE j \in Jobs : TRUE, outcome |-> "unknown",
         todo |-> {}, database |-> {}, reclaimed |-> {}]

Init ==
    /\ now = 0
    /\ object \in BOOLEAN /\ off = FALSE
    /\ rows = [j \in Jobs |-> NoRow]
    /\ bucket = {}
    /\ points = [j \in Jobs |-> "unknown"]
    /\ process = [p \in Uploads \cup Sweepers |-> Idle]
    /\ reports = 0 /\ faults = 0

Becomes(p, state) == process' = [process EXCEPT ![p] = state]
Goes(p, at) == Becomes(p, [process[p] EXCEPT !.at = at])
Ends(p) == Becomes(p, Idle)

Fault == faults < MaxFaults /\ faults' = faults + 1

Expired(row) == row.expires <= now

\* What reads, and the resume route, make of a run's row.
SessionState(j) ==
    IF rows[j].outcome # "collected" THEN rows[j].outcome
    ELSE IF rows[j].purged \/ Expired(rows[j]) THEN "expired" ELSE "available"

-----------------------------------------------------------------------------
(* Reports, delivered again when the answer to one is lost, in any order. *)

Reported == reports < MaxReports /\ reports' = reports + 1

UploadArrives(u) ==
    /\ process[u] = Idle /\ ~off
    /\ Reported
    /\ \E j \in Jobs, outcome \in Outcomes :
         /\ StartedAt[j] <= now
         /\ Becomes(u, [Idle EXCEPT
                !.at = IF outcome = "collected" /\ object THEN "put" ELSE "insert",
                !.job = j, !.outcome = outcome])
    /\ UNCHANGED <<now, settings, rows, bucket, points, faults>>

PutObject(u) ==
    /\ process[u].at = "put"
    /\ \/ bucket' = bucket \cup {process[u].job} /\ Goes(u, "insert") /\ UNCHANGED faults
       \/ Fault /\ Ends(u) /\ UNCHANGED bucket
    /\ UNCHANGED <<now, settings, rows, points, reports>>

ExpiryFromUpload(j) == now + Retention

\* Anchored to the run's start: a report delivered again keeps the window.
ResolveExpiry(j) == StartedAt[j] + Retention

InsertRow(u) ==
    /\ process[u].at = "insert"
    /\ LET j == process[u].job
           collected == process[u].outcome = "collected" IN
       rows' = [rows EXCEPT ![j] =
                  [outcome |-> process[u].outcome, data |-> collected /\ ~object,
                   key |-> collected /\ object, purged |-> FALSE,
                   expires |-> IF collected THEN ResolveExpiry(j) ELSE 0]]
    /\ Ends(u)
    /\ UNCHANGED <<now, settings, bucket, points, reports, faults>>

InsertRowThrows(u) ==
    /\ process[u].at = "insert"
    /\ Fault
    /\ IF process[u].outcome = "collected" /\ object THEN Goes(u, "cleanup") ELSE Ends(u)
    /\ UNCHANGED <<now, settings, rows, bucket, points, reports>>

Cleanup(u) ==
    /\ process[u].at = "cleanup"
    /\ bucket' = bucket \ {process[u].job}
    /\ Ends(u)
    /\ UNCHANGED <<now, settings, rows, points, reports, faults>>

\* A second report about the same run, which does not look at the first.
UpsertForkPoints ==
    /\ Reported
    /\ \E j \in Jobs, outcome \in {"captured", "unavailable"} :
         StartedAt[j] <= now /\ points' = [points EXCEPT ![j] = outcome]
    /\ UNCHANGED <<now, settings, rows, bucket, process, faults>>

-----------------------------------------------------------------------------
(* The sweep. *)

Reclaimable(j) == off \/ Expired(rows[j])

UnpurgedCandidates ==
    {j \in Jobs : (rows[j].data \/ (rows[j].key /\ ~rows[j].purged)) /\ Reclaimable(j)}

\* Rows with data or an object key: a tombstone keeps its key.
Candidates == {j \in Jobs : (rows[j].data \/ rows[j].key) /\ Reclaimable(j)}

\* ORDER BY expires_at LIMIT
Batches ==
    {batch \in SUBSET Candidates :
       /\ Cardinality(batch) =
            IF Cardinality(Candidates) < Limit THEN Cardinality(Candidates) ELSE Limit
       /\ \A j \in batch, k \in Candidates \ batch : rows[j].expires <= rows[k].expires}

SweepSelects(s) ==
    /\ process[s] = Idle /\ Candidates # {}
    /\ \E batch \in Batches :
         Becomes(s, [Idle EXCEPT !.at = "delete", !.todo = {j \in batch : rows[j].key},
                                 !.database = {j \in batch : ~rows[j].key}])
    /\ UNCHANGED <<now, settings, rows, bucket, points, reports, faults>>

\* A delete that fails leaves the row to a later pass.
DeleteObject(s) ==
    /\ process[s].at = "delete"
    /\ \E j \in process[s].todo :
         \/ /\ bucket' = bucket \ {j} /\ UNCHANGED faults
            /\ Becomes(s, [process[s] EXCEPT !.todo = @ \ {j}, !.reclaimed = @ \cup {j}])
         \/ /\ Fault /\ UNCHANGED bucket
            /\ Becomes(s, [process[s] EXCEPT !.todo = @ \ {j}])
    /\ UNCHANGED <<now, settings, rows, points, reports>>

\* One UPDATE: when the CHECK refuses a row, none is changed and the sweep ends.
Tombstone(s, jobs, next) ==
    LET stamped == [j \in Jobs |->
          IF j \in jobs THEN [rows[j] EXCEPT !.data = FALSE, !.purged = TRUE] ELSE rows[j]]
    IN  IF \A j \in jobs : Consistent(stamped[j])
        THEN rows' = stamped /\ Goes(s, next)
        ELSE UNCHANGED rows /\ Ends(s)

TombstoneDatabase(s) ==
    /\ process[s].at = "delete" /\ process[s].todo = {}
    /\ Tombstone(s, process[s].database, "objects")
    /\ UNCHANGED <<now, settings, bucket, points, reports, faults>>

TombstoneObjects(s) ==
    /\ process[s].at = "objects"
    /\ LET jobs == process[s].reclaimed
           stamped == [j \in Jobs |->
             IF j \in jobs THEN [rows[j] EXCEPT !.purged = TRUE] ELSE rows[j]] IN
       IF \A j \in jobs : Consistent(stamped[j]) /\ ~stamped[j].data
       THEN rows' = stamped /\ Goes(s, "points")
       ELSE UNCHANGED rows /\ Ends(s)
    /\ UNCHANGED <<now, settings, bucket, points, reports, faults>>

DeletePointsInDatabase(s) ==
    /\ process[s].at = "points"
    /\ points' = [j \in Jobs |-> IF j \in process[s].database THEN "unknown" ELSE points[j]]
    /\ Ends(s)
    /\ UNCHANGED <<now, settings, rows, bucket, reports, faults>>

DeletePoints(s) ==
    /\ process[s].at = "points"
    /\ points' = [j \in Jobs |-> IF j \in process[s].database \cup process[s].reclaimed
                                 THEN "unknown" ELSE points[j]]
    /\ Ends(s)
    /\ UNCHANGED <<now, settings, rows, bucket, reports, faults>>

-----------------------------------------------------------------------------
TimePasses ==
    /\ now < MaxTime
    /\ now' = now + 1
    /\ UNCHANGED <<settings, rows, bucket, points, process, reports, faults>>

\* The installation is restarted with a cap of zero.
StopsCollecting ==
    /\ ~off /\ off' = TRUE
    /\ process' = [p \in DOMAIN process |-> Idle]
    /\ UNCHANGED <<now, object, rows, bucket, points, reports, faults>>

Killed(p) ==
    /\ process[p] # Idle
    /\ Fault /\ Ends(p)
    /\ UNCHANGED <<now, settings, rows, bucket, points, reports>>

UploadStep(u) == PutObject(u) \/ InsertRow(u) \/ InsertRowThrows(u) \/ Cleanup(u)

SweepStep(s) ==
    \/ SweepSelects(s) \/ DeleteObject(s) \/ TombstoneDatabase(s) \/ TombstoneObjects(s)
    \/ DeletePoints(s)

Next ==
    \/ \E u \in Uploads : UploadArrives(u) \/ UploadStep(u)
    \/ UpsertForkPoints
    \/ \E s \in Sweepers : SweepStep(s)
    \/ TimePasses \/ StopsCollecting
    \/ \E p \in DOMAIN process : Killed(p)

Spec == Init /\ [][Next]_vars

\* Handlers end, and each replica's timer keeps starting sweeps.
FairSpec ==
    /\ Spec
    /\ \A u \in Uploads : WF_vars(UploadStep(u))
    /\ \A s \in Sweepers : WF_vars(SweepStep(s))

-----------------------------------------------------------------------------
(* Properties. *)

\* However often a session is reported and by whichever replicas it is swept, its
\* window is the run's own: it is not available past it, and unless collection is
\* switched off it is not reclaimed before (sessions/internal-routes.ts:133-136).
WindowKept ==
    \A j \in Jobs :
      /\ SessionState(j) = "available" => now < StartedAt[j] + Retention
      /\ rows[j].purged => off \/ now >= StartedAt[j] + Retention

Ended(j) == now >= StartedAt[j] + Retention \/ off

\* The bytes of a session whose window has ended, or that an installation stopped
\* collecting, are gone in the end from the row and, as long as the row names it, from
\* the bucket: although a sweep overlaps a report that stores them again, a delete
\* fails, or a process is killed between two steps (sessions/repository.ts:246-314).
ReclaimedEventually ==
    \A j \in Jobs :
      Ended(j) ~> ~rows[j].data /\ (rows[j].key => j \notin bucket)

\* On a bucket, fork points (a copy of the conversation) go with the session in the
\* end, even those reported after it was reclaimed (sessions/repository.ts:317-331).
PointsForgotten ==
    \A j \in Jobs :
      (rows[j].key /\ Ended(j) /\ points[j] # "unknown")
        ~> (~rows[j].key \/ points[j] = "unknown")
=============================================================================
