----------------------- MODULE ArtifactRetention_proofs -----------------------
(***************************************************************************)
(* What ArtifactRetention guarantees for any number of jobs, formats,      *)
(* replicas, failures and redeployments.  TypeOK and ObjectsReferenced are *)
(* inductive.  LiveHasBytes is not: it holds because a sweep only holds    *)
(* recordings whose time was up when it read them, and because whoever is  *)
(* to name an object has put it, which is what BytesInv says.              *)
(*                                                                         *)
(* At the end: what Sessions, which shares that storage, keeps.            *)
(***************************************************************************)
EXTENDS ArtifactRetention, MCSessions, Integers, TLAPS

-----------------------------------------------------------------------------
(* Types *)

LEMMA KeysOfJobs ==
    /\ \A k \in Keys : JobOf(k) \in Jobs
    /\ (CHOOSE k \in Keys : TRUE) \in Keys
    /\ Sent \subseteq Keys
<1>1. \A k \in Keys : JobOf(k) \in Jobs
  BY DEF Keys, JobOf
<1>2. \E k \in Keys : TRUE
  <2>1. PICK j \in Jobs, t \in Types : TRUE
    BY RetentionAssumption
  <2>2. <<j, t>> \in Keys
    BY DEF Keys
  <2> QED BY <2>2
<1> QED BY <1>1, <1>2, RetentionAssumption

LEMMA IdleType == config \in Configs => Idle \in Process
BY KeysOfJobs DEF Idle, Process, Step

\* A process stays well-formed when it stops or starts.
LEMMA StopType ==
    ASSUME TypeOK, NEW p, Stop(p)
    PROVE  process' \in [Processes -> Process]
BY IdleType DEF TypeOK, Stop, Become

LEMMA StartingType ==
    ASSUME TypeOK, NEW step \in Step
    PROVE  Starting(step) \in Process
BY IdleType DEF TypeOK, Starting, Process

LEMMA BecomeType ==
    ASSUME TypeOK, NEW p, NEW state \in Process, Become(p, state)
    PROVE  process' \in [Processes -> Process]
BY DEF TypeOK, Become

LEMMA GotoType ==
    ASSUME TypeOK, NEW p \in Processes, NEW step \in Step, Goto(p, step)
    PROVE  process' \in [Processes -> Process]
BY DEF TypeOK, Goto, Become, Process

LEMMA FailsType == TypeOK /\ (\E kind \in Faults : Fails(kind)) => failed' \in 0..MaxFaults
BY RetentionAssumption DEF TypeOK, Fails

RowsOK ==
    /\ rows \in [Jobs -> Row]
    /\ \A j \in Jobs : \/ rows[j] = NoRow
                       \/ StorageConsistent(rows[j]) /\ JobOf(rows[j].key) = j

\* The CHECK guards every UPDATE, and the forms themselves are well-typed.
LEMMA UpdateRowsType ==
    ASSUME RowsOK, NEW jobs \in SUBSET Jobs, NEW updated \in [Jobs -> Row],
           \A j \in jobs : StorageConsistent(updated[j]) => JobOf(updated[j].key) = j,
           UpdateRows(jobs, updated)
    PROVE  RowsOK'
BY DEF RowsOK, UpdateRows

\* An UPDATE that keeps the backend and the key changes no row that is absent.
LEMMA TombstoneType ==
    ASSUME RowsOK, NEW j \in Jobs
    PROVE  StorageConsistent([rows[j] EXCEPT !.data = FALSE, !.purged = TRUE])
             => JobOf(rows[j].key) = j
<1> DEFINE updated == [rows[j] EXCEPT !.data = FALSE, !.purged = TRUE]
<1>1. rows[j] \in Row /\ (rows[j].backend # "absent" => JobOf(rows[j].key) = j)
  BY DEF RowsOK, StorageConsistent, NoRow, Row
<1>2. updated.backend = rows[j].backend /\ ~updated.data /\ updated.purged
  BY <1>1 DEF Row
<1> HIDE DEF updated
<1> QED BY <1>1, <1>2 DEF StorageConsistent, updated

\* What the two tombstoning statements write, and the jobs they write it to.
LEMMA TombstonesAreRows ==
    ASSUME TypeOK, NEW p \in Processes
    PROVE  /\ [j \in Jobs |-> [rows[j] EXCEPT !.data = FALSE, !.purged = TRUE]] \in [Jobs -> Row]
           /\ [j \in Jobs |-> [rows[j] EXCEPT !.purged = TRUE]] \in [Jobs -> Row]
           /\ process[p].database \in SUBSET Jobs /\ process[p].reclaimed \in SUBSET Jobs
<1>1. \A j \in Jobs : rows[j] \in Row
  BY DEF TypeOK
<1>2. \A row \in Row : /\ [row EXCEPT !.data = FALSE, !.purged = TRUE] \in Row
                       /\ [row EXCEPT !.purged = TRUE] \in Row
  BY DEF Row
<1>3. process[p] \in Process
  BY DEF TypeOK
<1>4. process[p].database \in SUBSET Jobs /\ process[p].reclaimed \in SUBSET Jobs
  BY <1>3 DEF Process
<1> QED BY <1>1, <1>2, <1>4

LEMMA StoredType ==
    ASSUME TypeOK, NEW p \in Processes
    PROVE  /\ Stored(p) \in Row
           /\ StorageConsistent(Stored(p))
           /\ JobOf(Stored(p).key) = JobOf(process[p].key)
           /\ Stored(p).backend # "absent"
<1>1. process[p].config \in Config /\ process[p].key \in Keys
  BY RetentionAssumption DEF TypeOK, Process
<1>2. ResolveExpiry(p, JobOf(process[p].key)) \in Nat
  BY <1>1, KeysOfJobs, RetentionAssumption DEF ResolveExpiry, Config
<1> QED BY <1>1, <1>2 DEF Stored, Row, StorageConsistent, Config

LEMMA PutType ==
    ASSUME TypeOK, NEW k \in Keys, Put(k)
    PROVE  bucket' \subseteq Keys /\ taken' \subseteq Keys /\ left' \subseteq Keys
BY DEF TypeOK, Put

LEMMA LeavesType ==
    ASSUME TypeOK, NEW p, Leaves(p)
    PROVE  left' \subseteq Keys
BY DEF TypeOK, Leaves

LEMMA TypeStep == TypeOK /\ [Next]_vars => TypeOK'
<1> SUFFICES ASSUME TypeOK, [Next]_vars PROVE TypeOK'
  OBVIOUS
<1>0. /\ \A p \in Processes : process[p] \in Process
      /\ \A p \in Processes : process[p].key \in Keys /\ JobOf(process[p].key) \in Jobs
      /\ \A p \in Processes : process[p].todo \subseteq Keys
      /\ RowsOK
  BY KeysOfJobs DEF TypeOK, Process, RowsOK
<1>1. ASSUME NEW p \in Processes, Request(p) PROVE TypeOK'
  <2>1. CASE \E k \in Sent : UploadArrives(p, k)
    <3>1. PICK k \in Sent : UploadArrives(p, k)
      BY <2>1
    <3>2. Starting(IF config.storage THEN "put" ELSE "insert") \in Process
      BY StartingType DEF Step
    <3>3. k \in Keys /\ config \in Configs
      BY KeysOfJobs DEF TypeOK
    <3>4. process' \in [Processes -> Process]
      BY <3>1, <3>2, <3>3, BecomeType DEF UploadArrives, Process
    <3> QED BY <3>1, <3>4 DEF UploadArrives, TypeOK, history
  <2>2. CASE \E j \in Jobs : FindContent(p, j)
    <3>1. PICK j \in Jobs : FindContent(p, j)
      BY <2>2
    <3>2. Starting("get") \in Process
      BY StartingType DEF Step
    <3>3. rows[j].key \in Keys
      BY DEF TypeOK, Row
    <3>4. process' \in [Processes -> Process]
      BY <3>1, <3>2, <3>3, BecomeType DEF FindContent, Process
    <3> QED BY <3>1, <3>4 DEF FindContent, TypeOK, history
  <2> QED BY <1>1, <2>1, <2>2 DEF Request
<1>2. ASSUME NEW p \in Processes, Continue(p) PROVE TypeOK'
  <2>0. process[p] \in Process /\ process[p].key \in Keys /\ JobOf(process[p].key) \in Jobs
    BY <1>0
  <2>1. CASE PutObject(p)
    BY <2>0, <2>1, GotoType, PutType DEF PutObject, TypeOK, Step
  <2>2. CASE InsertRow(p)
    <3> DEFINE j == JobOf(process[p].key)
    <3>1. rows' = [rows EXCEPT ![j] = Stored(p)]
      BY <2>2 DEF InsertRow
    <3>2. RowsOK'
      BY <1>0, <2>0, <3>1, StoredType DEF RowsOK
    <3>3. left' \subseteq Keys /\ revived' \subseteq Jobs
      BY <2>0, <2>2 DEF InsertRow, TypeOK
    <3>4. process' \in [Processes -> Process]
      BY <2>2, StopType DEF InsertRow
    <3> QED BY <2>2, <3>2, <3>3, <3>4 DEF InsertRow, TypeOK, RowsOK
  <2>3. CASE Cleanup(p)
    BY <2>0, <2>3, StopType DEF Cleanup, Delete, TypeOK
  <2>4. CASE GetObject(p)
    BY <2>4, StopType DEF GetObject, TypeOK, history
  <2>5. CASE SweepSelects(p)
    <3>1. Starting("delete") \in Process
      BY StartingType DEF Step
    <3>2. PICK batch \in Batches :
             Become(p, [Starting("delete") EXCEPT
                          !.todo = IF config.storage
                                   THEN {rows[j].key : j \in {i \in batch : rows[i].backend = "object"}}
                                   ELSE {},
                          !.database =
                             batch \ {j \in batch : rows[j].backend = "object"}])
      BY <2>5 DEF SweepSelects
    <3>3. batch \subseteq Jobs
      BY DEF Batches, Candidates
    <3>4. \A j \in Jobs : rows[j].key \in Keys
      BY DEF TypeOK, Row
    <3>5. process' \in [Processes -> Process]
      BY <3>1, <3>2, <3>3, <3>4, BecomeType DEF Process
    <3> QED BY <2>5, <3>5 DEF SweepSelects, TypeOK, history
  <2>6. CASE DeleteObject(p)
    <3>1. PICK k \in process[p].todo :
             /\ Delete(k)
             /\ taken' = IF Expired(JobOf(k)) \/ JobOf(k) \in revived
                         THEN taken \union {k} ELSE taken
             /\ Deleted(p, k, {JobOf(k)})
      BY <2>6 DEF DeleteObject
    <3>2. k \in Keys /\ JobOf(k) \in Jobs
      BY <1>0, KeysOfJobs
    <3>3. process' \in [Processes -> Process]
      BY <2>0, <3>1, <3>2, BecomeType DEF Deleted, Process
    <3>4. bucket' \subseteq Keys /\ left' \subseteq Keys /\ taken' \subseteq Keys
      BY <3>1, <3>2 DEF Delete, TypeOK
    <3> QED BY <2>6, <3>3, <3>4 DEF DeleteObject, TypeOK
  <2>7. CASE TombstoneDatabase(p)
    <3> DEFINE updated == [j \in Jobs |-> [rows[j] EXCEPT !.data = FALSE, !.purged = TRUE]]
    <3>1. updated \in [Jobs -> Row]
      BY TombstonesAreRows
    <3>2. \A j \in Jobs : StorageConsistent(updated[j]) => JobOf(updated[j].key) = j
      <4>1. ASSUME NEW j \in Jobs
            PROVE  /\ updated[j] = [rows[j] EXCEPT !.data = FALSE, !.purged = TRUE]
                   /\ updated[j].key = rows[j].key
        BY <1>0 DEF RowsOK, Row
      <4>2. ASSUME NEW j \in Jobs, StorageConsistent(updated[j]) PROVE JobOf(updated[j].key) = j
        BY <1>0, <4>1, <4>2, TombstoneType
      <4> QED BY <4>2
    <3>3. process[p].database \in SUBSET Jobs /\ UpdateRows(process[p].database, updated)
      BY <2>0, <2>7 DEF TombstoneDatabase, Process
    <3>4. RowsOK'
      BY <1>0, <3>1, <3>2, <3>3, UpdateRowsType
    <3> QED BY <2>7, <3>4, GotoType DEF TombstoneDatabase, TypeOK, RowsOK, Step, history
  <2>8. CASE TombstoneObjects(p)
    <3> DEFINE updated == [j \in Jobs |-> [rows[j] EXCEPT !.purged = TRUE]]
    <3>1. updated \in [Jobs -> Row]
      BY TombstonesAreRows
    <3>2. \A j \in Jobs : StorageConsistent(updated[j]) => JobOf(updated[j].key) = j
      BY <1>0, <3>1 DEF RowsOK, Row, StorageConsistent, NoRow
    <3>3. process[p].reclaimed \in SUBSET Jobs /\ UpdateRows(process[p].reclaimed, updated)
      BY <2>0, <2>8 DEF TombstoneObjects, Process
    <3>4. RowsOK'
      BY <1>0, <3>1, <3>2, <3>3, UpdateRowsType
    <3> QED BY <2>8, <3>4, StopType DEF TombstoneObjects, TypeOK, RowsOK, history
  <2>9. CASE BackfillPuts(p)
    <3>1. PICK k \in process[p].todo :
             /\ Put(k)
             /\ Become(p, [process[p] EXCEPT !.at = "flip", !.key = k,
                                             !.todo = @ \ {k}])
      BY <2>9 DEF BackfillPuts
    <3>2. k \in Keys
      BY <1>0
    <3>3. process' \in [Processes -> Process]
      BY <2>0, <3>1, <3>2, BecomeType DEF Process, Step
    <3> QED BY <2>9, <3>1, <3>2, <3>3, PutType DEF BackfillPuts, TypeOK
  <2>10. CASE BackfillFlips(p)
    <3> DEFINE j == JobOf(process[p].key)
               jobs == {i \in {j} : rows[i].backend = "postgres"}
               updated == [i \in Jobs |-> [rows[i] EXCEPT !.data = FALSE,
                                                          !.backend = "object",
                                                          !.key = process[p].key]]
    <3>1. updated \in [Jobs -> Row]
      BY <2>0 DEF TypeOK, Row
    <3>2. jobs \in SUBSET Jobs /\ \A i \in jobs : JobOf(updated[i].key) = i
      BY <2>0 DEF TypeOK, Row
    <3>3. UpdateRows(jobs, updated)
      BY <2>10 DEF BackfillFlips
    <3>4. RowsOK'
      BY <1>0, <3>1, <3>2, <3>3, UpdateRowsType
    <3>5. process' \in [Processes -> Process]
      BY <2>10, StopType, GotoType DEF BackfillFlips, Step
    <3>6. left' \subseteq Keys
      BY <2>10, LeavesType DEF BackfillFlips, TypeOK
    <3> QED BY <2>10, <3>4, <3>5, <3>6 DEF BackfillFlips, TypeOK, RowsOK
  <2> QED BY <1>2, <2>1, <2>2, <2>3, <2>4, <2>5, <2>6, <2>7, <2>8, <2>9, <2>10
             DEF Continue
<1>3. ASSUME NEW p \in Processes, BackfillSelects(p) PROVE TypeOK'
  <2>1. Starting("move") \in Process
    BY StartingType DEF Step
  <2>2. PICK jobs \in SUBSET Jobs :
           Become(p, [Starting("move") EXCEPT !.todo = {rows[j].key : j \in jobs}])
    BY <1>3 DEF BackfillSelects
  <2>3. \A j \in Jobs : rows[j].key \in Keys
    BY DEF TypeOK, Row
  <2>4. process' \in [Processes -> Process]
    BY <2>1, <2>2, <2>3, BecomeType DEF Process
  <2> QED BY <1>3, <2>4 DEF BackfillSelects, TypeOK, history
<1>4. ASSUME NEW p \in Processes, Fault(p) PROVE TypeOK'
  <2>0. process[p] \in Process
    BY DEF TypeOK
  <2>1. CASE PutObjectThrows(p)
    BY <2>1, StopType, FailsType DEF PutObjectThrows, Fails, TypeOK, history
  <2>2. CASE InsertRowThrows(p)
    BY <2>2, StopType, GotoType, FailsType DEF InsertRowThrows, Fails, TypeOK, Step, history
  <2>3. CASE DeleteObjectThrows(p)
    <3>1. PICK k \in process[p].todo : Fails("delete") /\ Deleted(p, k, {})
      BY <2>3 DEF DeleteObjectThrows
    <3>2. process' \in [Processes -> Process]
      BY <2>0, <3>1, BecomeType DEF Deleted, Process
    <3>3. failed' \in 0..MaxFaults
      BY <3>1, FailsType DEF Fails
    <3> QED BY <2>3, <3>2, <3>3 DEF DeleteObjectThrows, TypeOK, history
  <2>4. CASE BackfillPutThrows(p)
    BY <2>0, <2>4, IdleType, FailsType
       DEF BackfillPutThrows, Fails, Become, TypeOK, Process, history
  <2>5. CASE UpdateThrows(p)
    BY <2>5, StopType, FailsType, LeavesType DEF UpdateThrows, Fails, TypeOK
  <2>6. CASE Killed(p)
    BY <2>6, StopType, FailsType, LeavesType DEF Killed, Fails, TypeOK
  <2> QED BY <1>4, <2>1, <2>2, <2>3, <2>4, <2>5, <2>6 DEF Fault
<1>5. CASE Redeploy
  BY <1>5, RetentionAssumption DEF Redeploy, TypeOK, history
<1>6. CASE Tick
  BY <1>6, RetentionAssumption DEF Tick, TypeOK, history
<1>7. CASE UNCHANGED vars
  BY <1>7 DEF vars, history, TypeOK
<1> QED BY <1>1, <1>2, <1>3, <1>4, <1>5, <1>6, <1>7 DEF Next

LEMMA InitType == Init => TypeOK
BY IdleType, KeysOfJobs, RetentionAssumption DEF Init, TypeOK, NoRow, Row

\* Rows satisfy the CHECK, a row's key is its own job's, and processes stay
\* well-formed, whatever fails.
THEOREM TypeCorrect == Spec => []TypeOK
BY InitType, TypeStep, PTL DEF Spec

-----------------------------------------------------------------------------
(* Bytes.  Whoever is to name or to get an object has it, or it was taken; a *)
(* sweep holds no live recording, unless it was stored under that sweep.     *)

Stays(k) == k \in bucket \/ k \in taken
Live(j) == rows[j].backend # "absent" /\ ~Expired(j) /\ j \notin revived
Needs(p, k) ==
    \/ HasPut(p, k) /\ process[p].at # "cleanup"
    \/ process[p].at = "get" /\ process[p].key = k

ObjectsStay ==
    /\ \A j \in Jobs : rows[j].backend = "object" => Stays(rows[j].key)
    /\ \A p \in Processes, k \in Keys : Needs(p, k) => Stays(k)

LiveUntouched ==
    \A j \in Jobs : Live(j) =>
        /\ ~rows[j].purged
        /\ \A p \in Processes : ~SweepHolds(p, j)

BytesInv == ObjectsStay /\ LiveUntouched

\* A step in which no object goes that was not taken: only the rows it makes
\* object rows, and the keys its process comes to need, are left to look at.
LEMMA ObjectsStayByParts ==
    ASSUME TypeOK, ObjectsStay, NEW p \in Processes, NEW q, Become(p, q),
           \A k \in Keys : Stays(k) => Stays(k)',
           \A k \in Keys : Needs(p, k)' => Stays(k)',
           \A j \in Jobs : rows'[j].backend = "object" =>
               \/ rows'[j].key = rows[j].key /\ rows[j].backend = "object"
               \/ Stays(rows[j].key)'
    PROVE  ObjectsStay'
<1>1. \A j \in Jobs : rows[j].key \in Keys
  BY DEF TypeOK, Row
<1>2. \A j \in Jobs : rows'[j].backend = "object" => Stays(rows[j].key)'
  BY <1>1 DEF ObjectsStay
<1>3. \A r \in Processes : r # p => process'[r] = process[r]
  BY DEF TypeOK, Become
<1>4. \A r \in Processes, k \in Keys : r # p => (Needs(r, k)' => Needs(r, k))
  BY <1>3 DEF Needs, HasPut
<1>5. \A r \in Processes, k \in Keys : Needs(r, k)' => Stays(k)'
  BY <1>4 DEF ObjectsStay
<1> QED BY <1>2, <1>5 DEF ObjectsStay

\* A step that stores no row, stamps none a sweep does not hold, and after which
\* its process holds nothing live that it did not hold before.
LEMMA LiveByParts ==
    ASSUME TypeOK, LiveUntouched, NEW p \in Processes, NEW q, Become(p, q),
           now' \in Nat, now <= now', UNCHANGED revived,
           \A j \in Jobs :
              /\ rows'[j].backend # "absent" => rows[j].backend # "absent"
              /\ rows'[j].expires = rows[j].expires
              /\ rows'[j].purged => rows[j].purged \/ SweepHolds(p, j),
           \A j \in Jobs : SweepHolds(p, j)' => SweepHolds(p, j) \/ Expired(j)
    PROVE  LiveUntouched'
<1>1. now \in Nat /\ \A j \in Jobs : rows[j].expires \in Nat
  BY RetentionAssumption DEF TypeOK, Row
<1>2. \A j \in Jobs : Live(j)' => Live(j)
  BY <1>1 DEF Live, Expired
<1>3. \A r \in Processes : r # p => process'[r] = process[r]
  BY DEF TypeOK, Become
<1>4. \A j \in Jobs : Live(j)' => ~rows'[j].purged
  BY <1>2 DEF LiveUntouched
<1>5. \A j \in Jobs, r \in Processes : r # p => (SweepHolds(r, j)' <=> SweepHolds(r, j))
  BY <1>3 DEF SweepHolds
<1>6. \A j \in Jobs, r \in Processes : Live(j)' => ~SweepHolds(r, j)'
  BY <1>2, <1>5 DEF LiveUntouched, Live
<1> QED BY <1>4, <1>6 DEF LiveUntouched

\* What an UPDATE leaves of a row: its own values or its form's.
LEMMA UpdatedRows ==
    ASSUME TypeOK, NEW jobs \in SUBSET Jobs, NEW updated \in [Jobs -> Row],
           UpdateRows(jobs, updated), NEW j \in Jobs
    PROVE  \/ rows'[j] = rows[j]
           \/ j \in jobs /\ rows'[j] = updated[j] /\ StorageConsistent(updated[j])
BY DEF TypeOK, UpdateRows

LEMMA PutStays ==
    ASSUME NEW k, Put(k)
    PROVE  \A l \in Keys : Stays(l) \/ l = k => Stays(l)'
BY DEF Put, Stays

LEMMA ObjectsStayStep ==
    ASSUME TypeOK, BytesInv, [Next]_vars
    PROVE  ObjectsStay'
<1>0. /\ ObjectsStay
      /\ \A p \in Processes : process[p] \in Process /\ process[p].key \in Keys
  BY DEF BytesInv, TypeOK, Process
<1>1. ASSUME NEW p \in Processes, Request(p) PROVE ObjectsStay'
  <2>1. CASE \E k \in Sent : UploadArrives(p, k)
    <3>1. PICK k \in Sent : UploadArrives(p, k)
      BY <2>1
    <3> DEFINE q == [Starting(IF config.storage THEN "put" ELSE "insert")
                       EXCEPT !.key = k, !.config = config]
    <3>2. Become(p, q) /\ UNCHANGED <<rows, bucket, taken>>
      BY <3>1 DEF UploadArrives, history
    <3>3. q.at # "get" /\ q.at # "flip" /\ (q.at = "insert" => ~q.config.storage)
      BY DEF Starting, Idle
    <3>4. process'[p] = q
      BY <3>2 DEF Become, TypeOK
    <3>5. \A l \in Keys : ~Needs(p, l)'
      BY <3>3, <3>4 DEF Needs, HasPut
    <3> HIDE DEF q
    <3> QED BY <1>0, <3>2, <3>5, ObjectsStayByParts DEF Stays
  <2>2. CASE \E j \in Jobs : FindContent(p, j)
    <3>1. PICK j \in Jobs : FindContent(p, j)
      BY <2>2
    <3> DEFINE q == [Starting("get") EXCEPT !.key = rows[j].key]
    <3>2. Become(p, q) /\ UNCHANGED <<rows, bucket, taken>>
      BY <3>1 DEF FindContent, history
    <3>3. q.key = rows[j].key
      BY DEF Starting, Idle
    <3>4. process'[p] = q
      BY <3>2 DEF Become, TypeOK
    <3>5. \A l \in Keys : Needs(p, l)' => l = rows[j].key
      BY <3>3, <3>4 DEF Needs, HasPut
    <3>6. Stays(rows[j].key)
      BY <1>0, <3>1 DEF FindContent, ObjectsStay
    <3> HIDE DEF q
    <3> QED BY <1>0, <3>2, <3>5, <3>6, ObjectsStayByParts DEF Stays
  <2> QED BY <1>1, <2>1, <2>2 DEF Request
<1>2. ASSUME NEW p \in Processes, Stop(p), UNCHANGED <<rows, bucket, taken>>
      PROVE  ObjectsStay'
  <2>1. Become(p, Idle) /\ process'[p] = Idle
    BY <1>2 DEF Stop, Become, TypeOK
  <2>2. \A l \in Keys : ~Needs(p, l)'
    BY <2>1 DEF Needs, HasPut, Idle
  <2> QED BY <1>0, <1>2, <2>1, <2>2, ObjectsStayByParts DEF Stays
<1>3. ASSUME NEW p \in Processes, NEW q, Become(p, q),
             q.at \notin {"insert", "flip", "get"}, UNCHANGED <<rows, bucket, taken>>
      PROVE  ObjectsStay'
  <2>1. process'[p] = q
    BY <1>3 DEF Become, TypeOK
  <2>2. \A l \in Keys : ~Needs(p, l)'
    BY <1>3, <2>1 DEF Needs, HasPut
  <2> QED BY <1>0, <1>3, <2>2, ObjectsStayByParts DEF Stays
<1>4. ASSUME NEW p \in Processes, Continue(p) PROVE ObjectsStay'
  <2>0. process[p] \in Process /\ process[p].key \in Keys
    BY <1>0
  <2>1. CASE PutObject(p)
    <3>1. Become(p, [process[p] EXCEPT !.at = "insert"]) /\ Put(process[p].key) /\ UNCHANGED rows
      BY <2>1 DEF PutObject, Goto
    <3>2. process'[p] = [process[p] EXCEPT !.at = "insert"]
      BY <3>1 DEF Become, TypeOK
    <3>3. \A l \in Keys : Needs(p, l)' => l = process[p].key
      BY <2>0, <3>2 DEF Needs, HasPut, Process
    <3> QED BY <1>0, <3>1, <3>3, PutStays, ObjectsStayByParts
  <2>2. CASE InsertRow(p)
    <3> DEFINE j == JobOf(process[p].key)
    <3>1. rows' = [rows EXCEPT ![j] = Stored(p)] /\ UNCHANGED <<bucket, taken>> /\ Become(p, Idle)
      BY <2>2 DEF InsertRow, Stop
    <3>2. process'[p] = Idle
      BY <3>1 DEF Become, TypeOK
    <3>3. \A l \in Keys : ~Needs(p, l)'
      BY <3>2 DEF Needs, HasPut, Idle
    <3>4. Stored(p).backend = "object" => Stored(p).key = process[p].key /\ Stays(process[p].key)
      BY <1>0, <2>0, <2>2 DEF Stored, InsertRow, ObjectsStay, Needs, HasPut
    <3>5. \A i \in Jobs : rows'[i] = rows[i] \/ (i = j /\ rows'[i] = Stored(p))
      BY <3>1 DEF TypeOK
    <3> HIDE DEF j
    <3> QED BY <1>0, <3>1, <3>3, <3>4, <3>5, ObjectsStayByParts DEF Stays
  <2>3. CASE Cleanup(p)
    <3>1. /\ bucket' = bucket \ {process[p].key} /\ taken' = taken \union {process[p].key}
          /\ Become(p, Idle) /\ UNCHANGED rows
      BY <2>3 DEF Cleanup, Delete, Stop
    <3>2. process'[p] = Idle
      BY <3>1 DEF Become, TypeOK
    <3>3. \A l \in Keys : ~Needs(p, l)'
      BY <3>2 DEF Needs, HasPut, Idle
    <3> QED BY <1>0, <3>1, <3>3, ObjectsStayByParts DEF Stays
  <2>4. CASE GetObject(p)
    BY <1>2, <2>4 DEF GetObject, history
  <2>5. CASE SweepSelects(p)
    <3>1. PICK batch \in Batches :
             Become(p, [Starting("delete") EXCEPT
                          !.todo = IF config.storage
                                   THEN {rows[j].key : j \in {i \in batch : rows[i].backend = "object"}}
                                   ELSE {},
                          !.database =
                             batch \ {j \in batch : rows[j].backend = "object"}])
      BY <2>5 DEF SweepSelects
    <3>2. UNCHANGED <<rows, bucket, taken>>
      BY <2>5 DEF SweepSelects, history
    <3> QED BY <1>3, <3>1, <3>2 DEF Starting, Idle
  <2>6. CASE DeleteObject(p)
    <3>1. PICK k \in process[p].todo :
             /\ bucket' = bucket \ {k}
             /\ taken' = IF Expired(JobOf(k)) \/ JobOf(k) \in revived
                         THEN taken \union {k} ELSE taken
             /\ Become(p, [process[p] EXCEPT !.todo = @ \ {k}, !.reclaimed = @ \union {JobOf(k)}])
      BY <2>6 DEF DeleteObject, Delete, Deleted
    <3>2. k \in Keys /\ JobOf(k) \in Jobs /\ process[p].at = "delete" /\ UNCHANGED rows
      BY <2>0, <2>6, KeysOfJobs DEF DeleteObject, Process
    <3>3. SweepHolds(p, JobOf(k))
      BY <3>2 DEF SweepHolds
    <3>4. ~Live(JobOf(k))
      BY <3>2, <3>3 DEF BytesInv, LiveUntouched
    <3>5. rows[JobOf(k)].backend = "absent" => Expired(JobOf(k))
      BY <3>2, RetentionAssumption DEF TypeOK, StorageConsistent, NoRow, Expired
    <3>6. taken' = taken \union {k}
      BY <3>1, <3>4, <3>5 DEF Live
    <3>7. \A l \in Keys : Stays(l) => Stays(l)'
      BY <3>1, <3>6 DEF Stays
    <3>8. process'[p] = [process[p] EXCEPT !.todo = @ \ {k}, !.reclaimed = @ \union {JobOf(k)}]
      BY <3>1 DEF Become, TypeOK
    <3>9. \A l \in Keys : ~Needs(p, l)'
      BY <2>0, <3>2, <3>8 DEF Needs, HasPut, Process
    <3> QED BY <1>0, <3>1, <3>2, <3>7, <3>9, ObjectsStayByParts
  <2>7. CASE TombstoneDatabase(p)
    <3> DEFINE updated == [j \in Jobs |-> [rows[j] EXCEPT !.data = FALSE, !.purged = TRUE]]
    <3>1. updated \in [Jobs -> Row] /\ process[p].database \in SUBSET Jobs
      BY TombstonesAreRows
    <3>2. UpdateRows(process[p].database, updated)
      BY <2>7 DEF TombstoneDatabase
    <3>3. \A j \in Jobs : updated[j].backend = rows[j].backend /\ updated[j].key = rows[j].key
      BY DEF TypeOK, Row
    <3> HIDE DEF updated
    <3>4. \A j \in Jobs : rows'[j].backend = rows[j].backend /\ rows'[j].key = rows[j].key
      BY <3>1, <3>2, <3>3, UpdatedRows
    <3>5. Become(p, [process[p] EXCEPT !.at = "tombstone_objects"]) /\ UNCHANGED <<bucket, taken>>
      BY <2>7 DEF TombstoneDatabase, Goto, history
    <3>6. process'[p] = [process[p] EXCEPT !.at = "tombstone_objects"]
      BY <3>5 DEF Become, TypeOK
    <3>7. \A l \in Keys : ~Needs(p, l)'
      BY <2>0, <3>6 DEF Needs, HasPut, Process
    <3> QED BY <1>0, <3>4, <3>5, <3>7, ObjectsStayByParts DEF Stays
  <2>8. CASE TombstoneObjects(p)
    <3> DEFINE updated == [j \in Jobs |-> [rows[j] EXCEPT !.purged = TRUE]]
    <3>1. updated \in [Jobs -> Row] /\ process[p].reclaimed \in SUBSET Jobs
      BY TombstonesAreRows
    <3>2. UpdateRows(process[p].reclaimed, updated)
      BY <2>8 DEF TombstoneObjects
    <3>3. \A j \in Jobs : updated[j].backend = rows[j].backend /\ updated[j].key = rows[j].key
      BY DEF TypeOK, Row
    <3> HIDE DEF updated
    <3>4. \A j \in Jobs : rows'[j].backend = rows[j].backend /\ rows'[j].key = rows[j].key
      BY <3>1, <3>2, <3>3, UpdatedRows
    <3>5. Become(p, Idle) /\ UNCHANGED <<bucket, taken>>
      BY <2>8 DEF TombstoneObjects, Stop, history
    <3>6. process'[p] = Idle
      BY <3>5 DEF Become, TypeOK
    <3>7. \A l \in Keys : ~Needs(p, l)'
      BY <3>6 DEF Needs, HasPut, Idle
    <3> QED BY <1>0, <3>4, <3>5, <3>7, ObjectsStayByParts DEF Stays
  <2>9. CASE BackfillPuts(p)
    <3>1. PICK k \in process[p].todo :
             /\ Put(k)
             /\ Become(p, [process[p] EXCEPT !.at = "flip", !.key = k,
                                             !.todo = @ \ {k}])
      BY <2>9 DEF BackfillPuts
    <3>2. k \in Keys /\ UNCHANGED rows
      BY <2>0, <2>9 DEF Process, BackfillPuts
    <3>3. process'[p] = [process[p] EXCEPT !.at = "flip", !.key = k, !.todo = @ \ {k}]
      BY <3>1 DEF Become, TypeOK
    <3>4. \A l \in Keys : Needs(p, l)' => l = k
      BY <2>0, <3>3 DEF Needs, HasPut, Process
    <3> QED BY <1>0, <3>1, <3>2, <3>4, PutStays, ObjectsStayByParts
  <2>10. CASE BackfillFlips(p)
    <3> DEFINE jobs == {i \in {JobOf(process[p].key)} : rows[i].backend = "postgres"}
               updated == [i \in Jobs |-> [rows[i] EXCEPT !.data = FALSE,
                                                          !.backend = "object",
                                                          !.key = process[p].key]]
    <3>1. updated \in [Jobs -> Row] /\ jobs \in SUBSET Jobs
      BY <2>0, KeysOfJobs DEF TypeOK, Row
    <3>2. UpdateRows(jobs, updated) /\ UNCHANGED <<bucket, taken>>
      BY <2>10 DEF BackfillFlips
    <3>3. \A j \in Jobs : updated[j].key = process[p].key
      BY <2>0 DEF TypeOK, Row
    <3>4. Stays(process[p].key)
      BY <1>0, <2>0, <2>10 DEF BackfillFlips, ObjectsStay, Needs, HasPut
    <3> HIDE DEF updated, jobs
    <3>5. \A j \in Jobs : rows'[j] = rows[j] \/ rows'[j].key = process[p].key
      BY <3>1, <3>2, <3>3, UpdatedRows
    <3>6. PICK q : Become(p, q) /\ (q = Idle \/ q = [process[p] EXCEPT !.at = "move"])
      BY <2>10 DEF BackfillFlips, Stop, Goto
    <3>7. process'[p] = q
      BY <3>6 DEF Become, TypeOK
    <3>8. \A l \in Keys : ~Needs(p, l)'
      BY <2>0, <3>6, <3>7 DEF Needs, HasPut, Process, Idle
    <3> QED BY <1>0, <3>2, <3>4, <3>5, <3>6, <3>8, ObjectsStayByParts DEF Stays
  <2> QED BY <1>4, <2>1, <2>2, <2>3, <2>4, <2>5, <2>6, <2>7, <2>8, <2>9, <2>10
             DEF Continue
<1>5. ASSUME NEW p \in Processes, BackfillSelects(p) PROVE ObjectsStay'
  <2>1. PICK jobs \in SUBSET Jobs :
           Become(p, [Starting("move") EXCEPT !.todo = {rows[j].key : j \in jobs}])
    BY <1>5 DEF BackfillSelects
  <2> QED BY <1>3, <1>5, <2>1 DEF BackfillSelects, Starting, Idle, history
<1>6. ASSUME NEW p \in Processes, Fault(p) PROVE ObjectsStay'
  <2>0. process[p] \in Process
    BY <1>0
  <2>1. CASE PutObjectThrows(p)
    BY <1>2, <2>1 DEF PutObjectThrows, history
  <2>2. CASE InsertRowThrows(p)
    BY <1>2, <1>3, <2>0, <2>2 DEF InsertRowThrows, Goto, Process, history
  <2>3. CASE DeleteObjectThrows(p)
    BY <1>3, <2>0, <2>3 DEF DeleteObjectThrows, Deleted, Process, history
  <2>4. CASE BackfillPutThrows(p)
    BY <1>3, <2>0, <2>4 DEF BackfillPutThrows, Process, Idle, history
  <2>5. CASE UpdateThrows(p)
    BY <1>2, <2>5 DEF UpdateThrows
  <2>6. CASE Killed(p)
    BY <1>2, <2>6 DEF Killed
  <2> QED BY <1>6, <2>1, <2>2, <2>3, <2>4, <2>5, <2>6 DEF Fault
<1>7. ASSUME UNCHANGED <<rows, bucket, taken, process>> PROVE ObjectsStay'
  BY <1>0, <1>7 DEF ObjectsStay, Stays, Needs, HasPut
<1> QED BY <1>1, <1>4, <1>5, <1>6, <1>7 DEF Next, Redeploy, Tick, vars, history

\* A step of p that leaves rows and clock alone and takes nothing into its hands.
LEMMA LiveByProcess ==
    ASSUME TypeOK, LiveUntouched, NEW p \in Processes, NEW q, Become(p, q),
           UNCHANGED <<now, rows, revived>>,
           q.database = {}, q.reclaimed = {},
           q.at = "delete" => q.todo = {}
    PROVE  LiveUntouched'
<1>1. process'[p] = q
  BY DEF Become, TypeOK
<1>2. \A j \in Jobs : ~SweepHolds(p, j)'
  BY <1>1 DEF SweepHolds
<1>3. now' \in Nat /\ now <= now'
  BY RetentionAssumption DEF TypeOK
<1> QED BY <1>2, <1>3, LiveByParts

LEMMA LiveUntouchedStep ==
    ASSUME TypeOK, BytesInv, [Next]_vars
    PROVE  LiveUntouched'
<1>0. /\ LiveUntouched /\ now \in Nat
      /\ \A p \in Processes : process[p] \in Process /\ process[p].key \in Keys
      /\ \A j \in Jobs : rows[j].expires \in Nat
  BY RetentionAssumption DEF BytesInv, TypeOK, Process, Row
<1>1. ASSUME NEW p \in Processes, Stop(p), UNCHANGED <<now, rows, revived>>
      PROVE  LiveUntouched'
  BY <1>0, <1>1, LiveByProcess DEF Stop, Idle
\* A process that goes on with what it held.
<1>2. ASSUME NEW p \in Processes, NEW q, Become(p, q), UNCHANGED <<now, rows, revived>>,
             q.database \subseteq process[p].database,
             q.reclaimed \subseteq process[p].reclaimed,
             q.at = "delete" => process[p].at = "delete" /\ q.todo \subseteq process[p].todo
      PROVE  LiveUntouched'
  <2>1. process'[p] = q
    BY <1>2 DEF Become, TypeOK
  <2>2. \A j \in Jobs : SweepHolds(p, j)' => SweepHolds(p, j)
    BY <1>2, <2>1 DEF SweepHolds
  <2> QED BY <1>0, <1>2, <2>2, LiveByParts
<1>3. ASSUME NEW p \in Processes, Request(p) PROVE LiveUntouched'
  <2>1. CASE \E k \in Sent : UploadArrives(p, k)
    <3>1. PICK k \in Sent : UploadArrives(p, k)
      BY <2>1
    <3> DEFINE q == [Starting(IF config.storage THEN "put" ELSE "insert")
                       EXCEPT !.key = k, !.config = config]
    <3>2. Become(p, q) /\ UNCHANGED <<now, rows, revived>>
      BY <3>1 DEF UploadArrives, history
    <3>3. q.database = {} /\ q.reclaimed = {} /\ q.todo = {}
      BY DEF Starting, Idle
    <3> HIDE DEF q
    <3> QED BY <1>0, <3>2, <3>3, LiveByProcess
  <2>2. CASE \E j \in Jobs : FindContent(p, j)
    <3>1. PICK j \in Jobs : FindContent(p, j)
      BY <2>2
    <3> DEFINE q == [Starting("get") EXCEPT !.key = rows[j].key]
    <3>2. Become(p, q) /\ UNCHANGED <<now, rows, revived>>
      BY <3>1 DEF FindContent, history
    <3>3. q.database = {} /\ q.reclaimed = {} /\ q.todo = {}
      BY DEF Starting, Idle
    <3> HIDE DEF q
    <3> QED BY <1>0, <3>2, <3>3, LiveByProcess
  <2> QED BY <1>3, <2>1, <2>2 DEF Request
<1>4. ASSUME NEW p \in Processes, Continue(p) PROVE LiveUntouched'
  <2>0. process[p] \in Process /\ process[p].key \in Keys
    BY <1>0
  <2>1. CASE PutObject(p)
    BY <1>2, <2>0, <2>1 DEF PutObject, Goto, Process
  <2>2. CASE InsertRow(p)
    <3>1. PICK j \in Jobs :
             /\ rows' = [rows EXCEPT ![j] = Stored(p)] /\ Become(p, Idle) /\ now' = now
             /\ revived' = IF \E q \in Processes : SweepHolds(q, j)
                           THEN revived \union {j} ELSE revived \ {j}
      BY <2>0, <2>2, KeysOfJobs DEF InsertRow, Stop
    <3>3. process'[p] = Idle /\ \A q \in Processes : q # p => process'[q] = process[q]
      BY <3>1 DEF Become, TypeOK
    <3>4. \A q \in Processes, i \in Jobs : SweepHolds(q, i)' => SweepHolds(q, i)
      BY <3>3 DEF SweepHolds, Idle
    <3>5. rows'[j] = Stored(p) /\ \A i \in Jobs : i # j => rows'[i] = rows[i]
      BY <3>1 DEF TypeOK
    <3>6. Stored(p).purged = FALSE
      BY DEF Stored
    <3>7. \A i \in Jobs : i # j => (Live(i)' => Live(i))
      BY <3>1, <3>5 DEF Live, Expired
    <3>8. Live(j)' => \A q \in Processes : ~SweepHolds(q, j)
      BY <3>1 DEF Live
    <3>9. ASSUME NEW i \in Jobs, Live(i)'
          PROVE  ~rows'[i].purged /\ \A q \in Processes : ~SweepHolds(q, i)'
      <4>1. CASE i = j
        BY <3>4, <3>5, <3>6, <3>8, <3>9, <4>1
      <4>2. CASE i # j
        BY <1>0, <3>4, <3>5, <3>7, <3>9, <4>2 DEF LiveUntouched
      <4> QED BY <4>1, <4>2
    <3> QED BY <3>9 DEF LiveUntouched
  <2>3. CASE Cleanup(p)
    BY <1>1, <2>3 DEF Cleanup
  <2>4. CASE GetObject(p)
    BY <1>1, <2>4 DEF GetObject, history
  <2>5. CASE SweepSelects(p)
    <3>1. PICK batch \in Batches :
             Become(p, [Starting("delete") EXCEPT
                          !.todo = IF config.storage
                                   THEN {rows[j].key : j \in {i \in batch : rows[i].backend = "object"}}
                                   ELSE {},
                          !.database =
                             batch \ {j \in batch : rows[j].backend = "object"}])
      BY <2>5 DEF SweepSelects
    <3>2. UNCHANGED <<now, rows, revived>>
      BY <2>5 DEF SweepSelects, history
    <3>3. \A j \in batch : j \in Jobs /\ Expired(j)
      BY DEF Batches, Candidates, Expired
    <3>4. \A j \in batch : rows[j].backend = "object" => JobOf(rows[j].key) = j
      BY <3>3 DEF TypeOK, NoRow
    <3>5. /\ process'[p].database \subseteq batch /\ process'[p].reclaimed = {}
          /\ \A k \in process'[p].todo : JobOf(k) \in batch
      BY <3>1, <3>4 DEF Become, TypeOK, Starting, Idle
    <3>6. \A j \in Jobs : SweepHolds(p, j)' => Expired(j)
      BY <3>3, <3>5 DEF SweepHolds
    <3> QED BY <1>0, <3>1, <3>2, <3>6, LiveByParts
  <2>6. CASE DeleteObject(p)
    <3>1. PICK k \in process[p].todo :
             Become(p, [process[p] EXCEPT !.todo = @ \ {k}, !.reclaimed = @ \union {JobOf(k)}])
      BY <2>6 DEF DeleteObject, Deleted
    <3>2. UNCHANGED <<now, rows, revived>> /\ process[p].at = "delete"
      BY <2>6 DEF DeleteObject
    <3>3. process'[p] = [process[p] EXCEPT !.todo = @ \ {k}, !.reclaimed = @ \union {JobOf(k)}]
      BY <3>1 DEF Become, TypeOK
    <3>4. \A j \in Jobs : SweepHolds(p, j)' => SweepHolds(p, j)
      BY <2>0, <3>2, <3>3 DEF SweepHolds, Process
    <3> QED BY <1>0, <3>1, <3>2, <3>4, LiveByParts
  <2>7. CASE TombstoneDatabase(p)
    <3> DEFINE updated == [j \in Jobs |-> [rows[j] EXCEPT !.data = FALSE, !.purged = TRUE]]
    <3>1. updated \in [Jobs -> Row] /\ process[p].database \in SUBSET Jobs
      BY TombstonesAreRows
    <3>2. UpdateRows(process[p].database, updated) /\ UNCHANGED <<now, revived>>
      BY <2>7 DEF TombstoneDatabase, history
    <3>3. \A j \in Jobs : updated[j].backend = rows[j].backend /\ updated[j].expires = rows[j].expires
      BY DEF TypeOK, Row
    <3> HIDE DEF updated
    <3>4. \A j \in Jobs : /\ rows'[j].backend = rows[j].backend
                          /\ rows'[j].expires = rows[j].expires
                          /\ rows'[j] = rows[j] \/ SweepHolds(p, j)
      BY <3>1, <3>2, <3>3, UpdatedRows DEF SweepHolds
    <3>5. Become(p, [process[p] EXCEPT !.at = "tombstone_objects"])
      BY <2>7 DEF TombstoneDatabase, Goto
    <3>6. process'[p] = [process[p] EXCEPT !.at = "tombstone_objects"]
      BY <3>5 DEF Become, TypeOK
    <3>7. \A j \in Jobs : SweepHolds(p, j)' => SweepHolds(p, j)
      BY <2>0, <3>6 DEF SweepHolds, Process
    <3> QED BY <1>0, <3>2, <3>4, <3>5, <3>7, LiveByParts
  <2>8. CASE TombstoneObjects(p)
    <3> DEFINE updated == [j \in Jobs |-> [rows[j] EXCEPT !.purged = TRUE]]
    <3>1. updated \in [Jobs -> Row] /\ process[p].reclaimed \in SUBSET Jobs
      BY TombstonesAreRows
    <3>2. UpdateRows(process[p].reclaimed, updated) /\ UNCHANGED <<now, revived>>
      BY <2>8 DEF TombstoneObjects, history
    <3>3. \A j \in Jobs : updated[j].backend = rows[j].backend /\ updated[j].expires = rows[j].expires
      BY DEF TypeOK, Row
    <3> HIDE DEF updated
    <3>4. \A j \in Jobs : /\ rows'[j].backend = rows[j].backend
                          /\ rows'[j].expires = rows[j].expires
                          /\ rows'[j] = rows[j] \/ SweepHolds(p, j)
      BY <3>1, <3>2, <3>3, UpdatedRows DEF SweepHolds
    <3>5. Become(p, Idle)
      BY <2>8 DEF TombstoneObjects, Stop
    <3>6. process'[p] = Idle
      BY <3>5 DEF Become, TypeOK
    <3>7. \A j \in Jobs : ~SweepHolds(p, j)'
      BY <3>6 DEF SweepHolds, Idle
    <3> QED BY <1>0, <3>2, <3>4, <3>5, <3>7, LiveByParts
  <2>9. CASE BackfillPuts(p)
    <3>1. PICK k \in process[p].todo :
             Become(p, [process[p] EXCEPT !.at = "flip", !.key = k, !.todo = @ \ {k}])
      BY <2>9 DEF BackfillPuts
    <3> QED BY <1>2, <2>0, <2>9, <3>1 DEF BackfillPuts, Process
  <2>10. CASE BackfillFlips(p)
    <3> DEFINE jobs == {i \in {JobOf(process[p].key)} : rows[i].backend = "postgres"}
               updated == [i \in Jobs |-> [rows[i] EXCEPT !.data = FALSE,
                                                          !.backend = "object",
                                                          !.key = process[p].key]]
    <3>1. updated \in [Jobs -> Row] /\ jobs \in SUBSET Jobs
          /\ \A j \in jobs : rows[j].backend # "absent"
      BY <2>0, KeysOfJobs DEF TypeOK, Row
    <3>2. UpdateRows(jobs, updated) /\ UNCHANGED <<now, revived>>
      BY <2>10 DEF BackfillFlips
    <3>3. \A j \in Jobs : updated[j].purged = rows[j].purged /\ updated[j].expires = rows[j].expires
      BY DEF TypeOK, Row
    <3> HIDE DEF updated, jobs
    <3>4. \A j \in Jobs : /\ rows'[j].backend # "absent" => rows[j].backend # "absent"
                          /\ rows'[j].expires = rows[j].expires
                          /\ rows'[j].purged = rows[j].purged
      BY <3>1, <3>2, <3>3, UpdatedRows
    <3>5. PICK q : Become(p, q) /\ (q = Idle \/ q = [process[p] EXCEPT !.at = "move"])
      BY <2>10 DEF BackfillFlips, Stop, Goto
    <3>6. process'[p] = q
      BY <3>5 DEF Become, TypeOK
    <3>7. \A j \in Jobs : SweepHolds(p, j)' => SweepHolds(p, j)
      BY <2>0, <3>5, <3>6 DEF SweepHolds, Process, Idle
    <3> QED BY <1>0, <3>2, <3>4, <3>5, <3>7, LiveByParts
  <2> QED BY <1>4, <2>1, <2>2, <2>3, <2>4, <2>5, <2>6, <2>7, <2>8, <2>9, <2>10
             DEF Continue
<1>5. ASSUME NEW p \in Processes, BackfillSelects(p) PROVE LiveUntouched'
  <2>1. PICK jobs \in SUBSET Jobs :
           Become(p, [Starting("move") EXCEPT !.todo = {rows[j].key : j \in jobs}])
    BY <1>5 DEF BackfillSelects
  <2> QED BY <1>0, <1>5, <2>1, LiveByProcess DEF BackfillSelects, Starting, Idle, history
<1>6. ASSUME NEW p \in Processes, Fault(p) PROVE LiveUntouched'
  <2>0. process[p] \in Process
    BY <1>0
  <2>1. CASE PutObjectThrows(p)
    BY <1>1, <2>1 DEF PutObjectThrows, history
  <2>2. CASE InsertRowThrows(p)
    BY <1>1, <1>2, <2>0, <2>2 DEF InsertRowThrows, Goto, Process, history
  <2>3. CASE DeleteObjectThrows(p)
    <3>1. PICK k \in process[p].todo :
             Become(p, [process[p] EXCEPT !.todo = @ \ {k}, !.reclaimed = @ \union {}])
      BY <2>3 DEF DeleteObjectThrows, Deleted
    <3> QED BY <1>2, <2>0, <2>3, <3>1 DEF DeleteObjectThrows, Process, history
  <2>4. CASE BackfillPutThrows(p)
    <3>1. PICK k \in process[p].todo :
             Become(p, IF process[p].todo = {k} THEN Idle
                       ELSE [process[p] EXCEPT !.todo = @ \ {k}])
      BY <2>4 DEF BackfillPutThrows
    <3>2. CASE process[p].todo = {k}
      BY <1>1, <2>4, <3>1, <3>2 DEF BackfillPutThrows, Stop, history
    <3>3. CASE process[p].todo # {k}
      BY <1>2, <2>0, <2>4, <3>1, <3>3 DEF BackfillPutThrows, Process, history
    <3> QED BY <3>2, <3>3
  <2>5. CASE UpdateThrows(p)
    BY <1>1, <2>5 DEF UpdateThrows
  <2>6. CASE Killed(p)
    BY <1>1, <2>6 DEF Killed
  <2> QED BY <1>6, <2>1, <2>2, <2>3, <2>4, <2>5, <2>6 DEF Fault
<1>7. ASSUME UNCHANGED <<rows, revived, process>>, now' \in Nat, now <= now' PROVE LiveUntouched'
  <2>1. \A j \in Jobs : Live(j)' => Live(j)
    BY <1>0, <1>7 DEF Live, Expired
  <2> QED BY <1>0, <1>7, <2>1 DEF LiveUntouched, SweepHolds
<1>8. CASE Redeploy
  BY <1>0, <1>7, <1>8 DEF Redeploy, history
<1>9. CASE Tick
  BY <1>0, <1>7, <1>9 DEF Tick, history
<1>10. CASE UNCHANGED vars
  BY <1>0, <1>7, <1>10 DEF vars, history
<1> QED BY <1>3, <1>4, <1>5, <1>6, <1>8, <1>9, <1>10 DEF Next

LEMMA BytesInvariance == Spec => [](TypeOK /\ BytesInv)
<1>1. Init => TypeOK /\ BytesInv
  <2> SUFFICES ASSUME Init PROVE BytesInv
    BY InitType
  <2>1. \A j \in Jobs : rows[j].backend = "absent"
    BY DEF Init, NoRow
  <2>2. \A p \in Processes : process[p].at = "idle"
    BY DEF Init, Idle
  <2> QED BY <2>1, <2>2 DEF BytesInv, ObjectsStay, LiveUntouched, Live, Needs, HasPut
<1>2. TypeOK /\ BytesInv /\ [Next]_vars => (TypeOK /\ BytesInv)'
  BY TypeStep, ObjectsStayStep, LiveUntouchedStep DEF BytesInv
<1> QED BY <1>1, <1>2, PTL DEF Spec

\* Whichever calls fail, however long the deployments keep recordings: a live
\* recording is no tombstone and has its bytes, with the exceptions the property
\* names.
THEOREM LiveRecordingsHaveBytes == Spec => []LiveHasBytes
<1>1. TypeOK /\ BytesInv => LiveHasBytes
  <2> SUFFICES ASSUME TypeOK, BytesInv, NEW j \in Jobs, Live(j)
               PROVE  ~rows[j].purged /\ (HasBytes(j) \/ rows[j].key \in taken)
    BY DEF LiveHasBytes, Live
  <2>1. ~rows[j].purged
    BY DEF BytesInv, LiveUntouched
  <2>2. rows[j].data \/ rows[j].backend = "object"
    BY <2>1 DEF TypeOK, StorageConsistent, NoRow, Live
  <2>3. rows[j].backend = "object" => rows[j].key \in bucket \union taken
    BY DEF BytesInv, ObjectsStay, Stays
  <2> QED BY <2>1, <2>2, <2>3 DEF HasBytes
<1> QED BY <1>1, BytesInvariance, PTL

\* A download of a row it found live misses its object only if it was taken.
THEOREM DownloadsGoneOnlyWhenExpired == Spec => []GoneOnlyWhenExpired
<1>1. TypeOK /\ BytesInv => GoneOnlyWhenExpired
  BY DEF GoneOnlyWhenExpired, BytesInv, ObjectsStay, Needs, Stays, TypeOK, Process
<1> QED BY <1>1, BytesInvariance, PTL

-----------------------------------------------------------------------------
(* Orphans *)

\* A step of p that leaves the rows: only what p had put is left to look at.
LEMMA ReferencedByProcess ==
    ASSUME TypeOK, ObjectsReferenced, NEW p \in Processes, NEW q, Become(p, q),
           UNCHANGED rows,
           \A k \in bucket' :
               \/ k \in left'
               \/ HasPut(p, k)'
               \/ k \in bucket /\ (HasPut(p, k) => Named(k)) /\ (k \in left => k \in left')
    PROVE  ObjectsReferenced'
<1>1. \A r \in Processes : r # p => process'[r] = process[r]
  BY DEF Become, TypeOK
<1>2. \A r \in Processes, k \in Keys : r # p => (HasPut(r, k)' <=> HasPut(r, k))
  BY <1>1 DEF HasPut
<1>3. bucket \subseteq Keys /\ \A k \in Keys : Named(k)' <=> Named(k)
  BY DEF TypeOK, Named
<1>4. ASSUME NEW k \in bucket' PROVE Named(k)' \/ k \in left' \/ \E r \in Processes : HasPut(r, k)'
  <2>1. CASE k \in left' \/ HasPut(p, k)'
    BY <2>1
  <2>2. CASE k \in bucket /\ (HasPut(p, k) => Named(k)) /\ (k \in left => k \in left')
    <3>1. CASE Named(k)
      BY <1>3, <2>2, <3>1
    <3>2. CASE k \in left
      BY <2>2, <3>2
    <3>3. CASE \E r \in Processes : HasPut(r, k)
      BY <1>2, <1>3, <2>2, <3>3
    <3> QED BY <2>2, <3>1, <3>2, <3>3 DEF ObjectsReferenced
  <2> QED BY <1>4, <2>1, <2>2
<1> QED BY <1>4 DEF ObjectsReferenced

\* Only an upload that has a bucket puts an object.
PutsStore == \A p \in Processes : process[p].at = "put" => process[p].config.storage

LEMMA PutsStoreStep ==
    ASSUME TypeOK, PutsStore, [Next]_vars
    PROVE  PutsStore'
<1>0. \A p \in Processes : process[p] \in Process
  BY DEF TypeOK
<1>1. ASSUME NEW p \in Processes, NEW q, Become(p, q), q.at = "put" => q.config.storage
      PROVE  PutsStore'
  BY <1>1 DEF PutsStore, Become, TypeOK
<1>2. ASSUME NEW p \in Processes, Stop(p) PROVE PutsStore'
  BY <1>1, <1>2 DEF Stop, Idle
<1>3. ASSUME NEW p \in Processes, NEW step, Goto(p, step), step # "put" PROVE PutsStore'
  BY <1>0, <1>1, <1>3 DEF Goto, Process
<1>4. ASSUME NEW p \in Processes, NEW k \in Sent, UploadArrives(p, k) PROVE PutsStore'
  <2>1. Become(p, [Starting(IF config.storage THEN "put" ELSE "insert")
                     EXCEPT !.key = k, !.config = config])
    BY <1>4 DEF UploadArrives
  <2> QED BY <1>1, <2>1 DEF Starting, Idle
<1>5. ASSUME NEW p \in Processes, (\E j \in Jobs : FindContent(p, j)) \/ BackfillSelects(p) \/ SweepSelects(p)
      PROVE  PutsStore'
  BY <1>1, <1>5 DEF FindContent, BackfillSelects, SweepSelects, Starting, Idle
<1>6. ASSUME NEW p \in Processes, DeleteObject(p) \/ DeleteObjectThrows(p) PROVE PutsStore'
  BY <1>0, <1>1, <1>6 DEF DeleteObject, DeleteObjectThrows, Deleted, Process
<1>7. ASSUME NEW p \in Processes, BackfillPuts(p) PROVE PutsStore'
  <2>1. PICK k \in process[p].todo :
           Become(p, [process[p] EXCEPT !.at = "flip", !.key = k, !.todo = @ \ {k}])
    BY <1>7 DEF BackfillPuts
  <2> QED BY <1>0, <1>1, <2>1 DEF Process
<1>8. ASSUME NEW p \in Processes, BackfillPutThrows(p) PROVE PutsStore'
  BY <1>0, <1>1, <1>8 DEF BackfillPutThrows, Process, Idle
<1>9. ASSUME NEW p \in Processes, Continue(p) \/ Fault(p) PROVE PutsStore'
  BY <1>2, <1>3, <1>5, <1>6, <1>7, <1>8, <1>9
     DEF Continue, Fault, PutObject, InsertRow, Cleanup, GetObject, TombstoneDatabase,
         TombstoneObjects, BackfillFlips, PutObjectThrows, InsertRowThrows, UpdateThrows, Killed
<1>10. CASE Redeploy \/ Tick \/ UNCHANGED vars
  BY <1>10 DEF Redeploy, Tick, vars, PutsStore
<1> QED BY <1>4, <1>5, <1>9, <1>10 DEF Next, Request

LEMMA ReferencedStep ==
    ASSUME TypeOK, PutsStore, ObjectsReferenced, [Next]_vars
    PROVE  ObjectsReferenced'
<1>0. /\ bucket \subseteq Keys
      /\ \A p \in Processes : process[p] \in Process /\ process[p].key \in Keys
  BY DEF TypeOK, Process
\* A process that has put nothing goes on, or stops, without putting anything.
<1>1. ASSUME NEW p \in Processes, NEW q, Become(p, q), UNCHANGED <<rows, bucket, left>>,
             process[p].at \notin {"insert", "cleanup", "flip"}
      PROVE  ObjectsReferenced'
  <2>1. \A k \in Keys : ~HasPut(p, k)
    BY <1>1 DEF HasPut
  <2> QED BY <1>0, <1>1, <2>1, ReferencedByProcess
\* A process stops and leaves what it had put.
<1>2. ASSUME NEW p \in Processes, Stop(p), Leaves(p), UNCHANGED <<rows, bucket>>
      PROVE  ObjectsReferenced'
  BY <1>0, <1>2, ReferencedByProcess DEF Stop, Leaves
\* An UPDATE by a process that has put nothing keeps the names of the rows.
<1>3. ASSUME NEW p \in Processes, NEW q, Become(p, q), UNCHANGED <<bucket, left>>,
             process[p].at \notin {"insert", "cleanup", "flip"},
             \A j \in Jobs : rows'[j].backend = rows[j].backend /\ rows'[j].key = rows[j].key
      PROVE  ObjectsReferenced'
  <2>1. \A k \in Keys : ~HasPut(p, k)
    BY <1>3 DEF HasPut
  <2>2. \A k \in Keys : Named(k) => Named(k)'
    BY <1>3, KeysOfJobs DEF Named
  <2>3. \A r \in Processes, k \in Keys : r # p => (HasPut(r, k) => HasPut(r, k)')
    BY <1>3 DEF HasPut, Become, TypeOK
  <2> QED BY <1>0, <1>3, <2>1, <2>2, <2>3 DEF ObjectsReferenced
<1>4. ASSUME NEW p \in Processes, Request(p) PROVE ObjectsReferenced'
  <2>1. CASE \E k \in Sent : UploadArrives(p, k)
    BY <1>1, <2>1 DEF UploadArrives, Idle, history
  <2>2. CASE \E j \in Jobs : FindContent(p, j)
    BY <1>1, <2>2 DEF FindContent, Idle, history
  <2> QED BY <1>4, <2>1, <2>2 DEF Request
<1>5. ASSUME NEW p \in Processes, Continue(p) PROVE ObjectsReferenced'
  <2>0. process[p] \in Process /\ process[p].key \in Keys
    BY <1>0
  <2>1. CASE PutObject(p)
    <3>1. PICK key \in Keys :
             /\ key = process[p].key
             /\ Become(p, [process[p] EXCEPT !.at = "insert"]) /\ UNCHANGED rows
             /\ bucket' = bucket \union {key} /\ left' = left \ {key}
      BY <2>0, <2>1 DEF PutObject, Goto, Put
    <3>2. process'[p] = [process[p] EXCEPT !.at = "insert"]
      BY <3>1 DEF Become, TypeOK
    <3>3. process[p].config.storage
      BY <2>1 DEF PutsStore, PutObject
    <3>4. HasPut(p, key)' /\ \A k \in Keys : ~HasPut(p, k)
      BY <2>0, <2>1, <3>1, <3>2, <3>3 DEF HasPut, PutObject, Process
    <3> QED BY <1>0, <3>1, <3>4, ReferencedByProcess
  <2>2. CASE InsertRow(p)
    <3>1. PICK j \in Jobs, key \in Keys :
             /\ key = process[p].key /\ j = JobOf(key) /\ bucket' = bucket
             /\ rows' = [rows EXCEPT ![j] = Stored(p)] /\ Become(p, Idle)
             /\ left' = (left \union {k \in Keys : JobOf(k) = j /\ Named(k)}) \
                           (IF process[p].config.storage THEN {process[p].key} ELSE {})
      BY <2>0, <2>2, KeysOfJobs DEF InsertRow, Stop
    <3>2. rows'[j] = Stored(p) /\ \A i \in Jobs : i # j => rows'[i] = rows[i]
      BY <3>1 DEF TypeOK
    <3>3. process[p].config.storage => Named(key)'
      BY <3>1, <3>2 DEF Named, Stored
    <3>4. \A k \in Keys : HasPut(p, k) => k = key /\ process[p].config.storage
      BY <2>2, <3>1 DEF HasPut, InsertRow
    <3>5. \A k \in Keys : JobOf(k) # j => (Named(k) => Named(k)')
      BY <3>2, KeysOfJobs DEF Named
    <3>6. \A r \in Processes, k \in Keys : r # p => (HasPut(r, k) => HasPut(r, k)')
      BY <3>1 DEF HasPut, Become, TypeOK
    <3>7. ASSUME NEW k \in bucket
          PROVE  Named(k)' \/ k \in left' \/ \E r \in Processes : HasPut(r, k)'
      <4>0. k \in Keys
        BY <1>0
      <4>1. CASE process[p].config.storage /\ k = key
        BY <3>3, <4>1
      <4>2. CASE ~(process[p].config.storage /\ k = key) /\ Named(k)
        BY <3>1, <3>5, <4>0, <4>2
      <4>3. CASE ~(process[p].config.storage /\ k = key) /\ k \in left
        BY <3>1, <4>3
      <4>4. CASE ~(process[p].config.storage /\ k = key) /\ \E r \in Processes : HasPut(r, k)
        BY <3>4, <3>6, <4>0, <4>4
      <4> QED BY <4>1, <4>2, <4>3, <4>4 DEF ObjectsReferenced
    <3> QED BY <3>1, <3>7 DEF ObjectsReferenced
  <2>3. CASE Cleanup(p)
    <3>1. /\ Become(p, Idle) /\ UNCHANGED rows
          /\ bucket' = bucket \ {process[p].key} /\ left' = left \ {process[p].key}
      BY <2>3 DEF Cleanup, Delete, Stop
    <3>2. \A k \in bucket' : ~HasPut(p, k)
      BY <3>1 DEF HasPut
    <3> QED BY <1>0, <3>1, <3>2, ReferencedByProcess
  <2>4. CASE GetObject(p)
    BY <1>1, <2>4 DEF GetObject, Stop, history
  <2>5. CASE SweepSelects(p)
    BY <1>1, <2>5 DEF SweepSelects, Idle, history
  <2>6. CASE DeleteObject(p)
    <3>1. PICK k \in process[p].todo :
             /\ bucket' = bucket \ {k} /\ left' = left \ {k}
             /\ Become(p, [process[p] EXCEPT !.todo = @ \ {k}, !.reclaimed = @ \union {JobOf(k)}])
      BY <2>6 DEF DeleteObject, Delete, Deleted
    <3>2. UNCHANGED rows /\ \A l \in Keys : ~HasPut(p, l)
      BY <2>6 DEF DeleteObject, HasPut
    <3> QED BY <1>0, <3>1, <3>2, ReferencedByProcess
  <2>7. CASE TombstoneDatabase(p)
    <3> DEFINE updated == [j \in Jobs |-> [rows[j] EXCEPT !.data = FALSE, !.purged = TRUE]]
    <3>1. updated \in [Jobs -> Row] /\ process[p].database \in SUBSET Jobs
      BY TombstonesAreRows
    <3>2. UpdateRows(process[p].database, updated) /\ UNCHANGED <<bucket, left>>
      BY <2>7 DEF TombstoneDatabase, history
    <3>3. \A j \in Jobs : updated[j].backend = rows[j].backend /\ updated[j].key = rows[j].key
      BY DEF TypeOK, Row
    <3> HIDE DEF updated
    <3>4. \A j \in Jobs : rows'[j].backend = rows[j].backend /\ rows'[j].key = rows[j].key
      BY <3>1, <3>2, <3>3, UpdatedRows
    <3> QED BY <1>3, <2>7, <3>2, <3>4 DEF TombstoneDatabase, Goto
  <2>8. CASE TombstoneObjects(p)
    <3> DEFINE updated == [j \in Jobs |-> [rows[j] EXCEPT !.purged = TRUE]]
    <3>1. updated \in [Jobs -> Row] /\ process[p].reclaimed \in SUBSET Jobs
      BY TombstonesAreRows
    <3>2. UpdateRows(process[p].reclaimed, updated) /\ UNCHANGED <<bucket, left>>
      BY <2>8 DEF TombstoneObjects, history
    <3>3. \A j \in Jobs : updated[j].backend = rows[j].backend /\ updated[j].key = rows[j].key
      BY DEF TypeOK, Row
    <3> HIDE DEF updated
    <3>4. \A j \in Jobs : rows'[j].backend = rows[j].backend /\ rows'[j].key = rows[j].key
      BY <3>1, <3>2, <3>3, UpdatedRows
    <3> QED BY <1>3, <2>8, <3>2, <3>4 DEF TombstoneObjects, Stop
  <2>9. CASE BackfillPuts(p)
    <3>1. PICK k \in process[p].todo :
             /\ bucket' = bucket \union {k} /\ left' = left \ {k}
             /\ Become(p, [process[p] EXCEPT !.at = "flip", !.key = k,
                                             !.todo = @ \ {k}])
      BY <2>9 DEF BackfillPuts, Put
    <3>2. k \in Keys /\ UNCHANGED rows /\ \A l \in Keys : ~HasPut(p, l)
      BY <2>0, <2>9 DEF Process, BackfillPuts, HasPut
    <3>3. process'[p] = [process[p] EXCEPT !.at = "flip", !.key = k, !.todo = @ \ {k}]
      BY <3>1 DEF Become, TypeOK
    <3>4. HasPut(p, k)'
      BY <2>0, <3>3 DEF HasPut, Process
    <3> QED BY <1>0, <3>1, <3>2, <3>4, ReferencedByProcess
  <2>10. CASE BackfillFlips(p)
    <3>1. PICK j \in Jobs, key \in Keys :
             /\ key = process[p].key /\ j = JobOf(key) /\ bucket' = bucket
             /\ UpdateRows({i \in {j} : rows[i].backend = "postgres"},
                           [i \in Jobs |-> [rows[i] EXCEPT !.data = FALSE,
                                                           !.backend = "object",
                                                           !.key = key]])
             /\ IF rows[j].backend = "postgres" THEN left' = left \ {key} ELSE Leaves(p)
             /\ \E q : Become(p, q)
      BY <2>0, <2>10, KeysOfJobs DEF BackfillFlips, Stop, Goto
    <3>2. PICK q : Become(p, q)
      BY <3>1
    <3>3. CASE rows[j].backend # "postgres"
      <4>1. {i \in {j} : rows[i].backend = "postgres"} = {}
        BY <3>3
      <4>2. UNCHANGED rows
        BY <3>1, <4>1 DEF UpdateRows, TypeOK
      <4> QED BY <1>0, <3>1, <3>2, <3>3, <4>2, ReferencedByProcess DEF Leaves
    <3>4. CASE rows[j].backend = "postgres"
      <4> DEFINE flipped == [rows[j] EXCEPT !.data = FALSE, !.backend = "object", !.key = key]
      <4>1. rows[j] \in Row /\ flipped.backend = "object" /\ flipped.key = key
        BY DEF TypeOK, Row
      <4>2. StorageConsistent(flipped)
        BY <4>1 DEF StorageConsistent, Row
      <4>3. rows' = [i \in Jobs |-> IF i = j THEN flipped ELSE rows[i]]
        BY <3>1, <3>4, <4>2 DEF UpdateRows
      <4> HIDE DEF flipped
      <4>4. Named(key)' /\ \A k \in Keys : Named(k) => JobOf(k) # j /\ Named(k)'
        BY <3>1, <3>4, <4>1, <4>3, KeysOfJobs DEF Named
      <4>5. \A k \in Keys : HasPut(p, k) => k = key
        BY <3>1 DEF HasPut
      <4>6. \A r \in Processes, k \in Keys : r # p => (HasPut(r, k) => HasPut(r, k)')
        BY <3>2 DEF HasPut, Become, TypeOK
      <4> QED BY <1>0, <3>1, <3>4, <4>4, <4>5, <4>6 DEF ObjectsReferenced
    <3> QED BY <3>3, <3>4
  <2> QED BY <1>5, <2>1, <2>2, <2>3, <2>4, <2>5, <2>6, <2>7, <2>8, <2>9, <2>10
             DEF Continue
<1>6. ASSUME NEW p \in Processes, BackfillSelects(p) PROVE ObjectsReferenced'
  BY <1>1, <1>6 DEF BackfillSelects, Idle, history
<1>7. ASSUME NEW p \in Processes, Fault(p) PROVE ObjectsReferenced'
  <2>0. process[p] \in Process
    BY <1>0
  <2>1. CASE PutObjectThrows(p)
    BY <1>1, <2>1 DEF PutObjectThrows, Stop, history
  <2>2. CASE InsertRowThrows(p)
    <3>1. UNCHANGED <<rows, bucket, left>> /\ process[p].at = "insert"
      BY <2>2 DEF InsertRowThrows, history
    <3>2. CASE process[p].config.storage
      <4>1. Become(p, [process[p] EXCEPT !.at = "cleanup"])
        BY <2>2, <3>2 DEF InsertRowThrows, Goto
      <4>2. process'[p] = [process[p] EXCEPT !.at = "cleanup"]
        BY <4>1 DEF Become, TypeOK
      <4>3. \A k \in Keys : HasPut(p, k) => HasPut(p, k)'
        BY <2>0, <4>2 DEF HasPut, Process
      <4> QED BY <1>0, <3>1, <4>1, <4>3, ReferencedByProcess
    <3>3. CASE ~process[p].config.storage
      <4>1. Become(p, Idle)
        BY <2>2, <3>3 DEF InsertRowThrows, Stop
      <4>2. \A k \in Keys : ~HasPut(p, k)
        BY <3>1, <3>3 DEF HasPut
      <4> QED BY <1>0, <3>1, <4>1, <4>2, ReferencedByProcess
    <3> QED BY <3>2, <3>3
  <2>3. CASE DeleteObjectThrows(p)
    BY <1>1, <2>3 DEF DeleteObjectThrows, Deleted, history
  <2>4. CASE BackfillPutThrows(p)
    BY <1>1, <2>4 DEF BackfillPutThrows, history
  <2>5. CASE UpdateThrows(p)
    BY <1>2, <2>5 DEF UpdateThrows
  <2>6. CASE Killed(p)
    BY <1>2, <2>6 DEF Killed
  <2> QED BY <1>7, <2>1, <2>2, <2>3, <2>4, <2>5, <2>6 DEF Fault
<1>8. CASE Redeploy \/ Tick \/ UNCHANGED vars
  BY <1>8 DEF Redeploy, Tick, vars, history, ObjectsReferenced, Named, HasPut
<1> QED BY <1>4, <1>5, <1>6, <1>7, <1>8 DEF Next

\* Whichever calls fail and whatever formats are sent, an upload whose INSERT
\* fails leaves no object that no row names: one is left only by a row that was
\* stored elsewhere, or by a process that ends before it names what it put.
THEOREM UploadsLeaveNoOrphans == Spec => []ObjectsReferenced
<1>1. Init => TypeOK /\ PutsStore /\ ObjectsReferenced
  BY InitType DEF Init, Idle, PutsStore, ObjectsReferenced
<1>2. TypeOK /\ PutsStore /\ ObjectsReferenced /\ [Next]_vars
         => (TypeOK /\ PutsStore /\ ObjectsReferenced)'
  BY TypeStep, PutsStoreStep, ReferencedStep
<1> QED BY <1>1, <1>2, PTL DEF Spec

-----------------------------------------------------------------------------
(* Sessions, whose rows are kept like these, as MCSessions names it.  A sweep *)
(* takes a session whose window has ended, or any once collection is off, and *)
(* neither is ever undone: so what it still has to stamp stays due, and a     *)
(* report that arrives late gives the row its own window again.               *)

SessionRow ==
    [outcome : S!Outcomes \cup {"unknown"}, data : BOOLEAN, key : BOOLEAN, purged : BOOLEAN,
     expires : Int]
SessionProcess ==
    [at : {"idle", "put", "insert", "cleanup", "delete", "objects", "points"}, job : Jobs,
     outcome : S!Outcomes \cup {"unknown"}, todo : SUBSET Jobs, database : SUBSET Jobs,
     reclaimed : SUBSET Jobs]

SessionTypes ==
    /\ now \in Int /\ object \in BOOLEAN /\ off \in BOOLEAN
    /\ rows \in [Jobs -> SessionRow]
    /\ process \in [Uploads \cup Sweepers -> SessionProcess]

WindowEnd(j) == StartedAt[j] + Retention
Due(j) == off \/ now >= WindowEnd(j)

SessionKept(j, row) ==
    /\ row.outcome = "collected" => row.expires = WindowEnd(j)
    /\ row.data \/ row.key => row.outcome = "collected"
    /\ row.purged => Due(j)

Takes(q) == q.todo \cup q.database \cup q.reclaimed

SessionsInv ==
    /\ SessionTypes
    /\ \A j \in Jobs : SessionKept(j, rows[j])
    /\ \A p \in Uploads \cup Sweepers : \A j \in Takes(process[p]) : Due(j)

LEMMA IdleSession ==
    S!Idle \in SessionProcess /\ Takes(S!Idle) = {}
<1>1. (CHOOSE j \in Jobs : TRUE) \in Jobs
  BY WindowsAssumption DEF S!SessionsAssumption
<1> QED BY <1>1 DEF S!Idle, SessionProcess, Takes

\* Process p goes on to q, and what is due stays due.
LEMMA SessionGoes ==
    ASSUME SessionsInv, NEW p \in Uploads \cup Sweepers, NEW q \in SessionProcess,
           S!Becomes(p, q), UNCHANGED <<now, object, off>>,
           rows' \in [Jobs -> SessionRow], \A j \in Jobs : SessionKept(j, rows'[j]),
           \A j \in Takes(q) : Due(j)
    PROVE  SessionsInv'
<1>1. process' \in [Uploads \cup Sweepers -> SessionProcess]
  BY DEF SessionsInv, SessionTypes, S!Becomes
<1>2. \A r \in Uploads \cup Sweepers : process'[r] = IF r = p THEN q ELSE process[r]
  BY DEF SessionsInv, SessionTypes, S!Becomes
<1>3. SessionTypes'
  BY <1>1 DEF SessionsInv, SessionTypes
<1>4. \A j \in Jobs : SessionKept(j, rows[j])'
  BY DEF SessionKept, Due
<1>5. \A r \in Uploads \cup Sweepers : \A j \in Takes(process'[r]) : Due(j)'
  BY <1>2 DEF SessionsInv, Due
<1> QED BY <1>3, <1>4, <1>5 DEF SessionsInv

\* Process p ends, or goes on to another place, and writes no row.
LEMMA SessionEnds ==
    ASSUME SessionsInv, NEW p \in Uploads \cup Sweepers, S!Ends(p),
           UNCHANGED <<now, object, off, rows>>
    PROVE  SessionsInv'
BY IdleSession, SessionGoes DEF S!Ends, SessionsInv, SessionTypes

LEMMA SessionAt ==
    ASSUME SessionsInv, NEW p \in Uploads \cup Sweepers,
           NEW at \in {"idle", "put", "insert", "cleanup", "delete", "objects", "points"},
           S!Goes(p, at), UNCHANGED <<now, object, off>>,
           rows' \in [Jobs -> SessionRow], \A j \in Jobs : SessionKept(j, rows'[j])
    PROVE  SessionsInv'
<1> DEFINE q == [process[p] EXCEPT !.at = at]
<1>1. q \in SessionProcess /\ Takes(q) = Takes(process[p])
  BY DEF SessionsInv, SessionTypes, SessionProcess, Takes
<1> HIDE DEF q
<1>2. S!Becomes(p, q)
  BY DEF S!Goes, q
<1> QED BY <1>1, <1>2, SessionGoes DEF SessionsInv

LEMMA SessionUploads ==
    ASSUME SessionsInv, NEW u \in Uploads,
           S!UploadArrives(u) \/ S!UploadStep(u)
    PROVE  SessionsInv'
<1>1. CASE S!UploadArrives(u)
  <2>1. PICK j \in Jobs, outcome \in S!Outcomes :
          S!Becomes(u, [S!Idle EXCEPT
             !.at = IF outcome = "collected" /\ object THEN "put" ELSE "insert",
             !.job = j, !.outcome = outcome])
    BY <1>1 DEF S!UploadArrives
  <2> DEFINE q == [S!Idle EXCEPT
                     !.at = IF outcome = "collected" /\ object THEN "put" ELSE "insert",
                     !.job = j, !.outcome = outcome]
  <2>2. q \in SessionProcess /\ Takes(q) = {}
    BY IdleSession DEF SessionProcess, Takes
  <2> HIDE DEF q
  <2> QED BY <1>1, <2>1, <2>2, SessionGoes
            DEF S!UploadArrives, S!settings, SessionsInv, SessionTypes, q
<1>2. CASE S!PutObject(u) \/ S!InsertRowThrows(u) \/ S!Cleanup(u)
  BY <1>2, SessionEnds, SessionAt
    DEF S!PutObject, S!InsertRowThrows, S!Cleanup, S!settings, SessionsInv, SessionTypes
<1>3. CASE S!InsertRow(u)
  <2> DEFINE j == process[u].job
             collected == process[u].outcome = "collected"
             row == [outcome |-> process[u].outcome, data |-> collected /\ ~object,
                     key |-> collected /\ object, purged |-> FALSE,
                     expires |-> IF collected THEN S!ResolveExpiry(j) ELSE 0]
  <2>1. rows' = [rows EXCEPT ![j] = row] /\ S!Ends(u) /\ UNCHANGED <<now, object, off>>
    BY <1>3 DEF S!InsertRow, S!settings
  <2>2. j \in Jobs /\ process[u].outcome \in S!Outcomes \cup {"unknown"} /\ object \in BOOLEAN
    BY DEF SessionsInv, SessionTypes, SessionProcess
  <2>3. S!ResolveExpiry(j) = WindowEnd(j) /\ S!ResolveExpiry(j) \in Int
    BY <2>2, WindowsAssumption DEF S!ResolveExpiry, WindowEnd, S!SessionsAssumption
  <2>4. row \in SessionRow /\ SessionKept(j, row)
    <3>1. /\ (collected /\ ~object) \in BOOLEAN /\ (collected /\ object) \in BOOLEAN
          /\ (IF collected THEN S!ResolveExpiry(j) ELSE 0) \in Int
      BY <2>3
    <3>2. row \in SessionRow
      BY <2>2, <3>1 DEF SessionRow
    <3>3. SessionKept(j, row)
      BY <2>3 DEF SessionKept
    <3> QED BY <3>2, <3>3
  <2> HIDE DEF row
  <2>5. rows' \in [Jobs -> SessionRow] /\ \A k \in Jobs : SessionKept(k, rows'[k])
    BY <2>1, <2>2, <2>4 DEF SessionsInv, SessionTypes
  <2> QED BY <2>1, <2>5, IdleSession, SessionGoes DEF S!Ends
<1> QED BY <1>1, <1>2, <1>3 DEF S!UploadStep

\* Rows that are due may be stamped.
LEMMA SessionsStamped ==
    ASSUME SessionsInv, NEW due \in SUBSET Jobs, \A j \in due : Due(j),
           rows' \in [Jobs -> SessionRow],
           \A j \in Jobs :
             /\ rows'[j].outcome = rows[j].outcome /\ rows'[j].expires = rows[j].expires
             /\ rows'[j].key = rows[j].key /\ (rows'[j].data => rows[j].data)
             /\ rows'[j].purged => rows[j].purged \/ j \in due
    PROVE  \A j \in Jobs : SessionKept(j, rows'[j])
BY DEF SessionsInv, SessionKept

LEMMA SessionSweeps ==
    ASSUME SessionsInv, NEW s \in Sweepers, S!SweepStep(s)
    PROVE  SessionsInv'
<1>1. /\ process[s] \in SessionProcess /\ \A j \in Takes(process[s]) : Due(j)
      /\ Takes(process[s]) \subseteq Jobs
      /\ \A j \in Jobs : rows[j] \in SessionRow
  BY DEF SessionsInv, SessionTypes, SessionProcess, Takes
<1>2. CASE S!SweepSelects(s)
  <2>1. PICK batch \in S!Batches :
          S!Becomes(s, [S!Idle EXCEPT !.at = "delete", !.todo = {j \in batch : rows[j].key},
                                      !.database = {j \in batch : ~rows[j].key}])
    BY <1>2 DEF S!SweepSelects
  <2> DEFINE q == [S!Idle EXCEPT !.at = "delete", !.todo = {j \in batch : rows[j].key},
                                 !.database = {j \in batch : ~rows[j].key}]
  <2>2. batch \subseteq S!Candidates
    BY DEF S!Batches
  <2>3. \A j \in batch : j \in Jobs /\ Due(j)
    <3>1. \A j \in S!Candidates : j \in Jobs /\ (off \/ rows[j].expires <= now)
                                 /\ rows[j].outcome = "collected"
      BY DEF S!Candidates, S!Reclaimable, S!Expired, SessionsInv, SessionKept
    <3>2. \A j \in S!Candidates : off \/ now >= WindowEnd(j)
      BY <1>1, <3>1 DEF SessionsInv, SessionKept, SessionTypes, SessionRow
    <3> QED BY <2>2, <3>1, <3>2 DEF Due
  <2>4. q \in SessionProcess /\ Takes(q) \subseteq batch
    BY <2>3, IdleSession DEF SessionProcess, S!Idle, Takes
  <2> HIDE DEF q
  <2> QED BY <1>2, <2>1, <2>3, <2>4, SessionGoes
            DEF S!SweepSelects, S!settings, SessionsInv, SessionTypes, q
<1>3. CASE S!DeleteObject(s)
  <2>1. PICK j \in process[s].todo :
          \/ S!Becomes(s, [process[s] EXCEPT !.todo = @ \ {j}, !.reclaimed = @ \cup {j}])
          \/ S!Becomes(s, [process[s] EXCEPT !.todo = @ \ {j}])
    BY <1>3 DEF S!DeleteObject
  <2> DEFINE q == [process[s] EXCEPT !.todo = @ \ {j}, !.reclaimed = @ \cup {j}]
             q2 == [process[s] EXCEPT !.todo = @ \ {j}]
  <2>2. /\ q \in SessionProcess /\ Takes(q) \subseteq Takes(process[s])
        /\ q2 \in SessionProcess /\ Takes(q2) \subseteq Takes(process[s])
    BY <1>1 DEF SessionProcess, Takes
  <2> HIDE DEF q, q2
  <2> QED BY <1>1, <1>3, <2>1, <2>2, SessionGoes
            DEF S!DeleteObject, S!settings, SessionsInv, SessionTypes, q, q2
<1>4. CASE S!TombstoneDatabase(s)
  <2> DEFINE jobs == process[s].database
             stamped == [j \in Jobs |->
               IF j \in jobs THEN [rows[j] EXCEPT !.data = FALSE, !.purged = TRUE] ELSE rows[j]]
  <2>1. \/ rows' = stamped /\ S!Goes(s, "objects")
        \/ UNCHANGED rows /\ S!Ends(s)
    BY <1>4 DEF S!TombstoneDatabase, S!Tombstone
  <2>2. UNCHANGED <<now, object, off>>
    BY <1>4 DEF S!TombstoneDatabase, S!settings
  <2>3. CASE rows' = stamped /\ S!Goes(s, "objects")
    <3>1. rows' \in [Jobs -> SessionRow]
      BY <1>1, <2>3 DEF SessionRow
    <3>2. \A j \in Jobs :
            /\ rows'[j].outcome = rows[j].outcome /\ rows'[j].expires = rows[j].expires
            /\ rows'[j].key = rows[j].key /\ (rows'[j].data => rows[j].data)
            /\ rows'[j].purged => rows[j].purged \/ j \in jobs
      BY <1>1, <2>3 DEF SessionRow
    <3>3. jobs \subseteq Jobs /\ \A j \in jobs : Due(j)
      BY <1>1 DEF Takes
    <3> QED BY <2>2, <2>3, <3>1, <3>2, <3>3, SessionsStamped, SessionAt
  <2> QED BY <2>1, <2>2, <2>3, SessionEnds
<1>5. CASE S!TombstoneObjects(s)
  <2> DEFINE jobs == process[s].reclaimed
             stamped == [j \in Jobs |->
               IF j \in jobs THEN [rows[j] EXCEPT !.purged = TRUE] ELSE rows[j]]
  <2>1. \/ rows' = stamped /\ S!Goes(s, "points")
        \/ UNCHANGED rows /\ S!Ends(s)
    BY <1>5 DEF S!TombstoneObjects
  <2>2. UNCHANGED <<now, object, off>>
    BY <1>5 DEF S!TombstoneObjects, S!settings
  <2>3. CASE rows' = stamped /\ S!Goes(s, "points")
    <3>1. rows' \in [Jobs -> SessionRow]
      BY <1>1, <2>3 DEF SessionRow
    <3>2. \A j \in Jobs :
            /\ rows'[j].outcome = rows[j].outcome /\ rows'[j].expires = rows[j].expires
            /\ rows'[j].key = rows[j].key /\ (rows'[j].data => rows[j].data)
            /\ rows'[j].purged => rows[j].purged \/ j \in jobs
      BY <1>1, <2>3 DEF SessionRow
    <3>3. jobs \subseteq Jobs /\ \A j \in jobs : Due(j)
      BY <1>1 DEF Takes
    <3> QED BY <2>2, <2>3, <3>1, <3>2, <3>3, SessionsStamped, SessionAt
  <2> QED BY <2>1, <2>2, <2>3, SessionEnds
<1>6. CASE S!DeletePoints(s)
  BY <1>6, SessionEnds DEF S!DeletePoints, S!settings
<1> QED BY <1>2, <1>3, <1>4, <1>5, <1>6 DEF S!SweepStep

LEMMA SessionsStep ==
    ASSUME SessionsInv, [S!Next]_S!vars
    PROVE  SessionsInv'
<1>1. CASE S!TimePasses
  <2>1. now' = now + 1 /\ UNCHANGED <<object, off, rows, process>>
    BY <1>1 DEF S!TimePasses, S!settings
  <2>2. SessionTypes'
    BY <2>1 DEF SessionsInv, SessionTypes
  <2>3. \A j \in Jobs : Due(j) => Due(j)'
    <3>1. now \in Int /\ \A j \in Jobs : WindowEnd(j) \in Int
      BY WindowsAssumption DEF SessionsInv, SessionTypes, WindowEnd, S!SessionsAssumption
    <3> QED BY <2>1, <3>1 DEF Due, WindowEnd
  <2>4. \A j \in Jobs : SessionKept(j, rows[j])'
    BY <2>1, <2>3 DEF SessionsInv, SessionKept
  <2>5. \A p \in Uploads \cup Sweepers : Takes(process[p]) \subseteq Jobs
    BY DEF SessionsInv, SessionTypes, SessionProcess, Takes
  <2> QED BY <2>1, <2>2, <2>3, <2>4, <2>5 DEF SessionsInv
<1>2. CASE S!StopsCollecting
  <2>1. \A p \in Uploads \cup Sweepers : process'[p] = S!Idle
    BY <1>2 DEF S!StopsCollecting, SessionsInv, SessionTypes
  <2>2. SessionTypes'
    BY <1>2, <2>1, IdleSession DEF S!StopsCollecting, SessionsInv, SessionTypes
  <2>3. \A j \in Jobs : Due(j)' /\ SessionKept(j, rows[j])'
    BY <1>2 DEF S!StopsCollecting, SessionsInv, SessionKept, Due
  <2> QED BY <2>1, <2>2, <2>3, IdleSession DEF SessionsInv
<1>3. ASSUME NEW p \in DOMAIN process, S!Killed(p) PROVE SessionsInv'
  BY <1>3, SessionEnds DEF S!Killed, S!settings, SessionsInv, SessionTypes
<1>4. CASE S!UpsertForkPoints \/ UNCHANGED S!vars
  BY <1>4 DEF S!UpsertForkPoints, S!vars, S!settings, SessionsInv, SessionTypes, SessionKept, Due
<1> QED BY <1>1, <1>2, <1>3, <1>4, SessionUploads, SessionSweeps DEF S!Next

LEMMA SessionsStart == S!Init => SessionsInv
<1> SUFFICES ASSUME S!Init PROVE SessionsInv
  OBVIOUS
<1>1. S!NoRow \in SessionRow /\ \A j : SessionKept(j, S!NoRow)
  BY DEF S!NoRow, SessionRow, SessionKept
<1>2. \A p \in Uploads \cup Sweepers : process[p] = S!Idle
  BY DEF S!Init
<1>3. SessionTypes
  <2>1. now \in Int /\ object \in BOOLEAN /\ off \in BOOLEAN
    <3>1. now = 0 /\ object \in BOOLEAN /\ off = FALSE
      BY DEF S!Init
    <3>2. now \in Int
      BY <3>1
    <3>3. off \in BOOLEAN
      BY <3>1, Zenon
    <3> QED BY <3>1, <3>2, <3>3
  <2>2. rows \in [Jobs -> SessionRow]
    BY <1>1 DEF S!Init
  <2>3. process \in [Uploads \cup Sweepers -> SessionProcess]
    BY IdleSession DEF S!Init
  <2> QED BY <2>1, <2>2, <2>3 DEF SessionTypes
<1>4. \A j \in Jobs : SessionKept(j, rows[j])
  BY <1>1 DEF S!Init
<1> QED BY <1>2, <1>3, <1>4, IdleSession DEF SessionsInv

LEMMA WindowsFollow == SessionsInv => WindowKept
<1> SUFFICES ASSUME SessionsInv, NEW j \in Jobs
             PROVE  /\ S!SessionState(j) = "available" => now < StartedAt[j] + Retention
                    /\ rows[j].purged => off \/ now >= StartedAt[j] + Retention
  BY DEF WindowKept, S!WindowKept
<1>1. SessionKept(j, rows[j]) /\ rows[j] \in SessionRow /\ now \in Int
      /\ StartedAt[j] + Retention \in Int
  BY WindowsAssumption DEF SessionsInv, SessionTypes, S!SessionsAssumption
<1>2. rows[j].purged => off \/ now >= StartedAt[j] + Retention
  BY <1>1 DEF SessionKept, Due, WindowEnd
<1>3. ASSUME S!SessionState(j) = "available" PROVE now < StartedAt[j] + Retention
  <2>1. rows[j].outcome = "collected" /\ ~(rows[j].expires <= now)
    BY <1>1, <1>3 DEF S!SessionState, S!Expired, SessionRow, S!Outcomes
  <2>2. rows[j].expires = StartedAt[j] + Retention
    BY <1>1, <2>1 DEF SessionKept, WindowEnd
  <2> QED BY <1>1, <2>1, <2>2
<1> QED BY <1>2, <1>3

\* A session is available within its own run's window only, and reclaimed only after
\* it or once collection is off, however often it is reported and by whichever
\* replicas it is swept (sessions/internal-routes.ts:133-136, sessions/repository.ts).
THEOREM SessionWindowsKept == SessionsSpec => []WindowKept
<1> QED BY SessionsStart, SessionsStep, WindowsFollow, PTL DEF SessionsSpec, S!Spec
=============================================================================
