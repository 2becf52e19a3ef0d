---------------------------- MODULE Deploys_proofs ----------------------------
(***************************************************************************)
(* What the ledger of a project's deployments says, for any number of      *)
(* requests, commits, jobs and repeated deliveries.  Two things make it    *)
(* true: a report is only ever about a job that has finished, and a        *)
(* finished job does not change (Moves); and one makes a rollback's target *)
(* good: the ledger only grows (LedgerGrows), so the revision a request    *)
(* found in it is still there when the request inserts its job.            *)
(***************************************************************************)
EXTENDS Deploys, FiniteSetTheorems, FunctionTheorems, TLAPS

\* What a handler between its checks and its INSERT has found in the ledger.
TargetsKnown ==
    \A r \in Requests : req[r].pc \in {"precheck", "rollback"} => HasRevision(req[r].target)

DeploysInv ==
    /\ TypeOK
    /\ LedgerIsTrue
    /\ \A j \in reports : ~Active(j)
    /\ TargetsKnown

-----------------------------------------------------------------------------
(* What a step does to the jobs and to the ledger. *)

\* Jobs are added, and only unfinished ones change.
Moves ==
    /\ jobs' \in Seq(DeployJob)
    /\ DOMAIN jobs \subseteq DOMAIN jobs'
    /\ \A j \in DOMAIN jobs : ~Active(j) => jobs'[j] = jobs[j]

RollbacksKnown ==
    \A j \in DOMAIN jobs : jobs[j].kind = "rollback" => HasRevision(jobs[j].target)

LEMMA Unmoved ==
    ASSUME TypeOK, UNCHANGED jobs
    PROVE  Moves
BY DEF TypeOK, Moves

LEMMA DispatchFacts ==
    ASSUME DeploysInv, NEW kind \in {"deploy", "rollback"}, NEW target \in Nat,
           DispatchDeployJob(kind, target), UNCHANGED ledger,
           kind = "rollback" => HasRevision(target)
    PROVE  Moves /\ RollbacksKnown'
<1>1. CASE UNCHANGED jobs
  BY <1>1, Unmoved DEF DeploysInv, LedgerIsTrue, RollbacksKnown, HasRevision, Completed
<1>2. CASE jobs' = Append(jobs, Job(kind, target))
  <2>1. jobs \in Seq(DeployJob) /\ Job(kind, target) \in DeployJob
    BY DEF DeploysInv, TypeOK, DeployJob, Job
  <2>2. /\ jobs' \in Seq(DeployJob)
        /\ DOMAIN jobs' = DOMAIN jobs \cup {Len(jobs) + 1}
        /\ \A j \in DOMAIN jobs : jobs'[j] = jobs[j]
        /\ jobs'[Len(jobs) + 1] = Job(kind, target)
    BY <1>2, <2>1
  <2>3. Job(kind, target).kind = kind /\ Job(kind, target).target = target
    BY DEF Job
  <2>4. \A n : HasRevision(n)' <=> HasRevision(n)
    BY DEF HasRevision, Completed
  <2>5. RollbacksKnown'
    <3> SUFFICES ASSUME NEW j \in DOMAIN jobs', jobs'[j].kind = "rollback"
                 PROVE  HasRevision(jobs'[j].target)
      BY <2>4 DEF RollbacksKnown, HasRevision, Completed
    <3>1. CASE j \in DOMAIN jobs
      BY <2>2, <3>1 DEF DeploysInv, LedgerIsTrue
    <3>2. CASE j = Len(jobs) + 1
      BY <2>2, <2>3, <3>2
    <3> QED BY <2>2, <3>1, <3>2
  <2> QED BY <2>2, <2>5 DEF Moves
<1> QED BY <1>1, <1>2 DEF DispatchDeployJob

\* A step that leaves the ledger alone leaves it true.
LEMMA LedgerStays ==
    ASSUME DeploysInv, Moves, RollbacksKnown', UNCHANGED ledger
    PROVE  LedgerIsTrue' /\ (ledger \in Seq(LedgerRow))'
<1>1. ledger \in Seq(LedgerRow)
  BY DEF DeploysInv, TypeOK
<1>2. \A i \in DOMAIN ledger : /\ ledger[i] \in LedgerRow /\ ledger[i].job \in DOMAIN jobs
                               /\ ~Active(ledger[i].job) /\ ledger[i] = Row(ledger[i].job)
  <2>1. \A i \in DOMAIN ledger : ledger[i] \in LedgerRow
    BY <1>1
  <2> QED BY <2>1 DEF DeploysInv, LedgerIsTrue, LedgerRow
<1>3. \A i \in DOMAIN ledger : /\ Row(ledger[i].job)' = Row(ledger[i].job)
                               /\ ~Active(ledger[i].job)'
  BY <1>2 DEF Moves, Row, Active
<1>4. (ledger \in Seq(LedgerRow))'
  <2>1. \A i \in DOMAIN ledger : ledger[i] \in LedgerRow'
    BY <1>2 DEF Moves, LedgerRow
  <2>2. ledger \in [1..Len(ledger) -> LedgerRow'] /\ Len(ledger) \in Nat
    BY <1>1, <2>1
  <2> QED BY <2>2
<1> QED BY <1>2, <1>3, <1>4 DEF DeploysInv, LedgerIsTrue, RollbacksKnown

\* So does a report, which is about a finished job.
LEMMA RecordFacts ==
    ASSUME DeploysInv, NEW j \in reports, Record(j), UNCHANGED jobs
    PROVE  /\ LedgerIsTrue' /\ (ledger \in Seq(LedgerRow))'
           /\ \A n : HasRevision(n) => HasRevision(n)'
<1>1. CASE UNCHANGED ledger
  <2>1. Moves /\ RollbacksKnown'
    BY <1>1, Unmoved DEF DeploysInv, LedgerIsTrue, RollbacksKnown, HasRevision, Completed
  <2> QED BY <1>1, <2>1, LedgerStays DEF HasRevision, Completed
<1>2. CASE /\ \A i \in DOMAIN ledger : ledger[i].job # j
           /\ ledger' = Append(ledger, Row(j))
  <2>1. /\ jobs \in Seq(DeployJob) /\ ledger \in Seq(LedgerRow)
        /\ j \in DOMAIN jobs /\ ~Active(j)
    BY DEF DeploysInv, TypeOK
  <2>2. Row(j) \in LedgerRow /\ Row(j).job = j
    <3>1. jobs[j] \in DeployJob
      BY <2>1
    <3> QED BY <2>1, <3>1 DEF Row, LedgerRow, DeployJob
  <2>3. /\ ledger' \in Seq(LedgerRow) /\ Len(ledger) \in Nat
        /\ DOMAIN ledger' = DOMAIN ledger \cup {Len(ledger) + 1}
        /\ \A i \in DOMAIN ledger : ledger'[i] = ledger[i]
        /\ ledger'[Len(ledger) + 1] = Row(j)
    BY <1>2, <2>1, <2>2
  <2>4. LedgerRow' = LedgerRow /\ \A k : (Row(k)' = Row(k)) /\ (Active(k)' <=> Active(k))
    BY DEF LedgerRow, Row, Active
  <2>5. \A n : HasRevision(n) => HasRevision(n)'
    BY <2>3 DEF HasRevision, Completed
  <2>6. \A i \in DOMAIN ledger' : ledger'[i] = Row(ledger'[i].job) /\ ~Active(ledger'[i].job)
    BY <2>1, <2>2, <2>3 DEF DeploysInv, LedgerIsTrue
  <2>7. \A i, k \in DOMAIN ledger' : ledger'[i].job = ledger'[k].job => i = k
    BY <1>2, <2>2, <2>3 DEF DeploysInv, LedgerIsTrue
  <2>8. RollbacksKnown'
    BY <2>5 DEF DeploysInv, LedgerIsTrue, RollbacksKnown
  <2> QED BY <2>3, <2>4, <2>5, <2>6, <2>7, <2>8 DEF LedgerIsTrue, RollbacksKnown
<1> QED BY <1>1, <1>2 DEF Record

LEMMA NothingMoves ==
    ASSUME DeploysInv, UNCHANGED <<jobs, ledger>>
    PROVE  /\ LedgerIsTrue' /\ (ledger \in Seq(LedgerRow))'
           /\ \A n : HasRevision(n)' <=> HasRevision(n)
           /\ \A j : Active(j)' <=> Active(j)
<1>1. Moves /\ RollbacksKnown'
  BY Unmoved DEF DeploysInv, LedgerIsTrue, RollbacksKnown, HasRevision, Completed
<1> QED BY <1>1, LedgerStays DEF HasRevision, Completed, Active

\* Where a handler goes next.
LEMMA HandlerMoves ==
    ASSUME DeploysInv, NEW r \in Requests, NEW q \in Handler,
           req' = [req EXCEPT ![r] = q], UNCHANGED ledger,
           q.pc \in {"precheck", "rollback"} => HasRevision(q.target)
    PROVE  (req \in [Requests -> Handler])' /\ TargetsKnown'
<1>1. req \in [Requests -> Handler]
  BY DEF DeploysInv, TypeOK
<1>2. req' \in [Requests -> Handler]
  BY <1>1
<1>3. \A n : HasRevision(n)' <=> HasRevision(n)
  BY DEF HasRevision, Completed
<1>4. TargetsKnown'
  <2> SUFFICES ASSUME NEW p \in Requests, req'[p].pc \in {"precheck", "rollback"}
               PROVE  HasRevision(req'[p].target)
    BY <1>3 DEF TargetsKnown, HasRevision, Completed
  <2>1. CASE p = r
    BY <1>1, <2>1
  <2>2. CASE p # r
    BY <1>1, <2>2 DEF DeploysInv, TargetsKnown
  <2> QED BY <2>1, <2>2
<1> QED BY <1>2, <1>4

LEMMA HandlerGoes ==
    ASSUME DeploysInv, NEW r \in Requests,
           NEW pc \in {"markReady", "deploy", "initMerged"}, Goes(r, pc), UNCHANGED ledger
    PROVE  (req \in [Requests -> Handler])' /\ TargetsKnown'
<1>1. req \in [Requests -> Handler] /\ req[r] \in Handler
  BY DEF DeploysInv, TypeOK
<1> DEFINE q == [req[r] EXCEPT !.pc = pc]
<1>2. q \in Handler /\ q.pc = pc
  BY <1>1 DEF Handler
<1>3. req' = [req EXCEPT ![r] = q]
  BY <1>1 DEF Goes
<1> QED BY <1>2, <1>3, HandlerMoves

LEMMA HandlerEnds ==
    ASSUME DeploysInv, NEW r \in Requests, Ends(r), UNCHANGED ledger
    PROVE  (req \in [Requests -> Handler])' /\ TargetsKnown'
<1>1. Idle \in Handler /\ Idle.pc = "idle"
  BY DEF Idle, Handler
<1> QED BY <1>1, HandlerMoves DEF Ends

\* A webhook is taken from those that were sent, and perhaps left to come again.
LEMMA TakenFacts ==
    ASSUME TypeOK, NEW h \in hooks, Taken(h)
    PROVE  hooks' \subseteq hooks /\ repeats' \in 0..MaxRepeats /\ h.commit \in 1..main
BY BoundsAssumption DEF TypeOK, Taken

-----------------------------------------------------------------------------
(* Every step keeps the invariant. *)

LEMMA RequestStep ==
    ASSUME DeploysInv, NEW r \in Requests,
           CompleteInit(r) \/ MarkReady(r) \/ DeployNow(r) \/ InitMerged(r)
    PROVE  DeploysInv'
<1>1. /\ UNCHANGED <<main, hooks, jobs, ledger, reports, repeats, due>>
      /\ status' \in {"initializing", "ready"} /\ merged' \in BOOLEAN
  BY DEF DeploysInv, TypeOK, CompleteInit, MarkReady, DeployNow, InitMerged
<1>2. (req \in [Requests -> Handler])' /\ TargetsKnown'
  BY <1>1, HandlerGoes, HandlerEnds DEF CompleteInit, MarkReady, DeployNow, InitMerged
<1> QED BY <1>1, <1>2, NothingMoves DEF DeploysInv, TypeOK

LEMMA DeployStep ==
    ASSUME DeploysInv, NEW r \in Requests, Deploy(r)
    PROVE  DeploysInv'
<1>1. Moves /\ RollbacksKnown'
  BY DispatchFacts DEF Deploy
<1>2. LedgerIsTrue' /\ (ledger \in Seq(LedgerRow))'
  BY <1>1, LedgerStays DEF Deploy
<1>3. (req \in [Requests -> Handler])' /\ TargetsKnown'
  BY HandlerEnds DEF Deploy
<1>4. reports' \subseteq DOMAIN jobs' /\ \A j \in reports' : ~Active(j)'
  BY <1>1 DEF Deploy, DeploysInv, TypeOK, Moves, Active
<1> QED BY <1>1, <1>2, <1>3, <1>4 DEF DeploysInv, TypeOK, Deploy, Moves

LEMMA RollbackChecksStep ==
    ASSUME DeploysInv, NEW r \in Requests, RollbackChecks(r)
    PROVE  DeploysInv'
<1>1. PICK revision \in 1..MaxJobs :
        /\ HasRevision(revision)
        /\ req' = [req EXCEPT ![r] = [pc |-> "precheck", target |-> revision]]
        /\ UNCHANGED <<status, merged, main, hooks, jobs, ledger, reports, repeats, due>>
  BY DEF RollbackChecks
<1>2. [pc |-> "precheck", target |-> revision] \in Handler
  BY DEF Handler
<1>3. (req \in [Requests -> Handler])' /\ TargetsKnown'
  BY <1>1, <1>2, HandlerMoves
<1> QED BY <1>1, <1>3, NothingMoves DEF DeploysInv, TypeOK

LEMMA RollbackPrechecksStep ==
    ASSUME DeploysInv, NEW r \in Requests, RollbackPrechecks(r)
    PROVE  DeploysInv'
<1>1. req \in [Requests -> Handler] /\ req[r] \in Handler
  BY DEF DeploysInv, TypeOK
<1> DEFINE q == [req[r] EXCEPT !.pc = "rollback"]
<1>2. q \in Handler /\ q.target = req[r].target
  BY <1>1 DEF Handler
<1>3. HasRevision(req[r].target)
  BY DEF RollbackPrechecks, At, DeploysInv, TargetsKnown
<1>4. (req \in [Requests -> Handler])' /\ TargetsKnown'
  <2>1. CASE Ends(r)
    BY <2>1, HandlerEnds DEF RollbackPrechecks
  <2>2. CASE Goes(r, "rollback")
    <3>1. req' = [req EXCEPT ![r] = q]
      BY <1>1, <2>2 DEF Goes
    <3> QED BY <1>2, <1>3, <3>1, HandlerMoves DEF RollbackPrechecks
  <2> QED BY <2>1, <2>2 DEF RollbackPrechecks
<1> QED BY <1>4, NothingMoves DEF DeploysInv, TypeOK, RollbackPrechecks

LEMMA RollbackStep ==
    ASSUME DeploysInv, NEW r \in Requests, Rollback(r)
    PROVE  DeploysInv'
<1>1. req[r].target \in Nat /\ HasRevision(req[r].target)
  BY DEF Rollback, At, DeploysInv, TargetsKnown, TypeOK, Handler
<1>2. Moves /\ RollbacksKnown'
  BY <1>1, DispatchFacts DEF Rollback
<1>3. LedgerIsTrue' /\ (ledger \in Seq(LedgerRow))'
  BY <1>2, LedgerStays DEF Rollback
<1>4. (req \in [Requests -> Handler])' /\ TargetsKnown'
  BY HandlerEnds DEF Rollback
<1>5. reports' \subseteq DOMAIN jobs' /\ \A j \in reports' : ~Active(j)'
  BY <1>2 DEF Rollback, DeploysInv, TypeOK, Moves, Active
<1> QED BY <1>2, <1>3, <1>4, <1>5 DEF DeploysInv, TypeOK, Rollback, Moves

LEMMA PushStep ==
    ASSUME DeploysInv, NEW h \in hooks, Push(h)
    PROVE  DeploysInv'
<1>1. Moves /\ RollbacksKnown'
  <2>1. CASE UNCHANGED jobs
    BY <2>1, Unmoved DEF Push, DeploysInv, LedgerIsTrue, RollbacksKnown, HasRevision, Completed
  <2>2. CASE DispatchDeployJob("deploy", 0)
    BY <2>2, DispatchFacts DEF Push
  <2> QED BY <2>1, <2>2 DEF Push
<1>2. LedgerIsTrue' /\ (ledger \in Seq(LedgerRow))'
  BY <1>1, LedgerStays DEF Push
<1>3. reports' \subseteq DOMAIN jobs' /\ \A j \in reports' : ~Active(j)'
  BY <1>1 DEF Push, DeploysInv, TypeOK, Moves, Active
<1>4. hooks' \subseteq hooks /\ repeats' \in 0..MaxRepeats /\ due' \subseteq 1..main
  BY TakenFacts DEF Push, DeploysInv, TypeOK
<1>5. TargetsKnown'
  BY DEF Push, DeploysInv, TargetsKnown, HasRevision, Completed
<1> QED BY <1>1, <1>2, <1>3, <1>4, <1>5 DEF DeploysInv, TypeOK, Push, Moves

LEMMA PullRequestStep ==
    ASSUME DeploysInv, NEW r \in Requests, NEW h \in hooks, PullRequestMerged(r, h)
    PROVE  DeploysInv'
<1>1. hooks' \subseteq hooks /\ repeats' \in 0..MaxRepeats
  BY TakenFacts DEF PullRequestMerged, DeploysInv
<1>2. (req \in [Requests -> Handler])' /\ TargetsKnown'
  <2>1. CASE UNCHANGED req
    BY <2>1 DEF PullRequestMerged, DeploysInv, TypeOK, TargetsKnown, HasRevision, Completed
  <2>2. CASE Goes(r, "initMerged")
    BY <2>2, HandlerGoes DEF PullRequestMerged
  <2> QED BY <2>1, <2>2 DEF PullRequestMerged
<1>3. merged' \in BOOLEAN
  BY DEF PullRequestMerged, DeploysInv, TypeOK
<1> QED BY <1>1, <1>2, <1>3, NothingMoves DEF DeploysInv, TypeOK, PullRequestMerged

LEMMA GitHubStep ==
    ASSUME DeploysInv, Commit \/ MergeInit
    PROVE  DeploysInv'
<1>1. main' = main + 1 /\ main' \in 0..MaxCommits /\ main \in Nat
  BY BoundsAssumption DEF Commit, MergeInit, DeploysInv, TypeOK
<1>2. UNCHANGED <<status, merged, jobs, ledger, reports, req, repeats, due>>
  BY DEF Commit, MergeInit
<1>3. hooks' \subseteq [event : {"push", "pull_request"}, commit : 1..main'] /\ due \subseteq 1..main'
  BY <1>1 DEF Commit, MergeInit, DeploysInv, TypeOK
<1>4. TargetsKnown'
  BY <1>2 DEF DeploysInv, TargetsKnown, HasRevision, Completed
<1> QED BY <1>1, <1>2, <1>3, <1>4, NothingMoves DEF DeploysInv, TypeOK

\* The Orchestrator changes jobs that are not finished.
LEMMA JobChanges ==
    ASSUME DeploysInv, NEW j \in DOMAIN jobs, NEW job \in DeployJob, Active(j),
           jobs' = [jobs EXCEPT ![j] = job], UNCHANGED ledger,
           job.kind = jobs[j].kind, job.target = jobs[j].target
    PROVE  Moves /\ RollbacksKnown'
<1>1. jobs \in Seq(DeployJob)
  BY DEF DeploysInv, TypeOK
<1>2. /\ jobs' \in Seq(DeployJob) /\ DOMAIN jobs' = DOMAIN jobs
      /\ jobs'[j] = job /\ \A k \in DOMAIN jobs \ {j} : jobs'[k] = jobs[k]
  BY <1>1
<1>3. \A n : HasRevision(n)' <=> HasRevision(n)
  BY DEF HasRevision, Completed
<1>4. \A k \in DOMAIN jobs' : jobs'[k].kind = "rollback" => HasRevision(jobs'[k].target)
  BY <1>2 DEF DeploysInv, LedgerIsTrue
<1> QED BY <1>2, <1>3, <1>4 DEF Moves, RollbacksKnown

LEMMA ClaimStep ==
    ASSUME DeploysInv, NEW j \in DOMAIN jobs, Claim(j)
    PROVE  DeploysInv'
<1> DEFINE commit == IF jobs[j].kind = "deploy" THEN main ELSE 0
           job == [jobs[j] EXCEPT !.status = "running", !.commit = commit]
<1>1. jobs \in Seq(DeployJob) /\ jobs[j] \in DeployJob /\ commit \in Nat
  BY DEF DeploysInv, TypeOK
<1>2. job \in DeployJob /\ job.kind = jobs[j].kind /\ job.target = jobs[j].target
  BY <1>1 DEF DeployJob
<1>3. jobs' = [jobs EXCEPT ![j] = job]
  BY <1>1 DEF Claim
<1>4. Active(j)
  BY DEF Claim, Active
<1>5. Moves /\ RollbacksKnown'
  BY <1>2, <1>3, <1>4, JobChanges DEF Claim
<1>6. LedgerIsTrue' /\ (ledger \in Seq(LedgerRow))'
  BY <1>5, LedgerStays DEF Claim
<1>7. reports' \subseteq DOMAIN jobs' /\ \A k \in reports' : ~Active(k)'
  BY <1>5 DEF Claim, DeploysInv, TypeOK, Moves, Active
<1>8. TargetsKnown'
  BY DEF Claim, DeploysInv, TargetsKnown, HasRevision, Completed
<1> QED BY <1>5, <1>6, <1>7, <1>8 DEF DeploysInv, TypeOK, Claim, Moves

\* Helm numbers the revisions of a release one after the other.
LEMMA NewRevision ==
    ASSUME TypeOK
    PROVE  Cardinality(Revisions \ {0}) + 1 \in Nat
<1>1. jobs \in Seq(DeployJob) /\ Len(jobs) \in Nat /\ DOMAIN jobs = 1..Len(jobs)
  BY DEF TypeOK
<1>2. IsFiniteSet(1..Len(jobs))
  BY <1>1, FS_Interval
<1> DEFINE revisions == [j \in 1..Len(jobs) |-> jobs[j].revision]
<1>3. revisions \in Surjection(1..Len(jobs), Revisions)
  BY <1>1, Fun_IsSurj DEF Revisions
<1>4. IsFiniteSet(Revisions)
  BY <1>2, <1>3, FS_Surjection
<1> QED BY <1>4, FS_Subset, FS_CardinalityType

LEMMA FinishStep ==
    ASSUME DeploysInv, NEW j \in DOMAIN jobs, Finish(j)
    PROVE  DeploysInv'
<1>1. jobs \in Seq(DeployJob) /\ jobs[j] \in DeployJob
  BY DEF DeploysInv, TypeOK
<1>2. PICK job \in DeployJob :
        /\ job.kind = jobs[j].kind /\ job.target = jobs[j].target
        /\ job.status \in {"completed", "failed"}
        /\ jobs' = [jobs EXCEPT ![j] = job]
  <2> DEFINE revision == Cardinality(Revisions \ {0}) + 1
             completed == [jobs[j] EXCEPT !.status = "completed", !.revision = revision]
             failed == [jobs[j] EXCEPT !.status = "failed"]
  <2>1. revision \in Nat
    BY NewRevision DEF DeploysInv
  <2> HIDE DEF revision
  <2>2. /\ completed \in DeployJob /\ completed.kind = jobs[j].kind
        /\ completed.target = jobs[j].target /\ completed.status = "completed"
    BY <1>1, <2>1 DEF DeployJob
  <2>3. /\ failed \in DeployJob /\ failed.kind = jobs[j].kind
        /\ failed.target = jobs[j].target /\ failed.status = "failed"
    BY <1>1 DEF DeployJob
  <2>4. jobs' = [jobs EXCEPT ![j] = completed] \/ jobs' = [jobs EXCEPT ![j] = failed]
    BY <1>1 DEF Finish, revision
  <2> QED BY <2>2, <2>3, <2>4
<1>3. Active(j)
  BY DEF Finish, Active
<1>4. Moves /\ RollbacksKnown'
  BY <1>2, <1>3, JobChanges DEF Finish
<1>5. LedgerIsTrue' /\ (ledger \in Seq(LedgerRow))'
  BY <1>4, LedgerStays DEF Finish
<1>6. reports' \subseteq DOMAIN jobs' /\ \A k \in reports' : ~Active(k)'
  <2>1. jobs'[j].status \in {"completed", "failed"}
    BY <1>1, <1>2
  <2> QED BY <1>4, <2>1 DEF Finish, DeploysInv, TypeOK, Moves, Active
<1>7. TargetsKnown'
  BY DEF Finish, DeploysInv, TargetsKnown, HasRevision, Completed
<1> QED BY <1>4, <1>5, <1>6, <1>7 DEF DeploysInv, TypeOK, Finish, Moves

LEMMA ReportStep ==
    ASSUME DeploysInv, NEW j \in DOMAIN jobs, Report(j)
    PROVE  DeploysInv'
<1>1. /\ LedgerIsTrue' /\ (ledger \in Seq(LedgerRow))'
      /\ \A n : HasRevision(n) => HasRevision(n)'
  BY RecordFacts DEF Report
<1>2. reports' \subseteq reports /\ repeats' \in 0..MaxRepeats
  BY BoundsAssumption DEF Report, DeploysInv, TypeOK
<1>3. (\A k \in reports' : ~Active(k)') /\ TargetsKnown'
  BY <1>1, <1>2 DEF Report, DeploysInv, TargetsKnown, Active
<1> QED BY <1>1, <1>2, <1>3 DEF DeploysInv, TypeOK, Report

LEMMA DeploysStep == DeploysInv /\ [Next]_vars => DeploysInv'
<1> SUFFICES ASSUME DeploysInv, [Next]_vars
             PROVE  DeploysInv'
  OBVIOUS
<1>1. ASSUME NEW r \in Requests, Handles(r) \/ CompleteInit(r) \/ DeployNow(r) \/ RollbackChecks(r)
      PROVE  DeploysInv'
  BY <1>1, RequestStep, DeployStep, RollbackChecksStep, RollbackPrechecksStep, RollbackStep
  DEF Handles
<1>2. ASSUME NEW h \in hooks, Push(h) \/ \E r \in Requests : PullRequestMerged(r, h)
      PROVE  DeploysInv'
  BY <1>2, PushStep, PullRequestStep
<1>3. CASE Commit \/ MergeInit
  BY <1>3, GitHubStep
<1>4. ASSUME NEW j \in DOMAIN jobs, Claim(j) \/ Finish(j) \/ Report(j)
      PROVE  DeploysInv'
  BY <1>4, ClaimStep, FinishStep, ReportStep
<1>5. CASE UNCHANGED vars
  <2>1. UNCHANGED <<jobs, ledger>> /\ TargetsKnown'
    BY <1>5 DEF vars, DeploysInv, TargetsKnown, HasRevision, Completed
  <2> QED BY <1>5, <2>1, NothingMoves DEF vars, DeploysInv, TypeOK
<1> QED BY <1>1, <1>2, <1>3, <1>4, <1>5 DEF Next

LEMMA DeploysInit == Init => DeploysInv
<1> SUFFICES ASSUME Init
             PROVE  DeploysInv
  OBVIOUS
<1>1. Idle \in Handler /\ Idle.pc = "idle"
  BY DEF Idle, Handler
<1>2. jobs = <<>> /\ ledger = <<>> /\ DOMAIN jobs = {} /\ DOMAIN ledger = {}
  BY DEF Init
<1>3. jobs \in Seq(DeployJob) /\ ledger \in Seq(LedgerRow)
  BY <1>2
<1>4. TypeOK
  <2>1. 0 \in 0..MaxCommits /\ 0 \in 0..MaxRepeats
    BY BoundsAssumption
  <2>2. req \in [Requests -> Handler]
    BY <1>1 DEF Init
  <2> QED BY <1>3, <2>1, <2>2 DEF Init, TypeOK
<1>5. LedgerIsTrue
  BY <1>2 DEF LedgerIsTrue
<1> QED BY <1>1, <1>4, <1>5 DEF Init, DeploysInv, TargetsKnown

LEMMA DeploysInvariant == Spec => []DeploysInv
BY DeploysInit, DeploysStep, PTL DEF Spec

-----------------------------------------------------------------------------
(* Theorems. *)

\* Rows, jobs, handlers and webhooks stay well formed, whatever is delivered again:
\* a report is of a job there is, and a push of a commit main has.
THEOREM TypeCorrect == Spec => []TypeOK
<1>1. DeploysInv => TypeOK
  BY DEF DeploysInv
<1> QED BY <1>1, DeploysInvariant, PTL

\* The ledger says of each finished job what came of it, once; and a rollback goes to
\* a revision it lists, however long ago the request looked it up
\* (deploys/repository.ts:55-66, projects/routes.ts:863-866).
THEOREM LedgerTells == Spec => []LedgerIsTrue
<1>1. DeploysInv => LedgerIsTrue
  BY DEF DeploysInv
<1> QED BY <1>1, DeploysInvariant, PTL
=============================================================================
