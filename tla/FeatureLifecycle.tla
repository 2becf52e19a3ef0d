--------------------------- MODULE FeatureLifecycle ---------------------------
(***************************************************************************)
(* One feature of the API: its row in `features`, its rows in `jobs`, and  *)
(* the requests and reconcile ticks, over all replicas, that read and      *)
(* write them.  Every replica talks to the one Postgres database and a     *)
(* request is a sequence of separate statements (there is no transaction), *)
(* so a process here takes one step per statement whose outcome another    *)
(* process can change or observe, and may be abandoned between two of      *)
(* them.  A statement of the form                                          *)
(* UPDATE ... WHERE status = ... is one step.                              *)
(*                                                                         *)
(* The Orchestrator (which claims jobs and posts their events) and GitHub  *)
(* (which delivers webhooks) are outside the repository and are modelled   *)
(* as src/ uses them.                                                      *)
(***************************************************************************)
EXTENDS Naturals, Sequences, FiniteSets

CONSTANTS
    Requests,        \* HTTP requests that may be in flight at once
    Reconcilers,     \* replicas running the testing-gate reconcile tick
    Operations,      \* the requests and deliveries a run exercises
    Projects,        \* the settings of the project, as records (see Project)
    MaxAttempts,     \* bound, per project: the grills and builds asked for
    MaxCrashes       \* bound: requests or ticks abandoned half way

\* What the feature's project decides: how many Test entities are enabled,
\* whether the installation can run script_test_run, and the project's
\* agentic_review_enabled toggle.
Project == [tests : Nat, scripts : BOOLEAN, review : BOOLEAN]

ASSUME BoundsAssumption ==
    /\ Projects \subseteq Project
    /\ MaxAttempts \in [Projects -> Nat]
    /\ MaxCrashes \in Nat

VARIABLES
    project,   \* the settings its project has now
    feature,   \* the feature's row
    reviewed,  \* history: adr_markdown is the text a user approved
    jobs,      \* the feature's rows of `jobs`, in order of created_at
    process,   \* what each request or tick does next
    crashes    \* how many requests and ticks were abandoned

vars == <<project, feature, reviewed, jobs, process, crashes>>

-----------------------------------------------------------------------------
(* Data *)

Processes == Requests \union Reconcilers

Status == {"draft", "spec_ready", "queued", "running", "testing",
           "agentic_review", "in_review", "returned", "merged", "failed",
           "cancelled"}

Feature == [status : Status, approved : BOOLEAN, awaiting : BOOLEAN,
            prUrl : BOOLEAN]

TestKinds == {"test_run", "script_test_run"}
Kind == {"spec_grill", "feature_build", "agentic_review"} \union TestKinds

\* A job's row, what its run has told the API so far (`said`), and what the
\* stored report or build result holds (`result`).  "closed" stands for
\* completed and failed, which no decision about a feature tells apart.
JobStatus == {"pending", "running", "closed", "cancelled"}
Said == {"nothing", "claimed", "started", "asked", "ended"}
Result == {"none", "passed", "failed", "unavailable"}
Job == [kind : Kind, status : JobStatus, said : Said, result : Result]

\* Where a process is: the statement it issues next, the jobs it still has to
\* insert, and the status (or gate decision) it has made up its mind to apply.
Step == {"idle", "dispatch", "dispatch_tests", "list_tests", "update_adr",
         "approve_adr", "queue_build", "cancel_jobs", "retry_jobs",
         "reset_for_retry", "redo_jobs", "redo", "retry_build_jobs",
         "retry_build", "clear_awaiting", "update_status", "set_returned",
         "gate_read", "gate_list", "gate_apply"}
Decision == {"not_run", "in_progress", "advance", "returned", "errored"}
Process == [at : Step, todo : Seq(Kind), choice : Status \union Decision]

Idle == [at |-> "idle", todo |-> <<>>, choice |-> "draft"]

Goto(p, step) == process' = [process EXCEPT ![p] = [Idle EXCEPT !.at = step]]

GotoWith(p, step, choice) ==
    process' = [process EXCEPT ![p] = [Idle EXCEPT !.at = step,
                                                   !.choice = choice]]

\* The kinds p has still to insert, one INSERT per step.
ThenInsert(p, step, kinds) ==
    process' = [process EXCEPT ![p] =
                  IF kinds = <<>> THEN Idle
                  ELSE [Idle EXCEPT !.at = step, !.todo = kinds]]

\* Sends the request on to its job's INSERT when its UPDATE changed a row.
ThenDispatch(p, changed, kind) ==
    ThenInsert(p, "dispatch", IF changed THEN <<kind>> ELSE <<>>)

\* MaxAttempts bounds the grills and builds: those dispatched, and those that
\* a request is about to insert.  A kick-back dispatches its grill without room,
\* which each build does at most once.
Room == LET attempts == {"spec_grill", "feature_build"}
        IN  Cardinality({j \in DOMAIN jobs : jobs[j].kind \in attempts})
              + Cardinality({p \in Processes : /\ process[p].todo # <<>>
                                              /\ Head(process[p].todo) \in attempts})
              < MaxAttempts[project]

\* A request arrives and a worker is free to serve it.
Arrives(p, operation) ==
    /\ p \in Requests
    /\ process[p] = Idle
    /\ operation \in Operations
    /\ operation \in {"start_build", "resume", "retry_build", "retry_grill",
                     "redo", "restart"} => Room

-----------------------------------------------------------------------------
(* The statements of FeatureRepository, each one atomic.  Beside some stands *)
(* a form with a plausible bug, which TLC finds some property to refuse.     *)

\* UPDATE ... WHERE guard: a row the guard rejects is left as it is.
Where(guard, updated) == feature' = IF guard THEN updated ELSE feature

ResetToDraft == [feature EXCEPT !.status = "draft", !.approved = FALSE,
                                !.awaiting = FALSE]

UpdateAdr == reviewed' = FALSE /\ UNCHANGED feature

SetSpecReadyKeepsAwaiting ==
    /\ feature' = [feature EXCEPT !.status = "spec_ready"]
    /\ reviewed' = FALSE

SetSpecReady ==
    /\ feature' = [feature EXCEPT !.status = "spec_ready", !.awaiting = FALSE]
    /\ reviewed' = FALSE

CanApprove == feature.status = "spec_ready"
ApproveAdr ==
    /\ Where(CanApprove, [feature EXCEPT !.approved = TRUE])
    /\ reviewed' = (reviewed \/ CanApprove)

CanQueueBuild == feature.status = "spec_ready" /\ feature.approved
QueueBuild == Where(CanQueueBuild, [feature EXCEPT !.status = "queued"])

CanRetryUnapproved == feature.status = "failed"

CanRetryBuild == feature.status = "failed" /\ feature.approved
RetryBuild == Where(CanRetryBuild, [feature EXCEPT !.status = "queued"])

CanResume == feature.status = "returned" /\ feature.approved
ResumeImplementation ==
    Where(CanResume, [feature EXCEPT !.status = "queued"])

SetRunningAnytime == feature' = [feature EXCEPT !.status = "running"]

SetRunning ==
    Where(feature.status = "queued", [feature EXCEPT !.status = "running"])

CanTest == feature.status = "running"
SetTesting(prUrl) ==
    Where(CanTest, [feature EXCEPT !.status = "testing", !.prUrl = @ \/ prUrl])

CanReviewAnytime == TRUE

CanReview == feature.status = "testing"
SetAgenticReview ==
    Where(CanReview, [feature EXCEPT !.status = "agentic_review"])

ApproveReview ==
    Where(feature.status = "agentic_review",
          [feature EXCEPT !.status = "in_review"])

SetInReview == feature' = [feature EXCEPT !.status = "in_review"]
SetReturned == feature' = [feature EXCEPT !.status = "returned"]

ResetForRetry == Where(feature.status = "failed", ResetToDraft)

CanRestart == feature.status = "cancelled"
RestartFromCancelled == Where(CanRestart, ResetToDraft)

CanRedo == feature.status \in {"draft", "spec_ready", "failed", "cancelled"}
ResetForGrillRedo == Where(CanRedo, ResetToDraft)

CanCancel == feature.status \notin {"cancelled", "merged"}
CancelFeature ==
    Where(CanCancel,
          [feature EXCEPT !.status = "cancelled", !.awaiting = FALSE])

SetAwaitingUserInput(awaiting) ==
    feature' = [feature EXCEPT !.awaiting = awaiting]

UpdateStatus(status) ==
    feature' = [feature EXCEPT !.status = status,
                               !.approved = @ /\ status # "draft"]

-----------------------------------------------------------------------------
(* The statements of JobRepository and TestRunReportRepository *)

InFlight(job) == job.status \in {"pending", "running"}

NewJob(kind) ==
    [kind |-> kind, status |-> "pending", said |-> "nothing", result |-> "none"]

HasActiveFeatureTestRuns ==
    \E j \in DOMAIN jobs : jobs[j].kind \in TestKinds /\ InFlight(jobs[j])

HasRunningGrill ==
    \E j \in DOMAIN jobs :
        jobs[j].kind = "spec_grill" /\ jobs[j].status = "running"

CancelActiveForFeature ==
    jobs' = [j \in DOMAIN jobs |->
                IF InFlight(jobs[j]) THEN [jobs[j] EXCEPT !.status = "cancelled"]
                ELSE jobs[j]]

\* listByFeature: the test runs created since the latest feature_build.
CurrentRuns ==
    {jobs[j] : j \in {k \in DOMAIN jobs :
        /\ jobs[k].kind \in TestKinds
        /\ \A b \in DOMAIN jobs : jobs[b].kind = "feature_build" => b < k}}

-----------------------------------------------------------------------------
(* The testing gate *)

NothingToVerify == project.tests = 0 /\ ~project.scripts

DecideOnReportsOnly(runs) ==
    IF runs = {} THEN IF NothingToVerify THEN "advance" ELSE "not_run"
    ELSE IF \E run \in runs : run.result = "none" THEN "in_progress"
    ELSE IF \E run \in runs : run.result = "failed" THEN "returned"
    ELSE IF \A run \in runs : run.result = "passed" THEN "advance"
    ELSE "errored"

DecideOnRunsOnly(runs) ==
    IF runs = {} THEN "not_run"
    ELSE IF \E run \in runs : InFlight(run) THEN "in_progress"
    ELSE IF \A run \in runs : run.result = "passed" THEN "advance"
    ELSE "errored"

DecideTestingOutcome(runs) ==
    IF runs = {} THEN IF NothingToVerify THEN "advance" ELSE "not_run"
    ELSE IF \E run \in runs : InFlight(run) THEN "in_progress"
    ELSE IF \E run \in runs : run.result = "failed" THEN "returned"
    ELSE IF \A run \in runs : run.result = "passed" THEN "advance"
    ELSE "errored"

\* The probes submit_build_result dispatches once the feature is in testing.
TestBatch ==
    [i \in 1..project.tests |-> "test_run"]
      \o (IF project.scripts THEN <<"script_test_run", "script_test_run">>
                             ELSE <<>>)

\* The reconcile tick's pre-filter offers the feature.
Tick(p) ==
    /\ p \in Reconcilers
    /\ process[p] = Idle
    /\ feature.status = "testing"
    /\ ~HasActiveFeatureTestRuns
    /\ Goto(p, "gate_read")
    /\ UNCHANGED <<project, feature, reviewed, jobs, crashes>>

GateRead(p) ==
    /\ process[p].at = "gate_read"
    /\ Goto(p, IF feature.status = "testing" THEN "gate_list" ELSE "idle")
    /\ UNCHANGED <<project, feature, reviewed, jobs, crashes>>

GateList(p) ==
    /\ process[p].at = "gate_list"
    /\ LET decision == DecideTestingOutcome(CurrentRuns)
       IN  IF decision \in {"not_run", "in_progress"} THEN Goto(p, "idle")
           ELSE GotoWith(p, "gate_apply", decision)
    /\ UNCHANGED <<project, feature, reviewed, jobs, crashes>>

GateReturn(p) ==
    /\ process[p].at = "gate_apply"
    /\ process[p].choice = "returned"
    /\ SetReturned
    /\ Goto(p, "idle")
    /\ UNCHANGED <<project, reviewed, jobs, crashes>>

GateError(p) ==
    /\ process[p].at = "gate_apply"
    /\ process[p].choice = "errored"
    /\ UpdateStatus("failed")
    /\ Goto(p, "idle")
    /\ UNCHANGED <<project, reviewed, jobs, crashes>>

GateAdvance(p) ==
    /\ process[p].at = "gate_apply"
    /\ process[p].choice = "advance"
    /\ IF project.review
       THEN /\ SetAgenticReview
            /\ ThenDispatch(p, CanReview, "agentic_review")
       ELSE SetInReview /\ Goto(p, "idle")
    /\ UNCHANGED <<project, reviewed, jobs, crashes>>

-----------------------------------------------------------------------------
(* Requests of a user *)

\* jobs.create: one INSERT, which a request may have several of to do.
Insert(p, at) ==
    /\ process[p].at = at
    /\ jobs' = Append(jobs, NewJob(Head(process[p].todo)))
    /\ ThenInsert(p, at, Tail(process[p].todo))
    /\ UNCHANGED <<project, feature, reviewed, crashes>>

Dispatch(p) == Insert(p, "dispatch")

\* PATCH reads the feature and checks it; the statement it asks for is next.
PatchArrives(p) ==
    /\ \/ /\ Arrives(p, "edit_adr")
          /\ feature.status \in {"draft", "spec_ready"}
          /\ Goto(p, "update_adr")
       \/ /\ Arrives(p, "approve")
          /\ CanApprove
          /\ Goto(p, "approve_adr")
       \/ /\ Arrives(p, "start_build")
          /\ CanQueueBuild
          /\ Goto(p, "queue_build")
    /\ UNCHANGED <<project, feature, reviewed, jobs, crashes>>

EditAdr(p) ==
    /\ process[p].at = "update_adr"
    /\ UpdateAdr
    /\ Goto(p, "idle")
    /\ UNCHANGED <<project, jobs, crashes>>

Approve(p) ==
    /\ process[p].at = "approve_adr"
    /\ ApproveAdr
    /\ Goto(p, "idle")
    /\ UNCHANGED <<project, jobs, crashes>>

StartBuild(p) ==
    /\ process[p].at = "queue_build"
    /\ QueueBuild
    /\ ThenDispatch(p, CanQueueBuild, "feature_build")
    /\ UNCHANGED <<project, reviewed, jobs, crashes>>

\* POST resume: no read before the guarded UPDATE.
Resume(p) ==
    /\ Arrives(p, "resume")
    /\ ResumeImplementation
    /\ ThenDispatch(p, CanResume, "feature_build")
    /\ UNCHANGED <<project, reviewed, jobs, crashes>>

\* POST retry-build reads the feature, then its latest job, then writes.
RetryBuildArrives(p) ==
    /\ Arrives(p, "retry_build")
    /\ CanRetryBuild
    /\ Goto(p, "retry_build_jobs")
    /\ UNCHANGED <<project, feature, reviewed, jobs, crashes>>

RetryBuildReadJobs(p) ==
    /\ process[p].at = "retry_build_jobs"
    /\ Goto(p, IF jobs # <<>> /\ InFlight(jobs[Len(jobs)]) THEN "idle"
               ELSE "retry_build")
    /\ UNCHANGED <<project, feature, reviewed, jobs, crashes>>

RetryBuildWrite(p) ==
    /\ process[p].at = "retry_build"
    /\ RetryBuild
    /\ ThenDispatch(p, CanRetryBuild, "feature_build")
    /\ UNCHANGED <<project, reviewed, jobs, crashes>>

\* POST retry-grill does not look at what resetForRetry returned.
RetryGrillArrives(p) ==
    /\ Arrives(p, "retry_grill")
    /\ feature.status \in {"draft", "failed"}
    /\ Goto(p, "retry_jobs")
    /\ UNCHANGED <<project, feature, reviewed, jobs, crashes>>

RetryGrillReadJobs(p) ==
    /\ process[p].at = "retry_jobs"
    /\ Goto(p, IF HasRunningGrill THEN "idle" ELSE "reset_for_retry")
    /\ UNCHANGED <<project, feature, reviewed, jobs, crashes>>

RetryGrillWrite(p) ==
    /\ process[p].at = "reset_for_retry"
    /\ ResetForRetry
    /\ ThenDispatch(p, TRUE, "spec_grill")
    /\ UNCHANGED <<project, reviewed, jobs, crashes>>

\* restart-from-message and resume-from-message: grillRedoBlock on what was
\* read (the feature, then its jobs), then the guarded reset.
RedoArrives(p) ==
    /\ Arrives(p, "redo")
    /\ CanRedo
    /\ Goto(p, "redo_jobs")
    /\ UNCHANGED <<project, feature, reviewed, jobs, crashes>>

RedoReadJobs(p) ==
    /\ process[p].at = "redo_jobs"
    /\ Goto(p, IF /\ jobs # <<>>
                  /\ jobs[Len(jobs)].kind = "spec_grill"
                  /\ ~HasRunningGrill
               THEN "redo" ELSE "idle")
    /\ UNCHANGED <<project, feature, reviewed, jobs, crashes>>

RedoWrite(p) ==
    /\ process[p].at = "redo"
    /\ ResetForGrillRedo
    /\ ThenDispatch(p, CanRedo, "spec_grill")
    /\ UNCHANGED <<project, reviewed, jobs, crashes>>

\* POST cancel: the feature first, then whatever job is outstanding.
Cancel(p) ==
    /\ Arrives(p, "cancel")
    /\ CancelFeature
    /\ Goto(p, IF CanCancel THEN "cancel_jobs" ELSE "idle")
    /\ UNCHANGED <<project, reviewed, jobs, crashes>>

CancelJobs(p) ==
    /\ process[p].at = "cancel_jobs"
    /\ CancelActiveForFeature
    /\ Goto(p, "idle")
    /\ UNCHANGED <<project, feature, reviewed, crashes>>

Restart(p) ==
    /\ Arrives(p, "restart")
    /\ RestartFromCancelled
    /\ ThenDispatch(p, CanRestart, "spec_grill")
    /\ UNCHANGED <<project, reviewed, jobs, crashes>>

\* POST messages: a reply to a running grill, whose question is then answered.
Reply(p) ==
    /\ Arrives(p, "reply")
    /\ HasRunningGrill
    /\ Goto(p, "clear_awaiting")
    /\ UNCHANGED <<project, feature, reviewed, jobs, crashes>>

ClearAwaiting(p) ==
    /\ process[p].at = "clear_awaiting"
    /\ SetAwaitingUserInput(FALSE)
    /\ Goto(p, "idle")
    /\ UNCHANGED <<project, reviewed, jobs, crashes>>

\* The project's owner, or an Orchestrator's report, changes the settings.
Configure(p) ==
    /\ Arrives(p, "configure")
    /\ project' \in Projects
    /\ UNCHANGED <<feature, reviewed, jobs, process, crashes>>

-----------------------------------------------------------------------------
(* Deliveries of GitHub webhooks: the row is found by PR URL, then written *)

MergeDelivered(p) ==
    /\ Arrives(p, "merge")
    /\ feature.prUrl
    /\ feature.status # "merged"
    /\ GotoWith(p, "update_status", "merged")
    /\ UNCHANGED <<project, feature, reviewed, jobs, crashes>>

ReviewDelivered(p) ==
    /\ Arrives(p, "review")
    /\ feature.prUrl
    /\ feature.status = "in_review"
    /\ Goto(p, "set_returned")
    /\ UNCHANGED <<project, feature, reviewed, jobs, crashes>>

ReturnForReview(p) ==
    /\ process[p].at = "set_returned"
    /\ SetReturned
    /\ Goto(p, "idle")
    /\ UNCHANGED <<project, reviewed, jobs, crashes>>

WriteStatus(p) ==
    /\ process[p].at = "update_status"
    /\ UpdateStatus(process[p].choice)
    /\ Goto(p, "idle")
    /\ UNCHANGED <<project, reviewed, jobs, crashes>>

-----------------------------------------------------------------------------
(* The Orchestrator and the events its runs post                            *)

\* A claimed job's run may still post after its row was cancelled.
Posting(j) == jobs[j].status \in {"running", "cancelled"}

Say(j, said, result) ==
    jobs' = [jobs EXCEPT ![j] = [@ EXCEPT !.said = said, !.result = result]]

\* A run's one terminal event: nothing is posted for the job after it.
Ends(p, j, since, kinds, result) ==
    /\ Arrives(p, "event")
    /\ jobs[j].kind \in kinds
    /\ jobs[j].said \in since
    /\ Posting(j)
    /\ Say(j, "ended", result)

Concludes(p, j, kinds, result) ==
    Ends(p, j, {"started", "asked"}, kinds, result)

\* A run may also die before its pod is up.
Dies(p, j) == Ends(p, j, {"claimed", "started", "asked"}, Kind, "none")

Claim(j) ==
    /\ jobs[j].status = "pending"
    /\ jobs' = [jobs EXCEPT ![j] = [@ EXCEPT !.status = "running",
                                            !.said = "claimed"]]
    /\ UNCHANGED <<project, feature, reviewed, process, crashes>>

\* The row is closed once the run has ended, or has died without a word.
Finish(j) ==
    /\ jobs[j].status = "running"
    /\ jobs' = [jobs EXCEPT ![j] = [@ EXCEPT !.status = "closed"]]
    /\ UNCHANGED <<project, feature, reviewed, process, crashes>>

\* run_started, whatever the job's kind.
RunStarted(p, j) ==
    /\ Arrives(p, "event")
    /\ jobs[j].said = "claimed"
    /\ Posting(j)
    /\ Say(j, "started", "none")
    /\ SetRunning
    /\ UNCHANGED <<project, reviewed, process, crashes>>

AskUser(p, j) ==
    /\ Arrives(p, "ask_user")
    /\ jobs[j].kind = "spec_grill"
    /\ jobs[j].said \in {"started", "asked"}
    /\ Posting(j)
    /\ Say(j, "asked", "none")
    /\ SetAwaitingUserInput(TRUE)
    /\ UNCHANGED <<project, reviewed, process, crashes>>

SubmitAdr(p, j) ==
    /\ Concludes(p, j, {"spec_grill"}, "none")
    /\ SetSpecReady
    /\ UNCHANGED <<project, process, crashes>>

\* submit_build_result with status success, with or without a PR URL.
BuildSucceeded(p, j) ==
    /\ Concludes(p, j, {"feature_build"}, "passed")
    /\ \E prUrl \in BOOLEAN : SetTesting(prUrl)
    /\ Goto(p, IF CanTest THEN "list_tests" ELSE "idle")
    /\ UNCHANGED <<project, reviewed, crashes>>

DispatchTests(p) ==
    /\ process[p].at = "list_tests"
    /\ ThenInsert(p, "dispatch_tests",
                  IF HasActiveFeatureTestRuns THEN <<>> ELSE TestBatch)
    /\ UNCHANGED <<project, feature, reviewed, jobs, crashes>>

InsertTest(p) == Insert(p, "dispatch_tests")

\* A read or an INSERT of the dispatch throws, which fails the feature.
DispatchTestsThrows(p) ==
    /\ process[p].at \in {"list_tests", "dispatch_tests"}
    /\ crashes < MaxCrashes
    /\ crashes' = crashes + 1
    /\ GotoWith(p, "update_status", "failed")
    /\ UNCHANGED <<project, feature, reviewed, jobs>>

BuildFailed(p, j) ==
    /\ Concludes(p, j, {"feature_build"}, "failed")
    /\ UpdateStatus("failed")
    /\ UNCHANGED <<project, reviewed, process, crashes>>

\* request_action_item: back to draft, with a fresh grill.
RequestActionItem(p, j) ==
    /\ Arrives(p, "kick_back")
    /\ Concludes(p, j, {"feature_build"}, "none")
    /\ UpdateStatus("draft")
    /\ ThenDispatch(p, TRUE, "spec_grill")
    /\ UNCHANGED <<project, reviewed, crashes>>

\* submit_test_report stores the report, then evaluates the gate.
SubmitTestReport(p, j) ==
    /\ \E result \in {"passed", "failed", "unavailable"} :
          /\ result = "unavailable" => jobs[j].kind = "script_test_run"
          /\ Concludes(p, j, TestKinds, result)
    /\ Goto(p, "gate_read")
    /\ UNCHANGED <<project, feature, reviewed, crashes>>

ReviewApproved(p, j) ==
    /\ Concludes(p, j, {"agentic_review"}, "passed")
    /\ ApproveReview
    /\ UNCHANGED <<project, reviewed, process, crashes>>

ReviewChangesRequested(p, j) ==
    /\ Concludes(p, j, {"agentic_review"}, "failed")
    /\ SetReturned
    /\ UNCHANGED <<project, reviewed, process, crashes>>

\* run_failed, run_cancelled: two UPDATEs, whatever the job's kind.
RunFailed(p, j) ==
    /\ Arrives(p, "run_failed")
    /\ Dies(p, j)
    /\ SetAwaitingUserInput(FALSE)
    /\ GotoWith(p, "update_status", "failed")
    /\ UNCHANGED <<project, reviewed, crashes>>

RunCancelled(p, j) ==
    /\ jobs[j].status = "cancelled"
    /\ Dies(p, j)
    /\ SetAwaitingUserInput(FALSE)
    /\ GotoWith(p, "update_status", "cancelled")
    /\ UNCHANGED <<project, reviewed, crashes>>

\* fork_failed: the grill a resume-from-message asked for could not start.
ForkFailed(p, j) ==
    /\ Arrives(p, "fork_failed")
    /\ Ends(p, j, {"claimed", "started"}, {"spec_grill"}, "none")
    /\ UpdateStatus("failed")
    /\ UNCHANGED <<project, reviewed, process, crashes>>

-----------------------------------------------------------------------------
(* The process is killed, or a statement throws: the rest is not done *)

Abandon(p) ==
    /\ process[p] # Idle
    /\ crashes < MaxCrashes
    /\ crashes' = crashes + 1
    /\ Goto(p, "idle")
    /\ UNCHANGED <<project, feature, reviewed, jobs>>

\* The row POST features has just inserted, its first grill not yet dispatched.
Init ==
    /\ project \in Projects
    /\ feature = [status |-> "draft", approved |-> FALSE, awaiting |-> FALSE,
                  prUrl |-> FALSE]
    /\ reviewed = FALSE
    /\ jobs = <<>>
    /\ \E p \in Requests :
          process = [q \in Processes |->
                       IF q = p THEN [Idle EXCEPT !.at = "dispatch",
                                                  !.todo = <<"spec_grill">>]
                       ELSE Idle]
    /\ crashes = 0

Arrival(p) ==
    \/ PatchArrives(p) \/ Resume(p) \/ RetryBuildArrives(p)
    \/ RetryGrillArrives(p) \/ RedoArrives(p) \/ Cancel(p) \/ Restart(p)
    \/ Reply(p) \/ Configure(p) \/ MergeDelivered(p) \/ ReviewDelivered(p)

Continue(p) ==
    \/ Dispatch(p) \/ EditAdr(p) \/ Approve(p) \/ StartBuild(p)
    \/ RetryBuildReadJobs(p) \/ RetryBuildWrite(p) \/ RetryGrillReadJobs(p)
    \/ RetryGrillWrite(p) \/ RedoReadJobs(p) \/ RedoWrite(p) \/ CancelJobs(p)
    \/ ClearAwaiting(p) \/ ReturnForReview(p) \/ WriteStatus(p)
    \/ DispatchTests(p) \/ InsertTest(p) \/ GateRead(p) \/ GateList(p)
    \/ GateReturn(p) \/ GateError(p) \/ GateAdvance(p)

Event(p, j) ==
    \/ RunStarted(p, j) \/ AskUser(p, j) \/ SubmitAdr(p, j)
    \/ BuildSucceeded(p, j) \/ BuildFailed(p, j) \/ RequestActionItem(p, j)
    \/ SubmitTestReport(p, j) \/ ReviewApproved(p, j)
    \/ ReviewChangesRequested(p, j) \/ RunFailed(p, j) \/ RunCancelled(p, j)
    \/ ForkFailed(p, j)

Next ==
    \/ \E p \in Processes :
          \/ Arrival(p) \/ Continue(p) \/ Tick(p)
          \/ DispatchTestsThrows(p) \/ Abandon(p)
          \/ \E j \in DOMAIN jobs : Event(p, j)
    \/ \E j \in DOMAIN jobs : Claim(j) \/ Finish(j)

Spec == Init /\ [][Next]_vars

\* A request that has begun goes on, the tick's timer fires, and the
\* Orchestrator claims the jobs it is given and closes those it has claimed.
Fairness ==
    /\ \A p \in Processes : WF_vars(Continue(p)) /\ WF_vars(Tick(p))
    /\ WF_vars(\E j \in DOMAIN jobs : Claim(j))
    /\ WF_vars(\E j \in DOMAIN jobs : Finish(j))

FairSpec == Spec /\ Fairness

-----------------------------------------------------------------------------
(* Properties *)

\* A process that is to insert jobs has some left, and a status it is to write
\* by updateStatus is one of the outcomes.
Coherent(q) ==
    /\ q.at \in {"dispatch", "dispatch_tests"} <=> q.todo # <<>>
    /\ q.at = "update_status" => q.choice \in {"merged", "failed", "cancelled"}

\* The rows hold what their columns may hold, and every request is at a
\* statement it has what it needs to issue.
TypeOK ==
    /\ project \in Projects
    /\ feature \in Feature
    /\ reviewed \in BOOLEAN
    /\ jobs \in Seq(Job)
    /\ process \in [Processes -> Process]
    /\ \A p \in Processes : Coherent(process[p])
    /\ crashes \in 0..MaxCrashes

\* Nothing is queued for a build, built, tested or reviewed unless its ADR was
\* approved and the feature has not been a draft since, whatever requests and
\* events interleave (the adr_approved guards and the resets that clear it).
BuildPhaseApproved ==
    feature.status \in {"queued", "running", "testing", "agentic_review"}
        => feature.approved

\* A draft never carries an approval over from an earlier specification.
DraftUnapproved == feature.status = "draft" => ~feature.approved

Of(kind) == {j \in DOMAIN jobs : jobs[j].kind = kind}
Inserting(kind) ==
    {p \in Processes : \E i \in DOMAIN process[p].todo : process[p].todo[i] = kind}

\* Gates that decide one feature concurrently dispatch one review between
\* them: there are never more agentic_review jobs than successful builds.
ReviewsWithinBuilds ==
    Cardinality(Of("agentic_review")) + Cardinality(Inserting("agentic_review"))
        <= Cardinality({j \in Of("feature_build") : jobs[j].result = "passed"})

\* The user is told a reply is awaited only while some grill has asked and has
\* not ended, however many grills there are and however they end.
AwaitingHasQuestion ==
    feature.awaiting => \E j \in Of("spec_grill") : jobs[j].said = "asked"

\* Every edge the row takes is one FeatureStatus allows.
Abstract == INSTANCE FeatureStatus WITH status <- feature.status,
                                        approved <- feature.approved
Implements == Abstract!Spec

\* Testing whose runs were dispatched is decided, also when no run reports
\* and whatever request was abandoned (the reconcile tick).
DispatchedRunsDecided ==
    feature.status = "testing" /\ CurrentRuns # {} ~> feature.status # "testing"

\* A feature that no test run was dispatched for, and that none is possible
\* for any more, does not stay in testing.
UntestableAdvances ==
    feature.status = "testing" /\ []NothingToVerify ~> feature.status # "testing"

-----------------------------------------------------------------------------
(* What comments of the code say and the code does not do *)

\* repository.ts, resetForGrillRedo: an approval is never left standing for a
\* build against an ADR nobody approved.
QueuedAdrReviewed == feature.status = "queued" => reviewed

\* testing-gate-runner.ts: a decision is applied only to a feature in testing.
GateMovesOnlyTesting ==
    [][\A p \in Processes :
          process[p].at = "gate_apply" /\ feature' # feature
              /\ process'[p] # process[p] => feature.status = "testing"]_vars

\* repository.ts, setRunning: only a build's run_started finds it queued.
RunningBuildStarted ==
    feature.status = "running" =>
        \E j \in Of("feature_build") : jobs[j].said \in {"started", "ended"}

\* repository.ts, setAgenticReview: entered when all enabled groups passed.
Groups == Len(TestBatch)
Passed == {j \in DOMAIN jobs : jobs[j].kind \in TestKinds /\ jobs[j].result = "passed"}
ReviewedWhenAllPassed ==
    feature.status = "agentic_review" => Cardinality(Passed) >= Groups

\* index.ts: the tick resolves a testing stage that nothing else wakes up.
TestingDecided == feature.status = "testing" ~> feature.status # "testing"
=============================================================================
