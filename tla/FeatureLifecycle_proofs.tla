----------------------- MODULE FeatureLifecycle_proofs -----------------------
(***************************************************************************)
(* What FeatureLifecycle guarantees for any number of requests, replicas,  *)
(* jobs, tests and crashes.  FeatureStep carries the argument: whatever    *)
(* statement a process issues, the row takes an edge of FeatureStatus or   *)
(* stays as it is.  Refinement follows at once, and so do the two          *)
(* invariants on approvals, which hold of FeatureStatus's edges.           *)
(***************************************************************************)
EXTENDS FeatureLifecycle, SequenceTheorems, FiniteSetTheorems, TLAPS

Inv == TypeOK /\ BuildPhaseApproved /\ DraftUnapproved

ProcessInv ==
    /\ process \in [Processes -> Process]
    /\ \A p \in Processes : Coherent(process[p])

-----------------------------------------------------------------------------
(* Where a process goes next *)

LEMMA IdleType == Idle \in Process /\ Coherent(Idle)
<1>1. <<>> \in Seq(Kind)
  OBVIOUS
<1> QED BY <1>1 DEF Idle, Process, Step, Status, Coherent

\* Going to a statement that inserts nothing keeps the processes coherent.
LEMMA GotoType ==
    ASSUME ProcessInv, NEW p \in Processes,
           NEW step \in Step \ {"dispatch", "dispatch_tests", "update_status"},
           Goto(p, step)
    PROVE  ProcessInv'
<1>1. <<>> \in Seq(Kind)
  OBVIOUS
<1>2. [Idle EXCEPT !.at = step] \in Process
  BY <1>1 DEF Idle, Process, Status
<1>3. Coherent([Idle EXCEPT !.at = step])
  BY DEF Idle, Coherent
<1>4. process' = [process EXCEPT ![p] = [Idle EXCEPT !.at = step]]
  BY DEF Goto
<1> QED BY <1>2, <1>3, <1>4 DEF ProcessInv

\* Going on with a choice keeps them coherent if the choice fits the statement.
LEMMA GotoWithType ==
    ASSUME ProcessInv, NEW p \in Processes,
           NEW step \in {"gate_apply", "update_status"},
           NEW choice \in Status \union Decision,
           step = "update_status" => choice \in {"merged", "failed", "cancelled"},
           GotoWith(p, step, choice)
    PROVE  ProcessInv'
<1>1. <<>> \in Seq(Kind)
  OBVIOUS
<1>2. [Idle EXCEPT !.at = step, !.choice = choice] \in Process
  BY <1>1 DEF Idle, Process, Step
<1>3. Coherent([Idle EXCEPT !.at = step, !.choice = choice])
  BY DEF Idle, Coherent
<1>4. process' = [process EXCEPT ![p] = [Idle EXCEPT !.at = step, !.choice = choice]]
  BY DEF GotoWith
<1> QED BY <1>2, <1>3, <1>4 DEF ProcessInv

\* So does having a list of jobs to insert, also an empty one.
LEMMA ThenInsertType ==
    ASSUME ProcessInv, NEW p \in Processes,
           NEW step \in {"dispatch", "dispatch_tests"},
           NEW kinds \in Seq(Kind),
           ThenInsert(p, step, kinds)
    PROVE  ProcessInv'
<1>1. CASE kinds = <<>>
  <2>1. process' = [process EXCEPT ![p] = Idle]
    BY <1>1 DEF ThenInsert
  <2> QED BY <2>1, IdleType DEF ProcessInv
<1>2. CASE kinds # <<>>
  <2>1. [Idle EXCEPT !.at = step, !.todo = kinds] \in Process
    BY DEF Idle, Process, Step, Status
  <2>2. Coherent([Idle EXCEPT !.at = step, !.todo = kinds])
    BY <1>2 DEF Idle, Coherent
  <2>3. process' = [process EXCEPT ![p] = [Idle EXCEPT !.at = step, !.todo = kinds]]
    BY <1>2 DEF ThenInsert
  <2> QED BY <2>1, <2>2, <2>3 DEF ProcessInv
<1> QED BY <1>1, <1>2

LEMMA ThenDispatchType ==
    ASSUME ProcessInv, NEW p \in Processes, NEW changed, NEW kind \in Kind,
           ThenDispatch(p, changed, kind)
    PROVE  ProcessInv'
<1>1. <<kind>> \in Seq(Kind) /\ <<>> \in Seq(Kind)
  OBVIOUS
<1>2. CASE changed
  BY <1>1, <1>2, ThenInsertType DEF ThenDispatch
<1>3. CASE ~changed
  BY <1>1, <1>3, ThenInsertType DEF ThenDispatch
<1> QED BY <1>2, <1>3

-----------------------------------------------------------------------------
(* The feature's jobs *)

LEMMA JobUpdateType ==
    ASSUME jobs \in Seq(Job), NEW j \in DOMAIN jobs, NEW job \in Job,
           jobs' = [jobs EXCEPT ![j] = job]
    PROVE  jobs' \in Seq(Job)
BY ExceptSeq

LEMMA SayType ==
    ASSUME jobs \in Seq(Job), NEW j \in DOMAIN jobs,
           NEW said \in Said, NEW result \in Result, Say(j, said, result)
    PROVE  jobs' \in Seq(Job)
<1>1. jobs[j] \in Job
  BY ElementOfSeq
<1>2. [jobs[j] EXCEPT !.said = said, !.result = result] \in Job
  BY <1>1 DEF Job
<1> QED BY <1>2, JobUpdateType DEF Say

LEMMA EndsType ==
    ASSUME jobs \in Seq(Job), NEW j \in DOMAIN jobs, NEW p, NEW since, NEW kinds,
           NEW result \in Result, Ends(p, j, since, kinds, result)
    PROVE  jobs' \in Seq(Job) /\ p \in Requests
BY SayType DEF Ends, Arrives, Said

LEMMA CancelType ==
    ASSUME jobs \in Seq(Job), CancelActiveForFeature
    PROVE  jobs' \in Seq(Job)
<1>1. DOMAIN jobs = 1..Len(jobs) /\ Len(jobs) \in Nat
  BY LenProperties
<1>2. \A j \in 1..Len(jobs) : jobs[j] \in Job
  BY ElementOfSeq
<1>3. \A j \in 1..Len(jobs) : [jobs[j] EXCEPT !.status = "cancelled"] \in Job
  BY <1>2 DEF Job, JobStatus
<1>4. jobs' \in [1..Len(jobs) -> Job]
  BY <1>1, <1>2, <1>3 DEF CancelActiveForFeature
<1> QED BY <1>1, <1>4, SeqDef

LEMMA TestBatchType == TypeOK => TestBatch \in Seq(Kind)
<1> SUFFICES ASSUME TypeOK PROVE TestBatch \in Seq(Kind)
  OBVIOUS
<1>1. project.tests \in Nat
  BY BoundsAssumption DEF TypeOK, Project
<1>2. [i \in 1..project.tests |-> "test_run"] \in Seq(Kind)
  BY <1>1 DEF Kind, TestKinds
<1>3. <<"script_test_run", "script_test_run">> \in Seq(Kind) /\ <<>> \in Seq(Kind)
  BY DEF Kind, TestKinds
<1> QED BY <1>2, <1>3, ConcatProperties DEF TestBatch
-----------------------------------------------------------------------------
(* The statements on the feature's row *)

\* The row stays well-formed and takes an edge of FeatureStatus, or none.
Edge ==
    /\ feature' \in Feature
    /\ [Abstract!Next]_<<feature.status, feature.approved>>

LEMMA NoEdge == ASSUME feature \in Feature, UNCHANGED feature PROVE Edge
BY DEF Edge

\* The guarded UPDATEs either leave the row alone or take one edge.
LEMMA GuardedEdges ==
    ASSUME feature \in Feature
    PROVE  /\ ApproveAdr => Edge
           /\ QueueBuild => Edge
           /\ RetryBuild => Edge
           /\ ResumeImplementation => Edge
           /\ SetRunning => Edge
           /\ \A prUrl \in BOOLEAN : SetTesting(prUrl) => Edge
           /\ SetAgenticReview => Edge
           /\ ApproveReview => Edge
           /\ ResetForRetry => Edge
           /\ RestartFromCancelled => Edge
           /\ ResetForGrillRedo => Edge
           /\ CancelFeature => Edge
<1> USE DEF Edge, Where, Feature, Status
<1>1. ApproveAdr => Edge
  BY DEF ApproveAdr, CanApprove, Abstract!Next, Abstract!Approve
<1>2. QueueBuild => Edge
  BY DEF QueueBuild, CanQueueBuild, Abstract!Next, Abstract!Queue
<1>3. RetryBuild => Edge
  BY DEF RetryBuild, CanRetryBuild, Abstract!Next, Abstract!Queue
<1>4. ResumeImplementation => Edge
  BY DEF ResumeImplementation, CanResume, Abstract!Next, Abstract!Queue
<1>5. SetRunning => Edge
  BY DEF SetRunning, Abstract!Next, Abstract!Run
<1>6. \A prUrl \in BOOLEAN : SetTesting(prUrl) => Edge
  BY DEF SetTesting, CanTest, Abstract!Next, Abstract!Test
<1>7. SetAgenticReview => Edge
  BY DEF SetAgenticReview, CanReview, Abstract!Next, Abstract!Review
<1>8. ApproveReview => Edge
  BY DEF ApproveReview, Abstract!Next, Abstract!Settle, Abstract!Settled
<1>9. ResetForRetry => Edge
  BY DEF ResetForRetry, ResetToDraft, Abstract!Next, Abstract!Draft
<1>10. RestartFromCancelled => Edge
  BY DEF RestartFromCancelled, CanRestart, ResetToDraft, Abstract!Next, Abstract!Draft
<1>11. ResetForGrillRedo => Edge
  BY DEF ResetForGrillRedo, CanRedo, ResetToDraft, Abstract!Next, Abstract!Draft
<1>12. CancelFeature => Edge
  BY DEF CancelFeature, CanCancel, Abstract!Next, Abstract!Settle, Abstract!Settled
<1> QED BY <1>1, <1>2, <1>3, <1>4, <1>5, <1>6, <1>7, <1>8, <1>9, <1>10, <1>11, <1>12

\* The unguarded ones take their edge from whatever status they find.
LEMMA UnguardedEdges ==
    ASSUME feature \in Feature
    PROVE  /\ UpdateAdr => Edge
           /\ SetSpecReady => Edge
           /\ SetInReview => Edge
           /\ SetReturned => Edge
           /\ \A awaiting \in BOOLEAN : SetAwaitingUserInput(awaiting) => Edge
           /\ \A status \in {"draft", "merged", "failed", "cancelled"} :
                 UpdateStatus(status) => Edge
<1> USE DEF Edge, Feature, Status
<1>1. UpdateAdr => Edge
  BY DEF UpdateAdr
<1>2. SetSpecReady => Edge
  BY DEF SetSpecReady, Abstract!Next, Abstract!Specify
<1>3. SetInReview => Edge
  BY DEF SetInReview, Abstract!Next, Abstract!Settle, Abstract!Settled
<1>4. SetReturned => Edge
  BY DEF SetReturned, Abstract!Next, Abstract!Settle, Abstract!Settled
<1>5. \A awaiting \in BOOLEAN : SetAwaitingUserInput(awaiting) => Edge
  BY DEF SetAwaitingUserInput
<1>6. UpdateStatus("draft") => Edge
  BY DEF UpdateStatus, Abstract!Next, Abstract!Draft
<1>7. \A status \in {"merged", "failed", "cancelled"} : UpdateStatus(status) => Edge
  BY DEF UpdateStatus, Abstract!Next, Abstract!Settle, Abstract!Settled
<1> QED BY <1>1, <1>2, <1>3, <1>4, <1>5, <1>6, <1>7
\* An approval is held in every build phase and by no draft: FeatureStatus's
\* edges keep both, so no statement of the code can break them.
LEMMA EdgesKeepApprovals ==
    ASSUME BuildPhaseApproved, DraftUnapproved, Edge
    PROVE  BuildPhaseApproved' /\ DraftUnapproved'
BY DEF BuildPhaseApproved, DraftUnapproved, Edge, Abstract!Next, Abstract!Draft,
       Abstract!Specify, Abstract!Approve, Abstract!Queue, Abstract!Run,
       Abstract!Test, Abstract!Review, Abstract!Settle, Abstract!Settled

-----------------------------------------------------------------------------
(* The steps of the system *)

Keeps == TypeOK' /\ Edge

\* What a step that inserts no job and abandons nothing leaves to show.
LEMMA KeepsByParts ==
    ASSUME TypeOK, Edge, ProcessInv', jobs' \in Seq(Job),
           reviewed' \in BOOLEAN, UNCHANGED <<project, crashes>>
    PROVE  Keeps
BY DEF Keeps, TypeOK, ProcessInv, Edge

LEMMA InsertKeeps ==
    ASSUME TypeOK, NEW p \in Processes, NEW at \in {"dispatch", "dispatch_tests"},
           Insert(p, at)
    PROVE  Keeps
<1>1. process[p] \in Process /\ process[p].todo # <<>>
  BY DEF Insert, TypeOK, Coherent
<1>2. Head(process[p].todo) \in Kind /\ Tail(process[p].todo) \in Seq(Kind)
  BY <1>1, HeadTailProperties DEF Process
<1>3. NewJob(Head(process[p].todo)) \in Job
  BY <1>2 DEF NewJob, Job, JobStatus, Said, Result
<1>4. jobs' \in Seq(Job)
  BY <1>3, AppendProperties DEF Insert, TypeOK
<1>5. ProcessInv'
  BY <1>2, ThenInsertType DEF Insert, TypeOK, ProcessInv
<1> QED BY <1>4, <1>5, KeepsByParts, NoEdge DEF Insert, TypeOK

\* A request or delivery that arrives keeps TypeOK, by an edge or none.
LEMMA ArrivalKeeps ==
    ASSUME TypeOK, NEW p \in Processes, Arrival(p)
    PROVE  Keeps
<1>1. CASE PatchArrives(p)
  BY <1>1, NoEdge, GotoType, KeepsByParts
     DEF PatchArrives, Step, TypeOK, ProcessInv
<1>2. CASE Resume(p)
  BY <1>2, GuardedEdges, ThenDispatchType, KeepsByParts
     DEF Resume, TypeOK, ProcessInv, Kind
<1>3. CASE RetryBuildArrives(p)
  BY <1>3, NoEdge, GotoType, KeepsByParts
     DEF RetryBuildArrives, Step, TypeOK, ProcessInv
<1>4. CASE RetryGrillArrives(p)
  BY <1>4, NoEdge, GotoType, KeepsByParts
     DEF RetryGrillArrives, Step, TypeOK, ProcessInv
<1>5. CASE RedoArrives(p)
  BY <1>5, NoEdge, GotoType, KeepsByParts
     DEF RedoArrives, Step, TypeOK, ProcessInv
<1>6. CASE Cancel(p)
  BY <1>6, GuardedEdges, GotoType, KeepsByParts
     DEF Cancel, Step, TypeOK, ProcessInv
<1>7. CASE Restart(p)
  BY <1>7, GuardedEdges, ThenDispatchType, KeepsByParts
     DEF Restart, TypeOK, ProcessInv, Kind
<1>8. CASE Reply(p)
  BY <1>8, NoEdge, GotoType, KeepsByParts
     DEF Reply, Step, TypeOK, ProcessInv
<1>9. CASE MergeDelivered(p)
  BY <1>9, NoEdge, GotoWithType, KeepsByParts
     DEF MergeDelivered, TypeOK, ProcessInv, Status
<1>10. CASE ReviewDelivered(p)
  BY <1>10, NoEdge, GotoType, KeepsByParts
     DEF ReviewDelivered, Step, TypeOK, ProcessInv
<1>11. CASE Configure(p)
  BY <1>11 DEF Configure, Keeps, Edge, TypeOK
<1> QED BY <1>1, <1>2, <1>3, <1>4, <1>5, <1>6, <1>7, <1>8, <1>9, <1>10, <1>11 DEF Arrival

\* So does a request, tick or delivery that goes on.
LEMMA ContinueKeeps ==
    ASSUME TypeOK, NEW p \in Processes, Continue(p)
    PROVE  Keeps
<1>1. CASE EditAdr(p)
  BY <1>1, UnguardedEdges, GotoType, KeepsByParts
     DEF EditAdr, Step, TypeOK, ProcessInv, UpdateAdr
<1>2. CASE Approve(p)
  BY <1>2, GuardedEdges, GotoType, KeepsByParts
     DEF Approve, Step, TypeOK, ProcessInv, ApproveAdr, CanApprove
<1>3. CASE StartBuild(p)
  BY <1>3, GuardedEdges, ThenDispatchType, KeepsByParts
     DEF StartBuild, TypeOK, ProcessInv, Kind
<1>4. CASE RetryBuildReadJobs(p)
  BY <1>4, NoEdge, GotoType, KeepsByParts
     DEF RetryBuildReadJobs, Step, TypeOK, ProcessInv
<1>5. CASE RetryBuildWrite(p)
  BY <1>5, GuardedEdges, ThenDispatchType, KeepsByParts
     DEF RetryBuildWrite, TypeOK, ProcessInv, Kind
<1>6. CASE RetryGrillReadJobs(p)
  BY <1>6, NoEdge, GotoType, KeepsByParts
     DEF RetryGrillReadJobs, Step, TypeOK, ProcessInv
<1>7. CASE RetryGrillWrite(p)
  BY <1>7, GuardedEdges, ThenDispatchType, KeepsByParts
     DEF RetryGrillWrite, TypeOK, ProcessInv, Kind
<1>8. CASE RedoReadJobs(p)
  BY <1>8, NoEdge, GotoType, KeepsByParts
     DEF RedoReadJobs, Step, TypeOK, ProcessInv
<1>9. CASE RedoWrite(p)
  BY <1>9, GuardedEdges, ThenDispatchType, KeepsByParts
     DEF RedoWrite, TypeOK, ProcessInv, Kind
<1>10. CASE ClearAwaiting(p)
  BY <1>10, UnguardedEdges, GotoType, KeepsByParts
     DEF ClearAwaiting, Step, TypeOK, ProcessInv
<1>11. CASE ReturnForReview(p)
  BY <1>11, UnguardedEdges, GotoType, KeepsByParts
     DEF ReturnForReview, Step, TypeOK, ProcessInv
<1>12. CASE GateRead(p)
  BY <1>12, NoEdge, GotoType, KeepsByParts
     DEF GateRead, Step, TypeOK, ProcessInv
<1>13. CASE GateReturn(p)
  BY <1>13, UnguardedEdges, GotoType, KeepsByParts
     DEF GateReturn, Step, TypeOK, ProcessInv
<1>14. CASE GateError(p)
  BY <1>14, UnguardedEdges, GotoType, KeepsByParts
     DEF GateError, Step, TypeOK, ProcessInv
<1>15. CASE Dispatch(p) \/ InsertTest(p)
  BY <1>15, InsertKeeps DEF Dispatch, InsertTest
<1>16. CASE CancelJobs(p)
  <2>1. jobs' \in Seq(Job)
    BY <1>16, CancelType DEF CancelJobs, TypeOK
  <2> QED BY <1>16, <2>1, NoEdge, GotoType, KeepsByParts
             DEF CancelJobs, Step, TypeOK, ProcessInv
<1>17. CASE WriteStatus(p)
  BY <1>17, UnguardedEdges, GotoType, KeepsByParts
     DEF WriteStatus, Step, TypeOK, ProcessInv, Coherent
<1>18. CASE DispatchTests(p)
  <2>1. (IF HasActiveFeatureTestRuns THEN <<>> ELSE TestBatch) \in Seq(Kind)
    BY TestBatchType
  <2> QED BY <1>18, <2>1, NoEdge, ThenInsertType, KeepsByParts
             DEF DispatchTests, TypeOK, ProcessInv
<1>19. CASE GateList(p)
  <2>1. DecideTestingOutcome(CurrentRuns) \in Decision
    BY DEF DecideTestingOutcome, Decision
  <2> QED BY <1>19, <2>1, NoEdge, GotoType, GotoWithType, KeepsByParts
             DEF GateList, Step, TypeOK, ProcessInv
<1>20. CASE GateAdvance(p)
  <2>1. CASE project.review
    BY <1>20, <2>1, GuardedEdges, ThenDispatchType, KeepsByParts
       DEF GateAdvance, Kind, TypeOK, ProcessInv
  <2>2. CASE ~project.review
    BY <1>20, <2>2, UnguardedEdges, GotoType, KeepsByParts
       DEF GateAdvance, Step, TypeOK, ProcessInv
  <2> QED BY <2>1, <2>2
<1> QED BY <1>1, <1>2, <1>3, <1>4, <1>5, <1>6, <1>7, <1>8, <1>9, <1>10, <1>11, <1>12, <1>13, <1>14, <1>15, <1>16, <1>17, <1>18, <1>19, <1>20 DEF Continue
\* So does whatever the run of a job reports.
LEMMA EventKeeps ==
    ASSUME TypeOK, NEW p \in Processes, NEW j \in DOMAIN jobs, Event(p, j)
    PROVE  Keeps
<1> USE DEF TypeOK, ProcessInv, Result
<1>1. CASE RunStarted(p, j)
  BY <1>1, SayType, GuardedEdges, KeepsByParts
     DEF RunStarted, Said
<1>2. CASE AskUser(p, j)
  BY <1>2, SayType, UnguardedEdges, KeepsByParts
     DEF AskUser, Said
<1>3. CASE SubmitAdr(p, j)
  BY <1>3, EndsType, UnguardedEdges, KeepsByParts
     DEF SubmitAdr, Concludes, SetSpecReady
<1>4. CASE BuildSucceeded(p, j)
  BY <1>4, EndsType, GuardedEdges, GotoType, KeepsByParts
     DEF BuildSucceeded, Concludes, Step
<1>5. CASE BuildFailed(p, j)
  BY <1>5, EndsType, UnguardedEdges, KeepsByParts
     DEF BuildFailed, Concludes
<1>6. CASE RequestActionItem(p, j)
  BY <1>6, EndsType, UnguardedEdges, ThenDispatchType, KeepsByParts
     DEF RequestActionItem, Concludes, Kind
<1>7. CASE SubmitTestReport(p, j)
  BY <1>7, EndsType, NoEdge, GotoType, KeepsByParts
     DEF SubmitTestReport, Concludes, Step
<1>8. CASE ReviewApproved(p, j)
  BY <1>8, EndsType, GuardedEdges, KeepsByParts
     DEF ReviewApproved, Concludes
<1>9. CASE ReviewChangesRequested(p, j)
  BY <1>9, EndsType, UnguardedEdges, KeepsByParts
     DEF ReviewChangesRequested, Concludes
<1>10. CASE RunFailed(p, j)
  BY <1>10, EndsType, UnguardedEdges, GotoWithType, KeepsByParts
     DEF RunFailed, Dies, Status
<1>11. CASE RunCancelled(p, j)
  BY <1>11, EndsType, UnguardedEdges, GotoWithType, KeepsByParts
     DEF RunCancelled, Dies, Status
<1>12. CASE ForkFailed(p, j)
  BY <1>12, EndsType, UnguardedEdges, KeepsByParts
     DEF ForkFailed
<1> QED BY <1>1, <1>2, <1>3, <1>4, <1>5, <1>6, <1>7, <1>8, <1>9, <1>10, <1>11, <1>12
   DEF Event

\* The Orchestrator's bookkeeping, the tick and the crashes.
LEMMA OtherKeeps ==
    ASSUME TypeOK, NEW p \in Processes,
           Tick(p) \/ DispatchTestsThrows(p) \/ Abandon(p)
    PROVE  Keeps
<1> USE DEF TypeOK, ProcessInv
<1>1. CASE Tick(p)
  BY <1>1, NoEdge, GotoType, KeepsByParts DEF Tick, Step
<1>2. CASE DispatchTestsThrows(p)
  <2>1. ProcessInv'
    BY <1>2, GotoWithType DEF DispatchTestsThrows, Status
  <2>2. crashes' \in 0..MaxCrashes
    BY <1>2, BoundsAssumption DEF DispatchTestsThrows
  <2> QED BY <1>2, <2>1, <2>2, NoEdge DEF DispatchTestsThrows, Keeps, Edge
<1>3. CASE Abandon(p)
  <2>1. ProcessInv'
    BY <1>3, GotoType DEF Abandon, Step
  <2>2. crashes' \in 0..MaxCrashes
    BY <1>3, BoundsAssumption DEF Abandon
  <2> QED BY <1>3, <2>1, <2>2, NoEdge DEF Abandon, Keeps, Edge
<1> QED BY <1>1, <1>2, <1>3

LEMMA ClaimKeeps ==
    ASSUME TypeOK, NEW j \in DOMAIN jobs, Claim(j) \/ Finish(j)
    PROVE  Keeps
<1>1. jobs[j] \in Job
  BY ElementOfSeq DEF TypeOK
<1>2. jobs' \in Seq(Job)
  <2>1. CASE Claim(j)
    <3>1. [jobs[j] EXCEPT !.status = "running", !.said = "claimed"] \in Job
      BY <1>1 DEF Job, JobStatus, Said
    <3> QED BY <2>1, <3>1, JobUpdateType DEF Claim, TypeOK
  <2>2. CASE Finish(j)
    <3>1. [jobs[j] EXCEPT !.status = "closed"] \in Job
      BY <1>1 DEF Job, JobStatus
    <3> QED BY <2>2, <3>1, JobUpdateType DEF Finish, TypeOK
  <2> QED BY <2>1, <2>2
<1> QED BY <1>2, NoEdge DEF Claim, Finish, Keeps, TypeOK, Edge

LEMMA NextKeeps == TypeOK /\ [Next]_vars => Keeps
<1> SUFFICES ASSUME TypeOK, [Next]_vars PROVE Keeps
  OBVIOUS
<1>1. CASE UNCHANGED vars
  BY <1>1 DEF vars, Keeps, TypeOK, Edge
<1>2. CASE Next
  BY <1>2, ArrivalKeeps, ContinueKeeps, EventKeeps, OtherKeeps, ClaimKeeps DEF Next
<1> QED BY <1>1, <1>2

LEMMA InitKeeps == Init => Inv /\ Abstract!Init
<1> SUFFICES ASSUME Init PROVE Inv /\ Abstract!Init
  OBVIOUS
<1>1. feature \in Feature /\ Abstract!Init
  BY DEF Init, Feature, Status, Abstract!Init
<1>2. ProcessInv
  <2>1. <<"spec_grill">> \in Seq(Kind)
    BY DEF Kind
  <2>2. [Idle EXCEPT !.at = "dispatch", !.todo = <<"spec_grill">>] \in Process
    BY <2>1 DEF Idle, Process, Step, Status
  <2>3. Coherent([Idle EXCEPT !.at = "dispatch", !.todo = <<"spec_grill">>])
    BY DEF Idle, Coherent
  <2> QED BY <2>2, <2>3, IdleType DEF Init, ProcessInv
<1>3. TypeOK
  <2>1. jobs \in Seq(Job) /\ crashes \in 0..MaxCrashes
    BY BoundsAssumption DEF Init
  <2> QED BY <1>1, <1>2, <2>1 DEF Init, TypeOK, ProcessInv
<1> QED BY <1>1, <1>3 DEF Inv, BuildPhaseApproved, DraftUnapproved, Init

-----------------------------------------------------------------------------
(* The theorems *)

\* The rows hold what their columns may hold and each request is at a
\* statement it can issue, whatever interleaves, crashes or is retried.
THEOREM TypeCorrect == Spec => []TypeOK
<1>1. Init => TypeOK
  BY InitKeeps DEF Inv
<1>2. TypeOK /\ [Next]_vars => TypeOK'
  BY NextKeeps DEF Keeps
<1> QED BY <1>1, <1>2, PTL DEF Spec

LEMMA Invariance == Spec => []Inv
<1>1. Init => Inv
  BY InitKeeps
<1>2. Inv /\ [Next]_vars => Inv'
  BY NextKeeps, EdgesKeepApprovals DEF Inv, Keeps
<1> QED BY <1>1, <1>2, PTL DEF Spec

\* No build is queued, runs, or is tested or reviewed without an approved ADR,
\* for any number of concurrent requests, webhooks, events and replicas.
THEOREM OnlyApprovedBuilds == Spec => []BuildPhaseApproved
<1>1. Inv => BuildPhaseApproved
  BY DEF Inv
<1> QED BY <1>1, Invariance, PTL

\* No way back to draft leaves the approval behind.
THEOREM DraftsLoseApproval == Spec => []DraftUnapproved
<1>1. Inv => DraftUnapproved
  BY DEF Inv
<1> QED BY <1>1, Invariance, PTL

\* Requests, jobs and ticks together implement the edges FeatureStatus allows.
THEOREM Refinement == Spec => Implements
<1>1. Init => Abstract!Init
  BY InitKeeps
<1>2. TypeOK /\ [Next]_vars => [Abstract!Next]_<<feature.status, feature.approved>>
  BY NextKeeps DEF Keeps, Edge
<1> QED BY <1>1, <1>2, TypeCorrect, PTL DEF Spec, Implements, Abstract!Spec
-----------------------------------------------------------------------------
(* The question a user is asked *)

Awaited == feature'.awaiting => feature.awaiting

\* No statement but ask_user's says that a reply is awaited.
LEMMA OnlyAskingAwaits ==
    ASSUME feature \in Feature
    PROVE  /\ UNCHANGED feature => Awaited
           /\ UpdateAdr => Awaited
           /\ SetSpecReady => ~feature'.awaiting
           /\ ApproveAdr \/ QueueBuild \/ RetryBuild \/ ResumeImplementation => Awaited
           /\ SetRunning \/ SetAgenticReview \/ ApproveReview => Awaited
           /\ \A prUrl \in BOOLEAN : SetTesting(prUrl) => Awaited
           /\ SetInReview \/ SetReturned => Awaited
           /\ ResetForRetry \/ RestartFromCancelled \/ ResetForGrillRedo => Awaited
           /\ CancelFeature => Awaited
           /\ SetAwaitingUserInput(FALSE) => ~feature'.awaiting
           /\ \A status \in Status : UpdateStatus(status) => Awaited
<1> USE DEF Awaited, Where, Feature
<1>1. UNCHANGED feature => Awaited
  OBVIOUS
<1>2. UpdateAdr => Awaited
  BY DEF UpdateAdr
<1>3. SetSpecReady => ~feature'.awaiting
  BY DEF SetSpecReady
<1>4. ApproveAdr \/ QueueBuild \/ RetryBuild \/ ResumeImplementation => Awaited
  BY DEF ApproveAdr, QueueBuild, RetryBuild, ResumeImplementation
<1>5. SetRunning \/ SetAgenticReview \/ ApproveReview => Awaited
  BY DEF SetRunning, SetAgenticReview, ApproveReview
<1>6. \A prUrl \in BOOLEAN : SetTesting(prUrl) => Awaited
  BY DEF SetTesting
<1>7. SetInReview \/ SetReturned => Awaited
  BY DEF SetInReview, SetReturned
<1>8. ResetForRetry \/ RestartFromCancelled \/ ResetForGrillRedo => Awaited
  BY DEF ResetForRetry, RestartFromCancelled, ResetForGrillRedo, ResetToDraft
<1>9. CancelFeature => Awaited
  BY DEF CancelFeature
<1>10. SetAwaitingUserInput(FALSE) => ~feature'.awaiting
  BY DEF SetAwaitingUserInput
<1>11. \A status \in Status : UpdateStatus(status) => Awaited
  BY DEF UpdateStatus
<1> QED BY <1>1, <1>2, <1>3, <1>4, <1>5, <1>6, <1>7, <1>8, <1>9, <1>10, <1>11

Asking(js, j) == js[j].kind = "spec_grill" /\ js[j].said = "asked"

\* A step under which every grill that has asked is still asking.
LEMMA AskingKept ==
    ASSUME AwaitingHasQuestion, Awaited,
           \A j \in DOMAIN jobs : j \in DOMAIN jobs' /\ (Asking(jobs, j) => Asking(jobs', j))
    PROVE  AwaitingHasQuestion'
BY DEF AwaitingHasQuestion, Of, Asking, Awaited

LEMMA InsertAsking ==
    ASSUME TypeOK, AwaitingHasQuestion, NEW p, NEW at, Insert(p, at)
    PROVE  AwaitingHasQuestion'
<1>1. jobs \in Seq(Job)
  BY DEF TypeOK
<1>2. /\ DOMAIN jobs \subseteq DOMAIN jobs'
      /\ \A j \in DOMAIN jobs : jobs'[j] = jobs[j]
  BY <1>1 DEF Insert
<1>3. Awaited
  BY DEF Insert, Awaited
<1> QED BY <1>2, <1>3, AskingKept DEF Asking

\* A job that says something leaves the other jobs as they are.
LEMMA SayAsking ==
    ASSUME TypeOK, NEW j \in DOMAIN jobs, NEW said, NEW result, Say(j, said, result)
    PROVE  /\ DOMAIN jobs' = DOMAIN jobs
           /\ \A k \in DOMAIN jobs : k # j => jobs'[k] = jobs[k]
           /\ jobs'[j].kind = jobs[j].kind
           /\ jobs'[j].said = said
<1>1. jobs \in Seq(Job) /\ jobs[j] \in Job
  BY ElementOfSeq DEF TypeOK
<1> QED BY <1>1 DEF Say, Job

\* So the end of a run that was asking nothing leaves the questions standing.
LEMMA EndsAsking ==
    ASSUME TypeOK, AwaitingHasQuestion, Awaited, NEW p, NEW j \in DOMAIN jobs,
           NEW since, NEW kinds, NEW result, Ends(p, j, since, kinds, result),
           "spec_grill" \notin kinds \/ "asked" \notin since
    PROVE  AwaitingHasQuestion'
<1>1. ~Asking(jobs, j)
  BY DEF Ends, Asking
<1>2. \A k \in DOMAIN jobs : Asking(jobs, k) => Asking(jobs', k)
  BY <1>1, SayAsking DEF Ends, Asking
<1>3. DOMAIN jobs' = DOMAIN jobs
  BY SayAsking DEF Ends
<1> QED BY <1>2, <1>3, AskingKept
LEMMA JobsKept ==
    ASSUME AwaitingHasQuestion, Awaited, UNCHANGED jobs
    PROVE  AwaitingHasQuestion'
BY AskingKept DEF Asking

LEMMA NoneAwaited == ASSUME ~feature'.awaiting PROVE AwaitingHasQuestion'
BY DEF AwaitingHasQuestion

\* A job says nothing before it is claimed.
PendingSilent ==
    \A j \in DOMAIN jobs : jobs[j].status = "pending" => jobs[j].said = "nothing"

\* A run that has not ended says something; what it says with a result is its end.
Posts(j) ==
    /\ Posting(j) /\ jobs[j].said # "ended"
    /\ \E said \in Said, result \in Result :
          (result # "none" => said = "ended") /\ Say(j, said, result)

\* What may become of the jobs.
JobStep ==
    \/ UNCHANGED jobs
    \/ \E kind \in Kind : jobs' = Append(jobs, NewJob(kind))
    \/ CancelActiveForFeature
    \/ \E j \in DOMAIN jobs :
          \/ Claim(j) \/ Finish(j)
          \/ Posts(j)

LEMMA InsertJobStep ==
    ASSUME TypeOK, NEW p \in Processes, NEW at \in {"dispatch", "dispatch_tests"},
           Insert(p, at)
    PROVE  JobStep
<1>1. process[p] \in Process /\ process[p].todo # <<>>
  BY DEF Insert, TypeOK, Coherent
<1>2. Head(process[p].todo) \in Kind
  BY <1>1, HeadTailProperties DEF Process
<1> QED BY <1>2 DEF Insert, JobStep

LEMMA EventJobStep ==
    ASSUME NEW p, NEW j \in DOMAIN jobs, Event(p, j)
    PROVE  JobStep
<1> USE DEF Ends, Concludes, Dies, Said, Result, Posts
<1>1. Posts(j)
  <2>1. CASE RunStarted(p, j) \/ AskUser(p, j)
    BY <2>1 DEF RunStarted, AskUser
  <2>2. CASE SubmitAdr(p, j) \/ BuildSucceeded(p, j) \/ BuildFailed(p, j)
    BY <2>2 DEF SubmitAdr, BuildSucceeded, BuildFailed
  <2>3. CASE RequestActionItem(p, j) \/ SubmitTestReport(p, j) \/ ReviewApproved(p, j)
    BY <2>3 DEF RequestActionItem, SubmitTestReport, ReviewApproved
  <2>4. CASE ReviewChangesRequested(p, j) \/ RunFailed(p, j)
    BY <2>4 DEF ReviewChangesRequested, RunFailed
  <2>5. CASE RunCancelled(p, j) \/ ForkFailed(p, j)
    BY <2>5 DEF RunCancelled, ForkFailed
  <2> QED BY <2>1, <2>2, <2>3, <2>4, <2>5 DEF Event
<1> QED BY <1>1 DEF JobStep

LEMMA NextJobStep == TypeOK /\ [Next]_vars => JobStep
<1> SUFFICES ASSUME TypeOK, [Next]_vars PROVE JobStep
  OBVIOUS
<1>1. ASSUME NEW p \in Processes, Arrival(p) PROVE JobStep
  BY <1>1 DEF JobStep, Arrival, PatchArrives, Resume, RetryBuildArrives,
       RetryGrillArrives, RedoArrives, Cancel, Restart, Reply, Configure,
       MergeDelivered, ReviewDelivered
<1>2. ASSUME NEW p \in Processes, Continue(p) PROVE JobStep
  <2>1. CASE Dispatch(p) \/ InsertTest(p)
    BY <2>1, InsertJobStep DEF Dispatch, InsertTest
  <2>2. CASE CancelJobs(p)
    BY <2>2 DEF CancelJobs, JobStep
  <2>3. CASE ~(Dispatch(p) \/ InsertTest(p) \/ CancelJobs(p))
    BY <1>2, <2>3 DEF JobStep, Continue, EditAdr, Approve, StartBuild,
         RetryBuildReadJobs, RetryBuildWrite, RetryGrillReadJobs, RetryGrillWrite,
         RedoReadJobs, RedoWrite, ClearAwaiting, ReturnForReview, WriteStatus,
         DispatchTests, GateRead, GateList, GateReturn, GateError, GateAdvance
  <2> QED BY <2>1, <2>2, <2>3
<1>3. ASSUME NEW p \in Processes, Tick(p) \/ DispatchTestsThrows(p) \/ Abandon(p)
      PROVE  JobStep
  BY <1>3 DEF JobStep, Tick, DispatchTestsThrows, Abandon
<1>4. CASE UNCHANGED vars
  BY <1>4 DEF vars, JobStep
<1>5. ASSUME NEW j \in DOMAIN jobs, Claim(j) \/ Finish(j) PROVE JobStep
  BY <1>5 DEF JobStep
<1> QED BY <1>1, <1>2, <1>3, <1>4, <1>5, EventJobStep DEF Next

LEMMA PendingStep == TypeOK /\ PendingSilent /\ [Next]_vars => PendingSilent'
<1> SUFFICES ASSUME TypeOK, PendingSilent, JobStep PROVE PendingSilent'
  BY NextJobStep
<1>0. jobs \in Seq(Job) /\ \A j \in DOMAIN jobs : jobs[j] \in Job
  BY ElementOfSeq DEF TypeOK
<1>1. CASE UNCHANGED jobs
  BY <1>1 DEF PendingSilent
<1>2. ASSUME NEW kind \in Kind, jobs' = Append(jobs, NewJob(kind)) PROVE PendingSilent'
  <2>1. \A j \in DOMAIN jobs' :
          (j \in DOMAIN jobs /\ jobs'[j] = jobs[j]) \/ jobs'[j] = NewJob(kind)
    BY <1>0, <1>2
  <2> QED BY <2>1 DEF PendingSilent, NewJob
<1>3. CASE CancelActiveForFeature
  BY <1>0, <1>3 DEF CancelActiveForFeature, PendingSilent, InFlight, Job
<1>4. ASSUME NEW j \in DOMAIN jobs, Claim(j) \/ Finish(j) PROVE PendingSilent'
  BY <1>0, <1>4 DEF Claim, Finish, PendingSilent, Job
<1>5. ASSUME NEW j \in DOMAIN jobs, Posts(j) PROVE PendingSilent'
  BY <1>0, <1>5 DEF Posts, Posting, Say, PendingSilent, Job
<1> QED BY <1>1, <1>2, <1>3, <1>4, <1>5 DEF JobStep

LEMMA AwaitingStep ==
    TypeOK /\ PendingSilent /\ AwaitingHasQuestion /\ [Next]_vars => AwaitingHasQuestion'
<1> SUFFICES ASSUME TypeOK, PendingSilent, AwaitingHasQuestion, [Next]_vars
             PROVE  AwaitingHasQuestion'
  OBVIOUS
<1>0. feature \in Feature
  BY DEF TypeOK
<1>1. ASSUME NEW p \in Processes, Arrival(p) PROVE AwaitingHasQuestion'
  <2>1. UNCHANGED jobs
    BY <1>1 DEF Arrival, PatchArrives, Resume, RetryBuildArrives, RetryGrillArrives,
         RedoArrives, Cancel, Restart, Reply, Configure, MergeDelivered, ReviewDelivered
  <2>2. Awaited
    <3>1. CASE Resume(p) \/ Cancel(p) \/ Restart(p)
      BY <1>0, <3>1, OnlyAskingAwaits DEF Resume, Cancel, Restart
    <3>2. CASE ~(Resume(p) \/ Cancel(p) \/ Restart(p))
      BY <1>0, <1>1, <3>2, OnlyAskingAwaits
         DEF Arrival, PatchArrives, RetryBuildArrives, RetryGrillArrives, RedoArrives,
             Reply, Configure, MergeDelivered, ReviewDelivered
    <3> QED BY <3>1, <3>2
  <2> QED BY <2>1, <2>2, JobsKept
<1>2. ASSUME NEW p \in Processes, Continue(p) PROVE AwaitingHasQuestion'
  <2>1. CASE Dispatch(p) \/ InsertTest(p)
    BY <2>1, InsertAsking DEF Dispatch, InsertTest
  <2>2. CASE CancelJobs(p)
    <3>1. Awaited
      BY <1>0, <2>2, OnlyAskingAwaits DEF CancelJobs
    <3>2. jobs \in Seq(Job) /\ \A j \in DOMAIN jobs : jobs[j] \in Job
      BY ElementOfSeq DEF TypeOK
    <3>3. \A j \in DOMAIN jobs :
             j \in DOMAIN jobs' /\ (Asking(jobs, j) => Asking(jobs', j))
      BY <2>2, <3>2 DEF CancelJobs, CancelActiveForFeature, Asking, Job
    <3> QED BY <3>1, <3>3, AskingKept
  <2>3. CASE ClearAwaiting(p)
    BY <1>0, <2>3, OnlyAskingAwaits, NoneAwaited DEF ClearAwaiting
  <2>4. CASE WriteStatus(p)
    <3>1. process[p].choice \in Status
      BY <2>4 DEF WriteStatus, TypeOK, Coherent, Status
    <3> QED BY <1>0, <2>4, <3>1, OnlyAskingAwaits, JobsKept DEF WriteStatus
  <2>5. CASE EditAdr(p) \/ Approve(p) \/ StartBuild(p) \/ RetryBuildWrite(p)
    BY <1>0, <2>5, OnlyAskingAwaits, JobsKept
       DEF EditAdr, Approve, StartBuild, RetryBuildWrite
  <2>6. CASE RetryGrillWrite(p) \/ RedoWrite(p) \/ ReturnForReview(p)
    BY <1>0, <2>6, OnlyAskingAwaits, JobsKept
       DEF RetryGrillWrite, RedoWrite, ReturnForReview
  <2>7. CASE \/ RetryBuildReadJobs(p) \/ RetryGrillReadJobs(p) \/ RedoReadJobs(p)
             \/ DispatchTests(p) \/ GateRead(p) \/ GateList(p)
    BY <1>0, <2>7, OnlyAskingAwaits, JobsKept
       DEF RetryBuildReadJobs, RetryGrillReadJobs, RedoReadJobs, DispatchTests,
           GateRead, GateList
  <2>8. CASE GateReturn(p) \/ GateError(p) \/ GateAdvance(p)
    BY <1>0, <2>8, OnlyAskingAwaits, JobsKept
       DEF GateReturn, GateError, GateAdvance, Status
  <2> QED BY <1>2, <2>1, <2>2, <2>3, <2>4, <2>5, <2>6, <2>7, <2>8 DEF Continue
<1>3. ASSUME NEW p \in Processes, NEW j \in DOMAIN jobs, Event(p, j)
      PROVE  AwaitingHasQuestion'
  <2>1. CASE RunStarted(p, j)
    <3>1. Awaited
      BY <1>0, <2>1, OnlyAskingAwaits DEF RunStarted
    <3>2. ~Asking(jobs, j) /\ Say(j, "started", "none")
      BY <2>1 DEF RunStarted, Asking
    <3> QED BY <3>1, <3>2, SayAsking, AskingKept DEF Asking
  <2>2. CASE AskUser(p, j)
    <3>1. DOMAIN jobs' = DOMAIN jobs /\ Asking(jobs', j)
      BY <2>2, SayAsking DEF AskUser, Asking
    <3> QED BY <3>1 DEF AwaitingHasQuestion, Of, Asking
  <2>3. CASE SubmitAdr(p, j)
    BY <1>0, <2>3, OnlyAskingAwaits, NoneAwaited DEF SubmitAdr
  <2>4. CASE RunFailed(p, j) \/ RunCancelled(p, j)
    BY <1>0, <2>4, OnlyAskingAwaits, NoneAwaited DEF RunFailed, RunCancelled
  <2>5. CASE BuildSucceeded(p, j)
    BY <1>0, <2>5, OnlyAskingAwaits, EndsAsking DEF BuildSucceeded, Concludes
  <2>6. CASE BuildFailed(p, j) \/ RequestActionItem(p, j)
    BY <1>0, <2>6, OnlyAskingAwaits, EndsAsking
       DEF BuildFailed, RequestActionItem, Concludes, Status
  <2>7. CASE SubmitTestReport(p, j)
    BY <1>0, <2>7, OnlyAskingAwaits, EndsAsking
       DEF SubmitTestReport, Concludes, TestKinds
  <2>8. CASE ReviewApproved(p, j) \/ ReviewChangesRequested(p, j)
    BY <1>0, <2>8, OnlyAskingAwaits, EndsAsking
       DEF ReviewApproved, ReviewChangesRequested, Concludes
  <2>9. CASE ForkFailed(p, j)
    BY <1>0, <2>9, OnlyAskingAwaits, EndsAsking DEF ForkFailed, Status
  <2> QED BY <1>3, <2>1, <2>2, <2>3, <2>4, <2>5, <2>6, <2>7, <2>8, <2>9 DEF Event
<1>4. ASSUME NEW p \in Processes, Tick(p) \/ DispatchTestsThrows(p) \/ Abandon(p)
      PROVE  AwaitingHasQuestion'
  BY <1>0, <1>4, OnlyAskingAwaits, JobsKept DEF Tick, DispatchTestsThrows, Abandon
<1>5. ASSUME NEW j \in DOMAIN jobs, Claim(j) \/ Finish(j) PROVE AwaitingHasQuestion'
  <2>1. Awaited
    BY <1>0, <1>5, OnlyAskingAwaits DEF Claim, Finish
  <2>2. jobs \in Seq(Job) /\ jobs[j] \in Job
    BY ElementOfSeq DEF TypeOK
  <2>3. CASE Finish(j)
    BY <2>1, <2>2, <2>3, AskingKept DEF Finish, Asking, Job
  <2>4. CASE Claim(j)
    <3>1. DOMAIN jobs' = DOMAIN jobs /\ \A k \in DOMAIN jobs : k # j => jobs'[k] = jobs[k]
      BY <2>2, <2>4 DEF Claim
    <3>2. ~Asking(jobs, j)
      BY <2>4 DEF Claim, PendingSilent, Asking
    <3> QED BY <2>1, <3>1, <3>2, AskingKept DEF Asking
  <2> QED BY <1>5, <2>3, <2>4
<1>6. CASE UNCHANGED vars
  BY <1>6 DEF vars, AwaitingHasQuestion, Of
<1> QED BY <1>1, <1>2, <1>3, <1>4, <1>5, <1>6 DEF Next

\* A reply is awaited only while some grill has asked and has not ended.
THEOREM AwaitedRepliesHaveQuestions == Spec => []AwaitingHasQuestion
<1>1. Init => PendingSilent /\ AwaitingHasQuestion
  BY DEF Init, PendingSilent, AwaitingHasQuestion
<1>2. TypeOK /\ PendingSilent /\ AwaitingHasQuestion /\ [Next]_vars
        => (PendingSilent /\ AwaitingHasQuestion)'
  BY PendingStep, AwaitingStep
<1> QED BY <1>1, <1>2, TypeCorrect, PTL DEF Spec

-----------------------------------------------------------------------------
(* Reviews and builds.  A successful build puts the feature into testing at   *)
(* most once, and the gate that takes it out for a review is about to insert  *)
(* that review's job: the build is counted against one of the three.          *)

ReviewJobs == Of("agentic_review")
Reviewers == Inserting("agentic_review")
PassedBuilds == {j \in Of("feature_build") : jobs[j].result = "passed"}
Testing == IF feature.status = "testing" THEN 1 ELSE 0

Others == Kind \ {"agentic_review"}
Plain(q) == q.todo \in Seq(Others)

\* A result that is stored stands, as its run has ended.
ResultsEnd == \A j \in DOMAIN jobs : jobs[j].result # "none" => jobs[j].said = "ended"

\* A review's job is inserted alone.
ReviewsAlone ==
    \A p \in Processes : Plain(process[p]) \/ process[p].todo = <<"agentic_review">>

ReviewsCounted ==
    /\ IsFiniteSet(Reviewers)
    /\ Cardinality(ReviewJobs) + Cardinality(Reviewers) + Testing <= Cardinality(PassedBuilds)

ReviewInv == ResultsEnd /\ ReviewsAlone /\ ReviewsCounted

LEMMA FiniteDomain == ASSUME NEW js \in Seq(Job) PROVE IsFiniteSet(DOMAIN js)
<1>1. DOMAIN js = 1..Len(js) /\ Len(js) \in Nat
  BY LenProperties
<1> QED BY <1>1, FS_Interval

\* What counting needs to know before and after a step.
LEMMA FiniteJobs ==
    ASSUME TypeOK, jobs' \in Seq(Job), PassedBuilds \subseteq PassedBuilds'
    PROVE  /\ IsFiniteSet(ReviewJobs) /\ IsFiniteSet(PassedBuilds) /\ IsFiniteSet(PassedBuilds')
           /\ Cardinality(ReviewJobs) \in Nat /\ Cardinality(PassedBuilds) \in Nat
           /\ Cardinality(PassedBuilds') \in Nat
           /\ Cardinality(PassedBuilds) <= Cardinality(PassedBuilds')
           /\ PassedBuilds # PassedBuilds' => Cardinality(PassedBuilds) < Cardinality(PassedBuilds')
<1>1. IsFiniteSet(DOMAIN jobs) /\ IsFiniteSet(DOMAIN jobs')
  BY FiniteDomain DEF TypeOK
<1>2. /\ ReviewJobs \subseteq DOMAIN jobs /\ PassedBuilds \subseteq DOMAIN jobs
      /\ PassedBuilds' \subseteq DOMAIN jobs'
  BY DEF ReviewJobs, PassedBuilds, Of
<1>3. IsFiniteSet(ReviewJobs) /\ IsFiniteSet(PassedBuilds) /\ IsFiniteSet(PassedBuilds')
  BY <1>1, <1>2, FS_Subset
<1>4. /\ Cardinality(ReviewJobs) \in Nat /\ Cardinality(PassedBuilds) \in Nat
      /\ Cardinality(PassedBuilds') \in Nat
  BY <1>3, FS_CardinalityType
<1>5. /\ Cardinality(PassedBuilds) <= Cardinality(PassedBuilds')
      /\ Cardinality(PassedBuilds') = Cardinality(PassedBuilds) => PassedBuilds' = PassedBuilds
  BY <1>3, FS_Subset
<1> QED BY <1>3, <1>4, <1>5

\* No step makes a build of what was not one, or takes its result away.
LEMMA JobsGo ==
    ASSUME TypeOK, PendingSilent, ResultsEnd, JobStep
    PROVE  /\ ResultsEnd' /\ PassedBuilds \subseteq PassedBuilds'
           /\ ReviewJobs' = ReviewJobs \/ jobs' = Append(jobs, NewJob("agentic_review"))
<1>0. jobs \in Seq(Job) /\ \A j \in DOMAIN jobs : jobs[j] \in Job
  BY ElementOfSeq DEF TypeOK
<1>1. ASSUME NEW kind \in Kind, jobs' = Append(jobs, NewJob(kind))
      PROVE  /\ ResultsEnd' /\ PassedBuilds \subseteq PassedBuilds'
             /\ kind # "agentic_review" => ReviewJobs' = ReviewJobs
  <2>1. /\ DOMAIN jobs' = DOMAIN jobs \cup {Len(jobs) + 1} /\ Len(jobs) + 1 \notin DOMAIN jobs
        /\ \A j \in DOMAIN jobs : jobs'[j] = jobs[j]
        /\ jobs'[Len(jobs) + 1] = NewJob(kind)
    BY <1>0, <1>1
  <2> QED BY <2>1 DEF ResultsEnd, PassedBuilds, ReviewJobs, Of, NewJob
<1>2. ASSUME DOMAIN jobs' = DOMAIN jobs,
             \A j \in DOMAIN jobs :
               /\ jobs'[j].kind = jobs[j].kind
               /\ \/ jobs'[j].result = jobs[j].result /\ jobs'[j].said = jobs[j].said
                  \/ jobs[j].said # "ended" /\ (jobs'[j].result # "none" => jobs'[j].said = "ended")
                  \/ jobs[j].result = "none" /\ jobs'[j].result = "none"
      PROVE  ResultsEnd' /\ PassedBuilds \subseteq PassedBuilds' /\ ReviewJobs' = ReviewJobs
  BY <1>2 DEF ResultsEnd, PassedBuilds, ReviewJobs, Of
<1>3. CASE UNCHANGED jobs
  BY <1>2, <1>3
<1>4. CASE CancelActiveForFeature
  BY <1>0, <1>2, <1>4 DEF CancelActiveForFeature, Job
<1>5. ASSUME NEW j \in DOMAIN jobs, Claim(j) \/ Finish(j)
      PROVE  ResultsEnd' /\ PassedBuilds \subseteq PassedBuilds' /\ ReviewJobs' = ReviewJobs
  <2>1. CASE Finish(j)
    BY <1>0, <1>2, <2>1 DEF Finish, Job
  <2>2. CASE Claim(j)
    BY <1>0, <1>2, <2>2 DEF Claim, Job, ResultsEnd, PendingSilent
  <2> QED BY <1>5, <2>1, <2>2
<1>6. ASSUME NEW j \in DOMAIN jobs, Posts(j)
      PROVE  ResultsEnd' /\ PassedBuilds \subseteq PassedBuilds' /\ ReviewJobs' = ReviewJobs
  BY <1>0, <1>2, <1>6 DEF Posts, Say, Job
<1> QED BY <1>1, <1>3, <1>4, <1>5, <1>6 DEF JobStep

\* Process p goes on, with no review to insert.
Plainly(p) ==
    /\ process' = [process EXCEPT ![p] = process'[p]]
    /\ Plain(process'[p])

LEMMA GoesPlainly ==
    ASSUME TypeOK, NEW p \in Processes
    PROVE  /\ \A step : Goto(p, step) => Plainly(p)
           /\ \A step, choice : GotoWith(p, step, choice) => Plainly(p)
           /\ \A step : \A kinds \in Seq(Others) : ThenInsert(p, step, kinds) => Plainly(p)
           /\ \A changed : \A kind \in Others : ThenDispatch(p, changed, kind) => Plainly(p)
<1>1. ASSUME NEW q, Plain(q), process' = [process EXCEPT ![p] = q] PROVE Plainly(p)
  BY <1>1 DEF Plainly, TypeOK
<1>2. <<>> \in Seq(Others) /\ Plain(Idle)
  BY DEF Plain, Idle
<1>3. \A step : Plain([Idle EXCEPT !.at = step])
  BY <1>2 DEF Plain, Idle
<1>4. \A step, choice : Plain([Idle EXCEPT !.at = step, !.choice = choice])
  BY <1>2 DEF Plain, Idle
<1>5. \A step : \A kinds \in Seq(Others) : Plain([Idle EXCEPT !.at = step, !.todo = kinds])
  BY DEF Plain, Idle
<1>6. \A step : Goto(p, step) => Plainly(p)
  BY <1>1, <1>3 DEF Goto
<1>7. \A step, choice : GotoWith(p, step, choice) => Plainly(p)
  BY <1>1, <1>4 DEF GotoWith
<1>8. ASSUME NEW step, NEW kinds \in Seq(Others), ThenInsert(p, step, kinds) PROVE Plainly(p)
  BY <1>1, <1>2, <1>5, <1>8 DEF ThenInsert
<1>9. ASSUME NEW changed, NEW kind \in Others, ThenDispatch(p, changed, kind) PROVE Plainly(p)
  <2>1. <<kind>> \in Seq(Others)
    OBVIOUS
  <2> QED BY <1>2, <1>8, <1>9, <2>1 DEF ThenDispatch
<1> QED BY <1>6, <1>7, <1>8, <1>9

\* Who is to insert a review after p has gone on.
LEMMA ReviewersAfter ==
    ASSUME TypeOK, ReviewsAlone, NEW p \in Processes,
           process' = [process EXCEPT ![p] = process'[p]]
    PROVE  /\ Plain(process'[p]) => ReviewsAlone' /\ Reviewers' = Reviewers \ {p}
           /\ process'[p].todo = <<"agentic_review">>
                => ReviewsAlone' /\ Reviewers' = Reviewers \cup {p}
           /\ Plain(process[p]) => p \notin Reviewers
           /\ process[p].todo = <<"agentic_review">> => p \in Reviewers
<1> DEFINE Names(q) == \E i \in DOMAIN q.todo : q.todo[i] = "agentic_review"
<1>1. \A q : Plain(q) => ~Names(q)
  <2>1. ASSUME NEW q, Plain(q), NEW i \in DOMAIN q.todo PROVE q.todo[i] # "agentic_review"
    BY <2>1, ElementOfSeq DEF Plain, Others
  <2> QED BY <2>1
<1>2. \A q : q.todo = <<"agentic_review">> => Names(q)
  OBVIOUS
<1>3. \A q \in Processes \ {p} : process'[q] = process[q]
  BY DEF TypeOK
<1>4. Reviewers = {q \in Processes : Names(process[q])}
  BY DEF Reviewers, Inserting
<1>5. Reviewers' = {q \in Processes : Names(process'[q])}
  BY DEF Reviewers, Inserting
<1> HIDE DEF Names
<1> QED BY <1>1, <1>2, <1>3, <1>4, <1>5 DEF ReviewsAlone

\* Somebody goes on with no review to insert, or nobody does: a build may pass, and the
\* feature enters testing only if one does.
LEMMA QuietCount ==
    ASSUME TypeOK, TypeOK', PendingSilent, ReviewInv, JobStep, ReviewJobs' = ReviewJobs,
           UNCHANGED process \/ \E p \in Processes : Plainly(p),
           feature'.status = "testing"
             => feature.status = "testing" \/ PassedBuilds # PassedBuilds'
    PROVE  ReviewInv'
<1>1. ResultsEnd' /\ PassedBuilds \subseteq PassedBuilds'
  BY JobsGo DEF ReviewInv
<1>2. ReviewsAlone' /\ Reviewers' \subseteq Reviewers
  <2>1. CASE UNCHANGED process
    BY <2>1 DEF ReviewInv, ReviewsAlone, Reviewers, Inserting
  <2>2. ASSUME NEW p \in Processes, Plainly(p) PROVE ReviewsAlone' /\ Reviewers' \subseteq Reviewers
    BY <2>2, ReviewersAfter DEF ReviewInv, Plainly
  <2> QED BY <2>1, <2>2
<1>3. /\ IsFiniteSet(Reviewers') /\ Cardinality(Reviewers') <= Cardinality(Reviewers)
      /\ Cardinality(Reviewers) \in Nat /\ Cardinality(Reviewers') \in Nat
  BY <1>2, FS_Subset, FS_CardinalityType DEF ReviewInv, ReviewsCounted
<1>4. /\ Cardinality(ReviewJobs) \in Nat /\ Cardinality(PassedBuilds) \in Nat
      /\ Cardinality(PassedBuilds') \in Nat
      /\ Cardinality(PassedBuilds) <= Cardinality(PassedBuilds')
      /\ PassedBuilds # PassedBuilds' => Cardinality(PassedBuilds) < Cardinality(PassedBuilds')
  BY <1>1, FiniteJobs DEF TypeOK
<1>5. Cardinality(ReviewJobs) + Cardinality(Reviewers) + Testing <= Cardinality(PassedBuilds)
  BY DEF ReviewInv, ReviewsCounted
<1>6. Cardinality(ReviewJobs') + Cardinality(Reviewers') + Testing' <= Cardinality(PassedBuilds')
  BY <1>3, <1>4, <1>5 DEF Testing
<1> QED BY <1>1, <1>2, <1>3, <1>6 DEF ReviewInv, ReviewsCounted

\* The gate of p takes the feature out of testing, for a review.
LEMMA DecidedCount ==
    ASSUME TypeOK, ReviewInv, UNCHANGED jobs, NEW p \in Processes,
           process' = [process EXCEPT ![p] = process'[p]],
           process'[p].todo = <<"agentic_review">>,
           feature.status = "testing", feature'.status # "testing"
    PROVE  ReviewInv'
<1>1. ResultsEnd' /\ ReviewJobs' = ReviewJobs /\ PassedBuilds' = PassedBuilds
  BY DEF ReviewInv, ResultsEnd, ReviewJobs, PassedBuilds, Of
<1>2. ReviewsAlone' /\ Reviewers' = Reviewers \cup {p}
  BY ReviewersAfter DEF ReviewInv
<1>3. /\ IsFiniteSet(Reviewers') /\ Cardinality(Reviewers') <= Cardinality(Reviewers) + 1
      /\ Cardinality(Reviewers) \in Nat /\ Cardinality(Reviewers') \in Nat
  <2>1. IsFiniteSet(Reviewers) /\ Cardinality(Reviewers) \in Nat
    BY FS_CardinalityType DEF ReviewInv, ReviewsCounted
  <2>2. /\ IsFiniteSet(Reviewers \cup {p})
        /\ \/ Cardinality(Reviewers \cup {p}) = Cardinality(Reviewers)
           \/ Cardinality(Reviewers \cup {p}) = Cardinality(Reviewers) + 1
    BY <2>1, FS_AddElement
  <2> QED BY <1>2, <2>1, <2>2
<1>4. Cardinality(ReviewJobs) \in Nat /\ Cardinality(PassedBuilds) \in Nat
  BY <1>1, FiniteJobs DEF TypeOK
<1>5. Cardinality(ReviewJobs) + Cardinality(Reviewers) + 1 <= Cardinality(PassedBuilds)
  BY DEF ReviewInv, ReviewsCounted, Testing
<1>6. Cardinality(ReviewJobs') + Cardinality(Reviewers') + Testing' <= Cardinality(PassedBuilds')
  BY <1>1, <1>3, <1>4, <1>5 DEF Testing
<1> QED BY <1>1, <1>2, <1>3, <1>6 DEF ReviewInv, ReviewsCounted

\* p inserts the next of its jobs.
LEMMA InsertCount ==
    ASSUME TypeOK, TypeOK', PendingSilent, ReviewInv, NEW p \in Processes,
           NEW at \in {"dispatch", "dispatch_tests"}, Insert(p, at)
    PROVE  ReviewInv'
<1> DEFINE todo == process[p].todo
<1>1. /\ todo # <<>> /\ jobs' = Append(jobs, NewJob(Head(todo)))
      /\ ThenInsert(p, at, Tail(todo)) /\ UNCHANGED feature /\ jobs \in Seq(Job)
  BY DEF Insert, TypeOK, Coherent
<1>2. JobStep
  BY InsertJobStep
<1>3. CASE Plain(process[p])
  <2>1. Head(todo) \in Others /\ Tail(todo) \in Seq(Others)
    BY <1>1, <1>3, HeadTailProperties DEF Plain
  <2>2. Plainly(p)
    BY <1>1, <2>1, GoesPlainly
  <2>3. jobs' # Append(jobs, NewJob("agentic_review"))
    <3>1. /\ jobs'[Len(jobs) + 1] = NewJob(Head(todo))
          /\ Append(jobs, NewJob("agentic_review"))[Len(jobs) + 1] = NewJob("agentic_review")
      BY <1>1
    <3> QED BY <2>1, <3>1 DEF NewJob, Others
  <2>4. ReviewJobs' = ReviewJobs
    BY <1>2, <2>3, JobsGo DEF ReviewInv
  <2> QED BY <1>1, <1>2, <2>2, <2>4, QuietCount
<1>4. CASE todo = <<"agentic_review">>
  <2>1. jobs' = Append(jobs, NewJob("agentic_review")) /\ ThenInsert(p, at, <<>>)
    BY <1>1, <1>4
  <2>2. Plainly(p)
    <3>1. <<>> \in Seq(Others)
      OBVIOUS
    <3> QED BY <2>1, <3>1, GoesPlainly
  <2>3. ResultsEnd' /\ PassedBuilds \subseteq PassedBuilds'
    BY <1>2, JobsGo DEF ReviewInv
  <2>4. ReviewsAlone' /\ Reviewers' = Reviewers \ {p} /\ p \in Reviewers
    BY <1>4, <2>2, ReviewersAfter DEF ReviewInv, Plainly
  <2>5. ReviewJobs' = ReviewJobs \cup {Len(jobs) + 1}
    BY <1>1, <2>1 DEF ReviewJobs, Of, NewJob
  <2>6. /\ IsFiniteSet(ReviewJobs)
        /\ Cardinality(ReviewJobs) \in Nat /\ Cardinality(PassedBuilds) \in Nat
        /\ Cardinality(PassedBuilds') \in Nat
        /\ Cardinality(PassedBuilds) <= Cardinality(PassedBuilds')
    BY <2>3, FiniteJobs DEF TypeOK
  <2>7. Cardinality(ReviewJobs') \in Nat /\ Cardinality(ReviewJobs') <= Cardinality(ReviewJobs) + 1
    BY <2>5, <2>6, FS_AddElement, FS_CardinalityType
  <2>8. /\ IsFiniteSet(Reviewers') /\ Cardinality(Reviewers') = Cardinality(Reviewers) - 1
        /\ Cardinality(Reviewers) \in Nat /\ Cardinality(Reviewers') \in Nat
    BY <2>4, FS_RemoveElement, FS_CardinalityType DEF ReviewInv, ReviewsCounted
  <2>9. Cardinality(ReviewJobs) + Cardinality(Reviewers) + Testing <= Cardinality(PassedBuilds)
    BY DEF ReviewInv, ReviewsCounted
  <2>10. Testing' = Testing /\ Testing \in Nat
    BY <1>1 DEF Testing
  <2>11. Cardinality(ReviewJobs') + Cardinality(Reviewers') + Testing' <= Cardinality(PassedBuilds')
    BY <2>6, <2>7, <2>8, <2>9, <2>10
  <2> QED BY <2>3, <2>4, <2>8, <2>11 DEF ReviewInv, ReviewsCounted
<1> QED BY <1>3, <1>4 DEF ReviewInv, ReviewsAlone

NotEntered == feature'.status = "testing" => feature.status = "testing"

\* No statement but SetTesting's puts a feature into testing.
LEMMA OnlyBuildsTest ==
    ASSUME feature \in Feature
    PROVE  /\ UNCHANGED feature => NotEntered
           /\ UpdateAdr \/ SetSpecReady => NotEntered
           /\ ApproveAdr \/ QueueBuild \/ RetryBuild \/ ResumeImplementation => NotEntered
           /\ SetRunning \/ ApproveReview => NotEntered
           /\ SetInReview \/ SetReturned => NotEntered
           /\ ResetForRetry \/ RestartFromCancelled \/ ResetForGrillRedo => NotEntered
           /\ CancelFeature => NotEntered
           /\ \A awaiting \in BOOLEAN : SetAwaitingUserInput(awaiting) => NotEntered
           /\ \A status \in Status \ {"testing"} : UpdateStatus(status) => NotEntered
<1> USE DEF NotEntered, Where, Feature
<1>1. UNCHANGED feature => NotEntered
  OBVIOUS
<1>2. UpdateAdr \/ SetSpecReady => NotEntered
  BY DEF UpdateAdr, SetSpecReady
<1>3. ApproveAdr \/ QueueBuild \/ RetryBuild \/ ResumeImplementation => NotEntered
  BY DEF ApproveAdr, QueueBuild, RetryBuild, ResumeImplementation
<1>4. SetRunning \/ ApproveReview => NotEntered
  BY DEF SetRunning, ApproveReview
<1>5. SetInReview \/ SetReturned => NotEntered
  BY DEF SetInReview, SetReturned
<1>6. ResetForRetry \/ RestartFromCancelled \/ ResetForGrillRedo => NotEntered
  BY DEF ResetForRetry, RestartFromCancelled, ResetForGrillRedo, ResetToDraft
<1>7. CancelFeature => NotEntered
  BY DEF CancelFeature
<1>8. \A awaiting \in BOOLEAN : SetAwaitingUserInput(awaiting) => NotEntered
  BY DEF SetAwaitingUserInput
<1>9. \A status \in Status \ {"testing"} : UpdateStatus(status) => NotEntered
  BY DEF UpdateStatus
<1> QED BY <1>1, <1>2, <1>3, <1>4, <1>5, <1>6, <1>7, <1>8, <1>9

\* What a step does that has no part in the count.
Bystands(p) == NotEntered /\ ReviewJobs' = ReviewJobs /\ (UNCHANGED process \/ Plainly(p))

LEMMA JobsStay == UNCHANGED jobs => ReviewJobs' = ReviewJobs
BY DEF ReviewJobs, Of

LEMMA ArrivalBystands ==
    ASSUME TypeOK, NEW p \in Processes, Arrival(p)
    PROVE  Bystands(p)
<1>0. feature \in Feature /\ {"spec_grill", "feature_build"} \subseteq Others
  BY DEF TypeOK, Others, Kind
<1>1. CASE PatchArrives(p) \/ RetryBuildArrives(p) \/ RetryGrillArrives(p) \/ RedoArrives(p)
  BY <1>0, <1>1, OnlyBuildsTest, GoesPlainly, JobsStay
     DEF PatchArrives, RetryBuildArrives, RetryGrillArrives, RedoArrives, Bystands
<1>2. CASE Resume(p) \/ Restart(p)
  BY <1>0, <1>2, OnlyBuildsTest, GoesPlainly, JobsStay DEF Resume, Restart, Bystands
<1>3. CASE Cancel(p) \/ Reply(p) \/ Configure(p) \/ MergeDelivered(p) \/ ReviewDelivered(p)
  BY <1>0, <1>3, OnlyBuildsTest, GoesPlainly, JobsStay
     DEF Cancel, Reply, Configure, MergeDelivered, ReviewDelivered, Bystands
<1> QED BY <1>1, <1>2, <1>3 DEF Arrival

LEMMA ContinueBystands ==
    ASSUME TypeOK, NEW p \in Processes, Continue(p),
           ~(Dispatch(p) \/ InsertTest(p) \/ GateAdvance(p))
    PROVE  Bystands(p)
<1>0. feature \in Feature /\ {"spec_grill", "feature_build"} \subseteq Others
  BY DEF TypeOK, Others, Kind
<1>1. CASE EditAdr(p) \/ Approve(p) \/ StartBuild(p) \/ RetryBuildWrite(p)
  BY <1>0, <1>1, OnlyBuildsTest, GoesPlainly, JobsStay
     DEF EditAdr, Approve, StartBuild, RetryBuildWrite, Bystands
<1>2. CASE RetryGrillWrite(p) \/ RedoWrite(p) \/ ClearAwaiting(p) \/ ReturnForReview(p)
  BY <1>0, <1>2, OnlyBuildsTest, GoesPlainly, JobsStay
     DEF RetryGrillWrite, RedoWrite, ClearAwaiting, ReturnForReview, Bystands
<1>3. CASE \/ RetryBuildReadJobs(p) \/ RetryGrillReadJobs(p) \/ RedoReadJobs(p)
           \/ GateRead(p) \/ GateList(p)
  BY <1>0, <1>3, OnlyBuildsTest, GoesPlainly, JobsStay
     DEF RetryBuildReadJobs, RetryGrillReadJobs, RedoReadJobs, GateRead, GateList, Bystands
<1>4. CASE GateReturn(p) \/ GateError(p)
  BY <1>0, <1>4, OnlyBuildsTest, GoesPlainly, JobsStay
     DEF GateReturn, GateError, Bystands, Status
<1>5. CASE WriteStatus(p)
  <2>1. process[p].choice \in Status \ {"testing"}
    BY <1>5 DEF WriteStatus, TypeOK, Coherent, Status
  <2> QED BY <1>0, <1>5, <2>1, OnlyBuildsTest, GoesPlainly, JobsStay DEF WriteStatus, Bystands
<1>6. CASE CancelJobs(p)
  <2>1. jobs \in Seq(Job) /\ \A j \in DOMAIN jobs : jobs[j] \in Job
    BY ElementOfSeq DEF TypeOK
  <2>2. ReviewJobs' = ReviewJobs
    BY <1>6, <2>1 DEF CancelJobs, CancelActiveForFeature, ReviewJobs, Of, Job
  <2> QED BY <1>0, <1>6, <2>2, OnlyBuildsTest, GoesPlainly DEF CancelJobs, Bystands
<1>7. CASE DispatchTests(p)
  <2>1. TestBatch \in Seq(Others)
    <3>1. project.tests \in Nat
      BY BoundsAssumption DEF TypeOK, Project
    <3>2. [i \in 1..project.tests |-> "test_run"] \in Seq(Others)
      BY <3>1 DEF Others, Kind, TestKinds
    <3>3. <<"script_test_run", "script_test_run">> \in Seq(Others) /\ <<>> \in Seq(Others)
      BY DEF Others, Kind, TestKinds
    <3> QED BY <3>2, <3>3, ConcatProperties DEF TestBatch
  <2>2. (IF HasActiveFeatureTestRuns THEN <<>> ELSE TestBatch) \in Seq(Others)
    BY <2>1
  <2> QED BY <1>0, <1>7, <2>2, OnlyBuildsTest, GoesPlainly, JobsStay DEF DispatchTests, Bystands
<1> QED BY <1>1, <1>2, <1>3, <1>4, <1>5, <1>6, <1>7 DEF Continue

\* An event says something of one job, which stays of its kind.
LEMMA SaidJobs ==
    ASSUME TypeOK, NEW j \in DOMAIN jobs, NEW said, NEW result, Say(j, said, result)
    PROVE  ReviewJobs' = ReviewJobs /\ jobs'[j].kind = jobs[j].kind /\ jobs'[j].result = result
           /\ j \in DOMAIN jobs'
<1>1. jobs \in Seq(Job) /\ jobs[j] \in Job
  BY ElementOfSeq DEF TypeOK
<1> QED BY <1>1 DEF Say, Job, ReviewJobs, Of

LEMMA EventBystands ==
    ASSUME TypeOK, NEW p \in Processes, NEW j \in DOMAIN jobs, Event(p, j), ~BuildSucceeded(p, j)
    PROVE  Bystands(p)
<1> USE DEF Ends, Concludes, Dies, Bystands
<1>0. feature \in Feature /\ "spec_grill" \in Others
  BY DEF TypeOK, Others, Kind
<1>1. CASE RunStarted(p, j) \/ AskUser(p, j) \/ SubmitAdr(p, j)
  BY <1>0, <1>1, OnlyBuildsTest, SaidJobs DEF RunStarted, AskUser, SubmitAdr
<1>2. CASE BuildFailed(p, j) \/ ReviewApproved(p, j) \/ ReviewChangesRequested(p, j)
  BY <1>0, <1>2, OnlyBuildsTest, SaidJobs
     DEF BuildFailed, ReviewApproved, ReviewChangesRequested, Status
<1>3. CASE RequestActionItem(p, j) \/ SubmitTestReport(p, j)
  BY <1>0, <1>3, OnlyBuildsTest, GoesPlainly, SaidJobs
     DEF RequestActionItem, SubmitTestReport, Status
<1>4. CASE RunFailed(p, j) \/ RunCancelled(p, j) \/ ForkFailed(p, j)
  BY <1>0, <1>4, OnlyBuildsTest, GoesPlainly, SaidJobs
     DEF RunFailed, RunCancelled, ForkFailed, Status
<1> QED BY <1>1, <1>2, <1>3, <1>4 DEF Event

LEMMA ReviewStep ==
    ASSUME TypeOK, TypeOK', PendingSilent, ReviewInv, [Next]_vars
    PROVE  ReviewInv'
<1>0. JobStep /\ feature \in Feature
  BY NextJobStep DEF TypeOK
<1>1. ASSUME NEW p \in Processes, Bystands(p) PROVE ReviewInv'
  BY <1>0, <1>1, QuietCount DEF Bystands, NotEntered
<1>2. ASSUME NEW p \in Processes, Dispatch(p) \/ InsertTest(p) PROVE ReviewInv'
  BY <1>2, InsertCount DEF Dispatch, InsertTest
<1>3. ASSUME NEW p \in Processes, GateAdvance(p) PROVE ReviewInv'
  <2>1. UNCHANGED jobs
    BY <1>3 DEF GateAdvance
  <2>2. CASE project.review /\ CanReview
    <3>1. process' = [process EXCEPT ![p] = [Idle EXCEPT !.at = "dispatch",
                                                         !.todo = <<"agentic_review">>]]
      BY <1>3, <2>2 DEF GateAdvance, ThenDispatch, ThenInsert
    <3>2. /\ process'[p].todo = <<"agentic_review">>
          /\ process' = [process EXCEPT ![p] = process'[p]]
      BY <3>1 DEF TypeOK, Idle
    <3>3. feature.status = "testing" /\ feature'.status # "testing"
      BY <1>0, <1>3, <2>2 DEF GateAdvance, SetAgenticReview, CanReview, Where, Feature
    <3> QED BY <2>1, <3>2, <3>3, DecidedCount
  <2>3. CASE ~(project.review /\ CanReview)
    <3>1. NotEntered
      BY <1>0, <1>3, <2>3, OnlyBuildsTest
         DEF GateAdvance, SetAgenticReview, Where, NotEntered
    <3>2. Plainly(p)
      <4>1. <<>> \in Seq(Others)
        OBVIOUS
      <4> QED BY <1>3, <2>3, <4>1, GoesPlainly DEF GateAdvance, ThenDispatch
    <3> QED BY <1>1, <2>1, <3>1, <3>2, JobsStay DEF Bystands
  <2> QED BY <2>2, <2>3
<1>4. ASSUME NEW p \in Processes, NEW j \in DOMAIN jobs, BuildSucceeded(p, j) PROVE ReviewInv'
  <2>1. /\ ReviewJobs' = ReviewJobs /\ jobs'[j].kind = jobs[j].kind
        /\ jobs'[j].result = "passed" /\ j \in DOMAIN jobs'
    BY <1>4, SaidJobs DEF BuildSucceeded, Concludes, Ends
  <2>2. jobs[j].kind = "feature_build" /\ jobs[j].said # "ended"
    BY <1>4 DEF BuildSucceeded, Concludes, Ends
  <2>3. PassedBuilds # PassedBuilds'
    BY <2>1, <2>2 DEF PassedBuilds, Of, ReviewInv, ResultsEnd
  <2>4. Plainly(p)
    BY <1>4, GoesPlainly DEF BuildSucceeded
  <2> QED BY <1>0, <2>1, <2>3, <2>4, QuietCount
<1>5. ASSUME NEW p \in Processes, Arrival(p) \/ Continue(p) PROVE ReviewInv'
  BY <1>1, <1>2, <1>3, <1>5, ArrivalBystands, ContinueBystands
<1>6. ASSUME NEW p \in Processes, NEW j \in DOMAIN jobs, Event(p, j) PROVE ReviewInv'
  BY <1>1, <1>4, <1>6, EventBystands
<1>7. ASSUME NEW p \in Processes, Tick(p) \/ DispatchTestsThrows(p) \/ Abandon(p)
      PROVE  ReviewInv'
  BY <1>0, <1>1, <1>7, OnlyBuildsTest, GoesPlainly, JobsStay
     DEF Tick, DispatchTestsThrows, Abandon, Bystands
<1>8. ASSUME NEW j \in DOMAIN jobs, Claim(j) \/ Finish(j) PROVE ReviewInv'
  <2>1. jobs \in Seq(Job) /\ jobs[j] \in Job
    BY ElementOfSeq DEF TypeOK
  <2>2. DOMAIN jobs' = DOMAIN jobs /\ \A k \in DOMAIN jobs : jobs'[k].kind = jobs[k].kind
    <3>1. CASE Claim(j)
      BY <2>1, <3>1 DEF Claim, Job
    <3>2. CASE Finish(j)
      BY <2>1, <3>2 DEF Finish, Job
    <3> QED BY <1>8, <3>1, <3>2
  <2>3. ReviewJobs' = ReviewJobs
    BY <2>2 DEF ReviewJobs, Of
  <2> QED BY <1>0, <1>8, <2>3, QuietCount DEF Claim, Finish
<1>9. CASE UNCHANGED vars
  BY <1>9 DEF vars, ReviewInv, ResultsEnd, ReviewsAlone, ReviewsCounted, Reviewers, Inserting,
              ReviewJobs, PassedBuilds, Of, Testing
<1> QED BY <1>2, <1>3, <1>4, <1>5, <1>6, <1>7, <1>8, <1>9 DEF Next

LEMMA ReviewStarts == Init => ReviewInv
<1> SUFFICES ASSUME Init PROVE ReviewInv
  OBVIOUS
<1>1. ReviewJobs = {} /\ PassedBuilds = {} /\ ResultsEnd /\ Testing = 0
  BY DEF Init, ReviewJobs, PassedBuilds, Of, ResultsEnd, Testing
<1>2. <<"spec_grill">> \in Seq(Others) /\ <<>> \in Seq(Others)
  BY DEF Others, Kind
<1>3. \A p \in Processes : Plain(process[p])
  BY <1>2 DEF Init, Plain, Idle
<1>4. Reviewers = {}
  <2>1. \A p \in Processes : process[p].todo = <<"spec_grill">> \/ process[p].todo = <<>>
    BY DEF Init, Idle
  <2> QED BY <2>1 DEF Reviewers, Inserting
<1>5. ReviewsCounted
  BY <1>1, <1>4, FS_EmptySet DEF ReviewsCounted
<1> QED BY <1>1, <1>3, <1>5 DEF ReviewInv, ReviewsAlone

\* Gates that decide one feature at once dispatch one review between them: there is a
\* successful build for each (features/testing-gate-runner.ts, features/repository.ts).
THEOREM ReviewsStayWithinBuilds == Spec => []ReviewsWithinBuilds
<1>1. Init => PendingSilent
  BY DEF Init, PendingSilent
<1>2. TypeOK /\ TypeOK' /\ PendingSilent /\ ReviewInv /\ [Next]_vars
        => (PendingSilent /\ ReviewInv)'
  BY PendingStep, ReviewStep
<1>3. TypeOK /\ ReviewInv => ReviewsWithinBuilds
  <2> SUFFICES ASSUME TypeOK, ReviewInv PROVE ReviewsWithinBuilds
    OBVIOUS
  <2>1. IsFiniteSet(DOMAIN jobs)
    BY FiniteDomain DEF TypeOK
  <2>2. IsFiniteSet(ReviewJobs) /\ IsFiniteSet(PassedBuilds)
    BY <2>1, FS_Subset DEF ReviewJobs, PassedBuilds, Of
  <2>3. /\ Cardinality(ReviewJobs) \in Nat /\ Cardinality(PassedBuilds) \in Nat
        /\ Cardinality(Reviewers) \in Nat
    BY <2>2, FS_CardinalityType DEF ReviewInv, ReviewsCounted
  <2>4. Cardinality(ReviewJobs) + Cardinality(Reviewers) <= Cardinality(PassedBuilds)
    BY <2>3 DEF ReviewInv, ReviewsCounted, Testing
  <2> QED BY <2>4 DEF ReviewsWithinBuilds, ReviewJobs, Reviewers, PassedBuilds
<1> QED BY <1>1, <1>2, <1>3, ReviewStarts, TypeCorrect, PTL DEF Spec
=============================================================================
