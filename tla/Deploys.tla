------------------------------- MODULE Deploys -------------------------------
(***************************************************************************)
(* One project's deployments: the requests and webhooks that ask for one,  *)
(* the queue that admits one at a time, the operations themselves and the  *)
(* ledger they are reported to (projects/routes.ts, github/                *)
(* webhook-routes.ts, jobs/dispatch.ts, deploys/).                         *)
(*                                                                         *)
(* main is a number: how many commits it has.  What a deploy applies is    *)
(* main as it is when the Orchestrator takes the job.                      *)
(***************************************************************************)
EXTENDS Integers, Sequences, FiniteSets, SequencesExt

CONSTANTS
    Requests,       \* handlers that may be under way at once
    MaxCommits,     \* bound: commits on main
    MaxJobs,        \* bound: deploy and rollback jobs
    MaxRepeats      \* bound: webhooks and reports delivered again

ASSUME BoundsAssumption == MaxCommits \in Nat /\ MaxJobs \in Nat /\ MaxRepeats \in Nat

VARIABLES
    status,     \* the project's: initializing or ready
    merged,     \* whether its project_init feature is merged
    main,
    hooks,      \* webhooks GitHub has yet to deliver
    jobs,       \* deploy and rollback jobs in order of creation
    ledger,     \* project_deploys, in order of created_at
    reports,    \* finished jobs whose outcome is yet to be delivered
    req,        \* req[r]: where a handler is, and what it has read
    repeats,
    due         \* commits whose push found a ready project and nothing in its way

vars == <<status, merged, main, hooks, jobs, ledger, reports, req, repeats, due>>

Idle == [pc |-> "idle", target |-> 0]

Init ==
    /\ status = "initializing" /\ merged = FALSE
    /\ main = 0
    /\ hooks = {} /\ jobs = <<>> /\ ledger = <<>> /\ reports = {}
    /\ req = [r \in Requests |-> Idle]
    /\ repeats = 0
    /\ due = {}

At(r, pc) == req[r].pc = pc
Goes(r, pc) == req' = [req EXCEPT ![r].pc = pc]
Ends(r) == req' = [req EXCEPT ![r] = Idle]

-----------------------------------------------------------------------------
(* The queue. *)

Active(j) == jobs[j].status \in {"pending", "running"}

Job(kind, target) ==
    [kind |-> kind, status |-> "pending", target |-> target, commit |-> 0, revision |-> 0]

\* The partial unique index refuses a second active operation, and the caller is
\* told of the conflict instead of an error.
DispatchDeployJob(kind, target) ==
    IF \E j \in DOMAIN jobs : Active(j) THEN UNCHANGED jobs
    ELSE jobs' = Append(jobs, Job(kind, target))

\* The pre-check looks at the newest operation only.
InFlight == jobs # <<>> /\ Active(Len(jobs))

Room == Len(jobs) < MaxJobs

-----------------------------------------------------------------------------
(* The ledger. *)

Completed == {i \in DOMAIN ledger : ledger[i].status = "completed" /\ ledger[i].revision # 0}

HasRevision(revision) == \E i \in Completed : ledger[i].revision = revision

\* The newest row that produced a revision, 0 when there is none.
CurrentRevision ==
    IF Completed = {} THEN 0
    ELSE ledger[CHOOSE i \in Completed : \A k \in Completed : k <= i].revision

Row(j) ==
    [job |-> j, kind |-> jobs[j].kind, revision |-> jobs[j].revision,
     status |-> IF jobs[j].status = "failed" THEN "failed" ELSE "completed"]

RecordAlways(j) == ledger' = Append(ledger, Row(j))

\* ON CONFLICT (job_id) DO NOTHING: a report delivered twice is one row.
Record(j) ==
    IF \E i \in DOMAIN ledger : ledger[i].job = j THEN UNCHANGED ledger
    ELSE ledger' = Append(ledger, Row(j))

-----------------------------------------------------------------------------
(* Requests.  A handler's reads and its INSERT are separate statements. *)

CompleteInit(r) ==
    /\ At(r, "idle") /\ status = "initializing"
    /\ merged' = TRUE
    /\ Goes(r, "markReady")
    /\ UNCHANGED <<status, main, hooks, jobs, ledger, reports, repeats, due>>

MarkReady(r) ==
    /\ At(r, "markReady")
    /\ status' = "ready"
    /\ Goes(r, "deploy")
    /\ UNCHANGED <<merged, main, hooks, jobs, ledger, reports, repeats, due>>

DeployNow(r) ==
    /\ At(r, "idle") /\ status = "ready" /\ Room
    /\ ~InFlight
    /\ Goes(r, "deploy")
    /\ UNCHANGED <<status, merged, main, hooks, jobs, ledger, reports, repeats, due>>

Deploy(r) ==
    /\ At(r, "deploy") /\ Room
    /\ DispatchDeployJob("deploy", 0)
    /\ Ends(r)
    /\ UNCHANGED <<status, merged, main, hooks, ledger, reports, repeats, due>>

RollbackChecks(r) ==
    \E revision \in 1..MaxJobs :
      /\ At(r, "idle") /\ Room
      /\ HasRevision(revision) /\ CurrentRevision # revision
      /\ req' = [req EXCEPT ![r] = [pc |-> "precheck", target |-> revision]]
      /\ UNCHANGED <<status, merged, main, hooks, jobs, ledger, reports, repeats, due>>

RollbackPrechecks(r) ==
    /\ At(r, "precheck")
    /\ IF InFlight THEN Ends(r) ELSE Goes(r, "rollback")
    /\ UNCHANGED <<status, merged, main, hooks, jobs, ledger, reports, repeats, due>>

Rollback(r) ==
    /\ At(r, "rollback") /\ Room
    /\ DispatchDeployJob("rollback", req[r].target)
    /\ Ends(r)
    /\ UNCHANGED <<status, merged, main, hooks, ledger, reports, repeats, due>>

-----------------------------------------------------------------------------
(* Webhooks, delivered in any order and perhaps again. *)

Taken(h) ==
    \/ hooks' = hooks \ {h} /\ UNCHANGED repeats
    \/ repeats < MaxRepeats /\ repeats' = repeats + 1 /\ UNCHANGED hooks

\* The push will be deployed unless an operation that has read main, or a
\* rollback, is active.
Clear == \A j \in DOMAIN jobs : Active(j) => jobs[j] = Job("deploy", 0)

PushOnce(h) ==
    /\ h \in hooks /\ h.event = "push" /\ Room
    /\ Taken(h)
    /\ due' = IF status = "ready" /\ Clear THEN due \cup {h.commit} ELSE due
    /\ IF status = "ready" /\ jobs = <<>> THEN DispatchDeployJob("deploy", 0) ELSE UNCHANGED jobs
    /\ UNCHANGED <<status, merged, main, ledger, reports, req>>

\* A conflict is ignored: the delivery is answered 202 either way.
Push(h) ==
    /\ h \in hooks /\ h.event = "push" /\ Room
    /\ Taken(h)
    /\ due' = IF status = "ready" /\ Clear THEN due \cup {h.commit} ELSE due
    /\ IF status = "ready" THEN DispatchDeployJob("deploy", 0) ELSE UNCHANGED jobs
    /\ UNCHANGED <<status, merged, main, ledger, reports, req>>

PullRequestMerged(r, h) ==
    /\ At(r, "idle") /\ h \in hooks /\ h.event = "pull_request"
    /\ Taken(h)
    /\ IF merged THEN UNCHANGED <<merged, req>>
       ELSE merged' = TRUE /\ Goes(r, "initMerged")
    /\ UNCHANGED <<status, main, jobs, ledger, reports, due>>

\* The sibling push is not relied on: it may have come before and found the
\* project initializing.
InitMergedByPush(r) ==
    /\ At(r, "initMerged")
    /\ status' = "ready"
    /\ Ends(r)
    /\ UNCHANGED <<merged, main, hooks, jobs, ledger, reports, repeats, due>>

InitMerged(r) ==
    /\ At(r, "initMerged")
    /\ IF status = "initializing" THEN Goes(r, "markReady") ELSE Ends(r)
    /\ UNCHANGED <<status, merged, main, hooks, jobs, ledger, reports, repeats, due>>

Handles(r) ==
    \/ MarkReady(r) \/ Deploy(r) \/ RollbackPrechecks(r) \/ Rollback(r) \/ InitMerged(r)

-----------------------------------------------------------------------------
(* GitHub and the Orchestrator. *)

Commit ==
    /\ main < MaxCommits
    /\ main' = main + 1
    /\ hooks' = hooks \cup {[event |-> "push", commit |-> main + 1]}
    /\ UNCHANGED <<status, merged, jobs, ledger, reports, req, repeats, due>>

\* The merge of project_init's pull request is a commit too.
MergeInit ==
    /\ main < MaxCommits /\ merged = FALSE /\ ~\E h \in hooks : h.event = "pull_request"
    /\ main' = main + 1
    /\ hooks' = hooks \cup {[event |-> "push", commit |-> main + 1],
                            [event |-> "pull_request", commit |-> main + 1]}
    /\ UNCHANGED <<status, merged, jobs, ledger, reports, req, repeats, due>>

Claim(j) ==
    /\ jobs[j].status = "pending"
    /\ jobs' = [jobs EXCEPT ![j].status = "running",
                            ![j].commit = IF jobs[j].kind = "deploy" THEN main ELSE 0]
    /\ UNCHANGED <<status, merged, main, hooks, ledger, reports, req, repeats, due>>

Revisions == {jobs[j].revision : j \in DOMAIN jobs}

Finish(j) ==
    /\ jobs[j].status = "running"
    /\ \/ jobs' = [jobs EXCEPT ![j].status = "completed",
                               ![j].revision = Cardinality(Revisions \ {0}) + 1]
       \/ jobs' = [jobs EXCEPT ![j].status = "failed"]
    /\ reports' = reports \cup {j}
    /\ UNCHANGED <<status, merged, main, hooks, ledger, req, repeats, due>>

\* The Orchestrator retries a report until it is acknowledged, and the response
\* to one that was written may be lost.
Report(j) ==
    /\ j \in reports
    /\ Record(j)
    /\ \/ reports' = reports \ {j} /\ UNCHANGED repeats
       \/ repeats < MaxRepeats /\ repeats' = repeats + 1 /\ UNCHANGED reports
    /\ UNCHANGED <<status, merged, main, hooks, jobs, req, due>>

-----------------------------------------------------------------------------
Next ==
    \/ \E r \in Requests :
         \/ CompleteInit(r) \/ DeployNow(r) \/ RollbackChecks(r) \/ Handles(r)
         \/ \E h \in hooks : PullRequestMerged(r, h)
    \/ \E h \in hooks : Push(h)
    \/ Commit \/ MergeInit
    \/ \E j \in DOMAIN jobs : Claim(j) \/ Finish(j) \/ Report(j)

Spec == Init /\ [][Next]_vars

\* Handlers run to their end and the Orchestrator takes what is queued.
Fairness ==
    /\ \A r \in Requests : WF_vars(Handles(r))
    /\ \A j \in 1..MaxJobs :
         /\ WF_vars(j \in DOMAIN jobs /\ Claim(j))
         /\ WF_vars(j \in DOMAIN jobs /\ Finish(j))
         /\ WF_vars(j \in DOMAIN jobs /\ Report(j) /\ reports' # reports)

FairSpec == Spec /\ Fairness

-----------------------------------------------------------------------------
(* Properties. *)

DeployJob ==
    [kind : {"deploy", "rollback"}, status : {"pending", "running", "completed", "failed"},
     target : Nat, commit : Nat, revision : Nat]

Handler ==
    [pc : {"idle", "markReady", "deploy", "precheck", "rollback", "initMerged"}, target : Nat]

LedgerRow ==
    [job : DOMAIN jobs, kind : {"deploy", "rollback"}, revision : Nat,
     status : {"completed", "failed"}]

TypeOK ==
    /\ status \in {"initializing", "ready"} /\ merged \in BOOLEAN
    /\ main \in 0..MaxCommits /\ repeats \in 0..MaxRepeats
    /\ hooks \subseteq [event : {"push", "pull_request"}, commit : 1..main]
    /\ jobs \in Seq(DeployJob) /\ ledger \in Seq(LedgerRow)
    /\ reports \subseteq DOMAIN jobs
    /\ req \in [Requests -> Handler]
    /\ due \subseteq 1..main

\* The ledger says of each finished job what came of it, once, whatever is reported
\* again or late; and a rollback goes to a revision it lists (deploys/repository.ts:
\* 55-66, projects/routes.ts:863-866).
LedgerIsTrue ==
    /\ \A i, k \in DOMAIN ledger : ledger[i].job = ledger[k].job => i = k
    /\ \A i \in DOMAIN ledger : ledger[i] = Row(ledger[i].job) /\ ~Active(ledger[i].job)
    /\ \A j \in DOMAIN jobs : jobs[j].kind = "rollback" =>
         HasRevision(jobs[j].target)

\* A project that becomes ready gets its first deploy, whichever of the merge's two
\* webhooks comes first and although a user completes the setup at the same time
\* (github/webhook-routes.ts:152-160).
FirstDeploy == status = "ready" ~> jobs # <<>>

\* A commit whose push found the project ready and no rollback or running deploy
\* active is applied by some deploy (github/webhook-routes.ts:87-111).
DuePushesDeployed ==
    \A n \in 1..MaxCommits : n \in due ~> \E j \in DOMAIN jobs : jobs[j].commit >= n
=============================================================================
